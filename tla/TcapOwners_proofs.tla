-------------------------- MODULE TcapOwners_proofs --------------------------
(***************************************************************************)
(* Who may end what in the handler process, for any number of threads,     *)
(* transactions and ids.  The argument follows one transaction: the record *)
(* that names it, the id it points to, the one thread that holds the block *)
(* of its messages, and the one that freed its record and will delete it.  *)
(***************************************************************************)
EXTENDS TcapHandler_proofs

(* What the records and the library say of who belongs to whom.              *)
owner    == [id \in DlgIds |-> IF Live(id) THEN mInDlgRecordPool[id].trans ELSE NoTrans]
Existing == {t \in Trans : Exists(t)}
Unborn   == {t \in Trans : trans[t] = "none"}
view     == [own |-> owner, ptr |-> userptr, here |-> Existing, unborn |-> Unborn,
             held |-> blocked]

Views == {v \in [own : [DlgIds -> Trans \cup {NoTrans}], ptr : [Trans -> Ids0],
                 here : SUBSET Trans, unborn : SUBSET Trans, held : SUBSET Trans] :
            v.here \cap v.unborn = {}}

(* The calls serve after which the code deletes a transaction without having *)
(* freed the record: sending to the stack, and asking for a transaction's    *)
(* ids.                                                                      *)
CallsServe == "send" \notin Faults /\ "ids" \notin Faults

PoolFits(v) ==
  /\ \A id \in DlgIds : v.own[id] # NoTrans => v.own[id] \in v.here /\ v.ptr[v.own[id]] = id
  /\ \A t \in v.here : v.ptr[t] # NoId => v.own[v.ptr[t]] \in {t, NoTrans}
  /\ \A t \in v.unborn : v.ptr[t] = NoId

LibFits ==
  \A t \in Trans : /\ trans[t] \in {"open", "ended"} => userptr[t] # NoId
                   /\ inbound[t] # << >> => trans[t] \in {"open", "ended"}

(* The transaction was the dialogue's, and nobody else's took its place.     *)
SameDialogue(id, t, v) ==
  t \in Trans \ v.unborn /\ v.ptr[t] = id /\ v.own[id] \in {t, NoTrans}

-----------------------------------------------------------------------------
(* A transmit thread x.  A query has no record until it is mapped.           *)
Asking(x)  == x.kind = "QUERY" /\ x.at \in {"look", "build", "map", "preEnd"}
Opening(x) == x.kind = "QUERY" /\ x.at \in {"build", "map", "preEnd"}
AtWork(x)  == x.at \notin {"idle", "look", "freeOnly"} /\ ~Opening(x)

(* It holds the block of its transaction; it freed the record of its         *)
(* dialogue and will delete the transaction.                                 *)
TxHolds(x)    == x.at \in {"free", "delete"} \/ (x.at = "send" /\ x.kind \in Terminal)
TxFinishes(x) == x.at \in {"blockDelete", "delete"}

TxFits(x, v) ==
  /\ x.kind = "QUERY" => x.at \in {"look", "freeOnly", "build", "map", "preEnd", "send"}
  /\ x.at \in {"block", "blockAgain", "free", "delete"} => x.kind \in Terminal
  /\ x.at = "map" => x.kind \notin Terminal
  /\ Opening(x) => x.trans \in v.here /\ v.ptr[x.trans] = NoId
  /\ AtWork(x) => SameDialogue(x.id, x.trans, v)
  /\ TxHolds(x) => x.trans \in v.held
  /\ TxFinishes(x) => x.trans \in v.here /\ v.own[x.id] = NoTrans

(* A receive thread y: the same.                                             *)
Holding == {<< "look" >>, << "map", "unblock", "deliver" >>, << "unblock", "deliver" >>,
            << "unblock", "free", "delete", "deliver" >>,
            << "deliver", "unblock", "free", "delete" >>, << "unblock", "free", "delete" >>}
Finishing == {<< "delete", "deliver" >>, << "delete" >>}
Dropping == {<< "unblock", "delete" >>, << "unblock", "delete", "deliver" >>}

RxHolds(y)    == y.todo \in Holding
RxFinishes(y) == y.todo \in Finishing

RxFits(y, v) ==
  /\ y.todo \notin Dropping
  /\ y.todo # << >> => y.trans \notin v.unborn /\ v.ptr[y.trans] # NoId
  /\ y.todo = << "look" >> => y.trans \in v.here
  /\ y.id # NoId => SameDialogue(y.id, y.trans, v)
  /\ RxHolds(y) => y.trans \in v.held
  /\ RxFinishes(y) => y.trans \in v.here /\ y.id # NoId /\ v.own[y.id] = NoTrans

AllFit ==
  /\ PoolFits(view) /\ LibFits
  /\ \A w \in Tx : TxFits(tx[w], view)
  /\ \A r \in Rx : RxFits(rx[r], view)

-----------------------------------------------------------------------------
(* One thread alone holds a transaction, finishes it or opens it.            *)
Alone ==
  /\ \A w, v \in Tx : TxHolds(tx[w]) /\ TxHolds(tx[v]) /\ tx[w].trans = tx[v].trans => w = v
  /\ \A w \in Tx, r \in Rx : TxHolds(tx[w]) /\ RxHolds(rx[r]) => tx[w].trans # rx[r].trans
  /\ \A w, v \in Tx :
       TxFinishes(tx[w]) /\ TxFinishes(tx[v]) /\ tx[w].trans = tx[v].trans => w = v
  /\ \A w \in Tx, r \in Rx : TxFinishes(tx[w]) /\ RxFinishes(rx[r]) => tx[w].trans # rx[r].trans
  /\ \A w, v \in Tx : Opening(tx[w]) /\ Opening(tx[v]) /\ tx[w].trans = tx[v].trans => w = v

(* The id of a query that waits or is asked is nobody else's.                *)
Unused(id, v, xs, ys) ==
  /\ v.own[id] = NoTrans
  /\ \A t \in v.here : v.ptr[t] # id
  /\ \A w \in Tx : AtWork(xs[w]) => xs[w].id # id
  /\ \A r \in Rx : ys[r].id # id

Queries ==
  /\ \A i \in 1 .. Len(rdQueue) :
       rdQueue[i].kind = "QUERY" => Unused(rdQueue[i].id, view, tx, rx)
  /\ \A w \in Tx : Asking(tx[w]) => Unused(tx[w].id, view, tx, rx)
  /\ \A i, j \in 1 .. Len(rdQueue) :
       rdQueue[i].kind = "QUERY" /\ rdQueue[j].kind = "QUERY" /\ rdQueue[i].id = rdQueue[j].id
         => i = j
  /\ \A i \in 1 .. Len(rdQueue), w \in Tx :
       rdQueue[i].kind = "QUERY" /\ Asking(tx[w]) => rdQueue[i].id # tx[w].id
  /\ \A w, v \in Tx : Asking(tx[w]) /\ Asking(tx[v]) /\ tx[w].id = tx[v].id => w = v

Belongs == AllFit /\ Alone /\ Queries

-----------------------------------------------------------------------------
(* How the view may change without disturbing a thread at its work: what     *)
(* each kind of step does to the view, for any thread x or y.                *)
TxStates == {TxIdle} \cup TxWork
RxStates == {RxIdle} \cup UNION {RxWorkOf(r) : r \in Rx}

LEMMA TxRanges ==
  ASSUME NEW x \in TxStates
  PROVE  /\ x.at # "idle" => x.id \in DlgIds /\ x.id # NoId
         /\ x.at \notin {"idle", "look", "freeOnly"} => x.trans \in Trans
         /\ x.at = "idle" => x = TxIdle /\ x.kind = "none" /\ x.id = NoId
BY IdSets DEF TxStates, TxIdle, TxWork, TxPlaces

LEMMA RxRanges ==
  ASSUME NEW y \in RxStates
  PROVE  /\ y.id \in Ids0
         /\ y.todo # << >> => y.trans \in Trans
         /\ y.todo = << >> => y.id = NoId /\ y = RxIdle
<1>1. CASE y = RxIdle
  BY <1>1 DEF RxIdle, Ids0
<1>2. ASSUME NEW r \in Rx, y \in RxWorkOf(r) PROVE y.id \in Ids0 /\ y.trans \in Trans /\ y.todo # << >>
  <2>1. \A a, b, c, d : << a >> # << >> /\ << a, b >> # << >> /\ << a, b, c >> # << >>
                        /\ << a, b, c, d >> # << >>
    OBVIOUS
  <2>2. QED
    <3>1. y.id \in Ids0 /\ y.trans \in Trans
      BY <1>2 DEF RxWorkOf
    <3>2. y.todo \in {<< "look" >>} \cup QueryLeft \cup AnswerLeft \cup TimeoutLeft \cup DropLeft \cup LateLeft
      BY <1>2 DEF RxWorkOf
    <3>3. y.todo # << >>
      BY <2>1, <3>2 DEF QueryLeft, AnswerLeft, TimeoutLeft, DropLeft, LateLeft
    <3>4. QED
      BY <3>1, <3>3
<1>3. QED
  BY <1>1, <1>2 DEF RxStates

(* More transactions are blocked, or one less that this thread holds not.    *)
LEMMA BlockedChanges ==
  ASSUME NEW v, NEW u, u.own = v.own, u.ptr = v.ptr, u.here = v.here, u.unborn = v.unborn
  PROVE  /\ PoolFits(v) => PoolFits(u)
         /\ \A x : TxFits(x, v) /\ (TxHolds(x) => x.trans \in u.held) => TxFits(x, u)
         /\ \A y : RxFits(y, v) /\ (RxHolds(y) => y.trans \in u.held) => RxFits(y, u)
BY DEF PoolFits, TxFits, RxFits, SameDialogue

LEMMA RecordFreed ==
  ASSUME NEW v \in Views, NEW u, NEW id \in DlgIds,
         u.own = [v.own EXCEPT ![id] = NoTrans],
         u.ptr = v.ptr, u.here = v.here, u.unborn = v.unborn, u.held = v.held
  PROVE  /\ PoolFits(v) => PoolFits(u)
         /\ \A x \in TxStates : TxFits(x, v) => TxFits(x, u)
         /\ \A y \in RxStates : RxFits(y, v) => RxFits(y, u)
<1>1. \A i \in DlgIds : u.own[i] = IF i = id THEN NoTrans ELSE v.own[i]
  BY DEF Views
<1>2. \A i \in DlgIds : \A t : SameDialogue(i, t, v) => SameDialogue(i, t, u)
  BY <1>1 DEF SameDialogue
<1>3. PoolFits(v) => PoolFits(u)
  BY <1>1, IdSets DEF PoolFits, Views, Ids0
<1>4. \A x \in TxStates : TxFits(x, v) => TxFits(x, u)
  BY <1>1, <1>2, TxRanges DEF TxFits, AtWork, TxFinishes
<1>5. \A y \in RxStates : RxFits(y, v) => RxFits(y, u)
  BY <1>1, <1>2, RxRanges DEF RxFits, Ids0
<1>6. QED
  BY <1>3, <1>4, <1>5

(* A transaction is deleted, which no record names and no thread opens.      *)
LEMMA TransDeleted ==
  ASSUME NEW v \in Views, NEW u, NEW t \in v.here,
         u.own = v.own, u.ptr = v.ptr, u.here = v.here \ {t}, u.unborn = v.unborn,
         v.held \subseteq u.held, v.ptr[t] # NoId, \A id \in DlgIds : v.own[id] # t
  PROVE  /\ PoolFits(v) => PoolFits(u)
         /\ \A x : TxFits(x, v) /\ (TxFinishes(x) => x.trans # t) => TxFits(x, u)
         /\ \A y : RxFits(y, v) /\ (y.todo = << "look" >> \/ RxFinishes(y) => y.trans # t)
                     => RxFits(y, u)
<1>1. PoolFits(v) => PoolFits(u)
  BY DEF PoolFits
<1>2. \A x : TxFits(x, v) /\ (TxFinishes(x) => x.trans # t) => TxFits(x, u)
  BY DEF TxFits, SameDialogue
<1>3. \A y : RxFits(y, v) /\ (y.todo = << "look" >> \/ RxFinishes(y) => y.trans # t)
                     => RxFits(y, u)
  BY DEF RxFits, SameDialogue
<1>4. QED
  BY <1>1, <1>2, <1>3

(* A transaction is created, with or without a life.                         *)
LEMMA TransBorn ==
  ASSUME NEW v \in Views, NEW u, NEW t \in v.unborn,
         u.own = v.own, u.ptr = v.ptr, u.here = v.here \/ u.here = v.here \cup {t},
         u.unborn = v.unborn \ {t}, u.held = v.held
  PROVE  /\ PoolFits(v) => PoolFits(u)
         /\ \A x : TxFits(x, v) => TxFits(x, u)
         /\ \A y : RxFits(y, v) => RxFits(y, u)
<1>1. PoolFits(v) => PoolFits(u)
  BY DEF PoolFits
<1>2. \A x : TxFits(x, v) => TxFits(x, u)
  BY DEF TxFits, SameDialogue
<1>3. \A y : RxFits(y, v) => RxFits(y, u)
  BY DEF RxFits, SameDialogue
<1>4. QED
  BY <1>1, <1>2, <1>3

(* An id that is nobody's gets a transaction that has no record.             *)
LEMMA RecordWritten ==
  ASSUME NEW v \in Views, NEW u, NEW id \in DlgIds, NEW t \in v.here,
         u.own = [v.own EXCEPT ![id] = t], u.ptr = [v.ptr EXCEPT ![t] = id],
         u.here = v.here, u.unborn = v.unborn, u.held = v.held,
         v.own[id] = NoTrans, \A s \in v.here : v.ptr[s] # id, v.ptr[t] = NoId
  PROVE  /\ PoolFits(v) => PoolFits(u)
         /\ \A x \in TxStates : /\ TxFits(x, v)
                                /\ AtWork(x) => x.id # id
                                /\ Opening(x) => x.trans # t
                                => TxFits(x, u)
         /\ \A y \in RxStates : RxFits(y, v) /\ y.id # id => RxFits(y, u)
<1>1. \A i \in DlgIds : u.own[i] = IF i = id THEN t ELSE v.own[i]
  BY DEF Views
<1>2. \A s \in Trans : u.ptr[s] = IF s = t THEN id ELSE v.ptr[s]
  BY DEF Views
<1>3. t \in Trans /\ t # NoTrans /\ id # NoId /\ v.here \subseteq Trans /\ t \notin v.unborn
  BY HandlerAssumption, IdSets DEF Views
<1>4. ASSUME NEW i \in DlgIds, NEW s, i # id, SameDialogue(i, s, v) PROVE SameDialogue(i, s, u)
  <2>1. s # t
    BY <1>4, IdSets DEF SameDialogue
  <2>2. QED
    BY <1>1, <1>2, <1>4, <2>1 DEF SameDialogue
<1>5. PoolFits(v) => PoolFits(u)
  <2> SUFFICES ASSUME PoolFits(v) PROVE PoolFits(u)
    OBVIOUS
  <2>1. \A i \in DlgIds : u.own[i] # NoTrans => u.own[i] \in u.here /\ u.ptr[u.own[i]] = i
    <3> TAKE i \in DlgIds
    <3>1. CASE i = id
      BY <1>1, <1>2, <1>3, <3>1
    <3>2. CASE i # id
      BY <1>1, <1>2, <1>3, <3>2, IdSets DEF PoolFits
    <3>3. QED
      BY <3>1, <3>2
  <2>2. \A s \in u.here : u.ptr[s] # NoId => u.own[u.ptr[s]] \in {s, NoTrans}
    <3> TAKE s \in u.here
    <3>1. CASE s = t
      BY <1>1, <1>2, <1>3, <3>1
    <3>2. CASE s # t
      BY <1>1, <1>2, <1>3, <3>2 DEF PoolFits, Views, Ids0
    <3>3. QED
      BY <3>1, <3>2
  <2>3. \A s \in u.unborn : u.ptr[s] = NoId
    BY <1>2, <1>3 DEF PoolFits, Views
  <2>4. QED
    BY <2>1, <2>2, <2>3 DEF PoolFits
<1>6. ASSUME NEW x \in TxStates, TxFits(x, v), AtWork(x) => x.id # id, Opening(x) => x.trans # t
      PROVE  TxFits(x, u)
  <2>1. Opening(x) => x.trans \in u.here /\ u.ptr[x.trans] = NoId
    BY <1>2, <1>3, <1>6 DEF TxFits
  <2>2. AtWork(x) => SameDialogue(x.id, x.trans, u)
    BY <1>4, <1>6, TxRanges DEF TxFits, AtWork
  <2>3. TxFinishes(x) => AtWork(x) /\ x.id \in DlgIds
    BY <1>6, TxRanges DEF TxFits, TxFinishes, AtWork, Opening
  <2>4. TxFinishes(x) => x.trans \in u.here /\ u.own[x.id] = NoTrans
    BY <1>1, <1>6, <2>3 DEF TxFits
  <2>5. QED
    BY <1>6, <2>1, <2>2, <2>4 DEF TxFits
<1>7. ASSUME NEW y \in RxStates, RxFits(y, v), y.id # id
      PROVE  RxFits(y, u)
  <2>1. y.todo # << >> => y.trans \notin u.unborn /\ u.ptr[y.trans] # NoId
    BY <1>2, <1>3, <1>7, RxRanges DEF RxFits
  <2>2. y.id # NoId => y.id \in DlgIds /\ SameDialogue(y.id, y.trans, u)
    BY <1>4, <1>7, RxRanges DEF RxFits, Ids0
  <2>3. RxFinishes(y) => y.trans \in u.here /\ y.id # NoId /\ u.own[y.id] = NoTrans
    BY <1>1, <1>7, <2>2 DEF RxFits
  <2>4. QED
    BY <1>7, <2>1, <2>2, <2>3 DEF RxFits
<1>8. QED
  BY <1>5, <1>6, <1>7

-----------------------------------------------------------------------------
(* What the steps do to the view.                                            *)
LEMMA ThreadStates ==
  ASSUME HTypes
  PROVE  /\ \A w \in Tx : tx[w] \in TxStates
         /\ \A r \in Rx : rx[r] \in RxStates
         /\ \A r \in Rx : rx[r].todo # << >> => rx[r] \in RxWorkOf(r) /\ RxOf[rx[r].trans] = r
         /\ tx \in [Tx -> TxStates]
         /\ rx = [r \in Rx |-> rx[r]]
<1>1. \A r \in Rx : rx[r] \in RxStates
  BY DEF HTypes, RxTypes, RxStates
<1>2. \A r \in Rx : rx[r].todo # << >> => rx[r] \in RxWorkOf(r) /\ RxOf[rx[r].trans] = r
  BY RxBusy DEF HTypes, RxWorkOf
<1>3. QED
  BY <1>1, <1>2 DEF HTypes, TxTypes, RxTypes, TxStates

LEMMA OwnerTyped ==
  ASSUME TypeOK
  PROVE  /\ owner \in [DlgIds -> Trans \cup {NoTrans}]
         /\ \A id \in DlgIds : /\ Live(id) <=> owner[id] # NoTrans
                               /\ Live(id) => owner[id] = TransInfo(id)
BY LiveRecord, IdSets DEF owner, TransInfo

LEMMA ViewTyped == ASSUME HTypes PROVE view \in Views
<1>1. owner \in [DlgIds -> Trans \cup {NoTrans}]
  BY OwnerTyped DEF HTypes, IInv
<1>2. Existing \in SUBSET Trans /\ Unborn \in SUBSET Trans /\ Existing \cap Unborn = {}
  BY DEF Existing, Unborn, Exists
<1>3. QED
  BY <1>1, <1>2 DEF HTypes, LibTypes, view, Views

LEMMA ViewParts ==
  /\ view.own = owner /\ view.ptr = userptr /\ view.here = Existing
  /\ view.unborn = Unborn /\ view.held = blocked
  /\ view'.own = owner' /\ view'.ptr = userptr' /\ view'.here = Existing'
  /\ view'.unborn = Unborn' /\ view'.held = blocked'
BY DEF view

LEMMA SameRecords == mInDlgRecordPool' = mInDlgRecordPool => owner' = owner
BY DEF owner, Live

LEMMA SameTrans == trans' = trans => Existing' = Existing /\ Unborn' = Unborn
BY DEF Existing, Unborn, Exists

LEMMA OwnerFreed ==
  ASSUME TypeOK, NEW id \in DlgIds, FreeOrRefuse(id)
  PROVE  owner' = [owner EXCEPT ![id] = NoTrans]
<1>1. CASE Free(id)
  <2>1. mInDlgRecordPool' = [mInDlgRecordPool EXCEPT ![id] = NoRecord]
    BY <1>1 DEF Free, FreeAllocated, FreeAppChosen
  <2>2. \A i \in DlgIds : mInDlgRecordPool'[i] = IF i = id THEN NoRecord ELSE mInDlgRecordPool[i]
    BY <2>1 DEF TypeOK
  <2>3. owner' = [i \in DlgIds |-> IF i = id THEN NoTrans ELSE owner[i]]
    BY <2>2 DEF owner, Live
  <2>4. QED
    BY <2>3, OwnerTyped
<1>2. CASE ~CanFree(id) /\ UNCHANGED poolVars
  <2>1. owner' = owner /\ owner[id] = NoTrans
    BY <1>2, SameRecords, OwnerTyped DEF CanFree, poolVars
  <2>2. QED
    BY <2>1, OwnerTyped
<1>3. QED
  BY <1>1, <1>2 DEF FreeOrRefuse

LEMMA OwnerWritten ==
  ASSUME TypeOK, NEW id \in DlgIds, NEW t \in Trans,
         mInDlgRecordPool' = [mInDlgRecordPool EXCEPT ![id] = Fresh(t)]
  PROVE  owner' = [owner EXCEPT ![id] = t]
<1>1. \A i \in DlgIds : mInDlgRecordPool'[i] = IF i = id THEN Fresh(t) ELSE mInDlgRecordPool[i]
  BY DEF TypeOK
<1>2. Fresh(t) # NoRecord /\ Fresh(t).trans = t
  BY FreshInContent, PoolAssumption
<1>3. owner' = [i \in DlgIds |-> IF i = id THEN t ELSE owner[i]]
  BY <1>1, <1>2 DEF owner, Live
<1>4. QED
  BY <1>3, OwnerTyped

LEMMA OwnerAged ==
  ASSUME TypeOK, NEW id \in DlgIds, Age(id)
  PROVE  owner' = owner
<1>1. mInDlgRecordPool[id] \in Content
  BY LiveRecord DEF Age
<1>2. [mInDlgRecordPool[id] EXCEPT !.old = TRUE] \in Content
  BY <1>1, HandlerAssumption
<1>3. [mInDlgRecordPool[id] EXCEPT !.old = TRUE].trans = mInDlgRecordPool[id].trans
  BY <1>1, HandlerAssumption
<1>4. mInDlgRecordPool' =
        [mInDlgRecordPool EXCEPT ![id] = [mInDlgRecordPool[id] EXCEPT !.old = TRUE]]
  BY DEF Age
<1>5. /\ \A i \in DlgIds : i # id => mInDlgRecordPool'[i] = mInDlgRecordPool[i]
      /\ mInDlgRecordPool'[id] = [mInDlgRecordPool[id] EXCEPT !.old = TRUE]
  BY <1>4 DEF TypeOK
<1>6. \A i \in DlgIds : (mInDlgRecordPool'[i] # NoRecord <=> mInDlgRecordPool[i] # NoRecord)
                        /\ mInDlgRecordPool'[i].trans = mInDlgRecordPool[i].trans
  BY <1>1, <1>2, <1>3, <1>5, PoolAssumption
<1>7. QED
  BY <1>6 DEF owner, Live

(* A record that is written again, in use, for its own transaction.          *)
LEMMA WrittenAgain ==
  ASSUME HTypes, NEW id \in Ids0, NEW t \in Trans, Map(id, t),
         id # NoId => owner[id] = t /\ userptr[t] = id
  PROVE  owner' = owner /\ userptr' = userptr
<1>1. CASE id = NoId
  BY <1>1, SameRecords DEF Map, poolVars
<1>2. CASE id # NoId
  <2>1. id \in DlgIds /\ mInDlgRecordPool' = [mInDlgRecordPool EXCEPT ![id] = Fresh(t)]
    BY <1>2 DEF Map, Ids0, Update
  <2>2. owner' = [owner EXCEPT ![id] = t]
    BY <2>1, OwnerWritten DEF HTypes, IInv
  <2>3. userptr' = userptr \/ userptr' = [userptr EXCEPT ![t] = id]
    BY DEF Map
  <2>4. QED
    BY <1>2, <2>1, <2>2, <2>3, OwnerTyped DEF HTypes, IInv, LibTypes
<1>3. QED
  BY <1>1, <1>2

LEMMA ExistingDeleted ==
  ASSUME NEW t \in Trans, LibTypes, trans' = [trans EXCEPT ![t] = "deleted"], t \notin Unborn
  PROVE  Existing' = Existing \ {t} /\ Unborn' = Unborn
BY DEF LibTypes, Existing, Unborn, Exists, TransStates

LEMMA ExistingMoved ==
  ASSUME NEW t \in Existing, LibTypes, NEW s \in {"created", "open", "ended"},
         trans' = [trans EXCEPT ![t] = s]
  PROVE  Existing' = Existing /\ Unborn' = Unborn
BY DEF LibTypes, Existing, Unborn, Exists, TransStates

LEMMA ExistingBorn ==
  ASSUME NEW t \in Trans, LibTypes, trans[t] = "none", NEW s \in TransStates \ {"none"},
         trans' = [trans EXCEPT ![t] = s]
  PROVE  /\ t \in Unborn /\ Unborn' = Unborn \ {t}
         /\ Existing' = IF s = "deleted" THEN Existing ELSE Existing \cup {t}
BY DEF LibTypes, Existing, Unborn, Exists, TransStates

-----------------------------------------------------------------------------
(* The steps of a receive thread, one after the other.                       *)
AllLeft == QueryLeft \cup AnswerLeft \cup TimeoutLeft \cup DropLeft \cup LateLeft \cup {<< "look" >>}

LEMMA Lengths ==
  /\ Len(<< >>) = 0
  /\ \A a : Len(<< a >>) = 1 /\ Head(<< a >>) = a /\ << a >> # << >>
  /\ \A a, b : Len(<< a, b >>) = 2 /\ Head(<< a, b >>) = a /\ << a, b >> # << >>
  /\ \A a, b, c : Len(<< a, b, c >>) = 3 /\ Head(<< a, b, c >>) = a /\ << a, b, c >> # << >>
  /\ \A a, b, c, d : /\ Len(<< a, b, c, d >>) = 4 /\ Head(<< a, b, c, d >>) = a
                     /\ << a, b, c, d >> # << >>
OBVIOUS

LEMMA StepSets ==
  /\ \A s \in Holding : s \notin Finishing /\ s \notin Dropping /\ s # << >>
  /\ \A s \in Finishing : s # << "look" >> /\ s \notin Dropping /\ s # << >>
  /\ \A s \in {<< >>, << "deliver" >>, << "free", "delete", "deliver" >>, << "free", "delete" >>} :
       s \notin Holding /\ s \notin Finishing /\ s # << "look" >> /\ s \notin Dropping
BY Lengths DEF Holding, Finishing, Dropping

LEMMA Follow ==
  ASSUME NEW s \in AllLeft, s \notin Dropping
  PROVE  /\ Head(s) = "look" => s = << "look" >> /\ s \in Holding
         /\ Head(s) = "map" => s \in Holding /\ Tail(s) = << "unblock", "deliver" >>
                               /\ Tail(s) \in Holding
         /\ Head(s) = "unblock" => /\ s \in Holding
                                   /\ Tail(s) \in {<< "deliver" >>, << "free", "delete", "deliver" >>,
                                                   << "free", "delete" >>}
         /\ Head(s) = "free" => Tail(s) \in Finishing
         /\ Head(s) = "delete" => s \in Finishing /\ (Len(s) = 1 \/ Tail(s) = << "deliver" >>)
         /\ Head(s) = "deliver" => Len(s) = 1 \/ (s \in Holding /\ Tail(s) \in Holding)
         /\ Tail(s) # << "look" >>
<1>1. CASE s = << "look" >>
  BY <1>1, Lengths DEF Holding, Finishing
<1>2. CASE s = << "map", "unblock", "deliver" >>
  BY <1>2, Lengths, TailOf3 DEF Holding, Finishing
<1>3. CASE s = << "unblock", "deliver" >>
  BY <1>3, Lengths, TailOf2 DEF Holding, Finishing
<1>4. CASE s = << "deliver" >>
  BY <1>4, Lengths DEF Holding, Finishing
<1>5. CASE s = << "unblock", "free", "delete", "deliver" >>
  BY <1>5, Lengths, TailOf4 DEF Holding, Finishing
<1>6. CASE s = << "free", "delete", "deliver" >>
  BY <1>6, Lengths, TailOf3 DEF Holding, Finishing
<1>7. CASE s = << "delete", "deliver" >>
  BY <1>7, Lengths, TailOf2 DEF Holding, Finishing
<1>8. CASE s = << "deliver", "unblock", "free", "delete" >>
  BY <1>8, Lengths, TailOf4 DEF Holding, Finishing
<1>9. CASE s = << "unblock", "free", "delete" >>
  BY <1>9, Lengths, TailOf3 DEF Holding, Finishing
<1>10. CASE s = << "free", "delete" >>
  BY <1>10, Lengths, TailOf2 DEF Holding, Finishing
<1>11. CASE s = << "delete" >>
  BY <1>11, Lengths DEF Holding, Finishing
<1>12. QED
  BY <1>1, <1>2, <1>3, <1>4, <1>5, <1>6, <1>7, <1>8, <1>9, <1>10, <1>11
     DEF AllLeft, QueryLeft, AnswerLeft, TimeoutLeft, DropLeft, LateLeft, Dropping

(* How a thread's record changes.                                            *)
LEMMA TxMoves ==
  ASSUME HTypes, NEW w \in Tx, NEW place, tx[w].at # "idle", TxGoTo(w, place)
  PROVE  /\ \A v \in Tx : v # w => tx'[v] = tx[v]
         /\ tx'[w].at = place /\ tx'[w].kind = tx[w].kind
         /\ tx'[w].id = tx[w].id /\ tx'[w].trans = tx[w].trans
<1>1. tx[w] \in TxWork
  BY TxBusy DEF HTypes
<1>2. tx' = [tx EXCEPT ![w] = [tx[w] EXCEPT !.at = place]]
  BY DEF TxGoTo
<1>3. tx'[w] = [tx[w] EXCEPT !.at = place] /\ \A v \in Tx : v # w => tx'[v] = tx[v]
  BY <1>2, ThreadStates
<1>4. QED
  BY <1>1, <1>3 DEF TxWork

LEMMA TxEnds ==
  ASSUME HTypes, NEW w \in Tx, TxDone(w)
  PROVE  (\A v \in Tx : v # w => tx'[v] = tx[v]) /\ tx'[w] = TxIdle
BY ThreadStates DEF TxDone

LEMMA RxNexts ==
  ASSUME HTypes, NEW r \in Rx, rx[r].todo # << >>, RxNext(r)
  PROVE  /\ \A q \in Rx : q # r => rx'[q] = rx[q]
         /\ \/ Len(rx[r].todo) = 1 /\ rx'[r] = RxIdle
            \/ /\ Len(rx[r].todo) # 1
               /\ rx'[r].todo = Tail(rx[r].todo) /\ rx'[r].kind = rx[r].kind
               /\ rx'[r].id = rx[r].id /\ rx'[r].trans = rx[r].trans
         /\ rx[r].todo \in AllLeft
<1>1. rx[r] \in RxWorkOf(r) /\ Len(rx[r].todo) >= 1
  BY RxBusy, LenProperties, EmptySeq DEF RxWorkOf, HTypes
<1>2. rx' = [rx EXCEPT ![r] = IF Len(rx[r].todo) = 1 THEN RxIdle
               ELSE [todo |-> Tail(rx[r].todo), kind |-> rx[r].kind,
                     id |-> rx[r].id, trans |-> rx[r].trans]]
  BY <1>1, RxMoves DEF RxNext, HTypes
<1>3. /\ \A q \in Rx : q # r => rx'[q] = rx[q]
      /\ rx'[r] = IF Len(rx[r].todo) = 1 THEN RxIdle
                  ELSE [todo |-> Tail(rx[r].todo), kind |-> rx[r].kind,
                        id |-> rx[r].id, trans |-> rx[r].trans]
  BY <1>2, ThreadStates
<1>4. rx[r].todo \in AllLeft
  BY <1>1 DEF RxWorkOf, AllLeft
<1>5. QED
  BY <1>3, <1>4

LEMMA IdleFits == \A v : TxFits(TxIdle, v) /\ RxFits(RxIdle, v)
BY StepSets DEF TxFits, RxFits, TxIdle, RxIdle, Opening, AtWork, TxHolds, TxFinishes,
                RxHolds, RxFinishes, NoId

-----------------------------------------------------------------------------
(* Every step leaves every thread, the records and the library in order.     *)
(* First the steps of a transmit thread.                                     *)
LEMMA StillLife ==
  ASSUME UNCHANGED << poolVars, libVars >>
  PROVE  view' = view /\ (LibFits => LibFits')
<1>1. owner' = owner /\ Existing' = Existing /\ Unborn' = Unborn
  BY SameRecords, SameTrans DEF poolVars, libVars
<1>2. QED
  BY <1>1 DEF view, LibFits, libVars

LEMMA TxAllFit ==
  ASSUME NEW w \in Tx, rx' = rx, \A v \in Tx : v # w => tx'[v] = tx[v],
         PoolFits(view'), LibFits', TxFits(tx'[w], view'),
         \A v \in Tx : v # w => TxFits(tx[v], view'),
         \A r \in Rx : RxFits(rx[r], view')
  PROVE  AllFit'
<1>1. \A v \in Tx : TxFits(tx'[v], view')
  <2> TAKE v \in Tx
  <2>1. CASE v = w
    BY <2>1
  <2>2. CASE v # w
    BY <2>2
  <2>3. QED
    BY <2>1, <2>2
<1>2. \A r \in Rx : RxFits(rx'[r], view')
  OBVIOUS
<1>3. QED
  BY <1>1, <1>2 DEF AllFit

LEMMA TxStillFits ==
  ASSUME AllFit, NEW w \in Tx, UNCHANGED << poolVars, libVars, rx >>,
         \A v \in Tx : v # w => tx'[v] = tx[v], TxFits(tx'[w], view)
  PROVE  AllFit'
<1>1. view' = view /\ LibFits'
  BY StillLife DEF AllFit
<1>2. QED
  BY <1>1, TxAllFit DEF AllFit

LEMMA TxPlainFits ==
  ASSUME HTypes, AllFit, NEW w \in Tx, CallsServe,
         \/ TxTake(w) \/ TxFound(w) \/ TxNotFound(w) \/ TxTell(w) \/ TxBuild(w)
         \/ TxBuildFails(w) \/ TxSendFails(w)
  PROVE  AllFit'
<1> DEFINE x == tx[w]
           y == tx'[w]
<1>x. TxFits(x, view) /\ x \in TxStates
  BY ThreadStates DEF AllFit
<1>1. CASE TxTake(w)
  <2>1. \A v \in Tx : v # w => tx'[v] = tx[v]
    BY <1>1, ThreadStates DEF TxTake
  <2>2. y.at = "look"
    BY <1>1, ThreadStates DEF TxTake
  <2>3. TxFits(y, view)
    BY <2>2 DEF TxFits, Opening, AtWork, TxHolds, TxFinishes
  <2>4. UNCHANGED << poolVars, libVars, rx >>
    BY <1>1 DEF TxTake
  <2>5. QED
    BY <2>1, <2>3, <2>4, TxStillFits
<1>2. CASE TxFound(w)
  <2> DEFINE t == TransInfo(x.id)
  <2>1. UNCHANGED << poolVars, libVars, rx >>
    BY <1>2 DEF TxFound
  <2>2. CASE TxDone(w)
    BY <2>1, <2>2, TxEnds, IdleFits, TxStillFits
  <2>3. CASE /\ x.kind # "QUERY"
             /\ tx' = [tx EXCEPT ![w].trans = t,
                                 ![w].at = IF PreEnd(w) THEN "preEnd"
                                           ELSE IF JustAllocated(x.id)
                                           THEN "noIds" ELSE "build"]
    <3>1. /\ \A v \in Tx : v # w => tx'[v] = tx[v]
          /\ y.kind = x.kind /\ y.id = x.id /\ y.trans = t
          /\ y.at \in {"preEnd", "noIds", "build"}
      <4>1. x \in TxWork
        BY <1>2, TxBusy DEF TxFound, TxAt, HTypes
      <4>2. \E place \in {"preEnd", "noIds", "build"} :
              tx' = [tx EXCEPT ![w] = [x EXCEPT !.trans = t, !.at = place]]
        BY <2>3
      <4>3. QED
        BY <4>1, <4>2, ThreadStates DEF TxWork
    <3>2. x.id \in DlgIds /\ owner[x.id] = t /\ t \in Trans
      BY <1>2, <1>x, TxRanges, OwnerTyped, LiveRecord DEF TxFound, TxAt, HTypes, IInv
    <3>3. SameDialogue(x.id, t, view)
      BY <3>2, ViewParts, ViewTyped, IdSets DEF AllFit, PoolFits, SameDialogue, Views
    <3>4. TxFits(y, view)
      BY <2>3, <3>1, <3>3 DEF TxFits, Opening, AtWork, TxHolds, TxFinishes
    <3>5. QED
      BY <2>1, <3>1, <3>4, TxStillFits
  <2>4. QED
    BY <1>2, <2>2, <2>3 DEF TxFound
<1>3. CASE TxNotFound(w)
  <2>1. UNCHANGED << poolVars, libVars, rx >> /\ x.at # "idle" /\ TxGoTo(w, "freeOnly")
    BY <1>3 DEF TxNotFound, TxAt
  <2>2. y.at = "freeOnly"
    BY <2>1, TxMoves
  <2>3. TxFits(y, view)
    BY <2>2 DEF TxFits, Opening, AtWork, TxHolds, TxFinishes
  <2>4. QED
    BY <2>1, <2>3, TxMoves, TxStillFits
<1>4. CASE TxTell(w)
  BY <1>4, TxEnds, IdleFits, TxStillFits DEF TxTell
<1>5. CASE TxBuild(w)
  <2>1. UNCHANGED << poolVars, libVars, rx >> /\ x.at \in {"build", "noIds"}
    BY <1>5 DEF TxBuild, TxAt
  <2>2. CASE TxDone(w)
    BY <2>1, <2>2, TxEnds, IdleFits, TxStillFits
  <2>3. CASE TxGoTo(w, IF x.kind \in Terminal THEN "block" ELSE "map")
    <3>1. /\ \A v \in Tx : v # w => tx'[v] = tx[v]
          /\ y.at = IF x.kind \in Terminal THEN "block" ELSE "map"
          /\ y.kind = x.kind /\ y.id = x.id /\ y.trans = x.trans
      BY <2>1, <2>3, TxMoves
    <3>2. TxFits(y, view)
      BY <1>x, <2>1, <3>1 DEF TxFits, Opening, AtWork, TxHolds, TxFinishes, Terminal
    <3>3. QED
      BY <2>1, <3>1, <3>2, TxStillFits
  <2>4. QED
    BY <1>5, <2>2, <2>3 DEF TxBuild
<1>6. CASE TxBuildFails(w)
  <2>1. /\ UNCHANGED << poolVars, libVars, rx >> /\ x.at \in {"build", "noIds"}
        /\ TxGoTo(w, "preEnd")
    BY <1>6 DEF TxBuildFails, TxAt
  <2>2. /\ \A v \in Tx : v # w => tx'[v] = tx[v]
        /\ y.at = "preEnd" /\ y.kind = x.kind /\ y.id = x.id /\ y.trans = x.trans
    BY <2>1, TxMoves
  <2>3. TxFits(y, view)
    BY <1>x, <2>1, <2>2 DEF TxFits, Opening, AtWork, TxHolds, TxFinishes
  <2>4. QED
    BY <2>1, <2>2, <2>3, TxStillFits
<1>7. CASE TxSendFails(w)
  BY <1>7, TxEnds, IdleFits, TxStillFits DEF TxSendFails, CallsServe
<1>8. QED
  BY <1>1, <1>2, <1>3, <1>4, <1>5, <1>6, <1>7

LEMMA TxBlockFits ==
  ASSUME HTypes, AllFit, NEW w \in Tx, TxBlock(w)
  PROVE  AllFit'
<1> DEFINE x == tx[w]
           y == tx'[w]
           t == tx[w].trans
<1>1. TxFits(x, view) /\ x.at \in {"block", "blockAgain"} /\ x.kind \in Terminal
  BY DEF AllFit, TxBlock, TxAt, TxFits
<1>2. UNCHANGED << poolVars, trans, userptr, inbound, rx >>
  BY DEF TxBlock
<1>3. owner' = owner /\ Existing' = Existing /\ Unborn' = Unborn /\ LibFits'
  BY <1>2, SameRecords, SameTrans DEF poolVars, AllFit, LibFits
<1>4. blocked \subseteq blocked'
  BY DEF TxBlock
<1>5. /\ PoolFits(view')
      /\ \A v \in Tx : TxFits(tx[v], view')
      /\ \A r \in Rx : RxFits(rx[r], view')
  <2>1. /\ PoolFits(view) => PoolFits(view')
        /\ \A z : TxFits(z, view) /\ (TxHolds(z) => z.trans \in view'.held) => TxFits(z, view')
        /\ \A z : RxFits(z, view) /\ (RxHolds(z) => z.trans \in view'.held) => RxFits(z, view')
    BY <1>2, <1>3, ViewParts, BlockedChanges
  <2>2. \A z : (TxFits(z, view) /\ TxHolds(z) => z.trans \in view'.held)
               /\ (RxFits(z, view) /\ RxHolds(z) => z.trans \in view'.held)
    BY <1>4, ViewParts DEF TxFits, RxFits
  <2>3. QED
    BY <2>1, <2>2 DEF AllFit
<1>6. CASE TxDone(w)
  BY <1>2, <1>3, <1>5, <1>6, TxEnds, IdleFits, TxAllFit
<1>7. CASE TxGoTo(w, "blockAgain") \/ (TxGoTo(w, "send") /\ t \in blocked')
  <2>1. /\ \A v \in Tx : v # w => tx'[v] = tx[v]
        /\ y.at = "blockAgain" \/ (y.at = "send" /\ t \in blocked')
        /\ y.kind = x.kind /\ y.id = x.id /\ y.trans = x.trans
    BY <1>1, <1>7, TxMoves
  <2>2. TxFits(y, view')
    BY <1>1, <1>5, <2>1, ViewParts DEF TxFits, Opening, AtWork, TxHolds, TxFinishes, Terminal
  <2>3. QED
    BY <1>2, <1>3, <1>5, <2>1, <2>2, TxAllFit
<1>8. QED
  BY <1>6, <1>7 DEF TxBlock

LEMMA TxSendFits ==
  ASSUME HTypes, AllFit, NEW w \in Tx, TxSend(w)
  PROVE  AllFit'
<1> DEFINE x == tx[w]
           y == tx'[w]
           t == tx[w].trans
<1>1. TxFits(x, view) /\ x.at = "send" /\ x \in TxStates /\ x.id # NoId
  BY ThreadStates, TxRanges DEF AllFit, TxSend, TxAt
<1>2. UNCHANGED << poolVars, blocked, userptr, inbound, rx >> /\ Exists(t)
  BY DEF TxSend
<1>3. t \in Existing /\ userptr[t] # NoId
  BY <1>1, <1>2, ViewParts DEF TxFits, AtWork, Opening, SameDialogue, Existing
<1>4. \E st \in {"created", "open", "ended"} : trans' = [trans EXCEPT ![t] = st]
  BY <1>2 DEF TxSend, Exists
<1>5. view' = view
  BY <1>2, <1>3, <1>4, SameRecords, ExistingMoved DEF view, poolVars, HTypes
<1>6. LibFits'
  <2> SUFFICES ASSUME NEW u \in Trans
               PROVE  /\ trans'[u] \in {"open", "ended"} => userptr[u] # NoId
                      /\ inbound[u] # << >> => trans'[u] \in {"open", "ended"}
    BY <1>2 DEF LibFits
  <2>1. trans'[u] = IF u = t THEN IF x.kind \in Terminal THEN "ended"
                                  ELSE IF trans[t] = "created" THEN "open" ELSE trans[t]
                    ELSE trans[u]
    BY DEF TxSend, HTypes, LibTypes
  <2>2. QED
    BY <1>3, <2>1 DEF AllFit, LibFits
<1>7. CASE TxDone(w)
  BY <1>2, <1>5, <1>6, <1>7, TxEnds, IdleFits, TxAllFit DEF AllFit
<1>8. CASE x.kind \in Terminal /\ TxGoTo(w, "free")
  <2>1. /\ \A v \in Tx : v # w => tx'[v] = tx[v]
        /\ y.at = "free" /\ y.kind = x.kind /\ y.id = x.id /\ y.trans = x.trans
    BY <1>1, <1>8, TxMoves
  <2>2. TxFits(y, view)
    BY <1>1, <1>8, <2>1 DEF TxFits, Opening, AtWork, TxHolds, TxFinishes, Terminal
  <2>3. QED
    BY <1>2, <1>5, <1>6, <2>1, <2>2, TxAllFit DEF AllFit
<1>9. QED
  BY <1>7, <1>8 DEF TxSend

(* The record of a dialogue that a thread is at work on, while it is live,   *)
(* names the thread's transaction.                                           *)
LEMMA LiveIsMine ==
  ASSUME HTypes, PoolFits(view), NEW id \in DlgIds, NEW t, SameDialogue(id, t, view), Live(id)
  PROVE  owner[id] = t /\ t \in Existing /\ userptr[t] = id
BY OwnerTyped, ViewParts DEF HTypes, IInv, PoolFits, SameDialogue

LEMMA TxFreesFits ==
  ASSUME HTypes, AllFit, Queries, NEW w \in Tx, TxFreeOnly(w) \/ TxPreEnd(w) \/ TxFree(w)
  PROVE  AllFit'
<1> DEFINE x == tx[w]
           y == tx'[w]
<1>1. TxFits(x, view) /\ x.at \in {"freeOnly", "preEnd", "free"} /\ x \in TxStates
      /\ x.id \in DlgIds
  BY ThreadStates, TxRanges DEF AllFit, TxFreeOnly, TxPreEnd, TxFree, TxAt
<1>2. UNCHANGED << libVars, rx >> /\ FreeOrRefuse(x.id)
  BY DEF TxFreeOnly, TxPreEnd, TxFree
<1>3. owner' = [owner EXCEPT ![x.id] = NoTrans]
  BY <1>1, <1>2, OwnerFreed DEF HTypes, IInv
<1>4. userptr' = userptr /\ blocked' = blocked /\ Existing' = Existing /\ Unborn' = Unborn /\ LibFits'
  BY <1>2, SameTrans DEF libVars, AllFit, LibFits
<1>5. /\ PoolFits(view')
      /\ \A v \in Tx : TxFits(tx[v], view')
      /\ \A r \in Rx : RxFits(rx[r], view')
  <2>1. /\ PoolFits(view) => PoolFits(view')
        /\ \A z \in TxStates : TxFits(z, view) => TxFits(z, view')
        /\ \A z \in RxStates : RxFits(z, view) => RxFits(z, view')
    BY <1>1, <1>3, <1>4, ViewParts, ViewTyped, RecordFreed
  <2>2. QED
    BY <2>1, ThreadStates DEF AllFit
<1>6. CASE TxDone(w)
  BY <1>2, <1>4, <1>5, <1>6, TxEnds, IdleFits, TxAllFit
<1>7. CASE /\ CanFree(x.id)
           /\ \/ x.at = "preEnd" /\ TxGoTo(w, "blockDelete")
              \/ x.at = "free" /\ TxGoTo(w, "delete")
  <2>1. /\ \A v \in Tx : v # w => tx'[v] = tx[v]
        /\ y.kind = x.kind /\ y.id = x.id /\ y.trans = x.trans
        /\ \/ x.at = "preEnd" /\ y.at = "blockDelete"
           \/ x.at = "free" /\ y.at = "delete"
    BY <1>1, <1>7, TxMoves
  <2>2. ~Asking(x)
    BY <1>1, <1>7, OwnerTyped, ViewParts DEF Queries, Unused, CanFree, HTypes, IInv
  <2>3. x.kind # "QUERY" /\ SameDialogue(x.id, x.trans, view)
    BY <1>1, <1>7, <2>2 DEF TxFits, Asking, AtWork, Opening
  <2>4. x.trans \in Existing
    BY <1>1, <1>7, <2>3, LiveIsMine DEF CanFree, AllFit
  <2>5. owner'[x.id] = NoTrans
    BY <1>1, <1>3, OwnerTyped DEF HTypes, IInv
  <2>6. TxFits(y, view')
    BY <1>1, <1>4, <1>5, <2>1, <2>3, <2>4, <2>5, ViewParts
       DEF TxFits, Opening, AtWork, TxHolds, TxFinishes
  <2>7. QED
    BY <1>2, <1>4, <1>5, <2>1, <2>6, TxAllFit
<1>8. CASE x.at = "preEnd" /\ PreEnd(w) /\ TxGoTo(w, "tell")
  <2>1. /\ \A v \in Tx : v # w => tx'[v] = tx[v]
        /\ y.at = "tell" /\ y.kind = x.kind /\ y.id = x.id /\ y.trans = x.trans
    BY <1>1, <1>8, TxMoves
  <2>2. x.kind # "QUERY"
    BY <1>8 DEF PreEnd
  <2>3. TxFits(y, view')
    BY <1>5, <1>8, <2>1, <2>2 DEF TxFits, Opening, AtWork, TxHolds, TxFinishes
  <2>4. QED
    BY <1>2, <1>4, <1>5, <2>1, <2>3, TxAllFit
<1>9. QED
  BY <1>6, <1>7, <1>8
     DEF TxFreeOnly, TxPreEnd, TxFree, TxAt, TxLeaveTo, AfterDelete

(* No record names a transaction that a thread finishes.                     *)
LEMMA FinishedHasNoRecord ==
  ASSUME HTypes, PoolFits(view), NEW id \in DlgIds, NEW t \in Existing,
         SameDialogue(id, t, view), owner[id] = NoTrans
  PROVE  /\ \A i \in DlgIds : owner[i] # t
         /\ userptr[t] # NoId
BY ViewParts, IdSets DEF PoolFits, SameDialogue

LEMMA LibFitsDeleted ==
  ASSUME HTypes, LibFits, NEW t \in Trans, DeleteTrans(t), userptr' = userptr
  PROVE  LibFits'
<1>1. \A u \in Trans : /\ trans'[u] = IF u = t THEN "deleted" ELSE trans[u]
                       /\ inbound'[u] = IF u = t THEN << >> ELSE inbound[u]
  BY DEF DeleteTrans, HTypes, LibTypes
<1>2. QED
  BY <1>1 DEF LibFits

LEMMA TxDeletesFits ==
  ASSUME HTypes, AllFit, Alone, NEW w \in Tx, TxBlockDelete(w) \/ TxDelete(w)
  PROVE  AllFit'
<1> DEFINE x == tx[w]
           y == tx'[w]
           t == tx[w].trans
<1>1. TxFits(x, view) /\ x.at \in {"blockDelete", "delete"} /\ x \in TxStates
      /\ x.id \in DlgIds
  BY ThreadStates, TxRanges DEF AllFit, TxBlockDelete, TxDelete, TxAt
<1>2. TxFinishes(x) /\ x.kind # "QUERY"
  BY <1>1 DEF TxFinishes, TxFits
<1>3. t \in Existing /\ owner[x.id] = NoTrans /\ SameDialogue(x.id, t, view) /\ Exists(t)
  BY <1>1, <1>2, ViewParts DEF TxFits, AtWork, Opening, Existing
<1>4. t \in Trans /\ t \notin Unborn /\ userptr[t] # NoId /\ \A i \in DlgIds : owner[i] # t
  BY <1>1, <1>3, FinishedHasNoRecord, ViewParts DEF AllFit, SameDialogue
<1>5. UNCHANGED << poolVars, userptr, rx >>
  BY DEF TxBlockDelete, TxDelete
<1>6. owner' = owner
  BY <1>5, SameRecords DEF poolVars
<1>7. blocked \subseteq blocked'
  BY DEF TxBlockDelete, TxDelete
<1>8. CASE DeleteTrans(t) /\ (x.at = "delete" \/ t \notin blocked)
  <2>1. Existing' = Existing \ {t} /\ Unborn' = Unborn /\ LibFits'
    BY <1>4, <1>5, <1>8, ExistingDeleted, LibFitsDeleted DEF DeleteTrans, HTypes, AllFit
  <2>2. /\ PoolFits(view) => PoolFits(view')
        /\ \A z : TxFits(z, view) /\ (TxFinishes(z) => z.trans # t) => TxFits(z, view')
        /\ \A z : RxFits(z, view) /\ (z.todo = << "look" >> \/ RxFinishes(z) => z.trans # t)
                     => RxFits(z, view')
    BY <1>3, <1>4, <1>5, <1>6, <1>7, <2>1, ViewParts, ViewTyped, TransDeleted
  <2>3. \A v \in Tx : v # w /\ TxFinishes(tx[v]) => tx[v].trans # t
    BY <1>2 DEF Alone
  <2>4. ASSUME NEW r \in Rx, rx[r].todo = << "look" >> \/ RxFinishes(rx[r])
        PROVE  rx[r].trans # t
    <3>1. CASE RxFinishes(rx[r])
      BY <1>2, <3>1 DEF Alone
    <3>2. CASE rx[r].todo = << "look" >>
      <4>1. RxHolds(rx[r]) /\ rx[r].trans \in blocked
        BY <3>2, ViewParts DEF RxHolds, Holding, AllFit, RxFits
      <4>2. x.at = "delete" => TxHolds(x)
        BY DEF TxHolds
      <4>3. QED
        BY <1>8, <4>1, <4>2 DEF Alone
    <3>3. QED
      BY <2>4, <3>1, <3>2
  <2>5. /\ PoolFits(view')
        /\ \A v \in Tx : v # w => TxFits(tx[v], view')
        /\ \A r \in Rx : RxFits(rx[r], view')
    BY <2>2, <2>3, <2>4 DEF AllFit
  <2>6. CASE TxDone(w)
    BY <1>5, <2>1, <2>5, <2>6, TxEnds, IdleFits, TxAllFit
  <2>7. CASE TxGoTo(w, "tell")
    <3>1. /\ \A v \in Tx : v # w => tx'[v] = tx[v]
          /\ y.at = "tell" /\ y.kind = x.kind /\ y.id = x.id /\ y.trans = t
      BY <1>1, <2>7, TxMoves
    <3>2. SameDialogue(x.id, t, view')
      BY <1>3, <1>5, <1>6, <2>1, ViewParts DEF SameDialogue
    <3>3. TxFits(y, view')
      BY <1>2, <3>1, <3>2 DEF TxFits, Opening, AtWork, TxHolds, TxFinishes
    <3>4. QED
      BY <1>5, <2>1, <2>5, <3>1, <3>3, TxAllFit
  <2>8. QED
    BY <2>6, <2>7 DEF TxBlockDelete, TxDelete, TxLeaveTo, AfterDelete
<1>9. CASE UNCHANGED << trans, blocked, inbound >> /\ x.at = "blockDelete"
  <2>1. UNCHANGED << poolVars, libVars, rx >>
    BY <1>5, <1>9 DEF libVars
  <2>2. CASE TxDone(w)
    BY <2>1, <2>2, TxEnds, IdleFits, TxStillFits
  <2>3. CASE TxGoTo(w, "tell")
    <3>1. /\ \A v \in Tx : v # w => tx'[v] = tx[v]
          /\ y.at = "tell" /\ y.kind = x.kind /\ y.id = x.id /\ y.trans = t
      BY <1>1, <2>3, TxMoves
    <3>2. TxFits(y, view)
      BY <1>2, <1>3, <3>1 DEF TxFits, Opening, AtWork, TxHolds, TxFinishes
    <3>3. QED
      BY <2>1, <3>1, <3>2, TxStillFits
  <2>4. QED
    BY <1>9, <2>2, <2>3 DEF TxBlockDelete, TxDelete, TxAt, TxLeaveTo, AfterDelete
<1>10. QED
  BY <1>3, <1>8, <1>9 DEF TxBlockDelete, TxDelete, TxAt

LEMMA TxOpenFits ==
  ASSUME HTypes, AllFit, NEW w \in Tx, TxOpen(w)
  PROVE  AllFit'
<1> DEFINE x == tx[w]
           y == tx'[w]
<1>1. TxFits(x, view) /\ x.at = "look" /\ x.kind = "QUERY" /\ x \in TxWork
  BY TxBusy DEF AllFit, TxOpen, TxAt, HTypes
<1>2. PICK t \in Trans : /\ trans[t] = "none"
                         /\ trans' = [trans EXCEPT ![t] = "created"]
                         /\ tx' = [tx EXCEPT ![w] = [x EXCEPT !.trans = t, !.at = "build"]]
  BY DEF TxOpen
<1>3. UNCHANGED << poolVars, blocked, userptr, inbound, rx >> /\ owner' = owner
  BY SameRecords DEF TxOpen, poolVars
<1>4. t \in Unborn /\ Unborn' = Unborn \ {t} /\ Existing' = Existing \cup {t}
  <2>1. "created" \in TransStates \ {"none"} /\ "created" # "deleted"
    BY DEF TransStates
  <2>2. LibTypes
    BY DEF HTypes
  <2>3. QED
    BY <1>2, <2>1, <2>2, ExistingBorn
<1>5. /\ PoolFits(view')
      /\ \A v \in Tx : TxFits(tx[v], view')
      /\ \A r \in Rx : RxFits(rx[r], view')
  BY <1>3, <1>4, ViewParts, ViewTyped, TransBorn DEF AllFit
<1>6. LibFits'
  BY <1>2, <1>3 DEF AllFit, LibFits, HTypes, LibTypes
<1>7. /\ \A v \in Tx : v # w => tx'[v] = tx[v]
      /\ y.at = "build" /\ y.kind = "QUERY" /\ y.trans = t
  BY <1>1, <1>2, ThreadStates DEF TxWork
<1>8. userptr[t] = NoId
  BY <1>4, ViewParts DEF AllFit, PoolFits
<1>9. TxFits(y, view')
  BY <1>3, <1>4, <1>7, <1>8, ViewParts DEF TxFits, Opening, AtWork, TxHolds, TxFinishes
<1>10. QED
  BY <1>3, <1>5, <1>6, <1>7, <1>9, TxAllFit

LEMMA LibFitsMapped ==
  ASSUME HTypes, LibFits, UNCHANGED << trans, inbound >>, NEW t \in Trans, NEW id \in DlgIds,
         userptr' = userptr \/ userptr' = [userptr EXCEPT ![t] = id]
  PROVE  LibFits'
BY IdSets DEF LibFits, HTypes, LibTypes

LEMMA TxMapFits ==
  ASSUME HTypes, AllFit, Alone, Queries, NEW w \in Tx, TxMap(w), WritesInUse
  PROVE  AllFit'
<1> DEFINE x == tx[w]
           y == tx'[w]
           t == tx[w].trans
<1>1. TxFits(x, view) /\ x.at = "map" /\ x \in TxStates /\ x.id \in DlgIds /\ x.id # NoId
      /\ t \in Trans /\ x.kind \notin Terminal
  BY ThreadStates, TxRanges DEF AllFit, TxMap, TxAt, TxFits
<1>2. UNCHANGED << trans, blocked, inbound, rx >> /\ Map(x.id, t)
  BY DEF TxMap
<1>3. /\ \A v \in Tx : v # w => tx'[v] = tx[v]
      /\ y.at = "send" /\ y.kind = x.kind /\ y.id = x.id /\ y.trans = t
  BY <1>1, TxMoves DEF TxMap
<1>4. Existing' = Existing /\ Unborn' = Unborn
  BY <1>2, SameTrans
<1>5. LibFits'
  BY <1>1, <1>2, LibFitsMapped DEF Map, AllFit
<1>6. CASE x.kind = "QUERY"
  <2>1. Opening(x) /\ Asking(x)
    BY <1>1, <1>6 DEF Opening, Asking
  <2>2. t \in Existing /\ userptr[t] = NoId /\ Unused(x.id, view, tx, rx)
    BY <1>1, <2>1, ViewParts DEF TxFits, Queries
  <2>3. mInDlgRecordPool' = [mInDlgRecordPool EXCEPT ![x.id] = Fresh(t)]
        /\ userptr' = [userptr EXCEPT ![t] = x.id]
    BY <1>1, <1>2, <2>2 DEF Map, Update, Existing
  <2>4. owner' = [owner EXCEPT ![x.id] = t]
    BY <1>1, <2>3, OwnerWritten DEF HTypes, IInv
  <2>5. /\ PoolFits(view) => PoolFits(view')
        /\ \A z \in TxStates : /\ TxFits(z, view)
                               /\ AtWork(z) => z.id # x.id
                               /\ Opening(z) => z.trans # t
                               => TxFits(z, view')
        /\ \A z \in RxStates : RxFits(z, view) /\ z.id # x.id => RxFits(z, view')
    <3>1. view.own[x.id] = NoTrans /\ \A s \in view.here : view.ptr[s] # x.id
      BY <2>2 DEF Unused
    <3>2. /\ view'.own = [view.own EXCEPT ![x.id] = t]
          /\ view'.ptr = [view.ptr EXCEPT ![t] = x.id]
          /\ view'.here = view.here /\ view'.unborn = view.unborn /\ view'.held = view.held
          /\ t \in view.here /\ view.ptr[t] = NoId
      BY <1>2, <1>4, <2>2, <2>3, <2>4, ViewParts
    <3>3. view \in Views
      BY ViewTyped
    <3>4. QED
      BY <1>1, <3>1, <3>2, <3>3, RecordWritten
  <2>6. \A v \in Tx : v # w => TxFits(tx[v], view')
    BY <2>1, <2>2, <2>5, ThreadStates DEF AllFit, Alone, Unused
  <2>7. \A r \in Rx : RxFits(rx[r], view')
    BY <2>2, <2>5, ThreadStates DEF AllFit, Unused
  <2>8. SameDialogue(x.id, t, view')
    <3>1. userptr'[t] = x.id /\ owner'[x.id] = t /\ t \notin Unborn
      BY <1>1, <2>2, <2>3, <2>4, OwnerTyped, ViewTyped, ViewParts DEF HTypes, IInv, LibTypes, Views
    <3>2. QED
      BY <1>1, <1>4, <3>1, ViewParts DEF SameDialogue
  <2>9. TxFits(y, view')
    BY <1>3, <1>6, <2>8 DEF TxFits, Opening, AtWork, TxHolds, TxFinishes, Terminal
  <2>10. QED
    BY <1>2, <1>3, <1>5, <2>5, <2>6, <2>7, <2>9, TxAllFit DEF AllFit
<1>7. CASE x.kind # "QUERY"
  <2>1. SameDialogue(x.id, t, view)
    BY <1>1, <1>7 DEF TxFits, AtWork, Opening
  <2>2. Live(x.id)
    BY <1>7 DEF WritesInUse
  <2>3. owner[x.id] = t /\ userptr[t] = x.id
    BY <1>1, <2>1, <2>2, LiveIsMine DEF AllFit
  <2>4. owner' = owner /\ userptr' = userptr
    BY <1>1, <1>2, <2>3, WrittenAgain DEF Ids0
  <2>5. view' = view
    BY <1>2, <1>4, <2>4 DEF view
  <2>6. TxFits(y, view)
    BY <1>1, <1>3, <1>7 DEF TxFits, Opening, AtWork, TxHolds, TxFinishes
  <2>7. QED
    BY <1>2, <1>3, <1>5, <2>5, <2>6, TxAllFit DEF AllFit
<1>8. QED
  BY <1>6, <1>7

LEMMA TxStepFits ==
  ASSUME HTypes, Belongs, NEW w \in Tx, TxNext(w), WritesInUse, CallsServe
  PROVE  AllFit'
BY TxPlainFits, TxBlockFits, TxSendFits, TxFreesFits, TxDeletesFits, TxOpenFits, TxMapFits
   DEF TxNext, Belongs

-----------------------------------------------------------------------------
(* The steps of a receive thread.                                            *)
LEMMA RxAllFit ==
  ASSUME NEW r \in Rx, tx' = tx, \A q \in Rx : q # r => rx'[q] = rx[q],
         PoolFits(view'), LibFits', RxFits(rx'[r], view'),
         \A w \in Tx : TxFits(tx[w], view'),
         \A q \in Rx : q # r => RxFits(rx[q], view')
  PROVE  AllFit'
<1>1. \A q \in Rx : RxFits(rx'[q], view')
  <2> TAKE q \in Rx
  <2>1. CASE q = r
    BY <2>1
  <2>2. CASE q # r
    BY <2>2
  <2>3. QED
    BY <2>1, <2>2
<1>2. \A w \in Tx : TxFits(tx'[w], view')
  OBVIOUS
<1>3. QED
  BY <1>1, <1>2 DEF AllFit

LEMMA RxOthersTrans ==
  ASSUME HTypes, NEW q \in Rx, NEW r \in Rx, q # r, rx[q].todo # << >>, rx[r].todo # << >>
  PROVE  rx[q].trans # rx[r].trans
BY ThreadStates

LEMMA RxLookFits ==
  ASSUME HTypes, AllFit, NEW r \in Rx, RxLook(r), CallsServe
  PROVE  AllFit'
<1> DEFINE y == rx[r]
           z == rx'[r]
           t == rx[r].trans
<1>1. RxFits(y, view) /\ y.todo # << >> /\ Head(y.todo) = "look" /\ y \in RxWorkOf(r)
  BY ThreadStates DEF AllFit, RxLook, RxAt
<1>2. y.todo = << "look" >>
  BY <1>1, Follow DEF RxWorkOf, AllLeft, RxFits
<1>3. y.kind # "QUERY" /\ t \in Trans /\ t \in Existing /\ userptr[t] # NoId /\ t \notin Unborn
      /\ t \in blocked /\ Exists(t)
  <2>1. t \in Existing /\ userptr[t] # NoId /\ t \notin Unborn
    BY <1>1, <1>2, ViewParts DEF RxFits
  <2>2. RxHolds(y)
    BY <1>2 DEF RxHolds, Holding
  <2>3. t \in blocked
    BY <1>1, <2>2, ViewParts DEF RxFits
  <2>4. y.kind # "QUERY"
    BY <1>1, <1>2, Lengths DEF RxWorkOf, QueryLeft, AnswerLeft, TimeoutLeft, DropLeft, LateLeft
  <2>5. QED
    BY <2>1, <2>3, <2>4 DEF Existing
<1>4. rx' = [rx EXCEPT ![r] = [y EXCEPT !.todo = Route(y.kind), !.id = DialogueInfo(t)]]
  BY <1>3 DEF RxLook, IdsFail, CallsServe
<1>5. /\ \A q \in Rx : q # r => rx'[q] = rx[q]
      /\ z.todo = Route(y.kind) /\ z.id = DialogueInfo(t) /\ z.trans = t
  BY <1>1, <1>4, ThreadStates DEF RxWorkOf
<1>6. Route(y.kind) \in Holding
  BY <1>1, <1>3, HandlerAssumption DEF Route, Holding, RxWorkOf
<1>7. Route(y.kind) # << "look" >>
  BY <1>1, <1>3, HandlerAssumption, Lengths DEF Route, RxWorkOf
<1>8. z.id # NoId => SameDialogue(z.id, t, view)
  BY <1>3, <1>5, ViewParts DEF AllFit, PoolFits, SameDialogue, DialogueInfo
<1>9. RxFits(z, view)
  BY <1>3, <1>5, <1>6, <1>7, <1>8, StepSets, ViewParts DEF RxFits, RxHolds, RxFinishes
<1>10. view' = view /\ LibFits' /\ tx' = tx
  BY StillLife DEF RxLook, AllFit
<1>11. QED
  BY <1>5, <1>9, <1>10, RxAllFit DEF AllFit

LEMMA RxDeliverFits ==
  ASSUME HTypes, AllFit, NEW r \in Rx, RxDeliver(r)
  PROVE  AllFit'
<1> DEFINE y == rx[r]
           z == rx'[r]
<1>1. RxFits(y, view) /\ y.todo # << >> /\ Head(y.todo) = "deliver" /\ RxNext(r)
  BY DEF AllFit, RxDeliver, RxAt
<1>2. view' = view /\ LibFits' /\ tx' = tx
  BY StillLife DEF RxDeliver, AllFit
<1>3. /\ \A q \in Rx : q # r => rx'[q] = rx[q]
      /\ y.todo \in AllLeft /\ y.todo \notin Dropping
  BY <1>1, RxNexts DEF RxFits
<1>4. CASE rx'[r] = RxIdle
  BY <1>2, <1>3, <1>4, IdleFits, RxAllFit DEF AllFit
<1>5. CASE Len(y.todo) # 1 /\ z.todo = Tail(y.todo) /\ z.id = y.id /\ z.trans = y.trans
  <2>1. y.todo \in Holding /\ z.todo \in Holding /\ z.todo # << "look" >>
    BY <1>1, <1>3, <1>5, Follow
  <2>2. RxFits(z, view)
    BY <1>1, <1>5, <2>1, StepSets DEF RxFits, RxHolds, RxFinishes
  <2>3. QED
    BY <1>2, <1>3, <2>2, RxAllFit DEF AllFit
<1>6. QED
  BY <1>1, <1>4, <1>5, RxNexts

LEMMA RxMapFits ==
  ASSUME HTypes, AllFit, NEW r \in Rx, RxMap(r), WritesInUse
  PROVE  AllFit'
<1> DEFINE y == rx[r]
           z == rx'[r]
           t == rx[r].trans
<1>1. RxFits(y, view) /\ y.todo # << >> /\ Head(y.todo) = "map" /\ RxNext(r)
      /\ y.id \in Ids0 /\ t \in Trans
  BY ThreadStates DEF AllFit, RxMap, RxAt, RxWorkOf
<1>2. UNCHANGED << trans, blocked, inbound, tx >> /\ Map(y.id, t)
  BY DEF RxMap
<1>3. y.id # NoId => owner[y.id] = t /\ userptr[t] = y.id
  <2> SUFFICES ASSUME y.id # NoId PROVE owner[y.id] = t /\ userptr[t] = y.id
    OBVIOUS
  <2>1. y.id \in DlgIds /\ Live(y.id) /\ SameDialogue(y.id, t, view)
    BY <1>1 DEF WritesInUse, RxFits, Ids0
  <2>2. QED
    BY <2>1, LiveIsMine DEF AllFit
<1>4. owner' = owner /\ userptr' = userptr
  BY <1>1, <1>2, <1>3, WrittenAgain
<1>5. view' = view /\ LibFits'
  BY <1>2, <1>4, SameTrans DEF view, AllFit, LibFits
<1>6. /\ \A q \in Rx : q # r => rx'[q] = rx[q]
      /\ y.todo \in AllLeft /\ y.todo \notin Dropping
  BY <1>1, RxNexts DEF RxFits
<1>7. CASE rx'[r] = RxIdle
  BY <1>2, <1>5, <1>6, <1>7, IdleFits, RxAllFit DEF AllFit
<1>8. CASE Len(y.todo) # 1 /\ z.todo = Tail(y.todo) /\ z.id = y.id /\ z.trans = y.trans
  <2>1. y.todo \in Holding /\ z.todo \in Holding /\ z.todo # << "look" >>
    BY <1>1, <1>6, <1>8, Follow
  <2>2. RxFits(z, view)
    BY <1>1, <1>8, <2>1, StepSets DEF RxFits, RxHolds, RxFinishes
  <2>3. QED
    BY <1>2, <1>5, <1>6, <2>2, RxAllFit DEF AllFit
<1>9. QED
  BY <1>1, <1>7, <1>8, RxNexts

LEMMA RxUnblockFits ==
  ASSUME HTypes, AllFit, Alone, NEW r \in Rx, RxUnblock(r)
  PROVE  AllFit'
<1> DEFINE y == rx[r]
           z == rx'[r]
           t == rx[r].trans
<1>1. RxFits(y, view) /\ y.todo # << >> /\ Head(y.todo) = "unblock" /\ RxNext(r)
  BY DEF AllFit, RxUnblock, RxAt
<1>2. UNCHANGED << poolVars, trans, userptr, inbound, tx >> /\ blocked' = blocked \ {t}
  BY DEF RxUnblock
<1>3. owner' = owner /\ Existing' = Existing /\ Unborn' = Unborn /\ LibFits'
  BY <1>2, SameRecords, SameTrans DEF poolVars, AllFit, LibFits
<1>4. /\ \A q \in Rx : q # r => rx'[q] = rx[q]
      /\ y.todo \in AllLeft /\ y.todo \notin Dropping
  BY <1>1, RxNexts DEF RxFits
<1>5. y.todo \in Holding /\ RxHolds(y)
  BY <1>1, <1>4, Follow DEF RxHolds
<1>6. /\ PoolFits(view) => PoolFits(view')
      /\ \A x : TxFits(x, view) /\ (TxHolds(x) => x.trans \in view'.held) => TxFits(x, view')
      /\ \A x : RxFits(x, view) /\ (RxHolds(x) => x.trans \in view'.held) => RxFits(x, view')
  BY <1>2, <1>3, ViewParts, BlockedChanges
<1>7. \A w \in Tx : TxFits(tx[w], view')
  <2> TAKE w \in Tx
  <2>1. TxFits(tx[w], view) /\ (TxHolds(tx[w]) => tx[w].trans # t)
    BY <1>5 DEF AllFit, Alone
  <2>2. TxHolds(tx[w]) => tx[w].trans \in blocked
    BY <2>1, ViewParts DEF TxFits
  <2>3. QED
    BY <1>2, <1>6, <2>1, <2>2, ViewParts
<1>8. ASSUME NEW q \in Rx, q # r PROVE RxFits(rx[q], view')
  <2>1. RxFits(rx[q], view) /\ (RxHolds(rx[q]) => rx[q].trans \in blocked)
    BY ViewParts DEF AllFit, RxFits
  <2>2. RxHolds(rx[q]) => rx[q].trans # t
    BY <1>1, <1>8, RxOthersTrans, StepSets DEF RxHolds
  <2>3. QED
    BY <1>2, <1>6, <2>1, <2>2, ViewParts
<1>9. PoolFits(view')
  BY <1>6 DEF AllFit
<1>10. CASE rx'[r] = RxIdle
  BY <1>2, <1>3, <1>4, <1>7, <1>8, <1>9, <1>10, IdleFits, RxAllFit
<1>11. CASE Len(y.todo) # 1 /\ z.todo = Tail(y.todo) /\ z.id = y.id /\ z.trans = y.trans
  <2>1. z.todo \notin Holding /\ z.todo \notin Finishing /\ z.todo # << "look" >>
        /\ z.todo \notin Dropping
    <3>1. z.todo \in {<< "deliver" >>, << "free", "delete", "deliver" >>, << "free", "delete" >>}
      BY <1>1, <1>4, <1>11, Follow
    <3>2. QED
      BY <3>1, StepSets
  <2>2. SameDialogue(y.id, y.trans, view) => SameDialogue(y.id, y.trans, view')
    BY <1>2, <1>3, ViewParts DEF SameDialogue
  <2>3. RxFits(z, view')
    BY <1>1, <1>2, <1>3, <1>11, <2>1, <2>2, ViewParts DEF RxFits, RxHolds, RxFinishes
  <2>4. QED
    BY <1>2, <1>3, <1>4, <1>7, <1>8, <1>9, <2>3, RxAllFit
<1>12. QED
  BY <1>1, <1>10, <1>11, RxNexts

LEMMA RxFreeFits ==
  ASSUME HTypes, AllFit, NEW r \in Rx, RxFree(r)
  PROVE  AllFit'
<1> DEFINE y == rx[r]
           z == rx'[r]
           t == rx[r].trans
<1>1. RxFits(y, view) /\ y.todo # << >> /\ Head(y.todo) = "free"
      /\ y.id \in Ids0 /\ t \in Trans /\ y.todo \in AllLeft
  BY ThreadStates DEF AllFit, RxFree, RxAt, RxWorkOf, AllLeft
<1>2. UNCHANGED << libVars, tx >> /\ FreeOrRefuse(y.id)
  BY DEF RxFree
<1>3. userptr' = userptr /\ blocked' = blocked /\ Existing' = Existing /\ Unborn' = Unborn /\ LibFits'
  BY <1>2, SameTrans DEF libVars, AllFit, LibFits
<1>4. owner' = IF y.id = NoId THEN owner ELSE [owner EXCEPT ![y.id] = NoTrans]
  <2>1. CASE y.id = NoId
    <3>1. UNCHANGED poolVars
      BY <1>2, <2>1, IdSets DEF FreeOrRefuse, Free, FreeAllocated, FreeAppChosen, CanFree
    <3>2. QED
      BY <2>1, <3>1, SameRecords DEF poolVars
  <2>2. CASE y.id # NoId
    BY <1>1, <1>2, <2>2, OwnerFreed DEF HTypes, IInv, Ids0
  <2>3. QED
    BY <2>1, <2>2
<1>5. /\ PoolFits(view')
      /\ \A w \in Tx : TxFits(tx[w], view')
      /\ \A q \in Rx : RxFits(rx[q], view')
  <2>1. CASE y.id = NoId
    <3>1. view' = view
      BY <1>3, <1>4, <2>1 DEF view
    <3>2. QED
      BY <3>1 DEF AllFit
  <2>2. CASE y.id # NoId
    <3>1. /\ PoolFits(view) => PoolFits(view')
          /\ \A x \in TxStates : TxFits(x, view) => TxFits(x, view')
          /\ \A x \in RxStates : RxFits(x, view) => RxFits(x, view')
      BY <1>1, <1>3, <1>4, <2>2, ViewParts, ViewTyped, RecordFreed DEF Ids0
    <3>2. QED
      BY <3>1, ThreadStates DEF AllFit
  <2>3. QED
    BY <2>1, <2>2
<1>6. CASE CanFree(y.id) /\ RxNext(r)
  <2>1. y.id # NoId /\ y.id \in DlgIds /\ SameDialogue(y.id, t, view) /\ Live(y.id)
    BY <1>1, <1>6, IdSets DEF RxFits, CanFree
  <2>2. t \in Existing
    BY <2>1, LiveIsMine DEF AllFit
  <2>3. owner'[y.id] = NoTrans
    BY <1>4, <2>1, OwnerTyped DEF HTypes, IInv
  <2>4. /\ \A q \in Rx : q # r => rx'[q] = rx[q]
        /\ \/ rx'[r] = RxIdle
           \/ z.todo = Tail(y.todo) /\ z.id = y.id /\ z.trans = y.trans
    BY <1>1, <1>6, RxNexts
  <2>5. Tail(y.todo) \in Finishing
    BY <1>1, Follow DEF RxFits
  <2>6. CASE z.todo = Tail(y.todo) /\ z.id = y.id /\ z.trans = y.trans
    <3>1. z.todo \in Finishing /\ z.todo \notin Holding /\ z.todo # << "look" >> /\ z.todo \notin Dropping
          /\ z.todo # << >>
      BY <2>5, <2>6, StepSets
    <3>2. RxFits(y, view')
      BY <1>5
    <3>3. RxFits(z, view')
      BY <1>1, <1>3, <2>1, <2>2, <2>3, <2>6, <3>1, <3>2, ViewParts DEF RxFits, RxHolds, RxFinishes
    <3>4. QED
      BY <1>2, <1>3, <1>5, <2>4, <3>3, RxAllFit
  <2>7. CASE rx'[r] = RxIdle
    BY <1>2, <1>3, <1>5, <2>4, <2>7, IdleFits, RxAllFit
  <2>8. QED
    BY <2>4, <2>6, <2>7
<1>7. CASE RxSkip(r, 2)
  <2>1. \/ rx' = [rx EXCEPT ![r].todo = << "deliver" >>]
        \/ rx' = [rx EXCEPT ![r] = RxIdle]
    BY <1>7, RxSkipsDelete DEF RxFree, HTypes
  <2>2. CASE rx' = [rx EXCEPT ![r] = RxIdle]
    <3>1. (\A q \in Rx : q # r => rx'[q] = rx[q]) /\ rx'[r] = RxIdle
      BY <2>2, ThreadStates
    <3>2. QED
      BY <1>2, <1>3, <1>5, <3>1, IdleFits, RxAllFit
  <2>3. CASE rx' = [rx EXCEPT ![r].todo = << "deliver" >>]
    <3>1. rx' = [rx EXCEPT ![r] = [y EXCEPT !.todo = << "deliver" >>]]
      BY <2>3
    <3>2. /\ \A q \in Rx : q # r => rx'[q] = rx[q]
          /\ z.todo = << "deliver" >> /\ z.id = y.id /\ z.trans = t
      <4>1. y \in RxWorkOf(r)
        BY <1>1, ThreadStates
      <4>2. QED
        BY <3>1, <4>1, ThreadStates DEF RxWorkOf
    <3>3. z.todo \notin Holding /\ z.todo \notin Finishing /\ z.todo # << "look" >>
          /\ z.todo \notin Dropping
      BY <3>2, StepSets
    <3>4. RxFits(z, view')
      BY <1>1, <1>5, <3>2, <3>3 DEF RxFits, RxHolds, RxFinishes
    <3>5. QED
      BY <1>2, <1>3, <1>5, <3>2, <3>4, RxAllFit
  <2>4. QED
    BY <2>1, <2>2, <2>3
<1>8. QED
  BY <1>6, <1>7 DEF RxFree

LEMMA RxDeleteFits ==
  ASSUME HTypes, AllFit, Alone, NEW r \in Rx, RxDelete(r)
  PROVE  AllFit'
<1> DEFINE y == rx[r]
           z == rx'[r]
           t == rx[r].trans
<1>1. RxFits(y, view) /\ y.todo # << >> /\ Head(y.todo) = "delete" /\ RxNext(r)
      /\ y.id \in Ids0 /\ t \in Trans
  BY ThreadStates DEF AllFit, RxDelete, RxAt, RxWorkOf
<1>2. UNCHANGED << poolVars, blocked, userptr, tx >> /\ DeleteTrans(t)
  BY DEF RxDelete
<1>3. /\ \A q \in Rx : q # r => rx'[q] = rx[q]
      /\ y.todo \in AllLeft /\ y.todo \notin Dropping
  BY <1>1, RxNexts DEF RxFits
<1>4. y.todo \in Finishing /\ RxFinishes(y) /\ (Len(y.todo) = 1 \/ Tail(y.todo) = << "deliver" >>)
  BY <1>1, <1>3, Follow DEF RxFinishes
<1>5. t \in Existing /\ y.id \in DlgIds /\ owner[y.id] = NoTrans /\ SameDialogue(y.id, t, view)
  BY <1>1, <1>4, ViewParts DEF RxFits, Ids0
<1>6. t \notin Unborn /\ userptr[t] # NoId /\ \A i \in DlgIds : owner[i] # t
  BY <1>5, FinishedHasNoRecord, ViewParts DEF AllFit, SameDialogue
<1>7. owner' = owner /\ Existing' = Existing \ {t} /\ Unborn' = Unborn /\ LibFits'
  BY <1>1, <1>2, <1>6, SameRecords, ExistingDeleted, LibFitsDeleted
     DEF DeleteTrans, HTypes, AllFit, poolVars
<1>8. /\ PoolFits(view) => PoolFits(view')
      /\ \A x : TxFits(x, view) /\ (TxFinishes(x) => x.trans # t) => TxFits(x, view')
      /\ \A x : RxFits(x, view) /\ (x.todo = << "look" >> \/ RxFinishes(x) => x.trans # t)
                   => RxFits(x, view')
  BY <1>2, <1>5, <1>6, <1>7, ViewParts, ViewTyped, TransDeleted
<1>9. \A w \in Tx : TxFits(tx[w], view')
  BY <1>4, <1>8 DEF AllFit, Alone
<1>10. ASSUME NEW q \in Rx, q # r PROVE RxFits(rx[q], view')
  <2>1. rx[q].todo = << "look" >> \/ RxFinishes(rx[q]) => rx[q].trans # t
    BY <1>1, <1>10, RxOthersTrans, StepSets, Lengths DEF RxFinishes
  <2>2. QED
    BY <1>8, <2>1 DEF AllFit
<1>11. PoolFits(view')
  BY <1>8 DEF AllFit
<1>12. CASE rx'[r] = RxIdle
  BY <1>2, <1>3, <1>7, <1>9, <1>10, <1>11, <1>12, IdleFits, RxAllFit
<1>13. CASE Len(y.todo) # 1 /\ z.todo = Tail(y.todo) /\ z.id = y.id /\ z.trans = y.trans
  <2>1. z.todo \notin Holding /\ z.todo \notin Finishing /\ z.todo # << "look" >>
        /\ z.todo \notin Dropping
    BY <1>4, <1>13, StepSets
  <2>2. SameDialogue(y.id, t, view')
    BY <1>2, <1>5, <1>7, ViewParts DEF SameDialogue
  <2>3. RxFits(z, view')
    BY <1>2, <1>6, <1>7, <1>13, <2>1, <2>2, ViewParts DEF RxFits, RxHolds, RxFinishes
  <2>4. QED
    BY <1>2, <1>3, <1>7, <1>9, <1>10, <1>11, <2>3, RxAllFit
<1>14. QED
  BY <1>1, <1>12, <1>13, RxNexts

LEMMA RxGetFits ==
  ASSUME HTypes, AllFit, NEW r \in Rx, NEW t \in Trans, RxGet(r, t)
  PROVE  AllFit'
<1> DEFINE z == rx'[r]
<1>1. UNCHANGED << poolVars, trans, userptr, tx >> /\ blocked' = blocked \cup {t}
      /\ inbound[t] # << >> /\ inbound' = [inbound EXCEPT ![t] = Tail(inbound[t])]
  BY DEF RxGet
<1>2. owner' = owner /\ Existing' = Existing /\ Unborn' = Unborn
  BY <1>1, SameRecords, SameTrans DEF poolVars
<1>3. trans[t] \in {"open", "ended"} /\ userptr[t] # NoId /\ t \in Existing /\ t \notin Unborn
  BY <1>1 DEF AllFit, LibFits, Existing, Unborn, Exists
<1>4. LibFits'
  BY <1>1, <1>3 DEF AllFit, LibFits, HTypes, LibTypes
<1>5. /\ PoolFits(view')
      /\ \A w \in Tx : TxFits(tx[w], view')
      /\ \A q \in Rx : RxFits(rx[q], view')
  <2>1. /\ PoolFits(view) => PoolFits(view')
        /\ \A x : TxFits(x, view) /\ (TxHolds(x) => x.trans \in view'.held) => TxFits(x, view')
        /\ \A x : RxFits(x, view) /\ (RxHolds(x) => x.trans \in view'.held) => RxFits(x, view')
    BY <1>1, <1>2, ViewParts, BlockedChanges
  <2>2. \A x : (TxFits(x, view) /\ TxHolds(x) => x.trans \in view'.held)
               /\ (RxFits(x, view) /\ RxHolds(x) => x.trans \in view'.held)
    BY <1>1, ViewParts DEF TxFits, RxFits
  <2>3. QED
    BY <2>1, <2>2 DEF AllFit
<1>6. /\ \A q \in Rx : q # r => rx'[q] = rx[q]
      /\ z.todo = << "look" >> /\ z.id = NoId /\ z.trans = t
  BY ThreadStates DEF RxGet
<1>7. z.todo \in Holding
  BY <1>6 DEF Holding
<1>8. RxFits(z, view')
  BY <1>1, <1>2, <1>3, <1>6, <1>7, StepSets, ViewParts DEF RxFits, RxHolds, RxFinishes
<1>9. QED
  BY <1>1, <1>4, <1>5, <1>6, <1>8, RxAllFit

LEMMA RxQueryDroppedFits ==
  ASSUME HTypes, AllFit, NEW r \in Rx, NEW t \in Trans, RxQueryDropped(r, t)
  PROVE  AllFit'
<1>1. UNCHANGED << poolVars, blocked, userptr, inbound, tx, rx >>
      /\ trans[t] = "none" /\ trans' = [trans EXCEPT ![t] = "deleted"]
  BY DEF RxQueryDropped
<1>2. t \in Unborn /\ Unborn' = Unborn \ {t} /\ Existing' = Existing
  <2>1. "deleted" \in TransStates \ {"none"}
    BY DEF TransStates
  <2>2. LibTypes
    BY DEF HTypes
  <2>3. QED
    BY <1>1, <2>1, <2>2, ExistingBorn
<1>3. owner' = owner
  BY <1>1, SameRecords DEF poolVars
<1>4. /\ PoolFits(view')
      /\ \A w \in Tx : TxFits(tx[w], view')
      /\ \A q \in Rx : RxFits(rx[q], view')
  BY <1>1, <1>2, <1>3, ViewParts, ViewTyped, TransBorn DEF AllFit
<1>5. LibFits'
  BY <1>1 DEF AllFit, LibFits, HTypes, LibTypes
<1>6. QED
  BY <1>1, <1>4, <1>5 DEF AllFit

LEMMA RxQueryFits ==
  ASSUME HTypes, AllFit, NEW r \in Rx, NEW t \in Trans, RxQuery(r, t), IdsRest
  PROVE  AllFit'
<1> DEFINE z  == rx'[r]
           id == IdToTake
           v1 == [own |-> owner, ptr |-> userptr, here |-> Existing \cup {t},
                  unborn |-> Unborn \ {t}, held |-> blocked]
           v2 == [own |-> [owner EXCEPT ![id] = t], ptr |-> [userptr EXCEPT ![t] = id],
                  here |-> Existing \cup {t}, unborn |-> Unborn \ {t}, held |-> blocked]
<1>1. /\ trans[t] = "none" /\ trans' = [trans EXCEPT ![t] = "open"]
      /\ blocked' = blocked \cup {t} /\ userptr' = [userptr EXCEPT ![t] = id]
      /\ UNCHANGED << inbound, tx >>
  BY DEF RxQuery
<1>2. id \in DlgIds /\ ~Live(id) /\ id # NoId
  BY AllocatedIdIsFree, IdSets DEF RxQuery, HTypes
<1>3. /\ \A w \in Tx : tx[w].id # id
      /\ \A q \in Rx : rx[q].id # id
      /\ \A s \in Existing : userptr[s] # id
  BY DEF IdsRest, Referred, Existing
<1>4. t \in Unborn /\ Unborn' = Unborn \ {t} /\ Existing' = Existing \cup {t}
  <2>1. "open" \in TransStates \ {"none"} /\ "open" # "deleted"
    BY DEF TransStates
  <2>2. LibTypes
    BY DEF HTypes
  <2>3. QED
    BY <1>1, <2>1, <2>2, ExistingBorn
<1>5. userptr[t] = NoId /\ owner[id] = NoTrans
  BY <1>2, <1>4, ViewParts, OwnerTyped DEF AllFit, PoolFits, HTypes, IInv
<1>6. owner' = [owner EXCEPT ![id] = t]
  <2>1. mInDlgRecordPool' = [mInDlgRecordPool EXCEPT ![id] = Fresh(t)]
    BY DEF RxQuery, Allocate
  <2>2. QED
    BY <1>2, <2>1, OwnerWritten DEF HTypes, IInv
<1>7. v1 \in Views
  BY <1>4, ViewTyped, ViewParts DEF Views
<1>8. /\ PoolFits(v1)
      /\ \A w \in Tx : TxFits(tx[w], v1)
      /\ \A q \in Rx : RxFits(rx[q], v1)
  <2>1. /\ v1.own = view.own /\ v1.ptr = view.ptr /\ v1.here = view.here \cup {t}
        /\ v1.unborn = view.unborn \ {t} /\ v1.held = view.held /\ t \in view.unborn
    BY <1>4, ViewParts
  <2> HIDE DEF v1
  <2>2. QED
    BY <2>1, ViewTyped, TransBorn DEF AllFit
<1>9. \A w \in Tx : Opening(tx[w]) => tx[w].trans # t
  BY <1>4, ViewTyped, ViewParts DEF AllFit, TxFits, Views
<1>10. /\ PoolFits(v2)
       /\ \A w \in Tx : TxFits(tx[w], v2)
       /\ \A q \in Rx : RxFits(rx[q], v2)
  <2>1. /\ v2.own = [v1.own EXCEPT ![id] = t] /\ v2.ptr = [v1.ptr EXCEPT ![t] = id]
        /\ v2.here = v1.here /\ v2.unborn = v1.unborn /\ v2.held = v1.held
        /\ v1.own[id] = NoTrans /\ t \in v1.here /\ v1.ptr[t] = NoId
        /\ \A s \in v1.here : v1.ptr[s] # id
    BY <1>2, <1>3, <1>5
  <2> HIDE DEF v1, v2
  <2>2. /\ PoolFits(v1) => PoolFits(v2)
        /\ \A x \in TxStates : /\ TxFits(x, v1)
                               /\ AtWork(x) => x.id # id
                               /\ Opening(x) => x.trans # t
                               => TxFits(x, v2)
        /\ \A y \in RxStates : RxFits(y, v1) /\ y.id # id => RxFits(y, v2)
    BY <1>2, <1>7, <2>1, RecordWritten
  <2>3. QED
    BY <1>3, <1>8, <1>9, <2>2, ThreadStates
<1>11. /\ PoolFits(view')
       /\ \A w \in Tx : TxFits(tx[w], view')
       /\ \A q \in Rx : RxFits(rx[q], view')
  <2>1. /\ view'.own = v2.own /\ view'.ptr = v2.ptr /\ view'.here = v2.here
        /\ view'.unborn = v2.unborn /\ v2.held = blocked
    BY <1>1, <1>4, <1>6, ViewParts
  <2> HIDE DEF v2
  <2>2. /\ PoolFits(v2) => PoolFits(view')
        /\ \A x : TxFits(x, v2) /\ (TxHolds(x) => x.trans \in view'.held) => TxFits(x, view')
        /\ \A x : RxFits(x, v2) /\ (RxHolds(x) => x.trans \in view'.held) => RxFits(x, view')
    BY <2>1, BlockedChanges
  <2>3. \A x : (TxFits(x, v2) /\ TxHolds(x) => x.trans \in view'.held)
               /\ (RxFits(x, v2) /\ RxHolds(x) => x.trans \in view'.held)
    BY <1>1, <2>1, ViewParts DEF TxFits, RxFits
  <2>4. QED
    BY <1>10, <2>2, <2>3
<1>12. LibFits'
  BY <1>1, <1>2 DEF AllFit, LibFits, HTypes, LibTypes
<1>13. /\ \A q \in Rx : q # r => rx'[q] = rx[q]
       /\ z.todo = << "map", "unblock", "deliver" >> /\ z.id = id /\ z.trans = t
  BY ThreadStates DEF RxQuery, Route
<1>14. z.todo \in Holding /\ z.todo # << "look" >>
  BY <1>13, Lengths DEF Holding
<1>15. userptr'[t] = id /\ owner'[id] = t /\ t \notin Unborn'
  BY <1>1, <1>2, <1>4, <1>6, OwnerTyped DEF HTypes, IInv, LibTypes
<1>16. RxFits(z, view')
  BY <1>1, <1>2, <1>13, <1>14, <1>15, StepSets, ViewParts
     DEF RxFits, RxHolds, RxFinishes, SameDialogue
<1>17. QED
  BY <1>1, <1>11, <1>12, <1>13, <1>16, RxAllFit

LEMMA RxStepFits ==
  ASSUME HTypes, Belongs, NEW r \in Rx, RxWork(r) \/ RxTake(r), WritesInUse, IdsRest, CallsServe
  PROVE  AllFit'
BY RxLookFits, RxMapFits, RxUnblockFits, RxFreeFits, RxDeleteFits, RxDeliverFits,
   RxQueryFits, RxQueryDroppedFits, RxGetFits
   DEF RxWork, RxTake, Belongs

-----------------------------------------------------------------------------
(* The application, the cleaner and the network.                             *)
LEMMA OthersStepFits ==
  ASSUME HTypes, AllFit, AppNext \/ CleanerNext \/ NetNext
  PROVE  AllFit'
<1>1. CASE UNCHANGED << poolVars, libVars, tx, rx >>
  <2>1. view' = view /\ LibFits'
    BY <1>1, StillLife DEF AllFit
  <2>2. QED
    BY <1>1, <2>1 DEF AllFit
<1>2. ASSUME NEW id \in DlgIds, Age(id) PROVE AllFit'
  <2>1. owner' = owner /\ UNCHANGED << trans, blocked, userptr, inbound, tx, rx >>
    BY <1>2, OwnerAged DEF Age, libVars, HTypes, IInv
  <2>2. view' = view /\ LibFits'
    BY <2>1, SameTrans DEF view, AllFit, LibFits
  <2>3. QED
    BY <2>1, <2>2 DEF AllFit
<1>3. ASSUME NEW t \in Trans, NEW kind \in NetKinds, NetSend(t, kind) PROVE AllFit'
  <2>1. /\ UNCHANGED << poolVars, blocked, userptr, tx, rx >> /\ trans[t] = "open"
        /\ inbound' = [inbound EXCEPT ![t] = Append(inbound[t], kind)]
        /\ trans' = trans \/ trans' = [trans EXCEPT ![t] = "ended"]
    BY <1>3 DEF NetSend
  <2>2. owner' = owner /\ Existing' = Existing /\ Unborn' = Unborn
    <3>1. t \in Existing
      BY <2>1 DEF Existing, Exists
    <3>2. QED
      BY <2>1, <3>1, SameRecords, SameTrans, ExistingMoved DEF poolVars, HTypes
  <2>3. view' = view
    BY <2>1, <2>2 DEF view
  <2>4. LibFits'
    BY <2>1 DEF AllFit, LibFits, HTypes, LibTypes
  <2>5. QED
    BY <2>1, <2>3, <2>4 DEF AllFit
<1>4. QED
  BY <1>1, <1>2, <1>3 DEF AppNext, AppQuery, AppSend, CleanerNext, CleanTimedoutDlg, NetNext

-----------------------------------------------------------------------------
(* What a thread takes upon itself by a step, nobody else has.               *)
NobodyHolds(t) ==
  /\ \A v \in Tx : TxHolds(tx[v]) => tx[v].trans # t
  /\ \A q \in Rx : RxHolds(rx[q]) => rx[q].trans # t
NobodyFinishes(t) ==
  /\ \A v \in Tx : TxFinishes(tx[v]) => tx[v].trans # t
  /\ \A q \in Rx : RxFinishes(rx[q]) => rx[q].trans # t
NobodyOpens(t) == \A v \in Tx : Opening(tx[v]) => tx[v].trans # t

LEMMA UnblockedIsFree ==
  ASSUME AllFit, NEW t, t \notin blocked
  PROVE  NobodyHolds(t)
BY ViewParts DEF AllFit, TxFits, RxFits, NobodyHolds

LEMMA UnbornIsFree ==
  ASSUME HTypes, AllFit, NEW t \in Unborn
  PROVE  NobodyHolds(t) /\ NobodyOpens(t)
<1>1. NobodyOpens(t)
  BY ViewTyped, ViewParts DEF AllFit, TxFits, NobodyOpens, Views
<1>2. \A v \in Tx : TxHolds(tx[v]) => tx[v].trans # t
  BY ViewParts DEF AllFit, TxFits, SameDialogue, TxHolds, AtWork, Opening, Terminal
<1>3. \A q \in Rx : RxHolds(rx[q]) => rx[q].trans # t
  BY StepSets, ViewParts DEF AllFit, RxFits, RxHolds
<1>4. QED
  BY <1>1, <1>2, <1>3 DEF NobodyHolds

LEMMA OwnedHasNoFinisher ==
  ASSUME HTypes, AllFit, NEW id \in DlgIds, NEW t \in Trans, owner[id] = t
  PROVE  NobodyFinishes(t)
<1>1. userptr[t] = id /\ t # NoTrans
  BY IdSets, ViewParts DEF AllFit, PoolFits
<1>2. \A v \in Tx : TxFinishes(tx[v]) => tx[v].trans # t
  BY <1>1, ViewParts DEF AllFit, TxFits, SameDialogue, TxFinishes, AtWork, Opening
<1>3. \A q \in Rx : RxFinishes(rx[q]) => rx[q].trans # t
  BY <1>1, ViewParts DEF AllFit, RxFits, SameDialogue
<1>4. QED
  BY <1>2, <1>3 DEF NobodyFinishes

(* A transmit thread's step, seen by the others.                             *)
Takes(w) ==
  LET x == tx[w]
      y == tx'[w]
  IN  /\ \A v \in Tx : v # w => tx'[v] = tx[v]
      /\ rx' = rx
      /\ TxHolds(y) => (TxHolds(x) /\ y.trans = x.trans) \/ NobodyHolds(y.trans)
      /\ TxFinishes(y) => (TxFinishes(x) /\ y.trans = x.trans) \/ NobodyFinishes(y.trans)
      /\ Opening(y) => (Opening(x) /\ y.trans = x.trans) \/ NobodyOpens(y.trans)
      /\ AtWork(y) => y.id \in DlgIds /\ \/ AtWork(x) /\ y.id = x.id
                                         \/ Live(y.id)
                                         \/ x.at = "map" /\ x.kind = "QUERY" /\ y.id = x.id
      /\ ~TxTake(w) => rdQueue' = rdQueue /\ (Asking(y) => Asking(x) /\ y.id = x.id)

LEMMA IdleTakes ==
  ASSUME NEW w \in Tx, \A v \in Tx : v # w => tx'[v] = tx[v], rx' = rx, rdQueue' = rdQueue,
         tx'[w].at \in {"idle", "freeOnly"}
  PROVE  Takes(w)
BY DEF Takes, TxHolds, TxFinishes, Opening, AtWork, Asking

LEMMA FreedByMe ==
  ASSUME HTypes, Belongs, NEW w \in Tx, tx[w].at \in {"preEnd", "free"}, CanFree(tx[w].id)
  PROVE  AtWork(tx[w]) /\ NobodyFinishes(tx[w].trans)
<1> DEFINE x == tx[w]
<1>1. TxFits(x, view) /\ x \in TxStates /\ x.id \in DlgIds /\ Live(x.id)
  BY ThreadStates DEF Belongs, AllFit, CanFree
<1>2. ~Asking(x)
  BY <1>1, OwnerTyped, ViewParts DEF Belongs, Queries, Unused, HTypes, IInv
<1>3. AtWork(x) /\ SameDialogue(x.id, x.trans, view)
  BY <1>1, <1>2 DEF TxFits, Asking, AtWork, Opening
<1>4. owner[x.id] = x.trans
  BY <1>1, <1>3, LiveIsMine DEF Belongs, AllFit
<1>5. QED
  BY <1>1, <1>3, <1>4, OwnedHasNoFinisher DEF Belongs, SameDialogue

LEMMA TxStepTakes ==
  ASSUME HTypes, Belongs, NEW w \in Tx, TxNext(w), CallsServe
  PROVE  Takes(w)
<1> DEFINE x == tx[w]
           y == tx'[w]
<1>0. TxFits(x, view) /\ x \in TxStates /\ (x.at # "idle" => x.id \in DlgIds /\ x \in TxWork)
  BY ThreadStates, TxBusy DEF Belongs, AllFit, HTypes
<1>1. CASE TxTake(w)
  <2>1. (\A v \in Tx : v # w => tx'[v] = tx[v]) /\ y.at = "look" /\ rx' = rx
    BY <1>1, ThreadStates DEF TxTake
  <2>2. QED
    BY <1>1, <2>1 DEF Takes, TxHolds, TxFinishes, Opening, AtWork
<1>2. CASE TxFound(w)
  <2>1. rx' = rx /\ rdQueue' = rdQueue /\ Live(x.id) /\ x.at = "look"
    BY <1>2 DEF TxFound, TxAt
  <2>2. CASE TxDone(w)
    BY <2>1, <2>2, TxEnds, IdleTakes DEF TxIdle
  <2>3. CASE ~TxDone(w)
    <3>1. /\ x.kind # "QUERY"
          /\ \E place \in {"preEnd", "noIds", "build"} :
               tx' = [tx EXCEPT ![w] = [x EXCEPT !.trans = TransInfo(x.id), !.at = place]]
      BY <1>2, <2>3 DEF TxFound
    <3>2. /\ \A v \in Tx : v # w => tx'[v] = tx[v]
          /\ y.kind = x.kind /\ y.id = x.id /\ y.at \in {"preEnd", "noIds", "build"}
      BY <1>0, <2>1, <3>1, ThreadStates DEF TxWork
    <3>3. QED
      BY <1>0, <2>1, <3>1, <3>2 DEF Takes, TxHolds, TxFinishes, Opening, AtWork, Asking
  <2>4. QED
    BY <2>2, <2>3
<1>3. CASE TxOpen(w)
  <2>1. x.at = "look" /\ x.kind = "QUERY" /\ rx' = rx /\ rdQueue' = rdQueue
    BY <1>3 DEF TxOpen, TxAt
  <2>2. PICK t \in Trans : /\ trans[t] = "none"
                           /\ tx' = [tx EXCEPT ![w] = [x EXCEPT !.trans = t, !.at = "build"]]
    BY <1>3 DEF TxOpen
  <2>3. /\ \A v \in Tx : v # w => tx'[v] = tx[v]
        /\ y.kind = x.kind /\ y.id = x.id /\ y.at = "build" /\ y.trans = t
    BY <1>0, <2>1, <2>2, ThreadStates DEF TxWork
  <2>4. NobodyOpens(t)
    BY <2>2, UnbornIsFree DEF Unborn, Belongs
  <2>5. QED
    BY <2>1, <2>3, <2>4 DEF Takes, TxHolds, TxFinishes, Opening, AtWork, Asking
<1>4. CASE TxNotFound(w)
  <2>1. x.at # "idle" /\ TxGoTo(w, "freeOnly") /\ rx' = rx /\ rdQueue' = rdQueue
    BY <1>4 DEF TxNotFound, TxAt
  <2>2. QED
    BY <2>1, TxMoves, IdleTakes
<1>5. CASE TxFreeOnly(w) \/ TxTell(w) \/ TxDelete(w) \/ TxSendFails(w)
  <2>1. TxDone(w) /\ rx' = rx /\ rdQueue' = rdQueue
    BY <1>5 DEF TxFreeOnly, TxTell, TxDelete, TxSendFails, CallsServe
  <2>2. QED
    BY <2>1, TxEnds, IdleTakes DEF TxIdle
<1>6. ASSUME NEW place, TxGoTo(w, place), x.at # "idle", rx' = rx, rdQueue' = rdQueue,
             /\ \/ place \in {"tell", "blockAgain"} /\ AtWork(x)
                \/ place = "block" /\ x.at \in {"build", "noIds"} /\ x.kind \in Terminal
                \/ place = "map" /\ x.at \in {"build", "noIds"} /\ x.kind \notin Terminal
                \/ place = "preEnd" /\ x.at \in {"build", "noIds"}
                \/ place = "blockDelete" /\ x.at = "preEnd" /\ CanFree(x.id)
                \/ place = "delete" /\ x.at = "free" /\ CanFree(x.id)
                \/ place = "free" /\ x.at = "send" /\ x.kind \in Terminal
                \/ place = "send" /\ x.at = "map"
                \/ place = "send" /\ x.at \in {"block", "blockAgain"} /\ x.trans \notin blocked
      PROVE  Takes(w)
  <2>1. /\ \A v \in Tx : v # w => tx'[v] = tx[v]
        /\ y.at = place /\ y.kind = x.kind /\ y.id = x.id /\ y.trans = x.trans
    BY <1>6, TxMoves
  <2>2. CASE place \in {"blockDelete", "delete"}
    <3>1. AtWork(x) /\ NobodyFinishes(x.trans)
      BY <1>6, <2>2, FreedByMe
    <3>2. QED
      BY <1>0, <1>6, <2>1, <2>2, <3>1 DEF Takes, TxHolds, TxFinishes, Opening, AtWork, Asking
  <2>3. CASE place = "send" /\ x.at \in {"block", "blockAgain"} /\ x.trans \notin blocked
    <3>1. NobodyHolds(x.trans)
      BY <2>3, UnblockedIsFree DEF Belongs
    <3>2. QED
      BY <1>0, <1>6, <2>1, <2>3, <3>1 DEF Takes, TxHolds, TxFinishes, Opening, AtWork, Asking
  <2>4. CASE \/ place \in {"tell", "blockAgain"} /\ AtWork(x)
             \/ place = "free" /\ x.at = "send" /\ x.kind \in Terminal
    <3>1. AtWork(x) /\ ~Opening(y) /\ ~Asking(y)
      BY <2>1, <2>4 DEF AtWork, Opening, Asking
    <3>2. QED
      BY <1>0, <1>6, <2>1, <2>4, <3>1 DEF Takes, TxHolds, TxFinishes
  <2>5. CASE x.at \in {"build", "noIds"} /\ place \in {"block", "map", "preEnd"}
    <3>1. Opening(y) => Opening(x)
      BY <1>0, <1>6, <2>1, <2>5 DEF Opening, TxFits, Terminal
    <3>2. AtWork(y) => AtWork(x)
      BY <1>0, <1>6, <2>1, <2>5 DEF AtWork, Opening, TxFits, Terminal
    <3>3. Asking(y) => Asking(x)
      BY <1>0, <1>6, <2>1, <2>5 DEF Asking, TxFits, Terminal
    <3>4. QED
      BY <1>0, <1>6, <2>1, <2>5, <3>1, <3>2, <3>3 DEF Takes, TxHolds, TxFinishes
  <2>6. CASE place = "send" /\ x.at = "map"
    <3>1. AtWork(x) \/ x.kind = "QUERY"
      BY <2>6 DEF AtWork, Opening
    <3>2. ~TxHolds(y) /\ ~TxFinishes(y) /\ ~Opening(y) /\ ~Asking(y)
      BY <1>0, <2>1, <2>6 DEF TxFits, TxHolds, TxFinishes, Opening, Asking
    <3>3. QED
      BY <1>0, <1>6, <2>1, <2>6, <3>1, <3>2 DEF Takes
  <2>7. QED
    BY <1>6, <2>2, <2>3, <2>4, <2>5, <2>6
<1>7. CASE TxPreEnd(w) \/ TxBlockDelete(w)
  <2>1. rx' = rx /\ rdQueue' = rdQueue /\ x.at \in {"preEnd", "blockDelete"}
    BY <1>7 DEF TxPreEnd, TxBlockDelete, TxAt
  <2>2. \/ TxDone(w)
        \/ TxGoTo(w, "tell") /\ PreEnd(w)
        \/ TxGoTo(w, "blockDelete") /\ x.at = "preEnd" /\ CanFree(x.id)
    BY <1>7 DEF TxPreEnd, TxBlockDelete, TxAt, TxLeaveTo, AfterDelete
  <2>3. PreEnd(w) => AtWork(x)
    BY <2>1 DEF PreEnd, AtWork, Opening
  <2>4. QED
    BY <1>6, <2>1, <2>2, <2>3, TxEnds, IdleTakes DEF TxIdle
<1>8. CASE TxBuild(w) \/ TxBuildFails(w)
  <2>1. rx' = rx /\ rdQueue' = rdQueue /\ x.at \in {"build", "noIds"}
    BY <1>8 DEF TxBuild, TxBuildFails, TxAt
  <2>2. \/ TxDone(w) \/ TxGoTo(w, "preEnd")
        \/ TxGoTo(w, "block") /\ x.kind \in Terminal
        \/ TxGoTo(w, "map") /\ x.kind \notin Terminal
    BY <1>8 DEF TxBuild, TxBuildFails
  <2>3. QED
    BY <1>6, <2>1, <2>2, TxEnds, IdleTakes DEF TxIdle
<1>9. CASE TxMap(w)
  BY <1>6, <1>9 DEF TxMap, TxAt
<1>10. CASE TxBlock(w)
  <2>1. rx' = rx /\ rdQueue' = rdQueue /\ x.at \in {"block", "blockAgain"} /\ AtWork(x)
    BY <1>10 DEF TxBlock, TxAt, AtWork, Opening
  <2>2. TxDone(w) \/ TxGoTo(w, "blockAgain") \/ (TxGoTo(w, "send") /\ x.trans \notin blocked)
    BY <1>10 DEF TxBlock
  <2>3. QED
    BY <1>6, <2>1, <2>2, TxEnds, IdleTakes DEF TxIdle
<1>11. CASE TxSend(w)
  <2>1. rx' = rx /\ rdQueue' = rdQueue /\ x.at = "send"
    BY <1>11 DEF TxSend, TxAt
  <2>2. TxDone(w) \/ (TxGoTo(w, "free") /\ x.kind \in Terminal)
    BY <1>11 DEF TxSend
  <2>3. QED
    BY <1>6, <2>1, <2>2, TxEnds, IdleTakes DEF TxIdle
<1>12. CASE TxFree(w)
  <2>1. rx' = rx /\ rdQueue' = rdQueue /\ x.at = "free"
    BY <1>12 DEF TxFree, TxAt
  <2>2. TxDone(w) \/ (TxGoTo(w, "delete") /\ CanFree(x.id))
    BY <1>12 DEF TxFree
  <2>3. QED
    BY <1>6, <2>1, <2>2, TxEnds, IdleTakes DEF TxIdle
<1>13. QED
  BY <1>1, <1>2, <1>3, <1>4, <1>5, <1>7, <1>8, <1>9, <1>10, <1>11, <1>12 DEF TxNext

LEMMA TxStaysAlone ==
  ASSUME Alone, NEW w \in Tx, Takes(w)
  PROVE  Alone'
<1> DEFINE x == tx[w]
           y == tx'[w]
<1>1. \A a, b \in Tx : TxHolds(tx'[a]) /\ TxHolds(tx'[b]) /\ tx'[a].trans = tx'[b].trans => a = b
  BY DEF Takes, Alone, NobodyHolds
<1>2. \A a \in Tx, q \in Rx : TxHolds(tx'[a]) /\ RxHolds(rx'[q]) => tx'[a].trans # rx'[q].trans
  BY DEF Takes, Alone, NobodyHolds
<1>3. \A a, b \in Tx :
        TxFinishes(tx'[a]) /\ TxFinishes(tx'[b]) /\ tx'[a].trans = tx'[b].trans => a = b
  BY DEF Takes, Alone, NobodyFinishes
<1>4. \A a \in Tx, q \in Rx :
        TxFinishes(tx'[a]) /\ RxFinishes(rx'[q]) => tx'[a].trans # rx'[q].trans
  BY DEF Takes, Alone, NobodyFinishes
<1>5. \A a, b \in Tx : Opening(tx'[a]) /\ Opening(tx'[b]) /\ tx'[a].trans = tx'[b].trans => a = b
  BY DEF Takes, Alone, NobodyOpens
<1>6. QED
  BY <1>1, <1>2, <1>3, <1>4, <1>5 DEF Alone

(* A receive thread's step, seen by the others.                              *)
RxTakes(r) ==
  LET y == rx[r]
      z == rx'[r]
  IN  /\ \A q \in Rx : q # r => rx'[q] = rx[q]
      /\ tx' = tx /\ rdQueue' = rdQueue
      /\ RxHolds(z) => (RxHolds(y) /\ z.trans = y.trans) \/ NobodyHolds(z.trans)
      /\ RxFinishes(z) => (RxFinishes(y) /\ z.trans = y.trans) \/ NobodyFinishes(z.trans)
      /\ z.id \in {NoId, y.id} \/ (z.id \in DlgIds /\ Live(z.id)) \/ z.id \in AllocIds

LEMMA RxStaysAlone ==
  ASSUME Alone, NEW r \in Rx, RxTakes(r)
  PROVE  Alone'
<1>1. \A a, b \in Tx : TxHolds(tx'[a]) /\ TxHolds(tx'[b]) /\ tx'[a].trans = tx'[b].trans => a = b
  BY DEF RxTakes, Alone
<1>2. \A a \in Tx, q \in Rx : TxHolds(tx'[a]) /\ RxHolds(rx'[q]) => tx'[a].trans # rx'[q].trans
  BY DEF RxTakes, Alone, NobodyHolds
<1>3. \A a, b \in Tx :
        TxFinishes(tx'[a]) /\ TxFinishes(tx'[b]) /\ tx'[a].trans = tx'[b].trans => a = b
  BY DEF RxTakes, Alone
<1>4. \A a \in Tx, q \in Rx :
        TxFinishes(tx'[a]) /\ RxFinishes(rx'[q]) => tx'[a].trans # rx'[q].trans
  BY DEF RxTakes, Alone, NobodyFinishes
<1>5. \A a, b \in Tx : Opening(tx'[a]) /\ Opening(tx'[b]) /\ tx'[a].trans = tx'[b].trans => a = b
  BY DEF RxTakes, Alone
<1>6. QED
  BY <1>1, <1>2, <1>3, <1>4, <1>5 DEF Alone

LEMMA RxStepTakes ==
  ASSUME HTypes, Belongs, NEW r \in Rx, RxWork(r) \/ RxTake(r), CallsServe
  PROVE  RxTakes(r)
<1> DEFINE y == rx[r]
           z == rx'[r]
<1>0. RxFits(y, view) /\ (y.todo # << >> => y \in RxWorkOf(r) /\ y.todo \in AllLeft)
      /\ y.todo \notin Dropping
  BY ThreadStates DEF Belongs, AllFit, RxFits, RxWorkOf, AllLeft
<1>1. ASSUME RxIdle = z, tx' = tx, rdQueue' = rdQueue, \A q \in Rx : q # r => rx'[q] = rx[q]
      PROVE  RxTakes(r)
  <2>1. z.todo \notin Holding /\ z.todo \notin Finishing /\ z.id = NoId
    BY <1>1, StepSets DEF RxIdle
  <2>2. QED
    BY <1>1, <2>1 DEF RxTakes, RxHolds, RxFinishes
<1>2. ASSUME y.todo # << >>, RxNext(r), tx' = tx, rdQueue' = rdQueue,
             Head(y.todo) \in {"map", "unblock", "delete", "deliver"}
      PROVE  RxTakes(r)
  <2>1. (\A q \in Rx : q # r => rx'[q] = rx[q])
    BY <1>2, RxNexts
  <2>2. CASE z = RxIdle
    BY <1>1, <1>2, <2>1, <2>2
  <2>3. CASE Len(y.todo) # 1 /\ z.todo = Tail(y.todo) /\ z.id = y.id /\ z.trans = y.trans
    <3>1. CASE Head(y.todo) \in {"map", "deliver"}
      <4>1. y.todo \in Holding /\ z.todo \in Holding /\ z.todo \notin Finishing
        BY <1>0, <1>2, <2>3, <3>1, Follow, StepSets
      <4>2. QED
        BY <1>2, <2>1, <2>3, <4>1 DEF RxTakes, RxHolds, RxFinishes
    <3>2. CASE Head(y.todo) \in {"unblock", "delete"}
      <4>1. z.todo \in {<< "deliver" >>, << "free", "delete", "deliver" >>, << "free", "delete" >>}
        BY <1>0, <1>2, <2>3, <3>2, Follow
      <4>2. z.todo \notin Holding /\ z.todo \notin Finishing
        BY <4>1, StepSets
      <4>3. QED
        BY <1>2, <2>1, <2>3, <4>2 DEF RxTakes, RxHolds, RxFinishes
    <3>3. QED
      BY <1>2, <3>1, <3>2
  <2>4. QED
    BY <1>2, <2>2, <2>3, RxNexts
<1>3. CASE RxMap(r) \/ RxUnblock(r) \/ RxDelete(r) \/ RxDeliver(r)
  BY <1>2, <1>3 DEF RxMap, RxUnblock, RxDelete, RxDeliver, RxAt
<1>4. CASE RxFree(r)
  <2>1. y.todo # << >> /\ Head(y.todo) = "free" /\ tx' = tx /\ rdQueue' = rdQueue
    BY <1>4 DEF RxFree, RxAt
  <2>2. CASE CanFree(y.id) /\ RxNext(r)
    <3>1. y.id \in DlgIds /\ Live(y.id) /\ y.id # NoId
      BY <2>2, IdSets DEF CanFree
    <3>2. SameDialogue(y.id, y.trans, view)
      BY <1>0, <3>1 DEF RxFits
    <3>3. owner[y.id] = y.trans /\ y.trans \in Trans
      BY <3>1, <3>2, LiveIsMine DEF Belongs, AllFit, SameDialogue
    <3>4. NobodyFinishes(y.trans)
      BY <3>1, <3>3, OwnedHasNoFinisher DEF Belongs
    <3>5. (\A q \in Rx : q # r => rx'[q] = rx[q])
      BY <2>1, <2>2, RxNexts
    <3>6. CASE z = RxIdle
      BY <1>1, <2>1, <3>5, <3>6
    <3>7. CASE z.todo = Tail(y.todo) /\ z.id = y.id /\ z.trans = y.trans
      <4>1. z.todo \in Finishing /\ z.todo \notin Holding
        BY <1>0, <2>1, <3>7, Follow, StepSets
      <4>2. QED
        BY <2>1, <3>4, <3>5, <3>7, <4>1 DEF RxTakes, RxHolds, RxFinishes
    <3>8. QED
      BY <2>1, <2>2, <3>6, <3>7, RxNexts
  <2>3. CASE RxSkip(r, 2)
    <3>1. \/ rx' = [rx EXCEPT ![r] = [y EXCEPT !.todo = << "deliver" >>]]
          \/ rx' = [rx EXCEPT ![r] = RxIdle]
      BY <1>4, <2>3, RxSkipsDelete DEF RxFree, HTypes
    <3>2. (\A q \in Rx : q # r => rx'[q] = rx[q])
          /\ (z = RxIdle \/ z = [y EXCEPT !.todo = << "deliver" >>])
      BY <3>1, ThreadStates
    <3>3. CASE z = RxIdle
      BY <1>1, <2>1, <3>2, <3>3
    <3>4. CASE z = [y EXCEPT !.todo = << "deliver" >>]
      <4>1. z.todo = << "deliver" >> /\ z.id = y.id
        BY <1>0, <2>1, <3>4 DEF RxWorkOf
      <4>2. z.todo \notin Holding /\ z.todo \notin Finishing
        BY <4>1, StepSets
      <4>3. QED
        BY <2>1, <3>2, <4>1, <4>2 DEF RxTakes, RxHolds, RxFinishes
    <3>5. QED
      BY <3>2, <3>3, <3>4
  <2>4. QED
    BY <1>4, <2>2, <2>3 DEF RxFree
<1>5. CASE RxLook(r)
  <2>1. y.todo = << "look" >> /\ y.todo \in Holding /\ y.todo # << >>
    BY <1>0, <1>5, Follow DEF RxLook, RxAt
  <2>2. Exists(y.trans) /\ userptr[y.trans] # NoId /\ y \in RxWorkOf(r)
    BY <1>0, <2>1, ViewParts DEF RxFits, Existing
  <2>3. y.kind # "QUERY"
    BY <2>1, <2>2, Lengths DEF RxWorkOf, QueryLeft, AnswerLeft, TimeoutLeft, DropLeft, LateLeft
  <2>4. rx' = [rx EXCEPT ![r] = [y EXCEPT !.todo = Route(y.kind), !.id = DialogueInfo(y.trans)]]
        /\ tx' = tx /\ rdQueue' = rdQueue
    BY <1>5, <2>2 DEF RxLook, IdsFail, CallsServe
  <2>5. /\ \A q \in Rx : q # r => rx'[q] = rx[q]
        /\ z.todo = Route(y.kind) /\ z.id = DialogueInfo(y.trans) /\ z.trans = y.trans
    BY <2>2, <2>4, ThreadStates DEF RxWorkOf
  <2>6. Route(y.kind) \in Holding
    BY <2>2, <2>3, HandlerAssumption DEF Route, Holding, RxWorkOf
  <2>7. z.id = NoId \/ (z.id \in DlgIds /\ Live(z.id))
    BY <2>2, <2>5 DEF DialogueInfo, RxWorkOf, HTypes, LibTypes, Ids0
  <2>8. QED
    BY <2>1, <2>4, <2>5, <2>6, <2>7, StepSets DEF RxTakes, RxHolds, RxFinishes
<1>6. ASSUME NEW t \in Trans, RxQuery(r, t) PROVE RxTakes(r)
  <2>1. /\ \A q \in Rx : q # r => rx'[q] = rx[q]
        /\ tx' = tx /\ rdQueue' = rdQueue
        /\ z.todo = << "map", "unblock", "deliver" >> /\ z.trans = t /\ z.id = IdToTake
    BY <1>6, ThreadStates DEF RxQuery, Route
  <2>2. IdToTake \in AllocIds
    BY <1>6, AllocatedIdIsFree DEF RxQuery, HTypes
  <2>3. NobodyHolds(t)
    BY <1>6, UnbornIsFree DEF RxQuery, Unborn, Belongs
  <2>4. z.todo \in Holding /\ z.todo \notin Finishing
    BY <2>1, StepSets DEF Holding
  <2>5. QED
    BY <2>1, <2>2, <2>3, <2>4 DEF RxTakes, RxHolds, RxFinishes
<1>7. ASSUME NEW t \in Trans, RxGet(r, t) PROVE RxTakes(r)
  <2>1. /\ \A q \in Rx : q # r => rx'[q] = rx[q]
        /\ tx' = tx /\ rdQueue' = rdQueue
        /\ z.todo = << "look" >> /\ z.trans = t /\ z.id = NoId
    BY <1>7, ThreadStates DEF RxGet
  <2>2. NobodyHolds(t)
    BY <1>7, UnblockedIsFree DEF RxGet, Belongs
  <2>3. z.todo \in Holding /\ z.todo \notin Finishing
    BY <2>1, StepSets DEF Holding
  <2>4. QED
    BY <2>1, <2>2, <2>3 DEF RxTakes, RxHolds, RxFinishes
<1>8. ASSUME NEW t \in Trans, RxQueryDropped(r, t) PROVE RxTakes(r)
  BY <1>8 DEF RxQueryDropped, RxTakes
<1>9. QED
  BY <1>3, <1>4, <1>5, <1>6, <1>7, <1>8 DEF RxWork, RxTake

-----------------------------------------------------------------------------
(* The id of a query that waits or is asked stays nobody else's.             *)
Wanted(id) ==
  \/ \E i \in 1 .. Len(rdQueue) : rdQueue[i].kind = "QUERY" /\ rdQueue[i].id = id
  \/ \E w \in Tx : Asking(tx[w]) /\ tx[w].id = id

Spared(id) == owner[id] = NoTrans /\ \A t \in Existing : userptr[t] # id

LEMMA UnusedMeans ==
  ASSUME NEW id
  PROVE  /\ Unused(id, view, tx, rx) <=>
              /\ Spared(id)
              /\ \A w \in Tx : AtWork(tx[w]) => tx[w].id # id
              /\ \A r \in Rx : rx[r].id # id
         /\ Unused(id, view', tx', rx') <=>
              /\ Spared(id)'
              /\ \A w \in Tx : AtWork(tx'[w]) => tx'[w].id # id
              /\ \A r \in Rx : rx'[r].id # id
<1>1. Spared(id) <=> view.own[id] = NoTrans /\ \A t \in view.here : view.ptr[t] # id
  BY ViewParts DEF Spared
<1>2. Spared(id)' <=> view'.own[id] = NoTrans /\ \A t \in view'.here : view'.ptr[t] # id
  BY ViewParts DEF Spared
<1>3. \A v, xs, ys : Unused(id, v, xs, ys) <=>
         /\ v.own[id] = NoTrans /\ \A t \in v.here : v.ptr[t] # id
         /\ \A w \in Tx : AtWork(xs[w]) => xs[w].id # id
         /\ \A r \in Rx : ys[r].id # id
  BY DEF Unused
<1>4. QED
  BY <1>1, <1>2, <1>3

LEMMA WantedIds ==
  ASSUME HTypes, NEW id, Wanted(id)
  PROVE  id \in AppIds /\ id \in DlgIds /\ id # NoId /\ id \notin AllocIds
<1>1. id \in AppIds
  <2>1. ASSUME NEW i \in 1 .. Len(rdQueue), rdQueue[i].kind = "QUERY", rdQueue[i].id = id
        PROVE  id \in AppIds
    BY <2>1, ElementOfSeq DEF HTypes, QueueTypes, Message
  <2>2. ASSUME NEW w \in Tx, Asking(tx[w]), tx[w].id = id PROVE id \in AppIds
    BY <2>2, TxBusy DEF HTypes, Asking, TxWork
  <2>3. QED
    BY <2>1, <2>2 DEF Wanted
<1>2. QED
  BY <1>1, IdSets, Sizes, PoolAssumption DEF AppIds, AllocIds

LEMMA WantedIsUnused ==
  ASSUME Queries, NEW id, Wanted(id)
  PROVE  Unused(id, view, tx, rx)
BY DEF Queries, Wanted

LEMMA QueriesKept ==
  ASSUME Queries, rdQueue' = rdQueue,
         \A w \in Tx : Asking(tx'[w]) => Asking(tx[w]) /\ tx'[w].id = tx[w].id,
         \A id : Wanted(id)' => Unused(id, view', tx', rx')
  PROVE  Queries'
<1>1. \A i \in 1 .. Len(rdQueue') :
        rdQueue'[i].kind = "QUERY" => Unused(rdQueue'[i].id, view', tx', rx')
  BY DEF Wanted
<1>2. \A w \in Tx : Asking(tx'[w]) => Unused(tx'[w].id, view', tx', rx')
  BY DEF Wanted
<1>3. \A i, j \in 1 .. Len(rdQueue') :
        rdQueue'[i].kind = "QUERY" /\ rdQueue'[j].kind = "QUERY" /\ rdQueue'[i].id = rdQueue'[j].id
          => i = j
  BY DEF Queries
<1>4. /\ \A i \in 1 .. Len(rdQueue'), w \in Tx :
            rdQueue'[i].kind = "QUERY" /\ Asking(tx'[w]) => rdQueue'[i].id # tx'[w].id
      /\ \A w, v \in Tx : Asking(tx'[w]) /\ Asking(tx'[v]) /\ tx'[w].id = tx'[v].id => w = v
  BY DEF Queries
<1>5. QED
  BY <1>1, <1>2, <1>3, <1>4 DEF Queries

LEMMA MapSpares ==
  ASSUME HTypes, NEW id \in DlgIds, NEW j \in Ids0, j # id, NEW t \in Trans, Map(j, t),
         trans' = trans, Spared(id)
  PROVE  Spared(id)'
<1>1. owner'[id] = NoTrans
  <2>1. CASE j = NoId
    BY <2>1, SameRecords DEF Map, poolVars, Spared
  <2>2. CASE j # NoId
    <3>1. j \in DlgIds /\ mInDlgRecordPool' = [mInDlgRecordPool EXCEPT ![j] = Fresh(t)]
      BY <2>2 DEF Map, Ids0, Update
    <3>2. owner' = [owner EXCEPT ![j] = t]
      BY <3>1, OwnerWritten DEF HTypes, IInv
    <3>3. QED
      BY <3>1, <3>2, OwnerTyped DEF HTypes, IInv, Spared
  <2>3. QED
    BY <2>1, <2>2
<1>2. userptr' = userptr \/ userptr' = [userptr EXCEPT ![t] = j]
  BY DEF Map
<1>3. \A s \in Existing' : userptr'[s] # id
  BY <1>2, SameTrans DEF HTypes, LibTypes, Spared, Existing
<1>4. QED
  BY <1>1, <1>3 DEF Spared

LEMMA FreeSpares ==
  ASSUME HTypes, NEW id \in DlgIds, NEW j \in Ids0, FreeOrRefuse(j),
         UNCHANGED libVars, Spared(id)
  PROVE  Spared(id)'
<1>1. owner'[id] = NoTrans
  <2>1. CASE j = NoId
    <3>1. UNCHANGED poolVars
      BY <2>1, IdSets DEF FreeOrRefuse, Free, FreeAllocated, FreeAppChosen, CanFree
    <3>2. QED
      BY <3>1, SameRecords DEF poolVars, Spared
  <2>2. CASE j # NoId
    <3>1. j \in DlgIds
      BY <2>2 DEF Ids0
    <3>2. owner' = [owner EXCEPT ![j] = NoTrans]
      BY <3>1, OwnerFreed DEF HTypes, IInv
    <3>3. QED
      BY <3>2, OwnerTyped DEF HTypes, IInv, Spared
  <2>3. QED
    BY <2>1, <2>2
<1>2. Existing' = Existing /\ userptr' = userptr
  BY SameTrans DEF libVars
<1>3. QED
  BY <1>1, <1>2 DEF Spared

(* No other step gives the id a record or points a transaction to it.        *)
LEMMA OthersSpare ==
  ASSUME HTypes, NEW id \in DlgIds, owner' = owner, userptr' = userptr,
         \A t \in Existing' : t \in Existing \/ userptr[t] # id, Spared(id)
  PROVE  Spared(id)'
BY DEF Spared

LEMMA TxStepSpares ==
  ASSUME HTypes, Belongs, NEW w \in Tx, TxNext(w), WritesInUse, NEW id \in DlgIds, Spared(id),
         tx[w].at = "map" /\ tx[w].kind = "QUERY" => tx[w].id # id
  PROVE  Spared(id)'
<1> DEFINE x == tx[w]
<1>0. x.at # "idle" => x.id \in DlgIds /\ x.id \in Ids0
  BY TxBusy DEF HTypes, Ids0
<1>1. CASE TxMap(w)
  <2>1. x.at = "map" /\ Map(x.id, x.trans) /\ trans' = trans /\ x.trans \in Trans
    BY <1>1, TxBusy DEF TxMap, TxAt, HTypes, TxWork
  <2>2. x.kind # "QUERY" => Live(x.id)
    BY <1>1 DEF WritesInUse
  <2>3. x.id # id
    BY <1>0, <2>1, <2>2, OwnerTyped DEF HTypes, IInv, Spared
  <2>4. QED
    BY <1>0, <2>1, <2>3, MapSpares
<1>2. CASE TxFreeOnly(w) \/ TxPreEnd(w) \/ TxFree(w)
  BY <1>0, <1>2, FreeSpares DEF TxFreeOnly, TxPreEnd, TxFree, TxAt
<1>3. CASE TxOpen(w)
  <2>1. PICK t \in Trans : trans[t] = "none" /\ trans' = [trans EXCEPT ![t] = "created"]
    BY <1>3 DEF TxOpen
  <2>2. Existing' = Existing \cup {t} /\ t \in Unborn
    <3>1. "created" \in TransStates \ {"none"} /\ "created" # "deleted"
      BY DEF TransStates
    <3>2. LibTypes
      BY DEF HTypes
    <3>3. QED
      BY <2>1, <3>1, <3>2, ExistingBorn
  <2>3. userptr[t] = NoId
    BY <2>2, ViewParts DEF Belongs, AllFit, PoolFits
  <2>4. QED
    BY <1>3, <2>2, <2>3, SameRecords, OthersSpare, IdSets DEF TxOpen, poolVars
<1>4. CASE TxBlockDelete(w) \/ TxDelete(w)
  <2>1. owner' = owner /\ userptr' = userptr
    BY <1>4, SameRecords DEF TxBlockDelete, TxDelete, poolVars
  <2>2. trans' = trans \/ trans' = [trans EXCEPT ![x.trans] = "deleted"]
    BY <1>4 DEF TxBlockDelete, TxDelete, DeleteTrans
  <2>3. Existing' \subseteq Existing
    BY <2>2 DEF Existing, Exists, HTypes, LibTypes
  <2>4. QED
    BY <2>1, <2>3, OthersSpare
<1>5. CASE TxSend(w)
  <2>1. owner' = owner /\ userptr' = userptr /\ Exists(x.trans)
    BY <1>5, SameRecords DEF TxSend, poolVars
  <2>2. \A t \in Trans : t # x.trans => trans'[t] = trans[t]
    BY <1>5 DEF TxSend, HTypes, LibTypes
  <2>3. Existing' \subseteq Existing
    BY <2>1, <2>2 DEF Existing, Exists
  <2>4. QED
    BY <2>1, <2>3, OthersSpare
<1>6. CASE UNCHANGED << poolVars, trans, userptr >>
  BY <1>6, SameRecords, SameTrans, OthersSpare DEF poolVars
<1>7. QED
  BY <1>1, <1>2, <1>3, <1>4, <1>5, <1>6
     DEF TxNext, TxTake, TxFound, TxNotFound, TxTell, TxBuild, TxBuildFails, TxBlock,
         TxSendFails, libVars

LEMMA TxTakeQueries ==
  ASSUME HTypes, Queries, NEW w \in Tx, TxTake(w)
  PROVE  Queries'
<1> DEFINE q == rdQueue
<1>1. q \in Seq(Message) /\ q # << >> /\ rdQueue' = Tail(q) /\ view' = view /\ rx' = rx
  BY StillLife DEF TxTake, HTypes, QueueTypes
<1>2. /\ Len(q) \in Nat /\ 1 \in 1 .. Len(q) /\ Head(q) = q[1] /\ Len(rdQueue') = Len(q) - 1
      /\ \A i \in 1 .. Len(rdQueue') : i + 1 \in 1 .. Len(q) /\ rdQueue'[i] = q[i + 1]
  BY <1>1, HeadTailProperties, LenProperties, EmptySeq
<1>3. /\ \A v \in Tx : v # w => tx'[v] = tx[v]
      /\ tx'[w].at = "look" /\ tx'[w].kind = q[1].kind /\ tx'[w].id = q[1].id
  BY <1>2, ThreadStates DEF TxTake
<1>4. \A v \in Tx : AtWork(tx'[v]) => AtWork(tx[v]) /\ tx'[v].id = tx[v].id
  BY <1>3 DEF AtWork
<1>5. \A id : Unused(id, view, tx, rx) => Unused(id, view', tx', rx')
  BY <1>1, <1>4 DEF Unused
<1>6. \A v \in Tx : Asking(tx'[v]) =>
        \/ v # w /\ Asking(tx[v]) /\ tx'[v] = tx[v]
        \/ v = w /\ q[1].kind = "QUERY" /\ tx'[v].id = q[1].id
  BY <1>3 DEF Asking
<1>7. \A i \in 1 .. Len(rdQueue') :
        rdQueue'[i].kind = "QUERY" => Unused(rdQueue'[i].id, view', tx', rx')
  BY <1>2, <1>5 DEF Queries
<1>8. \A v \in Tx : Asking(tx'[v]) => Unused(tx'[v].id, view', tx', rx')
  BY <1>2, <1>5, <1>6 DEF Queries
<1>9. \A i, j \in 1 .. Len(rdQueue') :
        rdQueue'[i].kind = "QUERY" /\ rdQueue'[j].kind = "QUERY" /\ rdQueue'[i].id = rdQueue'[j].id
          => i = j
  <2>1. \A i, j \in 1 .. Len(q) :
          q[i].kind = "QUERY" /\ q[j].kind = "QUERY" /\ q[i].id = q[j].id => i = j
    BY DEF Queries
  <2> HIDE DEF q
  <2>2. ASSUME NEW i \in 1 .. Len(rdQueue'), NEW j \in 1 .. Len(rdQueue'),
               rdQueue'[i].kind = "QUERY", rdQueue'[j].kind = "QUERY",
               rdQueue'[i].id = rdQueue'[j].id
        PROVE  i = j
    <3>1. /\ i + 1 \in 1 .. Len(q) /\ rdQueue'[i] = q[i + 1]
          /\ j + 1 \in 1 .. Len(q) /\ rdQueue'[j] = q[j + 1]
      BY <1>2
    <3>2. i + 1 = j + 1
      BY <2>1, <2>2, <3>1
    <3>3. QED
      BY <3>2
  <2>3. QED
    BY <2>2
<1>10. \A i \in 1 .. Len(rdQueue'), v \in Tx :
         rdQueue'[i].kind = "QUERY" /\ Asking(tx'[v]) => rdQueue'[i].id # tx'[v].id
  BY <1>2, <1>6 DEF Queries
<1>11. \A a, b \in Tx : Asking(tx'[a]) /\ Asking(tx'[b]) /\ tx'[a].id = tx'[b].id => a = b
  BY <1>2, <1>6 DEF Queries
<1>12. QED
  BY <1>7, <1>8, <1>9, <1>10, <1>11 DEF Queries

LEMMA TxStepQueries ==
  ASSUME HTypes, Belongs, NEW w \in Tx, TxNext(w), WritesInUse, CallsServe
  PROVE  Queries'
<1> USE DEF CallsServe
<1> DEFINE x == tx[w]
           y == tx'[w]
<1>1. CASE TxTake(w)
  BY <1>1, TxTakeQueries DEF Belongs
<1>2. CASE ~TxTake(w)
  <2>1. Takes(w) /\ Queries
    BY TxStepTakes DEF Belongs
  <2>2. /\ \A v \in Tx : v # w => tx'[v] = tx[v]
        /\ rx' = rx /\ rdQueue' = rdQueue /\ (Asking(y) => Asking(x) /\ y.id = x.id)
        /\ AtWork(y) => \/ AtWork(x) /\ y.id = x.id
                        \/ y.id \in DlgIds /\ Live(y.id)
                        \/ x.at = "map" /\ x.kind = "QUERY" /\ y.id = x.id
    BY <1>2, <2>1 DEF Takes
  <2>3. \A v \in Tx : Asking(tx'[v]) => Asking(tx[v]) /\ tx'[v].id = tx[v].id
    BY <2>2
  <2>4. ASSUME NEW id, Wanted(id)' PROVE Unused(id, view', tx', rx')
    <3>1. Wanted(id)
      BY <2>2, <2>3, <2>4 DEF Wanted
    <3>2. id \in DlgIds /\ Unused(id, view, tx, rx)
      BY <2>1, <3>1, WantedIds, WantedIsUnused
    <3>3. x.at = "map" /\ x.kind = "QUERY" => x.id # id
      <4> SUFFICES ASSUME x.at = "map", x.kind = "QUERY", x.id = id PROVE FALSE
        OBVIOUS
      <4>1. TxMap(w) /\ Asking(x)
        BY DEF TxNext, TxTake, TxFound, TxOpen, TxNotFound, TxFreeOnly, TxPreEnd,
               TxBlockDelete, TxTell, TxBuild, TxBuildFails, TxMap, TxBlock, TxSend,
               TxSendFails, TxFree, TxDelete, TxAt, Asking
      <4>2. y.at = "send" /\ ~Asking(y)
        BY <4>1, TxMoves DEF TxMap, Asking
      <4>3. QED
        BY <2>1, <2>2, <2>4, <4>1, <4>2 DEF Wanted, Queries
    <3>4. Spared(id)'
      BY <3>2, <3>3, UnusedMeans, TxStepSpares
    <3>5. owner[id] = NoTrans
      BY <3>2, UnusedMeans DEF Spared
    <3>6. AtWork(y) => y.id # id
      BY <2>2, <3>2, <3>3, <3>5, OwnerTyped, UnusedMeans DEF HTypes, IInv
    <3>7. /\ \A v \in Tx : AtWork(tx[v]) => tx[v].id # id
          /\ \A r \in Rx : rx[r].id # id
      BY <3>2 DEF Unused
    <3>8. \A v \in Tx : AtWork(tx'[v]) => tx'[v].id # id
      <4> TAKE v \in Tx
      <4>1. CASE v = w
        BY <3>6, <4>1
      <4>2. CASE v # w
        BY <2>2, <3>7, <4>2
      <4>3. QED
        BY <4>1, <4>2
    <3>9. QED
      BY <2>2, <3>4, <3>7, <3>8, UnusedMeans
  <2>5. QED
    BY <2>1, <2>2, <2>3, <2>4, QueriesKept
<1>3. QED
  BY <1>1, <1>2

LEMMA RxStepSpares ==
  ASSUME HTypes, Belongs, NEW r \in Rx, RxWork(r) \/ RxTake(r), WritesInUse,
         NEW id \in DlgIds \ AllocIds, Spared(id)
  PROVE  Spared(id)'
<1> DEFINE y == rx[r]
<1>0. y.todo # << >> => y.id \in Ids0 /\ y.trans \in Trans
  BY ThreadStates DEF RxWorkOf
<1>1. CASE RxMap(r)
  <2>1. y.todo # << >> /\ Map(y.id, y.trans) /\ trans' = trans
    BY <1>1 DEF RxMap, RxAt
  <2>2. y.id = NoId \/ Live(y.id)
    BY <1>1 DEF WritesInUse
  <2>3. y.id # id
    BY <2>2, IdSets, OwnerTyped DEF HTypes, IInv, Spared
  <2>4. QED
    BY <1>0, <2>1, <2>3, MapSpares
<1>2. CASE RxFree(r)
  BY <1>0, <1>2, FreeSpares DEF RxFree, RxAt
<1>3. CASE RxDelete(r)
  <2>1. owner' = owner /\ userptr' = userptr /\ trans' = [trans EXCEPT ![y.trans] = "deleted"]
    BY <1>3, SameRecords DEF RxDelete, DeleteTrans, poolVars
  <2>2. Existing' \subseteq Existing
    BY <2>1 DEF Existing, Exists, HTypes, LibTypes
  <2>3. QED
    BY <2>1, <2>2, OthersSpare
<1>4. ASSUME NEW t \in Trans, RxQuery(r, t) PROVE Spared(id)'
  <2>1. IdToTake \in AllocIds /\ IdToTake \in DlgIds /\ IdToTake # id
    BY <1>4, AllocatedIdIsFree, IdSets DEF RxQuery, HTypes
  <2>2. /\ mInDlgRecordPool' = [mInDlgRecordPool EXCEPT ![IdToTake] = Fresh(t)]
        /\ trans' = [trans EXCEPT ![t] = "open"]
        /\ userptr' = [userptr EXCEPT ![t] = IdToTake]
    BY <1>4 DEF RxQuery, Allocate
  <2>3. owner' = [owner EXCEPT ![IdToTake] = t]
    BY <2>1, <2>2, OwnerWritten DEF HTypes, IInv
  <2>4. owner'[id] = NoTrans
    BY <2>1, <2>3, OwnerTyped DEF HTypes, IInv, Spared
  <2>5. \A s \in Existing' : userptr'[s] # id
    BY <2>1, <2>2 DEF Existing, Exists, HTypes, LibTypes, Spared
  <2>6. QED
    BY <2>4, <2>5 DEF Spared
<1>5. ASSUME NEW t \in Trans, RxQueryDropped(r, t) PROVE Spared(id)'
  <2>1. owner' = owner /\ userptr' = userptr /\ trans' = [trans EXCEPT ![t] = "deleted"]
    BY <1>5, SameRecords DEF RxQueryDropped, poolVars
  <2>2. Existing' \subseteq Existing
    BY <2>1 DEF Existing, Exists, HTypes, LibTypes
  <2>3. QED
    BY <2>1, <2>2, OthersSpare
<1>6. CASE UNCHANGED << poolVars, trans, userptr >>
  BY <1>6, SameRecords, SameTrans, OthersSpare DEF poolVars
<1>7. QED
  BY <1>1, <1>2, <1>3, <1>4, <1>5, <1>6
     DEF RxWork, RxTake, RxLook, RxUnblock, RxDeliver, RxGet, libVars

LEMMA RxStepQueries ==
  ASSUME HTypes, Belongs, NEW r \in Rx, RxWork(r) \/ RxTake(r), WritesInUse, CallsServe
  PROVE  Queries'
<1>1. RxTakes(r) /\ Queries
  BY RxStepTakes DEF Belongs
<1>2. tx' = tx /\ rdQueue' = rdQueue
  BY <1>1 DEF RxTakes
<1>3. ASSUME NEW id, Wanted(id)' PROVE Unused(id, view', tx', rx')
  <2>1. Wanted(id)
    BY <1>2, <1>3 DEF Wanted
  <2>2. id \in DlgIds \ AllocIds /\ id # NoId /\ Unused(id, view, tx, rx)
    BY <1>1, <2>1, WantedIds, WantedIsUnused
  <2>3. Spared(id)' /\ owner[id] = NoTrans
    BY <2>2, UnusedMeans, RxStepSpares DEF Spared
  <2>4. \A q \in Rx : rx'[q].id # id
    <3>1. \A q \in Rx : rx[q].id # id
      BY <2>2 DEF Unused
    <3>2. ~Live(id)
      BY <2>2, <2>3, OwnerTyped DEF HTypes, IInv
    <3>3. /\ \A q \in Rx : q # r => rx'[q] = rx[q]
          /\ rx'[r].id \in {NoId, rx[r].id} \/ Live(rx'[r].id) \/ rx'[r].id \in AllocIds
      BY <1>1 DEF RxTakes
    <3>4. rx'[r].id # id
      BY <2>2, <3>1, <3>2, <3>3
    <3>5. QED
      BY <3>1, <3>3, <3>4
  <2>5. QED
    BY <1>2, <2>2, <2>3, <2>4, UnusedMeans
<1>4. QED
  BY <1>1, <1>2, <1>3, QueriesKept

(* A message of the application or the cleaner joins the queue.              *)
LEMMA PostedQueries ==
  ASSUME HTypes, Queries, NEW m \in Message, Post(m.kind, m.id),
         UNCHANGED << poolVars, libVars, tx, rx >>,
         m.kind = "QUERY" => ~Wanted(m.id) /\ Unused(m.id, view, tx, rx)
  PROVE  Queries'
<1> DEFINE q == rdQueue
<1>1. /\ rdQueue' = Append(q, m) /\ q \in Seq(Message) /\ view' = view /\ tx' = tx /\ rx' = rx
  BY PostTypes, StillLife DEF HTypes, QueueTypes
<1>2. /\ Len(q) \in Nat /\ Len(rdQueue') = Len(q) + 1
      /\ \A i \in 1 .. Len(rdQueue') : \/ i \in 1 .. Len(q) /\ rdQueue'[i] = q[i]
                                       \/ i = Len(q) + 1 /\ rdQueue'[i] = m
  BY <1>1, AppendProperties, LenProperties
<1>3. \A i \in 1 .. Len(rdQueue') :
        rdQueue'[i].kind = "QUERY" => Unused(rdQueue'[i].id, view', tx', rx')
  BY <1>1, <1>2 DEF Queries
<1>4. \A v \in Tx : Asking(tx'[v]) => Unused(tx'[v].id, view', tx', rx')
  BY <1>1 DEF Queries
<1>5. \A i, j \in 1 .. Len(rdQueue') :
        rdQueue'[i].kind = "QUERY" /\ rdQueue'[j].kind = "QUERY" /\ rdQueue'[i].id = rdQueue'[j].id
          => i = j
  BY <1>2 DEF Queries, Wanted
<1>6. \A i \in 1 .. Len(rdQueue'), v \in Tx :
        rdQueue'[i].kind = "QUERY" /\ Asking(tx'[v]) => rdQueue'[i].id # tx'[v].id
  BY <1>1, <1>2 DEF Queries, Wanted
<1>7. \A a, b \in Tx : Asking(tx'[a]) /\ Asking(tx'[b]) /\ tx'[a].id = tx'[b].id => a = b
  BY <1>1 DEF Queries
<1>8. QED
  BY <1>3, <1>4, <1>5, <1>6, <1>7 DEF Queries

LEMMA OthersStepQueries ==
  ASSUME HTypes, Belongs, AppNext \/ CleanerNext \/ NetNext, IdsRest
  PROVE  Queries'
<1>0. Queries
  BY DEF Belongs
<1>1. ASSUME NEW id \in AppQueries, AppQuery(id) PROVE Queries'
  <2>1. ~Referred(id) /\ id \in AppIds /\ id \in DlgIds
    BY <1>1, IdSets DEF IdsRest
  <2>2. ~Wanted(id)
    BY <2>1 DEF Wanted, Referred
  <2>3. \A t \in Existing : userptr[t] # id
    BY <2>1 DEF Referred, Existing
  <2>4. owner[id] = NoTrans
    BY <2>1, <2>3, ViewParts DEF Belongs, AllFit, PoolFits
  <2>5. Unused(id, view, tx, rx)
    BY <2>1, <2>3, <2>4, UnusedMeans DEF Referred, Spared
  <2>6. /\ UNCHANGED << poolVars, libVars, tx, rx >> /\ Post("QUERY", id)
        /\ [kind |-> "QUERY", id |-> id] \in Message
    BY <1>1, <2>1 DEF AppQuery, Message
  <2>7. QED
    BY <1>0, <2>2, <2>5, <2>6, PostedQueries
<1>2. ASSUME NEW id \in DlgIds, NEW kind \in AppKinds, AppSend(id, kind) PROVE Queries'
  <2>1. /\ UNCHANGED << poolVars, libVars, tx, rx >> /\ Post(kind, id)
        /\ [kind |-> kind, id |-> id] \in Message /\ kind # "QUERY"
    BY <1>2 DEF AppSend, Message
  <2>2. QED
    BY <1>0, <2>1, PostedQueries
<1>3. ASSUME NEW id \in DlgIds, CleanTimedoutDlg(id) PROVE Queries'
  <2>1. /\ UNCHANGED << poolVars, libVars, tx, rx >> /\ Post("CLEAN", id)
        /\ [kind |-> "CLEAN", id |-> id] \in Message
    BY <1>3 DEF CleanTimedoutDlg, Message
  <2>2. QED
    BY <1>0, <2>1, PostedQueries
<1>4. CASE owner' = owner /\ Existing' = Existing /\ UNCHANGED << userptr, rdQueue, tx, rx >>
  <2>1. \A id : Wanted(id)' => Unused(id, view', tx', rx')
    <3> SUFFICES ASSUME NEW id, Wanted(id)' PROVE Unused(id, view', tx', rx')
      OBVIOUS
    <3>1. Wanted(id)
      BY <1>4 DEF Wanted
    <3>2. Unused(id, view, tx, rx)
      BY <1>0, <3>1, WantedIsUnused
    <3>3. QED
      BY <1>4, <3>2, UnusedMeans DEF Spared
  <2>2. QED
    BY <1>0, <1>4, <2>1, QueriesKept
<1>5. ASSUME NEW id \in DlgIds, Age(id) PROVE Queries'
  BY <1>4, <1>5, OwnerAged, SameTrans DEF Age, libVars, HTypes, IInv
<1>6. ASSUME NEW t \in Trans, NEW kind \in NetKinds, NetSend(t, kind) PROVE Queries'
  <2>1. /\ UNCHANGED << poolVars, userptr, rdQueue, tx, rx >> /\ trans[t] = "open"
        /\ trans' = trans \/ trans' = [trans EXCEPT ![t] = "ended"]
    BY <1>6 DEF NetSend
  <2>2. Existing' = Existing
    <3>1. t \in Existing
      BY <2>1 DEF Existing, Exists
    <3>2. QED
      BY <2>1, <3>1, SameTrans, ExistingMoved DEF HTypes
  <2>3. QED
    BY <1>4, <2>1, <2>2, SameRecords DEF poolVars
<1>7. QED
  BY <1>1, <1>2, <1>3, <1>5, <1>6 DEF AppNext, CleanerNext, NetNext

-----------------------------------------------------------------------------
(* The invariant holds at the start and every step keeps it.                 *)
LEMMA InitBelongs == Init => Belongs
<1> SUFFICES ASSUME Init PROVE Belongs
  OBVIOUS
<1>1. \A id \in DlgIds : owner[id] = NoTrans
  BY DEF Init, PoolInit, owner, Live
<1>2. /\ Existing = {} /\ \A t \in Trans : userptr[t] = NoId /\ inbound[t] = << >>
      /\ \A t \in Trans : trans[t] = "none"
  BY DEF Init, Existing, Exists
<1>3. PoolFits(view) /\ LibFits
  BY <1>1, <1>2, ViewParts DEF PoolFits, LibFits, Unborn
<1>4. (\A w \in Tx : tx[w] = TxIdle) /\ (\A r \in Rx : rx[r] = RxIdle) /\ Len(rdQueue) = 0
  BY DEF Init
<1>5. ~TxHolds(TxIdle) /\ ~TxFinishes(TxIdle) /\ ~Opening(TxIdle) /\ ~Asking(TxIdle)
  BY DEF TxIdle, TxHolds, TxFinishes, Opening, Asking
<1>6. AllFit
  BY <1>3, <1>4, IdleFits DEF AllFit
<1>7. Alone
  BY <1>4, <1>5 DEF Alone
<1>8. Queries
  BY <1>4, <1>5 DEF Queries
<1>9. QED
  BY <1>6, <1>7, <1>8 DEF Belongs

LEMMA BelongsKept ==
  ASSUME CallsServe, HTypes, Belongs, [HandlerNext /\ WritesInUse /\ IdsRest]_vars
  PROVE  Belongs'
<1>1. CASE UNCHANGED vars
  <2>1. /\ UNCHANGED << poolVars, libVars >> /\ tx' = tx /\ rx' = rx /\ rdQueue' = rdQueue
    BY <1>1 DEF vars
  <2>2. view' = view /\ LibFits'
    BY <2>1, StillLife DEF Belongs, AllFit
  <2>3. AllFit'
    BY <2>1, <2>2 DEF Belongs, AllFit
  <2>4. Alone'
    BY <2>1 DEF Belongs, Alone
  <2>5. Queries'
    BY <2>1, <2>2 DEF Belongs, Queries
  <2>6. QED
    BY <2>3, <2>4, <2>5 DEF Belongs
<1>2. ASSUME HandlerNext, WritesInUse, IdsRest PROVE Belongs'
  <2>1. CASE AppNext \/ CleanerNext \/ NetNext
    <3>1. AllFit' /\ Queries'
      BY <1>2, <2>1, OthersStepFits, OthersStepQueries DEF Belongs
    <3>2. tx' = tx /\ rx' = rx
      BY <2>1 DEF AppNext, AppQuery, AppSend, CleanerNext, Age, CleanTimedoutDlg,
                  NetNext, NetSend
    <3>3. Alone'
      BY <3>2 DEF Belongs, Alone
    <3>4. QED
      BY <3>1, <3>3 DEF Belongs
  <2>2. ASSUME NEW w \in Tx, TxNext(w) PROVE Belongs'
    <3>1. AllFit' /\ Queries' /\ Takes(w)
      BY <1>2, <2>2, TxStepFits, TxStepQueries, TxStepTakes
    <3>2. Alone'
      BY <3>1, TxStaysAlone DEF Belongs
    <3>3. QED
      BY <3>1, <3>2 DEF Belongs
  <2>3. ASSUME NEW r \in Rx, RxWork(r) \/ RxTake(r) PROVE Belongs'
    <3>1. AllFit' /\ Queries' /\ RxTakes(r)
      BY <1>2, <2>3, RxStepFits, RxStepQueries, RxStepTakes
    <3>2. Alone'
      BY <3>1, RxStaysAlone DEF Belongs
    <3>3. QED
      BY <3>1, <3>2 DEF Belongs
  <2>4. QED
    BY <1>2, <2>1, <2>2, <2>3 DEF HandlerNext
<1>3. QED
  BY <1>1, <1>2

LEMMA BelongsHolds ==
  ASSUME CallsServe
  PROVE  HandlerSpec /\ Rested => [](HTypes /\ Belongs)
<1>1. Init => HTypes /\ Belongs
  BY InitTypes, InitBelongs
<1>2. HTypes /\ Belongs /\ [HandlerNext /\ WritesInUse /\ IdsRest]_vars => (HTypes /\ Belongs)'
  <2> SUFFICES ASSUME HTypes, Belongs, [HandlerNext /\ WritesInUse /\ IdsRest]_vars
               PROVE  (HTypes /\ Belongs)'
    OBVIOUS
  <2>1. HTypes'
    BY TypesKept
  <2>2. Belongs'
    BY BelongsKept
  <2>3. QED
    BY <2>1, <2>2
<1>3. QED
  BY <1>1, <1>2, PTL DEF HandlerSpec, Rested

-----------------------------------------------------------------------------
(* Two threads, the cleaner and the network may meet on one dialogue at any  *)
(* step: no record in use ever names a transaction that was deleted, and no  *)
(* two records name the same one, as long as records are written in use,     *)
(* ids rest before they serve again, and the stack sends what it accepted    *)
(* and knows the ids of its transactions (CallsServe).  What the application *)
(* is told, and whether it hears of it, does not matter.                     *)
THEOREM RecordsKeepTheirTrans ==
  ASSUME CallsServe
  PROVE  HandlerSpec /\ Rested => []RecordsHaveTheirTrans
<1>1. HTypes /\ Belongs => RecordsHaveTheirTrans
  <2> SUFFICES ASSUME HTypes, Belongs, NEW id \in DlgIds, Live(id)
               PROVE  /\ Exists(mInDlgRecordPool[id].trans)
                      /\ \A other \in DlgIds :
                           OwnedBy(other, mInDlgRecordPool[id].trans) => other = id
    BY DEF RecordsHaveTheirTrans
  <2> DEFINE t == mInDlgRecordPool[id].trans
  <2>1. owner[id] = t /\ owner[id] # NoTrans
    BY OwnerTyped DEF HTypes, IInv, TransInfo
  <2>2. t \in Existing /\ userptr[t] = id
    BY <2>1, ViewParts DEF Belongs, AllFit, PoolFits
  <2>3. ASSUME NEW other \in DlgIds, OwnedBy(other, t) PROVE other = id
    <3>1. owner[other] = t /\ owner[other] # NoTrans
      BY <2>3, OwnerTyped DEF OwnedBy, HTypes, IInv, TransInfo
    <3>2. userptr[t] = other
      BY <3>1, ViewParts DEF Belongs, AllFit, PoolFits
    <3>3. QED
      BY <2>2, <3>2
  <2>4. QED
    BY <2>2, <2>3 DEF Existing
<1>2. QED
  BY <1>1, BelongsHolds, PTL

(* Whichever of the two ends of a dialogue is processed first, and however   *)
(* often the cleaner asks for a third: one thread alone comes to delete the  *)
(* transaction, and finds it there.                                          *)
THEOREM TransIsDeletedOnce ==
  ASSUME CallsServe
  PROVE  HandlerSpec /\ Rested => []DeletedOnce
<1>1. HTypes /\ Belongs => DeletedOnce
  <2> SUFFICES ASSUME HTypes, Belongs, NEW t \in Trans, NEW d \in Deleting(t)
               PROVE  Exists(t) /\ Cardinality(Deleting(t)) = 1
    BY DEF DeletedOnce
  <2>1. ASSUME NEW w \in Tx, TxAt(w, "delete"), tx[w].trans = t
        PROVE  TxFinishes(tx[w]) /\ t \in Existing
    BY <2>1, ViewParts DEF TxAt, TxFinishes, Belongs, AllFit, TxFits
  <2>2. ASSUME NEW r \in Rx, RxAt(r, "delete"), rx[r].trans = t
        PROVE  RxFinishes(rx[r]) /\ t \in Existing /\ RxOf[t] = r
    <3>1. rx[r].todo # << >> /\ Head(rx[r].todo) = "delete" /\ RxFits(rx[r], view)
      BY <2>2 DEF RxAt, Belongs, AllFit
    <3>2. rx[r].todo \in AllLeft /\ rx[r].todo \notin Dropping /\ RxOf[t] = r
      BY <2>2, <3>1, ThreadStates DEF RxFits, RxWorkOf, AllLeft
    <3>3. RxFinishes(rx[r])
      BY <3>1, <3>2, Follow DEF RxFinishes
    <3>4. QED
      BY <2>2, <3>1, <3>2, <3>3, ViewParts DEF RxFits
  <2>3. \A e \in Deleting(t) : e = d
    BY <2>1, <2>2 DEF Deleting, Belongs, Alone
  <2>4. Deleting(t) = {d}
    BY <2>3
  <2>5. Cardinality(Deleting(t)) = 1
    BY <2>4, FS_Singleton
  <2>6. QED
    BY <2>1, <2>2, <2>5 DEF Deleting, Existing
<1>2. QED
  BY <1>1, BelongsHolds, PTL

-----------------------------------------------------------------------------
(* Somebody keeps each transaction that exists: a record names it, a thread  *)
(* builds the query it was opened for, or a thread freed its record and will *)
(* delete it.                                                                *)
Minds(x) == TxFinishes(x) \/ (x.kind = "QUERY" /\ x.at \in {"build", "map"})

Keeper(t) ==
  \/ \E id \in DlgIds : owner[id] = t
  \/ \E w \in Tx : Minds(tx[w]) /\ tx[w].trans = t
  \/ \E r \in Rx : RxFinishes(rx[r]) /\ rx[r].trans = t

AllKept == \A t \in Existing : Keeper(t)

LEMMA TxKeeps ==
  ASSUME AllKept, NEW w \in Tx, \A v \in Tx : v # w => tx'[v] = tx[v], rx' = rx,
         \A t \in Existing' : t \in Existing \/ Keeper(t)',
         \A t \in Existing' : (\E id \in DlgIds : owner[id] = t) => Keeper(t)',
         \A t \in Existing' : Minds(tx[w]) /\ tx[w].trans = t => Keeper(t)'
  PROVE  AllKept'
<1> SUFFICES ASSUME NEW t \in Existing', t \in Existing PROVE Keeper(t)'
  BY DEF AllKept
<1>1. CASE \E v \in Tx : Minds(tx[v]) /\ tx[v].trans = t
  <2>1. PICK v \in Tx : Minds(tx[v]) /\ tx[v].trans = t
    BY <1>1
  <2>2. CASE v = w
    BY <2>1, <2>2
  <2>3. CASE v # w
    BY <2>1, <2>3 DEF Keeper
  <2>4. QED
    BY <2>2, <2>3
<1>2. CASE \E r \in Rx : RxFinishes(rx[r]) /\ rx[r].trans = t
  BY <1>2 DEF Keeper
<1>3. QED
  BY <1>1, <1>2 DEF AllKept, Keeper

LEMMA RxKeeps ==
  ASSUME AllKept, NEW r \in Rx, \A q \in Rx : q # r => rx'[q] = rx[q], tx' = tx,
         \A t \in Existing' : t \in Existing \/ Keeper(t)',
         \A t \in Existing' : (\E id \in DlgIds : owner[id] = t) => Keeper(t)',
         \A t \in Existing' : RxFinishes(rx[r]) /\ rx[r].trans = t => Keeper(t)'
  PROVE  AllKept'
<1> SUFFICES ASSUME NEW t \in Existing', t \in Existing PROVE Keeper(t)'
  BY DEF AllKept
<1>1. CASE \E v \in Tx : Minds(tx[v]) /\ tx[v].trans = t
  BY <1>1 DEF Keeper
<1>2. CASE \E q \in Rx : RxFinishes(rx[q]) /\ rx[q].trans = t
  <2>1. PICK q \in Rx : RxFinishes(rx[q]) /\ rx[q].trans = t
    BY <1>2
  <2>2. CASE q = r
    BY <2>1, <2>2
  <2>3. CASE q # r
    BY <2>1, <2>3 DEF Keeper
  <2>4. QED
    BY <2>2, <2>3
<1>3. QED
  BY <1>1, <1>2 DEF AllKept, Keeper

LEMMA SameOwnerKeeps ==
  ASSUME owner' = owner
  PROVE  \A t : (\E id \in DlgIds : owner[id] = t) => Keeper(t)'
BY DEF Keeper

(* The steps of a transmit thread that free and delete.                      *)
LEMMA TxFreesKept ==
  ASSUME HTypes, Belongs, AllKept, NEW w \in Tx, TxFreeOnly(w) \/ TxPreEnd(w) \/ TxFree(w),
         NoneGivenUp
  PROVE  AllKept'
<1> DEFINE x == tx[w]
           y == tx'[w]
<1>1. /\ x.at \in {"freeOnly", "preEnd", "free"} /\ ~Minds(x) /\ x.id \in DlgIds
      /\ FreeOrRefuse(x.id) /\ rx' = rx /\ trans' = trans
  BY TxBusy DEF TxFreeOnly, TxPreEnd, TxFree, TxAt, Minds, TxFinishes, libVars, HTypes
<1>2. Existing' = Existing
  BY <1>1, SameTrans
<1>3. \A v \in Tx : v # w => tx'[v] = tx[v]
  BY <1>1, TxMoves, TxEnds DEF TxFreeOnly, TxPreEnd, TxFree, TxLeaveTo, AfterDelete
<1>4. CASE CanFree(x.id)
  <2>1. x.at \in {"preEnd", "free"} /\ (TxGoTo(w, "blockDelete") \/ TxGoTo(w, "delete"))
    BY <1>4 DEF TxFreeOnly, TxPreEnd, TxFree, TxAt, TxLeaveTo, NoneGivenUp
  <2>2. Minds(y) /\ y.trans = x.trans
    BY <2>1, TxMoves DEF Minds, TxFinishes
  <2>3. AtWork(x) /\ TxFits(x, view) /\ Live(x.id)
    BY <1>4, <2>1, FreedByMe DEF Belongs, AllFit, CanFree
  <2>4. owner[x.id] = x.trans
    BY <1>1, <2>3, LiveIsMine DEF TxFits, Belongs, AllFit
  <2>5. owner' = [owner EXCEPT ![x.id] = NoTrans]
    BY <1>1, OwnerFreed DEF HTypes, IInv
  <2>6. \A t \in Existing' : (\E id \in DlgIds : owner[id] = t) => Keeper(t)'
    BY <2>2, <2>4, <2>5, OwnerTyped DEF Keeper, HTypes, IInv
  <2>7. QED
    BY <1>1, <1>2, <1>3, <2>6, TxKeeps
<1>5. CASE ~CanFree(x.id)
  <2>1. owner' = owner
    BY <1>1, <1>5, SameRecords
       DEF FreeOrRefuse, Free, FreeAllocated, FreeAppChosen, poolVars
  <2>2. QED
    BY <1>1, <1>2, <1>3, <2>1, SameOwnerKeeps, TxKeeps
<1>6. QED
  BY <1>4, <1>5

LEMMA TxDeletesKept ==
  ASSUME HTypes, Belongs, AllKept, NEW w \in Tx, TxBlockDelete(w) \/ TxDelete(w), NoneGivenUp
  PROVE  AllKept'
<1> DEFINE x == tx[w]
<1>1. x.at \in {"blockDelete", "delete"} /\ rx' = rx /\ owner' = owner
  BY SameRecords DEF TxBlockDelete, TxDelete, TxAt, poolVars
<1>2. \A v \in Tx : v # w => tx'[v] = tx[v]
  BY <1>1, TxMoves, TxEnds DEF TxBlockDelete, TxDelete, TxLeaveTo, AfterDelete
<1>3. x.trans \in Existing /\ x.trans \in Trans
  BY <1>1, ViewParts DEF Belongs, AllFit, TxFits, TxFinishes, Existing
<1>4. trans' = [trans EXCEPT ![x.trans] = "deleted"]
  BY <1>3 DEF TxBlockDelete, TxDelete, DeleteTrans, NoneGivenUp, Existing
<1>5. Existing' = Existing \ {x.trans}
  BY <1>3, <1>4 DEF Existing, Exists, HTypes, LibTypes
<1>6. QED
  BY <1>1, <1>2, <1>5, SameOwnerKeeps, TxKeeps

LEMMA TxOpenKept ==
  ASSUME HTypes, AllKept, NEW w \in Tx, TxOpen(w)
  PROVE  AllKept'
<1> DEFINE x == tx[w]
           y == tx'[w]
<1>1. x.at = "look" /\ x.kind = "QUERY" /\ x \in TxWork /\ rx' = rx /\ owner' = owner
  BY TxBusy, SameRecords DEF TxOpen, TxAt, HTypes, poolVars
<1>2. PICK t \in Trans : /\ trans' = [trans EXCEPT ![t] = "created"]
                         /\ tx' = [tx EXCEPT ![w] = [x EXCEPT !.trans = t, !.at = "build"]]
  <2>1. PICK t \in Trans : /\ trans' = [trans EXCEPT ![t] = "created"]
                           /\ tx' = [tx EXCEPT ![w].trans = t, ![w].at = "build"]
    BY DEF TxOpen
  <2>2. [tx EXCEPT ![w].trans = t, ![w].at = "build"]
          = [tx EXCEPT ![w] = [x EXCEPT !.trans = t, !.at = "build"]]
    BY <1>1 DEF HTypes, TxTypes
  <2>3. QED
    BY <2>1, <2>2
<1>3. /\ \A v \in Tx : v # w => tx'[v] = tx[v]
      /\ y.at = "build" /\ y.kind = "QUERY" /\ y.trans = t
  BY <1>1, <1>2, ThreadStates DEF TxWork
<1>4. Keeper(t)'
  BY <1>3 DEF Keeper, Minds
<1>5. \A s \in Existing' : s \in Existing \/ s = t
  BY <1>2 DEF Existing, Exists, HTypes, LibTypes
<1>6. ~Minds(x)
  BY <1>1 DEF Minds, TxFinishes
<1>7. QED
  BY <1>1, <1>3, <1>4, <1>5, <1>6, SameOwnerKeeps, TxKeeps

LEMMA TxMapKept ==
  ASSUME HTypes, Belongs, AllKept, NEW w \in Tx, TxMap(w), WritesInUse
  PROVE  AllKept'
<1> DEFINE x == tx[w]
<1>0. PICK t : t = tx[w].trans
  OBVIOUS
<1>1. /\ x.at = "map" /\ x.id \in DlgIds /\ x.id # NoId /\ t \in Trans /\ TxFits(x, view)
      /\ rx' = rx /\ Map(x.id, t) /\ trans' = trans
  BY <1>0, ThreadStates, TxRanges DEF TxMap, TxAt, Belongs, AllFit
<1>2. (\A v \in Tx : v # w => tx'[v] = tx[v]) /\ Existing' = Existing
  BY <1>1, TxMoves, SameTrans DEF TxMap
<1>3. mInDlgRecordPool' = [mInDlgRecordPool EXCEPT ![x.id] = Fresh(t)]
  BY <1>1 DEF Map, Update
<1>4. owner' = [owner EXCEPT ![x.id] = t] /\ owner \in [DlgIds -> Trans \cup {NoTrans}]
  BY <1>1, <1>3, OwnerWritten, OwnerTyped DEF HTypes, IInv
<1>5. owner[x.id] \in {t, NoTrans}
  <2>1. CASE x.kind = "QUERY"
    <3>1. Asking(x)
      BY <1>1, <2>1 DEF Asking
    <3>2. QED
      BY <3>1, ViewParts DEF Belongs, Queries, Unused
  <2>2. CASE x.kind # "QUERY"
    BY <1>0, <1>1, <2>2, ViewParts DEF TxFits, AtWork, Opening, SameDialogue
  <2>3. QED
    BY <2>1, <2>2
<1>6. Keeper(t)'
  BY <1>1, <1>4 DEF Keeper
<1>7. \A s \in Existing : (\E id \in DlgIds : owner[id] = s) => Keeper(s)'
  <2>1. \A s \in Existing : s # NoTrans
    BY HandlerAssumption DEF Existing
  <2>2. QED
    BY <1>1, <1>4, <1>5, <1>6, <2>1 DEF Keeper
<1>8. QED
  BY <1>0, <1>1, <1>2, <1>6, <1>7, TxKeeps

(* The other steps of a transmit thread.                                     *)
LEMMA TxPlainKept ==
  ASSUME HTypes, Belongs, AllKept, NEW w \in Tx, CallsServe, NoneGivenUp,
         \/ TxTake(w) \/ TxFound(w) \/ TxNotFound(w) \/ TxTell(w) \/ TxBuild(w)
         \/ TxBuildFails(w) \/ TxBlock(w) \/ TxSend(w) \/ TxSendFails(w)
  PROVE  AllKept'
<1> USE DEF CallsServe
<1> DEFINE x == tx[w]
           y == tx'[w]
<1>1. rx' = rx /\ owner' = owner
  BY SameRecords
     DEF TxTake, TxFound, TxNotFound, TxTell, TxBuild, TxBuildFails, TxBlock, TxSend,
         TxSendFails, poolVars
<1>2. Existing' = Existing
  <2>1. CASE TxSend(w)
    <3>1. x.trans \in Existing
      BY <2>1, TxBusy DEF TxSend, TxAt, HTypes, TxWork, Existing
    <3>2. PICK s \in {"created", "open", "ended"} : trans' = [trans EXCEPT ![x.trans] = s]
      BY <2>1, <3>1 DEF TxSend, Existing, Exists
    <3>3. QED
      BY <3>1, <3>2, ExistingMoved DEF HTypes
  <2>2. CASE trans' = trans
    BY <2>2, SameTrans
  <2>3. QED
    BY <2>1, <2>2
       DEF TxTake, TxFound, TxNotFound, TxTell, TxBuild, TxBuildFails, TxBlock,
           TxSendFails, libVars
<1>3. \A v \in Tx : v # w => tx'[v] = tx[v]
  BY ThreadStates
     DEF TxTake, TxFound, TxNotFound, TxTell, TxBuild, TxBuildFails, TxBlock, TxSend,
         TxSendFails, TxDone, TxGoTo
<1>4. Minds(x) => (y.kind = x.kind /\ y.trans = x.trans /\ y.at = "map") \/ x.trans \notin Existing
  <2>1. CASE x.at = "build" /\ x.kind = "QUERY"
    <3>1. TxBuild(w)
      BY <2>1
         DEF TxTake, TxFound, TxNotFound, TxTell, TxBuildFails, TxBlock, TxSend, TxSendFails,
             TxAt, NoneGivenUp
    <3>2. CASE TxGoTo(w, "map")
      BY <2>1, <3>2, TxMoves
    <3>3. CASE x.trans \notin Existing
      BY <3>3
    <3>4. QED
      BY <2>1, <3>1, <3>2, <3>3 DEF TxBuild, TxAt, Existing, Terminal
  <2>2. CASE ~(x.at = "build" /\ x.kind = "QUERY")
    BY <2>2
       DEF TxTake, TxFound, TxNotFound, TxTell, TxBuild, TxBuildFails, TxBlock, TxSend,
           TxSendFails, TxAt, Minds, TxFinishes
  <2>3. QED
    BY <2>1, <2>2
<1>5. \A t \in Existing : Minds(x) /\ x.trans = t => Keeper(t)'
  <2> SUFFICES ASSUME NEW t \in Existing, Minds(x), x.trans = t PROVE Keeper(t)'
    OBVIOUS
  <2>1. y.kind = x.kind /\ y.trans = x.trans /\ y.at = "map"
    BY <1>4
  <2>2. x.kind = "QUERY" \/ TxFinishes(x)
    BY DEF Minds
  <2>3. ~TxFinishes(x)
    BY DEF TxTake, TxFound, TxNotFound, TxTell, TxBuild, TxBuildFails, TxBlock, TxSend,
           TxSendFails, TxAt, TxFinishes
  <2>4. QED
    BY <2>1, <2>2, <2>3 DEF Keeper, Minds
<1>6. QED
  BY <1>1, <1>2, <1>3, <1>5, SameOwnerKeeps, TxKeeps

LEMMA RxFreeKept ==
  ASSUME HTypes, Belongs, AllKept, NEW r \in Rx, RxFree(r)
  PROVE  AllKept'
<1> DEFINE y == rx[r]
           z == rx'[r]
<1>1. /\ y.todo # << >> /\ Head(y.todo) = "free" /\ y.todo \in AllLeft /\ y.todo \notin Dropping
      /\ y.id \in Ids0 /\ RxFits(y, view) /\ tx' = tx /\ trans' = trans /\ FreeOrRefuse(y.id)
  BY ThreadStates DEF RxFree, RxAt, RxWorkOf, AllLeft, Belongs, AllFit, RxFits, libVars
<1>2. Existing' = Existing
  BY <1>1, SameTrans
<1>3. ~RxFinishes(y)
  BY <1>1, Lengths DEF RxFinishes, Finishing
<1>4. CASE CanFree(y.id)
  <2>1. /\ \A q \in Rx : q # r => rx'[q] = rx[q]
        /\ \/ Len(y.todo) = 1 /\ z = RxIdle
           \/ z.todo = Tail(y.todo) /\ z.trans = y.trans
    BY <1>1, <1>4, RxNexts DEF RxFree
  <2>2. y.id \in DlgIds /\ Live(y.id) /\ y.id # NoId
    BY <1>4, IdSets DEF CanFree
  <2>3. owner[y.id] = y.trans
    BY <1>1, <2>2, LiveIsMine DEF RxFits, Belongs, AllFit
  <2>4. owner' = [owner EXCEPT ![y.id] = NoTrans]
    BY <1>1, <2>2, OwnerFreed DEF HTypes, IInv
  <2>5. Len(y.todo) # 1 /\ Tail(y.todo) \in Finishing
    <3>1. y.todo \in {<< "free", "delete", "deliver" >>, << "free", "delete" >>}
      BY <1>1, Lengths DEF AllLeft, QueryLeft, AnswerLeft, TimeoutLeft, DropLeft, LateLeft
    <3>2. Len(y.todo) # 1
      BY <3>1, Lengths
    <3>3. QED
      BY <1>1, <3>2, Follow
  <2>6. RxFinishes(z) /\ z.trans = y.trans
    BY <2>1, <2>5 DEF RxFinishes
  <2>7. \A t \in Existing' : (\E id \in DlgIds : owner[id] = t) => Keeper(t)'
    BY <2>2, <2>3, <2>4, <2>6, OwnerTyped DEF Keeper, HTypes, IInv
  <2>8. QED
    BY <1>1, <1>2, <1>3, <2>1, <2>7, RxKeeps
<1>5. CASE ~CanFree(y.id)
  <2>1. owner' = owner
    BY <1>1, <1>5, SameRecords
       DEF FreeOrRefuse, Free, FreeAllocated, FreeAppChosen, poolVars
  <2>2. \A q \in Rx : q # r => rx'[q] = rx[q]
    BY <1>5, ThreadStates DEF RxFree, RxSkip
  <2>3. QED
    BY <1>1, <1>2, <1>3, <2>1, <2>2, SameOwnerKeeps, RxKeeps
<1>6. QED
  BY <1>4, <1>5

LEMMA RxDeleteKept ==
  ASSUME HTypes, Belongs, AllKept, NEW r \in Rx, RxDelete(r)
  PROVE  AllKept'
<1> DEFINE y == rx[r]
<1>1. /\ y.todo # << >> /\ y.trans \in Trans /\ tx' = tx /\ owner' = owner
      /\ trans' = [trans EXCEPT ![y.trans] = "deleted"]
  BY ThreadStates, SameRecords DEF RxDelete, RxAt, RxWorkOf, DeleteTrans, poolVars
<1>2. \A q \in Rx : q # r => rx'[q] = rx[q]
  BY <1>1, RxNexts DEF RxDelete
<1>3. Existing' = Existing \ {y.trans}
  BY <1>1 DEF Existing, Exists, HTypes, LibTypes
<1>4. QED
  BY <1>1, <1>2, <1>3, SameOwnerKeeps, RxKeeps

LEMMA RxMapKept ==
  ASSUME HTypes, Belongs, AllKept, NEW r \in Rx, RxMap(r), WritesInUse
  PROVE  AllKept'
<1> DEFINE y == rx[r]
<1>1. /\ y.todo # << >> /\ Head(y.todo) = "map" /\ y.trans \in Trans /\ y.id \in Ids0
      /\ RxFits(y, view) /\ tx' = tx /\ trans' = trans /\ Map(y.id, y.trans)
  BY ThreadStates DEF RxMap, RxAt, RxWorkOf, Belongs, AllFit
<1>2. (\A q \in Rx : q # r => rx'[q] = rx[q]) /\ Existing' = Existing
  BY <1>1, RxNexts, SameTrans DEF RxMap
<1>3. y.id # NoId => owner[y.id] = y.trans /\ userptr[y.trans] = y.id
  <2> SUFFICES ASSUME y.id # NoId PROVE owner[y.id] = y.trans /\ userptr[y.trans] = y.id
    OBVIOUS
  <2>1. y.id \in DlgIds /\ Live(y.id) /\ SameDialogue(y.id, y.trans, view)
    BY <1>1 DEF Ids0, WritesInUse, RxFits
  <2>2. QED
    BY <2>1, LiveIsMine DEF Belongs, AllFit
<1>4. owner' = owner
  BY <1>1, <1>3, WrittenAgain
<1>5. ~RxFinishes(y)
  BY <1>1, Lengths DEF RxFinishes, Finishing
<1>6. QED
  BY <1>1, <1>2, <1>4, <1>5, SameOwnerKeeps, RxKeeps

LEMMA RxQueryKeeps ==
  ASSUME HTypes, AllKept, NEW r \in Rx, NEW t \in Trans, RxQuery(r, t)
  PROVE  AllKept'
<1>1. /\ tx' = tx /\ trans' = [trans EXCEPT ![t] = "open"] /\ rx[r].todo = << >>
      /\ \A q \in Rx : q # r => rx'[q] = rx[q]
  BY ThreadStates DEF RxQuery, RxReady
<1>2. IdToTake \in DlgIds /\ ~Live(IdToTake)
  BY AllocatedIdIsFree, IdSets DEF RxQuery, HTypes
<1>3. owner' = [owner EXCEPT ![IdToTake] = t] /\ owner[IdToTake] = NoTrans
  <2>1. mInDlgRecordPool' = [mInDlgRecordPool EXCEPT ![IdToTake] = Fresh(t)]
    BY DEF RxQuery, Allocate
  <2>2. QED
    BY <1>2, <2>1, OwnerWritten, OwnerTyped DEF HTypes, IInv
<1>4. Keeper(t)'
  BY <1>2, <1>3, OwnerTyped DEF Keeper, HTypes, IInv
<1>5. \A s \in Existing' : s \in Existing \/ s = t
  BY <1>1 DEF Existing, Exists, HTypes, LibTypes
<1>6. \A s \in Existing' : s # NoTrans
  BY <1>5, HandlerAssumption DEF Existing
<1>7. \A s \in Existing' : (\E id \in DlgIds : owner[id] = s) => Keeper(s)'
  BY <1>2, <1>3, <1>6, OwnerTyped DEF Keeper, HTypes, IInv
<1>8. ~RxFinishes(rx[r])
  BY <1>1, StepSets DEF RxFinishes
<1>9. QED
  BY <1>1, <1>4, <1>5, <1>7, <1>8, RxKeeps

LEMMA RxPlainKept ==
  ASSUME HTypes, Belongs, AllKept, NEW r \in Rx,
         \/ RxLook(r) \/ RxUnblock(r) \/ RxDeliver(r)
         \/ \E t \in Trans : RxQueryDropped(r, t) \/ RxGet(r, t)
  PROVE  AllKept'
<1> DEFINE y == rx[r]
<1>1. tx' = tx /\ owner' = owner
  BY SameRecords DEF RxLook, RxUnblock, RxDeliver, RxQueryDropped, RxGet, poolVars
<1>2. \A q \in Rx : q # r => rx'[q] = rx[q]
  BY ThreadStates DEF RxLook, RxUnblock, RxDeliver, RxQueryDropped, RxGet, RxNext, RxSkip
<1>3. Existing' \subseteq Existing
  <2>1. CASE trans' = trans
    BY <2>1, SameTrans
  <2>2. ASSUME NEW t \in Trans, RxQueryDropped(r, t) PROVE Existing' \subseteq Existing
    BY <2>2 DEF RxQueryDropped, Existing, Exists, HTypes, LibTypes
  <2>3. QED
    BY <2>1, <2>2 DEF RxLook, RxUnblock, RxDeliver, RxGet, libVars
<1>4. ~RxFinishes(y)
  <2>1. CASE y.todo = << >>
    BY <2>1, StepSets DEF RxFinishes
  <2>2. CASE Head(y.todo) \in {"look", "unblock", "deliver"}
    BY <2>2, Lengths DEF RxFinishes, Finishing
  <2>3. QED
    BY <2>1, <2>2 DEF RxLook, RxUnblock, RxDeliver, RxQueryDropped, RxGet, RxAt, RxReady
<1>5. QED
  BY <1>1, <1>2, <1>3, <1>4, SameOwnerKeeps, RxKeeps

LEMMA OthersKept ==
  ASSUME HTypes, AllKept, \/ AppNext \/ CleanerNext \/ NetNext
                          \/ UNCHANGED vars
  PROVE  AllKept'
<1>1. CASE owner' = owner /\ tx' = tx /\ rx' = rx /\ Existing' = Existing
  BY <1>1 DEF AllKept, Keeper
<1>2. CASE mInDlgRecordPool' = mInDlgRecordPool /\ tx' = tx /\ rx' = rx /\ trans' = trans
  BY <1>1, <1>2, SameRecords, SameTrans
<1>3. ASSUME NEW id \in DlgIds, Age(id) PROVE AllKept'
  BY <1>1, <1>3, OwnerAged, SameTrans DEF Age, libVars, HTypes, IInv
<1>4. ASSUME NEW t \in Trans, NEW kind \in NetKinds, NetSend(t, kind) PROVE AllKept'
  <2>1. /\ UNCHANGED << poolVars, tx, rx >> /\ trans[t] = "open"
        /\ trans' = trans \/ trans' = [trans EXCEPT ![t] = "ended"]
    BY <1>4 DEF NetSend
  <2>2. Existing' = Existing
    BY <2>1, SameTrans, ExistingMoved DEF Existing, Exists, HTypes
  <2>3. QED
    BY <1>1, <2>1, <2>2, SameRecords DEF poolVars
<1>5. QED
  BY <1>2, <1>3, <1>4
     DEF AppNext, AppQuery, AppSend, CleanerNext, CleanTimedoutDlg, NetNext, vars, poolVars,
         libVars

LEMMA AllStayKept ==
  ASSUME CallsServe, HTypes, Belongs, AllKept,
         [HandlerNext /\ WritesInUse /\ IdsRest /\ NoneGivenUp]_vars
  PROVE  AllKept'
<1>1. CASE UNCHANGED vars
  BY <1>1, OthersKept
<1>2. ASSUME HandlerNext, WritesInUse, NoneGivenUp PROVE AllKept'
  <2>1. ASSUME NEW w \in Tx, TxNext(w) PROVE AllKept'
    BY <1>2, <2>1, TxFreesKept, TxDeletesKept, TxOpenKept, TxMapKept, TxPlainKept DEF TxNext
  <2>2. ASSUME NEW r \in Rx, RxWork(r) \/ RxTake(r) PROVE AllKept'
    BY <1>2, <2>2, RxFreeKept, RxDeleteKept, RxMapKept, RxQueryKeeps, RxPlainKept
       DEF RxWork, RxTake
  <2>3. QED
    BY <1>2, <2>1, <2>2, OthersKept DEF HandlerNext
<1>3. QED
  BY <1>1, <1>2

(* A transaction of the stack never leaks: at every moment a record names it *)
(* or a thread has it in hand, however the two ends of its dialogue race, as *)
(* long as nobody gives one up (NoneGivenUp says where the code does).       *)
THEOREM NoTransIsOrphaned ==
  ASSUME CallsServe
  PROVE  HandlerSpec /\ Undisturbed => []NoOrphanTrans
<1>1. Init => AllKept
  BY DEF Init, AllKept, Existing, Exists
<1>2. HTypes /\ Belongs /\ AllKept /\ [HandlerNext /\ WritesInUse /\ IdsRest /\ NoneGivenUp]_vars
        => AllKept'
  BY AllStayKept
<1>3. HTypes /\ AllKept => NoOrphanTrans
  <2> SUFFICES ASSUME HTypes, AllKept, NEW t \in Trans, Exists(t)
               PROVE  InHand(t) \/ \E id \in DlgIds : OwnedBy(id, t)
    BY DEF NoOrphanTrans
  <2>1. Keeper(t) /\ t # NoTrans
    BY HandlerAssumption DEF AllKept, Existing
  <2>2. \A id \in DlgIds : owner[id] = t => OwnedBy(id, t)
    BY <2>1, OwnerTyped DEF OwnedBy, HTypes, IInv, TransInfo
  <2>3. QED
    BY <2>1, <2>2 DEF Keeper, InHand
<1>4. Undisturbed => Rested
  <2>1. [WritesInUse /\ IdsRest /\ NoneGivenUp]_vars => [WritesInUse /\ IdsRest]_vars
    OBVIOUS
  <2>2. QED
    BY <2>1, PTL DEF Undisturbed, Rested
<1>5. QED
  BY <1>1, <1>2, <1>3, <1>4, BelongsHolds, PTL DEF HandlerSpec, Undisturbed
-----------------------------------------------------------------------------
(* Dialogues of one query and one answer, that nobody else ends: then no     *)
(* thread can write the record of a dialogue that is over, which is what     *)
(* the theorems above assume.                                                *)
QueryAnswer ==
  /\ AppKinds \subseteq {"QUERY", "RESPONSE", "ABORT"}
  /\ "CONV" \notin NetKinds
  /\ ~Cleaner
  /\ Faults \subseteq {"refuse", "fill", "tell"}

(* A message that ends a dialogue of the network cannot pass its query: the  *)
(* id of a record that is still to be mapped rested, so whoever has a        *)
(* message for it came later, and drops it.                                  *)
Drops(x, id) == x.id = id => x.at \in {"look", "noIds"}

Untouched(id) == Live(id) /\ \A w \in Tx : Drops(tx[w], id)

MapsItsOwn  == \A r \in Rx : RxAt(r, "map") => Untouched(rx[r].id)
QueuePlain  == \A i \in 1 .. Len(rdQueue) : rdQueue[i].kind \in AppKinds
PlainWork(x) == x.kind \in AppKinds \cup {"none"} /\ x.at \notin {"preEnd", "blockDelete"}
TxPlain     == \A w \in Tx : PlainWork(tx[w])

Answered == MapsItsOwn /\ QueuePlain /\ TxPlain

LEMMA MapWork ==
  ASSUME QueryAnswer, HTypes, NEW r \in Rx, RxAt(r, "map")
  PROVE  rx[r].id \in DlgIds /\ rx[r].id # NoId /\ rx[r].kind = "QUERY" /\ rx[r].todo # << >>
<1>1. rx[r].todo # << >> /\ Head(rx[r].todo) = "map" /\ rx[r] \in RxWorkOf(r)
  BY ThreadStates DEF RxAt
<1>2. rx[r].todo \notin AnswerLeft \cup TimeoutLeft \cup DropLeft \cup LateLeft \cup {<< "look" >>}
  BY <1>1, Lengths DEF AnswerLeft, TimeoutLeft, DropLeft, LateLeft
<1>3. rx[r].kind \in NetKinds
  BY <1>1 DEF RxWorkOf
<1>4. rx[r].kind = "QUERY" /\ rx[r].id \in DlgIds
  BY <1>1, <1>2, <1>3 DEF RxWorkOf, QueryAnswer
<1>5. QED
  BY <1>1, <1>4, IdSets

(* What is then written is in use.                                           *)
LEMMA AnsweredWrites ==
  ASSUME QueryAnswer, HTypes, Belongs, Answered
  PROVE  WritesInUse
<1>1. ASSUME NEW w \in Tx, TxMap(w) PROVE tx[w].kind = "QUERY"
  <2>1. tx[w].at = "map" /\ TxFits(tx[w], view) /\ PlainWork(tx[w])
    BY <1>1 DEF TxMap, TxAt, Belongs, AllFit, Answered, TxPlain
  <2>2. tx[w].kind # "none"
    BY <2>1, TxBusy DEF HTypes, TxWork, QueryAnswer
  <2>3. QED
    BY <2>1, <2>2 DEF TxFits, Terminal, PlainWork, QueryAnswer
<1>2. ASSUME NEW r \in Rx, RxMap(r) PROVE Live(rx[r].id)
  BY <1>2 DEF RxMap, Answered, MapsItsOwn, Untouched
<1>3. QED
  BY <1>1, <1>2 DEF WritesInUse

(* The messages that wait or are worked on.                                  *)
LEMMA PostedPlain ==
  ASSUME QueuePlain, HTypes, NEW kind \in AppKinds, NEW id, Post(kind, id)
  PROVE  QueuePlain'
<1>1. rdQueue \in Seq(Message)
  BY DEF HTypes, QueueTypes
<1>2. /\ Len(rdQueue') = Len(rdQueue) + 1 /\ Len(rdQueue) \in Nat
      /\ \A i \in 1 .. Len(rdQueue') :
           rdQueue'[i] = IF i <= Len(rdQueue) THEN rdQueue[i] ELSE [kind |-> kind, id |-> id]
  BY <1>1, SMT DEF Post
<1>3. QED
  BY <1>2 DEF QueuePlain

LEMMA QueuePlainKept ==
  ASSUME QueryAnswer, HTypes, QueuePlain, HandlerNext
  PROVE  QueuePlain'
<1>1. CASE rdQueue' = rdQueue
  BY <1>1 DEF QueuePlain
<1>2. ASSUME NEW id \in AppQueries, AppQuery(id) PROVE QueuePlain'
  BY <1>2, PostedPlain DEF AppQuery
<1>3. ASSUME NEW id \in DlgIds, NEW kind \in AppKinds, AppSend(id, kind) PROVE QueuePlain'
  BY <1>3, PostedPlain DEF AppSend
<1>4. ASSUME NEW w \in Tx, TxTake(w) PROVE QueuePlain'
  <2>1. rdQueue \in Seq(Message) /\ rdQueue # << >> /\ rdQueue' = Tail(rdQueue)
    BY <1>4 DEF TxTake, HTypes, QueueTypes
  <2>2. /\ Len(rdQueue') = Len(rdQueue) - 1 /\ Len(rdQueue) \in Nat
        /\ \A i \in 1 .. Len(rdQueue') : rdQueue'[i] = rdQueue[i + 1] /\ i + 1 \in 1 .. Len(rdQueue)
    BY <2>1, HeadTailProperties, LenProperties, SMT
  <2>3. QED
    BY <2>2 DEF QueuePlain
<1>5. ASSUME NEW w \in Tx, TxNext(w), ~TxTake(w) PROVE rdQueue' = rdQueue
  BY <1>5 DEF TxNext, TxFound, TxOpen, TxNotFound, TxFreeOnly, TxPreEnd, TxBlockDelete, TxTell,
              TxBuild, TxBuildFails, TxMap, TxBlock, TxSend, TxSendFails, TxFree, TxDelete
<1>6. ASSUME NEW r \in Rx, RxWork(r) \/ RxTake(r) PROVE rdQueue' = rdQueue
  BY <1>6 DEF RxWork, RxTake, RxLook, RxMap, RxUnblock, RxFree, RxDelete, RxDeliver, RxQuery,
              RxQueryDropped, RxGet
<1>7. ASSUME NetNext PROVE rdQueue' = rdQueue
  BY <1>7 DEF NetNext, NetSend
<1>8. ~CleanerNext
  BY DEF QueryAnswer, CleanerNext
<1>9. QED
  BY <1>1, <1>2, <1>3, <1>4, <1>5, <1>6, <1>7, <1>8 DEF HandlerNext, AppNext

LEMMA TxPlainStep ==
  ASSUME QueryAnswer, HTypes, QueuePlain, TxPlain, NEW w \in Tx, TxNext(w)
  PROVE  TxPlain' /\ \A v \in Tx : v # w => tx'[v] = tx[v]
<1> DEFINE x == tx[w]
<1>1. PlainWork(x) /\ ~PreEnd(w)
  BY DEF TxPlain, PlainWork, PreEnd, QueryAnswer
<1>2. SUFFICES PlainWork(tx'[w]) /\ \A v \in Tx : v # w => tx'[v] = tx[v]
  BY DEF TxPlain
<1>3. CASE TxDone(w)
  BY <1>3, TxEnds DEF PlainWork, TxIdle
<1>4. ASSUME NEW place, x.at # "idle", TxGoTo(w, place), place \notin {"preEnd", "blockDelete"}
      PROVE  PlainWork(tx'[w]) /\ \A v \in Tx : v # w => tx'[v] = tx[v]
  BY <1>1, <1>4, TxMoves DEF PlainWork
<1>5. CASE TxTake(w)
  <2>1. rdQueue \in Seq(Message) /\ rdQueue # << >>
    BY <1>5 DEF TxTake, HTypes, QueueTypes
  <2>2. Head(rdQueue) = rdQueue[1] /\ 1 \in 1 .. Len(rdQueue)
    BY <2>1, HeadTailProperties, LenProperties, EmptySeq, SMT
  <2>3. Head(rdQueue).kind \in AppKinds
    BY <2>2 DEF QueuePlain
  <2>4. /\ tx'[w] = [at |-> "look", kind |-> Head(rdQueue).kind,
                     id |-> Head(rdQueue).id, trans |-> NoTrans]
        /\ \A v \in Tx : v # w => tx'[v] = tx[v]
    BY <1>5, ThreadStates DEF TxTake
  <2>5. QED
    BY <2>3, <2>4 DEF PlainWork
<1>6. CASE TxFound(w)
  <2>1. TxDone(w) \/ \E place \in {"noIds", "build"} :
          tx' = [tx EXCEPT ![w].trans = TransInfo(x.id), ![w].at = place]
    BY <1>1, <1>6 DEF TxFound
  <2>2. x \in TxWork
    BY <1>6, TxBusy DEF TxFound, TxAt, HTypes
  <2>3. ASSUME NEW place \in {"noIds", "build"}, NEW t,
               tx' = [tx EXCEPT ![w].trans = t, ![w].at = place]
        PROVE  PlainWork(tx'[w]) /\ \A v \in Tx : v # w => tx'[v] = tx[v]
    <3>1. tx'[w] = [[x EXCEPT !.trans = t] EXCEPT !.at = place]
          /\ \A v \in Tx : v # w => tx'[v] = tx[v]
      BY <2>3, ThreadStates
    <3>2. tx'[w].kind = x.kind /\ tx'[w].at = place
      BY <2>2, <3>1 DEF TxWork
    <3>3. QED
      BY <1>1, <3>1, <3>2 DEF PlainWork
  <2>4. QED
    BY <1>3, <2>1, <2>3
<1>7. CASE TxOpen(w)
  <2>1. PICK t \in Trans : tx' = [tx EXCEPT ![w].trans = t, ![w].at = "build"]
    BY <1>7 DEF TxOpen
  <2>2. x \in TxWork
    BY <1>7, TxBusy DEF TxOpen, TxAt, HTypes
  <2>3. tx'[w] = [[x EXCEPT !.trans = t] EXCEPT !.at = "build"]
        /\ \A v \in Tx : v # w => tx'[v] = tx[v]
    BY <2>1, ThreadStates
  <2>4. tx'[w].kind = x.kind /\ tx'[w].at = "build"
    BY <2>2, <2>3 DEF TxWork
  <2>5. QED
    BY <1>1, <2>3, <2>4 DEF PlainWork
<1>8. CASE TxNotFound(w)
  BY <1>4, <1>8 DEF TxNotFound, TxAt
<1>9. CASE TxFreeOnly(w) \/ TxTell(w) \/ TxDelete(w)
  BY <1>3, <1>9 DEF TxFreeOnly, TxTell, TxDelete
<1>10. ~TxPreEnd(w) /\ ~TxBlockDelete(w) /\ ~TxBuildFails(w)
  BY <1>1 DEF PlainWork, TxPreEnd, TxBlockDelete, TxBuildFails, TxAt, QueryAnswer
<1>11. CASE TxBuild(w) \/ TxMap(w) \/ TxBlock(w) \/ TxSend(w) \/ TxFree(w)
  BY <1>3, <1>4, <1>11 DEF TxBuild, TxMap, TxBlock, TxSend, TxFree, TxAt
<1>12. CASE TxSendFails(w)
  BY <1>3, <1>12 DEF TxSendFails, QueryAnswer
<1>13. QED
  BY <1>5, <1>6, <1>7, <1>8, <1>9, <1>10, <1>11, <1>12 DEF TxNext

(* The records that are still to be mapped.                                  *)
LEMMA FreeSparesOthers ==
  ASSUME TypeOK, NEW id \in DlgIds, NEW other \in Ids0, other # id, FreeOrRefuse(other), Live(id)
  PROVE  Live(id)'
<1>1. mInDlgRecordPool' = mInDlgRecordPool
      \/ mInDlgRecordPool' = [mInDlgRecordPool EXCEPT ![other] = NoRecord]
  BY DEF FreeOrRefuse, Free, FreeAllocated, FreeAppChosen, poolVars
<1>2. mInDlgRecordPool'[id] = mInDlgRecordPool[id]
  BY <1>1 DEF TypeOK
<1>3. QED
  BY <1>2 DEF Live

LEMMA MapSparesAll ==
  ASSUME TypeOK, NEW id \in DlgIds, NEW other, NEW t \in Trans, Map(other, t), Live(id)
  PROVE  Live(id)'
<1>1. mInDlgRecordPool' = mInDlgRecordPool
      \/ mInDlgRecordPool' = [mInDlgRecordPool EXCEPT ![other] = Fresh(t)]
  BY DEF Map, Update, poolVars
<1>2. mInDlgRecordPool'[id] \in {mInDlgRecordPool[id], Fresh(t)}
  BY <1>1 DEF TypeOK
<1>3. QED
  BY <1>2, FreshInContent, PoolAssumption DEF Live

LEMMA TxStepUntouched ==
  ASSUME QueryAnswer, HTypes, TxPlain, NEW r \in Rx, RxAt(r, "map"), Untouched(rx[r].id),
         NEW w \in Tx, TxNext(w), \A v \in Tx : v # w => tx'[v] = tx[v]
  PROVE  Untouched(rx[r].id)'
<1> DEFINE x == tx[w]
<1>0. PICK id : id = rx[r].id
  OBVIOUS
<1>1. /\ id \in DlgIds /\ id # NoId /\ Live(id) /\ Drops(x, id) /\ JustAllocated(id)
      /\ rx[r].kind = "QUERY"
  BY <1>0, MapWork DEF Untouched, JustAllocated
<1>2. PlainWork(x) /\ ~PreEnd(w) /\ TypeOK
  BY DEF TxPlain, PlainWork, PreEnd, QueryAnswer, HTypes, IInv
<1>3. rx' = rx
  BY DEF TxNext, TxTake, TxFound, TxOpen, TxNotFound, TxFreeOnly, TxPreEnd, TxBlockDelete, TxTell,
         TxBuild, TxBuildFails, TxMap, TxBlock, TxSend, TxSendFails, TxFree, TxDelete, libVars
<1> HIDE DEF x
<1>4. SUFFICES Live(id)' /\ Drops(tx'[w], id)
  BY <1>0, <1>3 DEF Untouched
<1>5. mInDlgRecordPool' = mInDlgRecordPool => Live(id)'
  BY <1>1 DEF Live
<1>6. TxDone(w) => Drops(tx'[w], id)
  BY <1>1, TxEnds DEF Drops, TxIdle
<1>7. ASSUME NEW place, x.at # "idle", TxGoTo(w, place), x.id # id PROVE Drops(tx'[w], id)
  BY <1>7, TxMoves DEF Drops, x
<1>8. CASE TxTake(w)
  <2>1. tx'[w] = [at |-> "look", kind |-> Head(rdQueue).kind,
                  id |-> Head(rdQueue).id, trans |-> NoTrans]
    BY <1>8, ThreadStates DEF TxTake
  <2>2. QED
    BY <1>5, <1>8, <2>1 DEF TxTake, Drops, poolVars
<1>9. CASE TxFound(w)
  <2>1. x \in TxWork /\ mInDlgRecordPool' = mInDlgRecordPool
    BY <1>9, TxBusy DEF TxFound, TxAt, HTypes, poolVars, x
  <2>2. TxDone(w) \/ \E place \in {"noIds", "build"} :
          /\ tx' = [tx EXCEPT ![w].trans = TransInfo(x.id), ![w].at = place]
          /\ x.id = id => place = "noIds"
    BY <1>1, <1>2, <1>9 DEF TxFound, x
  <2>3. ASSUME NEW place, NEW t, x.id = id => place = "noIds",
               tx' = [tx EXCEPT ![w].trans = t, ![w].at = place]
        PROVE  Drops(tx'[w], id)
    <3>1. tx'[w] = [[x EXCEPT !.trans = t] EXCEPT !.at = place]
      BY <2>3, ThreadStates DEF x
    <3>2. tx'[w].id = x.id /\ tx'[w].at = place
      BY <2>1, <3>1 DEF TxWork
    <3>3. QED
      BY <2>3, <3>2 DEF Drops
  <2>4. QED
    BY <1>5, <1>6, <2>1, <2>2, <2>3
<1>10. CASE TxOpen(w)
  <2>1. x.id # id /\ x \in TxWork /\ mInDlgRecordPool' = mInDlgRecordPool
    BY <1>1, <1>10, TxBusy DEF TxOpen, TxAt, HTypes, poolVars, x
  <2>2. PICK t \in Trans : tx' = [tx EXCEPT ![w].trans = t, ![w].at = "build"]
    BY <1>10 DEF TxOpen
  <2>3. tx'[w] = [[x EXCEPT !.trans = t] EXCEPT !.at = "build"]
    BY <2>2, ThreadStates DEF x
  <2>4. tx'[w].id = x.id
    BY <2>1, <2>3 DEF TxWork
  <2>5. QED
    BY <1>5, <2>1, <2>4 DEF Drops
<1>11. CASE TxNotFound(w)
  <2>1. x.id # id /\ x.at # "idle" /\ TxGoTo(w, "freeOnly") /\ mInDlgRecordPool' = mInDlgRecordPool
    BY <1>1, <1>11 DEF TxNotFound, TxAt, poolVars, x
  <2>2. QED
    BY <1>5, <1>7, <2>1
<1>12. CASE TxFreeOnly(w) \/ TxFree(w)
  <2>1. /\ x.at \in {"freeOnly", "free"} /\ FreeOrRefuse(x.id)
        /\ TxDone(w) \/ TxGoTo(w, "delete")
    BY <1>12 DEF TxFreeOnly, TxFree, TxAt, x
  <2>2. x.id # id
    BY <1>1, <2>1 DEF Drops
  <2>3. x.id \in Ids0
    BY <2>1, TxBusy DEF HTypes, x, Ids0
  <2>4. Live(id)'
    BY <1>1, <1>2, <2>1, <2>2, <2>3, FreeSparesOthers
  <2>5. QED
    BY <1>6, <1>7, <2>1, <2>2, <2>4
<1>13. CASE TxTell(w) \/ TxDelete(w)
  BY <1>5, <1>6, <1>13 DEF TxTell, TxDelete, poolVars
<1>14. ~TxPreEnd(w) /\ ~TxBlockDelete(w) /\ ~TxBuildFails(w)
  BY <1>2 DEF PlainWork, TxPreEnd, TxBlockDelete, TxBuildFails, TxAt, QueryAnswer, x
<1>15. CASE TxBuild(w)
  <2>1. mInDlgRecordPool' = mInDlgRecordPool
    BY <1>15 DEF TxBuild, poolVars
  <2>2. CASE x.at = "noIds"
    BY <1>5, <1>6, <1>15, <2>1, <2>2 DEF TxBuild, TxAt, x
  <2>3. CASE x.at # "noIds"
    <3>1. x.at = "build" /\ (TxDone(w) \/ \E place \in {"block", "map"} : TxGoTo(w, place))
      BY <1>15, <2>3 DEF TxBuild, TxAt, x
    <3>2. x.id # id
      BY <1>1, <3>1 DEF Drops
    <3>3. QED
      BY <1>5, <1>6, <1>7, <2>1, <3>1, <3>2
  <2>4. QED
    BY <2>2, <2>3
<1>16. CASE TxMap(w)
  <2>1. x.at = "map" /\ Map(x.id, x.trans) /\ TxGoTo(w, "send")
    BY <1>16 DEF TxMap, TxAt, x
  <2>2. x.id # id /\ x.trans \in Trans
    BY <1>1, <2>1, TxBusy DEF Drops, HTypes, TxWork, x
  <2>3. Live(id)'
    BY <1>1, <1>2, <2>1, <2>2, MapSparesAll
  <2>4. QED
    BY <1>7, <2>1, <2>2, <2>3
<1>17. CASE TxBlock(w) \/ TxSend(w)
  <2>1. /\ x.at \in {"block", "blockAgain", "send"} /\ mInDlgRecordPool' = mInDlgRecordPool
        /\ TxDone(w) \/ \E place \in {"blockAgain", "send", "free"} : TxGoTo(w, place)
    BY <1>17 DEF TxBlock, TxSend, TxAt, poolVars, x
  <2>2. x.id # id
    BY <1>1, <2>1 DEF Drops
  <2>3. QED
    BY <1>5, <1>6, <1>7, <2>1, <2>2
<1>18. CASE TxSendFails(w)
  BY <1>5, <1>6, <1>18 DEF TxSendFails, QueryAnswer, poolVars
<1>19. QED
  BY <1>8, <1>9, <1>10, <1>11, <1>12, <1>13, <1>14, <1>15, <1>16, <1>17, <1>18 DEF TxNext

LEMMA AfterStep ==
  ASSUME NEW s \in AllLeft, Len(s) # 1
  PROVE  Head(Tail(s)) # "map"
<1>1. s \notin {<< "look" >>, << "deliver" >>, << "delete" >>}
  BY Lengths
<1>2. CASE s \in QueryLeft
  BY <1>1, <1>2, TailOf2, TailOf3, Lengths DEF QueryLeft
<1>3. CASE s \in AnswerLeft
  BY <1>1, <1>3, TailOf2, TailOf3, TailOf4, Lengths DEF AnswerLeft
<1>4. CASE s \in TimeoutLeft
  BY <1>1, <1>4, TailOf2, TailOf3, TailOf4, Lengths DEF TimeoutLeft
<1>5. CASE s \in DropLeft \cup LateLeft
  BY <1>1, <1>5, TailOf2, TailOf3, Lengths DEF DropLeft, LateLeft
<1>6. QED
  BY <1>1, <1>2, <1>3, <1>4, <1>5 DEF AllLeft

(* No step but the taking of a query leads a receive thread to a record.     *)
LEMMA RxStepsPast ==
  ASSUME QueryAnswer, HTypes, Belongs, NEW r \in Rx,
         \/ RxWork(r)
         \/ \E t \in Trans : RxQueryDropped(r, t) \/ RxGet(r, t)
  PROVE  /\ \A q \in Rx : q # r => rx'[q] = rx[q]
         /\ ~RxAt(r, "map")'
<1> DEFINE y == rx[r]
<1>1. CASE RxMap(r) \/ RxUnblock(r) \/ RxDelete(r) \/ RxDeliver(r)
  <2>1. y.todo # << >> /\ RxNext(r) /\ Head(y.todo) \in {"map", "unblock", "delete", "deliver"}
    BY <1>1 DEF RxMap, RxUnblock, RxDelete, RxDeliver, RxAt
  <2>2. y.todo \in AllLeft
    BY <2>1, RxNexts
  <2>3. /\ \A q \in Rx : q # r => rx'[q] = rx[q]
        /\ rx'[r].todo = << >> \/ (Len(y.todo) # 1 /\ rx'[r].todo = Tail(y.todo))
    BY <2>1, RxNexts DEF RxIdle
  <2>4. Len(y.todo) # 1 => Head(Tail(y.todo)) # "map"
    BY <2>2, AfterStep
  <2>5. QED
    BY <2>3, <2>4 DEF RxAt
<1>2. CASE RxFree(r)
  <2>1. y.todo # << >> /\ Head(y.todo) = "free" /\ y \in RxWorkOf(r)
    BY <1>2, ThreadStates DEF RxFree, RxAt
  <2>2. y.todo \in AllLeft
    BY <2>1 DEF RxWorkOf, AllLeft
  <2>3. CASE RxNext(r)
    <3>1. /\ \A q \in Rx : q # r => rx'[q] = rx[q]
          /\ rx'[r].todo = << >> \/ (Len(y.todo) # 1 /\ rx'[r].todo = Tail(y.todo))
      BY <2>1, <2>3, RxNexts DEF RxIdle
    <3>2. Len(y.todo) # 1 => Head(Tail(y.todo)) # "map"
      BY <2>2, AfterStep
    <3>3. QED
      BY <3>1, <3>2 DEF RxAt
  <2>4. CASE RxSkip(r, 2)
    <3>1. /\ \A q \in Rx : q # r => rx'[q] = rx[q]
          /\ rx'[r] = RxIdle \/ rx'[r].todo = << "deliver" >>
      <4>1. \/ rx' = [rx EXCEPT ![r].todo = << "deliver" >>]
            \/ rx' = [rx EXCEPT ![r] = RxIdle]
        BY <1>2, <2>4, RxSkipsDelete DEF RxFree, HTypes
      <4>2. CASE rx' = [rx EXCEPT ![r] = RxIdle]
        BY <4>2, ThreadStates
      <4>3. CASE rx' = [rx EXCEPT ![r].todo = << "deliver" >>]
        <5>1. rx' = [rx EXCEPT ![r] = [y EXCEPT !.todo = << "deliver" >>]]
          BY <4>3
        <5>2. (\A q \in Rx : q # r => rx'[q] = rx[q]) /\ rx'[r] = [y EXCEPT !.todo = << "deliver" >>]
          BY <5>1, ThreadStates
        <5>3. QED
          BY <2>1, <5>2 DEF RxWorkOf
      <4>4. QED
        BY <4>1, <4>2, <4>3
    <3>2. QED
      BY <3>1, Lengths DEF RxAt, RxIdle
  <2>5. QED
    BY <1>2, <2>3, <2>4 DEF RxFree
<1>3. CASE RxLook(r)
  <2>1. y \in RxWorkOf(r) /\ y.todo # << >> /\ Head(y.todo) = "look" /\ y.todo \notin Dropping
    BY <1>3, ThreadStates DEF RxLook, RxAt, Belongs, AllFit, RxFits
  <2>2. y.todo = << "look" >>
    BY <2>1, Follow DEF RxWorkOf, AllLeft
  <2>3. y.kind \in {"RESPONSE", "ABORT", "TIMEOUT"}
    <3>1. y.kind # "QUERY"
      BY <2>1, <2>2, Lengths DEF RxWorkOf, QueryLeft, AnswerLeft, TimeoutLeft, DropLeft, LateLeft
    <3>2. y.kind \in NetKinds
      BY <2>1 DEF RxWorkOf
    <3>3. QED
      BY <3>1, <3>2, HandlerAssumption DEF QueryAnswer
  <2>4. y.trans \in Existing /\ userptr[y.trans] # NoId
    BY <2>1, <2>2, ViewParts DEF Belongs, AllFit, RxFits
  <2>5. rx' = [rx EXCEPT ![r] = [y EXCEPT !.todo = Route(y.kind), !.id = DialogueInfo(y.trans)]]
    BY <1>3, <2>4 DEF RxLook, Existing, IdsFail, QueryAnswer
  <2>6. (\A q \in Rx : q # r => rx'[q] = rx[q]) /\ rx'[r].todo = Route(y.kind)
    BY <2>1, <2>5, ThreadStates DEF RxWorkOf
  <2>7. Head(Route(y.kind)) # "map"
    BY <2>3, Lengths DEF Route
  <2>8. QED
    BY <2>6, <2>7 DEF RxAt
<1>4. ASSUME NEW t \in Trans, RxQueryDropped(r, t) \/ RxGet(r, t)
      PROVE  (\A q \in Rx : q # r => rx'[q] = rx[q]) /\ ~RxAt(r, "map")'
  <2>1. CASE RxQueryDropped(r, t)
    BY <2>1 DEF RxQueryDropped, RxReady, RxAt
  <2>2. CASE RxGet(r, t)
    <3>1. (\A q \in Rx : q # r => rx'[q] = rx[q]) /\ rx'[r].todo = << "look" >>
      BY <2>2, ThreadStates DEF RxGet
    <3>2. QED
      BY <3>1, Lengths DEF RxAt
  <2>3. QED
    BY <1>4, <2>1, <2>2
<1>5. QED
  BY <1>1, <1>2, <1>3, <1>4 DEF RxWork

LEMMA RxStepUntouched ==
  ASSUME QueryAnswer, HTypes, Belongs, MapsItsOwn, IdsRest, NEW r \in Rx, RxWork(r) \/ RxTake(r)
  PROVE  MapsItsOwn'
<1> SUFFICES ASSUME NEW q \in Rx, RxAt(q, "map")' PROVE Untouched(rx[q].id)'
  BY DEF MapsItsOwn
<1>1. tx' = tx
  BY DEF RxWork, RxTake, RxLook, RxMap, RxUnblock, RxFree, RxDelete, RxDeliver, RxQuery,
         RxQueryDropped, RxGet
<1>2. TypeOK /\ IInv
  BY DEF HTypes, IInv
<1>3. CASE q # r
  <2>1. rx'[q] = rx[q]
    <3>1. ASSUME NEW t \in Trans, RxQuery(r, t) PROVE rx'[q] = rx[q]
      BY <1>3, <3>1, ThreadStates DEF RxQuery
    <3>2. QED
      BY <1>3, <3>1, RxStepsPast DEF RxTake
  <2>2. RxAt(q, "map")
    BY <2>1 DEF RxAt
  <2>3. PICK id : id = rx[q].id
    OBVIOUS
  <2>4. id \in DlgIds /\ id # NoId /\ Live(id) /\ \A w \in Tx : Drops(tx[w], id)
    BY <2>2, <2>3, MapWork DEF MapsItsOwn, Untouched
  <2>5. SUFFICES Live(id)'
    BY <1>1, <2>1, <2>3, <2>4 DEF Untouched
  <2>6. CASE mInDlgRecordPool' = mInDlgRecordPool
    BY <2>4, <2>6 DEF Live
  <2>7. CASE RxMap(r)
    <3>1. Map(rx[r].id, rx[r].trans) /\ rx[r].trans \in Trans
      BY <2>7, ThreadStates DEF RxMap, RxAt, RxWorkOf
    <3>2. QED
      BY <1>2, <2>4, <3>1, MapSparesAll
  <2>8. CASE RxFree(r)
    <3>1. FreeOrRefuse(rx[r].id) /\ rx[r].todo # << >> /\ rx[r].id \in Ids0
      BY <2>8, ThreadStates DEF RxFree, RxAt, RxWorkOf
    <3>2. rx[r].id # id
      <4> SUFFICES ASSUME rx[r].id = id PROVE FALSE
        OBVIOUS
      <4>1. SameDialogue(id, rx[r].trans, view) /\ SameDialogue(id, rx[q].trans, view)
        BY <2>3, <2>4 DEF Belongs, AllFit, RxFits
      <4>2. rx[r].trans = rx[q].trans
        BY <2>4, <4>1, LiveIsMine DEF Belongs, AllFit
      <4>3. RxOf[rx[r].trans] = r /\ RxOf[rx[q].trans] = q
        BY <2>2, <3>1, ThreadStates DEF RxAt
      <4>4. QED
        BY <1>3, <4>2, <4>3
    <3>3. QED
      BY <1>2, <2>4, <3>1, <3>2, FreeSparesOthers
  <2>9. ASSUME NEW t \in Trans, RxQuery(r, t) PROVE Live(id)'
    <3>1. mInDlgRecordPool' = [mInDlgRecordPool EXCEPT ![IdToTake] = Fresh(t)]
      BY <2>9 DEF RxQuery, Allocate
    <3>2. mInDlgRecordPool'[id] \in {mInDlgRecordPool[id], Fresh(t)}
      BY <1>2, <2>4, <3>1 DEF TypeOK
    <3>3. QED
      BY <2>4, <3>2, FreshInContent, PoolAssumption DEF Live
  <2>10. QED
    BY <2>6, <2>7, <2>8, <2>9
       DEF RxWork, RxTake, RxLook, RxUnblock, RxDelete, RxDeliver, RxQueryDropped, RxGet, poolVars
<1>4. CASE q = r
  <2>1. PICK t \in Trans : RxQuery(r, t)
    BY <1>4, RxStepsPast DEF RxTake
  <2>2. PICK id : id = IdToTake
    OBVIOUS
  <2>3. id \in DlgIds
    BY <1>2, <2>1, <2>2, AllocatedIdIsFree DEF RxQuery
  <2>4. rx'[r].id = id
    BY <2>1, <2>2, ThreadStates DEF RxQuery
  <2>5. \A w \in Tx : tx[w].id # id
    BY <2>1, <2>2 DEF IdsRest, Referred
  <2>6. mInDlgRecordPool' = [mInDlgRecordPool EXCEPT ![id] = Fresh(t)]
    BY <2>1, <2>2 DEF RxQuery, Allocate
  <2>7. mInDlgRecordPool'[id] = Fresh(t)
    BY <1>2, <2>3, <2>6 DEF TypeOK
  <2>8. Live(id)'
    BY <2>7, FreshInContent, PoolAssumption DEF Live
  <2>9. QED
    BY <1>1, <1>4, <2>4, <2>5, <2>8 DEF Untouched, Drops
<1>5. QED
  BY <1>3, <1>4

LEMMA AnsweredKept ==
  ASSUME QueryAnswer, HTypes, Belongs, Answered, [HandlerNext /\ IdsRest]_vars
  PROVE  Answered'
<1>1. CASE UNCHANGED vars
  BY <1>1 DEF vars, poolVars, Answered, MapsItsOwn, Untouched, QueuePlain, TxPlain, RxAt, Live
<1>2. CASE HandlerNext /\ IdsRest
  <2>1. QueuePlain'
    BY <1>2, QueuePlainKept DEF Answered
  <2>2. ASSUME NEW w \in Tx, TxNext(w) PROVE TxPlain' /\ MapsItsOwn'
    <3>1. TxPlain' /\ \A v \in Tx : v # w => tx'[v] = tx[v]
      BY <2>2, TxPlainStep DEF Answered
    <3>2. rx' = rx
      BY <2>2 DEF TxNext, TxTake, TxFound, TxOpen, TxNotFound, TxFreeOnly, TxPreEnd,
         TxBlockDelete, TxTell, TxBuild, TxBuildFails, TxMap, TxBlock, TxSend, TxSendFails,
         TxFree, TxDelete, libVars
    <3>3. ASSUME NEW r \in Rx, RxAt(r, "map") PROVE Untouched(rx[r].id)'
      BY <2>2, <3>1, <3>3, TxStepUntouched DEF Answered, MapsItsOwn
    <3>4. QED
      BY <3>1, <3>2, <3>3 DEF MapsItsOwn, RxAt
  <2>3. ASSUME NEW r \in Rx, RxWork(r) \/ RxTake(r) PROVE TxPlain' /\ MapsItsOwn'
    <3>1. tx' = tx
      BY <2>3 DEF RxWork, RxTake, RxLook, RxMap, RxUnblock, RxFree, RxDelete, RxDeliver, RxQuery,
         RxQueryDropped, RxGet
    <3>2. QED
      BY <1>2, <2>3, <3>1, RxStepUntouched DEF Answered, TxPlain
  <2>4. CASE AppNext \/ CleanerNext \/ NetNext
    <3>1. ~CleanerNext
      BY DEF CleanerNext, QueryAnswer
    <3>2. tx' = tx /\ rx' = rx /\ mInDlgRecordPool' = mInDlgRecordPool
      BY <2>4, <3>1 DEF AppNext, AppQuery, AppSend, NetNext, NetSend, poolVars
    <3>3. \A r \in Rx : RxAt(r, "map")' => RxAt(r, "map") /\ Untouched(rx[r].id)'
      BY <3>2 DEF Answered, MapsItsOwn, Untouched, RxAt, Live
    <3>4. MapsItsOwn'
      BY <3>3 DEF MapsItsOwn
    <3>5. TxPlain'
      BY <3>2 DEF Answered, TxPlain
    <3>6. QED
      BY <2>1, <3>4, <3>5 DEF Answered
  <2>5. QED
    BY <1>2, <2>1, <2>2, <2>3, <2>4 DEF HandlerNext, Answered
<1>3. QED
  BY <1>1, <1>2

LEMMA InitAnswered == Init => Answered
<1> SUFFICES ASSUME Init PROVE Answered
  OBVIOUS
<1>1. (\A w \in Tx : tx[w] = TxIdle) /\ (\A r \in Rx : rx[r] = RxIdle) /\ Len(rdQueue) = 0
  BY DEF Init
<1>2. QED
  BY <1>1 DEF Answered, MapsItsOwn, QueuePlain, TxPlain, PlainWork, TxIdle, RxIdle, RxAt

-----------------------------------------------------------------------------
(* With dialogues of a query and an answer, records are written in use only: *)
(* it is enough that ids rest before they serve again.                       *)
LEMMA AnsweredHolds ==
  ASSUME QueryAnswer
  PROVE  HandlerSpec /\ [][IdsRest]_vars => [](HTypes /\ Belongs /\ Answered)
<1>1. Init => HTypes /\ Belongs /\ Answered
  BY InitTypes, InitBelongs, InitAnswered
<1>2. HTypes /\ Belongs /\ Answered /\ [HandlerNext /\ IdsRest]_vars
        => (HTypes /\ Belongs /\ Answered)'
  <2> SUFFICES ASSUME HTypes, Belongs, Answered, [HandlerNext /\ IdsRest]_vars
               PROVE  (HTypes /\ Belongs /\ Answered)'
    OBVIOUS
  <2>1. WritesInUse /\ CallsServe
    BY AnsweredWrites DEF QueryAnswer, CallsServe
  <2>2. HTypes' /\ Belongs' /\ Answered'
    BY <2>1, TypesKept, BelongsKept, AnsweredKept
  <2>3. QED
    BY <2>2
<1>3. QED
  BY <1>1, <1>2, PTL DEF HandlerSpec

(* Whatever the number of transmit threads, nobody then writes the record of *)
(* a dialogue that is over: MapDlgIdtoTransId finds it in use.               *)
THEOREM AnswersAreWrittenInUse ==
  ASSUME QueryAnswer
  PROVE  HandlerSpec /\ [][IdsRest]_vars => Rested
<1>1. HTypes /\ Belongs /\ Answered /\ [IdsRest]_vars => [WritesInUse /\ IdsRest]_vars
  BY AnsweredWrites
<1>2. QED
  BY <1>1, AnsweredHolds, PTL DEF Rested

(* With one transmit thread, a message that found no record finds none when  *)
(* it comes to free it, for nobody else can have mapped one meanwhile.       *)
OneTransmitter == \A w, v \in Tx : w = v

NotBack == \A w \in Tx : TxAt(w, "freeOnly") => ~Live(tx[w].id)

LEMMA TxStepNotBack ==
  ASSUME QueryAnswer, OneTransmitter, HTypes, NotBack, NEW w \in Tx, TxNext(w)
  PROVE  NotBack'
<1> DEFINE x == tx[w]
<1>1. CASE TxNotFound(w)
  <2>1. x.at # "idle" /\ TxGoTo(w, "freeOnly") /\ ~Live(x.id)
        /\ mInDlgRecordPool' = mInDlgRecordPool
    BY <1>1 DEF TxNotFound, TxAt, poolVars
  <2>2. tx'[w].id = x.id
    BY <2>1, TxMoves
  <2>3. QED
    BY <2>1, <2>2 DEF NotBack, OneTransmitter, Live
<1>2. SUFFICES ASSUME ~TxNotFound(w) PROVE tx'[w].at # "freeOnly"
  BY <1>1 DEF NotBack, OneTransmitter, TxAt
<1>3. CASE TxDone(w)
  BY <1>3, TxEnds DEF TxIdle
<1>4. ASSUME NEW place, x.at # "idle", TxGoTo(w, place), place # "freeOnly"
      PROVE  tx'[w].at # "freeOnly"
  BY <1>4, TxMoves
<1>5. ASSUME NEW t, NEW place, x.at # "idle", place # "freeOnly",
             tx' = [tx EXCEPT ![w].trans = t, ![w].at = place]
      PROVE  tx'[w].at # "freeOnly"
  <2>1. tx'[w] = [[x EXCEPT !.trans = t] EXCEPT !.at = place]
    BY <1>5, ThreadStates
  <2>2. x \in TxWork
    BY <1>5, TxBusy DEF HTypes
  <2>3. tx'[w].at = place
    BY <2>1, <2>2 DEF TxWork
  <2>4. QED
    BY <1>5, <2>3
<1>6. CASE TxTake(w)
  <2>1. tx'[w].at = "look"
    BY <1>6, ThreadStates DEF TxTake
  <2>2. QED
    BY <2>1
<1>7. CASE TxFound(w) \/ TxOpen(w)
  <2>1. x.at # "idle" /\ \/ TxDone(w)
                         \/ \E t, place : /\ place # "freeOnly"
                                          /\ tx' = [tx EXCEPT ![w].trans = t, ![w].at = place]
    <3>1. CASE TxFound(w)
      BY <3>1 DEF TxFound, TxAt
    <3>2. CASE TxOpen(w)
      <4>1. PICK t \in Trans : tx' = [tx EXCEPT ![w].trans = t, ![w].at = "build"]
        BY <3>2 DEF TxOpen
      <4>2. x.at # "idle" /\ "build" # "freeOnly"
        BY <3>2 DEF TxOpen, TxAt
      <4>3. QED
        BY <4>1, <4>2
    <3>3. QED
      BY <1>7, <3>1, <3>2
  <2>2. QED
    BY <1>3, <1>5, <2>1
<1>8. CASE TxFreeOnly(w) \/ TxTell(w) \/ TxDelete(w) \/ TxSendFails(w)
  BY <1>3, <1>4, <1>8 DEF TxFreeOnly, TxTell, TxDelete, TxSendFails, TxAt
<1>9. CASE TxPreEnd(w) \/ TxBlockDelete(w) \/ TxBuildFails(w)
  BY <1>3, <1>4, <1>9 DEF TxPreEnd, TxBlockDelete, TxBuildFails, TxLeaveTo, AfterDelete, TxAt
<1>10. CASE TxBuild(w) \/ TxMap(w) \/ TxBlock(w) \/ TxSend(w) \/ TxFree(w)
  BY <1>3, <1>4, <1>10 DEF TxBuild, TxMap, TxBlock, TxSend, TxFree, TxAt
<1>11. QED
  BY <1>2, <1>6, <1>7, <1>8, <1>9, <1>10 DEF TxNext

LEMMA RxStepNotBack ==
  ASSUME QueryAnswer, HTypes, Answered, IdsRest, NotBack, NEW r \in Rx, RxWork(r) \/ RxTake(r)
  PROVE  NotBack'
<1>1. tx' = tx
  BY DEF RxWork, RxTake, RxLook, RxMap, RxUnblock, RxFree, RxDelete, RxDeliver, RxQuery,
         RxQueryDropped, RxGet
<1> SUFFICES ASSUME NEW w \in Tx, TxAt(w, "freeOnly") PROVE ~Live(tx[w].id)'
  BY <1>1 DEF NotBack, TxAt
<1>2. PICK id : id = tx[w].id
  OBVIOUS
<1>3. id \in DlgIds /\ ~Live(id) /\ TypeOK
  BY <1>2, TxBusy DEF NotBack, TxAt, HTypes, IInv
<1>4. SUFFICES ~Live(id)'
  BY <1>1, <1>2
<1>5. CASE mInDlgRecordPool' = mInDlgRecordPool
  BY <1>3, <1>5 DEF Live
<1>6. ASSUME NEW other, NEW rec, mInDlgRecordPool' = [mInDlgRecordPool EXCEPT ![other] = rec],
             other # id \/ rec = NoRecord
      PROVE  ~Live(id)'
  BY <1>3, <1>6 DEF Live, TypeOK
<1>7. CASE RxMap(r)
  <2>1. Map(rx[r].id, rx[r].trans) /\ rx[r].id # id
    BY <1>3, <1>7 DEF RxMap, Answered, MapsItsOwn, Untouched
  <2>2. QED
    BY <1>5, <1>6, <2>1 DEF Map, Update, poolVars
<1>8. CASE RxFree(r)
  BY <1>5, <1>6, <1>8 DEF RxFree, FreeOrRefuse, Free, FreeAllocated, FreeAppChosen, poolVars
<1>9. ASSUME NEW t \in Trans, RxQuery(r, t) PROVE ~Live(id)'
  <2>1. IdToTake # id
    BY <1>2, <1>9 DEF IdsRest, Referred
  <2>2. QED
    BY <1>6, <1>9, <2>1 DEF RxQuery, Allocate
<1>10. QED
  BY <1>5, <1>7, <1>8, <1>9
     DEF RxWork, RxTake, RxLook, RxUnblock, RxDelete, RxDeliver, RxQueryDropped, RxGet, poolVars

LEMMA NotBackKept ==
  ASSUME QueryAnswer, OneTransmitter, HTypes, Answered, NotBack, [HandlerNext /\ IdsRest]_vars
  PROVE  NotBack'
<1>1. CASE tx' = tx /\ mInDlgRecordPool' = mInDlgRecordPool
  BY <1>1 DEF NotBack, TxAt, Live
<1>2. CASE HandlerNext /\ IdsRest
  <2>1. ~CleanerNext
    BY DEF CleanerNext, QueryAnswer
  <2>2. CASE AppNext \/ NetNext
    BY <1>1, <2>2 DEF AppNext, AppQuery, AppSend, NetNext, NetSend, poolVars
  <2>3. QED
    BY <1>2, <2>1, <2>2, TxStepNotBack, RxStepNotBack DEF HandlerNext
<1>3. QED
  BY <1>1, <1>2 DEF vars, poolVars

LEMMA NothingGivenUp ==
  ASSUME QueryAnswer, Answered, NotBack
  PROVE  NoneGivenUp
<1>1. ASSUME NEW w \in Tx PROVE ~TxBlockDelete(w) /\ ~TxBuildFails(w)
  BY DEF Answered, TxPlain, PlainWork, TxBlockDelete, TxBuildFails, TxAt, QueryAnswer
<1>2. ASSUME NEW w \in Tx, TxFreeOnly(w) PROVE ~CanFree(tx[w].id)
  BY <1>2 DEF TxFreeOnly, NotBack, CanFree
<1>3. QED
  BY <1>1, <1>2 DEF NoneGivenUp

(* Dialogues of a query and an answer, one transmit thread, and ids that     *)
(* rest: records are written in use and no transaction is given up, however  *)
(* the receive threads, the application and the time-outs interleave.        *)
THEOREM AnswersAreUndisturbed ==
  ASSUME QueryAnswer, OneTransmitter
  PROVE  HandlerSpec /\ [][IdsRest]_vars => Undisturbed
<1>1. Init => NotBack
  BY DEF Init, NotBack, TxAt, TxIdle
<1>2. HTypes /\ Answered /\ NotBack /\ [HandlerNext /\ IdsRest]_vars => NotBack'
  BY NotBackKept
<1>3. HTypes /\ Belongs /\ Answered /\ NotBack /\ [IdsRest]_vars
        => [WritesInUse /\ IdsRest /\ NoneGivenUp]_vars
  BY AnsweredWrites, NothingGivenUp
<1>4. QED
  BY <1>1, <1>2, <1>3, AnsweredHolds, PTL DEF HandlerSpec, Undisturbed

(* In such a handler no transaction of the stack leaks.                      *)
THEOREM AnswersLeakNothing ==
  ASSUME QueryAnswer, OneTransmitter
  PROVE  HandlerSpec /\ [][IdsRest]_vars => []NoOrphanTrans
<1>1. CallsServe
  BY DEF QueryAnswer, CallsServe
<1>2. QED
  BY <1>1, AnswersAreUndisturbed, NoTransIsOrphaned, PTL
=============================================================================
