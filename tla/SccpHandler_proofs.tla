------------------------- MODULE SccpHandler_proofs -------------------------
(***************************************************************************)
(* For any number of pairs of threads and whatever goes wrong: the SSAP is *)
(* marked while it is replaced, and a link that was in service when last   *)
(* sampled is not torn down.  The mark alone is not inductive: that        *)
(* SsapReConnect has an SSAP when it sets the state back to in service,    *)
(* and that a pair's receive thread is the one to be started next, must be *)
(* known as well.                                                          *)
(*                                                                         *)
(* And for every message the application may give: what is decoded of its  *)
(* unit data is what arrives of it, unless it is a result that looks long  *)
(* or an abort with a long dialogue portion.  Nothing is known there of    *)
(* parameters but that they are bytes.  Along the parts: what follows a    *)
(* part is found behind it, a length read gives the part it was written    *)
(* for, four bytes hold a number; then the body of each kind of component, *)
(* the component around it, the transaction ids, the dialogue portion, the *)
(* reason of an abort, and the unit data of all of them.                   *)
(***************************************************************************)
EXTENDS SccpHandler, SequenceTheorems, TLAPS

(* The threads are started by pairs: once the receive thread that is due has *)
(* been started, each pair is complete or not there.                         *)
Started == IF main = "startRx" THEN StartNext(rx, "idle") ELSE rx
PairsComplete == \A p \in Pair : Started[p] = "off" <=> tx[p] = "off"

(* What the main thread has found, at the place it has come to.              *)
Judged ==
  /\ main = "delete" => seen # "ok"
  /\ main = "connect" => ssap = "up"

IInv == TypeOK /\ MarkedWhileReplaced /\ PairsComplete /\ Judged

-----------------------------------------------------------------------------
RxPlaces == {"off", "idle", "get", "getDeleted", "decoded"}
TxPlaces == {"off", "read", "held", "send"}

LEMMA StartNextType ==
  ASSUME NEW Places, "off" \in Places, NEW at \in Places, NEW threads \in [Pair -> Places]
  PROVE  StartNext(threads, at) \in [Pair -> Places]
BY DEF StartNext

(* Starting the next thread depends on which threads there are, and not on   *)
(* where they are.                                                           *)
LEMMA StartNextAlike ==
  ASSUME NEW here, NEW there, NEW a, NEW b, a # "off", b # "off",
         \A p \in Pair : here[p] = "off" <=> there[p] = "off"
  PROVE  \A p \in Pair : StartNext(here, a)[p] = "off" <=> StartNext(there, b)[p] = "off"
BY DEF StartNext

(* A thread that goes from one place to another leaves the pairs as they are.*)
LEMMA PairsStay ==
  ASSUME PairsComplete, main' = main,
         \A p \in Pair : rx'[p] = "off" <=> rx[p] = "off",
         \A p \in Pair : tx'[p] = "off" <=> tx[p] = "off"
  PROVE  PairsComplete'
BY StartNextAlike DEF PairsComplete, Started

(* The main thread, when it starts no thread.                                *)
LEMMA PairsStayInLoop ==
  ASSUME PairsComplete, main # "startRx", main' # "startRx",
         \A p \in Pair : rx'[p] = "off" <=> rx[p] = "off",
         UNCHANGED tx
  PROVE  PairsComplete'
BY DEF PairsComplete, Started

-----------------------------------------------------------------------------
LEMMA InitIInv ==
  ASSUME Init PROVE IInv
BY SccpAssumption DEF Init, IInv, TypeOK, MarkedWhileReplaced, PairsComplete, Started, Judged, Pair, NoPair

LEMMA StartStep ==
  ASSUME IInv, StartTx \/ StartRx
  PROVE  IInv'
<1> USE DEF IInv
<1>1. CASE StartTx
  <2>1. PairsComplete'
    <3>1. main' = "startRx" /\ main # "startRx" /\ tx' = StartNext(tx, "read") /\ rx' = rx
      BY <1>1 DEF StartTx
    <3>2. \A p \in Pair : rx[p] = "off" <=> tx[p] = "off"
      BY <3>1 DEF PairsComplete, Started
    <3>3. \A p \in Pair : StartNext(rx, "idle")[p] = "off" <=> StartNext(tx, "read")[p] = "off"
      BY <3>2, StartNextAlike
    <3>4. QED
      BY <3>1, <3>3 DEF PairsComplete, Started
  <2>2. tx' \in [Pair -> TxPlaces]
    BY <1>1, StartNextType DEF StartTx, TypeOK, TxPlaces
  <2>3. \A p \in Pair : tx[p] # "off" => tx'[p] # "off"
    BY <1>1 DEF StartTx, StartNext
  <2>4. TypeOK'
    BY <1>1, <2>2, <2>3 DEF StartTx, TypeOK, TxPlaces, stackVars
  <2>5. QED
    BY <1>1, <2>1, <2>4 DEF StartTx, MarkedWhileReplaced, Judged, stackVars
<1>2. CASE StartRx
  <2>1. PairsComplete'
    BY <1>2 DEF StartRx, PairsComplete, Started
  <2>2. rx' \in [Pair -> RxPlaces]
    BY <1>2, StartNextType DEF StartRx, TypeOK, RxPlaces
  <2>3. \A p \in Pair : rx'[p] # "off" => tx'[p] # "off"
    BY <1>2, <2>1 DEF StartRx, PairsComplete, Started
  <2>4. TypeOK'
    BY <1>2, <2>2, <2>3 DEF StartRx, TypeOK, RxPlaces, stackVars
  <2>5. QED
    BY <1>2, <2>1, <2>4 DEF StartRx, MarkedWhileReplaced, Judged, stackVars
<1>3. QED
  BY <1>1, <1>2

LEMMA MainLoopStep ==
  ASSUME IInv, LookStep \/ ReConnectStep
  PROVE  IInv'
<1> USE DEF IInv, stackVars
<1>1. /\ main # "startRx" /\ UNCHANGED tx
      /\ main' # "startRx"
      /\ rx' \in [Pair -> RxPlaces]
      /\ \A p \in Pair : rx'[p] = "off" <=> rx[p] = "off"
  BY DEF LookStep, UpdateSsapStatus, LookHealthy, LookUnhealthy, ReConnectStep,
         ReConnectDelete, ReConnectCreateFails, ReConnectCreate, ReConnectFails, ReConnected,
         TypeOK, RxPlaces
<1>2. PairsComplete'
  BY <1>1, PairsStayInLoop
<1>3. TypeOK'
  BY <1>1, ZenonT(60) DEF LookStep, UpdateSsapStatus, LookHealthy, LookUnhealthy, ReConnectStep,
         ReConnectDelete, ReConnectCreateFails, ReConnectCreate, ReConnectFails, ReConnected,
         TypeOK, RxPlaces
<1>4. MarkedWhileReplaced' /\ Judged'
  BY DEF LookStep, UpdateSsapStatus, LookHealthy, LookUnhealthy, ReConnectStep,
         ReConnectDelete, ReConnectCreateFails, ReConnectCreate, ReConnectFails, ReConnected,
         MarkedWhileReplaced, Judged, Healthy, TypeOK
<1>5. QED
  BY <1>2, <1>3, <1>4

LEMMA RxStepKeepsIInv ==
  ASSUME IInv, NEW p \in Pair, RxStep(p)
  PROVE  IInv'
<1> USE DEF IInv, stackVars
<1>1. /\ UNCHANGED << ssap, link, state, seen, main, tx >>
      /\ \E place \in {"idle", "get", "decoded"} : rx' = [rx EXCEPT ![p] = place]
      /\ rx[p] # "off"
  BY DEF RxStep, RxCalls, RxOther, RxConState, RxUnitData, RxForwards, RxReturnsFromDeleted, Returns
<1>2. PairsComplete'
  <2>1. \A q \in Pair : rx'[q] = "off" <=> rx[q] = "off"
    BY <1>1 DEF TypeOK
  <2>2. QED
    BY <1>1, <2>1, PairsStay
<1>3. /\ silent' \in BOOLEAN
      /\ mConnection' \in {"none", "live", "stale"}
      /\ mSccpInfo' \in Pair \cup {NoPair}
  BY DEF RxStep, RxCalls, RxOther, RxConState, RxUnitData, RxForwards, RxReturnsFromDeleted,
         Returns, TypeOK
<1>4. TypeOK'
  BY <1>1, <1>3 DEF TypeOK
<1>5. QED
  BY <1>1, <1>2, <1>4 DEF MarkedWhileReplaced, Judged

LEMMA TxStepKeepsIInv ==
  ASSUME IInv, NEW p \in Pair, TxStep(p)
  PROVE  IInv'
<1> USE DEF IInv, stackVars
<1>1. /\ UNCHANGED << ssap, link, mConnection, silent, seen, mSccpInfo, main, rx >>
      /\ state' \in {state, "EXITING"}
      /\ \E place \in {"read", "held", "send"} : tx' = [tx EXCEPT ![p] = place]
      /\ tx[p] # "off"
  BY DEF TxStep, TxTakes, TxWaits, TxGoesOn, TxSends, TypeOK
<1>2. \A q \in Pair : tx'[q] = "off" <=> tx[q] = "off"
  BY <1>1 DEF TypeOK
<1>3. PairsComplete'
  BY <1>1, <1>2, PairsStay
<1>4. TypeOK'
  BY <1>1, <1>2 DEF TypeOK
<1>5. QED
  BY <1>1, <1>3, <1>4 DEF MarkedWhileReplaced, Judged

(* What happens to the process from outside, and its end.                    *)
LEMMA OtherStep ==
  ASSUME IInv, LinkChanges \/ ThirtySeconds \/ Crash
  PROVE  IInv'
<1> USE DEF IInv, stackVars
<1>1. CASE LinkChanges \/ ThirtySeconds
  <2>1. UNCHANGED << main, rx, tx >>
    BY <1>1 DEF LinkChanges, ThirtySeconds
  <2>2. PairsComplete'
    BY <2>1, PairsStay
  <2>3. QED
    BY <1>1, <2>2, ZenonT(60) DEF LinkChanges, ThirtySeconds, TypeOK, MarkedWhileReplaced, Judged
<1>2. CASE Crash
  BY <1>2 DEF Crash, TypeOK, MarkedWhileReplaced, PairsComplete, Started, Judged
<1>3. QED
  BY <1>1, <1>2

LEMMA StepKeepsIInv ==
  ASSUME IInv, [Next]_vars
  PROVE  IInv'
<1>1. CASE UNCHANGED vars
  BY <1>1 DEF vars, stackVars, IInv, TypeOK, MarkedWhileReplaced, PairsComplete, Started, Judged
<1>2. CASE MainStep
  BY <1>2, StartStep, MainLoopStep DEF MainStep
<1>3. ASSUME NEW p \in Pair, RxStep(p) \/ TxStep(p) PROVE IInv'
  BY <1>3, RxStepKeepsIInv, TxStepKeepsIInv
<1>4. CASE LinkChanges \/ ThirtySeconds \/ Crash
  BY <1>4, OtherStep
<1>5. QED
  BY <1>1, <1>2, <1>3, <1>4 DEF Next

LEMMA Invariance == Spec => []IInv
<1>1. Init => IInv
  BY InitIInv
<1>2. IInv /\ [Next]_vars => IInv'
  BY StepKeepsIInv
<1>3. QED
  BY <1>1, <1>2, PTL DEF Spec

-----------------------------------------------------------------------------
(* Everything is where it can be, and a pair's receive thread never runs     *)
(* before its transmit thread.                                               *)
THEOREM TypeCorrect == Spec => []TypeOK
<1>1. IInv => TypeOK
  BY DEF IInv
<1>2. QED
  BY <1>1, Invariance, PTL

(* An SSAP that is replaced, missing or not connected is marked, so that no  *)
(* receive thread begins to read from it, whatever fails on the way.         *)
THEOREM MarkHolds == Spec => []MarkedWhileReplaced
<1>1. IInv => MarkedWhileReplaced
  BY DEF IInv
<1>2. QED
  BY <1>1, Invariance, PTL

(* A link that was in service and not blocked when it was last sampled is    *)
(* never torn down, although the transmit threads judge and mark as well.    *)
THEOREM QuietLinkIsKept == Spec => QuietLinkStays
<1>1. IInv /\ [Next]_vars => [ssap = "up" /\ ssap' = "none" => seen # "ok"]_vars
  <2>1. SUFFICES ASSUME IInv, Next, ssap = "up", ssap' = "none" PROVE seen # "ok"
    BY DEF vars
  <2>2. ReConnectDelete
    BY <2>1 DEF Next, MainStep, LookStep, ReConnectStep, StartTx, StartRx, UpdateSsapStatus,
       LookHealthy, LookUnhealthy, ReConnectCreateFails, ReConnectCreate, ReConnectFails,
       ReConnected, RxStep, RxCalls, RxOther, RxConState, RxUnitData, RxForwards,
       RxReturnsFromDeleted, Returns, TxStep, TxTakes, TxWaits, TxGoesOn, TxSends,
       LinkChanges, ThirtySeconds, Crash, stackVars
  <2>3. QED
    BY <2>1, <2>2 DEF ReConnectDelete, IInv, Judged
<1>2. QED
  BY <1>1, Invariance, PTL DEF Spec, QuietLinkStays

-----------------------------------------------------------------------------
(* The codec.  Bytes are numbers here.                                       *)
Ints == Seq(Int)

LEMMA Joined ==
  ASSUME NEW p \in Ints, NEW s \in Ints
  PROVE  /\ p \o s \in Ints
         /\ Len(p \o s) = Len(p) + Len(s)
         /\ \A i \in 1 .. Len(p) : (p \o s)[i] = p[i]
         /\ Len(p) \in Nat /\ Len(s) \in Nat
BY ConcatProperties, LenProperties DEF Ints

LEMMA Regrouped ==
  ASSUME NEW p \in Ints, NEW s \in Ints, NEW r \in Ints
  PROVE  (p \o s) \o r = p \o (s \o r)
<1>1. p \in Seq(Int) /\ s \in Seq(Int) /\ r \in Seq(Int)
  BY Zenon DEF Ints
<1>2. \A x, y, z \in Seq(Int) : (x \o y) \o z = x \o (y \o z)
  BY ONLY ConcatAssociative, SMTT(60)
<1>3. QED
  BY <1>1, <1>2, Zenon

(* What follows a part p.                                                    *)
LEMMA Behind ==
  ASSUME NEW p \in Ints, NEW s \in Ints
  PROVE  From(p \o s, Len(p) + 1) = s
<1> DEFINE q == p \o s
<1>1. q \in Ints /\ Len(q) = Len(p) + Len(s) /\ Len(p) \in Nat /\ Len(s) \in Nat
  BY Joined
<1>2. \A i \in 1 .. Len(s) : q[Len(p) + i] = s[i]
  BY ConcatProperties, <1>1 DEF Ints
<1>3. /\ From(q, Len(p) + 1) \in Ints
      /\ Len(From(q, Len(p) + 1)) = Len(s)
      /\ \A i \in 1 .. Len(s) : From(q, Len(p) + 1)[i] = q[Len(p) + i]
  <2>1. \A i \in Len(p) + 1 .. Len(q) : q[i] \in Int
    BY <1>1, ElementOfSeq DEF Ints
  <2>2. Len(p) + 1 \in Int /\ Len(q) \in Int
    BY <1>1
  <2>3. QED
    BY <1>1, <2>1, <2>2, SubSeqProperties DEF Ints, From
<1>4. QED
  BY <1>1, <1>2, <1>3, SeqEqual DEF Ints

(* A part s after a part p, whatever r follows.                              *)
LEMMA Between ==
  ASSUME NEW p \in Ints, NEW s \in Ints, NEW r \in Ints
  PROVE  SubSeq(p \o (s \o r), Len(p) + 1, Len(p) + Len(s)) = s
<1> DEFINE q == p \o (s \o r)
           t == SubSeq(q, Len(p) + 1, Len(p) + Len(s))
<1>1. /\ s \o r \in Ints /\ Len(s \o r) = Len(s) + Len(r)
      /\ Len(p) \in Nat /\ Len(s) \in Nat /\ Len(r) \in Nat
  BY Joined
<1>2. q \in Ints /\ Len(q) = Len(p) + Len(s) + Len(r)
  BY <1>1, Joined
<1>3. \A i \in 1 .. Len(s) : q[Len(p) + i] = s[i]
  <2> SUFFICES ASSUME NEW i \in 1 .. Len(s) PROVE q[Len(p) + i] = s[i]
    OBVIOUS
  <2>1. (s \o r)[i] = s[i]
    BY Joined
  <2>2. q[Len(p) + i] = (s \o r)[i]
    BY <1>1, ConcatProperties DEF Ints
  <2>3. QED
    BY <2>1, <2>2
<1>4. t \in Ints /\ Len(t) = Len(s) /\ \A i \in 1 .. Len(s) : t[i] = q[Len(p) + i]
  <2>1. \A i \in Len(p) + 1 .. Len(p) + Len(s) : q[i] \in Int
    BY <1>1, <1>2, ElementOfSeq DEF Ints
  <2>2. Len(p) + 1 \in Int /\ Len(p) + Len(s) \in Int
    BY <1>1
  <2>3. t \in Seq(Int) /\ Len(t) = IF Len(p) + 1 <= Len(p) + Len(s)
                                 THEN Len(p) + Len(s) - (Len(p) + 1) + 1 ELSE 0
    BY <2>1, <2>2, SubSeqProperties DEF Ints
  <2>4. Len(t) = Len(s)
    BY <1>1, <2>3
  <2>5. \A i \in 1 .. Len(p) + Len(s) - (Len(p) + 1) + 1 : t[i] = q[(Len(p) + 1) + i - 1]
    BY <1>2, <2>1, <2>2, SubSeqProperties DEF Ints
  <2>6. \A i \in 1 .. Len(s) : i \in 1 .. Len(p) + Len(s) - (Len(p) + 1) + 1
                               /\ (Len(p) + 1) + i - 1 = Len(p) + i
    BY <1>1
  <2>7. QED
    BY <2>3, <2>4, <2>5, <2>6 DEF Ints
<1>5. QED
  BY <1>1, <1>3, <1>4, SeqEqual DEF Ints

(* One, two and three bytes ahead of a sequence, and what follows them.      *)
LEMMA OneAhead ==
  ASSUME NEW a \in Int, NEW s \in Ints
  PROVE  /\ << a >> \o s \in Ints /\ Len(<< a >> \o s) = Len(s) + 1
         /\ << a >> \o s # << >>
         /\ (<< a >> \o s)[1] = a
<1>1. << a >> \in Ints /\ Len(<< a >>) = 1 /\ << a >>[1] = a
  BY DEF Ints
<1>2. QED
  BY <1>1, Joined, EmptySeq DEF Ints

LEMMA AfterOne ==
  ASSUME NEW a \in Int, NEW s \in Ints
  PROVE  Tail(<< a >> \o s) = s /\ From(<< a >> \o s, 2) = s
<1>1. << a >> \in Ints /\ Len(<< a >>) + 1 = 2
  BY DEF Ints
<1>2. From(<< a >> \o s, Len(<< a >>) + 1) = s
  BY <1>1, Behind
<1>3. From(<< a >> \o s, 2) = s
  BY <1>1, <1>2
<1>4. << a >> \o s \in Seq(Int) /\ << a >> \o s # << >>
  BY OneAhead DEF Ints
<1>5. QED
  BY <1>3, <1>4, TailIsSubSeq DEF From

LEMMA TwoAhead ==
  ASSUME NEW a \in Int, NEW b \in Int, NEW s \in Ints
  PROVE  /\ << a, b >> \o s \in Ints /\ Len(<< a, b >> \o s) = Len(s) + 2
         /\ << a, b >> \o s # << >>
         /\ (<< a, b >> \o s)[1] = a /\ (<< a, b >> \o s)[2] = b
<1>1. << a, b >> \in Ints /\ Len(<< a, b >>) = 2 /\ << a, b >>[1] = a /\ << a, b >>[2] = b
  BY DEF Ints
<1>2. QED
  BY <1>1, Joined, EmptySeq DEF Ints

LEMMA AfterTwo ==
  ASSUME NEW a \in Int, NEW b \in Int, NEW s \in Ints
  PROVE  From(<< a, b >> \o s, 3) = s
<1>1. << a, b >> \in Ints /\ Len(<< a, b >>) + 1 = 3
  BY DEF Ints
<1>2. From(<< a, b >> \o s, Len(<< a, b >>) + 1) = s
  BY <1>1, Behind
<1>3. QED
  BY <1>1, <1>2

LEMMA OneThenOne ==
  ASSUME NEW a \in Int, NEW b \in Int, NEW s \in Ints
  PROVE  /\ << a, b >> \o s = << a >> \o (<< b >> \o s)
         /\ Tail(<< a, b >> \o s) = << b >> \o s
<1>1. << a >> \in Ints /\ << b >> \in Ints /\ Len(<< a >>) = 1 /\ Len(<< b >>) = 1
  BY DEF Ints
<1>2. << a >> \o << b >> = << a, b >>
  <2>1. /\ << a >> \o << b >> \in Seq(Int) /\ Len(<< a >> \o << b >>) = 2
        /\ (<< a >> \o << b >>)[1] = a /\ (<< a >> \o << b >>)[2] = b
    BY <1>1, ConcatProperties DEF Ints
  <2>2. << a, b >> \in Seq(Int) /\ Len(<< a, b >>) = 2
    OBVIOUS
  <2>3. \A i \in 1 .. 2 : (<< a >> \o << b >>)[i] = << a, b >>[i]
    BY <2>1
  <2>4. QED
    BY <2>1, <2>2, <2>3, SeqEqual
<1>3. << a, b >> \o s = << a >> \o (<< b >> \o s)
  <2>1. (<< a >> \o << b >>) \o s = << a >> \o (<< b >> \o s)
    BY <1>1, Regrouped, ZenonT(60)
  <2>2. QED
    BY <1>2, <2>1
<1>4. << b >> \o s \in Ints
  BY <1>1, Joined
<1>5. QED
  BY <1>3, <1>4, AfterOne, Zenon

LEMMA ThreeAhead ==
  ASSUME NEW a \in Int, NEW b \in Int, NEW c \in Int, NEW s \in Ints
  PROVE  /\ << a, b, c >> \o s \in Ints /\ Len(<< a, b, c >> \o s) = Len(s) + 3
         /\ << a, b, c >> \o s # << >>
         /\ (<< a, b, c >> \o s)[1] = a /\ (<< a, b, c >> \o s)[2] = b
         /\ (<< a, b, c >> \o s)[3] = c
<1>1. /\ << a, b, c >> \in Ints /\ Len(<< a, b, c >>) = 3
      /\ << a, b, c >>[1] = a /\ << a, b, c >>[2] = b /\ << a, b, c >>[3] = c
  BY DEF Ints
<1>2. QED
  BY <1>1, Joined, EmptySeq DEF Ints

LEMMA AfterThree ==
  ASSUME NEW a \in Int, NEW b \in Int, NEW c \in Int, NEW s \in Ints
  PROVE  From(<< a, b, c >> \o s, 4) = s
<1>1. << a, b, c >> \in Ints /\ Len(<< a, b, c >>) + 1 = 4
  BY DEF Ints
<1>2. From(<< a, b, c >> \o s, Len(<< a, b, c >>) + 1) = s
  BY <1>1, Behind
<1>3. QED
  BY <1>1, <1>2

-----------------------------------------------------------------------------
LEMMA PartCases ==
  ASSUME NEW s
  PROVE  /\ s[1] = 129 => Part(s) = SubSeq(s, 3, s[2] + 2)
         /\ s[1] \notin {128, 129} => Part(s) = SubSeq(s, 2, s[1] + 1)
<1>1. ASSUME s[1] = 129, s[1] # 128 PROVE Part(s) = SubSeq(s, 3, s[2] + 2)
  BY <1>1, Zenon DEF Part
<1>2. ASSUME s[1] # 128, s[1] # 129 PROVE Part(s) = SubSeq(s, 2, s[1] + 1)
  BY <1>2, Zenon DEF Part
<1>3. QED
  BY <1>1, <1>2

(* A part after its length, whether that takes one byte or two.              *)
LEMMA LengthRead ==
  ASSUME NEW s \in Ints
  PROVE  /\ WithLength(s) \in Ints /\ WithLength(s) # << >>
         /\ PastLength(WithLength(s)) = s
         /\ AfterLength(WithLength(s)) = s
         /\ Part(WithLength(s)) = s
<1> DEFINE q == WithLength(s)
           n == Len(s)
<1>1. n \in Nat
  BY LenProperties DEF Ints
<1>2. s \o << >> = s /\ << >> \in Ints
  BY ConcatEmptySeq, EmptySeq DEF Ints
<1>3. CASE n > 127
  <2>1. q = << 129, n >> \o s
    BY <1>3 DEF WithLength
  <2>2. 129 \in Int /\ n \in Int
    BY <1>1
  <2> HIDE DEF n
  <2>3. /\ << 129, n >> \o s \in Ints /\ << 129, n >> \o s # << >>
        /\ (<< 129, n >> \o s)[1] = 129 /\ (<< 129, n >> \o s)[2] = n
    BY <2>2, TwoAhead
  <2>4. SubSeq(q, 3, n + 2) = s
    <3>1. << 129, n >> \in Ints /\ Len(<< 129, n >>) = 2
      BY <2>2 DEF Ints
    <3>2. SubSeq(<< 129, n >> \o (s \o << >>), 2 + 1, 2 + n) = s
      BY <1>2, <3>1, Between DEF n
    <3>3. 2 + n = n + 2 /\ 2 + 1 = 3
      BY <1>1
    <3>4. QED
      BY <1>2, <2>1, <3>2, <3>3
  <2> HIDE DEF q
  <2>5. q[1] = 129 /\ q[2] = n /\ q \in Ints /\ q # << >>
    BY <2>1, <2>3
  <2>6. 129 # 128
    OBVIOUS
  <2>7. q[1] # 128
    BY <2>5, <2>6
  <2>8. Part(q) = s
    BY <2>4, <2>5, <2>7, PartCases, ZenonT(60)
  <2>9. PastLength(q) = s
    <3>1. From(q, 3) = s
      BY <2>1, <2>2, AfterTwo
    <3>2. QED
      BY <2>5, <3>1, Zenon DEF PastLength
  <2>10. AfterLength(q) = s
    BY <2>7, <2>9, Zenon DEF AfterLength
  <2>11. QED
    BY <2>5, <2>8, <2>9, <2>10 DEF q
<1>4. CASE n <= 127
  <2>1. q = << n >> \o s
    <3>1. ~(n > 127)
      BY <1>1, <1>4
    <3>2. QED
      BY <3>1 DEF WithLength
  <2> HIDE DEF n
  <2>2. n \in Int /\ n # 128 /\ n # 129
    BY <1>1, <1>4, SMT
  <2>3. /\ << n >> \o s \in Ints /\ << n >> \o s # << >>
        /\ (<< n >> \o s)[1] = n
    BY <2>2, OneAhead
  <2>4. SubSeq(q, 2, n + 1) = s
    <3>1. << n >> \in Ints /\ Len(<< n >>) = 1
      BY <2>2 DEF Ints
    <3>2. SubSeq(<< n >> \o (s \o << >>), 1 + 1, 1 + n) = s
      BY <1>2, <3>1, Between DEF n
    <3>3. 1 + n = n + 1 /\ 1 + 1 = 2
      BY <1>1
    <3>4. QED
      BY <1>2, <2>1, <3>2, <3>3
  <2> HIDE DEF q
  <2>5. q[1] = n /\ q \in Ints /\ q # << >>
    BY <2>1, <2>3
  <2>6. q[1] \notin {128, 129}
    BY <2>2, <2>5
  <2>7. Part(q) = s
    BY <2>4, <2>5, <2>6, PartCases, Zenon
  <2>8. PastLength(q) = s
    <3>1. From(q, 2) = s
      BY <2>1, <2>2, AfterOne
    <3>2. QED
      BY <2>5, <2>6, <3>1, Zenon DEF PastLength
  <2>9. AfterLength(q) = s
    BY <2>6, <2>8, Zenon DEF AfterLength
  <2>10. QED
    BY <2>5, <2>7, <2>8, <2>9 DEF q
<1>5. QED
  BY <1>1, <1>3, <1>4

-----------------------------------------------------------------------------
(* Numbers of up to four bytes.                                              *)
LEMMA Bytes ==
  ASSUME NEW v \in Number
  PROVE  /\ v \in Nat /\ v \div 1 = v
         /\ v \div (256 * 256) = (v \div 256) \div 256
         /\ v \div (256 * 256 * 256) = ((v \div 256) \div 256) \div 256
         /\ v \div 256 \in Nat /\ (v \div 256) \div 256 \in Nat
         /\ ((v \div 256) \div 256) \div 256 \in 0 .. 255
<1>1. v \in Nat /\ v \div (256 * 256 * 256) < 256
  BY Zenon DEF Number
<1>2. v \div (256 * 256 * 256) = ((v \div 256) \div 256) \div 256
  BY <1>1, SMT
<1>3. v \div (256 * 256) = (v \div 256) \div 256
  BY <1>1, SMT
<1>4. v \div 1 = v /\ v \div 256 \in Nat
  BY <1>1, SMT
<1>5. (v \div 256) \div 256 \in Nat
  BY <1>4, SMT
<1>6. ((v \div 256) \div 256) \div 256 \in Nat
  BY <1>5, SMT
<1>7. QED
  BY <1>1, <1>2, <1>3, <1>4, <1>5, <1>6, SMT

LEMMA LastByte ==
  ASSUME NEW v \in Nat
  PROVE  v = (v \div 256) * 256 + (v % 256) /\ v % 256 \in 0 .. 255
BY SMT

LEMMA BytesTyped ==
  ASSUME NEW v \in Number, NEW n \in 1 .. 4
  PROVE  /\ BytesOf(v, n) \in Ints /\ Len(BytesOf(v, n)) = n
         /\ \A i \in 1 .. n : BytesOf(v, n)[i] = (v \div Unit[n - i + 1]) % 256
<1>1. \A i \in 1 .. n : (v \div Unit[n - i + 1]) % 256 \in Int
  <2> SUFFICES ASSUME NEW i \in 1 .. n PROVE (v \div Unit[n - i + 1]) % 256 \in Int
    OBVIOUS
  <2>1. Unit[n - i + 1] \in {1, 256, 256 * 256, 256 * 256 * 256}
    BY SMT DEF Unit
  <2>2. v \div Unit[n - i + 1] \in Nat
    <3>1. v \div (256 * 256 * 256) \in Nat /\ v \div (256 * 256) \in Nat
      BY Bytes, SMT
    <3>2. QED
      BY <2>1, <3>1, Bytes
  <2>3. QED
    BY <2>2, LastByte, SMT
<1>2. QED
  BY <1>1 DEF BytesOf, Ints

LEMMA BytesRead ==
  ASSUME NEW v \in Number, NEW n \in 1 .. 4,
         \/ n = 4
         \/ n = 3 /\ v \div (256 * 256 * 256) = 0
         \/ n = 2 /\ v \div (256 * 256) = 0
         \/ n = 1 /\ v \div 256 = 0
  PROVE  ValueOf(BytesOf(v, n)) = v
<1> DEFINE b == BytesOf(v, n)
           v1 == v \div 256
           v2 == v1 \div 256
           v3 == v2 \div 256
<1>1. Len(b) = n
  BY BytesTyped, ZenonT(60)
<1>2. /\ v \in Nat /\ v1 \in Nat /\ v2 \in Nat /\ v3 \in 0 .. 255
      /\ v \div 1 = v /\ v \div (256 * 256) = v2 /\ v \div (256 * 256 * 256) = v3
  BY Bytes
<1>3. /\ v = v1 * 256 + (v % 256) /\ v % 256 \in Nat
      /\ v1 = v2 * 256 + (v1 % 256) /\ v1 % 256 \in Nat
      /\ v2 = v3 * 256 + (v2 % 256) /\ v2 % 256 \in Nat
      /\ v3 % 256 = v3
  BY <1>2, LastByte, SMT
<1>4. /\ n = 4 => b[1] = v3 /\ b[2] = v2 % 256 /\ b[3] = v1 % 256 /\ b[4] = v % 256
      /\ n = 3 => b[1] = v2 % 256 /\ b[2] = v1 % 256 /\ b[3] = v % 256
      /\ n = 2 => b[1] = v1 % 256 /\ b[2] = v % 256
      /\ n = 1 => b[1] = v % 256
  <2>1. \A i \in 1 .. n : b[i] = (v \div Unit[n - i + 1]) % 256
    BY BytesTyped
  <2>2. /\ Unit[1] = 1 /\ Unit[2] = 256 /\ Unit[3] = 256 * 256
        /\ Unit[4] = 256 * 256 * 256
    BY SMT DEF Unit
  <2>3. CASE n = 4
    <3>1. b[1] = (v \div Unit[4]) % 256 /\ b[2] = (v \div Unit[3]) % 256
          /\ b[3] = (v \div Unit[2]) % 256 /\ b[4] = (v \div Unit[1]) % 256
      BY <2>1, <2>3, SMT
    <3>2. QED
      BY <3>1, <2>2, <2>3, <1>2, <1>3
  <2>4. CASE n = 3
    <3>1. b[1] = (v \div Unit[3]) % 256 /\ b[2] = (v \div Unit[2]) % 256
          /\ b[3] = (v \div Unit[1]) % 256
      BY <2>1, <2>4, SMT
    <3>2. QED
      BY <3>1, <2>2, <2>4, <1>2, <1>3
  <2>5. CASE n = 2
    <3>1. b[1] = (v \div Unit[2]) % 256 /\ b[2] = (v \div Unit[1]) % 256
      BY <2>1, <2>5, SMT
    <3>2. QED
      BY <3>1, <2>2, <2>5, <1>2, <1>3
  <2>6. CASE n = 1
    <3>1. b[1] = (v \div Unit[1]) % 256
      BY <2>1, <2>6, SMT
    <3>2. QED
      BY <3>1, <2>2, <2>6, <1>2, <1>3
  <2>7. QED
    BY <2>3, <2>4, <2>5, <2>6
<1> HIDE DEF b, v1, v2, v3
<1>5. CASE n = 4
  <2>1. ValueOf(b) = ((b[1] * 256 + b[2]) * 256 + b[3]) * 256 + b[4]
    BY <1>1, <1>2, <1>3, <1>4, <1>5, SMT DEF ValueOf, Shift
  <2>2. ValueOf(b) = v
    BY <2>1, <1>2, <1>3, <1>4, <1>5, SMT
  <2>3. QED
    BY <2>2 DEF b
<1>6. CASE n = 3 /\ v \div (256 * 256 * 256) = 0
  <2>1. ValueOf(b) = (b[1] * 256 + b[2]) * 256 + b[3]
    BY <1>1, <1>2, <1>3, <1>4, <1>6, SMT DEF ValueOf, Shift
  <2>2. v3 = 0
    BY <1>2, <1>6
  <2>3. ValueOf(b) = v
    BY <2>1, <2>2, <1>2, <1>3, <1>4, <1>6, SMT
  <2>4. QED
    BY <2>3 DEF b
<1>7. CASE n = 2 /\ v \div (256 * 256) = 0
  <2>1. ValueOf(b) = b[1] * 256 + b[2]
    BY <1>1, <1>2, <1>3, <1>4, <1>7, SMT DEF ValueOf, Shift
  <2>2. v2 = 0
    BY <1>2, <1>7
  <2>3. ValueOf(b) = v
    BY <2>1, <2>2, <1>2, <1>3, <1>4, <1>7, SMT
  <2>4. QED
    BY <2>3 DEF b
<1>8. CASE n = 1 /\ v \div 256 = 0
  <2>1. ValueOf(b) = b[1]
    BY <1>1, <1>2, <1>3, <1>4, <1>8, SMT DEF ValueOf, Shift
  <2>2. v1 = 0
    BY <1>8 DEF v1
  <2>3. ValueOf(b) = v
    BY <2>1, <2>2, <1>2, <1>3, <1>4, <1>8, SMT
  <2>4. QED
    BY <2>3 DEF b
<1>9. QED
  BY <1>5, <1>6, <1>7, <1>8

-----------------------------------------------------------------------------
(* The tags are bytes, and those that may stand in one place differ.         *)
LEMMA Tags ==
  /\ CompPortion \in Int /\ DlgPortion \in Int /\ TransId \in Int
  /\ InvokeId \in Int /\ LinkedId \in Int /\ ParamSequence \in Int
  /\ NationalOp \in Int /\ PrivateOp \in Int /\ NationalErr \in Int /\ PrivateErr \in Int
  /\ NationalOp # PrivateOp /\ CompPortion # DlgPortion
  /\ NationalOp \notin 1 .. 4 /\ PrivateOp \notin 1 .. 4
  /\ LinkedId \notin {NationalOp, PrivateOp, ParamSequence, NationalErr}
  /\ UAbort = DlgPortion /\ PAbort # UAbort
  /\ CompPortion \notin {UAbort, PAbort} /\ 0 \notin {UAbort, PAbort}
BY SMT DEF CompPortion, DlgPortion, TransId, InvokeId, LinkedId, ParamSequence,
       NationalOp, PrivateOp, NationalErr, PrivateErr, UAbort, PAbort

LEMMA Typed ==
  /\ Octet \subseteq Int /\ Octets \subseteq Ints /\ << >> \in Ints
  /\ \A s \in Octets : Len(s) \in Nat /\ (s # << >> => s[1] \in Octet)
<1>1. Octet \subseteq Int
  BY SMT DEF Octet
<1>2. ASSUME NEW s \in Octets
      PROVE  s \in Ints /\ Len(s) \in Nat /\ (s # << >> => s[1] \in Octet)
  <2>1. Len(s) \in Nat /\ \A i \in 1 .. Len(s) : s[i] \in Octet
    BY LenProperties, ElementOfSeq DEF Octets
  <2>2. s # << >> => 1 \in 1 .. Len(s)
    BY <2>1, EmptySeq, SMT DEF Octets
  <2>3. s \in Seq(Int)
    BY <1>1, SeqMonotonic DEF Octets
  <2>4. QED
    BY <2>1, <2>2, <2>3 DEF Ints
<1>3. QED
  BY <1>1, <1>2, EmptySeq DEF Ints

LEMMA ShortestEnough ==
  ASSUME NEW v \in Number
  PROVE  /\ Shortest(v) \in 1 .. 4
         /\ ValueOf(BytesOf(v, Shortest(v))) = v
<1> DEFINE n == Shortest(v)
<1>1. v \in Nat
  BY Bytes
<1>2. n \in 1 .. 4
  BY SMT DEF Shortest
<1>3. \/ n = 4
      \/ n = 3 /\ v \div (256 * 256 * 256) = 0
      \/ n = 2 /\ v \div (256 * 256) = 0
      \/ n = 1 /\ v \div 256 = 0
  BY <1>1, SMT DEF Shortest
<1>4. QED
  BY <1>2, <1>3, BytesRead

LEMMA OpTyped ==
  ASSUME NEW c, c.op \in Number
  PROVE  EncodeOp(c) \in Ints
<1>1. Shortest(c.op) \in 1 .. 4
  BY ShortestEnough
<1>2. BytesOf(c.op, Shortest(c.op)) \in Ints
  BY <1>1, BytesTyped
<1>3. << IF c.isPrivate THEN PrivateOp ELSE NationalOp, Shortest(c.op) >> \in Ints
  BY <1>1, Tags DEF Ints
<1>4. QED
  BY <1>2, <1>3, Joined DEF EncodeOp

(* An operation code, and the parameters after it.                           *)
LEMMA OpRead ==
  ASSUME NEW c, c.op \in Number, c.isPrivate \in BOOLEAN, NEW d \in Ints, NEW e
  PROVE  /\ EncodeOp(c) \o d \in Ints /\ EncodeOp(c) \o d # << >>
         /\ (EncodeOp(c) \o d)[1] \in {NationalOp, PrivateOp}
         /\ HasOp(EncodeOp(c) \o d)
         /\ DecodeOp(e, EncodeOp(c) \o d)
              = [e EXCEPT !.isPrivate = c.isPrivate, !.op = c.op, !.data = d]
<1> DEFINE t == IF c.isPrivate THEN PrivateOp ELSE NationalOp
           n == Shortest(c.op)
           b == BytesOf(c.op, n)
           h == << t, n >>
           q == EncodeOp(c) \o d
<1>1. t \in Int /\ t \in {NationalOp, PrivateOp} /\ (t = PrivateOp) = c.isPrivate
  BY Tags
<1>2. n \in 1 .. 4 /\ ValueOf(b) = c.op
  BY ShortestEnough
<1>3. b \in Ints /\ Len(b) = n
  BY <1>2, BytesTyped, ZenonT(60)
<1>4. h \in Ints /\ Len(h) = 2
  BY <1>1, <1>2 DEF Ints
<1>5. q = h \o (b \o d)
  <2>1. EncodeOp(c) = h \o b
    BY DEF EncodeOp
  <2>2. (h \o b) \o d = h \o (b \o d)
    BY <1>3, <1>4, Regrouped, ZenonT(60)
  <2>3. QED
    BY <2>1, <2>2
<1>6. b \o d \in Ints
  BY <1>3, Joined
<1> HIDE DEF n, b, t
<1>7. /\ h \o (b \o d) \in Ints /\ h \o (b \o d) # << >>
      /\ (h \o (b \o d))[1] = t /\ (h \o (b \o d))[2] = n
  BY <1>1, <1>2, <1>6, TwoAhead
<1>8. SubSeq(q, 3, n + 2) = b
  <2>1. SubSeq(h \o (b \o d), Len(h) + 1, Len(h) + Len(b)) = b
    BY <1>3, <1>4, Between
  <2>2. Len(h) + 1 = 3 /\ Len(h) + Len(b) = n + 2
    BY <1>2, <1>3, <1>4
  <2>3. QED
    BY <1>5, <2>1, <2>2
<1>9. From(q, n + 3) = d
  <2>1. h \o b \in Ints /\ Len(h \o b) + 1 = n + 3
    <3>1. h \o b \in Ints /\ Len(h \o b) = Len(h) + Len(b)
      BY <1>3, <1>4, Joined
    <3>2. QED
      BY <1>2, <1>3, <1>4, <3>1
  <2>2. From((h \o b) \o d, Len(h \o b) + 1) = d
    BY <2>1, Behind
  <2>3. (h \o b) \o d = h \o (b \o d)
    BY <1>3, <1>4, Regrouped, ZenonT(60)
  <2>4. QED
    BY <1>5, <2>1, <2>2, <2>3
<1> HIDE DEF q, h
<1>10. q[1] = t /\ q[2] = n /\ q \in Ints /\ q # << >>
  BY <1>5, <1>7 DEF h
<1>11. HasOp(q) /\ q[1] \in {NationalOp, PrivateOp}
  BY <1>1, <1>10 DEF HasOp
<1>12. DecodeOp(e, q) = [e EXCEPT !.isPrivate = c.isPrivate, !.op = c.op, !.data = d]
  <2>1. DecodeOp(e, q) = [e EXCEPT !.isPrivate = (t = PrivateOp), !.op = ValueOf(b), !.data = d]
    BY <1>8, <1>9, <1>10, Zenon DEF DecodeOp
  <2>2. QED
    BY <2>1, <1>1, <1>2
<1>13. QED
  BY <1>10, <1>11, <1>12 DEF q

(* What is left of it when its first byte is lost.                           *)
LEMMA OpHead ==
  ASSUME NEW c, c.op \in Number, NEW d \in Ints
  PROVE  \E t \in Int, more \in Ints :
           /\ EncodeOp(c) \o d = << t >> \o more
           /\ more[1] \in 1 .. 4 /\ Len(more) > Len(d)
<1> DEFINE t == IF c.isPrivate THEN PrivateOp ELSE NationalOp
           n == Shortest(c.op)
           b == BytesOf(c.op, n)
           more == << n >> \o (b \o d)
<1>1. t \in Int /\ n \in 1 .. 4 /\ n \in Int
  BY Tags, ShortestEnough
<1>2. b \in Ints /\ Len(b) = n
  BY <1>1, BytesTyped
<1>3. b \o d \in Ints /\ Len(b \o d) = Len(b) + Len(d) /\ Len(d) \in Nat
  BY <1>2, Joined
<1>4. EncodeOp(c) \o d = << t, n >> \o (b \o d)
  <2>1. << t, n >> \in Ints
    BY <1>1 DEF Ints
  <2>2. EncodeOp(c) = << t, n >> \o b
    BY DEF EncodeOp
  <2>3. (<< t, n >> \o b) \o d = << t, n >> \o (b \o d)
    BY <1>2, <2>1, Regrouped, ZenonT(60)
  <2>4. QED
    BY <2>2, <2>3
<1> HIDE DEF t, n, b
<1>5. << t, n >> \o (b \o d) = << t >> \o more
  BY <1>1, <1>3, OneThenOne, Zenon
<1>6. more \in Ints /\ more[1] = n /\ Len(more) = Len(b \o d) + 1
  BY <1>1, <1>3, OneAhead
<1> HIDE DEF more
<1>7. Len(more) > Len(d)
  BY <1>1, <1>2, <1>3, <1>6
<1>8. QED
  BY <1>1, <1>4, <1>5, <1>6, <1>7

-----------------------------------------------------------------------------
(* The ids ahead of the body of a component.                                 *)
LEMMA IdRead ==
  ASSUME NEW tag \in Int, NEW id \in Int, NEW s \in Ints
  PROVE  /\ << tag, 1, id >> \o s \in Ints
         /\ IdOf(<< tag, 1, id >> \o s, tag) = id
         /\ PastId(<< tag, 1, id >> \o s, tag) = s
<1> DEFINE q == << tag, 1, id >> \o s
<1>1. q \in Ints /\ q # << >> /\ q[1] = tag /\ q[3] = id
  BY ThreeAhead
<1>2. From(q, 4) = s
  <2>1. 1 \in Int
    OBVIOUS
  <2>2. QED
    BY <2>1, AfterThree, Zenon
<1> HIDE DEF q
<1>3. IdOf(q, tag) = id /\ PastId(q, tag) = s
  BY <1>1, <1>2, Zenon DEF IdOf, PastId, HasId
<1>4. QED
  BY <1>1, <1>3 DEF q

LEMMA IdsRead ==
  ASSUME NEW id \in Int, NEW linked \in Int, NEW has \in BOOLEAN,
         NEW body \in Ints, body = << >> \/ body[1] # LinkedId
  PROVE  LET ids == << InvokeId, 1, id >>
                      \o (IF has THEN << LinkedId, 1, linked >> ELSE << >>) \o body
             rest == PastId(ids, InvokeId)
         IN /\ ids \in Ints
            /\ IdOf(ids, InvokeId) = id
            /\ IdOf(rest, LinkedId) = IF has THEN linked ELSE 0
            /\ PastId(rest, LinkedId) = body
<1> DEFINE l == IF has THEN << LinkedId, 1, linked >> ELSE << >>
           first == << InvokeId, 1, id >>
           ids == first \o l \o body
           rest == PastId(ids, InvokeId)
<1>1. first \in Ints /\ l \in Ints
  BY Tags, Typed DEF Ints
<1> HIDE DEF l, first
<1>2. ids = first \o (l \o body)
  <2>1. (first \o l) \o body = first \o (l \o body)
    BY <1>1, Regrouped, ZenonT(60)
  <2>2. QED
    BY <2>1
<1>3. l \o body \in Ints
  BY <1>1, Joined
<1>4. ids \in Ints /\ IdOf(ids, InvokeId) = id /\ rest = l \o body
  <2>1. /\ first \o (l \o body) \in Ints
        /\ IdOf(first \o (l \o body), InvokeId) = id
        /\ PastId(first \o (l \o body), InvokeId) = l \o body
    BY <1>3, Tags, IdRead, Zenon DEF first
  <2>2. QED
    BY <1>2, <2>1
<1>5. IdOf(l \o body, LinkedId) = (IF has THEN linked ELSE 0) /\ PastId(l \o body, LinkedId) = body
  <2>1. CASE has
    BY <2>1, Tags, IdRead DEF l
  <2>2. CASE ~has
    <3>1. l \o body = body
      BY <2>2, ConcatEmptySeq DEF Ints, l
    <3>2. ~HasId(body, LinkedId)
      BY DEF HasId
    <3>3. IdOf(body, LinkedId) = 0 /\ PastId(body, LinkedId) = body
      BY <3>2, Zenon DEF IdOf, PastId
    <3>4. QED
      BY <2>2, <3>1, <3>3
  <2>3. QED
    BY <2>1, <2>2
<1>6. QED
  BY <1>4, <1>5 DEF l, first

LEMMA CompTags ==
  ASSUME NEW kind \in DOMAIN CompTag
  PROVE  CompTag[kind] \in Int /\ NamedBy(CompTag, CompTag[kind]) = kind
<1>1. DOMAIN CompTag = {"INVOKE", "RESULT", "ERROR", "REJECT"}
  BY DEF CompTag
<1>2. CompTag[kind] \in Int
  BY <1>1, SMT DEF CompTag
<1>3. \A other \in DOMAIN CompTag : CompTag[other] = CompTag[kind] => other = kind
  BY <1>1, SMT DEF CompTag
<1>4. QED
  BY <1>2, <1>3, Zenon DEF NamedBy

LEMMA PkgTags ==
  ASSUME NEW pkg \in DOMAIN PkgTag
  PROVE  PkgTag[pkg] \in Int /\ NamedBy(PkgTag, PkgTag[pkg]) = pkg
<1>1. DOMAIN PkgTag = {"BEGIN", "END", "CONTINUE", "UNIDIRECTIONAL", "ABORT"}
  BY DEF PkgTag
<1>2. PkgTag[pkg] \in Int
  BY <1>1, SMT DEF PkgTag
<1>3. \A other \in DOMAIN PkgTag : PkgTag[other] = PkgTag[pkg] => other = pkg
  BY <1>1, SMT DEF PkgTag
<1>4. QED
  BY <1>2, <1>3, Zenon DEF NamedBy

(* The parts of a component around its body.                                 *)
LEMMA AroundBody ==
  ASSUME NEW c, c.kind \in DOMAIN CompTag, c.invokeId \in Octet, c.linkedId \in Octet,
         c.kind # "INVOKE" => c.linkedId = 0,
         EncodeBody(c) \in Ints, EncodeBody(c)[1] # LinkedId
  PROVE  \E s \in Ints :
           /\ EncodeComponent(c) = << CompPortion >> \o s
           /\ DecodeComponent(s) =
                DecodeBody([Comp EXCEPT !.kind = c.kind, !.invokeId = c.invokeId,
                                        !.linkedId = c.linkedId], EncodeBody(c))
<1> DEFINE has == c.kind = "INVOKE" /\ c.linkedId # 0
           ids == << InvokeId, 1, c.invokeId >>
                    \o (IF has THEN << LinkedId, 1, c.linkedId >> ELSE << >>) \o EncodeBody(c)
           tag == CompTag[c.kind]
           comp == << tag >> \o WithLength(ids)
           s == WithLength(comp)
           rest == PastId(ids, InvokeId)
<1>1. has \in BOOLEAN /\ c.invokeId \in Int /\ c.linkedId \in Int
  BY Typed
<1>2. /\ ids \in Ints /\ IdOf(ids, InvokeId) = c.invokeId
      /\ IdOf(rest, LinkedId) = (IF has THEN c.linkedId ELSE 0)
      /\ PastId(rest, LinkedId) = EncodeBody(c)
  <2> HIDE DEF has
  <2>1. QED
    BY <1>1, IdsRead
<1>3. (IF has THEN c.linkedId ELSE 0) = c.linkedId
  OBVIOUS
<1>4. EncodeComponent(c) = << CompPortion >> \o s
  BY DEF EncodeComponent
<1> HIDE DEF ids, has
<1>5. tag \in Int /\ NamedBy(CompTag, tag) = c.kind
  BY CompTags
<1>6. WithLength(ids) \in Ints /\ Part(WithLength(ids)) = ids
  BY <1>2, LengthRead
<1>7. comp \in Ints /\ comp[1] = tag
  BY <1>5, <1>6, OneAhead
<1>8. Tail(comp) = WithLength(ids)
  BY <1>5, <1>6, AfterOne, Zenon
<1>9. s \in Ints /\ AfterLength(s) = comp
  BY <1>7, LengthRead
<1> HIDE DEF comp, s, rest
<1>10. DecodeComponent(s) =
         DecodeBody([Comp EXCEPT !.kind = c.kind, !.invokeId = c.invokeId,
                                 !.linkedId = c.linkedId], EncodeBody(c))
  <2>1. Part(Tail(AfterLength(s))) = ids /\ PastId(ids, InvokeId) = rest
    BY <1>6, <1>8, <1>9 DEF rest
  <2>2. AfterLength(s)[1] = tag
    BY <1>7, <1>9
  <2>3. ~(\A kind \in DOMAIN CompTag : CompTag[kind] # AfterLength(s)[1])
    BY <2>2
  <2>4. QED
    BY <1>2, <1>3, <1>5, <2>1, <2>2, <2>3, Zenon DEF DecodeComponent
<1>11. QED
  BY <1>4, <1>9, <1>10

(* What the decoder starts from when it comes to the body.                   *)
Begun(c) == [Comp EXCEPT !.kind = c.kind, !.invokeId = c.invokeId, !.linkedId = c.linkedId]

LEMMA BegunKind ==
  ASSUME NEW c
  PROVE  Begun(c).kind = c.kind
BY DEF Begun, Comp

LEMMA InvokeRead ==
  ASSUME NEW id, NEW linked, NEW private \in BOOLEAN, NEW op \in Number, NEW data \in Octets
  PROVE  LET c == Invoke(id, linked, private, op, data)
         IN /\ EncodeBody(c) \in Ints /\ EncodeBody(c)[1] # LinkedId
            /\ DecodeBody(Begun(c), EncodeBody(c)) = c
            /\ c.kind = "INVOKE" /\ c.invokeId = id /\ c.linkedId = linked
<1> DEFINE c == Invoke(id, linked, private, op, data)
<1>1. /\ c.kind = "INVOKE" /\ c.op = op /\ c.isPrivate = private /\ c.data = data
      /\ c.invokeId = id /\ c.linkedId = linked
  BY DEF Invoke, Comp
<1>2. c = [Begun(c) EXCEPT !.isPrivate = private, !.op = op, !.data = data]
  BY <1>1 DEF Begun, Invoke, Comp
<1> HIDE DEF c
<1>3. EncodeBody(c) = EncodeOp(c) \o data
  BY <1>1, Zenon DEF EncodeBody
<1>4. data \in Ints
  BY Typed
<1>5. /\ EncodeBody(c) \in Ints /\ EncodeBody(c)[1] \in {NationalOp, PrivateOp}
      /\ HasOp(EncodeBody(c))
      /\ DecodeOp(Begun(c), EncodeBody(c)) = c
  <2>1. c.op \in Number /\ c.isPrivate \in BOOLEAN
    BY <1>1
  <2>2. /\ EncodeBody(c) \in Ints /\ EncodeBody(c)[1] \in {NationalOp, PrivateOp}
        /\ HasOp(EncodeBody(c))
    BY <1>3, <1>4, <2>1, OpRead
  <2>3. DecodeOp(Begun(c), EncodeBody(c))
          = [Begun(c) EXCEPT !.isPrivate = c.isPrivate, !.op = c.op, !.data = data]
    BY <1>3, <1>4, <2>1, OpRead, Zenon
  <2>4. QED
    BY <1>1, <1>2, <2>2, <2>3, Zenon
<1>6. DecodeBody(Begun(c), EncodeBody(c)) = DecodeOp(Begun(c), EncodeBody(c))
  <2>1. Begun(c).kind = "INVOKE"
    BY <1>1, BegunKind
  <2>2. QED
    BY <1>5, <2>1, Zenon DEF DecodeBody
<1>7. QED
  BY <1>1, <1>5, <1>6, Tags DEF c

LEMMA ErrorRead ==
  ASSUME NEW id, NEW type, NEW code \in Octets \ {<< >>}, NEW data \in Octets
  PROVE  LET c == Error(id, type, code, data)
         IN /\ EncodeBody(c) \in Ints /\ EncodeBody(c)[1] # LinkedId
            /\ DecodeBody(Begun(c), EncodeBody(c)) = ArrivingComp(c)
            /\ c.kind = "ERROR" /\ c.invokeId = id /\ c.linkedId = 0
<1> DEFINE c == Error(id, type, code, data)
           first == << NationalErr, 1, code[1] >>
           body == first \o data
<1>1. /\ c.kind = "ERROR" /\ c.code = code /\ c.data = data
      /\ c.invokeId = id /\ c.linkedId = 0
  BY DEF Error, Comp
<1>2. ArrivingComp(c) = [Begun(c) EXCEPT !.codeType = NationalErr, !.code = << code[1] >>,
                                         !.data = data]
  <2>1. c = [Begun(c) EXCEPT !.codeType = type, !.code = code, !.data = data]
    BY <1>1, ZenonT(120) DEF Begun, Error, Comp
  <2> HIDE DEF c
  <2>2. ArrivingComp(c) = [c EXCEPT !.codeType = NationalErr, !.code = << code[1] >>]
    BY <1>1, Zenon DEF ArrivingComp
  <2>3. [[Begun(c) EXCEPT !.codeType = type, !.code = code, !.data = data]
            EXCEPT !.codeType = NationalErr, !.code = << code[1] >>]
          = [Begun(c) EXCEPT !.codeType = NationalErr, !.code = << code[1] >>, !.data = data]
    BY ZenonT(120) DEF Begun, Comp
  <2>4. QED
    BY <2>1, <2>2, <2>3, Zenon
<1> HIDE DEF c
<1>3. EncodeBody(c) = body
  BY <1>1, Zenon DEF EncodeBody
<1>4. data \in Ints /\ code[1] \in Int /\ NationalErr \in Int /\ << code[1] >> \in Ints
  <2>1. code[1] \in Int
    BY Typed
  <2>2. QED
    BY <2>1, Typed, Tags DEF Ints
<1>5. body \in Ints /\ body[1] = NationalErr /\ body[2] = 1
  BY <1>4, ThreeAhead
<1>6. From(body, 4) = data
  <2>1. 1 \in Int
    OBVIOUS
  <2>2. QED
    BY <1>4, <2>1, AfterThree, ZenonT(60)
<1>7. SubSeq(body, 3, 3) = << code[1] >>
  <2>1. << NationalErr, 1 >> \in Ints /\ Len(<< NationalErr, 1 >>) = 2 /\ Len(<< code[1] >>) = 1
    BY <1>4 DEF Ints
  <2>2. SubSeq(<< NationalErr, 1 >> \o (<< code[1] >> \o data),
               Len(<< NationalErr, 1 >>) + 1, Len(<< NationalErr, 1 >>) + Len(<< code[1] >>))
          = << code[1] >>
    BY <1>4, <2>1, Between, Zenon
  <2>3. << NationalErr, 1 >> \o << code[1] >> = first
    <3>1. /\ << NationalErr, 1 >> \o << code[1] >> \in Seq(Int)
          /\ Len(<< NationalErr, 1 >> \o << code[1] >>) = 3
          /\ (<< NationalErr, 1 >> \o << code[1] >>)[1] = NationalErr
          /\ (<< NationalErr, 1 >> \o << code[1] >>)[2] = 1
          /\ (<< NationalErr, 1 >> \o << code[1] >>)[3] = code[1]
      BY <1>4, <2>1, ConcatProperties DEF Ints
    <3>2. first \in Seq(Int) /\ Len(first) = 3
      BY <1>4
    <3>3. \A i \in 1 .. 3 : (<< NationalErr, 1 >> \o << code[1] >>)[i] = first[i]
      BY <3>1
    <3>4. QED
      BY <3>1, <3>2, <3>3, SeqEqual
  <2>4. << NationalErr, 1 >> \o (<< code[1] >> \o data) = body
    <3>1. (<< NationalErr, 1 >> \o << code[1] >>) \o data
            = << NationalErr, 1 >> \o (<< code[1] >> \o data)
      BY <1>4, <2>1, Regrouped, ZenonT(60)
    <3>2. QED
      BY <2>3, <3>1
  <2>5. Len(<< NationalErr, 1 >>) + 1 = 3
        /\ Len(<< NationalErr, 1 >>) + Len(<< code[1] >>) = 3
    BY <2>1
  <2>6. QED
    BY <2>2, <2>4, <2>5
<1> HIDE DEF body
<1>8. DecodeBody(Begun(c), body) = ArrivingComp(c)
  <2>1. Begun(c).kind = "ERROR"
    BY <1>1, BegunKind
  <2>2. body[2] + 2 = 3 /\ body[2] + 3 = 4
    BY <1>5
  <2>3. DecodeBody(Begun(c), body) =
          [Begun(c) EXCEPT !.codeType = body[1], !.code = SubSeq(body, 3, body[2] + 2),
                           !.data = From(body, body[2] + 3)]
    BY <1>5, <2>1, Zenon DEF DecodeBody
  <2>4. QED
    BY <1>2, <1>5, <1>6, <1>7, <2>2, <2>3
<1>9. QED
  BY <1>1, <1>3, <1>5, <1>8, Tags DEF c

LEMMA RejectRead ==
  ASSUME NEW id, NEW type \in Octet \ {LinkedId}, NEW code \in Octet
  PROVE  LET c == Reject(id, type, code)
         IN /\ EncodeBody(c) \in Ints /\ EncodeBody(c)[1] # LinkedId
            /\ DecodeBody(Begun(c), EncodeBody(c)) = c
            /\ c.kind = "REJECT" /\ c.invokeId = id /\ c.linkedId = 0
<1> DEFINE c == Reject(id, type, code)
           body == << type, 1, code >>
<1>1. /\ c.kind = "REJECT" /\ c.code[1] = code /\ c.codeType = type
      /\ c.invokeId = id /\ c.linkedId = 0
  BY DEF Reject, Comp
<1>2. c = [Begun(c) EXCEPT !.codeType = type, !.code = << code >>]
  BY <1>1, ZenonT(120) DEF Begun, Reject, Comp
<1> HIDE DEF c
<1>3. EncodeBody(c) = body
  BY <1>1, Zenon DEF EncodeBody
<1>4. body \in Ints /\ body[1] = type /\ body[3] = code
  BY Typed DEF Ints
<1> HIDE DEF body
<1>5. DecodeBody(Begun(c), body) = [Begun(c) EXCEPT !.codeType = body[1], !.code = << body[3] >>]
  <2>1. Begun(c).kind = "REJECT"
    BY <1>1, BegunKind
  <2>2. QED
    BY <2>1, Zenon DEF DecodeBody
<1>6. QED
  BY <1>1, <1>2, <1>3, <1>4, <1>5 DEF c

(* A result that does not look long; one that does loses its operation code  *)
(* to its parameters.                                                        *)
LEMMA ResultRead ==
  ASSUME NEW id, NEW private \in BOOLEAN, NEW op \in Number, NEW data \in Octets
  PROVE  LET c == Result(id, private, op, data)
         IN /\ EncodeBody(c) \in Ints /\ EncodeBody(c)[1] # LinkedId
            /\ Len(data) # 125 => DecodeBody(Begun(c), EncodeBody(c)) = c
            /\ Len(data) = 125 => /\ DecodeBody(Begun(c), EncodeBody(c)) # c
                                  /\ DecodeBody(Begun(c), EncodeBody(c)) # Comp
            /\ c.kind = "RESULT" /\ c.invokeId = id /\ c.linkedId = 0 /\ c.data = data
<1> DEFINE c == Result(id, private, op, data)
           n == Len(data) + 4
           rest == EncodeOp(c) \o data
           body == << ParamSequence, n >> \o rest
           after == << n >> \o rest
<1>1. /\ c.kind = "RESULT" /\ c.op = op /\ c.isPrivate = private /\ c.data = data
      /\ c.invokeId = id /\ c.linkedId = 0
  BY DEF Result, Comp
<1>2. c = [Begun(c) EXCEPT !.isPrivate = private, !.op = op, !.data = data]
  BY <1>1, ZenonT(120) DEF Begun, Result, Comp
<1> HIDE DEF c
<1>3. EncodeBody(c) = body
  <2>1. EncodeBody(c) = << ParamSequence, Len(data) + 4 >> \o EncodeOp(c) \o data
    BY <1>1, Zenon DEF EncodeBody
  <2>2. EncodeOp(c) \in Ints /\ data \in Ints
    BY <1>1, Typed, OpTyped
  <2>3. << ParamSequence, Len(data) + 4 >> \in Ints
    BY Typed, Tags DEF Ints
  <2>4. QED
    BY <2>1, <2>2, <2>3, Regrouped, ZenonT(60)
<1>4. data \in Ints /\ Len(data) \in Nat /\ n \in Int /\ ParamSequence \in Int
  BY Typed, Tags
<1>5. /\ rest \in Ints /\ rest # << >> /\ HasOp(rest)
      /\ DecodeOp(Begun(c), rest) = c
  <2>1. c.op \in Number /\ c.isPrivate \in BOOLEAN
    BY <1>1
  <2>2. rest \in Ints /\ rest # << >> /\ HasOp(rest)
    BY <1>4, <2>1, OpRead
  <2>3. DecodeOp(Begun(c), rest)
          = [Begun(c) EXCEPT !.isPrivate = c.isPrivate, !.op = c.op, !.data = data]
    BY <1>4, <2>1, OpRead, Zenon
  <2>4. QED
    BY <1>1, <1>2, <2>2, <2>3, Zenon
<1> HIDE DEF rest, n
<1>6. body \in Ints /\ body[1] = ParamSequence
  BY <1>4, <1>5, TwoAhead
<1>7. Tail(body) = after
  BY <1>4, <1>5, OneThenOne
<1>8. after \in Ints /\ after[1] = n
  BY <1>4, <1>5, OneAhead
<1>9. From(after, 2) = rest
  BY <1>4, <1>5, AfterOne, Zenon
<1> HIDE DEF body, after
<1>10. DecodeBody(Begun(c), body) = DecodeResult(Begun(c), body)
  <2>1. Begun(c).kind = "RESULT"
    BY <1>1, BegunKind
  <2>2. QED
    BY <2>1, Zenon DEF DecodeBody
<1>11. ASSUME n # 129 PROVE DecodeBody(Begun(c), body) = c
  <2>1. PastLength(Tail(body)) = rest
    BY <1>7, <1>8, <1>9, <1>11, Zenon DEF PastLength
  <2>2. QED
    BY <1>5, <1>6, <1>10, <2>1, Zenon DEF DecodeResult
<1>12. ASSUME n = 129
       PROVE  DecodeBody(Begun(c), body) # c /\ DecodeBody(Begun(c), body) # Comp
  <2>1. PICK t \in Int, more \in Ints :
          /\ rest = << t >> \o more
          /\ more[1] \in 1 .. 4 /\ Len(more) > Len(data)
    BY <1>1, <1>4, OpHead DEF rest
  <2>2. From(after, 3) = more
    <3>1. after = << n, t >> \o more
      BY <1>4, <2>1, OneThenOne, Zenon DEF after
    <3>2. QED
      BY <1>4, <2>1, <3>1, AfterTwo, Zenon
  <2>3. PastLength(Tail(body)) = more
    BY <1>7, <1>8, <1>12, <2>2, Zenon DEF PastLength
  <2>4. ~HasOp(more)
    BY <2>1, Tags, Zenon DEF HasOp
  <2>5. DecodeBody(Begun(c), body) = [Begun(c) EXCEPT !.data = more]
    BY <1>6, <1>10, <2>3, <2>4, Zenon DEF DecodeResult
  <2>6. [Begun(c) EXCEPT !.data = more].data = more
        /\ [Begun(c) EXCEPT !.data = more].kind = "RESULT"
    BY <1>1 DEF Begun, Comp
  <2>7. more # data /\ Comp.kind # "RESULT"
    BY <1>4, <2>1 DEF Comp
  <2>8. QED
    BY <1>1, <2>5, <2>6, <2>7, Zenon
<1>13. body[1] # LinkedId
  BY <1>6, Tags
<1>14. /\ Len(data) # 125 => n # 129
       /\ Len(data) = 125 => n = 129
  <2> DEFINE k == Len(data)
  <2>1. k \in Nat /\ n = k + 4
    BY <1>4, Zenon DEF n
  <2> HIDE DEF k
  <2>2. k = 125 <=> n = 129
    BY <2>1, SMT
  <2>3. QED
    BY <2>2, Zenon DEF k
<1>15. QED
  BY <1>1, <1>3, <1>6, <1>11, <1>12, <1>13, <1>14 DEF c

(* A component, with what arrives of it, or does not.                        *)
LongResult(c) == c.kind = "RESULT" /\ Len(c.data) = 125

ComponentReads(c) ==
  /\ c.kind \in DOMAIN CompTag
  /\ \E s \in Ints :
       /\ EncodeComponent(c) = << CompPortion >> \o s
       /\ DecodeComponent(s) # Comp
       /\ DecodeComponent(s) = ArrivingComp(c) <=> ~LongResult(c)

LEMMA BodyEnough ==
  ASSUME NEW c, c.kind \in DOMAIN CompTag, c.invokeId \in Octet, c.linkedId \in Octet,
         c.kind # "INVOKE" => c.linkedId = 0,
         EncodeBody(c) \in Ints, EncodeBody(c)[1] # LinkedId,
         DecodeBody(Begun(c), EncodeBody(c)) # Comp,
         DecodeBody(Begun(c), EncodeBody(c)) = ArrivingComp(c) <=> ~LongResult(c)
  PROVE  ComponentReads(c)
<1>1. PICK s \in Ints :
        /\ EncodeComponent(c) = << CompPortion >> \o s
        /\ DecodeComponent(s) = DecodeBody(Begun(c), EncodeBody(c))
  BY AroundBody, Zenon DEF Begun
<1>2. QED
  BY <1>1, Zenon DEF ComponentReads

LEMMA Kinds ==
  /\ DOMAIN CompTag = {"INVOKE", "RESULT", "ERROR", "REJECT"}
  /\ Comp.kind = "NONE" /\ 0 \in Octet
BY SMT DEF CompTag, Comp, Octet

LEMMA ComponentRead ==
  ASSUME NEW c \in AnyComponent
  PROVE  ComponentReads(c)
<1>1. ASSUME NEW id \in Octet, NEW linked \in Octet, NEW private \in BOOLEAN,
             NEW op \in Number, NEW data \in Octets,
             c = Invoke(id, linked, private, op, data)
      PROVE  ComponentReads(c)
  <2>1. /\ EncodeBody(c) \in Ints /\ EncodeBody(c)[1] # LinkedId
        /\ DecodeBody(Begun(c), EncodeBody(c)) = c
        /\ c.kind = "INVOKE" /\ c.invokeId = id /\ c.linkedId = linked
    BY <1>1, InvokeRead
  <2>2. ArrivingComp(c) = c /\ ~LongResult(c) /\ c # Comp
    BY <2>1, Kinds DEF ArrivingComp, LongResult
  <2>3. QED
    BY <2>1, <2>2, Kinds, BodyEnough
<1>2. ASSUME NEW id \in Octet, NEW private \in BOOLEAN, NEW op \in Number,
             NEW data \in Octets, c = Result(id, private, op, data)
      PROVE  ComponentReads(c)
  <2>1. /\ EncodeBody(c) \in Ints /\ EncodeBody(c)[1] # LinkedId
        /\ Len(data) # 125 => DecodeBody(Begun(c), EncodeBody(c)) = c
        /\ Len(data) = 125 => /\ DecodeBody(Begun(c), EncodeBody(c)) # c
                              /\ DecodeBody(Begun(c), EncodeBody(c)) # Comp
        /\ c.kind = "RESULT" /\ c.invokeId = id /\ c.linkedId = 0 /\ c.data = data
    BY <1>2, ResultRead
  <2>2. ArrivingComp(c) = c /\ (LongResult(c) <=> Len(data) = 125) /\ c # Comp
    BY <2>1, Kinds DEF ArrivingComp, LongResult
  <2>3. QED
    BY <2>1, <2>2, Kinds, BodyEnough
<1>3. ASSUME NEW id \in Octet, NEW type, NEW code \in Octets \ {<< >>},
             NEW data \in Octets, c = Error(id, type, code, data)
      PROVE  ComponentReads(c)
  <2>1. /\ EncodeBody(c) \in Ints /\ EncodeBody(c)[1] # LinkedId
        /\ DecodeBody(Begun(c), EncodeBody(c)) = ArrivingComp(c)
        /\ c.kind = "ERROR" /\ c.invokeId = id /\ c.linkedId = 0
    BY <1>3, ErrorRead
  <2>2. ArrivingComp(c).kind = "ERROR"
    BY <1>3 DEF ArrivingComp, Error, Comp
  <2>3. ArrivingComp(c) # Comp /\ ~LongResult(c)
    BY <2>1, <2>2, Kinds DEF LongResult
  <2>4. QED
    BY <2>1, <2>3, Kinds, BodyEnough
<1>4. ASSUME NEW id \in Octet, NEW type \in Octet \ {LinkedId}, NEW code \in Octet,
             c = Reject(id, type, code)
      PROVE  ComponentReads(c)
  <2>1. /\ EncodeBody(c) \in Ints /\ EncodeBody(c)[1] # LinkedId
        /\ DecodeBody(Begun(c), EncodeBody(c)) = c
        /\ c.kind = "REJECT" /\ c.invokeId = id /\ c.linkedId = 0
    BY <1>4, RejectRead
  <2>2. ArrivingComp(c) = c /\ ~LongResult(c) /\ c # Comp
    BY <2>1, Kinds DEF ArrivingComp, LongResult
  <2>3. QED
    BY <2>1, <2>2, Kinds, BodyEnough
<1>5. CASE \E id \in Octet, linked \in Octet, private \in BOOLEAN, op \in Number,
            data \in Octets : c = Invoke(id, linked, private, op, data)
  BY <1>1, <1>5, Zenon
<1>6. CASE \E id \in Octet, private \in BOOLEAN, op \in Number, data \in Octets \ {<< >>} :
          c = Result(id, private, op, data)
  <2>1. PICK id \in Octet, private \in BOOLEAN, op \in Number, data \in Octets \ {<< >>} :
          c = Result(id, private, op, data)
    BY <1>6
  <2>2. data \in Octets
    OBVIOUS
  <2>3. QED
    BY <1>2, <2>1, <2>2, Zenon
<1>7. CASE \E id \in Octet, type \in {NationalErr, PrivateErr},
            code \in Octets \ {<< >>}, data \in Octets : c = Error(id, type, code, data)
  BY <1>3, <1>7, Zenon
<1>8. CASE \E id \in Octet, type \in Octet \ {LinkedId}, code \in Octet :
          c = Reject(id, type, code)
  BY <1>4, <1>8, Zenon
<1>9. \/ \E id \in Octet, linked \in Octet, private \in BOOLEAN, op \in Number,
           data \in Octets : c = Invoke(id, linked, private, op, data)
      \/ \E id \in Octet, private \in BOOLEAN, op \in Number, data \in Octets \ {<< >>} :
           c = Result(id, private, op, data)
      \/ \E id \in Octet, type \in {NationalErr, PrivateErr},
           code \in Octets \ {<< >>}, data \in Octets : c = Error(id, type, code, data)
      \/ \E id \in Octet, type \in Octet \ {LinkedId}, code \in Octet :
           c = Reject(id, type, code)
  BY DEF AnyComponent
<1>10. QED
  BY <1>5, <1>6, <1>7, <1>8, <1>9

-----------------------------------------------------------------------------
(* The first part of a sequence.                                             *)
LEMMA First ==
  ASSUME NEW p \in Ints, NEW r \in Ints
  PROVE  SubSeq(p \o r, 1, Len(p)) = p
<1>1. << >> \in Ints /\ Len(<< >>) = 0 /\ Len(p) \in Nat
  BY EmptySeq, LenProperties DEF Ints
<1>2. SubSeq(<< >> \o (p \o r), Len(<< >>) + 1, Len(<< >>) + Len(p)) = p
  BY <1>1, Between, Zenon
<1>3. << >> \o (p \o r) = p \o r
  <2>1. p \o r \in Ints
    BY Joined
  <2>2. QED
    BY <2>1, ConcatEmptySeq DEF Ints
<1>4. Len(<< >>) + 1 = 1 /\ Len(<< >>) + Len(p) = Len(p)
  BY <1>1
<1>5. QED
  BY <1>2, <1>3, <1>4

(* The transaction ids: which of them the package carries.                   *)
ArrivingOrig(m) == IF m.pkg = "ABORT" THEN PeerId(m) ELSE IF m.pkg = "END" THEN 0 ELSE m.orig
ArrivingDest(m) ==
  IF m.pkg = "END" THEN PeerId(m) ELSE IF m.pkg = "CONTINUE" THEN m.dest ELSE 0

LEMMA IdBytes ==
  ASSUME NEW v \in Number
  PROVE  BytesOf(v, 4) \in Ints /\ Len(BytesOf(v, 4)) = 4 /\ ValueOf(BytesOf(v, 4)) = v
BY BytesTyped, BytesRead

LEMMA OneIdRead ==
  ASSUME NEW v \in Number, NEW s \in Ints
  PROVE  LET q == << 4 >> \o BytesOf(v, 4) \o s
         IN /\ << 4 >> \o BytesOf(v, 4) \in Ints
            /\ q \in Ints /\ q[1] = 4 /\ From(q, 6) = s
            /\ ValueOf(SubSeq(q, 2, 5)) = v
<1> DEFINE h == << 4 >>
           b == BytesOf(v, 4)
           q == h \o b \o s
<1>1. h \in Ints /\ Len(h) = 1 /\ 4 \in Int
  BY DEF Ints
<1>2. b \in Ints /\ Len(b) = 4 /\ ValueOf(b) = v
  BY IdBytes
<1>3. b \o s \in Ints
  BY <1>2, Joined
<1>4. h \o (b \o s) \in Ints /\ (h \o (b \o s))[1] = 4
  BY <1>1, <1>3, OneAhead
<1> HIDE DEF h, b
<1>5. q = h \o (b \o s)
  BY <1>1, <1>2, Regrouped, ZenonT(60)
<1>6. SubSeq(q, 2, 5) = b
  <2>1. SubSeq(h \o (b \o s), Len(h) + 1, Len(h) + Len(b)) = b
    BY <1>1, <1>2, Between, Zenon
  <2>2. Len(h) + 1 = 2 /\ Len(h) + Len(b) = 5
    BY <1>1, <1>2
  <2>3. QED
    BY <1>5, <2>1, <2>2
<1>7. h \o b \in Ints /\ From(q, 6) = s
  <2>1. h \o b \in Ints /\ Len(h \o b) = Len(h) + Len(b)
    BY <1>1, <1>2, Joined
  <2>2. From(q, Len(h \o b) + 1) = s
    BY <2>1, Behind, Zenon
  <2>3. Len(h \o b) + 1 = 6
    BY <1>1, <1>2, <2>1
  <2>4. QED
    BY <2>1, <2>2, <2>3
<1>8. QED
  BY <1>2, <1>4, <1>5, <1>6, <1>7 DEF h, b

LEMMA TwoIdsRead ==
  ASSUME NEW m, m.orig \in Number, m.dest \in Number, NEW s \in Ints,
         EncodeTransIds(m) = << 8 >> \o BytesOf(m.orig, 4) \o BytesOf(m.dest, 4)
  PROVE  LET q == EncodeTransIds(m) \o s
         IN /\ EncodeTransIds(m) \in Ints
            /\ q \in Ints /\ q[1] = 8 /\ From(q, 10) = s
            /\ ValueOf(SubSeq(q, 2, 5)) = m.orig /\ ValueOf(SubSeq(q, 6, 9)) = m.dest
<1> DEFINE h == << 8 >>
           b == BytesOf(m.orig, 4)
           d == BytesOf(m.dest, 4)
           q == EncodeTransIds(m) \o s
<1>1. h \in Ints /\ Len(h) = 1 /\ 8 \in Int
  BY DEF Ints
<1>2. /\ b \in Ints /\ Len(b) = 4 /\ ValueOf(b) = m.orig
      /\ d \in Ints /\ Len(d) = 4 /\ ValueOf(d) = m.dest
  BY IdBytes
<1>3. d \o s \in Ints /\ b \o (d \o s) \in Ints
  BY <1>2, Joined
<1>4. h \o (b \o (d \o s)) \in Ints /\ (h \o (b \o (d \o s)))[1] = 8
  BY <1>1, <1>3, OneAhead
<1> HIDE DEF h, b, d
<1>5. h \o b \in Ints /\ Len(h \o b) = 5 /\ h \o b \o d \in Ints /\ Len(h \o b \o d) = 9
  <2>1. h \o b \in Ints /\ Len(h \o b) = Len(h) + Len(b)
    BY <1>1, <1>2, Joined
  <2>2. h \o b \o d \in Ints /\ Len(h \o b \o d) = Len(h \o b) + Len(d)
    BY <1>2, <2>1, Joined
  <2>3. QED
    BY <1>1, <1>2, <2>1, <2>2
<1>6. q = (h \o b) \o (d \o s)
  <2>1. (h \o b \o d) \o s = (h \o b) \o (d \o s)
    BY <1>2, <1>5, Regrouped, ZenonT(60)
  <2>2. QED
    BY <2>1 DEF h, b, d
<1>7. (h \o b) \o (d \o s) = h \o (b \o (d \o s))
  BY <1>1, <1>2, <1>3, Regrouped, ZenonT(60)
<1>8. SubSeq(q, 2, 5) = b
  <2>1. SubSeq(h \o (b \o (d \o s)), Len(h) + 1, Len(h) + Len(b)) = b
    BY <1>1, <1>2, <1>3, Between, Zenon
  <2>2. Len(h) + 1 = 2 /\ Len(h) + Len(b) = 5
    BY <1>1, <1>2
  <2>3. QED
    BY <1>6, <1>7, <2>1, <2>2
<1>9. SubSeq(q, 6, 9) = d
  <2>1. SubSeq((h \o b) \o (d \o s), Len(h \o b) + 1, Len(h \o b) + Len(d)) = d
    BY <1>2, <1>5, Between, Zenon
  <2>2. Len(h \o b) + 1 = 6 /\ Len(h \o b) + Len(d) = 9
    BY <1>2, <1>5
  <2>3. QED
    BY <1>6, <2>1, <2>2
<1>10. From(q, 10) = s
  <2>1. From((h \o b \o d) \o s, Len(h \o b \o d) + 1) = s
    BY <1>5, Behind, Zenon
  <2>2. Len(h \o b \o d) + 1 = 10
    BY <1>5
  <2>3. QED
    BY <2>1, <2>2 DEF h, b, d
<1>11. QED
  BY <1>2, <1>4, <1>5, <1>6, <1>7, <1>8, <1>9, <1>10 DEF h, b, d

LEMMA BothIds ==
  ASSUME NEW m, NEW e, e = Message(m.pkg, 0, 0, << >>, Comp)
  PROVE  [e EXCEPT !.orig = m.orig, !.dest = m.dest]
           = Message(m.pkg, m.orig, m.dest, << >>, Comp)
<1> DEFINE first == [e EXCEPT !.orig = m.orig]
<1>1. first = Message(m.pkg, m.orig, 0, << >>, Comp)
  BY DEF Message
<1>2. [first EXCEPT !.dest = m.dest] = Message(m.pkg, m.orig, m.dest, << >>, Comp)
  <2> HIDE DEF first
  <2>1. QED
    BY <1>1 DEF Message
<1>3. [first EXCEPT !.dest = m.dest] = [e EXCEPT !.orig = m.orig, !.dest = m.dest]
  OBVIOUS
<1>4. QED
  BY <1>2, <1>3

Packages == {"BEGIN", "END", "CONTINUE", "UNIDIRECTIONAL", "ABORT"}

LEMMA TransIdsRead ==
  ASSUME NEW m, m.pkg \in Packages, m.orig \in Number, m.dest \in Number, NEW s \in Ints
  PROVE  LET q == EncodeTransIds(m) \o s
         IN /\ EncodeTransIds(m) \in Ints
            /\ q \in Ints /\ q[1] \in {4, 8} /\ From(q, q[1] + 2) = s
            /\ DecodeTransIds(Message(m.pkg, 0, 0, << >>, Comp), q)
                 = Message(m.pkg, ArrivingOrig(m), ArrivingDest(m), << >>, Comp)
<1> DEFINE q == EncodeTransIds(m) \o s
           e == Message(m.pkg, 0, 0, << >>, Comp)
<1>1. e.pkg = m.pkg
  BY DEF Message
<1>2. CASE m.pkg = "CONTINUE"
  <2>1. EncodeTransIds(m) = << 8 >> \o BytesOf(m.orig, 4) \o BytesOf(m.dest, 4)
    BY <1>2, Zenon DEF EncodeTransIds
  <2>2. /\ EncodeTransIds(m) \in Ints
        /\ q \in Ints /\ q[1] = 8 /\ From(q, 10) = s
        /\ ValueOf(SubSeq(q, 2, 5)) = m.orig /\ ValueOf(SubSeq(q, 6, 9)) = m.dest
    BY <2>1, TwoIdsRead, Zenon
  <2> HIDE DEF q, e
  <2>3. DecodeTransIds(e, q) = [e EXCEPT !.orig = m.orig, !.dest = m.dest]
    BY <1>1, <1>2, <2>2, Zenon DEF DecodeTransIds
  <2>4. ArrivingOrig(m) = m.orig /\ ArrivingDest(m) = m.dest
    BY <1>2 DEF ArrivingOrig, ArrivingDest
  <2>5. [e EXCEPT !.orig = m.orig, !.dest = m.dest]
          = Message(m.pkg, m.orig, m.dest, << >>, Comp)
    BY BothIds DEF e
  <2>6. q[1] + 2 = 10
    BY <2>2
  <2>7. QED
    BY <2>2, <2>3, <2>4, <2>5, <2>6 DEF q, e
<1>3. CASE m.pkg # "CONTINUE"
  <2> DEFINE v == IF m.pkg \in {"END", "ABORT"} THEN PeerId(m) ELSE m.orig
  <2>1. EncodeTransIds(m) = << 4 >> \o BytesOf(v, 4)
    <3>1. CASE m.pkg \in {"END", "ABORT"}
      BY <1>3, <3>1, Zenon DEF EncodeTransIds, PeerId
    <3>2. CASE m.pkg \notin {"END", "ABORT"}
      BY <1>3, <3>2, Zenon DEF EncodeTransIds
    <3>3. QED
      BY <3>1, <3>2
  <2>2. v \in Number
    BY DEF PeerId
  <2> HIDE DEF v
  <2>3. /\ EncodeTransIds(m) \in Ints
        /\ q \in Ints /\ q[1] = 4 /\ From(q, 6) = s
        /\ ValueOf(SubSeq(q, 2, 5)) = v
    BY <2>1, <2>2, OneIdRead, Zenon
  <2> HIDE DEF q, e
  <2>4. q[1] # 8 /\ q[1] + 2 = 6
    BY <2>3
  <2>5. DecodeTransIds(e, q) = Message(m.pkg, ArrivingOrig(m), ArrivingDest(m), << >>, Comp)
    <3>1. CASE m.pkg = "END"
      <4>1. DecodeTransIds(e, q) = [e EXCEPT !.dest = v]
        BY <1>1, <2>3, <2>4, <3>1, Zenon DEF DecodeTransIds
      <4>2. ArrivingOrig(m) = 0 /\ ArrivingDest(m) = v
        BY <3>1 DEF ArrivingOrig, ArrivingDest, v
      <4>3. QED
        BY <4>1, <4>2 DEF e, Message
    <3>2. CASE m.pkg # "END"
      <4>1. DecodeTransIds(e, q) = [e EXCEPT !.orig = v]
        BY <1>1, <2>3, <2>4, <3>2, Zenon DEF DecodeTransIds
      <4>2. ArrivingOrig(m) = v /\ ArrivingDest(m) = 0
        BY <1>3, <3>2 DEF ArrivingOrig, ArrivingDest, v
      <4>3. QED
        BY <4>1, <4>2 DEF e, Message
    <3>3. QED
      BY <3>1, <3>2
  <2>6. QED
    BY <2>3, <2>4, <2>5 DEF q, e
<1>4. QED
  BY <1>2, <1>3

-----------------------------------------------------------------------------
(* The dialogue portion of a message, as it is in a unit data.               *)
DlgOf(m) == IF m.dlgPdu = << >> THEN << >> ELSE << DlgPortion >> \o m.dlgPdu

LEMMA LengthCounts ==
  ASSUME NEW s \in Ints
  PROVE  LET q == WithLength(s)
         IN /\ q \in Ints
            /\ q[1] = 129 => q[2] + 2 = Len(q) /\ Len(q) >= 2
            /\ q[1] # 129 => q[1] + 1 = Len(q) /\ Len(q) >= 1
<1> DEFINE q == WithLength(s)
           n == Len(s)
<1>1. n \in Nat /\ n \in Int
  BY LenProperties DEF Ints
<1>2. CASE n > 127
  <2>1. q = << 129, n >> \o s
    BY <1>2 DEF WithLength
  <2> HIDE DEF n
  <2>2. /\ << 129, n >> \o s \in Ints /\ Len(<< 129, n >> \o s) = Len(s) + 2
        /\ (<< 129, n >> \o s)[1] = 129 /\ (<< 129, n >> \o s)[2] = n
    BY <1>1, TwoAhead
  <2> HIDE DEF q
  <2>3. q \in Ints /\ Len(q) = n + 2 /\ q[1] = 129 /\ q[2] = n
    BY <2>1, <2>2 DEF n
  <2>4. QED
    BY <1>1, <2>3 DEF q
<1>3. CASE n <= 127
  <2>1. q = << n >> \o s
    <3>1. ~(n > 127)
      BY <1>1, <1>3
    <3>2. QED
      BY <3>1 DEF WithLength
  <2> HIDE DEF n
  <2>2. /\ << n >> \o s \in Ints /\ Len(<< n >> \o s) = Len(s) + 1
        /\ (<< n >> \o s)[1] = n
    BY <1>1, OneAhead
  <2> HIDE DEF q
  <2>3. q \in Ints /\ Len(q) = n + 1 /\ q[1] = n
    BY <2>1, <2>2 DEF n
  <2>4. n # 129
    BY <1>1, <1>3, SMT
  <2>5. QED
    BY <1>1, <2>3, <2>4 DEF q
<1>4. QED
  BY <1>1, <1>2, <1>3

(* It is read from a unit data, and what follows it is found behind it.      *)
LEMMA DlgRead ==
  ASSUME NEW m, m.dlgPdu \in {<< >>} \cup {WithLength(t) : t \in Octets},
         NEW r \in Ints, r[1] # DlgPortion, NEW e
  PROVE  LET q == DlgOf(m) \o r
         IN /\ DlgOf(m) \in Ints /\ q \in Ints /\ From(q, Len(DlgOf(m)) + 1) = r
            /\ DecodeDlg(e, q) =
                 IF m.dlgPdu = << >> THEN e ELSE [e EXCEPT !.dlgPdu = DlgOf(m)]
<1> DEFINE d == DlgOf(m)
           q == d \o r
<1>1. CASE m.dlgPdu = << >>
  <2>1. d = << >> /\ << >> \in Ints
    BY <1>1, Typed DEF DlgOf
  <2>2. From(<< >> \o r, Len(<< >>) + 1) = r
    BY <2>1, Behind, Zenon
  <2>3. q = r
    BY <2>1, ConcatEmptySeq DEF Ints
  <2> HIDE DEF d, q
  <2>4. DecodeDlg(e, q) = e
    BY <2>3, Zenon DEF DecodeDlg
  <2>5. QED
    BY <1>1, <2>1, <2>2, <2>3, <2>4 DEF d, q
<1>2. CASE m.dlgPdu # << >>
  <2> DEFINE w == m.dlgPdu
  <2>1. d = << DlgPortion >> \o w
    BY <1>2 DEF DlgOf
  <2>2. PICK t \in Octets : w = WithLength(t)
    BY <1>2
  <2>3. /\ w \in Ints
        /\ w[1] = 129 => w[2] + 2 = Len(w) /\ Len(w) >= 2
        /\ w[1] # 129 => w[1] + 1 = Len(w) /\ Len(w) >= 1
    BY <2>2, Typed, LengthCounts
  <2> HIDE DEF w
  <2>4. Len(w) \in Nat /\ \A i \in 1 .. Len(w) : w[i] \in Int
    BY <2>3, LenProperties, ElementOfSeq DEF Ints
  <2>5. d \in Ints /\ Len(d) = Len(w) + 1
        /\ d[1] = DlgPortion /\ \A i \in 1 .. Len(w) : d[i + 1] = w[i]
    <3>1. << DlgPortion >> \in Ints /\ Len(<< DlgPortion >>) = 1 /\ << DlgPortion >>[1] = DlgPortion
      BY Tags DEF Ints
    <3>2. /\ << DlgPortion >> \o w \in Ints /\ Len(<< DlgPortion >> \o w) = Len(w) + 1
          /\ (<< DlgPortion >> \o w)[1] = DlgPortion
      BY <2>3, Tags, OneAhead
    <3>3. \A i \in 1 .. Len(w) : (<< DlgPortion >> \o w)[Len(<< DlgPortion >>) + i] = w[i]
      BY <2>3, <3>1, ConcatProperties DEF Ints
    <3>4. \A i \in 1 .. Len(w) : Len(<< DlgPortion >>) + i = i + 1
      BY <3>1
    <3>5. QED
      BY <2>1, <3>2, <3>3, <3>4, Zenon
  <2> HIDE DEF d
  <2>6. q \in Ints /\ \A i \in 1 .. Len(d) : q[i] = d[i]
    BY <2>5, Joined
  <2>7. q[1] = DlgPortion /\ \A i \in 1 .. Len(w) : q[i + 1] = w[i]
    BY <2>4, <2>5, <2>6
  <2>8. (IF q[2] = 129 THEN q[3] + 3 ELSE q[2] + 2) = Len(d)
    <3>1. Len(w) >= 1 /\ (w[1] = 129 => Len(w) >= 2)
      BY <2>3, <2>4
    <3>2. 1 \in 1 .. Len(w) /\ (w[1] = 129 => 2 \in 1 .. Len(w))
      BY <2>4, <3>1
    <3>3. q[1 + 1] = w[1] /\ (w[1] = 129 => q[2 + 1] = w[2])
      BY <2>7, <3>2, Zenon
    <3>4. 1 + 1 = 2 /\ 2 + 1 = 3
      OBVIOUS
    <3>5. q[2] = w[1] /\ (w[1] = 129 => q[3] = w[2])
      BY <3>3, <3>4
    <3>6. q[2] = w[1] /\ (w[1] = 129 => q[3] = w[2] /\ w[2] \in Int) /\ w[1] \in Int
      BY <2>4, <3>2, <3>5
    <3>7. QED
      BY <2>3, <2>4, <2>5, <3>6
  <2>9. SubSeq(q, 1, Len(d)) = d
    BY <2>5, First, Zenon
  <2>10. DecodeDlg(e, q) = [e EXCEPT !.dlgPdu = d]
    BY <2>7, <2>8, <2>9, Zenon DEF DecodeDlg
  <2>11. From(q, Len(d) + 1) = r
    BY <2>5, Behind, Zenon
  <2>12. QED
    BY <1>2, <2>5, <2>6, <2>10, <2>11 DEF d
<1>3. QED
  BY <1>1, <1>2

-----------------------------------------------------------------------------
(* The reason of an abort, read where its dialogue portion is.  The portion  *)
(* of t comes out as t unless its length is in two bytes: then the 129 bytes *)
(* behind the first of them are read, which are those of t only if there are *)
(* as many of them and each is as the one before.                            *)
LEMMA ReasonRead ==
  ASSUME NEW t \in Ints, NEW c \in Ints
  PROVE  LET w == WithLength(t)
             q == << DlgPortion >> \o w \o c
         IN /\ q # << >> /\ q[1] = DlgPortion
            /\ SubSeq(q, 3, q[2] + 2) = t <=>
                 ~(Len(w) > 128 /\ \E i \in 2 .. Len(w) : w[i] # w[i - 1])
<1> DEFINE n == Len(t)
           w == WithLength(t)
           q == << DlgPortion >> \o w \o c
<1>1. n \in Nat
  BY LenProperties DEF Ints
<1>2. t \o c \in Ints /\ Len(t \o c) = Len(t) + Len(c) /\ Len(c) \in Nat
      /\ \A i \in 1 .. n : (t \o c)[i] = t[i]
  BY Joined
<1>3. << DlgPortion >> \in Ints /\ DlgPortion \in Int
  BY Tags DEF Ints
<1>4. w \in Ints
  BY LengthRead
<1>5. q = << DlgPortion >> \o (w \o c)
  BY <1>3, <1>4, Regrouped, ZenonT(60)
<1>6. CASE n <= 127
  <2>1. w = << n >> \o t
    BY <1>1, <1>6 DEF WithLength
  <2>2. << n >> \in Ints
    BY <1>1 DEF Ints
  <2> HIDE DEF n, w, q
  <2>3. w \o c = << n >> \o (t \o c)
    <3>1. (<< n >> \o t) \o c = << n >> \o (t \o c)
      BY <2>2, Regrouped, ZenonT(60)
    <3>2. QED
      BY <2>1, <3>1, Zenon
  <2>4. q = << DlgPortion, n >> \o (t \o c)
    <3>1. << DlgPortion >> \o (<< n >> \o (t \o c)) = << DlgPortion, n >> \o (t \o c)
      <4> DEFINE after == t \o c
      <4>1. after \in Ints /\ n \in Int
        BY <1>1, <1>2
      <4> HIDE DEF after
      <4>2. QED
        BY <1>3, <4>1, OneThenOne DEF after
    <3>2. QED
      BY <1>5, <2>3, <3>1, Zenon
  <2>5. q # << >> /\ q[1] = DlgPortion /\ q[2] = n
    BY <1>1, <1>2, <1>3, <2>4, TwoAhead
  <2>6. << DlgPortion, n >> \in Ints /\ Len(<< DlgPortion, n >>) = 2
    BY <1>1, <1>3 DEF Ints
  <2>7. SubSeq(q, Len(<< DlgPortion, n >>) + 1, Len(<< DlgPortion, n >>) + Len(t)) = t
    BY <2>4, <2>6, Between, Zenon
  <2>8. SubSeq(q, 3, q[2] + 2) = t
    BY <1>1, <2>5, <2>6, <2>7 DEF n
  <2>9. Len(w) = n + 1
    BY <1>1, <2>1, OneAhead DEF n
  <2>10. QED
    BY <1>1, <1>6, <2>5, <2>8, <2>9 DEF w, q
<1>7. CASE n > 127
  <2> DEFINE read == SubSeq(q, 3, 131)
  <2>1. w = << 129, n >> \o t
    BY <1>7 DEF WithLength
  <2>2. << 129, n >> \in Ints /\ Len(<< 129, n >>) = 2
    BY <1>1 DEF Ints
  <2>3. Len(w) = n + 2 /\ w[1] = 129 /\ w[2] = n
    BY <1>1, <2>1, TwoAhead
  <2>4. \A i \in 1 .. n : w[i + 2] = t[i]
    <3>1. \A i \in 1 .. Len(t) : (<< 129, n >> \o t)[Len(<< 129, n >>) + i] = t[i]
      BY <2>2, ConcatProperties DEF Ints
    <3>2. \A i \in 1 .. n : Len(<< 129, n >>) + i = i + 2
      BY <2>2
    <3>3. QED
      BY <2>1, <3>1, <3>2, Zenon
  <2> HIDE DEF w, n
  <2>5. w \o c \in Ints /\ Len(w \o c) = Len(w) + Len(c)
        /\ \A i \in 1 .. Len(w) : (w \o c)[i] = w[i]
    BY <1>4, Joined
  <2>6. /\ q \in Ints /\ Len(q) = Len(w \o c) + 1 /\ q # << >> /\ q[1] = DlgPortion
        /\ \A i \in 1 .. Len(w \o c) : q[i + 1] = (w \o c)[i]
    <3>1. Len(<< DlgPortion >>) = 1
      OBVIOUS
    <3>2. /\ q \in Ints /\ Len(q) = Len(w \o c) + 1 /\ q # << >> /\ q[1] = DlgPortion
      <4> DEFINE after == w \o c
      <4>1. after \in Ints
        BY <2>5
      <4> HIDE DEF after
      <4>2. /\ << DlgPortion >> \o after \in Ints /\ << DlgPortion >> \o after # << >>
            /\ Len(<< DlgPortion >> \o after) = Len(after) + 1
            /\ (<< DlgPortion >> \o after)[1] = DlgPortion
        BY <1>3, <4>1, OneAhead
      <4>3. QED
        BY <1>5, <4>2, Zenon DEF after
    <3>3. \A i \in 1 .. Len(w \o c) :
            (<< DlgPortion >> \o (w \o c))[Len(<< DlgPortion >>) + i] = (w \o c)[i]
      BY <1>3, <2>5, ConcatProperties DEF Ints
    <3>4. \A i \in 1 .. Len(w \o c) : Len(<< DlgPortion >>) + i = i + 1
      BY <3>1
    <3>5. QED
      BY <1>5, <3>2, <3>3, <3>4, Zenon
  <2> HIDE DEF q
  <2>7. \A i \in 1 .. Len(w) : q[i + 1] = w[i]
    BY <1>1, <1>2, <2>3, <2>5, <2>6
  <2>8. q[2] = 129
    <3>1. 1 \in 1 .. Len(w) /\ 1 + 1 = 2
      BY <1>1, <2>3
    <3>2. QED
      BY <2>3, <2>7, <3>1
  <2>9. read \in Ints /\ Len(read) = 129 /\ \A i \in 1 .. 129 : read[i] = q[i + 2]
    <3>1. Len(q) >= 131 /\ Len(q) \in Int
      BY <1>1, <1>2, <1>7, <2>3, <2>5, <2>6
    <3>2. \A i \in 3 .. 131 : q[i] \in Int
      BY <2>6, <3>1, ElementOfSeq DEF Ints
    <3>3. /\ read \in Seq(Int) /\ Len(read) = 131 - 3 + 1
          /\ \A i \in 1 .. 131 - 3 + 1 : read[i] = q[3 + i - 1]
      BY <3>1, <3>2, SubSeqProperties DEF Ints
    <3>4. QED
      BY <3>3 DEF Ints
  <2> HIDE DEF read
  <2>10. \A i \in 1 .. 129 : read[i] = w[i + 1]
    <3> SUFFICES ASSUME NEW i \in 1 .. 129 PROVE read[i] = w[i + 1]
      OBVIOUS
    <3>1. i + 1 \in 1 .. Len(w) /\ (i + 1) + 1 = i + 2
      BY <1>1, <1>7, <2>3
    <3>2. q[(i + 1) + 1] = w[i + 1]
      BY <2>7, <3>1
    <3>3. QED
      BY <2>9, <3>1, <3>2
  <2>11. ASSUME read = t, NEW i \in 2 .. Len(w) PROVE w[i] = w[i - 1]
    <3>1. n = 129
      BY <2>9, <2>11 DEF n
    <3>2. CASE i = 2
      BY <2>3, <3>1, <3>2
    <3>3. CASE i # 2
      <4>1. i - 2 \in 1 .. 129 /\ (i - 2) + 1 = i - 1 /\ (i - 2) + 2 = i
        BY <2>3, <3>1, <3>3
      <4>2. read[i - 2] = w[i - 1] /\ w[i] = t[i - 2]
        BY <2>4, <2>10, <3>1, <4>1
      <4>3. QED
        BY <2>11, <4>2
    <3>4. QED
      BY <3>2, <3>3
  <2>12. ASSUME \A i \in 2 .. Len(w) : w[i] = w[i - 1] PROVE read = t
    <3>1. n = 129
      <4>1. 2 \in 2 .. Len(w) /\ 2 - 1 = 1
        BY <1>1, <1>7, <2>3
      <4>2. QED
        BY <2>3, <2>12, <4>1
    <3>2. ASSUME NEW i \in 1 .. 129 PROVE read[i] = t[i]
      <4>1. i + 2 \in 2 .. Len(w) /\ (i + 2) - 1 = i + 1
        BY <2>3, <3>1
      <4>2. w[i + 2] = w[i + 1]
        BY <2>12, <4>1
      <4>3. QED
        BY <2>4, <2>10, <3>1, <4>2
    <3>3. Len(read) = Len(t)
      BY <2>9, <3>1 DEF n
    <3>4. read \in Seq(Int) /\ t \in Seq(Int) /\ \A i \in 1 .. Len(read) : read[i] = t[i]
      BY <2>9, <3>2 DEF Ints
    <3>5. QED
      BY <3>3, <3>4, SeqEqual, Zenon
  <2>13. SubSeq(q, 3, q[2] + 2) = read
    BY <2>8 DEF read
  <2>14. Len(w) > 128
    BY <1>1, <1>7, <2>3
  <2>15. QED
    BY <2>6, <2>11, <2>12, <2>13, <2>14 DEF w, q
<1>8. n <= 127 \/ n > 127
  BY <1>1
<1>9. QED
  BY <1>6, <1>7, <1>8, Zenon

(* An abort, whatever c follows its dialogue portion.                        *)
LEMMA AbortRead ==
  ASSUME NEW m, m.dlgPdu \in {<< >>} \cup {WithLength(t) : t \in Octets}, m.pkg = "ABORT",
         NEW e, e = Message(e.pkg, e.orig, e.dest, e.dlgPdu, e.comp),
         NEW c \in Ints, c = << >> \/ c[1] = CompPortion
  PROVE  DecodeAbort(e, DlgOf(m) \o c) = [e EXCEPT !.abort = ArrivingAbort(m)]
           <=> ~LongAbort(m)
<1> DEFINE q == DlgOf(m) \o c
<1>1. \A x, y : [e EXCEPT !.abort = x] = [e EXCEPT !.abort = y] <=> x = y
  <2> SUFFICES ASSUME NEW x, NEW y
               PROVE  [e EXCEPT !.abort = x] = [e EXCEPT !.abort = y] <=> x = y
    OBVIOUS
  <2>1. [e EXCEPT !.abort = x].abort = x /\ [e EXCEPT !.abort = y].abort = y
    BY DEF Message
  <2>2. QED
    BY <2>1
<1>2. CASE m.dlgPdu = << >>
  <2>1. q = c
    BY <1>2, ConcatEmptySeq DEF DlgOf, Ints
  <2>2. (IF c = << >> THEN 0 ELSE c[1]) \notin {UAbort, PAbort}
    BY Tags
  <2> HIDE DEF q
  <2>3. DecodeAbort(e, q) = [e EXCEPT !.abort = NoAbort]
    BY <2>1, <2>2 DEF DecodeAbort
  <2>4. ArrivingAbort(m) = NoAbort /\ ~LongAbort(m)
    <3>1. Len(m.dlgPdu) = 0
      BY <1>2, EmptySeq
    <3>2. QED
      BY <1>2, <3>1, SMT DEF ArrivingAbort, LongAbort
  <2>5. QED
    BY <2>3, <2>4 DEF q
<1>3. CASE m.dlgPdu # << >>
  <2>1. PICK t \in Octets : m.dlgPdu = WithLength(t)
    BY <1>3
  <2> DEFINE w == WithLength(t)
             read == SubSeq(q, 3, q[2] + 2)
  <2>2. q = << DlgPortion >> \o w \o c
    BY <1>3, <2>1 DEF DlgOf
  <2>3. t \in Ints
    BY Typed
  <2>4. /\ q # << >> /\ q[1] = DlgPortion
        /\ read = t <=> ~(Len(w) > 128 /\ \E i \in 2 .. Len(w) : w[i] # w[i - 1])
    BY <2>2, <2>3, ReasonRead, Zenon
  <2>5. ArrivingAbort(m) = Abort("U", t)
    BY <1>3, <2>1, <2>3, LengthRead, Zenon DEF ArrivingAbort
  <2>6. read = t <=> ~LongAbort(m)
    BY <2>1, <2>4, Zenon DEF LongAbort
  <2> HIDE DEF q
  <2>7. DecodeAbort(e, q) = [e EXCEPT !.abort = Abort("U", read)]
    BY <2>4, Tags DEF DecodeAbort
  <2> HIDE DEF read
  <2>8. Abort("U", read) = Abort("U", t) <=> read = t
    <3>1. Abort("U", read).reason = read /\ Abort("U", t).reason = t
      BY DEF Abort
    <3>2. QED
      BY <3>1, Zenon
  <2>9. QED
    BY <1>1, <2>5, <2>6, <2>7, <2>8, Zenon DEF q
<1>4. QED
  BY <1>2, <1>3

(* The portions of any other package, when there is a component.             *)
LEMMA PortionsRead ==
  ASSUME NEW m, m.dlgPdu \in {<< >>} \cup {WithLength(t) : t \in Octets},
         NEW orig, NEW dest, NEW s \in Ints, DecodeComponent(s) # Comp
  PROVE  DecodePortions(Message(m.pkg, orig, dest, << >>, Comp),
                        DlgOf(m) \o (<< CompPortion >> \o s))
           = Message(m.pkg, orig, dest, DlgOf(m), DecodeComponent(s))
<1> DEFINE d == DlgOf(m)
           r == << CompPortion >> \o s
           q == d \o r
           a == Message(m.pkg, orig, dest, << >>, Comp)
           dlg == DecodeDlg(a, q)
<1>1. r \in Ints /\ r[1] = CompPortion /\ Tail(r) = s
  BY Tags, OneAhead, AfterOne
<1> HIDE DEF r
<1>2. r[1] # DlgPortion
  BY <1>1, Tags
<1>3. /\ From(q, Len(d) + 1) = r
      /\ dlg = IF m.dlgPdu = << >> THEN a ELSE [a EXCEPT !.dlgPdu = d]
  <2> HIDE DEF a
  <2>1. QED
    BY <1>1, <1>2, DlgRead
<1>4. dlg = Message(m.pkg, orig, dest, d, Comp)
  <2> HIDE DEF dlg
  <2>1. CASE m.dlgPdu = << >>
    BY <1>3, <2>1 DEF Message, DlgOf
  <2>2. CASE m.dlgPdu # << >>
    BY <1>3, <2>2 DEF Message
  <2>3. QED
    BY <2>1, <2>2
<1>5. dlg.dlgPdu = d
  <2> HIDE DEF dlg
  <2>1. QED
    BY <1>4 DEF Message
<1> HIDE DEF q, a, d, dlg
<1>6. From(q, Len(dlg.dlgPdu) + 1) = r
  BY <1>3, <1>5
<1>7. DecodePortions(a, q) = [dlg EXCEPT !.comp = DecodeComponent(s)]
  BY <1>1, <1>6, Zenon DEF DecodePortions, dlg
<1>8. [dlg EXCEPT !.comp = DecodeComponent(s)] = Message(m.pkg, orig, dest, d, DecodeComponent(s))
  BY <1>4 DEF Message
<1>9. QED
  BY <1>7, <1>8, Zenon DEF q, r, a, d

-----------------------------------------------------------------------------
LEMMA MessageParts ==
  ASSUME NEW m \in AnyMessage
  PROVE  /\ m.pkg \in Packages /\ m.pkg \in DOMAIN PkgTag
         /\ m.orig \in Number /\ m.dest \in Number
         /\ m.dlgPdu \in {<< >>} \cup {WithLength(t) : t \in Octets}
         /\ m.comp \in AnyComponent \cup {Comp}
         /\ m.comp # Comp \/ m.pkg = "ABORT"
<1>1. PICK pkg \in DOMAIN PkgTag, orig \in Number, dest \in Number,
           dlgPdu \in {<< >>} \cup {WithLength(s) : s \in Octets},
           comp \in AnyComponent \cup {Comp} :
        m = Message(pkg, orig, dest, dlgPdu, comp)
  BY DEF AnyMessage
<1>2. /\ m.pkg = pkg /\ m.orig = orig /\ m.dest = dest
      /\ m.dlgPdu = dlgPdu /\ m.comp = comp
  BY <1>1 DEF Message
<1>3. DOMAIN PkgTag = Packages
  BY DEF PkgTag, Packages
<1>4. Fits(m)
  BY DEF AnyMessage
<1>5. QED
  BY <1>1, <1>2, <1>3, <1>4, Zenon DEF Fits

(* What arrives of a message, field by field.                                *)
LEMMA ArrivingFields ==
  ASSUME NEW m, m.pkg \in Packages
  PROVE  Arriving(m) =
           IF m.pkg = "ABORT"
           THEN [Message(m.pkg, ArrivingOrig(m), ArrivingDest(m), << >>, Comp)
                   EXCEPT !.abort = ArrivingAbort(m)]
           ELSE Message(m.pkg, ArrivingOrig(m), ArrivingDest(m), DlgOf(m), ArrivingComp(m.comp))
<1>1. CASE m.pkg = "ABORT"
  <2>1. ArrivingOrig(m) = PeerId(m) /\ ArrivingDest(m) = 0
    BY <1>1 DEF ArrivingOrig, ArrivingDest
  <2>2. Arriving(m) = [Message("ABORT", PeerId(m), 0, << >>, Comp)
                         EXCEPT !.abort = ArrivingAbort(m)]
    BY <1>1, Zenon DEF Arriving
  <2>3. QED
    BY <1>1, <2>1, <2>2, Zenon
<1>2. CASE m.pkg # "ABORT"
  <2>1. ArrivingOrig(m) = IF m.pkg = "END" THEN 0 ELSE m.orig
    BY <1>2 DEF ArrivingOrig
  <2>2. QED
    BY <1>2, <2>1, Zenon DEF Arriving, DlgOf, ArrivingDest
<1>3. QED
  BY <1>1, <1>2

(* The component of a message, as it is in a unit data.                      *)
CompOf(m) == IF m.comp.kind = "NONE" THEN << >> ELSE EncodeComponent(m.comp)

(* A unit data, put together and taken apart again as far as its ids.        *)
LEMMA UnitDataRead ==
  ASSUME NEW m, m.pkg \in Packages, m.orig \in Number, m.dest \in Number,
         DlgOf(m) \in Ints, CompOf(m) \in Ints
  PROVE  LET a == Message(m.pkg, ArrivingOrig(m), ArrivingDest(m), << >>, Comp)
             rest == DlgOf(m) \o CompOf(m)
         IN DecodeUnitData(EncodeSccpUnitData(m)) =
              IF m.pkg = "ABORT" THEN DecodeAbort(a, rest) ELSE DecodePortions(a, rest)
<1> DEFINE d == DlgOf(m)
           ids == EncodeTransIds(m)
           r == CompOf(m)
           rest == d \o r
           q == ids \o rest
           content == << TransId >> \o q
           tag == PkgTag[m.pkg]
           unit == << tag >> \o WithLength(content)
           e == Message(m.pkg, 0, 0, << >>, Comp)
           a == Message(m.pkg, ArrivingOrig(m), ArrivingDest(m), << >>, Comp)
<1>1. rest \in Ints
  BY Joined
<1>2. /\ ids \in Ints /\ q \in Ints /\ q[1] \in {4, 8} /\ From(q, q[1] + 2) = rest
      /\ DecodeTransIds(e, q) = a
  <2> HIDE DEF rest
  <2>1. QED
    BY <1>1, TransIdsRead, Zenon
<1>3. EncodeSccpUnitData(m) = unit
  <2>1. << TransId >> \o ids \o d \o r = content
    <3>1. << TransId >> \in Ints
      BY Tags DEF Ints
    <3> HIDE DEF d, ids, r
    <3>2. << TransId >> \o ids \in Ints
      BY <1>2, <3>1, Joined
    <3>3. (<< TransId >> \o ids) \o d \o r = (<< TransId >> \o ids) \o (d \o r)
      BY <3>2, Regrouped, ZenonT(60) DEF d, r
    <3>4. (<< TransId >> \o ids) \o rest = << TransId >> \o (ids \o rest)
      BY <1>1, <1>2, <3>1, Regrouped, ZenonT(60)
    <3>5. QED
      BY <3>3, <3>4
  <2>2. EncodeSccpUnitData(m) = << tag >> \o WithLength(<< TransId >> \o ids \o d \o r)
    BY Zenon DEF EncodeSccpUnitData, DlgOf, CompOf
  <2>3. QED
    BY <2>1, <2>2, Zenon
<1>4. tag \in Int /\ NamedBy(PkgTag, tag) = m.pkg /\ m.pkg \in DOMAIN PkgTag
  <2>1. m.pkg \in DOMAIN PkgTag
    BY DEF Packages, PkgTag
  <2>2. QED
    BY <2>1, PkgTags, Zenon
<1> HIDE DEF q, d, ids, r, rest, tag
<1>5. content \in Ints /\ content[1] = TransId
  BY <1>2, Tags, OneAhead
<1>6. Tail(content) = q
  BY <1>2, Tags, AfterOne, Zenon
<1> HIDE DEF content
<1>7. WithLength(content) \in Ints /\ AfterLength(WithLength(content)) = content
  BY <1>5, LengthRead
<1>8. unit[1] = tag
  BY <1>4, <1>7, OneAhead
<1>9. Tail(unit) = WithLength(content)
  BY <1>4, <1>7, AfterOne, Zenon
<1> HIDE DEF unit
<1>10. DecodeUnitData(unit) =
         IF m.pkg = "ABORT" THEN DecodeAbort(a, rest) ELSE DecodePortions(a, rest)
  <2>1. /\ AfterLength(Tail(unit)) = content /\ Tail(content) = q
        /\ NamedBy(PkgTag, unit[1]) = m.pkg
    BY <1>4, <1>6, <1>7, <1>8, <1>9
  <2>2. ~(\A name \in DOMAIN PkgTag : PkgTag[name] # unit[1])
    BY <1>4, <1>8, Zenon DEF tag
  <2> HIDE DEF a, e
  <2>3. ~(content[1] # TransId \/ q[1] \notin {4, 8})
    BY <1>2, <1>5, Zenon
  <2>4. DecodeTransIds(Message(NamedBy(PkgTag, unit[1]), 0, 0, << >>, Comp), q) = a
        /\ From(q, q[1] + 2) = rest
    BY <1>2, <2>1, Zenon DEF e
  <2>5. QED
    BY <2>1, <2>2, <2>3, <2>4, Zenon DEF DecodeUnitData
<1>11. QED
  BY <1>3, <1>10, Zenon DEF rest, d, r

(* Every message the application may give, whatever its parameters, ids and  *)
(* codes, is decoded to what arrives of it, if and only if it is neither a   *)
(* result that looks long nor an abort with a long dialogue portion          *)
(* (EncodeSccpUnitData, DecodeUnitData).                                     *)
THEOREM EveryMessageRead ==
  \A m \in AnyMessage : ReadAsWritten(m) <=> ~Misread(m)
<1> SUFFICES ASSUME NEW m \in AnyMessage
             PROVE  ReadAsWritten(m) <=> ~Misread(m)
  OBVIOUS
<1> DEFINE orig == ArrivingOrig(m)
           dest == ArrivingDest(m)
           a == Message(m.pkg, orig, dest, << >>, Comp)
<1>1. /\ m.pkg \in Packages /\ m.orig \in Number /\ m.dest \in Number
      /\ m.dlgPdu \in {<< >>} \cup {WithLength(t) : t \in Octets}
      /\ m.comp \in AnyComponent \cup {Comp}
      /\ m.comp # Comp \/ m.pkg = "ABORT"
  BY MessageParts
<1>2. ASSUME m.comp \in AnyComponent
      PROVE  \E s \in Ints :
               /\ CompOf(m) = << CompPortion >> \o s
               /\ DecodeComponent(s) # Comp
               /\ DecodeComponent(s) = ArrivingComp(m.comp) <=> ~LongResult(m.comp)
  <2>1. ComponentReads(m.comp)
    BY <1>2, ComponentRead
  <2>2. CompOf(m) = EncodeComponent(m.comp)
    BY <2>1, Kinds DEF ComponentReads, CompOf
  <2>3. QED
    BY <2>1, <2>2, Zenon DEF ComponentReads
<1>3. CompOf(m) \in Ints /\ (CompOf(m) = << >> \/ CompOf(m)[1] = CompPortion)
  <2>1. CASE m.comp \in AnyComponent
    <3>1. PICK s \in Ints : CompOf(m) = << CompPortion >> \o s
      BY <1>2, <2>1, Zenon
    <3>2. QED
      BY <3>1, Tags, OneAhead
  <2>2. CASE m.comp = Comp
    BY <2>2, Kinds, Typed DEF CompOf
  <2>3. QED
    BY <1>1, <2>1, <2>2
<1>4. DlgOf(m) \in Ints
  <2>1. << CompPortion >> \in Ints /\ << CompPortion >>[1] # DlgPortion
    BY Tags DEF Ints
  <2>2. QED
    BY <1>1, <2>1, DlgRead
<1>5. DecodeUnitData(EncodeSccpUnitData(m)) =
        IF m.pkg = "ABORT" THEN DecodeAbort(a, DlgOf(m) \o CompOf(m))
                           ELSE DecodePortions(a, DlgOf(m) \o CompOf(m))
  BY <1>1, <1>3, <1>4, UnitDataRead, Zenon
<1>6. Arriving(m) =
        IF m.pkg = "ABORT"
        THEN [a EXCEPT !.abort = ArrivingAbort(m)]
        ELSE Message(m.pkg, orig, dest, DlgOf(m), ArrivingComp(m.comp))
  BY <1>1, ArrivingFields, Zenon
<1>7. CASE m.pkg = "ABORT"
  <2>1. a = Message(a.pkg, a.orig, a.dest, a.dlgPdu, a.comp)
    BY DEF Message
  <2> HIDE DEF a
  <2>2. DecodeAbort(a, DlgOf(m) \o CompOf(m)) = [a EXCEPT !.abort = ArrivingAbort(m)]
          <=> ~LongAbort(m)
    BY <1>1, <1>3, <1>7, <2>1, AbortRead, Zenon
  <2>3. ReadAsWritten(m) <=>
          DecodeAbort(a, DlgOf(m) \o CompOf(m)) = [a EXCEPT !.abort = ArrivingAbort(m)]
    BY <1>5, <1>6, <1>7, Zenon DEF ReadAsWritten
  <2>4. QED
    BY <1>7, <2>2, <2>3, Zenon DEF Misread, LooksLong
<1>8. CASE m.pkg # "ABORT"
  <2>1. m.comp \in AnyComponent
    BY <1>1, <1>8
  <2>2. PICK s \in Ints :
          /\ CompOf(m) = << CompPortion >> \o s
          /\ DecodeComponent(s) # Comp
          /\ DecodeComponent(s) = ArrivingComp(m.comp) <=> ~LongResult(m.comp)
    BY <1>2, <2>1, Zenon
  <2> DEFINE read == Message(m.pkg, orig, dest, DlgOf(m), DecodeComponent(s))
             sent == Message(m.pkg, orig, dest, DlgOf(m), ArrivingComp(m.comp))
  <2>3. DecodePortions(a, DlgOf(m) \o CompOf(m)) = read
    BY <1>1, <2>2, PortionsRead, Zenon
  <2>4. read = sent <=> DecodeComponent(s) = ArrivingComp(m.comp)
    <3>1. read.comp = DecodeComponent(s) /\ sent.comp = ArrivingComp(m.comp)
      BY DEF Message
    <3> HIDE DEF read, sent
    <3>2. DecodeComponent(s) = ArrivingComp(m.comp) => read = sent
      BY DEF read, sent
    <3>3. QED
      BY <3>1, <3>2
  <2>5. ReadAsWritten(m) <=> read = sent
    BY <1>5, <1>6, <1>8, <2>3, Zenon DEF ReadAsWritten
  <2>6. Misread(m) <=> LongResult(m.comp)
    BY <1>8, Zenon DEF Misread, LongAbort, LooksLong, LongResult
  <2>7. QED
    BY <2>2, <2>4, <2>5, <2>6, Zenon
<1>9. QED
  BY <1>7, <1>8

LEMMA KindsOfAny ==
  ASSUME NEW id \in Octet
  PROVE  /\ \A linked \in Octet, private \in BOOLEAN, op \in Number, data \in Octets :
              Invoke(id, linked, private, op, data) \in AnyComponent
         /\ \A private \in BOOLEAN, op \in Number, data \in Octets \ {<< >>} :
              Result(id, private, op, data) \in AnyComponent
         /\ \A type \in {NationalErr, PrivateErr}, code \in Octets \ {<< >>}, data \in Octets :
              Error(id, type, code, data) \in AnyComponent
         /\ \A type \in Octet \ {LinkedId}, code \in Octet : Reject(id, type, code) \in AnyComponent
BY DEF AnyComponent

LEMMA KindOfMessage ==
  ASSUME NEW pkg \in DOMAIN PkgTag, NEW orig \in Number, NEW dest \in Number,
         NEW dlgPdu \in {<< >>} \cup {WithLength(s) : s \in Octets},
         NEW comp \in AnyComponent \cup {Comp}, Fits(Message(pkg, orig, dest, dlgPdu, comp))
  PROVE  Message(pkg, orig, dest, dlgPdu, comp) \in AnyMessage
BY SMTT(60) DEF AnyMessage

(* So are the messages of the runs.                                          *)
THEOREM MessagesOfRunsRead == ReadUnlessMisread
<1>1. ASSUME NEW n \in Nat PROVE Filled(n) \in Octets
  <2>1. 85 \in Octet
    BY SMT DEF Octet
  <2>2. QED
    BY <2>1 DEF Octets, Filled
<1>2. /\ 0 \in Octet /\ 1 \in Octet /\ 2 \in Octet /\ 4 \in Octet /\ 5 \in Octet /\ 6 \in Octet
      /\ 213 \in Octet \ {LinkedId}
  BY SMT DEF Octet, LinkedId
<1>3. << 4 >> \in Octets \ {<< >>} /\ << 4, 5 >> \in Octets \ {<< >>}
  BY <1>2 DEF Octets
<1>4. OpCodes \subseteq Number /\ TransIds \subseteq Number
  BY CodecAssumption
<1>5. Components \subseteq AnyComponent
  <2> SUFFICES ASSUME NEW c \in Components PROVE c \in AnyComponent
    OBVIOUS
  <2>1. Data \subseteq Octets
    BY <1>1, CodecAssumption, Zenon DEF Data
  <2>2. CASE \E linked \in {0, 2}, private \in BOOLEAN, op \in OpCodes, data \in Data :
               c = Invoke(1, linked, private, op, data)
    BY <2>1, <1>2, <1>4, <2>2, KindsOfAny
  <2>3. CASE \E private \in BOOLEAN, op \in OpCodes, data \in Data \ {<< >>} :
               c = Result(1, private, op, data)
    BY <2>1, <1>2, <1>4, <2>3, KindsOfAny
  <2>4. CASE \E type \in {NationalErr, PrivateErr}, code \in {<< 4 >>, << 4, 5 >>}, data \in Data :
               c = Error(1, type, code, data)
    <3>1. PICK type \in {NationalErr, PrivateErr}, code \in {<< 4 >>, << 4, 5 >>}, data \in Data :
            c = Error(1, type, code, data)
      BY <2>4
    <3>2. code \in Octets \ {<< >>} /\ data \in Octets
      BY <1>3, <2>1
    <3>3. QED
      BY <1>2, <3>1, <3>2, KindsOfAny, Zenon
  <2>5. CASE c = Reject(1, 213, 6)
    BY <1>2, <2>5, KindsOfAny
  <2>6. QED
    BY <2>2, <2>3, <2>4, <2>5 DEF Components
<1>6. Messages \subseteq AnyMessage
  <2> SUFFICES ASSUME NEW m \in Messages PROVE m \in AnyMessage
    OBVIOUS
  <2>1. PICK pkg \in DOMAIN PkgTag, orig \in TransIds, dest \in TransIds,
             dlgPdu \in {<< >>} \cup {WithLength(Filled(n)) : n \in {2, 127, 128}},
             comp \in Components \cup {Comp} :
          m = Message(pkg, orig, dest, dlgPdu, comp) /\ Fits(m)
    BY SMTT(60) DEF Messages
  <2>2. orig \in Number /\ dest \in Number /\ comp \in AnyComponent \cup {Comp}
    BY <1>4, <1>5, <2>1, SMT
  <2>3. QED
    <3>1. dlgPdu \in {<< >>} \cup {WithLength(s) : s \in Octets}
      BY <1>1, <2>1, SMT
    <3>2. Message(pkg, orig, dest, dlgPdu, comp) \in AnyMessage
      BY <2>1, <2>2, <3>1, KindOfMessage, ZenonT(30)
    <3>3. QED
      BY <2>1, <3>2, Zenon
<1>7. QED
  BY <1>6, EveryMessageRead DEF ReadUnlessMisread

(* What a receive thread has decoded is what arrives of the message that was *)
(* sent to it, unless that was a result that looks long or an abort with a   *)
(* long dialogue portion.                                                    *)
THEOREM WhatArrivesIsRead == Spec => []ReadsWhatArrives
<1>1. ReadsWhatArrives
  BY MessagesOfRunsRead DEF ReadsWhatArrives
<1>2. QED
  BY <1>1, PTL
=============================================================================
