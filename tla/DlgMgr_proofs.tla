---------------------------- MODULE DlgMgr_proofs ----------------------------
(***************************************************************************)
(* No dialogue id is shared, whatever calls the threads of any number of   *)
(* processes make and wherever between two writes processes end.  The      *)
(* argument is about the id that a call has in hand: taken from the ring   *)
(* and not yet in a record, or zeroed and not yet in the ring.  It is in   *)
(* neither place, and nobody else is in the middle of a call then, because *)
(* the semaphore excludes (DlgSem_proofs).  When the process ends there,   *)
(* the id is lost; it is never in both places.                             *)
(*                                                                         *)
(* And calls are atomic as long as no process ends in the middle of one:   *)
(* each takes effect in the pool at its first write.  The invariant is the *)
(* one of DlgPool_proofs, about the shared memory with the writes that the *)
(* call inside has still to make.                                          *)
(***************************************************************************)
EXTENDS DlgMgr, TLAPS

SemProofs == INSTANCE DlgSem_proofs

PoolProofs == INSTANCE DlgPool_proofs WITH
  mInDlgRecordPool <- RecordsDone, dlgIdx <- RingDone, nextFreeDlgIdx <- NextDone,
  lastFreeDlgIdx <- LastDone, recordCount <- CountDone

(* The shared memory and the calls have the values the actions can give.     *)
CallTypes ==
  /\ call \in [Thread -> Calls]
  /\ \A t \in Thread : call[t].op \in {"allocate", "update"} => call[t].rec \in Content

PoolTypes ==
  /\ mInDlgRecordPool \in [DlgIds -> Content \cup {NoRecord}]
  /\ dlgIdx \in [Slots -> 0 .. MaxAllocateDlgSize]
  /\ nextFreeDlgIdx \in Slots /\ lastFreeDlgIdx \in Slots
  /\ \A id \in DlgIds : Live(id) => id \in AppIds \cup AllocIds

(* A call starts with its first write.                                       *)
WaitsAtBegin ==
  \A t \in Thread : /\ pc[t] = "waiting" => call[t].at = "begin"
                    /\ pc[t] = "outside" => call[t] = NoCall

(* A call that has an id in hand.                                            *)
HasInHand(t) ==
  \/ \E place \in {"advance", "count", "fill"} : At(t, "allocate", place)
  \/ At(t, "free", "ring")

InHandIsNowhere ==
  \A t \in Thread : HasInHand(t) =>
    call[t].id \in AllocIds /\ ~InRing(call[t].id) /\ ~Live(call[t].id)

(* What the callers keep to, as long as a call lasts.                        *)
UpdatesInUse ==
  \A t \in Thread : call[t].op = "update" =>
    /\ call[t].id \in DlgIds
    /\ call[t].id \in AppIds \/ Live(call[t].id)
    /\ ~Calling("free", call[t].id)

IInv ==
  /\ SemProofs!IInv /\ CallTypes /\ PoolTypes
  /\ WaitsAtBegin /\ InHandIsNowhere /\ UpdatesInUse /\ NoIdShared

-----------------------------------------------------------------------------
LEMMA Sizes ==
  /\ HalfMaxDlgSize \in Nat
  /\ MaxAllocateDlgSize \in Nat \ {0}
  /\ HalfMaxDlgSize + MaxAllocateDlgSize <= MaxDlgSize
  /\ MaxDlgSize \in Nat
BY PoolAssumption DEF HalfMaxDlgSize, MaxAllocateDlgSize

LEMMA IdRanges ==
  /\ AllocIds \subseteq DlgIds /\ AppIds \subseteq DlgIds
  /\ AllocIds \cap AppIds = {}
  /\ \A id \in DlgIds : id > HalfMaxDlgSize <=> id \notin AppIds
  /\ NoId \notin DlgIds
BY Sizes DEF AllocIds, DlgIds, AppIds, NoId

LEMMA NextSlot ==
  ASSUME NEW i \in Slots PROVE NextIdx(i) \in Slots
BY Sizes DEF Slots, NextIdx

(* Only the thread between Lock and UnLock writes.                           *)
LEMMA Alone ==
  ASSUME SemProofs!IInv, NEW t \in Thread, NEW u \in Thread,
         pc[t] = "inside", pc[u] = "inside"
  PROVE  t = u
BY DEF SemProofs!IInv, SemProofs!NotHeld, SemProofs!HeldBy

LEMMA SemTypes ==
  ASSUME SemProofs!IInv
  PROVE  pc \in [Thread -> {"outside", "waiting", "inside"}]
BY DEF SemProofs!IInv

LEMMA SemStep ==
  ASSUME SemProofs!IInv, [MgrNext]_vars
  PROVE  SemProofs!IInv'
<1>1. [SemProofs!Next]_(SemProofs!semVars)
  <2>1. ASSUME NEW t \in Thread, Run(t) PROVE [SemProofs!Next]_(SemProofs!semVars)
    <3>1. CASE BeginCall(t)
      BY <3>1 DEF BeginCall, BeginAllocate, BeginFree, BeginUpdate, Begin, Sem!Call,
         SemProofs!Call, SemProofs!ThreadStep, SemProofs!Next
    <3>2. CASE Enter(t)
      BY <3>2 DEF Enter, Sem!Lock, SemProofs!Lock, SemProofs!ThreadStep, SemProofs!Next
    <3>3. CASE Leave(t)
      BY <3>3 DEF Leave, Sem!UnLock, SemProofs!UnLock, SemProofs!ThreadStep, SemProofs!Next
    <3>4. CASE Step(t)
      BY <3>4 DEF Step, AllocateRefuse, AllocateWalk, AllocateWalkOn, AllocateTake,
         AllocateAdvance, AllocateCount, AllocateFill, FreeRefuse, FreeZero, FreeRing,
         FreeAdvance, FreeCount, UpdateCopy, WriteRecord, semVars, SemProofs!semVars
    <3>5. QED
      BY <2>1, <3>1, <3>2, <3>3, <3>4 DEF Run
  <2>2. ASSUME NEW p \in Process, End(p) PROVE SemProofs!Next
    BY <2>2 DEF End, Sem!Exit, SemProofs!Exit, SemProofs!Next
  <2>3. CASE UNCHANGED vars
    BY <2>3 DEF vars, semVars, SemProofs!semVars
  <2>4. QED
    BY <2>1, <2>2, <2>3 DEF MgrNext
<1>2. QED
  BY <1>1, CallersAssumption, SemProofs!StepKeepsIInv

LEMMA InitIInv ==
  ASSUME Init PROVE IInv
<1> USE Sizes
<1>1. SemProofs!IInv
  BY DEF Init, Sem!SemInit, SemProofs!IInv, SemProofs!NotHeld
<1>2. CallTypes
  BY DEF Init, NoCall, CallOf, Calls, CallTypes
<1>3. PoolTypes
  BY DEF Init, PoolInit, PoolTypes, Slots, Live
<1>4. NoIdShared
  BY IdRanges DEF Init, PoolInit, NoIdShared, NoIdTwiceInRing, Live, Slots
<1>5. WaitsAtBegin /\ InHandIsNowhere /\ UpdatesInUse
  BY DEF Init, Sem!SemInit, NoCall, CallOf, WaitsAtBegin, InHandIsNowhere, HasInHand, At, UpdatesInUse
<1>6. QED
  BY <1>1, <1>2, <1>3, <1>4, <1>5 DEF IInv
-----------------------------------------------------------------------------
(* Steps that leave the shared memory alone: calls begin, enter, leave, end. *)
LEMMA PoolStays ==
  ASSUME PoolTypes, NoIdShared, UNCHANGED poolVars
  PROVE  /\ PoolTypes' /\ NoIdShared'
         /\ \A id : Live(id)' <=> Live(id)
         /\ \A id : InRing(id)' <=> InRing(id)
BY DEF poolVars, PoolTypes, NoIdShared, NoIdTwiceInRing, Live, InRing

LEMMA BeginKeepsIInv ==
  ASSUME IInv, NEW t \in Thread, BeginCall(t)
  PROVE  CallTypes' /\ WaitsAtBegin' /\ InHandIsNowhere' /\ UpdatesInUse'
<1>1. PICK op \in {"allocate", "free", "update"}, id \in CalledIds \cup {NoId},
           rec \in Content \cup {NoRecord} :
        /\ Begin(t, op, id, rec)
        /\ op \in {"allocate", "update"} => rec \in Content
        /\ op = "free" => ~Calling("update", id)
        /\ op = "update" => id \in CalledIds /\ (id \in AppIds \/ Live(id)) /\ ~Calling("free", id)
  BY DEF BeginCall, BeginAllocate, BeginFree, BeginUpdate
<1> DEFINE new == CallOf(op, id, rec, "begin")
<1>2. /\ call' = [call EXCEPT ![t] = new] /\ pc' = [pc EXCEPT ![t] = "waiting"]
      /\ pc[t] = "outside" /\ UNCHANGED poolVars
  BY <1>1 DEF Begin, Sem!Call
<1>3. new \in Calls /\ new.op = op /\ new.id = id /\ new.rec = rec /\ new.at = "begin"
  BY CallersAssumption DEF CallOf, Calls
<1>4. call \in [Thread -> Calls] /\ pc \in [Thread -> {"outside", "waiting", "inside"}]
  BY SemTypes DEF IInv, CallTypes
<1> HIDE DEF new
<1>5. /\ call'[t] = new /\ \A u \in Thread \ {t} : call'[u] = call[u]
      /\ pc'[t] = "waiting" /\ \A u \in Thread \ {t} : pc'[u] = pc[u]
  BY <1>2, <1>4
<1>6. CallTypes'
  BY <1>1, <1>2, <1>3, <1>4, <1>5 DEF IInv, CallTypes
<1>7. WaitsAtBegin'
  BY <1>3, <1>5 DEF IInv, WaitsAtBegin
<1>8. \A x : (Live(x)' <=> Live(x)) /\ (InRing(x)' <=> InRing(x))
  BY <1>2, PoolStays DEF IInv
<1>9. InHandIsNowhere'
  BY <1>5, <1>8 DEF IInv, InHandIsNowhere, HasInHand, At
<1>10. UpdatesInUse'
  BY <1>1, <1>3, <1>5, <1>8, CallersAssumption DEF IInv, UpdatesInUse, Calling
<1>11. QED
  BY <1>6, <1>7, <1>9, <1>10

LEMMA EnterKeepsIInv ==
  ASSUME IInv, NEW t \in Thread, Enter(t)
  PROVE  CallTypes' /\ WaitsAtBegin' /\ InHandIsNowhere' /\ UpdatesInUse'
<1>1. /\ pc[t] = "waiting" /\ pc' = [pc EXCEPT ![t] = "inside"]
      /\ UNCHANGED << poolVars, call >>
  BY DEF Enter, Sem!Lock
<1>2. call[t].at = "begin"
  BY <1>1 DEF IInv, WaitsAtBegin
<1>3. pc'[t] = "inside" /\ \A u \in Thread \ {t} : pc'[u] = pc[u]
  BY <1>1, SemTypes DEF IInv
<1>4. \A x : (Live(x)' <=> Live(x)) /\ (InRing(x)' <=> InRing(x))
  BY <1>1, PoolStays DEF IInv
<1>5. CallTypes' /\ WaitsAtBegin' /\ UpdatesInUse'
  BY <1>1, <1>3, <1>4 DEF IInv, CallTypes, WaitsAtBegin, UpdatesInUse, Calling
<1>6. InHandIsNowhere'
  BY <1>1, <1>2, <1>3, <1>4 DEF IInv, InHandIsNowhere, HasInHand, At
<1>7. QED
  BY <1>5, <1>6

(* Calls that end, with their process or without.                            *)
LEMMA CallsEnd ==
  ASSUME IInv, UNCHANGED poolVars, NEW Ended \in SUBSET Thread,
         call' = [t \in Thread |-> IF t \in Ended THEN NoCall ELSE call[t]],
         pc' = [t \in Thread |-> IF t \in Ended THEN "outside" ELSE pc[t]]
  PROVE  CallTypes' /\ WaitsAtBegin' /\ InHandIsNowhere' /\ UpdatesInUse'
<1>1. NoCall \in Calls /\ NoCall.op = "none"
  BY DEF NoCall, CallOf, Calls
<1>2. \A x : (Live(x)' <=> Live(x)) /\ (InRing(x)' <=> InRing(x))
  BY PoolStays DEF IInv
<1>3. \A t \in Thread : IF t \in Ended THEN call'[t] = NoCall /\ pc'[t] = "outside"
                                       ELSE call'[t] = call[t] /\ pc'[t] = pc[t]
  OBVIOUS
<1>4. CallTypes'
  BY <1>1, <1>3 DEF IInv, CallTypes
<1>5. WaitsAtBegin' /\ InHandIsNowhere'
  BY <1>2, <1>3 DEF IInv, WaitsAtBegin, InHandIsNowhere, HasInHand, At
<1>6. UpdatesInUse'
  BY <1>1, <1>2, <1>3 DEF IInv, UpdatesInUse, Calling
<1>7. QED
  BY <1>4, <1>5, <1>6

LEMMA LeaveKeepsIInv ==
  ASSUME IInv, NEW t \in Thread, Leave(t)
  PROVE  CallTypes' /\ WaitsAtBegin' /\ InHandIsNowhere' /\ UpdatesInUse'
<1>1. /\ call' = [call EXCEPT ![t] = NoCall] /\ pc' = [pc EXCEPT ![t] = "outside"]
      /\ UNCHANGED poolVars
  BY DEF Leave, Sem!UnLock
<1>2. /\ call' = [u \in Thread |-> IF u \in {t} THEN NoCall ELSE call[u]]
      /\ pc' = [u \in Thread |-> IF u \in {t} THEN "outside" ELSE pc[u]]
  BY <1>1, SemTypes DEF IInv, CallTypes
<1> DEFINE Ended == {t}
<1>3. /\ Ended \in SUBSET Thread
      /\ call' = [u \in Thread |-> IF u \in Ended THEN NoCall ELSE call[u]]
      /\ pc' = [u \in Thread |-> IF u \in Ended THEN "outside" ELSE pc[u]]
  BY <1>2
<1> HIDE DEF Ended
<1>4. QED
  BY <1>1, <1>3, CallsEnd

LEMMA EndKeepsIInv ==
  ASSUME IInv, NEW p \in Process, End(p)
  PROVE  CallTypes' /\ WaitsAtBegin' /\ InHandIsNowhere' /\ UpdatesInUse'
<1> DEFINE Ended == {t \in Thread : ProcessOf[t] = p}
<1>1. UNCHANGED poolVars
  BY DEF End
<1>2. /\ call' = [t \in Thread |-> IF t \in Ended THEN NoCall ELSE call[t]]
      /\ pc' = [t \in Thread |-> IF t \in Ended THEN "outside" ELSE pc[t]]
  BY DEF End, Sem!Exit
<1>3. QED
  BY <1>1, <1>2, CallsEnd
-----------------------------------------------------------------------------
(* A write of the call in progress.  What it does to the other calls: they   *)
(* have nothing in hand, and stay as they are.                               *)
LEMMA WriteFrame ==
  ASSUME IInv, NEW t \in Thread, pc[t] = "inside", UNCHANGED pc,
         NEW c \in Calls, call' = [call EXCEPT ![t] = c],
         c.op = call[t].op, c.rec = call[t].rec, c.op # "allocate" => c.id = call[t].id
  PROVE  /\ CallTypes' /\ WaitsAtBegin'
         /\ call'[t] = c
         /\ \A u \in Thread \ {t} : call'[u] = call[u] /\ ~HasInHand(u)'
         /\ \A id : Calling("free", id)' <=> Calling("free", id)
<1>1. call'[t] = c /\ \A u \in Thread \ {t} : call'[u] = call[u]
  BY DEF IInv, CallTypes
<1>2. CallTypes' /\ WaitsAtBegin'
  BY <1>1 DEF IInv, CallTypes, WaitsAtBegin
<1>3. \A u \in Thread \ {t} : ~HasInHand(u)'
  BY Alone DEF IInv, HasInHand, At
<1>4. \A id : Calling("free", id)' <=> Calling("free", id)
  BY <1>1 DEF Calling
<1>5. QED
  BY <1>1, <1>2, <1>3, <1>4

(* Records stay in use while they are updated when no write zeroes a record  *)
(* but the one that is freed.                                                *)
LEMMA UpdatesFrame ==
  ASSUME IInv, NEW t \in Thread, NEW c \in Calls, call' = [call EXCEPT ![t] = c],
         c.op = call[t].op, c.op # "allocate" => c.id = call[t].id,
         \A id \in DlgIds : Live(id) => Live(id)' \/ Calling("free", id)
  PROVE  UpdatesInUse'
<1>1. call'[t] = c /\ \A u \in Thread \ {t} : call'[u] = call[u]
  BY DEF IInv, CallTypes
<1>2. \A id : Calling("free", id)' <=> Calling("free", id)
  BY <1>1 DEF Calling
<1>3. QED
  BY <1>1, <1>2 DEF IInv, UpdatesInUse

Parts == CallTypes /\ PoolTypes /\ WaitsAtBegin /\ InHandIsNowhere /\ UpdatesInUse /\ NoIdShared

(* Writes of the positions and of the count, and calls that are refused.     *)
LEMMA PositionsKeepIInv ==
  ASSUME IInv, NEW t \in Thread,
         \/ AllocateRefuse(t) \/ AllocateWalk(t) \/ AllocateWalkOn(t)
         \/ AllocateAdvance(t) \/ AllocateCount(t)
         \/ FreeRefuse(t) \/ FreeAdvance(t) \/ FreeCount(t)
  PROVE  Parts'
<1> USE DEF IInv
<1>1. /\ pc[t] = "inside" /\ UNCHANGED << pc, mInDlgRecordPool, dlgIdx >>
      /\ nextFreeDlgIdx' \in {nextFreeDlgIdx, NextIdx(nextFreeDlgIdx)}
      /\ lastFreeDlgIdx' \in {lastFreeDlgIdx, NextIdx(lastFreeDlgIdx)}
  BY DEF AllocateRefuse, AllocateWalk, AllocateWalkOn, AllocateAdvance, AllocateCount,
     FreeRefuse, FreeAdvance, FreeCount, At, GoTo, WalkOn, poolVars, semVars
<1>2. PICK c \in Calls :
        /\ call' = [call EXCEPT ![t] = c]
        /\ c.op = call[t].op /\ c.rec = call[t].rec /\ c.id = call[t].id
        /\ c.op = "free" => c.at # "ring"
        /\ c.op = "allocate" /\ c.at \in {"advance", "count", "fill"} => HasInHand(t)
  <2>1. call \in [Thread -> Calls]
    BY DEF CallTypes
  <2>2. CASE AllocateWalk(t)
    <3>1. [call[t] EXCEPT !.start = nextFreeDlgIdx, !.at = "walk"] \in Calls
      BY <2>1 DEF PoolTypes, Calls
    <3>2. call' = [call EXCEPT ![t] = [call[t] EXCEPT !.start = nextFreeDlgIdx, !.at = "walk"]]
      BY <2>1, <2>2 DEF AllocateWalk
    <3>3. call[t].op = "allocate"
      BY <2>2 DEF AllocateWalk, At
    <3>4. QED
      BY <2>1, <3>1, <3>2, <3>3 DEF Calls
  <2>3. CASE AllocateWalkOn(t)
    BY <2>1, <2>3 DEF AllocateWalkOn, At, Calls
  <2>4. CASE \/ AllocateRefuse(t) \/ AllocateAdvance(t) \/ AllocateCount(t)
             \/ FreeRefuse(t) \/ FreeAdvance(t) \/ FreeCount(t)
    <3>1. PICK place \in {"end", "count", "fill"} :
            /\ call' = [call EXCEPT ![t] = [call[t] EXCEPT !.at = place]]
            /\ call[t].op = "allocate" /\ place \in {"count", "fill"} => HasInHand(t)
      BY <2>4 DEF AllocateRefuse, AllocateAdvance, AllocateCount, FreeRefuse, FreeAdvance,
         FreeCount, GoTo, At, HasInHand
    <3>2. [call[t] EXCEPT !.at = place] \in Calls
      BY <2>1 DEF Calls
    <3>3. QED
      BY <2>1, <3>1, <3>2 DEF Calls
  <2>5. QED
    BY <2>2, <2>3, <2>4
<1>3. \A id : (Live(id)' <=> Live(id)) /\ (InRing(id)' <=> InRing(id))
  BY <1>1 DEF Live, InRing
<1>4. PoolTypes' /\ NoIdShared'
  BY <1>1, <1>3, NextSlot DEF PoolTypes, NoIdShared, NoIdTwiceInRing
<1>5. CallTypes' /\ WaitsAtBegin'
  BY <1>1, <1>2, WriteFrame
<1>6. UpdatesInUse'
  BY <1>2, <1>3, UpdatesFrame
<1>7. InHandIsNowhere'
  <2>1. \A u \in Thread \ {t} : ~HasInHand(u)'
    BY <1>1, <1>2, WriteFrame
  <2>2. HasInHand(t)' => HasInHand(t) /\ call'[t].id = call[t].id
    <3>1. call'[t] = c
      BY <1>1, <1>2, WriteFrame
    <3>2. QED
      BY <1>2, <3>1 DEF HasInHand, At
  <2>3. QED
    BY <1>3, <2>1, <2>2 DEF InHandIsNowhere
<1>8. QED
  BY <1>4, <1>5, <1>6, <1>7 DEF Parts

(* The id taken leaves the ring, where it was once, and is in hand.          *)
LEMMA TakeKeepsIInv ==
  ASSUME IInv, NEW t \in Thread, AllocateTake(t)
  PROVE  Parts'
<1> DEFINE slot == nextFreeDlgIdx
<1> USE DEF IInv
<1>1. /\ pc[t] = "inside" /\ UNCHANGED << pc, mInDlgRecordPool, nextFreeDlgIdx, lastFreeDlgIdx >>
      /\ call[t].op = "allocate" /\ dlgIdx[slot] # 0
      /\ dlgIdx' = [dlgIdx EXCEPT ![slot] = 0]
  BY DEF AllocateTake, At, NextTaken, semVars
<1>2. PICK id \in AllocIds :
        /\ id = dlgIdx[slot] + HalfMaxDlgSize /\ id - HalfMaxDlgSize = dlgIdx[slot]
        /\ slot \in Slots /\ dlgIdx \in [Slots -> 0 .. MaxAllocateDlgSize]
  <2>1. slot \in Slots /\ dlgIdx \in [Slots -> 0 .. MaxAllocateDlgSize]
    BY DEF PoolTypes
  <2>2. /\ dlgIdx[slot] + HalfMaxDlgSize \in AllocIds
        /\ dlgIdx[slot] + HalfMaxDlgSize - HalfMaxDlgSize = dlgIdx[slot]
    BY <1>1, <2>1, Sizes DEF AllocIds
  <2>3. QED
    BY <1>1, <2>1, <2>2, Sizes
<1> DEFINE c == [call[t] EXCEPT !.id = id, !.at = "advance"]
<1>3. call \in [Thread -> Calls] /\ call[t] \in Calls
  BY DEF CallTypes
<1>4. c \in Calls /\ c.op = "allocate" /\ c.rec = call[t].rec /\ c.id = id
  BY <1>1, <1>2, <1>3, IdRanges DEF Calls
<1>5. call' = [call EXCEPT ![t] = c]
  BY <1>2, <1>3 DEF AllocateTake
<1>6. InRing(id) /\ ~InRing(id)'
  <2>1. \A i \in Slots : dlgIdx'[i] # dlgIdx[slot]
    BY <1>1, <1>2 DEF NoIdShared, NoIdTwiceInRing
  <2>2. QED
    BY <1>2, <2>1 DEF InRing
<1>7. \A x \in AllocIds : InRing(x)' => InRing(x)
  BY <1>1, <1>2, Sizes DEF InRing, AllocIds
<1>8. \A x : Live(x)' <=> Live(x)
  BY <1>1 DEF Live
<1>9. NoIdShared'
  BY <1>1, <1>2, <1>7, <1>8 DEF NoIdShared, NoIdTwiceInRing
<1>10. PoolTypes'
  BY <1>1, <1>2, <1>8, Sizes DEF PoolTypes
<1> HIDE DEF c
<1>11. CallTypes' /\ WaitsAtBegin' /\ call'[t] = c /\ \A u \in Thread \ {t} : ~HasInHand(u)'
  BY <1>1, <1>4, <1>5, WriteFrame
<1>12. UpdatesInUse'
  BY <1>1, <1>4, <1>5, <1>8, UpdatesFrame
<1>13. InHandIsNowhere'
  <2>1. id \in AllocIds /\ ~InRing(id)' /\ ~Live(id)'
    BY <1>2, <1>6, <1>8 DEF NoIdShared
  <2>2. QED
    BY <1>4, <1>11, <2>1 DEF InHandIsNowhere
<1>14. QED
  BY <1>9, <1>10, <1>11, <1>12, <1>13 DEF Parts

(* A record is filled: of the id in hand, or of one that is in use or the    *)
(* application's.                                                            *)
LEMMA FillKeepsIInv ==
  ASSUME IInv, NEW t \in Thread, AllocateFill(t) \/ UpdateCopy(t)
  PROVE  Parts'
<1> DEFINE id == call[t].id
           c == [call[t] EXCEPT !.at = "end"]
<1> USE DEF IInv
<1>1. /\ pc[t] = "inside" /\ UNCHANGED << pc, dlgIdx, nextFreeDlgIdx, lastFreeDlgIdx >>
      /\ call[t].op \in {"allocate", "update"}
      /\ call[t].op = "allocate" => HasInHand(t)
      /\ mInDlgRecordPool' = [mInDlgRecordPool EXCEPT ![id] = call[t].rec]
  BY DEF AllocateFill, UpdateCopy, WriteRecord, At, HasInHand, semVars
<1>2. call \in [Thread -> Calls] /\ call[t] \in Calls /\ call[t].rec \in Content
  BY <1>1 DEF CallTypes
<1>3. id \in DlgIds /\ (id \in AppIds \/ (id \in AllocIds /\ ~InRing(id)))
  BY <1>1, IdRanges DEF InHandIsNowhere, UpdatesInUse, PoolTypes, NoIdShared
<1>4. c \in Calls /\ c.op = call[t].op /\ c.rec = call[t].rec /\ c.id = id /\ c.at = "end"
  BY <1>2 DEF Calls
<1>5. call' = [call EXCEPT ![t] = c]
  BY <1>2 DEF AllocateFill, UpdateCopy, WriteRecord, GoTo
<1>6. \A x \in DlgIds : Live(x)' <=> (Live(x) \/ x = id)
  BY <1>1, <1>2, <1>3, PoolAssumption DEF Live, PoolTypes
<1>7. \A x : InRing(x)' <=> InRing(x)
  BY <1>1 DEF InRing
<1>8. NoIdShared'
  BY <1>1, <1>3, <1>6, <1>7, IdRanges DEF NoIdShared, NoIdTwiceInRing
<1>9. PoolTypes'
  BY <1>1, <1>2, <1>3, <1>6 DEF PoolTypes
<1> HIDE DEF c, id
<1>10. CallTypes' /\ WaitsAtBegin' /\ call'[t] = c /\ \A u \in Thread \ {t} : ~HasInHand(u)'
  BY <1>1, <1>4, <1>5, WriteFrame DEF id
<1>11. UpdatesInUse'
  BY <1>4, <1>5, <1>6, UpdatesFrame DEF id
<1>12. InHandIsNowhere'
  BY <1>4, <1>10 DEF InHandIsNowhere, HasInHand, At
<1>13. QED
  BY <1>8, <1>9, <1>10, <1>11, <1>12 DEF Parts

(* A record that was in use is zeroed, and its id is in hand.                *)
LEMMA ZeroKeepsIInv ==
  ASSUME IInv, NEW t \in Thread, FreeZero(t)
  PROVE  Parts'
<1> DEFINE id == call[t].id
           place == IF id > HalfMaxDlgSize THEN "ring" ELSE "end"
           c == [call[t] EXCEPT !.at = place]
<1> USE DEF IInv
<1>1. /\ pc[t] = "inside" /\ UNCHANGED << pc, dlgIdx, nextFreeDlgIdx, lastFreeDlgIdx >>
      /\ call[t].op = "free" /\ id \in DlgIds /\ Live(id)
      /\ mInDlgRecordPool' = [mInDlgRecordPool EXCEPT ![id] = NoRecord]
  BY DEF FreeZero, At, CanFree, semVars
<1>2. call \in [Thread -> Calls] /\ call[t] \in Calls
  BY DEF CallTypes
<1>3. place = "ring" => id \in AllocIds /\ ~InRing(id)
  BY <1>1, IdRanges DEF PoolTypes, NoIdShared
<1>4. c \in Calls /\ c.op = "free" /\ c.rec = call[t].rec /\ c.id = id /\ c.at = place
  BY <1>1, <1>2 DEF Calls
<1>5. call' = [call EXCEPT ![t] = c]
  BY <1>2 DEF FreeZero, GoTo
<1>6. \A x \in DlgIds : Live(x)' <=> (Live(x) /\ x # id)
  BY <1>1 DEF Live, PoolTypes
<1>7. \A x : InRing(x)' <=> InRing(x)
  BY <1>1 DEF InRing
<1>8. NoIdShared'
  BY <1>1, <1>6, <1>7, IdRanges DEF NoIdShared, NoIdTwiceInRing
<1>9. PoolTypes'
  BY <1>1, <1>6 DEF PoolTypes
<1>10. Calling("free", id)
  BY <1>1 DEF Calling
<1> HIDE DEF c, id, place
<1>11. CallTypes' /\ WaitsAtBegin' /\ call'[t] = c /\ \A u \in Thread \ {t} : ~HasInHand(u)'
  BY <1>1, <1>4, <1>5, WriteFrame DEF id
<1>12. UpdatesInUse'
  BY <1>1, <1>4, <1>5, <1>6, <1>10, UpdatesFrame DEF id
<1>13. HasInHand(t)' => place = "ring"
  BY <1>4, <1>11 DEF HasInHand, At
<1>14. InHandIsNowhere'
  BY <1>1, <1>3, <1>4, <1>6, <1>7, <1>11, <1>13 DEF InHandIsNowhere
<1>15. QED
  BY <1>8, <1>9, <1>11, <1>12, <1>14 DEF Parts

(* The id in hand goes to the ring.  What the slot held before is lost, if   *)
(* it held an id: a process that ended may have left the positions wrong.    *)
LEMMA RingKeepsIInv ==
  ASSUME IInv, NEW t \in Thread, FreeRing(t)
  PROVE  Parts'
<1> DEFINE slot == lastFreeDlgIdx
           id == call[t].id
           c == [call[t] EXCEPT !.at = "advance"]
<1> USE DEF IInv
<1>1. /\ pc[t] = "inside" /\ UNCHANGED << pc, mInDlgRecordPool, nextFreeDlgIdx, lastFreeDlgIdx >>
      /\ call[t].op = "free" /\ HasInHand(t)
      /\ dlgIdx' = [dlgIdx EXCEPT ![slot] = id - HalfMaxDlgSize]
  BY DEF FreeRing, At, HasInHand, semVars
<1>2. call \in [Thread -> Calls] /\ call[t] \in Calls
  BY DEF CallTypes
<1>3. id \in AllocIds /\ ~InRing(id) /\ ~Live(id)
  BY <1>1 DEF InHandIsNowhere
<1>4. c \in Calls /\ c.op = "free" /\ c.rec = call[t].rec /\ c.id = id /\ c.at = "advance"
  BY <1>1, <1>2 DEF Calls
<1>5. call' = [call EXCEPT ![t] = c]
  BY <1>2 DEF FreeRing, GoTo
<1>6. /\ slot \in Slots /\ dlgIdx \in [Slots -> 0 .. MaxAllocateDlgSize]
      /\ id - HalfMaxDlgSize \in 0 .. MaxAllocateDlgSize
  BY <1>3, Sizes DEF PoolTypes, AllocIds
<1>7. \A x : Live(x)' <=> Live(x)
  BY <1>1 DEF Live
<1>8. NoIdTwiceInRing'
  BY <1>1, <1>3, <1>6 DEF NoIdShared, NoIdTwiceInRing, InRing
<1>9. \A x \in AllocIds : InRing(x)' => InRing(x) \/ x = id
  BY <1>1, <1>3, <1>6, Sizes DEF InRing, AllocIds
<1>10. NoIdShared'
  BY <1>3, <1>7, <1>8, <1>9 DEF NoIdShared
<1>11. PoolTypes'
  BY <1>1, <1>6, <1>7 DEF PoolTypes
<1> HIDE DEF c, id
<1>12. CallTypes' /\ WaitsAtBegin' /\ call'[t] = c /\ \A u \in Thread \ {t} : ~HasInHand(u)'
  BY <1>1, <1>4, <1>5, WriteFrame DEF id
<1>13. UpdatesInUse'
  BY <1>1, <1>4, <1>5, <1>7, UpdatesFrame DEF id
<1>14. InHandIsNowhere'
  BY <1>4, <1>12 DEF InHandIsNowhere, HasInHand, At
<1>15. QED
  BY <1>10, <1>11, <1>12, <1>13, <1>14 DEF Parts

-----------------------------------------------------------------------------
LEMMA StepKeepsIInv ==
  ASSUME IInv, [MgrNext]_vars
  PROVE  IInv'
<1>1. SemProofs!IInv'
  BY SemStep DEF IInv
<1>2. ASSUME NEW t \in Thread, Step(t) PROVE Parts'
  BY <1>2, PositionsKeepIInv, TakeKeepsIInv, FillKeepsIInv, ZeroKeepsIInv, RingKeepsIInv
  DEF Step
<1>3. ASSUME UNCHANGED poolVars PROVE PoolTypes' /\ NoIdShared'
  BY <1>3, PoolStays DEF IInv
<1>4. ASSUME NEW t \in Thread, BeginCall(t) \/ Enter(t) \/ Leave(t) PROVE Parts'
  <2>1. UNCHANGED poolVars
    BY <1>4 DEF BeginCall, BeginAllocate, BeginFree, BeginUpdate, Begin, Enter, Leave
  <2>2. QED
    BY <1>3, <1>4, <2>1, BeginKeepsIInv, EnterKeepsIInv, LeaveKeepsIInv DEF Parts
<1>5. ASSUME NEW p \in Process, End(p) PROVE Parts'
  <2>1. UNCHANGED poolVars
    BY <1>5 DEF End
  <2>2. QED
    BY <1>3, <1>5, <2>1, EndKeepsIInv DEF Parts
<1>6. ASSUME UNCHANGED vars PROVE Parts'
  <2>1. UNCHANGED poolVars /\ UNCHANGED call /\ UNCHANGED pc
    BY <1>6 DEF vars, semVars
  <2>2. \A x : (Live(x)' <=> Live(x)) /\ (InRing(x)' <=> InRing(x))
    BY <2>1, PoolStays DEF IInv
  <2>3. CallTypes' /\ WaitsAtBegin' /\ InHandIsNowhere' /\ UpdatesInUse'
    BY <2>1, <2>2 DEF IInv, CallTypes, WaitsAtBegin, InHandIsNowhere, HasInHand, At,
       UpdatesInUse, Calling
  <2>4. QED
    BY <1>3, <2>1, <2>3 DEF Parts
<1>7. Parts'
  <2>1. ASSUME NEW t \in Thread, Run(t) PROVE Parts'
    BY <1>2, <1>4, <2>1 DEF Run
  <2>2. QED
    BY <1>5, <1>6, <2>1 DEF MgrNext
<1>8. QED
  BY <1>1, <1>7 DEF IInv, Parts

(* For any pool, any number of processes and threads, and processes that end *)
(* between any two writes: no id comes to be twice in the ring, or in the    *)
(* ring while its record is in use.                                          *)
THEOREM NoIdIsShared == MgrSpec => []NoIdShared
<1>1. Init => IInv
  BY InitIInv
<1>2. IInv /\ [MgrNext]_vars => IInv'
  BY StepKeepsIInv
<1>3. IInv => NoIdShared
  BY DEF IInv
<1>4. QED
  BY <1>1, <1>2, <1>3, PTL DEF MgrSpec
-----------------------------------------------------------------------------
(* The refinement.  The call inside, if there is one, decides which writes   *)
(* count as made: those it has still to make.                                *)
Fills(c)     == c.op = "allocate" /\ c.at \in {"advance", "count", "fill"}
Advances(c)  == c.op = "allocate" /\ c.at = "advance"
Counts(c)    == c.op = "allocate" /\ c.at \in {"advance", "count"}
GivesBack(c) == c.op = "free" /\ c.at = "ring"
Follows(c)   == c.op = "free" /\ c.at \in {"ring", "advance"}
Uncounts(c)  == c.op = "free" /\ c.at \in {"ring", "advance", "count"}

DoneBy(c) ==
  /\ RecordsDone = IF Fills(c) THEN [mInDlgRecordPool EXCEPT ![c.id] = c.rec] ELSE mInDlgRecordPool
  /\ RingDone = IF GivesBack(c)
                THEN [dlgIdx EXCEPT ![lastFreeDlgIdx] = c.id - HalfMaxDlgSize] ELSE dlgIdx
  /\ NextDone = IF Advances(c) THEN NextIdx(nextFreeDlgIdx) ELSE nextFreeDlgIdx
  /\ LastDone = IF Follows(c) THEN NextIdx(lastFreeDlgIdx) ELSE lastFreeDlgIdx
  /\ CountDone = IF Counts(c) THEN Increment(recordCount)
                 ELSE IF Uncounts(c) THEN Decrement(recordCount) ELSE recordCount

NothingDone ==
  << RecordsDone, RingDone, NextDone, LastDone, CountDone >> = poolVars

(* Before the first write of a call, and after the last.                     *)
Untouched(c) == ~Fills(c) /\ ~Uncounts(c)

MapFits ==
  /\ \A t \in Thread : pc[t] = "inside" => DoneBy(call[t])
  /\ (\A t \in Thread : pc[t] = "inside" => Untouched(call[t])) => NothingDone

LEMMA MapHolds == SemProofs!IInv => MapFits
<1> SUFFICES ASSUME SemProofs!IInv PROVE MapFits
    OBVIOUS
<1>1. ASSUME NEW t \in Thread, pc[t] = "inside" PROVE DoneBy(call[t])
  <2>1. ASSUME NEW op, NEW places
        PROVE  ToMake(op, places) <=> call[t].op = op /\ call[t].at \in places
    BY <1>1, Alone DEF ToMake, At
  <2>2. call[t].op = "allocate" => Allocating = t
    BY <1>1, Alone DEF Allocating, At
  <2>3. call[t].op = "free" => Freeing = t
    BY <1>1, Alone DEF Freeing, At
  <2>4. RecordsDone = IF Fills(call[t]) THEN [mInDlgRecordPool EXCEPT ![call[t].id] = call[t].rec]
                      ELSE mInDlgRecordPool
    BY <2>1, <2>2 DEF RecordsDone, Fills
  <2>5. RingDone = IF GivesBack(call[t])
                   THEN [dlgIdx EXCEPT ![lastFreeDlgIdx] = call[t].id - HalfMaxDlgSize]
                   ELSE dlgIdx
    BY <2>1, <2>3 DEF RingDone, GivesBack
  <2>6. QED
    BY <2>1, <2>4, <2>5
    DEF DoneBy, NextDone, LastDone, CountDone, Advances, Follows, Counts, Uncounts
<1>2. ASSUME \A t \in Thread : pc[t] = "inside" => Untouched(call[t])
      PROVE  NothingDone
  <2>1. /\ \A places \in SUBSET {"advance", "count", "fill"} : ~ToMake("allocate", places)
        /\ \A places \in SUBSET {"ring", "advance", "count"} : ~ToMake("free", places)
    BY <1>2 DEF ToMake, At, Untouched, Fills, Uncounts
  <2>2. QED
    BY <2>1 DEF NothingDone, RecordsDone, RingDone, NextDone, LastDone, CountDone, poolVars
<1>3. QED
  BY <1>1, <1>2 DEF MapFits

LEMMA MapKept == SemProofs!IInv /\ SemProofs!IInv' => MapFits /\ MapFits'
BY MapHolds, PTL

LEMMA Settled ==
  ASSUME MapFits, NEW t \in Thread, pc[t] = "inside", Untouched(call[t])
  PROVE  NothingDone
BY DEF MapFits, DoneBy, NothingDone, poolVars, Fills, Advances, Counts, GivesBack,
   Follows, Uncounts, Untouched

(* As long as no process ended in the middle of a call, the writes that are  *)
(* counted as made leave what calls in one step would leave.  Then the next  *)
(* slot is filled when any is, and no allocation walks the ring.             *)
NoWalk     == \A t \in Thread : call[t].at # "walk"

WholeCalls == ~torn => PoolProofs!IInv /\ NoWalk

(* A call of the pool, in one step, or none.                                 *)
PoolStep == PoolProofs!Next \/ UNCHANGED PoolProofs!poolVars

LEMMA SameSizes ==
  /\ PoolProofs!HalfMaxDlgSize = HalfMaxDlgSize
  /\ PoolProofs!DlgIds = DlgIds /\ PoolProofs!AppIds = AppIds
  /\ PoolProofs!MaxAllocateDlgSize = MaxAllocateDlgSize
  /\ \A i : PoolProofs!NextIdx(i) = NextIdx(i)
  /\ \A i : PoolProofs!Increment(i) = Increment(i) /\ PoolProofs!Decrement(i) = Decrement(i)
BY DEF PoolProofs!HalfMaxDlgSize, HalfMaxDlgSize, PoolProofs!MaxAllocateDlgSize, MaxAllocateDlgSize,
   PoolProofs!DlgIds, DlgIds, PoolProofs!AppIds, AppIds, PoolProofs!NextIdx, NextIdx,
   PoolProofs!Increment, Increment, PoolProofs!Decrement, Decrement

LEMMA WriteDone ==
  ASSUME MapFits', NEW t \in Thread, pc'[t] = "inside"
  PROVE  DoneBy(call[t])'
BY DEF MapFits

LEMMA TakeAllocates ==
  ASSUME IInv, MapFits, MapFits', PoolProofs!IInv, NEW t \in Thread, AllocateTake(t)
  PROVE  PoolProofs!Next
<1> DEFINE c == [call[t] EXCEPT !.id = dlgIdx[nextFreeDlgIdx] + HalfMaxDlgSize, !.at = "advance"]
           rec == call[t].rec
<1>1. /\ pc[t] = "inside" /\ pc' = pc /\ call[t].op = "allocate"
      /\ call[t].at \in {"begin", "walk"} /\ dlgIdx[nextFreeDlgIdx] # 0
      /\ dlgIdx' = [dlgIdx EXCEPT ![nextFreeDlgIdx] = 0]
      /\ UNCHANGED << mInDlgRecordPool, nextFreeDlgIdx, lastFreeDlgIdx, recordCount >>
  BY DEF AllocateTake, At, NextTaken, semVars
<1>2. call \in [Thread -> Calls] /\ call[t] \in Calls /\ rec \in Content
  BY <1>1 DEF IInv, CallTypes
<1>3. call'[t] = c
  BY <1>2 DEF AllocateTake
<1>4. /\ c.op = "allocate" /\ c.at = "advance" /\ c.rec = rec
      /\ c.id = dlgIdx[nextFreeDlgIdx] + HalfMaxDlgSize
  BY <1>1, <1>2 DEF Calls
<1> HIDE DEF c, rec
<1>5. NothingDone
  BY <1>1, Settled DEF Untouched, Fills, Uncounts
<1>6. /\ RecordsDone = mInDlgRecordPool /\ RingDone = dlgIdx /\ NextDone = nextFreeDlgIdx
      /\ LastDone = lastFreeDlgIdx /\ CountDone = recordCount
  BY <1>5 DEF NothingDone, poolVars
<1>7. DoneBy(call[t])'
  BY <1>1, WriteDone
<1>8. /\ RecordsDone' = [RecordsDone EXCEPT ![dlgIdx[nextFreeDlgIdx] + HalfMaxDlgSize] = rec]
      /\ RingDone' = [RingDone EXCEPT ![NextDone] = 0]
      /\ NextDone' = NextIdx(NextDone)
      /\ LastDone' = LastDone /\ CountDone' = Increment(CountDone)
  BY <1>1, <1>3, <1>4, <1>6, <1>7
  DEF DoneBy, Fills, Advances, Counts, GivesBack, Follows, Uncounts, NextIdx, Increment
<1>9. PoolProofs!CanAllocate
  BY <1>1, <1>6 DEF PoolProofs!CanAllocate
<1>10. PoolProofs!SlotToTake = NextDone
  BY <1>9, PoolAssumption, PoolProofs!NextSlotIsFilled DEF PoolProofs!IInv
<1>11. PoolProofs!IdToTake = dlgIdx[nextFreeDlgIdx] + HalfMaxDlgSize
  BY <1>6, <1>10, SameSizes DEF PoolProofs!IdToTake
<1>12. PoolProofs!Allocate(rec)
  BY <1>8, <1>9, <1>10, <1>11, SameSizes DEF PoolProofs!Allocate
<1>13. QED
  BY <1>2, <1>12 DEF PoolProofs!Next

LEMMA ZeroFrees ==
  ASSUME IInv, MapFits, MapFits', PoolProofs!IInv, NEW t \in Thread, FreeZero(t)
  PROVE  PoolProofs!Next
<1> DEFINE id == call[t].id
           place == IF id > HalfMaxDlgSize THEN "ring" ELSE "end"
           c == [call[t] EXCEPT !.at = place]
<1>1. /\ pc[t] = "inside" /\ pc' = pc /\ call[t].op = "free" /\ call[t].at = "begin"
      /\ id \in DlgIds /\ Live(id)
      /\ mInDlgRecordPool' = [mInDlgRecordPool EXCEPT ![id] = NoRecord]
      /\ UNCHANGED << dlgIdx, nextFreeDlgIdx, lastFreeDlgIdx, recordCount >>
  BY DEF FreeZero, At, CanFree, semVars
<1>2. call \in [Thread -> Calls] /\ call[t] \in Calls
  BY DEF IInv, CallTypes
<1>3. call'[t] = c
  BY <1>2 DEF FreeZero, GoTo
<1>4. c.op = "free" /\ c.at = place /\ c.id = id
  BY <1>1, <1>2 DEF Calls
<1> HIDE DEF c, id
<1>5. NothingDone
  BY <1>1, Settled DEF Untouched, Fills, Uncounts
<1>6. /\ RecordsDone = mInDlgRecordPool /\ RingDone = dlgIdx /\ NextDone = nextFreeDlgIdx
      /\ LastDone = lastFreeDlgIdx /\ CountDone = recordCount
  BY <1>5 DEF NothingDone, poolVars
<1>7. DoneBy(call[t])'
  BY <1>1, WriteDone
<1>8. RecordsDone' = [RecordsDone EXCEPT ![id] = NoRecord] /\ NextDone' = NextDone
  BY <1>1, <1>3, <1>4, <1>6, <1>7 DEF DoneBy, Fills, Advances
<1>9. PoolProofs!CanFree(id)
  BY <1>1, <1>6, SameSizes DEF PoolProofs!CanFree, PoolProofs!Live, Live
<1>10. CASE id > HalfMaxDlgSize
  <2>1. /\ RingDone' = [RingDone EXCEPT ![LastDone] = id - HalfMaxDlgSize]
        /\ LastDone' = NextIdx(LastDone) /\ CountDone' = Decrement(CountDone)
    BY <1>1, <1>3, <1>4, <1>6, <1>7, <1>10
    DEF DoneBy, Counts, GivesBack, Follows, Uncounts, NextIdx, Decrement
  <2>2. PoolProofs!FreeAllocated(id)
    BY <1>8, <1>9, <1>10, <2>1, SameSizes DEF PoolProofs!FreeAllocated
  <2>3. QED
    BY <1>1, <2>2, SameSizes DEF PoolProofs!Next
<1>11. CASE ~(id > HalfMaxDlgSize)
  <2>1. RingDone' = RingDone /\ LastDone' = LastDone /\ CountDone' = CountDone
    BY <1>1, <1>3, <1>4, <1>6, <1>7, <1>11
    DEF DoneBy, Counts, GivesBack, Follows, Uncounts
  <2>2. id <= HalfMaxDlgSize
    BY <1>1, <1>11, Sizes DEF DlgIds
  <2>3. PoolProofs!FreeAppChosen(id)
    BY <1>8, <1>9, <2>1, <2>2, SameSizes DEF PoolProofs!FreeAppChosen
  <2>4. QED
    BY <1>1, <2>3, SameSizes DEF PoolProofs!Next
<1>12. QED
  BY <1>10, <1>11

LEMMA CopyUpdates ==
  ASSUME IInv, MapFits, MapFits', NEW t \in Thread, UpdateCopy(t)
  PROVE  PoolProofs!Next
<1> DEFINE id == call[t].id
           rec == call[t].rec
           c == [call[t] EXCEPT !.at = "end"]
<1>1. /\ pc[t] = "inside" /\ pc' = pc /\ call[t].op = "update" /\ call[t].at = "begin"
      /\ mInDlgRecordPool' = [mInDlgRecordPool EXCEPT ![id] = rec]
      /\ UNCHANGED << dlgIdx, nextFreeDlgIdx, lastFreeDlgIdx, recordCount >>
  BY DEF UpdateCopy, WriteRecord, At, semVars
<1>2. /\ call \in [Thread -> Calls] /\ call[t] \in Calls /\ rec \in Content
      /\ id \in DlgIds /\ (id \in AppIds \/ Live(id))
  BY <1>1 DEF IInv, CallTypes, UpdatesInUse
<1>3. call'[t] = c
  BY <1>2 DEF UpdateCopy, WriteRecord, GoTo
<1>4. c.at = "end"
  BY <1>2 DEF Calls
<1> HIDE DEF c, id, rec
<1>5. NothingDone
  BY <1>1, Settled DEF Untouched, Fills, Uncounts
<1>6. /\ RecordsDone = mInDlgRecordPool /\ RingDone = dlgIdx /\ NextDone = nextFreeDlgIdx
      /\ LastDone = lastFreeDlgIdx /\ CountDone = recordCount
  BY <1>5 DEF NothingDone, poolVars
<1>7. DoneBy(call[t])'
  BY <1>1, WriteDone
<1>8. /\ RecordsDone' = [RecordsDone EXCEPT ![id] = rec]
      /\ UNCHANGED << RingDone, NextDone, LastDone, CountDone >>
  BY <1>1, <1>3, <1>4, <1>6, <1>7
  DEF DoneBy, Fills, Advances, Counts, GivesBack, Follows, Uncounts
<1>9. PoolProofs!UpdateInUse(id, rec)
  BY <1>2, <1>6, <1>8, SameSizes
  DEF PoolProofs!UpdateInUse, PoolProofs!Update, PoolProofs!Live, Live
<1>10. QED
  BY <1>2, <1>9, SameSizes DEF PoolProofs!Next

(* Every later write was counted as made before.                             *)
LEMMA WriteStutters ==
  ASSUME IInv, MapFits, MapFits', NEW t \in Thread,
         \/ AllocateRefuse(t) \/ AllocateAdvance(t) \/ AllocateCount(t) \/ AllocateFill(t)
         \/ FreeRefuse(t) \/ FreeRing(t) \/ FreeAdvance(t) \/ FreeCount(t)
  PROVE  UNCHANGED PoolProofs!poolVars
<1>1. pc[t] = "inside" /\ pc' = pc
  BY DEF AllocateRefuse, AllocateAdvance, AllocateCount, AllocateFill, WriteRecord,
     FreeRefuse, FreeRing, FreeAdvance, FreeCount, At, semVars
<1>2. PICK place \in {"end", "count", "fill", "advance"} :
        call' = [call EXCEPT ![t].at = place]
  BY DEF AllocateRefuse, AllocateAdvance, AllocateCount, AllocateFill, WriteRecord,
     FreeRefuse, FreeRing, FreeAdvance, FreeCount, GoTo
<1>3. call \in [Thread -> Calls] /\ call[t] \in Calls
  BY DEF IInv, CallTypes
<1>4. /\ call'[t].at = place /\ call'[t].op = call[t].op
      /\ call'[t].id = call[t].id /\ call'[t].rec = call[t].rec
  BY <1>2, <1>3 DEF Calls
<1>5. DoneBy(call[t]) /\ DoneBy(call[t])'
  BY <1>1, WriteDone DEF MapFits
<1> USE DEF DoneBy, Fills, Advances, Counts, GivesBack, Follows, Uncounts, PoolProofs!poolVars
<1>6. CASE AllocateRefuse(t) \/ FreeRefuse(t)
  <2>1. UNCHANGED poolVars /\ call[t].at \in {"begin", "walk"} /\ call'[t].at = "end"
    <3>1. /\ UNCHANGED poolVars /\ call[t].at \in {"begin", "walk"}
          /\ call' = [call EXCEPT ![t].at = "end"]
      BY <1>6 DEF AllocateRefuse, FreeRefuse, At, GoTo
    <3>2. call'[t].at = "end"
      BY <1>3, <3>1 DEF Calls
    <3>3. QED
      BY <3>1, <3>2
  <2>2. QED
    BY <1>5, <2>1 DEF poolVars
<1>7. CASE AllocateAdvance(t)
  BY <1>3, <1>4, <1>5, <1>7 DEF AllocateAdvance, At, GoTo
<1>8. CASE AllocateCount(t)
  BY <1>3, <1>4, <1>5, <1>8 DEF AllocateCount, At, GoTo
<1>9. CASE AllocateFill(t)
  BY <1>3, <1>4, <1>5, <1>9 DEF AllocateFill, WriteRecord, At, GoTo
<1>10. CASE FreeRing(t)
  BY <1>3, <1>4, <1>5, <1>10 DEF FreeRing, At, GoTo
<1>11. CASE FreeAdvance(t)
  BY <1>3, <1>4, <1>5, <1>11 DEF FreeAdvance, At, GoTo
<1>12. CASE FreeCount(t)
  BY <1>3, <1>4, <1>5, <1>12 DEF FreeCount, At, GoTo
<1>13. QED
  BY <1>6, <1>7, <1>8, <1>9, <1>10, <1>11, <1>12

-----------------------------------------------------------------------------
(* Calls that begin, enter and leave, and processes that end outside of      *)
(* their writes: the same thread is inside with the same call, or nobody is  *)
(* between two writes, before and after.                                     *)
LEMMA SameCallInside ==
  ASSUME MapFits, MapFits', UNCHANGED poolVars,
         NEW t \in Thread, pc[t] = "inside", pc'[t] = "inside", call'[t] = call[t]
  PROVE  UNCHANGED PoolProofs!poolVars
<1>1. DoneBy(call[t]) /\ DoneBy(call[t])'
  BY WriteDone DEF MapFits
<1>2. QED
  BY <1>1 DEF DoneBy, poolVars, PoolProofs!poolVars

LEMMA NobodyWrites ==
  ASSUME MapFits, MapFits', UNCHANGED poolVars,
         \A t \in Thread : pc[t] = "inside" => Untouched(call[t]),
         \A t \in Thread : pc'[t] = "inside" => Untouched(call'[t])
  PROVE  UNCHANGED PoolProofs!poolVars
<1>1. NothingDone /\ NothingDone'
  BY DEF MapFits
<1>2. QED
  BY <1>1 DEF NothingDone, poolVars, PoolProofs!poolVars

LEMMA CallStutters ==
  ASSUME IInv, MapFits, MapFits', NEW t \in Thread, BeginCall(t) \/ Enter(t) \/ Leave(t)
  PROVE  UNCHANGED PoolProofs!poolVars
<1>0. /\ UNCHANGED poolVars
      /\ call \in [Thread -> Calls] /\ pc \in [Thread -> {"outside", "waiting", "inside"}]
  BY SemTypes DEF IInv, CallTypes, BeginCall, BeginAllocate, BeginFree, BeginUpdate, Begin,
     Enter, Leave
<1>1. CASE BeginCall(t)
  <2>1. /\ \A u \in Thread \ {t} : pc'[u] = pc[u] /\ call'[u] = call[u]
        /\ pc[t] = "outside" /\ pc'[t] = "waiting"
    BY <1>0, <1>1 DEF BeginCall, BeginAllocate, BeginFree, BeginUpdate, Begin, Sem!Call
  <2>2. CASE \E u \in Thread : pc[u] = "inside"
    BY <1>0, <2>1, <2>2, SameCallInside
  <2>3. CASE ~\E u \in Thread : pc[u] = "inside"
    BY <1>0, <2>1, <2>3, NobodyWrites DEF Untouched, Fills, Uncounts
  <2>4. QED
    BY <2>2, <2>3
<1>2. CASE Enter(t)
  <2>1. /\ call' = call /\ \A u \in Thread \ {t} : pc'[u] = pc[u]
        /\ pc[t] = "waiting" /\ call[t].at = "begin" /\ semval = 0
    BY <1>0, <1>2 DEF Enter, Sem!Lock, IInv, WaitsAtBegin
  <2>2. \A u \in Thread : pc[u] # "inside"
    BY <2>1 DEF IInv, SemProofs!IInv, SemProofs!NotHeld, SemProofs!HeldBy
  <2>3. QED
    BY <1>0, <2>1, <2>2, NobodyWrites DEF Untouched, Fills, Uncounts
<1>3. CASE Leave(t)
  <2>1. /\ \A u \in Thread \ {t} : pc'[u] = pc[u]
        /\ pc[t] = "inside" /\ call[t].at = "end" /\ pc'[t] = "outside"
    BY <1>0, <1>3 DEF Leave, Sem!UnLock
  <2>2. \A u \in Thread \ {t} : pc[u] # "inside"
    BY <2>1, Alone DEF IInv
  <2>3. QED
    BY <1>0, <2>1, <2>2, NobodyWrites DEF Untouched, Fills, Uncounts
<1>4. QED
  BY <1>1, <1>2, <1>3

LEMMA EndStutters ==
  ASSUME MapFits, MapFits', NEW p \in Process, End(p), ~torn'
  PROVE  UNCHANGED PoolProofs!poolVars /\ ~torn
<1>1. /\ UNCHANGED poolVars
      /\ \A t \in Thread : IF ProcessOf[t] = p
                           THEN call'[t] = NoCall /\ pc'[t] = "outside" /\ ~Writing(t)
                           ELSE call'[t] = call[t] /\ pc'[t] = pc[t]
      /\ ~torn
  BY DEF End, Sem!Exit
<1>2. CASE \E t \in Thread : pc[t] = "inside" /\ ProcessOf[t] # p
  BY <1>1, <1>2, SameCallInside
<1>3. CASE ~\E t \in Thread : pc[t] = "inside" /\ ProcessOf[t] # p
  <2>1. \A t \in Thread : pc'[t] # "inside"
    BY <1>1, <1>3
  <2>2. \A t \in Thread : pc[t] = "inside" => Untouched(call[t])
    <3>1. ASSUME NEW t \in Thread, pc[t] = "inside", ~Writing(t) PROVE Untouched(call[t])
      <4>1. ~Fills(call[t])
        BY <3>1 DEF Writing, At, Fills
      <4>2. ~Uncounts(call[t])
        BY <3>1 DEF Writing, At, Uncounts
      <4>3. QED
        BY <4>1, <4>2 DEF Untouched
    <3>2. QED
      BY <1>1, <1>3, <3>1
  <2>3. QED
    BY <1>1, <2>1, <2>2, NobodyWrites
<1>4. QED
  BY <1>1, <1>2, <1>3

-----------------------------------------------------------------------------
(* Until a process ends in the middle of a call: every step is one of the    *)
(* pool, so that the pool's invariant holds again.                           *)
LEMMA NoAllocationWalks ==
  ASSUME MapFits, PoolProofs!IInv, NEW t \in Thread, AllocateWalk(t)
  PROVE  FALSE
<1>1. /\ pc[t] = "inside" /\ call[t].at = "begin"
      /\ dlgIdx[nextFreeDlgIdx] = 0 /\ recordCount # MaxAllocateDlgSize
  BY DEF AllocateWalk, At, NextTaken
<1>2. RingDone = dlgIdx /\ NextDone = nextFreeDlgIdx /\ CountDone = recordCount
  BY <1>1, Settled DEF Untouched, Fills, Uncounts, NothingDone, poolVars
<1>3. PoolProofs!TypeOK /\ PoolProofs!RingShape
  BY DEF PoolProofs!IInv
<1>4. QED
  BY <1>1, <1>2, <1>3, PoolAssumption, PoolProofs!NextSlotIsTaken, SameSizes

(* A step between two states in which no process has ended in the middle of  *)
(* a call is a call of the pool, or none.                                    *)
LEMMA StepIsACall ==
  ASSUME IInv, IInv', PoolProofs!IInv, NoWalk, [MgrNext]_vars, ~torn'
  PROVE  PoolStep /\ NoWalk' /\ torn' = torn
<1>0. MapFits /\ MapFits'
  BY MapKept DEF IInv
<1> USE DEF PoolStep
<1>1. ASSUME NEW t \in Thread, Step(t), UNCHANGED torn
      PROVE  PoolStep /\ NoWalk' /\ torn' = torn
  <2>1. ~AllocateWalk(t) /\ ~AllocateWalkOn(t)
    BY <1>0, NoAllocationWalks DEF NoWalk, AllocateWalkOn, At
  <2>2. PoolStep
    BY <1>0, <1>1, <2>1, TakeAllocates, ZeroFrees, CopyUpdates, WriteStutters DEF Step
  <2>3. PICK c \in {call'[t]} : call' = [call EXCEPT ![t] = c] /\ c.at # "walk"
    <3>1. call \in [Thread -> Calls]
      BY DEF IInv, CallTypes
    <3>2. CASE AllocateTake(t)
      BY <3>1, <3>2 DEF AllocateTake, Calls
    <3>3. CASE ~AllocateTake(t)
      <4>1. PICK place \in {"end", "count", "fill", "advance", "ring"} :
              call' = [call EXCEPT ![t].at = place]
        BY <1>1, <2>1, <3>3 DEF Step, AllocateRefuse, AllocateAdvance, AllocateCount, AllocateFill,
           WriteRecord, FreeRefuse, FreeZero, FreeRing, FreeAdvance, FreeCount, UpdateCopy, GoTo
      <4>2. QED
        BY <3>1, <4>1 DEF Calls
    <3>4. QED
      BY <3>2, <3>3
  <2>4. NoWalk'
    BY <2>3 DEF NoWalk, IInv, CallTypes
  <2>5. QED
    BY <1>1, <2>2, <2>4
<1>2. ASSUME NEW t \in Thread, BeginCall(t) \/ Enter(t) \/ Leave(t), UNCHANGED torn
      PROVE  PoolStep /\ NoWalk' /\ torn' = torn
  <2>1. NoWalk'
    BY <1>2 DEF NoWalk, IInv, CallTypes, BeginCall, BeginAllocate, BeginFree, BeginUpdate, Begin,
       Enter, Leave, NoCall, CallOf
  <2>2. QED
    BY <1>0, <1>2, <2>1, CallStutters
<1>3. ASSUME NEW p \in Process, End(p)
      PROVE  PoolStep /\ NoWalk' /\ torn' = torn
  <2>1. UNCHANGED PoolProofs!poolVars /\ torn' = torn
    <3>1. UNCHANGED PoolProofs!poolVars /\ ~torn
      BY <1>0, <1>3, EndStutters
    <3>2. torn' = FALSE /\ torn = FALSE
      BY <1>3, <3>1 DEF IInv, End
    <3>3. QED
      BY <3>1, <3>2
  <2>2. NoWalk'
    BY <1>3 DEF NoWalk, End, NoCall, CallOf
  <2>3. QED
    BY <2>1, <2>2
<1>4. CASE UNCHANGED vars
  <2>1. UNCHANGED << poolVars, pc, call, torn >>
    BY <1>4 DEF vars, semVars
  <2>2. CASE \E t \in Thread : pc[t] = "inside"
    BY <1>0, <2>1, <2>2, SameCallInside DEF NoWalk
  <2>3. CASE ~\E t \in Thread : pc[t] = "inside"
    BY <1>0, <2>1, <2>3, NobodyWrites DEF Untouched, Fills, Uncounts, NoWalk
  <2>4. QED
    BY <2>2, <2>3
<1>5. QED
  BY <1>1, <1>2, <1>3, <1>4 DEF MgrNext, Run

LEMMA CallsStayWhole ==
  ASSUME IInv, IInv', WholeCalls, torn \in BOOLEAN, [MgrNext]_vars
  PROVE  /\ WholeCalls' /\ torn' \in BOOLEAN
         /\ torn' \/ (PoolStep /\ torn' = torn)
<1>1. torn' \in BOOLEAN /\ (torn => torn')
  BY DEF MgrNext, Run, End, vars
<1>2. CASE torn'
  BY <1>1, <1>2 DEF WholeCalls
<1>3. CASE ~torn'
  <2>1. PoolProofs!IInv /\ NoWalk
    BY <1>1, <1>3 DEF WholeCalls
  <2>2. PoolStep /\ NoWalk' /\ torn' = torn
    BY <1>3, <2>1, StepIsACall
  <2>3. PoolProofs!IInv'
    BY <2>1, <2>2, PoolAssumption, PoolProofs!StepKeepsIInv DEF PoolStep
  <2>4. QED
    BY <1>1, <2>2, <2>3 DEF WholeCalls
<1>4. QED
  BY <1>2, <1>3

LEMMA InitIsWhole ==
  ASSUME Init
  PROVE  PoolProofs!PoolInit /\ WholeCalls /\ torn \in BOOLEAN
<1>1. SemProofs!IInv
  BY InitIInv DEF IInv
<1>2. NothingDone
  BY <1>1, MapHolds DEF MapFits, Init, Sem!SemInit
<1>3. PoolProofs!PoolInit
  BY <1>2, SameSizes DEF Init, PoolInit, PoolProofs!PoolInit, NothingDone, poolVars,
     PoolProofs!Slots, Slots
<1>4. PoolProofs!IInv
  BY <1>3, PoolAssumption, PoolProofs!InitIInv
<1>5. NoWalk
  BY DEF Init, NoWalk, NoCall, CallOf
<1>6. QED
  BY <1>3, <1>4, <1>5 DEF WholeCalls, Init

(* The steps of the pool, by the name the property gives them.               *)
LEMMA SamePool ==
  /\ PoolProofs!PoolInit <=> Pool!PoolInit
  /\ PoolProofs!Next <=> Pool!Next
  /\ UNCHANGED PoolProofs!poolVars <=> UNCHANGED Pool!poolVars
  /\ PoolProofs!IdsInRingOrInUse <=> Pool!IdsInRingOrInUse
BY DEF PoolProofs!PoolInit, Pool!PoolInit, PoolProofs!poolVars, Pool!poolVars,
   PoolProofs!Next, Pool!Next, PoolProofs!Allocate, Pool!Allocate,
   PoolProofs!FreeAllocated, Pool!FreeAllocated, PoolProofs!FreeAppChosen, Pool!FreeAppChosen,
   PoolProofs!UpdateInUse, Pool!UpdateInUse, PoolProofs!Update, Pool!Update,
   PoolProofs!CanAllocate, Pool!CanAllocate, PoolProofs!CanFree, Pool!CanFree,
   PoolProofs!IdToTake, Pool!IdToTake, PoolProofs!SlotToTake, Pool!SlotToTake,
   PoolProofs!StepsAhead, Pool!StepsAhead, PoolProofs!Live, Pool!Live,
   PoolProofs!NextIdx, Pool!NextIdx, PoolProofs!Increment, Pool!Increment,
   PoolProofs!Decrement, Pool!Decrement, PoolProofs!HalfMaxDlgSize, Pool!HalfMaxDlgSize,
   PoolProofs!MaxAllocateDlgSize, Pool!MaxAllocateDlgSize, PoolProofs!DlgIds, Pool!DlgIds,
   PoolProofs!AppIds, Pool!AppIds, PoolProofs!Slots, Pool!Slots,
   PoolProofs!AllocIds, Pool!AllocIds, PoolProofs!InRing, Pool!InRing,
   PoolProofs!NoIdTwiceInRing, Pool!NoIdTwiceInRing,
   PoolProofs!IdsInRingOrInUse, Pool!IdsInRingOrInUse

(* Calls of any number of threads and processes take effect one after the    *)
(* other, each in one step, until a process ends in the middle of a call.    *)
THEOREM CallsAreAtomic == MgrSpec => ImplementsPool
<1> DEFINE Inv == IInv /\ WholeCalls /\ torn \in BOOLEAN
<1>1. Init => Inv /\ Pool!PoolInit
  BY InitIInv, InitIsWhole, SamePool
<1>2. Inv /\ [MgrNext]_vars => Inv' /\ [torn' \/ Pool!Next]_<<Pool!poolVars, torn>>
  <2> SUFFICES ASSUME Inv, [MgrNext]_vars
               PROVE  Inv' /\ [torn' \/ Pool!Next]_<<Pool!poolVars, torn>>
      OBVIOUS
  <2>1. IInv'
    BY StepKeepsIInv
  <2>2. QED
    BY <2>1, CallsStayWhole, SamePool DEF PoolStep
<1>3. QED
  BY <1>1, <1>2, PTL DEF MgrSpec, ImplementsPool

(* Only the end of a process in the middle of a call can lose an id: until   *)
(* then every allocatable id is in use or in the ring, the writes that the   *)
(* call inside has still to make counted as made.                            *)
THEOREM NoIdIsLost == MgrSpec => [](~torn => Pool!IdsInRingOrInUse)
<1> DEFINE Inv == IInv /\ WholeCalls /\ torn \in BOOLEAN
<1>1. Init => Inv
  BY InitIInv, InitIsWhole
<1>2. Inv /\ [MgrNext]_vars => Inv'
  <2> SUFFICES ASSUME Inv, [MgrNext]_vars PROVE Inv'
      OBVIOUS
  <2>1. IInv'
    BY StepKeepsIInv
  <2>2. QED
    BY <2>1, CallsStayWhole
<1>3. Inv => (~torn => Pool!IdsInRingOrInUse)
  BY SamePool DEF WholeCalls, PoolProofs!IInv
<1>4. QED
  BY <1>1, <1>2, <1>3, PTL DEF MgrSpec
=============================================================================
