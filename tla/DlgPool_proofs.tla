--------------------------- MODULE DlgPool_proofs ---------------------------
(***************************************************************************)
(* Proofs about the dialogue manager for every pool size and every shift.  *)
(* The inductive invariant joins the types, the shape of the ring and the  *)
(* partition of the ids: the shape says which slots are taken, and only    *)
(* the partition says that a slot is taken whenever an id is freed.        *)
(***************************************************************************)
EXTENDS DlgPool, FiniteSetTheorems, SequenceTheorems, TLAPS

IInv == TypeOK /\ RingShape /\ IdsInRingOrInUse

LEMMA Sizes ==
  /\ HalfMaxDlgSize \in Nat
  /\ MaxAllocateDlgSize \in Nat \ {0}
  /\ HalfMaxDlgSize + MaxAllocateDlgSize <= MaxDlgSize
  /\ MaxAllocateDlgSize < CountMod
  /\ CountMod \in Nat
BY PoolAssumption DEF HalfMaxDlgSize, MaxAllocateDlgSize

LEMMA InitIInv == PoolInit => IInv
<1> SUFFICES ASSUME PoolInit PROVE IInv
    OBVIOUS
<1> USE Sizes
<1>1. TypeOK
  BY DEF PoolInit, TypeOK, Slots
<1>2. RingShape
  BY DEF PoolInit, RingShape, TakenSlot, Slots
<1>3. IdsInRingOrInUse
  <2>1. NoIdTwiceInRing
    BY DEF PoolInit, NoIdTwiceInRing, Slots
  <2>2. ASSUME NEW id \in AllocIds PROVE InRing(id) /\ ~Live(id)
    <3>1. id - HalfMaxDlgSize \in Slots /\ id \in DlgIds
      BY PoolAssumption DEF AllocIds, Slots, DlgIds
    <3>2. dlgIdx[id - HalfMaxDlgSize] = id - HalfMaxDlgSize
      BY <3>1 DEF PoolInit
    <3>3. QED
      BY <3>1, <3>2 DEF PoolInit, InRing, Live
  <2>3. \A id \in DlgIds : ~Live(id)
    BY DEF PoolInit, Live
  <2>4. QED
    BY <2>1, <2>2, <2>3 DEF IdsInRingOrInUse
<1>4. QED
  BY <1>1, <1>2, <1>3 DEF IInv

(* The ring never makes Allocate_DlgId search: when an id is left, the next  *)
(* slot holds one.                                                           *)
LEMMA NextSlotIsTaken ==
  ASSUME TypeOK, RingShape, dlgIdx[nextFreeDlgIdx] = 0
  PROVE  recordCount = MaxAllocateDlgSize
BY Sizes DEF TypeOK, RingShape, TakenSlot, Slots

LEMMA NextSlotIsFilled ==
  ASSUME TypeOK, RingShape
  PROVE  /\ CanAllocate <=> dlgIdx[nextFreeDlgIdx] # 0
         /\ CanAllocate => SlotToTake = nextFreeDlgIdx
BY NextSlotIsTaken DEF CanAllocate, SlotToTake

LEMMA AllocatedIdIsFree ==
  ASSUME IInv, CanAllocate
  PROVE  /\ IdToTake = dlgIdx[nextFreeDlgIdx] + HalfMaxDlgSize
         /\ IdToTake \in AllocIds
         /\ IdToTake \in DlgIds
         /\ ~Live(IdToTake)
<1> USE Sizes, NextSlotIsFilled DEF IInv
<1>1. dlgIdx[nextFreeDlgIdx] \in Slots
  BY DEF TypeOK, Slots
<1>2. IdToTake = dlgIdx[nextFreeDlgIdx] + HalfMaxDlgSize
  BY DEF IdToTake
<1>3. IdToTake \in AllocIds /\ IdToTake \in DlgIds
  BY <1>1, <1>2, PoolAssumption DEF AllocIds, DlgIds, Slots
<1>4. InRing(IdToTake)
  BY <1>1, <1>2 DEF InRing, TypeOK, Slots
<1>5. QED
  BY <1>2, <1>3, <1>4 DEF IdsInRingOrInUse

(* While an id of the allocated range is in use, a slot is taken: the ids in *)
(* the ring are distinct, so a full ring would hold this id as well.         *)
LEMMA SlotForFreedId ==
  ASSUME IInv, NEW id \in AllocIds, Live(id)
  PROVE  /\ recordCount # 0
         /\ TakenSlot(lastFreeDlgIdx)
<1> USE Sizes DEF IInv
<1>1. ASSUME \A i \in Slots : ~TakenSlot(i) PROVE FALSE
  <2> DEFINE free == Slots \ {id - HalfMaxDlgSize}
  <2>1. id - HalfMaxDlgSize \in Slots
    BY DEF AllocIds, Slots
  <2>2. dlgIdx \in [Slots -> free]
    BY <1>1 DEF TypeOK, TakenSlot, Slots, IdsInRingOrInUse, InRing
  <2>3. IsFiniteSet(Slots)
    BY FS_Interval DEF Slots
  <2>4. IsFiniteSet(free) /\ Cardinality(free) = Cardinality(Slots) - 1
    BY <2>1, <2>3, FS_RemoveElement
  <2>5. Cardinality(Slots) \in Nat
    BY <2>3, FS_CardinalityType
  <2> HIDE DEF free
  <2>6. \E i, j \in Slots : i # j /\ dlgIdx[i] = dlgIdx[j]
    <3>1. Cardinality(free) < Cardinality(Slots)
      BY <2>4, <2>5
    <3>2. QED
      BY <2>2, <2>3, <2>4, <3>1, FS_PigeonHole
  <2>7. QED
    BY <2>6, <1>1 DEF IdsInRingOrInUse, NoIdTwiceInRing, TakenSlot
<1>2. recordCount # 0
  BY <1>1 DEF TypeOK, RingShape, Slots
<1>3. TakenSlot(lastFreeDlgIdx)
  BY <1>2 DEF TypeOK, RingShape, Slots
<1>4. QED
  BY <1>2, <1>3
-----------------------------------------------------------------------------
LEMMA AllocateKeepsIInv ==
  ASSUME IInv, NEW rec \in Content, Allocate(rec)
  PROVE  IInv'
<1> USE Sizes DEF IInv
<1> DEFINE n == nextFreeDlgIdx
<1>0. CanAllocate
  BY DEF Allocate
<1>1. SlotToTake = n /\ dlgIdx[n] # 0
  BY <1>0, NextSlotIsFilled
<1>2. /\ IdToTake = dlgIdx[n] + HalfMaxDlgSize
      /\ IdToTake \in AllocIds
      /\ IdToTake \in DlgIds
      /\ ~Live(IdToTake)
  BY <1>0, AllocatedIdIsFree
<1>3. recordCount # MaxAllocateDlgSize
  BY <1>1 DEF TypeOK, RingShape, TakenSlot, Slots
<1>4. /\ mInDlgRecordPool' = [mInDlgRecordPool EXCEPT ![IdToTake] = rec]
      /\ dlgIdx' = [dlgIdx EXCEPT ![n] = 0]
      /\ nextFreeDlgIdx' = NextIdx(n)
      /\ recordCount' = recordCount + 1
      /\ lastFreeDlgIdx' = lastFreeDlgIdx
  BY <1>1, <1>3 DEF Allocate, Increment, TypeOK
<1>5. TypeOK'
  <2>1. mInDlgRecordPool' \in [DlgIds -> Content \cup {NoRecord}]
    BY <1>2, <1>4 DEF TypeOK
  <2>2. dlgIdx' \in [Slots -> 0 .. MaxAllocateDlgSize]
    BY <1>4 DEF TypeOK
  <2>3. /\ nextFreeDlgIdx' \in Slots
        /\ lastFreeDlgIdx' \in Slots
        /\ recordCount' \in 0 .. MaxAllocateDlgSize
    BY <1>3, <1>4 DEF TypeOK, NextIdx, Slots
  <2>4. QED
    BY <2>1, <2>2, <2>3 DEF TypeOK
<1>6. \A i \in Slots : TakenSlot(i)' <=> TakenSlot(i) \/ i = n
  BY <1>4 DEF TypeOK, TakenSlot, Slots
<1>7. RingShape'
  BY <1>3, <1>4, <1>6 DEF TypeOK, RingShape, NextIdx, Slots
<1>8. IdsInRingOrInUse'
  <2>1. NoIdTwiceInRing'
    BY <1>4 DEF IdsInRingOrInUse, NoIdTwiceInRing, TypeOK, Slots
  <2>2. ASSUME NEW id \in DlgIds
        PROVE  Live(id)' <=> id = IdToTake \/ Live(id)
    BY <1>2, <1>4, PoolAssumption DEF Live, TypeOK
  <2>3. ASSUME NEW id \in AllocIds
        PROVE  InRing(id)' <=> InRing(id) /\ id # IdToTake
    <3>1. id - HalfMaxDlgSize # 0
      BY DEF AllocIds
    <3>2. \A i \in Slots : dlgIdx'[i] = IF i = n THEN 0 ELSE dlgIdx[i]
      BY <1>4 DEF TypeOK
    <3>3. id # IdToTake => dlgIdx[n] # id - HalfMaxDlgSize
      BY <1>2 DEF AllocIds, TypeOK, Slots
    <3>4. ASSUME id = IdToTake, NEW i \in Slots, i # n
          PROVE  dlgIdx[i] # id - HalfMaxDlgSize
      <4>1. dlgIdx[n] = id - HalfMaxDlgSize
        BY <3>4, <1>2 DEF AllocIds, TypeOK, Slots
      <4>2. QED
        BY <4>1, <3>4, <1>1 DEF IdsInRingOrInUse, NoIdTwiceInRing, TypeOK
    <3>5. QED
      BY <3>1, <3>2, <3>3, <3>4 DEF InRing
  <2>4. AllocIds \subseteq DlgIds
    BY PoolAssumption DEF AllocIds, DlgIds
  <2>5. QED
    BY <2>1, <2>2, <2>3, <2>4, <1>2 DEF IdsInRingOrInUse
<1>9. QED
  BY <1>5, <1>7, <1>8

LEMMA FreeAllocatedKeepsIInv ==
  ASSUME IInv, NEW id \in DlgIds, FreeAllocated(id)
  PROVE  /\ IInv'
         /\ id \in AllocIds
         /\ recordCount' = recordCount - 1
<1> USE Sizes DEF IInv
<1> DEFINE l == lastFreeDlgIdx
<1>1. Live(id) /\ id \in AllocIds
  BY DEF FreeAllocated, CanFree, IdsInRingOrInUse, AppIds
<1>2. recordCount # 0 /\ dlgIdx[l] = 0
  BY <1>1, SlotForFreedId DEF TakenSlot
<1>3. id - HalfMaxDlgSize \in Slots
  BY <1>1 DEF AllocIds, Slots
<1>4. /\ mInDlgRecordPool' = [mInDlgRecordPool EXCEPT ![id] = NoRecord]
      /\ dlgIdx' = [dlgIdx EXCEPT ![l] = id - HalfMaxDlgSize]
      /\ lastFreeDlgIdx' = NextIdx(l)
      /\ recordCount' = recordCount - 1
      /\ nextFreeDlgIdx' = nextFreeDlgIdx
  BY <1>2 DEF FreeAllocated, Decrement, TypeOK
<1>5. TypeOK'
  <2>1. /\ mInDlgRecordPool' \in [DlgIds -> Content \cup {NoRecord}]
        /\ dlgIdx' \in [Slots -> 0 .. MaxAllocateDlgSize]
    BY <1>3, <1>4 DEF TypeOK, Slots
  <2>2. /\ nextFreeDlgIdx' \in Slots
        /\ lastFreeDlgIdx' \in Slots
        /\ recordCount' \in 0 .. MaxAllocateDlgSize
    BY <1>2, <1>4 DEF TypeOK, NextIdx, Slots
  <2>3. QED
    BY <2>1, <2>2 DEF TypeOK
<1>6. \A i \in Slots : TakenSlot(i)' <=> TakenSlot(i) /\ i # l
  BY <1>3, <1>4 DEF TypeOK, TakenSlot, Slots
<1>7. RingShape'
  BY <1>2, <1>4, <1>6 DEF TypeOK, RingShape, NextIdx, Slots
<1>8. IdsInRingOrInUse'
  <2>1. \A i \in Slots :
          dlgIdx'[i] = IF i = l THEN id - HalfMaxDlgSize ELSE dlgIdx[i]
    BY <1>4 DEF TypeOK
  <2>2. \A i \in Slots : dlgIdx[i] # id - HalfMaxDlgSize
    BY <1>1 DEF IdsInRingOrInUse, InRing
  <2>3. NoIdTwiceInRing'
    BY <2>1, <2>2 DEF IdsInRingOrInUse, NoIdTwiceInRing
  <2>4. \A x \in DlgIds : Live(x)' <=> Live(x) /\ x # id
    BY <1>4 DEF Live, TypeOK
  <2>5. ASSUME NEW x \in AllocIds PROVE InRing(x)' <=> InRing(x) \/ x = id
    <3>1. x - HalfMaxDlgSize = id - HalfMaxDlgSize <=> x = id
      BY <1>1 DEF AllocIds
    <3>2. x - HalfMaxDlgSize # 0
      BY DEF AllocIds
    <3>3. lastFreeDlgIdx \in Slots
      BY DEF TypeOK
    <3>4. QED
      BY <2>1, <3>1, <3>2, <3>3, <1>2 DEF InRing
  <2>6. AllocIds \subseteq DlgIds
    BY PoolAssumption DEF AllocIds, DlgIds
  <2>7. QED
    BY <2>3, <2>4, <2>5, <2>6 DEF IdsInRingOrInUse
<1>9. QED
  BY <1>1, <1>4, <1>5, <1>7, <1>8

(* Writes to records whose use they do not change leave the ring alone.      *)
LEMMA RingUntouched ==
  ASSUME IInv,
         mInDlgRecordPool' \in [DlgIds -> Content \cup {NoRecord}],
         \A id \in AllocIds : Live(id)' <=> Live(id),
         \A id \in DlgIds : Live(id)' => Live(id) \/ id \in AppIds,
         UNCHANGED << dlgIdx, nextFreeDlgIdx, lastFreeDlgIdx, recordCount >>
  PROVE  IInv'
<1>1. TypeOK'
  BY DEF IInv, TypeOK
<1>2. RingShape'
  BY DEF IInv, RingShape, TakenSlot
<1>3. NoIdTwiceInRing'
  BY DEF IInv, IdsInRingOrInUse, NoIdTwiceInRing
<1>4. \A id \in AllocIds : InRing(id)' <=> InRing(id)
  BY DEF InRing
<1>5. IdsInRingOrInUse'
  BY <1>3, <1>4 DEF IInv, IdsInRingOrInUse
<1>6. QED
  BY <1>1, <1>2, <1>5 DEF IInv

LEMMA FreeAppChosenKeepsIInv ==
  ASSUME IInv, NEW id \in DlgIds, FreeAppChosen(id)
  PROVE  IInv' /\ (\A x \in AllocIds : Live(x)' <=> Live(x))
<1> USE Sizes
<1>1. /\ mInDlgRecordPool' = [mInDlgRecordPool EXCEPT ![id] = NoRecord]
      /\ UNCHANGED << dlgIdx, nextFreeDlgIdx, lastFreeDlgIdx, recordCount >>
  BY DEF FreeAppChosen
<1>2. AllocIds \subseteq DlgIds
  BY PoolAssumption DEF AllocIds, DlgIds
<1>3. \A x \in AllocIds : x # id
  BY DEF FreeAppChosen, AllocIds
<1>4. \A x \in DlgIds : Live(x)' <=> Live(x) /\ x # id
  BY <1>1 DEF IInv, TypeOK, Live
<1>5. mInDlgRecordPool' \in [DlgIds -> Content \cup {NoRecord}]
  BY <1>1 DEF IInv, TypeOK
<1>6. QED
  BY <1>1, <1>2, <1>3, <1>4, <1>5, RingUntouched

LEMMA UpdateInUseKeepsIInv ==
  ASSUME IInv, NEW id \in DlgIds, NEW rec \in Content, UpdateInUse(id, rec)
  PROVE  IInv' /\ (\A x \in AllocIds : Live(x)' <=> Live(x))
<1> USE Sizes
<1>1. /\ mInDlgRecordPool' = [mInDlgRecordPool EXCEPT ![id] = rec]
      /\ UNCHANGED << dlgIdx, nextFreeDlgIdx, lastFreeDlgIdx, recordCount >>
  BY DEF UpdateInUse, Update
<1>2. AllocIds \subseteq DlgIds
  BY PoolAssumption DEF AllocIds, DlgIds
<1>3. id \in AppIds \/ Live(id)
  BY DEF UpdateInUse
<1>4. \A x \in DlgIds : Live(x)' <=> Live(x) \/ x = id
  BY <1>1, PoolAssumption DEF IInv, TypeOK, Live
<1>5. \A x \in AllocIds : x \notin AppIds
  BY DEF AllocIds, AppIds
<1>6. mInDlgRecordPool' \in [DlgIds -> Content \cup {NoRecord}]
  BY <1>1 DEF IInv, TypeOK
<1>7. \A x \in AllocIds : Live(x)' <=> Live(x)
  BY <1>2, <1>3, <1>4, <1>5
<1>8. \A x \in DlgIds : Live(x)' => Live(x) \/ x \in AppIds
  BY <1>3, <1>4
<1>9. QED
  BY <1>1, <1>6, <1>7, <1>8, RingUntouched

LEMMA StepKeepsIInv ==
  ASSUME IInv, [Next]_poolVars
  PROVE  IInv'
<1>1. ASSUME NEW rec \in Content, Allocate(rec) PROVE IInv'
  BY <1>1, AllocateKeepsIInv
<1>2. ASSUME NEW id \in DlgIds, FreeAllocated(id) PROVE IInv'
  BY <1>2, FreeAllocatedKeepsIInv
<1>3. ASSUME NEW id \in DlgIds, FreeAppChosen(id) PROVE IInv'
  BY <1>3, FreeAppChosenKeepsIInv
<1>4. ASSUME NEW id \in DlgIds, NEW rec \in Content, UpdateInUse(id, rec)
      PROVE  IInv'
  BY <1>4, UpdateInUseKeepsIInv
<1>5. CASE UNCHANGED poolVars
  <2>1. mInDlgRecordPool' = mInDlgRecordPool
    BY <1>5 DEF poolVars
  <2>2. UNCHANGED << dlgIdx, nextFreeDlgIdx, lastFreeDlgIdx, recordCount >>
    BY <1>5 DEF poolVars
  <2>3. QED
    BY <2>1, <2>2, RingUntouched DEF IInv, TypeOK, Live
<1>6. QED
  BY <1>1, <1>2, <1>3, <1>4, <1>5 DEF Next

LEMMA InductiveInvariant == Spec => []IInv
<1>1. PoolInit => IInv
  BY InitIInv
<1>2. IInv /\ [Next]_poolVars => IInv'
  BY StepKeepsIInv
<1>3. QED
  BY <1>1, <1>2, PTL DEF Spec
-----------------------------------------------------------------------------
(* Whatever the pool size and the shift, both ring positions stay inside the *)
(* ring and recordCount never wraps.                                         *)
THEOREM TypeCorrect == Spec => []TypeOK
BY InductiveInvariant, PTL DEF IInv

(* The taken slots of the ring are always the recordCount slots before       *)
(* nextFreeDlgIdx.                                                           *)
THEOREM RingKeepsItsShape == Spec => []RingShape
BY InductiveInvariant, PTL DEF IInv

(* No dialogue id is ever lost, and none is ever twice in the ring or in the *)
(* ring while it is in use.                                                  *)
THEOREM IdsArePartitioned == Spec => []IdsInRingOrInUse
BY InductiveInvariant, PTL DEF IInv

(* Allocate_DlgId fails only when every allocatable id is in use.            *)
THEOREM PoolIsUsedUp == Spec => []RefusesOnlyWhenFull
<1>1. IInv => RefusesOnlyWhenFull
  <2> SUFFICES ASSUME IInv PROVE RefusesOnlyWhenFull
      OBVIOUS
  <2> USE Sizes DEF IInv
  <2>1. CASE CanAllocate
    BY <2>1, AllocatedIdIsFree DEF RefusesOnlyWhenFull
  <2>2. CASE ~CanAllocate
    <3>1. \A i \in Slots : dlgIdx[i] = 0
      BY <2>2, NextSlotIsFilled DEF CanAllocate, TypeOK, RingShape, TakenSlot, Slots
    <3>2. \A id \in AllocIds : ~InRing(id)
      BY <3>1 DEF InRing, AllocIds
    <3>3. QED
      BY <2>2, <3>2 DEF RefusesOnlyWhenFull, IdsInRingOrInUse
  <2>3. QED
    BY <2>1, <2>2
<1>2. QED
  BY <1>1, InductiveInvariant, PTL

(* An allocation never hands out an id whose dialogue is still in use.       *)
THEOREM IdsAreHandedOutOnce == Spec => HandsOutFreeIdsOnly
<1> DEFINE Safe == \A rec \in Content : Allocate(rec) => ~Live(IdToTake)
<1>1. IInv => Safe
  BY AllocatedIdIsFree DEF Allocate
<1>2. IInv /\ [Next]_poolVars => [Safe]_poolVars
  BY <1>1
<1>3. QED
  BY <1>2, InductiveInvariant, PTL DEF Spec, HandsOutFreeIdsOnly

-----------------------------------------------------------------------------
FreeIds == {id \in AllocIds : ~Live(id)}

LEMMA FreeIdsAreFinite == IsFiniteSet(FreeIds) /\ Cardinality(FreeIds) \in Nat
<1>1. IsFiniteSet(AllocIds)
  BY Sizes, FS_Interval DEF AllocIds
<1>2. IsFiniteSet(FreeIds)
  BY <1>1, FS_Subset DEF FreeIds
<1>3. QED
  BY <1>2, FS_CardinalityType

LEMMA CountStaysExact ==
  ASSUME IInv, CountIsExact, [Next]_poolVars
  PROVE  CountIsExact'
<1> USE Sizes
<1>0. NumberOfFreeDlgRecords = Cardinality(FreeIds)
  BY DEF CountIsExact, FreeIds
<1>1. ASSUME NEW rec \in Content, Allocate(rec) PROVE CountIsExact'
  <2>1. IdToTake \in AllocIds /\ ~Live(IdToTake) /\ IdToTake \in DlgIds
    BY <1>1, AllocatedIdIsFree DEF Allocate
  <2>2. mInDlgRecordPool' = [mInDlgRecordPool EXCEPT ![IdToTake] = rec]
    BY <1>1 DEF Allocate
  <2>3. FreeIds' = FreeIds \ {IdToTake}
    <3>1. \A x \in AllocIds : Live(x)' <=> Live(x) \/ x = IdToTake
      BY <2>1, <2>2, PoolAssumption DEF Live, IInv, TypeOK, AllocIds, DlgIds
    <3>2. QED
      BY <3>1 DEF FreeIds
  <2>4. Cardinality(FreeIds') = Cardinality(FreeIds) - 1
    BY <2>1, <2>3, FreeIdsAreFinite, FS_RemoveElement DEF FreeIds
  <2>5. recordCount' = recordCount + 1
    <3>1. Cardinality(FreeIds) # 0
      BY <2>1, FreeIdsAreFinite, FS_EmptySet DEF FreeIds
    <3>2. recordCount < MaxAllocateDlgSize
      BY <1>0, <3>1, FreeIdsAreFinite DEF NumberOfFreeDlgRecords, IInv, TypeOK
    <3>3. QED
      BY <1>1, <3>2 DEF Allocate, Increment, IInv, TypeOK
  <2>6. NumberOfFreeDlgRecords' = NumberOfFreeDlgRecords - 1
    BY <2>5 DEF NumberOfFreeDlgRecords, IInv, TypeOK
  <2>7. QED
    BY <1>0, <2>4, <2>6 DEF CountIsExact, FreeIds
<1>2. ASSUME NEW id \in DlgIds, FreeAllocated(id) PROVE CountIsExact'
  <2>1. id \in AllocIds /\ recordCount' = recordCount - 1
    BY <1>2, FreeAllocatedKeepsIInv
  <2>2. FreeIds' = FreeIds \cup {id}
    <3>1. AllocIds \subseteq DlgIds
      BY PoolAssumption DEF AllocIds, DlgIds
    <3>2. mInDlgRecordPool' = [mInDlgRecordPool EXCEPT ![id] = NoRecord]
      BY <1>2 DEF FreeAllocated
    <3>3. \A x \in AllocIds : Live(x)' <=> Live(x) /\ x # id
      BY <3>1, <3>2 DEF Live, IInv, TypeOK
    <3>4. QED
      BY <2>1, <3>3 DEF FreeIds
  <2>3. id \notin FreeIds
    BY <1>2 DEF FreeAllocated, CanFree, FreeIds
  <2>4. Cardinality(FreeIds') = Cardinality(FreeIds) + 1
    BY <2>2, <2>3, FreeIdsAreFinite, FS_AddElement
  <2>5. NumberOfFreeDlgRecords' = NumberOfFreeDlgRecords + 1
    BY <2>1 DEF NumberOfFreeDlgRecords, IInv, TypeOK
  <2>6. QED
    BY <1>0, <2>4, <2>5 DEF CountIsExact, FreeIds
<1>3. ASSUME \A x \in AllocIds : Live(x)' <=> Live(x), UNCHANGED recordCount
      PROVE  CountIsExact'
  <2>1. FreeIds' = FreeIds
    BY <1>3 DEF FreeIds
  <2>2. NumberOfFreeDlgRecords' = NumberOfFreeDlgRecords
    BY <1>3 DEF NumberOfFreeDlgRecords
  <2>3. QED
    BY <1>0, <2>1, <2>2 DEF CountIsExact, FreeIds
<1>4. ASSUME NEW id \in DlgIds, FreeAppChosen(id) PROVE CountIsExact'
  BY <1>3, <1>4, FreeAppChosenKeepsIInv DEF FreeAppChosen
<1>5. ASSUME NEW id \in DlgIds, NEW rec \in Content, UpdateInUse(id, rec)
      PROVE  CountIsExact'
  BY <1>3, <1>5, UpdateInUseKeepsIInv DEF UpdateInUse, Update
<1>6. CASE UNCHANGED poolVars
  BY <1>3, <1>6 DEF poolVars, Live
<1>7. QED
  BY <1>1, <1>2, <1>4, <1>5, <1>6 DEF Next

(* The number of free records that GetNumberOfFreeDlgRecords reports is the  *)
(* number of ids Allocate_DlgId can still hand out.                          *)
THEOREM CountCorrect == Spec => []CountIsExact
<1>1. PoolInit => CountIsExact
  <2> SUFFICES ASSUME PoolInit PROVE CountIsExact
      OBVIOUS
  <2>1. AllocIds \subseteq DlgIds
    BY Sizes, PoolAssumption DEF AllocIds, DlgIds
  <2>2. FreeIds = AllocIds
    BY <2>1 DEF PoolInit, FreeIds, Live
  <2>3. Cardinality(AllocIds) = MaxAllocateDlgSize
    BY Sizes, FS_Interval DEF AllocIds
  <2>4. QED
    BY <2>2, <2>3, Sizes
    DEF PoolInit, CountIsExact, FreeIds, NumberOfFreeDlgRecords
<1>2. IInv /\ CountIsExact /\ [Next]_poolVars => CountIsExact'
  BY CountStaysExact
<1>3. QED
  BY <1>1, <1>2, InductiveInvariant, PTL DEF Spec
-----------------------------------------------------------------------------
(* The ring as a queue: the free ids are those in the slots from             *)
(* nextFreeDlgIdx on, as many as recordCount leaves.                         *)
FreeCount == MaxAllocateDlgSize - recordCount
SlotOf(k) == Wrapped(nextFreeDlgIdx + k - 1)

FreeSlotsInOrder ==
  /\ FreeCount \in Nat
  /\ \A k \in 1 .. FreeCount : SlotOf(k) \in Slots /\ ~TakenSlot(SlotOf(k))
  /\ \A j, k \in 1 .. FreeCount : SlotOf(j) = SlotOf(k) => j = k
  /\ FreeCount < MaxAllocateDlgSize => SlotOf(FreeCount + 1) = lastFreeDlgIdx

FreeIdsInOrder ==
  /\ FreeIdsOfRing \in Seq(DlgIds)
  /\ Len(FreeIdsOfRing) = FreeCount
  /\ \A k \in 1 .. FreeCount : FreeIdsOfRing[k] = HalfMaxDlgSize + dlgIdx[SlotOf(k)]

LEMMA FreeSlots == TypeOK /\ RingShape => FreeSlotsInOrder
BY Sizes
DEF TypeOK, RingShape, FreeSlotsInOrder, FreeCount, SlotOf, Wrapped, Slots, TakenSlot

LEMMA FreeIdsAreASequence == TypeOK /\ RingShape => FreeIdsInOrder
<1> SUFFICES ASSUME TypeOK, RingShape PROVE FreeIdsInOrder
    OBVIOUS
<1> USE Sizes
<1>0. FreeSlotsInOrder
  BY FreeSlots
<1>1. FreeCount \in Nat
  BY <1>0 DEF FreeSlotsInOrder
<1>2. FreeIdsOfRing = [k \in 1 .. FreeCount |-> HalfMaxDlgSize + dlgIdx[SlotOf(k)]]
  BY DEF FreeIdsOfRing, FreeCount, SlotOf
<1>3. \A k \in 1 .. FreeCount : HalfMaxDlgSize + dlgIdx[SlotOf(k)] \in DlgIds
  BY <1>0, PoolAssumption DEF FreeSlotsInOrder, TypeOK, TakenSlot, DlgIds, Slots
<1>4. FreeIdsOfRing \in [1 .. FreeCount -> DlgIds]
  BY <1>2, <1>3
<1>5. FreeIdsOfRing \in Seq(DlgIds)
  BY <1>1, <1>4, SeqDef
<1>6. DOMAIN FreeIdsOfRing = 1 .. FreeCount
  BY <1>2
<1>7. Len(FreeIdsOfRing) \in Nat /\ DOMAIN FreeIdsOfRing = 1 .. Len(FreeIdsOfRing)
  BY <1>5, LenProperties
<1>8. Len(FreeIdsOfRing) = FreeCount
  BY <1>1, <1>6, <1>7
<1>9. QED
  BY <1>2, <1>5, <1>8 DEF FreeIdsInOrder

(* Both hold before and after a step between states of the invariant.        *)
LEMMA OrderKept ==
  IInv /\ IInv' => /\ FreeSlotsInOrder /\ FreeIdsInOrder
                   /\ FreeSlotsInOrder' /\ FreeIdsInOrder'
<1>1. IInv => FreeSlotsInOrder /\ FreeIdsInOrder
  BY FreeSlots, FreeIdsAreASequence DEF IInv
<1>2. QED
  BY <1>1, PTL

LEMMA PooledAreAllocated ==
  ASSUME NEW id \in DlgIds
  PROVE  Queue!Pooled(id) <=> id \in AllocIds
<1> USE Sizes
<1>1. id \in AllocIds <=> \E k \in Slots : HalfMaxDlgSize + k = id
  <2>1. ASSUME id \in AllocIds PROVE \E k \in Slots : HalfMaxDlgSize + k = id
    <3>1. id - HalfMaxDlgSize \in Slots /\ HalfMaxDlgSize + (id - HalfMaxDlgSize) = id
      BY <2>1 DEF AllocIds, Slots
    <3>2. QED
      BY <3>1
  <2>2. QED
    BY <2>1 DEF AllocIds, Slots
<1>2. QED
  BY <1>1 DEF Queue!Pooled

LEMMA AllocateTakesTheOldest ==
  ASSUME IInv, NEW rec \in Content, Allocate(rec)
  PROVE  Queue!Take(rec)
<1> USE Sizes DEF IInv
<1>0. IInv'
  BY AllocateKeepsIInv
<1>o. FreeSlotsInOrder /\ FreeIdsInOrder /\ FreeSlotsInOrder' /\ FreeIdsInOrder'
  BY <1>0, OrderKept
<1>1. SlotToTake = nextFreeDlgIdx /\ dlgIdx[nextFreeDlgIdx] # 0
  BY NextSlotIsFilled DEF Allocate
<1>2. /\ mInDlgRecordPool' = [mInDlgRecordPool EXCEPT ![IdToTake] = rec]
      /\ dlgIdx' = [dlgIdx EXCEPT ![nextFreeDlgIdx] = 0]
      /\ nextFreeDlgIdx' = NextIdx(nextFreeDlgIdx)
  BY <1>1 DEF Allocate
<1>3. FreeCount # 0 /\ recordCount' = recordCount + 1 /\ FreeCount' = FreeCount - 1
  BY <1>1 DEF Allocate, Increment, FreeCount, TypeOK, RingShape, TakenSlot, Slots
<1>4. /\ FreeIdsOfRing \in Seq(DlgIds) /\ Len(FreeIdsOfRing) = FreeCount
      /\ FreeIdsOfRing' \in Seq(DlgIds) /\ Len(FreeIdsOfRing)' = FreeCount'
      /\ FreeCount \in Nat
  BY <1>o DEF FreeSlotsInOrder, FreeIdsInOrder
<1>5. FreeIdsOfRing # << >>
  BY <1>3, <1>4, EmptySeq
<1>6. /\ Head(FreeIdsOfRing) = FreeIdsOfRing[1]
      /\ Tail(FreeIdsOfRing) \in Seq(DlgIds)
      /\ Len(Tail(FreeIdsOfRing)) = FreeCount - 1
      /\ \A k \in 1 .. FreeCount - 1 : Tail(FreeIdsOfRing)[k] = FreeIdsOfRing[k + 1]
  BY <1>4, <1>5, HeadTailProperties
<1>7. Head(FreeIdsOfRing) = IdToTake
  <2>1. SlotOf(1) = nextFreeDlgIdx
    BY DEF SlotOf, Wrapped, TypeOK, Slots
  <2>2. FreeIdsOfRing[1] = HalfMaxDlgSize + dlgIdx[nextFreeDlgIdx]
    BY <1>o, <1>3, <1>4, <2>1 DEF FreeIdsInOrder
  <2>3. QED
    BY <1>1, <1>6, <2>2 DEF IdToTake, TypeOK
<1>8. FreeIdsOfRing' = Tail(FreeIdsOfRing)
  <2>1. ASSUME NEW k \in 1 .. FreeCount - 1
        PROVE  FreeIdsOfRing'[k] = FreeIdsOfRing[k + 1]
    <3>1. SlotOf(k)' = SlotOf(k + 1)
      BY <1>2, <1>3 DEF SlotOf, Wrapped, NextIdx, FreeCount, TypeOK, Slots
    <3>2. SlotOf(k + 1) \in Slots /\ SlotOf(k + 1) # SlotOf(1)
      BY <1>o, <1>4 DEF FreeSlotsInOrder
    <3>3. SlotOf(1) = nextFreeDlgIdx
      BY DEF SlotOf, Wrapped, TypeOK, Slots
    <3>4. dlgIdx'[SlotOf(k + 1)] = dlgIdx[SlotOf(k + 1)]
      BY <1>2, <3>2, <3>3 DEF TypeOK
    <3>5. FreeIdsOfRing'[k] = HalfMaxDlgSize + dlgIdx'[SlotOf(k)']
      BY <1>o, <1>0, <1>3, <1>4 DEF FreeIdsInOrder
    <3>6. FreeIdsOfRing[k + 1] = HalfMaxDlgSize + dlgIdx[SlotOf(k + 1)]
      BY <1>o, <1>4 DEF FreeIdsInOrder
    <3>7. QED
      BY <3>1, <3>4, <3>5, <3>6
  <2>2. QED
    BY <1>3, <1>4, <1>6, <2>1, SeqEqual
<1>9. QED
  BY <1>2, <1>5, <1>7, <1>8 DEF Queue!Take

LEMMA FreeGivesToTheEnd ==
  ASSUME IInv, NEW id \in DlgIds, FreeAllocated(id)
  PROVE  Queue!Give(id)
<1> USE Sizes DEF IInv
<1>0. IInv' /\ id \in AllocIds /\ recordCount' = recordCount - 1
  BY FreeAllocatedKeepsIInv
<1>o. FreeSlotsInOrder /\ FreeIdsInOrder /\ FreeSlotsInOrder' /\ FreeIdsInOrder'
  BY <1>0, OrderKept
<1>1. /\ Live(id)
      /\ mInDlgRecordPool' = [mInDlgRecordPool EXCEPT ![id] = NoRecord]
      /\ dlgIdx' = [dlgIdx EXCEPT ![lastFreeDlgIdx] = id - HalfMaxDlgSize]
      /\ nextFreeDlgIdx' = nextFreeDlgIdx
  BY DEF FreeAllocated, CanFree
<1>2. recordCount # 0 /\ TakenSlot(lastFreeDlgIdx)
  BY <1>0, <1>1, SlotForFreedId
<1>3. FreeCount < MaxAllocateDlgSize /\ FreeCount' = FreeCount + 1
  BY <1>0, <1>2 DEF FreeCount, TypeOK
<1>4. /\ FreeIdsOfRing \in Seq(DlgIds) /\ Len(FreeIdsOfRing) = FreeCount
      /\ FreeIdsOfRing' \in Seq(DlgIds) /\ Len(FreeIdsOfRing)' = FreeCount'
      /\ FreeCount \in Nat
  BY <1>o DEF FreeSlotsInOrder, FreeIdsInOrder
<1>5. /\ Append(FreeIdsOfRing, id) \in Seq(DlgIds)
      /\ Len(Append(FreeIdsOfRing, id)) = FreeCount + 1
      /\ \A k \in 1 .. FreeCount : Append(FreeIdsOfRing, id)[k] = FreeIdsOfRing[k]
      /\ Append(FreeIdsOfRing, id)[FreeCount + 1] = id
  BY <1>4, AppendProperties
<1>6. \A k \in 1 .. FreeCount + 1 :
        /\ SlotOf(k)' = SlotOf(k)
        /\ FreeIdsOfRing'[k] = HalfMaxDlgSize + dlgIdx'[SlotOf(k)]
  <2>1. ASSUME NEW k \in 1 .. FreeCount + 1 PROVE SlotOf(k)' = SlotOf(k)
    BY <1>1 DEF SlotOf
  <2>2. \A k \in 1 .. FreeCount' : FreeIdsOfRing'[k] = HalfMaxDlgSize + dlgIdx'[SlotOf(k)']
    BY <1>o, <1>0 DEF FreeIdsInOrder
  <2>3. QED
    BY <1>3, <2>1, <2>2
<1>7. FreeIdsOfRing' = Append(FreeIdsOfRing, id)
  <2>1. ASSUME NEW k \in 1 .. FreeCount
        PROVE  FreeIdsOfRing'[k] = FreeIdsOfRing[k]
    <3>1. SlotOf(k) \in Slots /\ SlotOf(k) # lastFreeDlgIdx
      BY <1>o, <1>2 DEF FreeSlotsInOrder
    <3>2. dlgIdx'[SlotOf(k)] = dlgIdx[SlotOf(k)]
      BY <1>1, <3>1 DEF TypeOK
    <3>3. QED
      BY <1>o, <1>4, <1>6, <3>2 DEF FreeIdsInOrder
  <2>2. FreeIdsOfRing'[FreeCount + 1] = id
    <3>1. SlotOf(FreeCount + 1) = lastFreeDlgIdx
      BY <1>o, <1>3 DEF FreeSlotsInOrder
    <3>2. dlgIdx'[lastFreeDlgIdx] = id - HalfMaxDlgSize
      BY <1>1 DEF TypeOK
    <3>3. QED
      BY <1>4, <1>6, <3>1, <3>2 DEF DlgIds
  <2>3. \A k \in 1 .. FreeCount + 1 : FreeIdsOfRing'[k] = Append(FreeIdsOfRing, id)[k]
    BY <1>4, <1>5, <2>1, <2>2
  <2>4. QED
    BY <1>3, <1>4, <1>5, <2>3, SeqEqual
<1>8. QED
  BY <1>0, <1>1, <1>7, PooledAreAllocated DEF Queue!Give, Queue!InUse, Live

LEMMA QueueUntouched ==
  ASSUME UNCHANGED << dlgIdx, nextFreeDlgIdx, lastFreeDlgIdx, recordCount >>
  PROVE  FreeIdsOfRing' = FreeIdsOfRing
BY DEF FreeIdsOfRing

(* The ring is a queue: an allocation hands out the id that was freed first, *)
(* and a freed id is handed out after all that are free.                     *)
THEOREM RingIsAQueue == Spec => ImplementsQueue
<1>1. PoolInit => Queue!Init
  BY Sizes DEF PoolInit, Queue!Init, FreeIdsOfRing, Wrapped, Slots
<1>2. IInv /\ [Next]_poolVars => [Queue!Next]_(Queue!vars)
  <2> SUFFICES ASSUME IInv, [Next]_poolVars
               PROVE  [Queue!Next]_(Queue!vars)
      OBVIOUS
  <2>1. ASSUME NEW rec \in Content, Allocate(rec) PROVE Queue!Next
    BY <2>1, AllocateTakesTheOldest DEF Queue!Next
  <2>2. ASSUME NEW id \in DlgIds, FreeAllocated(id) PROVE Queue!Next
    BY <2>2, FreeGivesToTheEnd DEF Queue!Next
  <2>3. ASSUME NEW id \in DlgIds, FreeAppChosen(id) PROVE Queue!Next
    <3>1. id \notin AllocIds
      BY <2>3, Sizes DEF FreeAppChosen, AllocIds
    <3>2. Queue!Clear(id)
      BY <2>3, <3>1, PooledAreAllocated, QueueUntouched
      DEF FreeAppChosen, CanFree, Live, Queue!Clear, Queue!InUse
    <3>3. QED
      BY <3>2 DEF Queue!Next
  <2>4. ASSUME NEW id \in DlgIds, NEW rec \in Content, UpdateInUse(id, rec)
        PROVE  Queue!Next
    <3>1. id \in AllocIds => id \notin AppIds
      BY Sizes DEF AllocIds, AppIds
    <3>2. Queue!Write(id, rec)
      BY <2>4, <3>1, PooledAreAllocated, QueueUntouched
      DEF UpdateInUse, Update, Live, Queue!Write, Queue!InUse
    <3>3. QED
      BY <3>2 DEF Queue!Next
  <2>5. CASE UNCHANGED poolVars
    BY <2>5, QueueUntouched DEF poolVars, Queue!vars
  <2>6. QED
    BY <2>1, <2>2, <2>3, <2>4, <2>5 DEF Next
<1>3. QED
  BY <1>1, <1>2, InductiveInvariant, PTL DEF Spec, ImplementsQueue, Queue!Spec
=============================================================================
