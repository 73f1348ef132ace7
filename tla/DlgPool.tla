------------------------------ MODULE DlgPool ------------------------------
(***************************************************************************)
(* The dialogue manager's shared memory (tcap/src/TcapAculabDlgMgr.cc): a  *)
(* pool of dialogue records indexed by dialogue id, and the ring           *)
(* (DlgMgmtQueue) that holds the dialogue ids the library may hand out.    *)
(* Ids up to HalfMaxDlgSize are chosen by the application; ids above it    *)
(* are allocated here.  Each action is one call made under the semaphore;  *)
(* module DlgMgr takes the calls apart into their single writes.           *)
(***************************************************************************)
EXTENDS Integers, FiniteSets

CONSTANTS
  MaxDlgSize,   (* MAX_ACU_TCAP_DLG_SIZE: the number of dialogue records     *)
  ShiftIndex,   (* ACU_TCAP_IN_DLG_SHIFT_INDX: moves the split of the ids    *)
  CountMod,     (* the modulus of recordCount, 2^32 in the code              *)
  Content,      (* what a record in use can hold                             *)
  NoRecord      (* a zeroed record: its dlgId field is 0                     *)

(* ReadConfig computes both sizes in unsigned arithmetic and checks nothing; *)
(* the ring exists only when the shift is smaller than half the pool.        *)
ASSUME PoolAssumption ==
  /\ MaxDlgSize \in Nat
  /\ ShiftIndex \in Nat
  /\ ShiftIndex < MaxDlgSize \div 2
  /\ CountMod \in Nat
  /\ MaxDlgSize < CountMod
  /\ NoRecord \notin Content

HalfMaxDlgSize     == MaxDlgSize \div 2 + ShiftIndex
MaxAllocateDlgSize == MaxDlgSize \div 2 - ShiftIndex

DlgIds   == 1 .. MaxDlgSize
AppIds   == 1 .. HalfMaxDlgSize
Slots    == 1 .. MaxAllocateDlgSize
AllocIds == HalfMaxDlgSize + 1 .. HalfMaxDlgSize + MaxAllocateDlgSize

VARIABLES
  mInDlgRecordPool,   (* DlgIds -> Content \cup {NoRecord}                   *)
  dlgIdx,             (* the ring: Slots -> 0 .. MaxAllocateDlgSize, 0: taken *)
  nextFreeDlgIdx,     (* the slot the next allocation takes                  *)
  lastFreeDlgIdx,     (* the slot the next freed id goes to                  *)
  recordCount         (* the ids handed out                                  *)

poolVars == << mInDlgRecordPool, dlgIdx, nextFreeDlgIdx, lastFreeDlgIdx, recordCount >>

PoolInit ==
  /\ mInDlgRecordPool = [id \in DlgIds |-> NoRecord]
  /\ dlgIdx = [i \in Slots |-> i]
  /\ nextFreeDlgIdx = 1
  /\ lastFreeDlgIdx = 1
  /\ recordCount = 0

(* Slips in UpdateDlgMgmtQueueIdx: wrapping one slot late, or one early.     *)
NextIdxLate(i)  == IF i > MaxAllocateDlgSize THEN 1 ELSE i + 1
NextIdxEarly(i) == IF i + 1 >= MaxAllocateDlgSize THEN 1 ELSE i + 1

(* UpdateDlgMgmtQueueIdx: the next slot, past the end the first one.         *)
NextIdx(i) == IF i + 1 > MaxAllocateDlgSize THEN 1 ELSE i + 1

(* recordCount is an unsigned integer: it wraps at both ends.                *)
Increment(c) == IF c + 1 = CountMod THEN 0 ELSE c + 1
DecrementNever(c) == c   (* a slip: FreeDlgInfo forgets recordCount         *)
Decrement(c) == IF c = 0 THEN CountMod - 1 ELSE c - 1

Live(id) == mInDlgRecordPool[id] # NoRecord

-----------------------------------------------------------------------------
(***************************************************************************)
(* Allocate_DlgId.  When the next slot is taken and not every id is handed *)
(* out, the code walks the ring until it finds a filled slot or is back    *)
(* where it began; it then takes the id it found and zeroes the slot.      *)
(***************************************************************************)
CanAllocateButLast ==    (* a slip: the last free id is never handed out      *)
  dlgIdx[nextFreeDlgIdx] # 0 /\ recordCount + 1 < MaxAllocateDlgSize

CanAllocate ==
  \/ dlgIdx[nextFreeDlgIdx] # 0
  \/ /\ recordCount # MaxAllocateDlgSize
     /\ \E i \in Slots : dlgIdx[i] # 0

StepsAhead(i) ==
  IF i >= nextFreeDlgIdx THEN i - nextFreeDlgIdx
                         ELSE i - nextFreeDlgIdx + MaxAllocateDlgSize

SlotToTake ==
  IF dlgIdx[nextFreeDlgIdx] # 0
  THEN nextFreeDlgIdx
  ELSE CHOOSE i \in Slots :
         /\ dlgIdx[i] # 0
         /\ \A j \in Slots : dlgIdx[j] # 0 => StepsAhead(i) <= StepsAhead(j)

IdToTake == dlgIdx[SlotToTake] + HalfMaxDlgSize

Allocate(rec) ==
  /\ CanAllocate
  /\ mInDlgRecordPool' = [mInDlgRecordPool EXCEPT ![IdToTake] = rec]
  /\ dlgIdx' = [dlgIdx EXCEPT ![SlotToTake] = 0]
  /\ nextFreeDlgIdx' = NextIdx(SlotToTake)
  /\ recordCount' = Increment(recordCount)
  /\ UNCHANGED lastFreeDlgIdx

(***************************************************************************)
(* FreeDlgInfo.  It refuses a record that is already zeroed; an id of the  *)
(* allocated range goes back to the ring, an id of the application's range *)
(* is only zeroed.                                                         *)
(***************************************************************************)
CanFreeAnyId(id) == id \in DlgIds   (* a slip: no check for a zeroed record  *)
CanFree(id) == id \in DlgIds /\ Live(id)

(* Slips in FreeDlgInfo: the record is kept, or the id goes to the slot the  *)
(* next allocation takes.                                                    *)
FreeKeepsRecord(id) ==
  /\ CanFree(id)
  /\ id > HalfMaxDlgSize
  /\ dlgIdx' = [dlgIdx EXCEPT ![lastFreeDlgIdx] = id - HalfMaxDlgSize]
  /\ lastFreeDlgIdx' = NextIdx(lastFreeDlgIdx)
  /\ recordCount' = Decrement(recordCount)
  /\ UNCHANGED << mInDlgRecordPool, nextFreeDlgIdx >>

FreeToNextSlot(id) ==
  /\ CanFree(id)
  /\ id > HalfMaxDlgSize
  /\ mInDlgRecordPool' = [mInDlgRecordPool EXCEPT ![id] = NoRecord]
  /\ dlgIdx' = [dlgIdx EXCEPT ![nextFreeDlgIdx] = id - HalfMaxDlgSize]
  /\ lastFreeDlgIdx' = NextIdx(lastFreeDlgIdx)
  /\ recordCount' = Decrement(recordCount)
  /\ UNCHANGED nextFreeDlgIdx

FreeAllocated(id) ==
  /\ CanFree(id)
  /\ id > HalfMaxDlgSize
  /\ mInDlgRecordPool' = [mInDlgRecordPool EXCEPT ![id] = NoRecord]
  /\ dlgIdx' = [dlgIdx EXCEPT ![lastFreeDlgIdx] = id - HalfMaxDlgSize]
  /\ lastFreeDlgIdx' = NextIdx(lastFreeDlgIdx)
  /\ recordCount' = Decrement(recordCount)
  /\ UNCHANGED nextFreeDlgIdx

FreeAppChosen(id) ==
  /\ CanFree(id)
  /\ id <= HalfMaxDlgSize
  /\ mInDlgRecordPool' = [mInDlgRecordPool EXCEPT ![id] = NoRecord]
  /\ UNCHANGED << dlgIdx, nextFreeDlgIdx, lastFreeDlgIdx, recordCount >>

Free(id) == FreeAllocated(id) \/ FreeAppChosen(id)

(***************************************************************************)
(* UpdateDlgInfo overwrites the record of any id in range, whether or not  *)
(* the id is in use.                                                       *)
(***************************************************************************)
Update(id, rec) ==
  /\ id \in DlgIds
  /\ mInDlgRecordPool' = [mInDlgRecordPool EXCEPT ![id] = rec]
  /\ UNCHANGED << dlgIdx, nextFreeDlgIdx, lastFreeDlgIdx, recordCount >>

-----------------------------------------------------------------------------
(* The manager with callers that keep to its protocol: a record of the       *)
(* allocated range is written only while its dialogue is in use.             *)
UpdateInUse(id, rec) == (id \in AppIds \/ Live(id)) /\ Update(id, rec)

Next ==
  \/ \E rec \in Content : Allocate(rec)
  \/ \E id \in DlgIds : FreeAllocated(id)
  \/ \E id \in DlgIds : FreeAppChosen(id)
  \/ \E id \in DlgIds, rec \in Content : UpdateInUse(id, rec)

Spec == PoolInit /\ [][Next]_poolVars
-----------------------------------------------------------------------------
(* The types of the shared memory: in particular both ring positions stay    *)
(* inside the ring and the record count never wraps.                         *)
TypeOK ==
  /\ mInDlgRecordPool \in [DlgIds -> Content \cup {NoRecord}]
  /\ dlgIdx \in [Slots -> 0 .. MaxAllocateDlgSize]
  /\ nextFreeDlgIdx \in Slots
  /\ lastFreeDlgIdx \in Slots
  /\ recordCount \in 0 .. MaxAllocateDlgSize

(* Every allocatable id is either in use or in exactly one slot of the ring: *)
(* no id is lost and none can be handed out twice.  When MaxDlgSize is odd   *)
(* the last id is in neither range, and is never in use.                     *)
InRing(id) == \E i \in Slots : dlgIdx[i] = id - HalfMaxDlgSize

NoIdTwiceInRing ==
  \A i, j \in Slots : dlgIdx[i] # 0 /\ dlgIdx[i] = dlgIdx[j] => i = j

IdsInRingOrInUse ==
  /\ NoIdTwiceInRing
  /\ \A id \in AllocIds : InRing(id) <=> ~Live(id)
  /\ \A id \in DlgIds : Live(id) => id \in AppIds \cup AllocIds

(* The taken slots are one stretch of the ring, from lastFreeDlgIdx up to    *)
(* the slot before nextFreeDlgIdx, and recordCount is its length.            *)
TakenSlot(i) == dlgIdx[i] = 0

RingShape ==
  \/ /\ lastFreeDlgIdx < nextFreeDlgIdx
     /\ recordCount = nextFreeDlgIdx - lastFreeDlgIdx
     /\ \A i \in Slots :
          TakenSlot(i) <=> lastFreeDlgIdx <= i /\ i < nextFreeDlgIdx
  \/ /\ nextFreeDlgIdx < lastFreeDlgIdx
     /\ recordCount = MaxAllocateDlgSize + nextFreeDlgIdx - lastFreeDlgIdx
     /\ \A i \in Slots :
          TakenSlot(i) <=> lastFreeDlgIdx <= i \/ i < nextFreeDlgIdx
  \/ /\ nextFreeDlgIdx = lastFreeDlgIdx
     /\ \/ recordCount = 0 /\ \A i \in Slots : ~TakenSlot(i)
        \/ recordCount = MaxAllocateDlgSize /\ \A i \in Slots : TakenSlot(i)

(* Allocate_DlgId refuses ("DlgRecordPool full") exactly when every          *)
(* allocatable id is in use.                                                 *)
RefusesOnlyWhenFull == CanAllocate <=> \E id \in AllocIds : ~Live(id)

(* GetNumberOfFreeDlgRecords reports the number of ids that can be handed    *)
(* out.                                                                      *)
NumberOfFreeDlgRecords == MaxAllocateDlgSize - recordCount

CountIsExact ==
  NumberOfFreeDlgRecords = Cardinality({id \in AllocIds : ~Live(id)})

(* An allocation never hands out an id whose dialogue is still in use.       *)
HandsOutFreeIdsOnly ==
  [][\A rec \in Content : Allocate(rec) => ~Live(IdToTake)]_poolVars

-----------------------------------------------------------------------------
(* The free ids in the order in which the ring hands them out.               *)
Wrapped(i) == IF i > MaxAllocateDlgSize THEN i - MaxAllocateDlgSize ELSE i

FreeIdsOfRing ==
  [k \in 1 .. MaxAllocateDlgSize - recordCount |->
     HalfMaxDlgSize + dlgIdx[Wrapped(nextFreeDlgIdx + k - 1)]]

Queue == INSTANCE DlgIdQueue WITH
  Ids <- DlgIds,
  PooledIds <- [k \in Slots |-> HalfMaxDlgSize + k],
  freeIds <- FreeIdsOfRing,
  records <- mInDlgRecordPool

(* The ring serves the free ids first in, first out, as the queue promises.  *)
ImplementsQueue == Queue!Spec
=============================================================================
