------------------------------- MODULE DlgMgr -------------------------------
(***************************************************************************)
(* The dialogue manager write by write: threads of several processes call  *)
(* Allocate_DlgId, FreeDlgInfo and UpdateDlgInfo on the shared memory,     *)
(* each call between Lock and UnLock of the semaphore (DlgSem).  A process *)
(* may end between two writes; the shared memory then stays as it is, and  *)
(* Init only attaches to it again.                                         *)
(***************************************************************************)
EXTENDS DlgPool

CONSTANTS
  Thread, Process, ProcessOf,   (* see DlgSem                                *)
  CalledIds                     (* the dialogue ids the callers name         *)

ASSUME CallersAssumption ==
  /\ ProcessOf \in [Thread -> Process]
  /\ CalledIds \subseteq DlgIds

VARIABLES
  semval, semadj, pc,   (* the semaphore, see DlgSem                         *)
  call,                 (* the call each thread makes and its next write     *)
  torn                  (* whether a process ended between two writes        *)

Sem == INSTANCE DlgSem

semVars == << semval, semadj, pc >>
vars == << poolVars, semVars, call, torn >>

NoId == 0

(* at: the next write of the call; start: the slot a walk of the ring began  *)
(* at.  The id of Allocate_DlgId is known once it is taken.                  *)
Calls == [op : {"none", "allocate", "free", "update"}, id : DlgIds \cup {NoId},
          rec : Content \cup {NoRecord}, start : Slots \cup {0},
          at : {"begin", "walk", "ring", "advance", "count", "fill", "end"}]

CallOf(op, id, rec, place) ==
  [op |-> op, id |-> id, rec |-> rec, start |-> 0, at |-> place]

NoCall == CallOf("none", NoId, NoRecord, "end")

Init ==
  /\ PoolInit
  /\ Sem!SemInit
  /\ call = [t \in Thread |-> NoCall]
  /\ torn = FALSE

-----------------------------------------------------------------------------
(* A thread is about to make the write its call has come to.                 *)
At(t, op, place) ==
  pc[t] = "inside" /\ call[t].op = op /\ call[t].at = place

GoTo(t, place) == call' = [call EXCEPT ![t].at = place]

Calling(op, id) == \E t \in Thread : call[t].op = op /\ call[t].id = id

Begin(t, op, id, rec) ==
  /\ Sem!Call(t)
  /\ call' = [call EXCEPT ![t] = CallOf(op, id, rec, "begin")]
  /\ UNCHANGED poolVars

BeginAllocate(t, rec) == Begin(t, "allocate", NoId, rec)

(* The callers keep to the pool's protocol: an id of the allocated range is  *)
(* written only while it is in use and nobody frees it.                      *)
BeginFree(t, id) ==
  /\ ~Calling("update", id)
  /\ Begin(t, "free", id, NoRecord)

BeginUpdate(t, id, rec) ==
  /\ id \in AppIds \/ Live(id)
  /\ ~Calling("free", id)
  /\ Begin(t, "update", id, rec)

EnterUnlocked(t) ==        (* a slip: a call without Lock                     *)
  /\ pc[t] = "waiting"
  /\ pc' = [pc EXCEPT ![t] = "inside"]
  /\ UNCHANGED << poolVars, call, semval, semadj >>

Enter(t) == Sem!Lock(t) /\ UNCHANGED << poolVars, call >>

Leave(t) ==
  /\ call[t].at = "end"
  /\ Sem!UnLock(t)
  /\ call' = [call EXCEPT ![t] = NoCall]
  /\ UNCHANGED poolVars

-----------------------------------------------------------------------------
(* Allocate_DlgId: find a filled slot, empty it, step nextFreeDlgIdx, count, *)
(* fill the record.  When the next slot is taken and not every id is handed  *)
(* out, nextFreeDlgIdx itself walks the ring, at most once around.           *)
NextTaken == dlgIdx[nextFreeDlgIdx] = 0

AllocateRefuse(t) ==
  /\ \/ At(t, "allocate", "begin") /\ recordCount = MaxAllocateDlgSize
     \/ At(t, "allocate", "walk") /\ nextFreeDlgIdx = call[t].start
  /\ NextTaken
  /\ GoTo(t, "end")
  /\ UNCHANGED << poolVars, semVars >>

WalkOn == /\ nextFreeDlgIdx' = NextIdx(nextFreeDlgIdx)
          /\ UNCHANGED << mInDlgRecordPool, dlgIdx, lastFreeDlgIdx, recordCount >>

AllocateWalk(t) ==
  /\ At(t, "allocate", "begin")
  /\ NextTaken
  /\ recordCount # MaxAllocateDlgSize
  /\ WalkOn
  /\ call' = [call EXCEPT ![t].start = nextFreeDlgIdx, ![t].at = "walk"]
  /\ UNCHANGED semVars

AllocateWalkOn(t) ==
  /\ At(t, "allocate", "walk")
  /\ NextTaken
  /\ nextFreeDlgIdx # call[t].start
  /\ WalkOn
  /\ UNCHANGED << call, semVars >>

AllocateTake(t) ==
  /\ At(t, "allocate", "begin") \/ At(t, "allocate", "walk")
  /\ ~NextTaken
  /\ dlgIdx' = [dlgIdx EXCEPT ![nextFreeDlgIdx] = 0]
  /\ call' = [call EXCEPT ![t].id = dlgIdx[nextFreeDlgIdx] + HalfMaxDlgSize,
                          ![t].at = "advance"]
  /\ UNCHANGED << mInDlgRecordPool, nextFreeDlgIdx, lastFreeDlgIdx, recordCount, semVars >>

AllocateAdvance(t) ==
  /\ At(t, "allocate", "advance")
  /\ nextFreeDlgIdx' = NextIdx(nextFreeDlgIdx)
  /\ GoTo(t, "count")
  /\ UNCHANGED << mInDlgRecordPool, dlgIdx, lastFreeDlgIdx, recordCount, semVars >>

AllocateCount(t) ==
  /\ At(t, "allocate", "count")
  /\ recordCount' = Increment(recordCount)
  /\ GoTo(t, "fill")
  /\ UNCHANGED << mInDlgRecordPool, dlgIdx, nextFreeDlgIdx, lastFreeDlgIdx, semVars >>

WriteRecord(t, op, place) ==
  /\ At(t, op, place)
  /\ mInDlgRecordPool' = [mInDlgRecordPool EXCEPT ![call[t].id] = call[t].rec]
  /\ GoTo(t, "end")
  /\ UNCHANGED << dlgIdx, nextFreeDlgIdx, lastFreeDlgIdx, recordCount, semVars >>

AllocateFill(t) == WriteRecord(t, "allocate", "fill")

(* UpdateDlgInfo: one copy of the caller's record.                           *)
UpdateCopy(t) == WriteRecord(t, "update", "begin")

(* FreeDlgInfo: zero the record, fill the slot, step lastFreeDlgIdx, count.  *)
FreeRefuse(t) ==
  /\ At(t, "free", "begin")
  /\ ~CanFree(call[t].id)
  /\ GoTo(t, "end")
  /\ UNCHANGED << poolVars, semVars >>

FreeZero(t) ==
  /\ At(t, "free", "begin")
  /\ CanFree(call[t].id)
  /\ mInDlgRecordPool' = [mInDlgRecordPool EXCEPT ![call[t].id] = NoRecord]
  /\ GoTo(t, IF call[t].id > HalfMaxDlgSize THEN "ring" ELSE "end")
  /\ UNCHANGED << dlgIdx, nextFreeDlgIdx, lastFreeDlgIdx, recordCount, semVars >>

FreeRing(t) ==
  /\ At(t, "free", "ring")
  /\ dlgIdx' = [dlgIdx EXCEPT ![lastFreeDlgIdx] = call[t].id - HalfMaxDlgSize]
  /\ GoTo(t, "advance")
  /\ UNCHANGED << mInDlgRecordPool, nextFreeDlgIdx, lastFreeDlgIdx, recordCount, semVars >>

FreeAdvance(t) ==
  /\ At(t, "free", "advance")
  /\ lastFreeDlgIdx' = NextIdx(lastFreeDlgIdx)
  /\ GoTo(t, "count")
  /\ UNCHANGED << mInDlgRecordPool, dlgIdx, nextFreeDlgIdx, recordCount, semVars >>

FreeCount(t) ==
  /\ At(t, "free", "count")
  /\ recordCount' = Decrement(recordCount)
  /\ GoTo(t, "end")
  /\ UNCHANGED << mInDlgRecordPool, dlgIdx, nextFreeDlgIdx, lastFreeDlgIdx, semVars >>

-----------------------------------------------------------------------------
(* A process ends with its calls; nothing of the shared memory is undone.    *)
Writing(t) ==
  \/ \E place \in {"advance", "count", "fill"} : At(t, "allocate", place)
  \/ \E place \in {"ring", "advance", "count"} : At(t, "free", place)

End(p) ==
  /\ Sem!Exit(p)
  /\ call' = [t \in Thread |-> IF ProcessOf[t] = p THEN NoCall ELSE call[t]]
  /\ torn' = (torn \/ \E t \in Thread : ProcessOf[t] = p /\ Writing(t))
  /\ UNCHANGED poolVars

BeginCall(t) ==
  \/ \E rec \in Content : BeginAllocate(t, rec)
  \/ \E id \in CalledIds : BeginFree(t, id)
  \/ \E id \in CalledIds, rec \in Content : BeginUpdate(t, id, rec)

Step(t) ==
  \/ AllocateRefuse(t) \/ AllocateWalk(t) \/ AllocateWalkOn(t)
  \/ AllocateTake(t) \/ AllocateAdvance(t)
  \/ AllocateCount(t) \/ AllocateFill(t)
  \/ FreeRefuse(t) \/ FreeZero(t) \/ FreeRing(t) \/ FreeAdvance(t) \/ FreeCount(t)
  \/ UpdateCopy(t)

Run(t) == (BeginCall(t) \/ Enter(t) \/ Step(t) \/ Leave(t)) /\ UNCHANGED torn

(* Processes end, between any two writes, and start again.                   *)
MgrNext ==
  \/ \E t \in Thread : Run(t)
  \/ \E p \in Process : End(p)

MgrSpec == Init /\ [][MgrNext]_vars
-----------------------------------------------------------------------------
(* Every call takes effect at once, whatever calls other threads make and    *)
(* whichever process ends outside of its writes: the shared memory, with the *)
(* writes the call inside still has to make, does what DlgPool allows.       *)
ToMake(op, places) ==
  \E t \in Thread : \E place \in places : At(t, op, place)

Allocating == CHOOSE t \in Thread : At(t, "allocate", call[t].at)
Freeing    == CHOOSE t \in Thread : At(t, "free", call[t].at)

RecordsDone ==
  IF ToMake("allocate", {"advance", "count", "fill"})
  THEN [mInDlgRecordPool EXCEPT ![call[Allocating].id] = call[Allocating].rec]
  ELSE mInDlgRecordPool

RingDone ==
  IF ToMake("free", {"ring"})
  THEN [dlgIdx EXCEPT ![lastFreeDlgIdx] = call[Freeing].id - HalfMaxDlgSize]
  ELSE dlgIdx

NextDone ==
  IF ToMake("allocate", {"advance"}) THEN NextIdx(nextFreeDlgIdx) ELSE nextFreeDlgIdx

LastDone ==
  IF ToMake("free", {"ring", "advance"}) THEN NextIdx(lastFreeDlgIdx) ELSE lastFreeDlgIdx

CountDone ==
  IF ToMake("allocate", {"advance", "count"}) THEN Increment(recordCount)
  ELSE IF ToMake("free", {"ring", "advance", "count"}) THEN Decrement(recordCount)
  ELSE recordCount

Pool == INSTANCE DlgPool WITH
  mInDlgRecordPool <- RecordsDone, dlgIdx <- RingDone, nextFreeDlgIdx <- NextDone,
  lastFreeDlgIdx <- LastDone, recordCount <- CountDone

ImplementsPool ==
  /\ Pool!PoolInit
  /\ [][torn' \/ Pool!Next]_<<Pool!poolVars, torn>>

(* What the order of the writes protects when a process ends between two of  *)
(* them: no id comes to be twice in the ring, or in the ring while a         *)
(* dialogue uses it, so no id is ever handed out to two dialogues.           *)
NoIdShared ==
  /\ NoIdTwiceInRing
  /\ \A id \in AllocIds : InRing(id) => ~Live(id)
=============================================================================
