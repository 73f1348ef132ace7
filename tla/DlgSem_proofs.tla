---------------------------- MODULE DlgSem_proofs ----------------------------
(***************************************************************************)
(* Mutual exclusion of the dialogue pool's semaphore, for any number of    *)
(* processes and threads, when processes may end at any moment and no      *)
(* signal interrupts semop.  Mutual exclusion alone is not inductive: it   *)
(* does not say that the semaphore is taken while a thread is inside, nor  *)
(* that the kernel's corrections match the holder, without which the end   *)
(* of another process could release the semaphore.                         *)
(***************************************************************************)
EXTENDS DlgSem, TLAPS

HeldBy(h) ==
  /\ semval = 1
  /\ pc[h] = "inside"
  /\ \A t \in Thread \ {h} : pc[t] # "inside"
  /\ semadj = [p \in Process |-> IF p = ProcessOf[h] THEN -1 ELSE 0]

NotHeld ==
  /\ semval = 0
  /\ \A t \in Thread : pc[t] # "inside"
  /\ semadj = [p \in Process |-> 0]

IInv ==
  /\ pc \in [Thread -> {"outside", "waiting", "inside"}]
  /\ NotHeld \/ \E h \in Thread : HeldBy(h)

LEMMA StepKeepsIInv ==
  ASSUME IInv, [Next]_semVars
  PROVE  IInv'
<1> USE ThreadAssumption DEF IInv
<1>1. ASSUME NEW t \in Thread, Call(t) PROVE IInv'
  <2>1. pc' \in [Thread -> {"outside", "waiting", "inside"}]
    BY <1>1 DEF Call
  <2>2. \A u \in Thread : pc'[u] = "inside" <=> pc[u] = "inside"
    BY <1>1 DEF Call
  <2>3. UNCHANGED << semval, semadj >>
    BY <1>1 DEF Call
  <2>4. QED
    BY <2>1, <2>2, <2>3 DEF NotHeld, HeldBy
<1>2. ASSUME NEW t \in Thread, Lock(t) PROVE IInv'
  <2>1. NotHeld
    BY <1>2 DEF Lock, HeldBy
  <2>2. pc' = [pc EXCEPT ![t] = "inside"]
    BY <1>2 DEF Lock
  <2>3. semval' = 1
    BY <1>2 DEF Lock
  <2>4. semadj' = [p \in Process |-> IF p = ProcessOf[t] THEN -1 ELSE 0]
    BY <1>2, <2>1 DEF Lock, NotHeld
  <2>5. HeldBy(t)'
    BY <2>1, <2>2, <2>3, <2>4 DEF NotHeld, HeldBy
  <2>6. QED
    BY <2>2, <2>5
<1>3. ASSUME NEW t \in Thread, UnLock(t) PROVE IInv'
  <2>1. HeldBy(t)
    BY <1>3 DEF UnLock, NotHeld, HeldBy
  <2>2. pc' = [pc EXCEPT ![t] = "outside"]
    BY <1>3 DEF UnLock
  <2>3. semval' = 0 /\ semadj' = [semadj EXCEPT ![ProcessOf[t]] = @ + 1]
    BY <1>3, <2>1 DEF UnLock, HeldBy
  <2>4. semadj' = [p \in Process |-> 0]
    BY <2>1, <2>3 DEF HeldBy
  <2>5. NotHeld'
    BY <2>1, <2>2, <2>3, <2>4 DEF NotHeld, HeldBy
  <2>6. QED
    BY <2>2, <2>5
<1>4. ASSUME NEW p \in Process, Exit(p) PROVE IInv'
  <2>1. pc' = [t \in Thread |-> IF ProcessOf[t] = p THEN "outside" ELSE pc[t]]
    BY <1>4 DEF Exit
  <2>2. semadj' = [semadj EXCEPT ![p] = 0]
    BY <1>4 DEF Exit
  <2>3. pc' \in [Thread -> {"outside", "waiting", "inside"}]
    BY <2>1
  <2>4. CASE NotHeld
    <3>1. semval' = 0
      BY <1>4, <2>4 DEF Exit, NotHeld
    <3>2. NotHeld'
      BY <2>1, <2>2, <2>4, <3>1 DEF NotHeld
    <3>3. QED
      BY <2>3, <3>2
  <2>5. ASSUME NEW h \in Thread, HeldBy(h), ProcessOf[h] = p PROVE IInv'
    <3>1. semval' = 0
      BY <1>4, <2>5 DEF Exit, HeldBy
    <3>2. semadj' = [q \in Process |-> 0]
      BY <2>2, <2>5 DEF HeldBy
    <3>3. NotHeld'
      BY <2>1, <2>5, <3>1, <3>2 DEF NotHeld, HeldBy
    <3>4. QED
      BY <2>3, <3>3
  <2>6. ASSUME NEW h \in Thread, HeldBy(h), ProcessOf[h] # p PROVE IInv'
    <3>1. semval' = 1 /\ semadj' = semadj
      BY <1>4, <2>2, <2>6 DEF Exit, HeldBy
    <3>2. HeldBy(h)'
      BY <2>1, <2>6, <3>1 DEF HeldBy
    <3>3. QED
      BY <2>3, <3>2
  <2>7. QED
    BY <2>4, <2>5, <2>6
<1>5. CASE UNCHANGED semVars
  BY <1>5 DEF semVars, NotHeld, HeldBy
<1>6. QED
  BY <1>1, <1>2, <1>3, <1>4, <1>5 DEF Next, ThreadStep

LEMMA InductiveInvariant == Spec => []IInv
<1>1. SemInit => IInv
  BY DEF SemInit, IInv, NotHeld
<1>2. IInv /\ [Next]_semVars => IInv'
  BY StepKeepsIInv
<1>3. QED
  BY <1>1, <1>2, PTL DEF Spec
-----------------------------------------------------------------------------
(* The semaphore is 0 or 1 and no correction undoes more than one operation. *)
THEOREM TypeCorrect == Spec => []TypeOK
<1>1. IInv => TypeOK
  BY ThreadAssumption DEF IInv, NotHeld, HeldBy, TypeOK
<1>2. QED
  BY <1>1, InductiveInvariant, PTL

(* No two threads are between Lock and UnLock at once, for any number of     *)
(* processes and threads and whichever processes end on the way.             *)
THEOREM Exclusion == Spec => []MutualExclusion
<1>1. IInv => MutualExclusion
  BY DEF IInv, NotHeld, HeldBy, MutualExclusion, Inside
<1>2. QED
  BY <1>1, InductiveInvariant, PTL

(* The semaphore is never left taken by a thread that is gone.               *)
THEOREM NoOrphanedLock == Spec => []TakenHasHolder
<1>1. IInv => TakenHasHolder
  BY ThreadAssumption DEF IInv, NotHeld, HeldBy, TakenHasHolder, Inside
<1>2. QED
  BY <1>1, InductiveInvariant, PTL
=============================================================================
