------------------------------- MODULE DlgSem -------------------------------
(***************************************************************************)
(* The System V semaphore that guards the dialogue pool, and the threads   *)
(* of several handler processes that enter and leave it: DlgMgr::Lock and  *)
(* DlgMgr::UnLock.  Lock waits until the semaphore is 0 and adds 1; UnLock *)
(* subtracts 1 without waiting.  Both are made with SEM_UNDO, so that the  *)
(* kernel keeps a correction per process and applies it when the process   *)
(* ends.  The callers of Lock and UnLock ignore what they return; signals  *)
(* that interrupt semop are left out.                                      *)
(***************************************************************************)
EXTENDS Integers

CONSTANTS
  Thread,      (* the threads that call the dialogue manager                 *)
  Process,     (* the handler processes, one for each subsystem number       *)
  ProcessOf    (* the process a thread runs in                               *)

ASSUME ThreadAssumption == ProcessOf \in [Thread -> Process]

VARIABLES
  semval,      (* the value of semaphore SEM_FOR_IN_DLG_POOL                 *)
  semadj,      (* what the kernel will add to semval when a process ends     *)
  pc           (* where a thread is: outside, in semop, or past it           *)

semVars == << semval, semadj, pc >>

SemInit ==
  /\ semval = 0
  /\ semadj = [p \in Process |-> 0]
  /\ pc = [t \in Thread |-> "outside"]

Call(t) ==
  /\ pc[t] = "outside"
  /\ pc' = [pc EXCEPT ![t] = "waiting"]
  /\ UNCHANGED << semval, semadj >>

LockWithoutWaiting(t) ==   (* a slip: only the increment, no wait for 0       *)
  /\ pc[t] = "waiting"
  /\ semval' = 1
  /\ semadj' = [semadj EXCEPT ![ProcessOf[t]] = @ - 1]
  /\ pc' = [pc EXCEPT ![t] = "inside"]

Lock(t) ==
  /\ pc[t] = "waiting"
  /\ semval = 0
  /\ semval' = 1
  /\ semadj' = [semadj EXCEPT ![ProcessOf[t]] = @ - 1]
  /\ pc' = [pc EXCEPT ![t] = "inside"]

UnLockWithoutUndo(t) ==    (* a slip: SEM_UNDO missing from UnLock            *)
  /\ pc[t] = "inside"
  /\ pc' = [pc EXCEPT ![t] = "outside"]
  /\ semval' = IF semval > 0 THEN semval - 1 ELSE semval
  /\ UNCHANGED semadj

(* With IPC_NOWAIT an UnLock of a semaphore that is 0 fails and does nothing.*)
UnLock(t) ==
  /\ pc[t] = "inside"
  /\ pc' = [pc EXCEPT ![t] = "outside"]
  /\ IF semval > 0
     THEN /\ semval' = semval - 1
          /\ semadj' = [semadj EXCEPT ![ProcessOf[t]] = @ + 1]
     ELSE UNCHANGED << semval, semadj >>

ExitWithoutUndo(p) ==      (* a slip: SEM_UNDO missing from both              *)
  /\ semadj' = [semadj EXCEPT ![p] = 0]
  /\ pc' = [t \in Thread |-> IF ProcessOf[t] = p THEN "outside" ELSE pc[t]]
  /\ UNCHANGED semval

(* A process ends: main returns while its detached threads run, a second     *)
(* signal calls _exit, or it crashes.  All its threads stop where they are.  *)
(* It may be started again: its threads are then outside.                    *)
Exit(p) ==
  /\ semval' = IF semval + semadj[p] < 0 THEN 0 ELSE semval + semadj[p]
  /\ semadj' = [semadj EXCEPT ![p] = 0]
  /\ pc' = [t \in Thread |-> IF ProcessOf[t] = p THEN "outside" ELSE pc[t]]

-----------------------------------------------------------------------------
ThreadStep(t) == Call(t) \/ Lock(t) \/ UnLock(t)

Next ==
  \/ \E t \in Thread : ThreadStep(t)
  \/ \E p \in Process : Exit(p)

Spec == SemInit /\ [][Next]_semVars

(* The kernel serves the sleepers of a semaphore in the order they came, and *)
(* the code between Lock and UnLock neither waits nor loops.                 *)
Fairness ==
  \A t \in Thread : SF_semVars(Lock(t)) /\ WF_semVars(UnLock(t))

FairSpec == Spec /\ Fairness
-----------------------------------------------------------------------------
(* The semaphore is 0 or 1 and each correction undoes at most one operation. *)
TypeOK ==
  /\ semval \in {0, 1}
  /\ semadj \in [Process -> {-1, 0}]
  /\ pc \in [Thread -> {"outside", "waiting", "inside"}]

Inside(t) == pc[t] = "inside"

(* No two threads are between Lock and UnLock at once, whichever processes   *)
(* they belong to and whichever processes ended before.                      *)
MutualExclusion == \A t, u \in Thread : Inside(t) /\ Inside(u) => t = u

(* A semaphore that is taken has a thread that will release it, and the      *)
(* kernel would release it if that thread's process ended.                   *)
TakenHasHolder ==
  semval = 1 => \E t \in Thread : Inside(t) /\ semadj[ProcessOf[t]] = -1

(* Every call of the dialogue manager gets through, even when processes end  *)
(* between Lock and UnLock (a call of a process that ends, ends with it).    *)
CallsReturn == \A t \in Thread : pc[t] = "waiting" ~> pc[t] = "outside"
=============================================================================
