-------------------------- MODULE TcapSsap_proofs --------------------------
(***************************************************************************)
(* For any number of instances and dialogues and whatever fails: receive   *)
(* threads only use SSAPs that exist, queries only go to instances that    *)
(* have one, and HandleThreads starts one pair of threads per instance.    *)
(* The three are proved together with what the main thread knows at the    *)
(* place it has come to: it marks an instance before it deletes its SSAP   *)
(* and takes the mark away only when there is a new one.                   *)
(***************************************************************************)
EXTENDS TcapSsap, TLAPS

Starting    == {"create", "exited"}
Connected   == {"connect", "restore", "map", "serve"}
Replacing   == Connected \cup {"recreate"}
Doubting    == Replacing \cup {"wait", "delete"}
Supervising == Doubting \cup {"look"}

(* Of the instance in its hands.                                             *)
MainKnows ==
  /\ main.at = "wait" => main.tries \in 1 .. 2
  /\ main.at = "map" => main.id \in Dlg
  /\ main.at \in Doubting => state[main.inst] = "EXITING"
  /\ main.at = "delete" => rx[main.inst] \in {"off", "idle"}
  /\ main.at \in Connected => ssap[main.inst] = "up"

(* Threads are started for the instances whose status is CONNECT: those that *)
(* have an SSAP and no threads, before the supervision begins, and none      *)
(* after.                                                                    *)
ThreadsDue ==
  \A i \in Instance :
    /\ main.at \in Starting => threads[i] = 0 /\ rx[i] = "off"
    /\ main.at = "create" /\ status[i] = "CONNECT" => ssap[i] = "up"
    /\ main.at = "threads" /\ main.copy[i] = "CONNECT" => threads[i] = 0 /\ ssap[i] = "up"
    /\ main.at \in Supervising => status[i] # "CONNECT"
    /\ main.at \in Replacing => main.copy[i] # "CONNECT"

MissingIsMarked ==
  main.at \notin Starting => \A i \in Instance : ssap[i] = "none" => state[i] = "EXITING"

IInv ==
  /\ TypeOK /\ RxUsesLiveSsap /\ TransmittersHaveSsap /\ OnePairOfThreads
  /\ MainKnows /\ ThreadsDue /\ MissingIsMarked

-----------------------------------------------------------------------------
(* The types of the threads' states, as in TypeOK.                           *)
Places   == {"create", "exited", "threads", "look", "wait", "delete", "recreate",
             "connect", "restore", "map", "serve"}
Statuses == [Instance -> {"ADDED_NEW", "CONNECT", "ACTIVE"}]
Mains    == [at : Places, inst : Instance, tries : 0 .. 2, id : 0 .. MaxDlgSize + 1,
             rec : Records, copy : Statuses]

TxStates == [at : {"off", "check", "read", "trans", "use"}, id : Dlg \cup {0}, rec : Records]

LEMMA TypeOfMain == ASSUME TypeOK PROVE main \in Mains /\ status \in Statuses
BY DEF TypeOK, Mains, Places, Statuses

LEMMA NextInstance ==
  ASSUME NEW i \in Instance PROVE Next1(i) \in Instance
BY SsapAssumption DEF Instance, Next1

LEMMA RecordTypes ==
  /\ NoRecord \in Records
  /\ \A i \in Instance : Record(i) \in Records
  /\ \A rec \in Records, i \in Instance : Lose(rec, i) \in Records
  /\ \A rec \in Records : [rec EXCEPT !.gone = FALSE] \in Records
<1>1. NoRecord \in Records /\ \A i \in Instance : Record(i) \in Records
  BY DEF Records, Record
<1>2. [NoRecord EXCEPT !.gone = FALSE] = NoRecord /\ NoRecord.inst \notin Instance
  <2>1. /\ NoRecord \in [inst : {NumInstances}, gone : {FALSE}]
        /\ NoRecord.inst = NumInstances /\ NoRecord.gone = FALSE
    BY DEF NoRecord
  <2>2. [NoRecord EXCEPT !.gone = FALSE] = [inst |-> NoRecord.inst, gone |-> FALSE]
    BY <2>1
  <2>3. NoRecord = [inst |-> NoRecord.inst, gone |-> NoRecord.gone]
    BY <2>1
  <2>4. NumInstances \notin Instance
    BY SsapAssumption DEF Instance
  <2>5. QED
    BY <2>1, <2>2, <2>3, <2>4
<1>3. ASSUME NEW rec \in Records, rec # NoRecord, NEW gone \in BOOLEAN
      PROVE  [rec EXCEPT !.gone = gone] \in Records
  BY <1>3 DEF Records
<1>4. QED
  BY <1>1, <1>2, <1>3 DEF Lose

LEMMA MainStaysTyped ==
  ASSUME TypeOK, MainKnows, MainStep
  PROVE  main' \in Mains
<1> USE DEF GoTo
<1>0. main \in Mains /\ status \in Statuses
  BY TypeOfMain
<1>1. /\ main.tries \in 1 .. 2 => main.tries - 1 \in 0 .. 2
      /\ \A id \in Dlg : id + 1 \in 0 .. MaxDlgSize + 1
      /\ 0 \in 0 .. MaxDlgSize + 1 /\ 1 \in 0 .. MaxDlgSize + 1
      /\ NumInstances - 1 \in Instance /\ 2 \in 0 .. 2
  BY SsapAssumption DEF Dlg, Instance
<1>2. CASE \E i \in Instance : SsapCreate(i)
  BY <1>0, <1>2 DEF SsapCreate
<1>3. ASSUME NEW i \in Instance, StartThreads(i) PROVE main' \in Mains
  <2>1. [main.copy EXCEPT ![i] = "ACTIVE"] \in Statuses
    BY <1>0 DEF Mains, Statuses
  <2>2. QED
    BY <1>0, <1>3, <2>1 DEF StartThreads, Mains
<1>4. CASE SsapCreateFails \/ HandlerInit \/ ThreadsStarted
  <2>1. CASE SsapCreateFails
    BY <1>0, <2>1 DEF SsapCreateFails, Mains, Places
  <2>2. CASE HandlerInit
    BY <1>0, <1>1, <2>2 DEF HandlerInit, Mains, Places
  <2>3. CASE ThreadsStarted
    BY <1>0, <2>3, NextInstance DEF ThreadsStarted, Mains, Places
  <2>4. QED
    BY <1>4, <2>1, <2>2, <2>3
<1>5. CASE LookHealthy \/ LookUnhealthy \/ WaitHealthy \/ WaitUnhealthy
  <2>1. CASE WaitUnhealthy
    BY <1>0, <1>1, <2>1 DEF WaitUnhealthy, MainKnows, Mains, Places
  <2>2. CASE LookUnhealthy
    <3>1. [main EXCEPT !.at = "wait", !.tries = 2] \in Mains
      BY <1>0, <1>1 DEF Mains, Places
    <3>2. QED
      BY <2>2, <3>1 DEF LookUnhealthy
  <2>3. CASE LookHealthy \/ WaitHealthy
    BY <1>0, <2>3, NextInstance DEF LookHealthy, WaitHealthy, Mains, Places
  <2>4. QED
    BY <1>5, <2>1, <2>2, <2>3
<1>6. CASE ReConnectDelete \/ ReConnectCreate \/ ReConnectCreateFails \/ ReConnect \/ ReConnectFails
  BY <1>0, <1>1, <1>6, NextInstance
  DEF ReConnectDelete, ReConnectCreate, ReConnectCreateFails, ReConnect, ReConnectFails, GiveUp,
      Mains, Places
<1>7. CASE RestoreSkip \/ RestoreRead \/ RestoreMap \/ RestoreFails \/ Resume
  <2>1. main.id \in Dlg => dlg[main.id] \in Records
    BY DEF TypeOK
  <2>2. QED
    BY <1>0, <1>1, <1>7, <2>1, RecordTypes
    DEF RestoreSkip, RestoreRead, RestoreMap, RestoreFails, Resume, MainKnows, Mains, Places
<1>8. CASE Serve
  <2>1. status' \in Statuses
    BY <1>0, <1>8 DEF Serve, Mains, Statuses
  <2>2. QED
    BY <1>0, <1>1, <1>8, <2>1 DEF Serve, Mains, Places
<1>9. QED
  BY <1>2, <1>3, <1>4, <1>5, <1>6, <1>7, <1>8 DEF MainStep

LEMMA InitIInv ==
  ASSUME Init PROVE IInv
<1> USE SsapAssumption DEF Init
<1>1. dlg \in [Dlg -> Records]
  <2>1. Record(0) \in [inst : Instance, gone : BOOLEAN]
    BY DEF Record, Instance
  <2>2. [Record(0) EXCEPT !.gone = TRUE] \in Records
    BY <2>1 DEF Records
  <2>3. QED
    BY <2>2, RecordTypes
<1>2. main \in Mains /\ status \in Statuses
  BY RecordTypes DEF Mains, Places, Statuses, Instance
<1>3. tx \in [Instance -> TxStates]
  BY RecordTypes DEF TxIdle, TxStates
<1>4. TypeOK
  BY <1>1, <1>2, <1>3 DEF TypeOK, Mains, Places, Statuses, TxStates
<1>5. QED
  BY <1>4 DEF IInv, RxUsesLiveSsap, TransmittersHaveSsap, OnePairOfThreads, MainKnows,
     ThreadsDue, MissingIsMarked, Starting, Connected, Replacing, Doubting, Supervising

-----------------------------------------------------------------------------
(* The start of the process, and HandleThreads.                              *)
StartStep ==
  \/ \E i \in Instance : SsapCreate(i) \/ StartThreads(i)
  \/ SsapCreateFails \/ HandlerInit \/ ThreadsStarted

LEMMA StartStepKeepsIInv ==
  ASSUME IInv, StartStep
  PROVE  IInv'
<1> USE DEF IInv, GoTo, ssapVars
<1>1. ASSUME NEW i \in Instance, SsapCreate(i) PROVE IInv'
  <2>1. TypeOK'
    BY <1>1, MainStaysTyped DEF SsapCreate, MainStep, TypeOK, Mains, Places, Statuses
  <2>2. QED
    BY <1>1, <2>1 DEF SsapCreate, TypeOK, RxUsesLiveSsap, TransmittersHaveSsap,
       OnePairOfThreads, MainKnows, ThreadsDue, MissingIsMarked,
       Starting, Connected, Replacing, Doubting, Supervising
<1>2. ASSUME NEW i \in Instance, StartThreads(i) PROVE IInv'
  <2>1. TypeOK'
    <3>1. threads' \in [Instance -> Nat] /\ rx' \in [Instance -> {"off", "idle", "get", "work"}]
      BY <1>2 DEF StartThreads, TypeOK
    <3>2. TxIdle \in TxStates
      BY RecordTypes DEF TxIdle, TxStates
    <3>3. tx' \in [Instance -> TxStates]
      BY <1>2, <3>2 DEF StartThreads, TypeOK, TxStates
    <3>4. main' \in Mains
      BY <1>2, MainStaysTyped DEF MainStep
    <3>5. QED
      BY <1>2, <3>1, <3>3, <3>4 DEF StartThreads, TypeOK, Mains, Places, Statuses, TxStates
  <2>2. RxUsesLiveSsap' /\ TransmittersHaveSsap' /\ OnePairOfThreads'
    BY <1>2 DEF StartThreads, TypeOK, RxUsesLiveSsap, TransmittersHaveSsap, OnePairOfThreads,
       ThreadsDue, MissingIsMarked, Starting
  <2>3. MainKnows' /\ MissingIsMarked'
    BY <1>2, <2>1 DEF StartThreads, TypeOK, MainKnows, MissingIsMarked,
       Starting, Connected, Replacing, Doubting
  <2>4. ThreadsDue'
    BY <1>2, <2>1 DEF StartThreads, TypeOK, ThreadsDue,
       Starting, Connected, Replacing, Doubting, Supervising
  <2>5. QED
    BY <2>1, <2>2, <2>3, <2>4
<1>3. CASE SsapCreateFails
  <2>1. TypeOK'
    BY <1>3, MainStaysTyped DEF SsapCreateFails, MainStep, TypeOK, Mains, Places, Statuses
  <2>2. main' = [main EXCEPT !.at = "exited"] /\ main.at = "create"
        /\ UNCHANGED << ssapVars, status, threads, rx >>
    BY <1>3 DEF SsapCreateFails
  <2>3. main'.at = "exited"
    BY <2>2 DEF TypeOK
  <2>4. RxUsesLiveSsap' /\ TransmittersHaveSsap' /\ OnePairOfThreads'
    BY <2>2 DEF RxUsesLiveSsap, TransmittersHaveSsap, OnePairOfThreads
  <2>5. MainKnows' /\ ThreadsDue' /\ MissingIsMarked'
    BY <2>2, <2>3 DEF MainKnows, ThreadsDue, MissingIsMarked,
       Starting, Connected, Replacing, Doubting, Supervising
  <2>6. QED
    BY <2>1, <2>4, <2>5
<1>4. CASE HandlerInit
  <2>1. TypeOK'
    BY <1>4, MainStaysTyped, RecordTypes DEF HandlerInit, MainStep, TypeOK, Mains, Places, Statuses
  <2>2. QED
    BY <1>4, <2>1 DEF HandlerInit, TypeOK, RxUsesLiveSsap, TransmittersHaveSsap,
       OnePairOfThreads, MainKnows, ThreadsDue, MissingIsMarked,
       Starting, Connected, Replacing, Doubting, Supervising
<1>5. CASE ThreadsStarted
  <2>1. TypeOK'
    BY <1>5, MainStaysTyped DEF ThreadsStarted, MainStep, TypeOK, Mains, Places, Statuses
  <2>2. QED
    BY <1>5, <2>1 DEF ThreadsStarted, TypeOK, RxUsesLiveSsap, TransmittersHaveSsap,
       OnePairOfThreads, MainKnows, ThreadsDue, MissingIsMarked,
       Starting, Connected, Replacing, Doubting, Supervising
<1>6. QED
  BY <1>1, <1>2, <1>3, <1>4, <1>5 DEF StartStep

(* A look at an instance, and the two after a bad one.                       *)
LookStep ==
  \/ LookHealthy \/ LookUnhealthy \/ WaitHealthy \/ WaitUnhealthy

LEMMA LookStepKeepsIInv ==
  ASSUME IInv, LookStep
  PROVE  IInv'
<1> USE DEF IInv, GoTo, ssapVars
<1>1. CASE LookHealthy
  <2>1. TypeOK'
    BY <1>1, MainStaysTyped DEF LookHealthy, MainStep, TypeOK, Mains, Places, Statuses
  <2>2. QED
    BY <1>1, <2>1 DEF LookHealthy, TypeOK, RxUsesLiveSsap, TransmittersHaveSsap,
       OnePairOfThreads, MainKnows, ThreadsDue, MissingIsMarked,
       Starting, Connected, Replacing, Doubting, Supervising
<1>2. CASE LookUnhealthy
  <2>1. TypeOK'
    BY <1>2, MainStaysTyped DEF LookUnhealthy, MainStep, TypeOK, Mains, Places, Statuses, MarkExiting
  <2>2. QED
    BY <1>2, <2>1 DEF LookUnhealthy, TypeOK, RxUsesLiveSsap, TransmittersHaveSsap,
       OnePairOfThreads, MainKnows, ThreadsDue, MissingIsMarked,
       Starting, Connected, Replacing, Doubting, Supervising, MarkExiting
<1>3. CASE WaitHealthy
  <2>1. TypeOK'
    BY <1>3, MainStaysTyped DEF WaitHealthy, MainStep, TypeOK, Mains, Places, Statuses
  <2>2. QED
    BY <1>3, <2>1 DEF WaitHealthy, TypeOK, RxUsesLiveSsap, TransmittersHaveSsap,
       OnePairOfThreads, MainKnows, ThreadsDue, MissingIsMarked,
       Starting, Connected, Replacing, Doubting, Supervising
<1>4. CASE WaitUnhealthy
  <2>1. TypeOK'
    BY <1>4, MainStaysTyped DEF WaitUnhealthy, MainStep, TypeOK, Mains, Places, Statuses, MarkExiting
  <2>2. QED
    BY <1>4, <2>1 DEF WaitUnhealthy, TypeOK, RxUsesLiveSsap, TransmittersHaveSsap,
       OnePairOfThreads, MainKnows, ThreadsDue, MissingIsMarked,
       Starting, Connected, Replacing, Doubting, Supervising, MarkExiting, Settled
<1>5. QED
  BY <1>1, <1>2, <1>3, <1>4 DEF LookStep

(* SsapReConnect, the restoration of the transactions included.              *)
ReConnectStep ==
  \/ ReConnectDelete \/ ReConnectCreate \/ ReConnectCreateFails \/ ReConnect \/ ReConnectFails
  \/ RestoreSkip \/ RestoreRead \/ RestoreMap \/ RestoreFails \/ Resume \/ Serve

LEMMA ReConnectStepKeepsIInv ==
  ASSUME IInv, ReConnectStep
  PROVE  IInv'
<1> USE DEF IInv, GoTo, ssapVars
<1>1. CASE ReConnectDelete
  <2>1. TypeOK'
    <3>1. main.inst \in Instance
      BY DEF TypeOK
    <3>2. dlg' \in [Dlg -> Records]
      BY <1>1, <3>1, RecordTypes DEF ReConnectDelete, TypeOK
    <3>3. ASSUME NEW w \in Instance
          PROVE  [tx[w] EXCEPT !.rec = Lose(tx[w].rec, main.inst)] \in TxStates
      <4>1. tx[w] \in TxStates
        BY DEF TypeOK, TxStates
      <4>2. Lose(tx[w].rec, main.inst) \in Records
        BY <3>1, <4>1, RecordTypes DEF TxStates
      <4>3. QED
        BY <4>1, <4>2 DEF TxStates
    <3>4. tx' \in [Instance -> TxStates]
      BY <1>1, <3>3 DEF ReConnectDelete
    <3>5. QED
      BY <1>1, <3>2, <3>4, MainStaysTyped
      DEF ReConnectDelete, MainStep, TypeOK, Mains, Places, Statuses, TxStates
  <2>2. RxUsesLiveSsap' /\ TransmittersHaveSsap' /\ OnePairOfThreads'
    BY <1>1 DEF ReConnectDelete, TypeOK, RxUsesLiveSsap, TransmittersHaveSsap, OnePairOfThreads,
       ThreadsDue, MissingIsMarked, Starting, Connected, Doubting, MainKnows
  <2>3. MainKnows' /\ MissingIsMarked'
    BY <1>1, <2>1 DEF ReConnectDelete, TypeOK, MainKnows, MissingIsMarked,
       Starting, Connected, Replacing, Doubting
  <2>4. ThreadsDue'
    BY <1>1, <2>1 DEF ReConnectDelete, TypeOK, ThreadsDue,
       Starting, Connected, Replacing, Doubting, Supervising
  <2>5. QED
    BY <2>1, <2>2, <2>3, <2>4
<1>2. CASE ReConnectCreate
  <2>1. TypeOK'
    BY <1>2, MainStaysTyped DEF ReConnectCreate, MainStep, TypeOK, Mains, Places, Statuses
  <2>2. RxUsesLiveSsap' /\ TransmittersHaveSsap' /\ OnePairOfThreads'
    BY <1>2 DEF ReConnectCreate, TypeOK, RxUsesLiveSsap, TransmittersHaveSsap, OnePairOfThreads,
       ThreadsDue, MissingIsMarked, Starting
  <2>3. MainKnows' /\ MissingIsMarked'
    BY <1>2, <2>1 DEF ReConnectCreate, TypeOK, MainKnows, MissingIsMarked,
       Starting, Connected, Replacing, Doubting
  <2>4. ThreadsDue'
    BY <1>2, <2>1 DEF ReConnectCreate, TypeOK, ThreadsDue,
       Starting, Connected, Replacing, Doubting, Supervising
  <2>5. QED
    BY <2>1, <2>2, <2>3, <2>4
<1>3. CASE ReConnectCreateFails
  <2>1. TypeOK'
    BY <1>3, MainStaysTyped DEF ReConnectCreateFails, MainStep, TypeOK, Mains, Places, Statuses, GiveUp
  <2>2. QED
    BY <1>3, <2>1 DEF ReConnectCreateFails, TypeOK, RxUsesLiveSsap, TransmittersHaveSsap,
       OnePairOfThreads, MainKnows, ThreadsDue, MissingIsMarked,
       Starting, Connected, Replacing, Doubting, Supervising, GiveUp
<1>4. CASE ReConnect
  <2>1. TypeOK'
    BY <1>4, MainStaysTyped DEF ReConnect, MainStep, TypeOK, Mains, Places, Statuses
  <2>2. QED
    BY <1>4, <2>1 DEF ReConnect, TypeOK, RxUsesLiveSsap, TransmittersHaveSsap,
       OnePairOfThreads, MainKnows, ThreadsDue, MissingIsMarked,
       Starting, Connected, Replacing, Doubting, Supervising
<1>5. CASE ReConnectFails
  <2>1. TypeOK'
    BY <1>5, MainStaysTyped DEF ReConnectFails, MainStep, TypeOK, Mains, Places, Statuses, GiveUp
  <2>2. QED
    BY <1>5, <2>1 DEF ReConnectFails, TypeOK, RxUsesLiveSsap, TransmittersHaveSsap,
       OnePairOfThreads, MainKnows, ThreadsDue, MissingIsMarked,
       Starting, Connected, Replacing, Doubting, Supervising, GiveUp
<1>6. CASE RestoreSkip
  <2>1. TypeOK'
    BY <1>6, MainStaysTyped DEF RestoreSkip, MainStep, TypeOK, Mains, Places, Statuses
  <2>2. QED
    BY <1>6, <2>1 DEF RestoreSkip, TypeOK, RxUsesLiveSsap, TransmittersHaveSsap,
       OnePairOfThreads, MainKnows, ThreadsDue, MissingIsMarked,
       Starting, Connected, Replacing, Doubting, Supervising
<1>7. CASE RestoreRead
  <2>1. TypeOK'
    BY <1>7, MainStaysTyped DEF RestoreRead, MainStep, TypeOK, Mains, Places, Statuses
  <2>2. QED
    BY <1>7, <2>1 DEF RestoreRead, TypeOK, RxUsesLiveSsap, TransmittersHaveSsap,
       OnePairOfThreads, MainKnows, ThreadsDue, MissingIsMarked,
       Starting, Connected, Replacing, Doubting, Supervising
<1>8. CASE RestoreMap
  <2>1. TypeOK'
    BY <1>8, MainStaysTyped, RecordTypes DEF RestoreMap, MainStep, TypeOK, Mains, Places, Statuses
  <2>2. QED
    BY <1>8, <2>1 DEF RestoreMap, TypeOK, RxUsesLiveSsap, TransmittersHaveSsap,
       OnePairOfThreads, MainKnows, ThreadsDue, MissingIsMarked,
       Starting, Connected, Replacing, Doubting, Supervising
<1>9. CASE RestoreFails
  <2>1. TypeOK'
    BY <1>9, MainStaysTyped DEF RestoreFails, MainStep, TypeOK, Mains, Places, Statuses
  <2>2. QED
    BY <1>9, <2>1 DEF RestoreFails, TypeOK, RxUsesLiveSsap, TransmittersHaveSsap,
       OnePairOfThreads, MainKnows, ThreadsDue, MissingIsMarked,
       Starting, Connected, Replacing, Doubting, Supervising
<1>10. CASE Resume
  <2>1. TypeOK'
    BY <1>10, MainStaysTyped DEF Resume, MainStep, TypeOK, Mains, Places, Statuses
  <2>2. QED
    BY <1>10, <2>1 DEF Resume, TypeOK, RxUsesLiveSsap, TransmittersHaveSsap,
       OnePairOfThreads, MainKnows, ThreadsDue, MissingIsMarked,
       Starting, Connected, Replacing, Doubting, Supervising
<1>11. CASE Serve
  <2>1. TypeOK'
    BY <1>11, MainStaysTyped DEF Serve, MainStep, TypeOK, Mains, Places, Statuses
  <2>2. QED
    BY <1>11, <2>1 DEF Serve, TypeOK, RxUsesLiveSsap, TransmittersHaveSsap,
       OnePairOfThreads, MainKnows, ThreadsDue, MissingIsMarked,
       Starting, Connected, Replacing, Doubting, Supervising
<1>12. QED
  BY <1>1, <1>2, <1>3, <1>4, <1>5, <1>6, <1>7, <1>8, <1>9, <1>10, <1>11 DEF ReConnectStep

-----------------------------------------------------------------------------
(* The threads of an instance, and time, change little that matters here.    *)
LEMMA RxStepKeepsIInv ==
  ASSUME IInv, NEW i \in Instance, RxStep(i)
  PROVE  IInv'
<1> USE DEF IInv, ssapVars, RxGoTo
<1>1. /\ UNCHANGED << ssap, state, link, gRestoreStatus, status, threads, tx, main >>
      /\ \/ rx[i] = "idle" /\ state[i] # "EXITING" /\ rx' = [rx EXCEPT ![i] = "get"]
         \/ rx[i] \in {"get", "work"} /\ rx' = [rx EXCEPT ![i] = "work"]
         \/ rx[i] \in {"get", "work"} /\ rx' = [rx EXCEPT ![i] = "idle"]
  BY DEF RxStep, RxPoll, RxNothing, RxMessage, RxConState, RxDrop, RxWork, RxEnd
<1>2. /\ silent' = silent \/ silent' = [silent EXCEPT ![i] = FALSE]
      /\ \/ mTransmitFlag' = mTransmitFlag
         \/ /\ rx[i] = "get"
            /\ \E transmit \in BOOLEAN : mTransmitFlag' = [mTransmitFlag EXCEPT ![i] = transmit]
  BY DEF RxStep, RxPoll, RxNothing, RxMessage, RxConState, RxDrop, RxWork, RxEnd
<1>3. \/ dlg' = dlg
      \/ \E d \in Dlg : dlg' = [dlg EXCEPT ![d] = Record(i)] \/ dlg' = [dlg EXCEPT ![d] = NoRecord]
  BY DEF RxStep, RxPoll, RxNothing, RxMessage, RxConState, RxDrop, RxWork, RxEnd
<1>4. TypeOK'
  <2>1. dlg' \in [Dlg -> Records]
    <3>1. dlg \in [Dlg -> Records] /\ Record(i) \in Records /\ NoRecord \in Records
      BY RecordTypes DEF TypeOK
    <3>2. QED
      BY <1>3, <3>1
  <2>2. \E place \in {"get", "work", "idle"} : rx' = [rx EXCEPT ![i] = place]
    BY <1>1
  <2>3. rx' \in [Instance -> {"off", "idle", "get", "work"}]
    BY <2>2 DEF TypeOK
  <2>4. ASSUME NEW f \in [Instance -> BOOLEAN], NEW v \in BOOLEAN
        PROVE  [f EXCEPT ![i] = v] \in [Instance -> BOOLEAN]
    OBVIOUS
  <2>5. silent' \in [Instance -> BOOLEAN]
    BY <1>2, <2>4 DEF TypeOK
  <2>6. mTransmitFlag' \in [Instance -> BOOLEAN]
    <3>1. mTransmitFlag \in [Instance -> BOOLEAN]
      BY DEF TypeOK
    <3>2. QED
      BY <1>2, <2>4, <3>1
  <2>7. QED
    BY <1>1, <2>1, <2>3, <2>5, <2>6 DEF TypeOK
<1>5. RxUsesLiveSsap' /\ TransmittersHaveSsap' /\ OnePairOfThreads'
  BY <1>1, <1>2 DEF TypeOK, RxUsesLiveSsap, TransmittersHaveSsap, OnePairOfThreads,
     ThreadsDue, MissingIsMarked, Starting
<1>6. MainKnows' /\ ThreadsDue' /\ MissingIsMarked'
  BY <1>1 DEF TypeOK, MainKnows, ThreadsDue, MissingIsMarked,
     Starting, Connected, Replacing, Doubting, Supervising
<1>7. QED
  BY <1>4, <1>5, <1>6

LEMMA TxStepKeepsIInv ==
  ASSUME IInv, NEW w \in Instance, TxStep(w)
  PROVE  IInv'
<1> USE DEF IInv, ssapVars, TxDone
<1>1. /\ UNCHANGED << ssap, silent, link, mTransmitFlag, gRestoreStatus, status, threads, rx, main >>
      /\ state' = state \/ \E i \in Instance : state' = [state EXCEPT ![i] = "EXITING"]
  BY DEF TxStep, TxCheck, TxCreateTrans, TxUse, TxTake, TxQuery, TypeOK, Records
<1>2. tx' \in [Instance -> TxStates]
  <2>1. tx \in [Instance -> TxStates] /\ TxIdle \in TxStates
    BY RecordTypes DEF TypeOK, TxIdle, TxStates
  <2>2. CASE TxCheck(w)
    <3>1. [tx[w] EXCEPT !.at = "read"] \in TxStates
      BY <2>1 DEF TxStates
    <3>2. QED
      BY <2>1, <2>2, <3>1 DEF TxCheck
  <2>3. ASSUME NEW d \in Dlg, TxTake(w, d) \/ TxQuery(w, d) PROVE tx' \in [Instance -> TxStates]
    <3>1. /\ [at |-> "use", id |-> d, rec |-> dlg[d]] \in TxStates
          /\ \A i \in Instance : [at |-> "trans", id |-> d, rec |-> Record(i)] \in TxStates
      BY RecordTypes DEF TypeOK, TxStates
    <3>2. QED
      BY <2>1, <2>3, <3>1 DEF TxTake, TxQuery
  <2>4. CASE TxCreateTrans(w)
    <3> DEFINE made == [tx[w] EXCEPT !.at = "use", !.rec.gone = FALSE]
    <3>1. tx[w] \in TxStates /\ tx[w].rec \in Records
      BY <2>1 DEF TxStates
    <3>2. made \in TxStates
      BY <3>1, RecordTypes DEF TxStates
    <3>3. tx' = [tx EXCEPT ![w] = TxIdle] \/ tx' = [tx EXCEPT ![w] = made]
      BY <2>1, <2>4 DEF TxCreateTrans
    <3>4. QED
      BY <2>1, <3>2, <3>3
  <2>5. CASE TxUse(w)
    BY <2>1, <2>5 DEF TxUse
  <2>6. QED
    BY <2>2, <2>3, <2>4, <2>5 DEF TxStep
<1>3. dlg' \in [Dlg -> Records]
  <2>1. \/ dlg' = dlg
        \/ dlg' \in {[dlg EXCEPT ![tx[w].id] = tx[w].rec], [dlg EXCEPT ![tx[w].id] = NoRecord]}
    BY DEF TxStep, TxCheck, TxCreateTrans, TxUse, TxTake, TxQuery
  <2>2. dlg \in [Dlg -> Records] /\ tx[w].rec \in Records /\ NoRecord \in Records
    BY RecordTypes DEF TypeOK
  <2>3. QED
    BY <2>1, <2>2
<1>4. TypeOK'
  <2>1. state' \in [Instance -> {"CONNECTING", "IN_SERVICE", "EXITING"}]
    BY <1>1 DEF TypeOK
  <2>2. QED
    BY <1>1, <1>2, <1>3, <2>1 DEF TypeOK, TxStates
<1>5. RxUsesLiveSsap' /\ TransmittersHaveSsap' /\ OnePairOfThreads'
  BY <1>1 DEF RxUsesLiveSsap, TransmittersHaveSsap, OnePairOfThreads
<1>6. MainKnows' /\ ThreadsDue' /\ MissingIsMarked'
  BY <1>1 DEF TypeOK, MainKnows, ThreadsDue, MissingIsMarked
<1>7. QED
  BY <1>4, <1>5, <1>6

LEMMA StepKeepsIInv ==
  ASSUME IInv, [Next]_vars
  PROVE  IInv'
<1>1. CASE UNCHANGED vars
  BY <1>1 DEF vars, ssapVars, IInv, TypeOK, RxUsesLiveSsap, TransmittersHaveSsap,
     OnePairOfThreads, MainKnows, ThreadsDue, MissingIsMarked
<1>2. CASE MainStep
  BY <1>2, StartStepKeepsIInv, LookStepKeepsIInv, ReConnectStepKeepsIInv
  DEF MainStep, StartStep, LookStep, ReConnectStep
<1>3. ASSUME NEW i \in Instance, RxStep(i) \/ TxStep(i) PROVE IInv'
  BY <1>3, RxStepKeepsIInv, TxStepKeepsIInv
<1>4. ASSUME NEW i \in Instance, LinkChange(i) \/ Silence(i) PROVE IInv'
  <2>1. UNCHANGED << ssap, state, mTransmitFlag, gRestoreStatus, status, threads, rx, tx, dlg, main >>
    BY <1>4 DEF LinkChange, Silence
  <2>2. silent' \in [Instance -> BOOLEAN]
    BY <1>4 DEF LinkChange, Silence, IInv, TypeOK, ssapVars
  <2>3. link' \in [Instance -> {"ok", "blocked"}]
    BY <1>4 DEF LinkChange, Silence, IInv, TypeOK, ssapVars
  <2>4. QED
    BY <2>1, <2>2, <2>3 DEF IInv, TypeOK, RxUsesLiveSsap, TransmittersHaveSsap,
       OnePairOfThreads, MainKnows, ThreadsDue, MissingIsMarked
<1>5. QED
  BY <1>1, <1>2, <1>3, <1>4 DEF Next

LEMMA Invariance == SsapSpec => []IInv
<1>1. Init => IInv
  BY InitIInv
<1>2. IInv /\ [Next]_vars => IInv'
  BY StepKeepsIInv
<1>3. QED
  BY <1>1, <1>2, PTL DEF SsapSpec

-----------------------------------------------------------------------------
(* The states of the threads, records and copies are what they can be.       *)
THEOREM TypeCorrect == SsapSpec => []TypeOK
<1>1. IInv => TypeOK
  BY DEF IInv
<1>2. QED
  BY <1>1, Invariance, PTL

(* However many instances there are and whatever fails, no receive thread is *)
(* in the library with an SSAP that SsapReConnect has deleted.               *)
THEOREM ReadersHaveTheirSsap == SsapSpec => []RxUsesLiveSsap
<1>1. IInv => RxUsesLiveSsap
  BY DEF IInv
<1>2. QED
  BY <1>1, Invariance, PTL

(* An instance that queries may be given to has an SSAP, although receive    *)
(* threads set its mTransmitFlag as well as the reconnection.                *)
THEOREM QueriesHaveAnSsap == SsapSpec => []TransmittersHaveSsap
<1>1. IInv => TransmittersHaveSsap
  BY DEF IInv
<1>2. QED
  BY <1>1, Invariance, PTL

(* HandleThreads never starts a second pair of threads for an instance,      *)
(* however often it is reconnected.                                          *)
THEOREM ThreadsAreStartedOnce == SsapSpec => []OnePairOfThreads
<1>1. IInv => OnePairOfThreads
  BY DEF IInv
<1>2. QED
  BY <1>1, Invariance, PTL
=============================================================================
