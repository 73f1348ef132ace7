------------------------------ MODULE MultiComp ------------------------------
(***************************************************************************)
(* Messages of several components (TcapAculabApi.cc).  The application     *)
(* writes each component of a message into the queue as a message of its   *)
(* own, numbered by tcUserId, the last one marked.  The transmit threads   *)
(* read the queue; HandlerMultipleComponents collects the components of a  *)
(* dialogue in mDialigueComponent, under gMutexLock, and lets the one that *)
(* completes the message through.  AddAcuTcapComponet takes the collection *)
(* out of the map again, without the mutex, and builds the message.        *)
(*                                                                         *)
(* Modelled: everything between the queue and the stack of this, and no    *)
(* more; TcapHandler has the dialogues, for messages of one component.     *)
(***************************************************************************)
EXTENDS Naturals, Sequences, FiniteSets

CONSTANTS
  Dlg,            (* dialogue ids                                            *)
  Tx,             (* transmit threads                                        *)
  MaxComponents,  (* bound: components of a message                          *)
  MaxMessages,    (* bound: messages of a dialogue                           *)
  QueueBound,     (* bound: components in the queue                          *)
  Faults          (* what may go wrong on the way                            *)

ASSUME MultiCompAssumption ==
  /\ MaxComponents \in Nat \ {0} /\ MaxMessages \in Nat /\ QueueBound \in Nat
  /\ Faults \subseteq {"return", "add"}

VARIABLES
  queue,               (* the queue from the application                     *)
  mDialigueComponent,  (* the collected components of each dialogue          *)
  tx,                  (* where each transmit thread is, and with what       *)
  app,                 (* messages the application has given in full, and    *)
                       (* components of the next one                         *)
  done,                (* messages of each dialogue sent or given up         *)
  overtaken,           (* dialogues whose components were not processed one  *)
                       (* after the other, as they were given                *)
  left                 (* dialogues whose collection an early return left    *)

vars == << queue, mDialigueComponent, tx, app, done, overtaken, left >>

Index == 0 .. MaxComponents - 1

(* A component: which message of its dialogue it belongs to, tcUserId, last. *)
Component == [dlg : Dlg, msg : 1 .. MaxMessages, tcUserId : Index, last : BOOLEAN]
NoComponent == [msg |-> 0]

(* A DialogueComp, zeroed; there is none when it counts no component.        *)
NoEntry == [tcapComponent |-> [i \in Index |-> NoComponent],
            numberOfComponent |-> 0, totComponent |-> 0, lastComponentFlag |-> FALSE]

Idle == [at |-> "read", comp |-> NoComponent, built |-> << >>]

Init ==
  /\ queue = << >>
  /\ mDialigueComponent = [d \in Dlg |-> NoEntry]
  /\ tx = [t \in Tx |-> Idle]
  /\ app = [d \in Dlg |-> [given |-> 0, next |-> 0]]
  /\ done = [d \in Dlg |-> 0]
  /\ overtaken = {}
  /\ left = {}

-----------------------------------------------------------------------------
(* The application gives the next component of a dialogue's next message.    *)
Give(d, last) ==
  /\ Len(queue) < QueueBound
  /\ app[d].given < MaxMessages
  /\ last \/ app[d].next < MaxComponents - 1
  /\ queue' = Append(queue, [dlg |-> d, msg |-> app[d].given + 1,
                             tcUserId |-> app[d].next, last |-> last])
  /\ app' = [app EXCEPT ![d] = IF last THEN [given |-> @.given + 1, next |-> 0]
                               ELSE [given |-> @.given, next |-> @.next + 1]]
  /\ UNCHANGED << mDialigueComponent, tx, done, overtaken, left >>

(* RxMsgFromApplication.  Two threads with components of one dialogue may    *)
(* process them in either order.                                             *)
HeldOf(d) == {t \in Tx : tx[t].at # "read" /\ tx[t].comp.dlg = d}

Take(t) ==
  /\ tx[t].at = "read"
  /\ queue # << >>
  /\ LET comp == Head(queue) IN
       /\ tx' = [tx EXCEPT ![t] = [Idle EXCEPT !.at = "collect", !.comp = comp]]
       /\ overtaken' = IF HeldOf(comp.dlg) = {} THEN overtaken
                       ELSE overtaken \cup {comp.dlg}
  /\ queue' = Tail(queue)
  /\ UNCHANGED << mDialigueComponent, app, done, left >>

-----------------------------------------------------------------------------
(* HandlerMultipleComponents.  A collection has the component at its         *)
(* tcUserId, counts it, and takes it for the end of the message so far.      *)
WithPlace(entry, comp) ==  (* a slip: tcUserId for the number of components   *)
  [tcapComponent     |-> [entry.tcapComponent EXCEPT ![comp.tcUserId] = comp],
   numberOfComponent |-> entry.numberOfComponent + 1,
   totComponent      |-> comp.tcUserId,
   lastComponentFlag |-> entry.lastComponentFlag \/ comp.last]

With(entry, comp) ==
  [tcapComponent     |-> [entry.tcapComponent EXCEPT ![comp.tcUserId] = comp],
   numberOfComponent |-> entry.numberOfComponent + 1,
   totComponent      |-> comp.tcUserId + 1,
   lastComponentFlag |-> entry.lastComponentFlag \/ comp.last]

Present(d) == mDialigueComponent[d].numberOfComponent # 0

AllReceived(entry) ==
  entry.lastComponentFlag /\ entry.totComponent = entry.numberOfComponent

Collecting(t) == tx[t].at = "collect"

Collects(t, comp, entry) ==
  /\ mDialigueComponent' = [mDialigueComponent EXCEPT ![comp.dlg] = entry]
  /\ tx' = [tx EXCEPT ![t] = IF AllReceived(entry) THEN [@ EXCEPT !.at = "build"] ELSE Idle]
  /\ UNCHANGED << queue, app, done, overtaken, left >>

CollectUncounted(t) ==   (* a slip: a component that is there is not counted  *)
  /\ Collecting(t)
  /\ LET comp == tx[t].comp
         entry == With(mDialigueComponent[comp.dlg], comp) IN
       /\ Present(comp.dlg) \/ ~comp.last
       /\ Collects(t, comp, [entry EXCEPT !.numberOfComponent =
            IF comp.last THEN mDialigueComponent[comp.dlg].numberOfComponent ELSE @])

CollectAnyLast(t) ==     (* a slip: the last component is always let through  *)
  /\ Collecting(t)
  /\ LET comp == tx[t].comp
         entry == With(mDialigueComponent[comp.dlg], comp) IN
       /\ Present(comp.dlg) \/ ~comp.last
       /\ mDialigueComponent' = [mDialigueComponent EXCEPT ![comp.dlg] = entry]
       /\ tx' = [tx EXCEPT ![t] = [@ EXCEPT !.at = "build"]]
       /\ UNCHANGED << queue, app, done, overtaken, left >>

Collect(t) ==
  /\ Collecting(t)
  /\ LET comp == tx[t].comp IN
       /\ Present(comp.dlg) \/ ~comp.last
       /\ Collects(t, comp, With(mDialigueComponent[comp.dlg], comp))

(* The last component with nothing collected goes on alone.                  *)
GoesAlone(t) ==
  /\ Collecting(t)
  /\ tx[t].comp.last /\ ~Present(tx[t].comp.dlg)
  /\ tx' = [tx EXCEPT ![t].at = "build"]
  /\ UNCHANGED << queue, mDialigueComponent, app, done, overtaken, left >>

-----------------------------------------------------------------------------
Gone(d) == done' = [done EXCEPT ![d] = @ + 1]

(* ProcessTxMsgToStack returns before it builds the message: no record, no   *)
(* transaction, no instance to send it on.  The collection stays.            *)
ReturnsEarly(t) ==
  /\ tx[t].at = "build"
  /\ "return" \in Faults
  /\ tx' = [tx EXCEPT ![t] = Idle]
  /\ Gone(tx[t].comp.dlg)
  /\ left' = IF Present(tx[t].comp.dlg) THEN left \cup {tx[t].comp.dlg} ELSE left
  /\ UNCHANGED << queue, mDialigueComponent, app, overtaken >>

(* AddAcuTcapComponet builds the message from the collection there is by     *)
(* now, or from the one component.  A leftover collection may count more     *)
(* components than there are places.                                         *)
Collected(entry) ==
  [i \in 1 .. entry.numberOfComponent |->
     IF i - 1 \in Index THEN entry.tcapComponent[i - 1] ELSE NoComponent]

BuildAndKeep(t) ==       (* a slip: the collection is copied, not taken out   *)
  /\ tx[t].at = "build"
  /\ LET d == tx[t].comp.dlg IN
       tx' = [tx EXCEPT ![t].at = "send",
                        ![t].built = IF Present(d) THEN Collected(mDialigueComponent[d])
                                     ELSE << tx[t].comp >>]
  /\ UNCHANGED << queue, mDialigueComponent, app, done, overtaken, left >>

Build(t) ==
  /\ tx[t].at = "build"
  /\ LET d == tx[t].comp.dlg IN
       /\ mDialigueComponent' = [mDialigueComponent EXCEPT ![d] = NoEntry]
       /\ tx' = [tx EXCEPT ![t].at = "send",
                           ![t].built = IF Present(d) THEN Collected(mDialigueComponent[d])
                                        ELSE << tx[t].comp >>]
  /\ UNCHANGED << queue, app, done, overtaken, left >>

BuildFails(t) ==
  /\ tx[t].at = "build"
  /\ "add" \in Faults
  /\ mDialigueComponent' = [mDialigueComponent EXCEPT ![tx[t].comp.dlg] = NoEntry]
  /\ tx' = [tx EXCEPT ![t] = Idle]
  /\ Gone(tx[t].comp.dlg)
  /\ UNCHANGED << queue, app, overtaken, left >>

Send(t) ==
  /\ tx[t].at = "send"
  /\ tx' = [tx EXCEPT ![t] = Idle]
  /\ Gone(tx[t].comp.dlg)
  /\ UNCHANGED << queue, mDialigueComponent, app, overtaken, left >>

-----------------------------------------------------------------------------
Step(t) ==
  \/ Take(t) \/ Collect(t) \/ GoesAlone(t)
  \/ ReturnsEarly(t) \/ Build(t) \/ BuildFails(t) \/ Send(t)

Next ==
  \/ \E d \in Dlg, last \in BOOLEAN : Give(d, last)
  \/ \E t \in Tx : Step(t)

Spec == Init /\ [][Next]_vars
-----------------------------------------------------------------------------
InOrder(d) == d \notin overtaken

(* The components of a message are kept at their places, and each is counted *)
(* once, as long as those of its dialogue are processed one after the other. *)
TypeOK ==
  /\ queue \in Seq(Component) /\ Len(queue) <= QueueBound
  /\ \A d \in Dlg : LET entry == mDialigueComponent[d] IN
       /\ entry.lastComponentFlag \in BOOLEAN
       /\ \A i \in Index : entry.tcapComponent[i] \in Component \cup {NoComponent}
       /\ InOrder(d) /\ d \notin left => entry.numberOfComponent =
            Cardinality({i \in Index : entry.tcapComponent[i] # NoComponent})
  /\ \A t \in Tx : tx[t].at \in {"read", "collect", "build", "send"}
  /\ \A d \in Dlg : InOrder(d) => done[d] \in 0 .. MaxMessages
  /\ overtaken \subseteq Dlg /\ left \subseteq Dlg

(* A message is built of all the components of one message of the            *)
(* application, in their order, and of no others.                            *)
Whole(comps) ==
  /\ comps[Len(comps)].last
  /\ \A i \in 1 .. Len(comps) :
       comps[i].tcUserId = i - 1 /\ comps[i].msg = comps[1].msg

SentWhole ==
  \A t \in Tx : tx[t].at = "send" /\ InOrder(tx[t].comp.dlg) => Whole(tx[t].built)

(* What is kept for a dialogue belongs to the message the application is     *)
(* giving, or that a thread is building: a dialogue begins with nothing left *)
(* over from the last one, unless an early return left it there.             *)
NothingLeftOver ==
  \A d \in Dlg : \A i \in Index :
    LET comp == mDialigueComponent[d].tcapComponent[i] IN
      InOrder(d) /\ d \notin left /\ comp # NoComponent => comp.msg = done[d] + 1

(* No message is swallowed: when all components of a dialogue are processed, *)
(* every message the application gave in full was sent or given up.          *)
Processed(d) ==
  /\ HeldOf(d) = {}
  /\ \A i \in 1 .. Len(queue) : queue[i].dlg # d

NothingSwallowed ==
  \A d \in Dlg \ left : Processed(d) /\ InOrder(d) => done[d] = app[d].given
=============================================================================
