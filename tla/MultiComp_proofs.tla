--------------------------- MODULE MultiComp_proofs ---------------------------
(***************************************************************************)
(* Proofs about the messages of several components.  While the components  *)
(* of a dialogue are processed one after the other, they form one stream:  *)
(* what was sent or given up, what is collected, what a thread holds, what *)
(* waits in the queue, and where the application is.  A point of a         *)
(* dialogue is a place in that stream: so many messages in full, and so    *)
(* many components of the next one.                                        *)
(***************************************************************************)
EXTENDS MultiComp, FiniteSetTheorems, SequenceTheorems, TLAPS

Point == [given : 0 .. MaxMessages, next : Index]

Before(comp) == [given |-> comp.msg - 1, next |-> comp.tcUserId]
After(comp)  == IF comp.last THEN [given |-> comp.msg, next |-> 0]
                ELSE [given |-> comp.msg - 1, next |-> comp.tcUserId + 1]

(* The components of dialogue d in the queue q, from place i on, start at    *)
(* point p; when there is none, p is the point the application is at.        *)
StartsAt(q, at, d, i, p) ==
  /\ \A j \in i .. Len(q) :
       q[j].dlg = d /\ (\A k \in i .. j - 1 : q[k].dlg # d) => Before(q[j]) = p
  /\ (\A j \in i .. Len(q) : q[j].dlg # d) => at = p

(* Each component in the queue is followed by the next of its dialogue.      *)
InSequence(q, at, d) ==
  \A i \in 1 .. Len(q) : q[i].dlg = d => StartsAt(q, at, d, i + 1, After(q[i]))

-----------------------------------------------------------------------------
(* What the application gives: only the last component fills the last place. *)
Given == {comp \in Component : comp.last \/ comp.tcUserId + 1 \in Index}

Entry == [tcapComponent : [Index -> Component \cup {NoComponent}],
          numberOfComponent : Nat, totComponent : Nat, lastComponentFlag : BOOLEAN]

Thread == [at : {"read", "collect", "build", "send"},
           comp : Component \cup {NoComponent},
           built : Seq(Component \cup {NoComponent})]

TypesInv ==
  /\ queue \in Seq(Given) /\ Len(queue) <= QueueBound
  /\ mDialigueComponent \in [Dlg -> Entry]
  /\ tx \in [Tx -> Thread]
  /\ \A t \in Tx : tx[t].at # "read" => tx[t].comp \in Given
  /\ app \in [Dlg -> Point]
  /\ done \in [Dlg -> Nat]
  /\ overtaken \subseteq Dlg /\ left \subseteq Dlg

(* What is collected for a dialogue is the beginning of one message.         *)
Count(d) == mDialigueComponent[d].numberOfComponent
Place(d, i) == mDialigueComponent[d].tcapComponent[i]

Collection(d) ==
  /\ Count(d) \in 0 .. MaxComponents
  /\ mDialigueComponent[d].totComponent = Count(d)
  /\ \A i \in Index :
       IF i < Count(d)
       THEN /\ Place(d, i) \in Component
            /\ Place(d, i).msg = done[d] + 1
            /\ Place(d, i).tcUserId = i
            /\ Place(d, i).last <=> mDialigueComponent[d].lastComponentFlag /\ i = Count(d) - 1
       ELSE Place(d, i) = NoComponent

(* Where the processing of a dialogue has come to.  A collection that an     *)
(* early return left counts more components than the point has, for ever.    *)
Reached(d, p) ==
  IF d \in left
  THEN Count(d) > p.next /\ done[d] <= p.given
  ELSE /\ p = [given |-> done[d], next |-> Count(d)]
       /\ ~mDialigueComponent[d].lastComponentFlag

(* A thread past the collecting has the last component of its message, which *)
(* is collected in full; or it came alone.                                   *)
Finishing(t, d) ==
  /\ d \notin left
  /\ tx[t].comp.last
  /\ tx[t].comp.msg = done[d] + 1
  /\ Present(d) <=> mDialigueComponent[d].lastComponentFlag
  /\ tx[t].at = "build" => Present(d) \/ tx[t].comp.tcUserId = 0
  /\ tx[t].at = "send" => ~Present(d) /\ tx[t].built # << >> /\ Whole(tx[t].built)

Stream(d) ==
  /\ \A t, u \in HeldOf(d) : t = u
  /\ InSequence(queue, app[d], d)
  /\ HeldOf(d) = {} =>
       \E p \in Point : StartsAt(queue, app[d], d, 1, p) /\ Reached(d, p)
  /\ \A t \in HeldOf(d) :
       /\ StartsAt(queue, app[d], d, 1, After(tx[t].comp))
       /\ IF tx[t].at = "collect" THEN Reached(d, Before(tx[t].comp))
                                  ELSE Finishing(t, d)
  /\ d \notin left => Collection(d)

IInv == TypesInv /\ \A d \in Dlg : InOrder(d) => Stream(d)

-----------------------------------------------------------------------------
(* The queue: components that are in sequence stay so when the next one is   *)
(* appended, and when the first one is taken.                                *)
LEMMA AppendElements ==
  ASSUME NEW q \in Seq(Given), NEW c \in Given
  PROVE  /\ Append(q, c) \in Seq(Given)
         /\ Len(q) \in Nat
         /\ Len(Append(q, c)) = Len(q) + 1
         /\ \A j \in 1 .. Len(q) : Append(q, c)[j] = q[j]
         /\ Append(q, c)[Len(q) + 1] = c
BY AppendProperties, LenProperties

LEMMA AppendStartsAt ==
  ASSUME NEW q \in Seq(Given), NEW c \in Given, NEW d, NEW at, NEW p,
         NEW i \in 1 .. Len(q) + 1,
         StartsAt(q, at, d, i, p), c.dlg = d => Before(c) = at
  PROVE  StartsAt(Append(q, c), IF c.dlg = d THEN After(c) ELSE at, d, i, p)
<1> DEFINE r == Append(q, c)
           after == IF c.dlg = d THEN After(c) ELSE at
<1>0. /\ Len(q) \in Nat /\ Len(r) = Len(q) + 1
      /\ \A j \in 1 .. Len(q) : r[j] = q[j]
      /\ r[Len(q) + 1] = c
  BY AppendElements
<1> HIDE DEF r, after
<1>1. ASSUME NEW j \in i .. Len(r), r[j].dlg = d, \A k \in i .. j - 1 : r[k].dlg # d
      PROVE  Before(r[j]) = p
  <2>1. \A k \in i .. j - 1 : q[k].dlg # d
    BY <1>0, <1>1
  <2>2. CASE j \in 1 .. Len(q)
    BY <1>0, <1>1, <2>1, <2>2 DEF StartsAt
  <2>3. CASE j = Len(q) + 1
    BY <1>0, <1>1, <2>1, <2>3 DEF StartsAt
  <2>4. QED
    BY <1>0, <1>1, <2>2, <2>3
<1>2. ASSUME \A j \in i .. Len(r) : r[j].dlg # d
      PROVE  after = p
  <2>1. c.dlg # d /\ \A j \in i .. Len(q) : q[j].dlg # d
    BY <1>0, <1>2
  <2>2. QED
    BY <2>1 DEF StartsAt, after
<1>3. StartsAt(r, after, d, i, p)
  BY <1>1, <1>2 DEF StartsAt
<1>4. QED
  BY <1>3 DEF r, after

LEMMA AppendInSequence ==
  ASSUME NEW q \in Seq(Given), NEW c \in Given, NEW d, NEW at,
         InSequence(q, at, d), c.dlg = d => Before(c) = at
  PROVE  InSequence(Append(q, c), IF c.dlg = d THEN After(c) ELSE at, d)
<1> DEFINE r == Append(q, c)
           after == IF c.dlg = d THEN After(c) ELSE at
<1>0. /\ Len(q) \in Nat /\ Len(r) = Len(q) + 1
      /\ \A j \in 1 .. Len(q) : r[j] = q[j]
      /\ r[Len(q) + 1] = c
  BY AppendElements
<1> SUFFICES ASSUME NEW i \in 1 .. Len(r), r[i].dlg = d
             PROVE  StartsAt(r, after, d, i + 1, After(r[i]))
    BY DEF InSequence
<1>1. CASE i \in 1 .. Len(q)
  <2>1. StartsAt(q, at, d, i + 1, After(q[i])) /\ i + 1 \in 1 .. Len(q) + 1
    BY <1>0, <1>1 DEF InSequence
  <2>2. StartsAt(r, after, d, i + 1, After(q[i]))
    BY <2>1, AppendStartsAt
  <2>3. QED
    BY <1>0, <1>1, <2>2
<1>2. CASE i = Len(q) + 1
  <2>1. r[i] = c /\ after = After(c)
    BY <1>0, <1>2
  <2>2. i + 1 .. Len(r) = {}
    BY <1>0, <1>2
  <2> HIDE DEF r, after
  <2>3. QED
    BY <2>1, <2>2 DEF StartsAt
<1>3. QED
  BY <1>0, <1>1, <1>2

LEMMA TailElements ==
  ASSUME NEW q \in Seq(Given), q # << >>
  PROVE  /\ Head(q) = q[1] /\ q[1] \in Given
         /\ Tail(q) \in Seq(Given)
         /\ Len(q) \in Nat \ {0}
         /\ Len(Tail(q)) = Len(q) - 1
         /\ \A j \in 1 .. Len(Tail(q)) : Tail(q)[j] = q[j + 1]
BY HeadTailProperties, EmptySeq, LenProperties, ElementOfSeq

LEMMA TailStartsAt ==
  ASSUME NEW q \in Seq(Given), q # << >>, NEW d, NEW at, NEW p,
         NEW i \in 1 .. Len(q), StartsAt(q, at, d, i + 1, p)
  PROVE  StartsAt(Tail(q), at, d, i, p)
<1> DEFINE r == Tail(q)
<1>0. /\ Len(q) \in Nat \ {0} /\ Len(r) = Len(q) - 1
      /\ \A j \in 1 .. Len(r) : r[j] = q[j + 1]
  BY TailElements
<1> HIDE DEF r
<1>1. ASSUME NEW j \in i .. Len(r), r[j].dlg = d, \A k \in i .. j - 1 : r[k].dlg # d
      PROVE  Before(r[j]) = p
  <2>1. ASSUME NEW k \in i + 1 .. j PROVE q[k].dlg # d
    <3>1. k - 1 \in i .. j - 1 /\ k - 1 \in 1 .. Len(r) /\ (k - 1) + 1 = k
      BY <1>0, <1>1
    <3>2. QED
      BY <1>0, <1>1, <3>1
  <2>2. j + 1 \in i + 1 .. Len(q) /\ (j + 1) - 1 = j /\ r[j] = q[j + 1]
    BY <1>0, <1>1
  <2>3. QED
    BY <1>1, <2>1, <2>2 DEF StartsAt
<1>2. ASSUME \A j \in i .. Len(r) : r[j].dlg # d
      PROVE  at = p
  <2>1. ASSUME NEW k \in i + 1 .. Len(q) PROVE q[k].dlg # d
    <3>1. k - 1 \in i .. Len(r) /\ k - 1 \in 1 .. Len(r) /\ (k - 1) + 1 = k
      BY <1>0
    <3>2. QED
      BY <1>0, <1>2, <3>1
  <2>2. QED
    BY <2>1 DEF StartsAt
<1>3. QED
  BY <1>1, <1>2 DEF StartsAt, r

LEMMA TailInSequence ==
  ASSUME NEW q \in Seq(Given), q # << >>, NEW d, NEW at, InSequence(q, at, d)
  PROVE  InSequence(Tail(q), at, d)
<1> SUFFICES ASSUME NEW i \in 1 .. Len(Tail(q)), Tail(q)[i].dlg = d
             PROVE  StartsAt(Tail(q), at, d, i + 1, After(Tail(q)[i]))
    BY DEF InSequence
<1>1. Tail(q)[i] = q[i + 1] /\ i + 1 \in 1 .. Len(q)
  BY TailElements
<1>2. StartsAt(q, at, d, (i + 1) + 1, After(q[i + 1]))
  BY <1>1 DEF InSequence
<1>3. QED
  BY <1>1, <1>2, TailStartsAt

LEMMA HeadStartsAt ==
  ASSUME NEW q \in Seq(Given), q # << >>, NEW d, NEW at, NEW p,
         StartsAt(q, at, d, 1, p)
  PROVE  IF Head(q).dlg = d THEN Before(Head(q)) = p
         ELSE StartsAt(Tail(q), at, d, 1, p)
<1>0. Head(q) = q[1] /\ Len(q) \in Nat \ {0}
  BY TailElements
<1>1. CASE Head(q).dlg = d
  <2>1. 1 \in 1 .. Len(q) /\ 1 .. 1 - 1 = {}
    BY <1>0
  <2>2. QED
    BY <1>0, <1>1, <2>1 DEF StartsAt
<1>2. CASE Head(q).dlg # d
  <2>1. StartsAt(q, at, d, 1 + 1, p)
    <3>1. ASSUME NEW j \in 1 + 1 .. Len(q), q[j].dlg = d,
                 \A k \in 1 + 1 .. j - 1 : q[k].dlg # d
          PROVE  Before(q[j]) = p
      <4>1. \A k \in 1 .. j - 1 : q[k].dlg # d
        BY <1>0, <1>2, <3>1
      <4>2. QED
        BY <1>0, <3>1, <4>1 DEF StartsAt
    <3>2. ASSUME \A j \in 1 + 1 .. Len(q) : q[j].dlg # d PROVE at = p
      <4>1. \A j \in 1 .. Len(q) : q[j].dlg # d
        BY <1>0, <1>2, <3>2
      <4>2. QED
        BY <4>1 DEF StartsAt
    <3>3. QED
      BY <3>1, <3>2 DEF StartsAt
  <2>2. QED
    BY <1>0, <1>2, <2>1, TailStartsAt
<1>3. QED
  BY <1>1, <1>2

-----------------------------------------------------------------------------
(* Types.                                                                    *)
LEMMA NoEntryTyped == NoEntry \in Entry
BY DEF NoEntry, Entry

LEMMA IdleTyped ==
  Idle \in Thread /\ Idle.at = "read"
<1>1. << >> \in Seq(Component \cup {NoComponent})
  BY EmptySeq
<1>2. QED
  BY <1>1 DEF Idle, Thread

LEMMA WithTyped ==
  ASSUME NEW entry \in Entry, NEW comp \in Given
  PROVE  /\ With(entry, comp) \in Entry
         /\ With(entry, comp).numberOfComponent = entry.numberOfComponent + 1
         /\ With(entry, comp).totComponent = comp.tcUserId + 1
         /\ With(entry, comp).lastComponentFlag = (entry.lastComponentFlag \/ comp.last)
         /\ \A i \in Index : With(entry, comp).tcapComponent[i] =
              IF i = comp.tcUserId THEN comp ELSE entry.tcapComponent[i]
<1> DEFINE places == [entry.tcapComponent EXCEPT ![comp.tcUserId] = comp]
<1>1. comp \in Component /\ comp.tcUserId \in Index /\ comp.tcUserId \in Nat /\ comp.last \in BOOLEAN
  BY DEF Given, Component, Index
<1>2. entry.tcapComponent \in [Index -> Component \cup {NoComponent}]
  BY DEF Entry
<1>3. places \in [Index -> Component \cup {NoComponent}]
  BY <1>1, <1>2
<1>4. \A i \in Index : places[i] = IF i = comp.tcUserId THEN comp ELSE entry.tcapComponent[i]
  BY <1>1, <1>2
<1>5. With(entry, comp) =
        [tcapComponent |-> places, numberOfComponent |-> entry.numberOfComponent + 1,
         totComponent |-> comp.tcUserId + 1,
         lastComponentFlag |-> entry.lastComponentFlag \/ comp.last]
  BY DEF With
<1> HIDE DEF places
<1>6. QED
  BY <1>1, <1>3, <1>4, <1>5 DEF Entry

LEMMA CollectedTyped ==
  ASSUME NEW entry \in Entry
  PROVE  /\ Collected(entry) \in Seq(Component \cup {NoComponent})
         /\ Len(Collected(entry)) = entry.numberOfComponent
         /\ \A i \in 1 .. entry.numberOfComponent :
              i - 1 \in Index => Collected(entry)[i] = entry.tcapComponent[i - 1]
<1> DEFINE n == entry.numberOfComponent
           S == Component \cup {NoComponent}
           f == [i \in 1 .. n |->
                   IF i - 1 \in Index THEN entry.tcapComponent[i - 1] ELSE NoComponent]
<1>1. n \in Nat /\ entry.tcapComponent \in [Index -> S]
  BY DEF Entry
<1>2. f = Collected(entry)
  BY DEF Collected
<1>3. f \in [1 .. n -> S]
  BY <1>1
<1> HIDE DEF n, S
<1>4. f \in Seq(S)
  BY <1>1, <1>3, SeqDef
<1>5. DOMAIN f = 1 .. n
  OBVIOUS
<1> HIDE DEF f
<1>6. Len(f) = n
  <2>1. Len(f) \in Nat /\ DOMAIN f = 1 .. Len(f)
    BY <1>4, LenProperties
  <2>2. QED
    BY <1>1, <1>5, <2>1
<1>7. \A i \in 1 .. n : i - 1 \in Index => f[i] = entry.tcapComponent[i - 1]
  BY DEF f
<1>8. QED
  BY <1>2, <1>4, <1>6, <1>7 DEF n, S

LEMMA AloneTyped ==
  ASSUME NEW comp \in Given
  PROVE  /\ << comp >> \in Seq(Component \cup {NoComponent})
         /\ Len(<< comp >>) = 1 /\ << comp >>[1] = comp
BY DEF Given

LEMMA TypesInit == Init => TypesInv
<1> SUFFICES ASSUME Init PROVE TypesInv
    OBVIOUS
<1>1. queue \in Seq(Given) /\ Len(queue) <= QueueBound
  BY EmptySeq, MultiCompAssumption DEF Init
<1>2. [given |-> 0, next |-> 0] \in Point
  BY MultiCompAssumption DEF Point, Index
<1>3. QED
  BY <1>1, <1>2, NoEntryTyped, IdleTyped DEF Init, TypesInv

LEMMA ThreadAt ==
  ASSUME NEW t \in Tx, TypesInv, tx[t].at # "read"
  PROVE  /\ tx[t] \in Thread
         /\ tx[t].comp \in Given /\ tx[t].comp.dlg \in Dlg
         /\ mDialigueComponent[tx[t].comp.dlg] \in Entry
         /\ [tx[t] EXCEPT !.at = "build"] \in Thread
<1>1. tx[t] \in Thread /\ tx[t].comp \in Given
  BY DEF TypesInv
<1>2. tx[t].comp.dlg \in Dlg
  BY <1>1 DEF Given, Component
<1>3. mDialigueComponent[tx[t].comp.dlg] \in Entry
  BY <1>2 DEF TypesInv
<1>4. [tx[t] EXCEPT !.at = "build"] \in Thread
  BY <1>1 DEF Thread
<1>5. QED
  BY <1>1, <1>2, <1>3, <1>4

LEMMA NextIsGiven ==
  ASSUME NEW d \in Dlg, NEW last \in BOOLEAN, NEW at \in Point,
         at.given < MaxMessages, last \/ at.next < MaxComponents - 1
  PROVE  [dlg |-> d, msg |-> at.given + 1, tcUserId |-> at.next, last |-> last] \in Given
<1>1. at.given \in 0 .. MaxMessages /\ at.next \in Index
  BY DEF Point
<1>2. at.given + 1 \in 1 .. MaxMessages
  BY <1>1, MultiCompAssumption
<1>3. last \/ at.next + 1 \in Index
  BY <1>1, MultiCompAssumption DEF Index
<1>4. QED
  BY <1>1, <1>2, <1>3 DEF Given, Component

LEMMA TypesKept == TypesInv /\ [Next]_vars => TypesInv'
<1> SUFFICES ASSUME TypesInv, [Next]_vars PROVE TypesInv'
    OBVIOUS
<1> USE DEF TypesInv
<1>1. ASSUME NEW d \in Dlg, NEW last \in BOOLEAN, Give(d, last) PROVE TypesInv'
  <2> DEFINE c == [dlg |-> d, msg |-> app[d].given + 1,
                   tcUserId |-> app[d].next, last |-> last]
  <2>1. app[d] \in Point
    OBVIOUS
  <2>2. c \in Given
    BY <1>1, <2>1, NextIsGiven DEF Give
  <2>3. queue' = Append(queue, c)
    BY <1>1 DEF Give
  <2> HIDE DEF c
  <2>4. queue' \in Seq(Given) /\ Len(queue') <= QueueBound
    BY <1>1, <2>2, <2>3, AppendElements, MultiCompAssumption DEF Give
  <2> DEFINE next == IF last THEN [given |-> app[d].given + 1, next |-> 0]
                     ELSE [given |-> app[d].given, next |-> app[d].next + 1]
  <2>5. next \in Point
    <3>1. CASE last
      BY <1>1, <2>1, <3>1, MultiCompAssumption DEF Give, Point, Index
    <3>2. CASE ~last
      <4>1. app[d].next + 1 \in Index
        BY <1>1, <2>1, <3>2, MultiCompAssumption DEF Give, Point, Index
      <4>2. QED
        BY <2>1, <3>2, <4>1 DEF Point
    <3>3. QED
      BY <3>1, <3>2
  <2>6. app' = [app EXCEPT ![d] = next]
    BY <1>1 DEF Give
  <2> HIDE DEF next
  <2>7. QED
    BY <1>1, <2>4, <2>5, <2>6 DEF Give
<1>2. ASSUME NEW t \in Tx, Take(t) PROVE TypesInv'
  <2>1. /\ Head(queue) \in Given /\ Tail(queue) \in Seq(Given)
        /\ Len(Tail(queue)) <= QueueBound
    BY <1>2, TailElements, MultiCompAssumption DEF Take
  <2> DEFINE r == [Idle EXCEPT !.at = "collect", !.comp = Head(queue)]
  <2>2. r \in Thread /\ r.comp = Head(queue) /\ r.at = "collect"
    BY <2>1, IdleTyped DEF Thread, Given, Idle
  <2>3. tx' = [tx EXCEPT ![t] = r]
    BY <1>2 DEF Take
  <2> HIDE DEF r
  <2>4. /\ tx' \in [Tx -> Thread]
        /\ \A u \in Tx : tx'[u].at # "read" => tx'[u].comp \in Given
    BY <2>1, <2>2, <2>3
  <2>5. overtaken' \subseteq Dlg
    BY <1>2, <2>1 DEF Take, Given, Component
  <2>6. QED
    BY <1>2, <2>1, <2>4, <2>5 DEF Take
<1>3. ASSUME NEW t \in Tx, Collect(t) PROVE TypesInv'
  <2>1. tx[t].at # "read"
    BY <1>3 DEF Collect, Collecting
  <2>2. With(mDialigueComponent[tx[t].comp.dlg], tx[t].comp) \in Entry
    BY <2>1, ThreadAt, WithTyped
  <2>3. tx'[t] = Idle \/ tx'[t] = [tx[t] EXCEPT !.at = "build"]
    BY <1>3 DEF Collect, Collects
  <2>4. tx'[t] \in Thread /\ (tx'[t].at # "read" => tx'[t].comp \in Given)
    BY <2>1, <2>3, ThreadAt, IdleTyped DEF Thread
  <2>5. tx' = [tx EXCEPT ![t] = tx'[t]]
    BY <1>3 DEF Collect, Collects
  <2>6. QED
    BY <1>3, <2>2, <2>4, <2>5 DEF Collect, Collects
<1>4. ASSUME NEW t \in Tx, GoesAlone(t) PROVE TypesInv'
  <2>1. tx[t].at # "read" /\ tx' = [tx EXCEPT ![t] = [tx[t] EXCEPT !.at = "build"]]
    BY <1>4 DEF GoesAlone, Collecting
  <2> DEFINE r == [tx[t] EXCEPT !.at = "build"]
  <2>2. r \in Thread /\ r.comp = tx[t].comp /\ tx[t].comp \in Given
    BY <2>1, ThreadAt DEF Thread
  <2> HIDE DEF r
  <2>3. tx' = [tx EXCEPT ![t] = r]
    BY <2>1 DEF r
  <2>4. tx' \in [Tx -> Thread] /\ \A u \in Tx : tx'[u].at # "read" => tx'[u].comp \in Given
    BY <2>2, <2>3
  <2>5. QED
    BY <1>4, <2>4 DEF GoesAlone
<1>5. ASSUME NEW t \in Tx, ReturnsEarly(t) \/ BuildFails(t) \/ Send(t) PROVE TypesInv'
  <2>1. tx[t].at # "read"
    BY <1>5 DEF ReturnsEarly, BuildFails, Send
  <2>2. tx' = [tx EXCEPT ![t] = Idle]
    BY <1>5 DEF ReturnsEarly, BuildFails, Send
  <2>3. tx' \in [Tx -> Thread] /\ \A u \in Tx : tx'[u].at # "read" => tx'[u].comp \in Given
    BY <2>2, IdleTyped
  <2>a. tx[t].comp.dlg \in Dlg /\ done' = [done EXCEPT ![tx[t].comp.dlg] = @ + 1]
    BY <1>5, <2>1, ThreadAt DEF ReturnsEarly, BuildFails, Send, Gone
  <2>b. left' = left \/ left' = left \cup {tx[t].comp.dlg}
    BY <1>5 DEF ReturnsEarly, BuildFails, Send
  <2>4. done' \in [Dlg -> Nat] /\ left' \subseteq Dlg
    BY <2>a, <2>b
  <2>5. mDialigueComponent' \in [Dlg -> Entry]
    BY <1>5, NoEntryTyped DEF ReturnsEarly, BuildFails, Send
  <2>6. QED
    BY <1>5, <2>3, <2>4, <2>5 DEF ReturnsEarly, BuildFails, Send
<1>6. ASSUME NEW t \in Tx, Build(t) PROVE TypesInv'
  <2> DEFINE d == tx[t].comp.dlg
             comps == IF Present(d) THEN Collected(mDialigueComponent[d]) ELSE << tx[t].comp >>
             r == [tx[t] EXCEPT !.at = "send", !.built = comps]
  <2>1. tx[t].at # "read"
    BY <1>6 DEF Build
  <2>2. comps \in Seq(Component \cup {NoComponent})
    BY <2>1, ThreadAt, CollectedTyped, AloneTyped
  <2>3. tx' = [tx EXCEPT ![t] = r]
    BY <1>6 DEF Build
  <2> HIDE DEF comps
  <2>4. r \in Thread /\ r.comp = tx[t].comp
    BY <2>1, <2>2, ThreadAt DEF Thread
  <2> HIDE DEF r
  <2>5. tx' \in [Tx -> Thread] /\ \A u \in Tx : tx'[u].at # "read" => tx'[u].comp \in Given
    BY <2>1, <2>3, <2>4, ThreadAt
  <2>6. mDialigueComponent' \in [Dlg -> Entry]
    BY <1>6, NoEntryTyped DEF Build
  <2>7. QED
    BY <1>6, <2>5, <2>6 DEF Build
<1>7. CASE UNCHANGED vars
  BY <1>7 DEF vars
<1>8. QED
  BY <1>1, <1>2, <1>3, <1>4, <1>5, <1>6, <1>7 DEF Next, Step

-----------------------------------------------------------------------------
(* A step of a thread that has a component disturbs no other dialogue.       *)
LEMMA OtherDialogue ==
  ASSUME TypesInv, NEW t \in Tx, tx[t].at # "read",
         UNCHANGED << queue, app >>,
         tx' = [tx EXCEPT ![t] = tx'[t]],
         tx'[t].at = "read" \/ tx'[t].comp = tx[t].comp,
         NEW d \in Dlg, d # tx[t].comp.dlg,
         mDialigueComponent'[d] = mDialigueComponent[d],
         done'[d] = done[d], d \in left' <=> d \in left,
         Stream(d)
  PROVE  Stream(d)'
<1>1. HeldOf(d)' = HeldOf(d) /\ \A u \in HeldOf(d) : u \in Tx /\ tx'[u] = tx[u]
  BY DEF HeldOf, TypesInv
<1>2. Count(d)' = Count(d) /\ (Present(d)' <=> Present(d))
  BY DEF Count, Present
<1>3. ASSUME NEW p, Reached(d, p) PROVE Reached(d, p)'
  BY <1>2, <1>3 DEF Reached
<1>4. ASSUME NEW u \in HeldOf(d), Finishing(u, d) PROVE Finishing(u, d)'
  BY <1>1, <1>2, <1>4 DEF Finishing
<1>5. Collection(d) => Collection(d)'
  BY <1>2 DEF Collection, Place
<1>6. InSequence(queue, app[d], d)'
  BY DEF Stream
<1>7. HeldOf(d)' = {} =>
        \E p \in Point : StartsAt(queue, app[d], d, 1, p)' /\ Reached(d, p)'
  BY <1>1, <1>3 DEF Stream
<1>8. ASSUME NEW u \in HeldOf(d)'
      PROVE  /\ StartsAt(queue', app'[d], d, 1, After(tx'[u].comp))
             /\ IF tx'[u].at = "collect" THEN Reached(d, Before(tx[u].comp))'
                                         ELSE Finishing(u, d)'
  <2>1. u \in HeldOf(d) /\ tx'[u] = tx[u]
    BY <1>1, <1>8
  <2>2. StartsAt(queue', app'[d], d, 1, After(tx'[u].comp))
    BY <2>1 DEF Stream
  <2>3. CASE tx[u].at = "collect"
    <3>1. Reached(d, Before(tx[u].comp))
      BY <2>1, <2>3 DEF Stream
    <3>2. Reached(d, Before(tx[u].comp))'
      BY <1>2, <2>1, <3>1 DEF Reached
    <3>3. QED
      BY <2>1, <2>2, <2>3, <3>2
  <2>4. CASE tx[u].at # "collect"
    BY <1>4, <2>1, <2>2, <2>4 DEF Stream
  <2>5. QED
    BY <2>3, <2>4
<1>9. QED
  BY <1>1, <1>5, <1>6, <1>7, <1>8 DEF Stream

(* A thread that goes on with the only component of its dialogue.            *)
LEMMA OwnDialogue ==
  ASSUME TypesInv, NEW t \in Tx, tx[t].at # "read",
         UNCHANGED << queue, app >>,
         tx' = [tx EXCEPT ![t] = tx'[t]],
         NEW c \in Given, c = tx[t].comp,
         NEW d \in Dlg, d = c.dlg, Stream(d),
         \/ tx'[t].at = "read" /\ Reached(d, After(c))'
         \/ tx'[t].at \in {"build", "send"} /\ tx'[t].comp = c /\ Finishing(t, d)',
         d \notin left' => Collection(d)'
  PROVE  Stream(d)'
<1>1. HeldOf(d) = {t}
  BY DEF Stream, HeldOf
<1>2. StartsAt(queue', app'[d], d, 1, After(c))
  BY <1>1 DEF Stream
<1>3. InSequence(queue, app[d], d)'
  BY DEF Stream
<1>4. HeldOf(d)' = IF tx'[t].at = "read" THEN {} ELSE {t}
  <2>1. ASSUME NEW u \in Tx, u # t PROVE u \notin HeldOf(d)'
    BY <1>1, <2>1 DEF HeldOf, TypesInv
  <2>2. t \in HeldOf(d)' <=> tx'[t].at # "read"
    BY DEF HeldOf
  <2>3. HeldOf(d)' \subseteq Tx
    BY DEF HeldOf
  <2>4. QED
    BY <2>1, <2>2, <2>3
<1>5. CASE tx'[t].at = "read"
  <2>1. After(c) \in Point
    BY MultiCompAssumption DEF After, Given, Component, Point, Index
  <2>2. \E p \in Point : StartsAt(queue, app[d], d, 1, p)' /\ Reached(d, p)'
    BY <1>2, <1>5, <2>1
  <2>3. QED
    BY <1>3, <1>4, <1>5, <2>2 DEF Stream
<1>6. CASE tx'[t].at # "read"
  BY <1>2, <1>3, <1>4, <1>6 DEF Stream
<1>7. QED
  BY <1>5, <1>6

-----------------------------------------------------------------------------
(* Each step keeps the stream of each dialogue that is in order.             *)
LEMMA StreamInit == Init => \A d \in Dlg : Stream(d)
<1> SUFFICES ASSUME Init, NEW d \in Dlg PROVE Stream(d)
    OBVIOUS
<1>1. HeldOf(d) = {}
  BY DEF Init, HeldOf, Idle
<1>2. Len(queue) = 0
  BY EmptySeq DEF Init
<1>3. InSequence(queue, app[d], d)
  BY <1>2 DEF InSequence
<1>4. app[d] \in Point /\ app[d] = [given |-> 0, next |-> 0]
  BY MultiCompAssumption DEF Init, Point, Index
<1>5. StartsAt(queue, app[d], d, 1, app[d])
  BY <1>2 DEF StartsAt
<1>6. Reached(d, app[d])
  BY <1>4 DEF Init, Reached, Count, NoEntry
<1>7. Collection(d)
  BY MultiCompAssumption DEF Init, Collection, Count, Place, NoEntry, Index
<1>8. QED
  BY <1>1, <1>3, <1>4, <1>5, <1>6, <1>7 DEF Stream

LEMMA GiveKeepsStream ==
  ASSUME TypesInv, NEW g \in Dlg, NEW last \in BOOLEAN, Give(g, last),
         NEW d \in Dlg, Stream(d)
  PROVE  Stream(d)'
<1> DEFINE c == [dlg |-> g, msg |-> app[g].given + 1,
                 tcUserId |-> app[g].next, last |-> last]
<1>1. app[g] \in Point /\ app[d] \in Point
  BY DEF TypesInv
<1>2. c \in Given
  BY <1>1, NextIsGiven DEF Give
<1>3. queue' = Append(queue, c) /\ queue \in Seq(Given)
  BY DEF Give, TypesInv
<1>4. c.dlg = d => Before(c) = app[d]
  BY <1>1 DEF Before, Point, Index
<1>5. app'[d] = IF c.dlg = d THEN After(c) ELSE app[d]
  <2>1. CASE g = d /\ last
    BY <1>1, <2>1 DEF Give, TypesInv, After
  <2>2. CASE g = d /\ ~last
    BY <1>1, <2>2 DEF Give, TypesInv, After, Point, Index
  <2>3. CASE g # d
    BY <2>3 DEF Give, TypesInv
  <2>4. QED
    BY <2>1, <2>2, <2>3
<1>6. /\ HeldOf(d)' = HeldOf(d)
      /\ UNCHANGED << mDialigueComponent, tx, done, left >>
  BY DEF Give, HeldOf
<1> HIDE DEF c
<1>7. InSequence(queue, app[d], d)'
  BY <1>2, <1>3, <1>4, <1>5, AppendInSequence DEF Stream
<1>8. ASSUME NEW p, StartsAt(queue, app[d], d, 1, p)
      PROVE  StartsAt(queue', app'[d], d, 1, p)
  <2>1. 1 \in 1 .. Len(queue) + 1
    BY <1>3, LenProperties
  <2>2. QED
    BY <1>2, <1>3, <1>4, <1>5, <1>8, <2>1, AppendStartsAt
<1>9. \A p : Reached(d, p)' <=> Reached(d, p)
  BY <1>6 DEF Reached, Count
<1>10. \A t \in Tx : Finishing(t, d)' <=> Finishing(t, d)
  BY <1>6 DEF Finishing, Present
<1>11. Collection(d)' <=> Collection(d)
  BY <1>6 DEF Collection, Count, Place
<1>12. HeldOf(d)' = {} =>
         \E p \in Point : StartsAt(queue, app[d], d, 1, p)' /\ Reached(d, p)'
  BY <1>6, <1>8, <1>9 DEF Stream
<1>13. ASSUME NEW t \in HeldOf(d)
       PROVE  /\ StartsAt(queue', app'[d], d, 1, After(tx[t].comp))
              /\ IF tx[t].at = "collect" THEN Reached(d, Before(tx[t].comp))'
                                         ELSE Finishing(t, d)'
  <2>1. StartsAt(queue', app'[d], d, 1, After(tx[t].comp))
    BY <1>8, <1>13 DEF Stream
  <2>2. CASE tx[t].at = "collect"
    <3>1. Reached(d, Before(tx[t].comp))
      BY <1>13, <2>2 DEF Stream
    <3>2. QED
      BY <1>6, <2>1, <2>2, <3>1 DEF Reached, Count
  <2>3. CASE tx[t].at # "collect"
    BY <1>10, <1>13, <2>1, <2>3 DEF Stream, HeldOf
  <2>4. QED
    BY <2>2, <2>3
<1>14. QED
  BY <1>6, <1>7, <1>11, <1>12, <1>13 DEF Stream

LEMMA TakeKeepsStream ==
  ASSUME TypesInv, NEW t \in Tx, Take(t),
         NEW d \in Dlg, InOrder(d)', Stream(d)
  PROVE  Stream(d)'
<1> DEFINE c == Head(queue)
           r == [Idle EXCEPT !.at = "collect", !.comp = c]
<1>1. /\ queue \in Seq(Given) /\ queue # << >> /\ queue' = Tail(queue)
      /\ tx[t].at = "read"
      /\ UNCHANGED << mDialigueComponent, app, done, left >>
  BY DEF Take, TypesInv
<1>2. c \in Given /\ c = queue[1] /\ c.dlg \in Dlg /\ 1 \in 1 .. Len(queue)
  BY <1>1, TailElements DEF Given, Component
<1>3. tx' = [tx EXCEPT ![t] = r] /\ r.at = "collect" /\ r.comp = c
  BY DEF Take, Idle
<1>4. InSequence(queue, app[d], d)'
  BY <1>1, TailInSequence DEF Stream
<1>5. \A p : Reached(d, p)' <=> Reached(d, p)
  BY <1>1 DEF Reached, Count
<1>6. Collection(d)' <=> Collection(d)
  BY <1>1 DEF Collection, Count, Place
<1> HIDE DEF c, r
<1>7. CASE c.dlg = d
  <2>1. HeldOf(d) = {}
    BY <1>7 DEF Take, InOrder, c
  <2>2. HeldOf(d)' = {t}
    BY <1>3, <1>7, <2>1 DEF HeldOf, TypesInv
  <2>3. PICK p \in Point : StartsAt(queue, app[d], d, 1, p) /\ Reached(d, p)
    BY <2>1 DEF Stream
  <2>4. Before(c) = p
    BY <1>1, <1>2, <1>7, <2>3, HeadStartsAt DEF c
  <2>5. Reached(d, Before(c))
    BY <2>3, <2>4
  <2>6. tx'[t].comp = c /\ tx'[t].at = "collect"
    BY <1>3 DEF TypesInv
  <2>7. Reached(d, Before(tx[t].comp))'
    BY <1>1, <2>5, <2>6 DEF Reached, Count
  <2>8. StartsAt(Tail(queue), app[d], d, 1, After(c))
    <3>1. StartsAt(queue, app[d], d, 1 + 1, After(c))
      BY <1>2, <1>7 DEF Stream, InSequence
    <3>2. QED
      BY <1>1, <1>2, <3>1, TailStartsAt
  <2>9. QED
    BY <1>1, <1>4, <1>6, <2>2, <2>6, <2>7, <2>8 DEF Stream
<1>8. CASE c.dlg # d
  <2>1. HeldOf(d)' = HeldOf(d) /\ \A u \in HeldOf(d) : u \in Tx /\ tx'[u] = tx[u]
    BY <1>1, <1>3, <1>8 DEF HeldOf, TypesInv
  <2>2. \A p : StartsAt(queue, app[d], d, 1, p) => StartsAt(queue', app'[d], d, 1, p)
    BY <1>1, <1>8, HeadStartsAt DEF c
  <2>3. HeldOf(d)' = {} =>
          \E p \in Point : StartsAt(queue, app[d], d, 1, p)' /\ Reached(d, p)'
    BY <1>5, <2>1, <2>2 DEF Stream
  <2>4. ASSUME NEW u \in HeldOf(d)
        PROVE  /\ StartsAt(queue', app'[d], d, 1, After(tx'[u].comp))
               /\ IF tx'[u].at = "collect" THEN Reached(d, Before(tx[u].comp))'
                                           ELSE Finishing(u, d)'
    <3>1. StartsAt(queue', app'[d], d, 1, After(tx'[u].comp))
      BY <2>1, <2>2, <2>4 DEF Stream
    <3>2. CASE tx[u].at = "collect"
      <4>1. Reached(d, Before(tx[u].comp))
        BY <2>4, <3>2 DEF Stream
      <4>2. QED
        BY <1>1, <2>1, <2>4, <3>1, <3>2, <4>1 DEF Reached, Count
    <3>3. CASE tx[u].at # "collect"
      <4>1. Finishing(u, d)
        BY <2>4, <3>3 DEF Stream
      <4>2. Finishing(u, d)'
        BY <1>1, <2>1, <2>4, <4>1 DEF Finishing, Present
      <4>3. QED
        BY <2>1, <2>4, <3>1, <3>3, <4>2
    <3>4. QED
      BY <3>2, <3>3
  <2>5. /\ \A u, v \in HeldOf(d)' : u = v
        /\ d \notin left' => Collection(d)'
    BY <1>1, <1>6, <2>1 DEF Stream
  <2>6. \A u \in HeldOf(d)' :
          /\ StartsAt(queue', app'[d], d, 1, After(tx'[u].comp))
          /\ IF tx'[u].at = "collect" THEN Reached(d, Before(tx[u].comp))'
                                      ELSE Finishing(u, d)'
    BY <2>1, <2>4
  <2>7. QED
    BY <1>4, <2>3, <2>5, <2>6 DEF Stream
<1>9. QED
  BY <1>7, <1>8

-----------------------------------------------------------------------------
(* The steps of a thread with its own dialogue.                              *)
LEMMA CollectKeepsStream ==
  ASSUME TypesInv, NEW t \in Tx, Collect(t),
         NEW c \in Given, c = tx[t].comp,
         NEW d \in Dlg, d = c.dlg, Stream(d)
  PROVE  Stream(d)'
<1> DEFINE entry == mDialigueComponent[d]
           new == With(entry, c)
<1>1. /\ tx[t].at = "collect" /\ t \in HeldOf(d)
      /\ Present(d) \/ ~c.last
      /\ mDialigueComponent' = [mDialigueComponent EXCEPT ![d] = new]
      /\ tx' = [tx EXCEPT ![t] = IF AllReceived(new) THEN [@ EXCEPT !.at = "build"] ELSE Idle]
      /\ UNCHANGED << queue, app, done, overtaken, left >>
  BY DEF Collect, Collecting, Collects, HeldOf
<1>2. entry \in Entry /\ tx[t] \in Thread
  BY DEF TypesInv
<1>3. /\ new \in Entry
      /\ new.numberOfComponent = Count(d) + 1
      /\ new.totComponent = c.tcUserId + 1
      /\ new.lastComponentFlag = (entry.lastComponentFlag \/ c.last)
      /\ \A i \in Index : new.tcapComponent[i] =
           IF i = c.tcUserId THEN c ELSE Place(d, i)
  BY <1>2, WithTyped DEF Count, Place
<1>4. Reached(d, Before(c))
  BY <1>1 DEF Stream
<1>5. c.tcUserId \in Index /\ c.msg \in Nat \ {0} /\ c.last \in BOOLEAN
  BY MultiCompAssumption DEF Given, Component
<1>6. Count(d) \in Nat /\ done[d] \in Nat
  BY <1>2 DEF Count, Entry, TypesInv
<1>7. mDialigueComponent'[d] = new
  BY <1>1 DEF TypesInv
<1> HIDE DEF entry, new
<1>8. CASE d \in left
  <2>1. Count(d) > c.tcUserId /\ done[d] <= c.msg - 1
    BY <1>4, <1>8 DEF Reached, Before
  <2>2. ~AllReceived(new)
    BY <1>3, <1>5, <1>6, <2>1 DEF AllReceived, Index
  <2>3. tx'[t] = Idle /\ tx' = [tx EXCEPT ![t] = tx'[t]]
    BY <1>1, <2>2 DEF TypesInv
  <2>4. Count(d)' = Count(d) + 1
    BY <1>3, <1>7 DEF Count
  <2>5. Reached(d, After(c))'
    BY <1>1, <1>5, <1>6, <1>8, <2>1, <2>4 DEF Reached, After, Index
  <2>6. QED
    BY <1>1, <1>8, <2>3, <2>5, IdleTyped, OwnDialogue
<1>9. CASE d \notin left
  <2>1. /\ c.msg = done[d] + 1 /\ c.tcUserId = Count(d)
        /\ ~mDialigueComponent[d].lastComponentFlag
    BY <1>4, <1>5, <1>6, <1>9 DEF Reached, Before
  <2>2. Collection(d)
    BY <1>9 DEF Stream
  <2>3. /\ new.numberOfComponent = Count(d) + 1 /\ new.totComponent = Count(d) + 1
        /\ new.lastComponentFlag <=> c.last
    BY <1>3, <2>1 DEF entry
  <2>4. AllReceived(new) <=> c.last
    BY <2>3 DEF AllReceived
  <2>5. /\ Count(d)' = Count(d) + 1
        /\ \A i \in Index : Place(d, i)' = IF i = Count(d) THEN c ELSE Place(d, i)
        /\ mDialigueComponent'[d].totComponent = Count(d) + 1
        /\ mDialigueComponent'[d].lastComponentFlag <=> c.last
    <3>1. \A i \in Index : Place(d, i)' = new.tcapComponent[i]
      BY <1>7 DEF Place
    <3>2. \A i \in Index : Place(d, i)' = IF i = Count(d) THEN c ELSE Place(d, i)
      BY <1>3, <2>1, <3>1
    <3>3. Count(d)' = Count(d) + 1
      BY <1>7, <2>3 DEF Count
    <3>4. QED
      BY <1>7, <2>3, <3>2, <3>3
  <2>6. Collection(d)'
    <3>1. Count(d)' \in 0 .. MaxComponents
      BY <1>5, <1>6, <2>1, <2>5, MultiCompAssumption DEF Index
    <3>2. ASSUME NEW i \in Index
          PROVE  IF i < Count(d)'
                 THEN /\ Place(d, i)' \in Component
                      /\ Place(d, i)'.msg = done'[d] + 1
                      /\ Place(d, i)'.tcUserId = i
                      /\ Place(d, i)'.last <=>
                           mDialigueComponent'[d].lastComponentFlag /\ i = Count(d)' - 1
                 ELSE Place(d, i)' = NoComponent
      <4>0. i \in Nat
        BY DEF Index
      <4>1. CASE i < Count(d)
        <5>1. Place(d, i)' = Place(d, i) /\ i # Count(d)' - 1 /\ i < Count(d)'
          BY <1>6, <2>5, <4>0, <4>1
        <5>2. /\ Place(d, i) \in Component /\ Place(d, i).msg = done[d] + 1
              /\ Place(d, i).tcUserId = i /\ ~Place(d, i).last
          BY <2>1, <2>2, <4>1 DEF Collection
        <5>3. QED
          BY <1>1, <5>1, <5>2
      <4>2. CASE i = Count(d)
        BY <1>1, <1>6, <2>1, <2>5, <4>0, <4>2 DEF Given
      <4>3. CASE i > Count(d)
        <5>1. Place(d, i)' = Place(d, i) /\ ~(i < Count(d)) /\ ~(i < Count(d)')
          BY <1>6, <2>5, <4>0, <4>3
        <5>2. Place(d, i) = NoComponent
          BY <2>2, <5>1 DEF Collection
        <5>3. QED
          BY <5>1, <5>2
      <4>4. QED
        BY <1>6, <4>0, <4>1, <4>2, <4>3
    <3>3. QED
      BY <2>5, <3>1, <3>2 DEF Collection
  <2>7. CASE c.last
    <3>1. /\ tx'[t] = [tx[t] EXCEPT !.at = "build"]
          /\ tx' = [tx EXCEPT ![t] = tx'[t]]
      BY <1>1, <2>4, <2>7 DEF TypesInv
    <3>2. tx'[t].at = "build" /\ tx'[t].comp = c
      BY <1>2, <3>1 DEF Thread
    <3>3. Finishing(t, d)'
      <4>1. Present(d)' /\ mDialigueComponent'[d].lastComponentFlag
        BY <1>6, <2>5, <2>7 DEF Present, Count
      <4>2. QED
        BY <1>1, <1>9, <2>1, <2>7, <3>2, <4>1 DEF Finishing
    <3>4. QED
      BY <1>1, <2>6, <3>1, <3>2, <3>3, OwnDialogue
  <2>8. CASE ~c.last
    <3>1. tx'[t] = Idle /\ tx' = [tx EXCEPT ![t] = tx'[t]]
      BY <1>1, <2>4, <2>8 DEF TypesInv
    <3>2. Reached(d, After(c))'
      BY <1>1, <1>5, <1>6, <1>9, <2>1, <2>5, <2>8 DEF Reached, After
    <3>3. QED
      BY <1>1, <2>6, <3>1, <3>2, IdleTyped, OwnDialogue
  <2>9. QED
    BY <1>5, <2>7, <2>8
<1>10. QED
  BY <1>8, <1>9

LEMMA GoesAloneKeepsStream ==
  ASSUME TypesInv, NEW t \in Tx, GoesAlone(t),
         NEW c \in Given, c = tx[t].comp,
         NEW d \in Dlg, d = c.dlg, Stream(d)
  PROVE  Stream(d)'
<1>1. /\ tx[t].at = "collect" /\ t \in HeldOf(d)
      /\ c.last /\ ~Present(d)
      /\ tx' = [tx EXCEPT ![t].at = "build"]
      /\ UNCHANGED << queue, mDialigueComponent, app, done, overtaken, left >>
  BY DEF GoesAlone, Collecting, HeldOf
<1>2. Reached(d, Before(c))
  BY <1>1 DEF Stream
<1>3. c.tcUserId \in Nat /\ c.msg \in Nat \ {0} /\ Count(d) \in Nat /\ done[d] \in Nat
  BY MultiCompAssumption DEF Given, Component, Index, TypesInv, Count, Entry
<1>4. Count(d) = 0
  BY <1>1 DEF Present, Count
<1>5. /\ d \notin left /\ c.msg = done[d] + 1 /\ c.tcUserId = 0
      /\ ~mDialigueComponent[d].lastComponentFlag
  BY <1>2, <1>3, <1>4 DEF Reached, Before
<1>6. tx'[t].at = "build" /\ tx'[t].comp = c /\ tx' = [tx EXCEPT ![t] = tx'[t]]
  BY <1>1 DEF TypesInv, Thread
<1>7. Finishing(t, d)'
  BY <1>1, <1>5, <1>6 DEF Finishing, Present
<1>8. Collection(d)'
  BY <1>1, <1>5 DEF Stream, Collection, Count, Place
<1>9. QED
  BY <1>1, <1>6, <1>7, <1>8, OwnDialogue

LEMMA ReturnsEarlyKeepsStream ==
  ASSUME TypesInv, NEW t \in Tx, ReturnsEarly(t),
         NEW c \in Given, c = tx[t].comp,
         NEW d \in Dlg, d = c.dlg, Stream(d)
  PROVE  Stream(d)'
<1>1. /\ tx[t].at = "build" /\ t \in HeldOf(d)
      /\ tx' = [tx EXCEPT ![t] = Idle]
      /\ done' = [done EXCEPT ![d] = @ + 1]
      /\ left' = IF Present(d) THEN left \cup {d} ELSE left
      /\ UNCHANGED << queue, mDialigueComponent, app, overtaken >>
  BY DEF ReturnsEarly, Gone, HeldOf
<1>2. Finishing(t, d)
  BY <1>1 DEF Stream
<1>3. done[d] \in Nat /\ Count(d) \in Nat /\ done'[d] = done[d] + 1
  BY <1>1 DEF TypesInv, Count, Entry
<1>4. tx'[t] = Idle /\ tx' = [tx EXCEPT ![t] = tx'[t]]
  BY <1>1 DEF TypesInv
<1>5. After(c) = [given |-> done'[d], next |-> 0]
  BY <1>2, <1>3 DEF Finishing, After
<1>6. Count(d)' = Count(d)
  BY <1>1 DEF Count
<1>7. CASE Present(d)
  <2>1. d \in left' /\ Count(d) > 0
    BY <1>1, <1>3, <1>7 DEF Present, Count
  <2>2. Reached(d, After(c))'
    BY <1>3, <1>5, <1>6, <2>1 DEF Reached
  <2>3. QED
    BY <1>1, <1>4, <2>1, <2>2, IdleTyped, OwnDialogue
<1>8. CASE ~Present(d)
  <2>1. d \notin left' /\ Count(d) = 0 /\ ~mDialigueComponent[d].lastComponentFlag
    BY <1>1, <1>2, <1>8 DEF Finishing, Present, Count
  <2>2. Reached(d, After(c))'
    BY <1>1, <1>5, <1>6, <2>1 DEF Reached
  <2>3. Collection(d)
    BY <1>2 DEF Stream, Finishing
  <2>4. Collection(d)'
    <3>1. /\ Count(d)' = 0 /\ UNCHANGED mDialigueComponent
          /\ \A i \in Index : ~(i < 0)
      BY <1>1, <1>6, <2>1 DEF Index
    <3>2. QED
      BY <2>1, <2>3, <3>1 DEF Collection, Place
  <2>5. QED
    BY <1>1, <1>4, <2>2, <2>4, IdleTyped, OwnDialogue
<1>9. QED
  BY <1>7, <1>8

(* A collection that was taken out of the map.                               *)
LEMMA TakenOut ==
  ASSUME TypesInv, NEW d \in Dlg,
         mDialigueComponent' = [mDialigueComponent EXCEPT ![d] = NoEntry]
  PROVE  /\ Collection(d)' /\ Count(d)' = 0 /\ ~Present(d)'
         /\ ~mDialigueComponent'[d].lastComponentFlag
<1>1. mDialigueComponent'[d] = NoEntry
  BY DEF TypesInv
<1>2. QED
  BY <1>1, MultiCompAssumption DEF NoEntry, Collection, Count, Place, Present, Index

LEMMA BuildFailsKeepsStream ==
  ASSUME TypesInv, NEW t \in Tx, BuildFails(t),
         NEW c \in Given, c = tx[t].comp,
         NEW d \in Dlg, d = c.dlg, Stream(d)
  PROVE  Stream(d)'
<1>1. /\ tx[t].at = "build" /\ t \in HeldOf(d)
      /\ mDialigueComponent' = [mDialigueComponent EXCEPT ![d] = NoEntry]
      /\ tx' = [tx EXCEPT ![t] = Idle]
      /\ done' = [done EXCEPT ![d] = @ + 1]
      /\ UNCHANGED << queue, app, overtaken, left >>
  BY DEF BuildFails, Gone, HeldOf
<1>2. Finishing(t, d)
  BY <1>1 DEF Stream
<1>3. done'[d] = done[d] + 1 /\ tx'[t] = Idle /\ tx' = [tx EXCEPT ![t] = tx'[t]]
  BY <1>1 DEF TypesInv
<1>4. After(c) = [given |-> done'[d], next |-> 0]
  BY <1>2, <1>3 DEF Finishing, After
<1>5. Reached(d, After(c))'
  BY <1>1, <1>2, <1>4, TakenOut DEF Reached, Finishing
<1>6. QED
  BY <1>1, <1>3, <1>5, TakenOut, IdleTyped, OwnDialogue

LEMMA SendKeepsStream ==
  ASSUME TypesInv, NEW t \in Tx, Send(t),
         NEW c \in Given, c = tx[t].comp,
         NEW d \in Dlg, d = c.dlg, Stream(d)
  PROVE  Stream(d)'
<1>1. /\ tx[t].at = "send" /\ t \in HeldOf(d)
      /\ tx' = [tx EXCEPT ![t] = Idle]
      /\ done' = [done EXCEPT ![d] = @ + 1]
      /\ UNCHANGED << queue, mDialigueComponent, app, overtaken, left >>
  BY DEF Send, Gone, HeldOf
<1>2. Finishing(t, d)
  BY <1>1 DEF Stream
<1>3. done'[d] = done[d] + 1 /\ tx'[t] = Idle /\ tx' = [tx EXCEPT ![t] = tx'[t]]
  BY <1>1 DEF TypesInv
<1>4. Count(d) = 0 /\ ~mDialigueComponent[d].lastComponentFlag
  BY <1>1, <1>2 DEF Finishing, Present, Count
<1>5. After(c) = [given |-> done'[d], next |-> 0]
  BY <1>2, <1>3 DEF Finishing, After
<1>6. Reached(d, After(c))'
  BY <1>1, <1>2, <1>4, <1>5 DEF Reached, Finishing, Count
<1>7. Collection(d)
  BY <1>2 DEF Stream, Finishing
<1>8. Collection(d)'
  <2>1. /\ Count(d)' = 0 /\ UNCHANGED mDialigueComponent
        /\ \A i \in Index : ~(i < 0)
    BY <1>1, <1>4 DEF Count, Index
  <2>2. QED
    BY <1>4, <1>7, <2>1 DEF Collection, Place
<1>9. QED
  BY <1>1, <1>3, <1>6, <1>8, IdleTyped, OwnDialogue

(* What AddAcuTcapComponet builds of a full collection is whole.             *)
LEMMA CollectionIsWhole ==
  ASSUME TypesInv, NEW d \in Dlg, Collection(d), Present(d),
         mDialigueComponent[d].lastComponentFlag
  PROVE  LET comps == Collected(mDialigueComponent[d])
         IN  comps # << >> /\ Whole(comps)
<1> DEFINE entry == mDialigueComponent[d]
           comps == Collected(entry)
           n == Count(d)
<1>1. entry \in Entry /\ n = entry.numberOfComponent
  BY DEF TypesInv, Count
<1>2. n \in 1 .. MaxComponents
  BY <1>1, MultiCompAssumption DEF Collection, Present, Entry, Count
<1>3. Len(comps) = n /\ \A i \in 1 .. n : i - 1 \in Index => comps[i] = Place(d, i - 1)
  BY <1>1, CollectedTyped DEF Place
<1> HIDE DEF comps, n
<1>4. ASSUME NEW i \in 1 .. n
      PROVE  /\ comps[i].tcUserId = i - 1 /\ comps[i].msg = done[d] + 1
             /\ comps[i].last <=> i = n
  <2>1. i - 1 \in Index /\ i - 1 < Count(d)
    BY <1>2, MultiCompAssumption DEF Index, n
  <2>2. comps[i] = Place(d, i - 1)
    BY <1>3, <2>1
  <2>3. QED
    BY <1>2, <2>1, <2>2 DEF Collection, n
<1>5. 1 \in 1 .. n /\ n \in 1 .. n
  BY <1>2
<1>6. Whole(comps)
  BY <1>3, <1>4, <1>5 DEF Whole
<1>7. comps # << >>
  BY <1>2, <1>3, EmptySeq
<1>8. QED
  BY <1>6, <1>7 DEF comps

LEMMA BuildKeepsStream ==
  ASSUME TypesInv, NEW t \in Tx, Build(t),
         NEW c \in Given, c = tx[t].comp,
         NEW d \in Dlg, d = c.dlg, Stream(d)
  PROVE  Stream(d)'
<1> DEFINE comps == IF Present(d) THEN Collected(mDialigueComponent[d]) ELSE << c >>
           r == [tx[t] EXCEPT !.at = "send", !.built = comps]
<1>1. /\ tx[t].at = "build" /\ t \in HeldOf(d)
      /\ mDialigueComponent' = [mDialigueComponent EXCEPT ![d] = NoEntry]
      /\ tx' = [tx EXCEPT ![t] = r]
      /\ UNCHANGED << queue, app, done, overtaken, left >>
  BY DEF Build, HeldOf
<1>2. Finishing(t, d)
  BY <1>1 DEF Stream
<1>3. comps # << >> /\ Whole(comps)
  <2>1. CASE Present(d)
    <3>1. Collection(d) /\ mDialigueComponent[d].lastComponentFlag
      BY <1>2, <2>1 DEF Stream, Finishing
    <3>2. QED
      BY <2>1, <3>1, CollectionIsWhole
  <2>2. CASE ~Present(d)
    <3>1. c.last /\ c.tcUserId = 0
      BY <1>1, <1>2, <2>2 DEF Finishing
    <3>2. Len(<< c >>) = 1 /\ << c >>[1] = c /\ << c >> # << >>
      BY AloneTyped
    <3>3. Whole(<< c >>)
      BY <3>1, <3>2 DEF Whole
    <3>4. QED
      BY <2>2, <3>2, <3>3
  <2>3. QED
    BY <2>1, <2>2
<1> HIDE DEF comps
<1>4. r.at = "send" /\ r.comp = c /\ r.built = comps
  BY DEF TypesInv, Thread
<1> HIDE DEF r
<1>5. tx'[t] = r /\ tx' = [tx EXCEPT ![t] = tx'[t]]
  BY <1>1 DEF TypesInv
<1>6. Finishing(t, d)'
  BY <1>1, <1>2, <1>3, <1>4, <1>5, TakenOut DEF Finishing
<1>7. QED
  BY <1>1, <1>4, <1>5, <1>6, TakenOut, OwnDialogue

-----------------------------------------------------------------------------
LEMMA OtherKept ==
  ASSUME TypesInv, NEW t \in Tx,
         \/ Collect(t) \/ GoesAlone(t) \/ ReturnsEarly(t)
         \/ Build(t) \/ BuildFails(t) \/ Send(t),
         NEW d \in Dlg, d # tx[t].comp.dlg, Stream(d)
  PROVE  Stream(d)'
<1> DEFINE c == tx[t].comp
<1>1. tx[t].at # "read"
  BY DEF Collect, Collecting, GoesAlone, ReturnsEarly, Build, BuildFails, Send
<1>2. UNCHANGED << queue, app >>
  BY DEF Collect, Collects, GoesAlone, ReturnsEarly, Build, BuildFails, Send
<1>3. c \in Given /\ tx[t] \in Thread /\ c.dlg \in Dlg
  BY <1>1, ThreadAt
<1>4. /\ tx' = [tx EXCEPT ![t] = tx'[t]]
      /\ tx'[t].at = "read" \/ tx'[t].comp = c
  <2>1. CASE Collect(t)
    BY <1>3, <2>1, IdleTyped DEF Collect, Collects, TypesInv, Thread
  <2>2. CASE GoesAlone(t)
    BY <1>3, <2>2 DEF GoesAlone, TypesInv, Thread
  <2>3. CASE ReturnsEarly(t) \/ BuildFails(t) \/ Send(t)
    BY <2>3, IdleTyped DEF ReturnsEarly, BuildFails, Send, TypesInv
  <2>4. CASE Build(t)
    BY <1>3, <2>4 DEF Build, TypesInv, Thread
  <2>5. QED
    BY <2>1, <2>2, <2>3, <2>4
<1>5. mDialigueComponent'[d] = mDialigueComponent[d]
  BY <1>3 DEF Collect, Collects, GoesAlone, ReturnsEarly, Build, BuildFails, Send, TypesInv
<1>6. done'[d] = done[d]
  BY <1>3
  DEF Collect, Collects, GoesAlone, ReturnsEarly, Build, BuildFails, Send, Gone, TypesInv
<1>7. d \in left' <=> d \in left
  BY DEF Collect, Collects, GoesAlone, ReturnsEarly, Build, BuildFails, Send
<1>8. QED
  BY <1>1, <1>2, <1>4, <1>5, <1>6, <1>7, OtherDialogue

LEMMA StreamsKept ==
  ASSUME IInv, [Next]_vars, NEW d \in Dlg, InOrder(d)'
  PROVE  Stream(d)'
<1> USE DEF IInv
<1>1. CASE UNCHANGED vars
  <2>1. Stream(d)
    BY <1>1 DEF vars, InOrder
  <2>2. QED
    BY <1>1, <2>1
    DEF vars, Stream, HeldOf, Reached, Finishing, Collection, Count, Place, Present
<1>2. ASSUME NEW g \in Dlg, NEW last \in BOOLEAN, Give(g, last) PROVE Stream(d)'
  <2>1. Stream(d)
    BY <1>2 DEF Give, InOrder
  <2>2. QED
    BY <1>2, <2>1, GiveKeepsStream
<1>3. ASSUME NEW t \in Tx, Take(t) PROVE Stream(d)'
  <2>1. Stream(d)
    BY <1>3 DEF Take, InOrder
  <2>2. QED
    BY <1>3, <2>1, TakeKeepsStream
<1>4. ASSUME NEW t \in Tx,
             \/ Collect(t) \/ GoesAlone(t) \/ ReturnsEarly(t)
             \/ Build(t) \/ BuildFails(t) \/ Send(t)
      PROVE  Stream(d)'
  <2>1. Stream(d)
    BY <1>4 DEF Collect, Collects, GoesAlone, ReturnsEarly, Build, BuildFails, Send, InOrder
  <2>2. tx[t].comp \in Given
    BY <1>4, ThreadAt
    DEF Collect, Collecting, GoesAlone, ReturnsEarly, Build, BuildFails, Send
  <2>3. CASE d = tx[t].comp.dlg
    BY <1>4, <2>1, <2>2, <2>3, CollectKeepsStream, GoesAloneKeepsStream,
       ReturnsEarlyKeepsStream, BuildKeepsStream, BuildFailsKeepsStream, SendKeepsStream
  <2>4. CASE d # tx[t].comp.dlg
    BY <1>4, <2>1, <2>4, OtherKept
  <2>5. QED
    BY <2>3, <2>4
<1>5. QED
  BY <1>1, <1>2, <1>3, <1>4 DEF Next, Step

(* The stream of each dialogue whose components are processed in order is    *)
(* unbroken from what was sent to where the application is.                  *)
THEOREM StreamInvariant == Spec => []IInv
<1>1. Init => IInv
  BY TypesInit, StreamInit DEF IInv
<1>2. IInv /\ [Next]_vars => IInv'
  BY TypesKept, StreamsKept DEF IInv
<1>3. QED
  BY <1>1, <1>2, PTL DEF Spec

(* The types, and each component counted once at its place.                  *)
THEOREM TypeCorrect == Spec => []TypeOK
<1>1. IInv => TypeOK
  <2> SUFFICES ASSUME IInv PROVE TypeOK
      OBVIOUS
  <2> USE DEF IInv
  <2>1. queue \in Seq(Component) /\ Len(queue) <= QueueBound
    BY ElementOfSeq, SeqDef DEF TypesInv, Given
  <2>2. ASSUME NEW d \in Dlg
        PROVE  LET entry == mDialigueComponent[d] IN
                 /\ entry.lastComponentFlag \in BOOLEAN
                 /\ \A i \in Index : entry.tcapComponent[i] \in Component \cup {NoComponent}
    BY DEF TypesInv, Entry
  <2>3. ASSUME NEW d \in Dlg, InOrder(d), d \notin left
        PROVE  mDialigueComponent[d].numberOfComponent =
                 Cardinality({i \in Index : mDialigueComponent[d].tcapComponent[i] # NoComponent})
    <3>1. Collection(d)
      BY <2>3 DEF Stream
    <3>2. NoComponent \notin Component
      BY DEF NoComponent, Component
    <3>3. {i \in Index : mDialigueComponent[d].tcapComponent[i] # NoComponent}
            = 0 .. Count(d) - 1
      BY <3>1, <3>2, MultiCompAssumption DEF Collection, Place, Index
    <3>4. Count(d) \in Nat
      BY <3>1 DEF Collection
    <3>5. Cardinality(0 .. Count(d) - 1) = Count(d)
      BY <3>4, FS_Interval
    <3>6. QED
      BY <3>3, <3>5 DEF Count
  <2>4. \A t \in Tx : tx[t].at \in {"read", "collect", "build", "send"}
    BY DEF TypesInv, Thread
  <2>5. ASSUME NEW d \in Dlg, InOrder(d) PROVE done[d] \in 0 .. MaxMessages
    <3>1. Stream(d) /\ done[d] \in Nat
      BY <2>5 DEF TypesInv
    <3>2. CASE HeldOf(d) = {}
      BY <3>1, <3>2, MultiCompAssumption DEF Stream, Reached, Point
    <3>3. CASE HeldOf(d) # {}
      <4>1. PICK t \in HeldOf(d) : TRUE
        BY <3>3
      <4>2. tx[t].comp.msg \in 1 .. MaxMessages
        BY <4>1 DEF TypesInv, HeldOf, Given, Component
      <4>3. \/ Reached(d, Before(tx[t].comp))
            \/ tx[t].comp.msg = done[d] + 1
        BY <3>1, <4>1 DEF Stream, Finishing
      <4>4. QED
        BY <3>1, <4>2, <4>3, MultiCompAssumption DEF Reached, Before
    <3>4. QED
      BY <3>2, <3>3
  <2>6. QED
    BY <2>1, <2>2, <2>3, <2>4, <2>5 DEF TypeOK, TypesInv
<1>2. QED
  BY <1>1, StreamInvariant, PTL

(* A message that goes to the stack has all components of one message of the *)
(* application, in their order, and no others.                               *)
THEOREM MessagesAreWhole == Spec => []SentWhole
<1>1. IInv => SentWhole
  BY DEF IInv, TypesInv, Given, Component, SentWhole, Stream, HeldOf, Finishing
<1>2. QED
  BY <1>1, StreamInvariant, PTL

(* What is collected for a dialogue belongs to the message it is at.         *)
THEOREM CollectionIsOfThisMessage == Spec => []NothingLeftOver
<1>1. IInv => NothingLeftOver
  <2> SUFFICES ASSUME IInv, NEW d \in Dlg, NEW i \in Index, InOrder(d), d \notin left,
                      Place(d, i) # NoComponent
               PROVE  Place(d, i).msg = done[d] + 1
      BY DEF NothingLeftOver, Place
  <2>1. Collection(d)
    BY DEF IInv, Stream
  <2>2. QED
    BY <2>1 DEF Collection
<1>2. QED
  BY <1>1, StreamInvariant, PTL

(* When all of a dialogue's components are processed, each message that the  *)
(* application gave in full was sent or given up.                            *)
THEOREM EveryMessageGoes == Spec => []NothingSwallowed
<1>1. IInv => NothingSwallowed
  <2> SUFFICES ASSUME IInv, NEW d \in Dlg \ left, Processed(d), InOrder(d)
               PROVE  done[d] = app[d].given
      BY DEF NothingSwallowed
  <2>1. Stream(d) /\ HeldOf(d) = {} /\ \A i \in 1 .. Len(queue) : queue[i].dlg # d
    BY DEF IInv, Processed
  <2>2. PICK p \in Point : StartsAt(queue, app[d], d, 1, p) /\ Reached(d, p)
    BY <2>1 DEF Stream
  <2>3. app[d] = p
    BY <2>1, <2>2 DEF StartsAt
  <2>4. QED
    BY <2>2, <2>3 DEF Reached
<1>2. QED
  BY <1>1, StreamInvariant, PTL
=============================================================================
