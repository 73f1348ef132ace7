# TLA+ models of the ANSI TCAP handler

The repository holds the signalling processes of a telephone network node that
run on top of the Aculab SS7 library. This directory holds TLA+ models of the
parts where processes and threads share state, the TLC configurations that
check them, and proofs, checked by TLAPS, about the dialogue pool as a queue of
ids, its lock, the single writes under it, the handler's records and
transactions, the messages of several components, the supervision of the
SSAPs of both kinds of handler, and the encoding of SCCP unit data.
Paths below are relative to `src/`; `DlgMgr.cc` stands for
`tcap/src/TcapAculabDlgMgr.cc`, `Handler.cc` for
`tcap/src/TcapAculabHandler.cc`, and so on.

## The system

### Parts

| Part | Code | Its state | What it does |
|---|---|---|---|
| Dialogue manager | `DlgMgr.cc` | System V shared memory: the dialogue records, the ring of free ids with two positions and a count; one semaphore | allocate, free, read, update, count; lock and unlock; attach at start |
| Transaction map | `TransDlgMap.cc` | none of its own: it ties a library transaction (its user pointer) to a dialogue record | map in both directions, look up in both directions, delete |
| TCAP handler | `Handler.cc`, `HandlerMain.cc` | one process per subsystem number; per SSAP instance one receive and one transmit thread; configuration, SSAP details, the throttle | moves messages between the application's queue and the stack, opens and ends dialogues |
| Dialogue cleaner | `DlgCleaner.cc`, `DlgCleanerMain.cc` | none; reads the pool | every three seconds posts a prearranged end for every record that is too old |
| API wrapper | `Api.cc` | the SSAPs, their status and last-used times, `gRestoreStatus`, the collected components | library calls, supervision and reconnection, component collection, encoding |
| Utilities | `Util.cc` | signal flags, transmit flags | signals, queue errors, printing |
| Traffic report | `HandlerTraffic.cc`, `HandlerTrafficMain.cc` | snapshots of counters | prints counter differences |
| Licence key tool | `GenerateLicKey.cc` | none | prints a key |
| SCCP handler | `sccp/src/*.cc` | one SSAP and its connection (`mSsapPtr`, `mConnection`, `mSaapStatus`), the message being decoded (`mSccpInfo`), a receive and a transmit thread, and two more with each reconnection | connectionless unit data between a queue and the SCCP library |
| Test tools | `TcapWriteMsg.cc`, `TcapReadMsg.cc`, ... | none | play the application |
| Aculab library | `ACULAB_4-0/` | transactions, their block state, SSAPs | third party, used by all of the above |

### How they interact

* The application and the handler exchange messages through queues. All
  transmit threads of a process read the one application queue
  (`HandlerMain.cc:85-129`).
* A receive thread waits in `acu_tcap_ssap_msg_get`, which *blocks* the
  transaction whose message it returns: the library hands out no further
  message of it until `acu_tcap_trans_unblock`. `acu_tcap_trans_block` tries to
  take the same block.
* Both kinds of thread, the main thread and the cleaner find dialogues through
  the pool. Only allocate, free and update take the semaphore; every read of a
  record (`GetDlgInfo`, the cleaner's walk) is made without it.
* The main thread looks at every SSAP instance each three seconds, marks a
  silent one, reconnects it and starts threads for it
  (`HandlerMain.cc:374-416`).
* Signals set flags; a second termination signal ends the process at once
  (`Util.cc:532`). Threads are detached, so the end of `main` ends them
  wherever they are.

### What is hard, and what makes it correct

*Dialogue manager.* Ids must not be lost or shared through any sequence of
calls; the ring's positions, its slots and the count must agree; the semaphore
must exclude threads of different processes and survive the end of any of
them; the end of a process between two writes must do no harm.

*Handler and transaction map.* A dialogue has two ends, and both may come at
once: from the application, the network, a library timer, the cleaner, or a
failing call. The record must be freed and the transaction deleted, each once,
by whoever comes first; the loser must notice. The handler works on copies of
records that were read without the lock. No transaction may stay behind that
nothing refers to, and the application must be told of the end. It is told
once, by a write that does not wait: when its queue is full, nobody tells it
again.

*Cleaner.* Every record whose dialogue was forgotten goes in the end.

*API wrapper and main thread.* An instance that went silent is reconnected
once, keeps its dialogues or ends them, and has exactly one pair of threads;
status changes of the main thread and of transmit threads must not overwrite
each other. Components collected over several messages belong to one dialogue
and are sent once.

*SCCP handler.* The same supervision for one SSAP, without dialogues, but with
differences: a reconnection starts further threads and ends none, waits for
nobody, and the transmit threads mark the SSAP as well as the main thread. A
quiet SSAP that is in service must stay, a blocked one must go, and a message
that a transmit thread holds must not be held for ever. What is decoded must
be what arrives of the message that was encoded, at every length of the nested
parts; in an abort, the decoder reads one of these lengths from a single byte.

The full list of hazards, each at its line and with the properties aimed at
it, is in `PROJECT.json`.

## The modules

| Module | Models | Composes |
|---|---|---|
| `DlgIdQueue` | what the pool promises: a first-in, first-out queue of free ids and a set of records | |
| `DlgPool` | the shared memory, one action for each call | refines `DlgIdQueue` (`ImplementsQueue`) |
| `DlgSem` | `Lock` and `UnLock` over a System V semaphore with `SEM_UNDO`, process ends | |
| `DlgMgr` | the same calls write by write, by threads of several processes | `DlgPool` (state), `DlgSem` (instance), refines `DlgPool` |
| `TcapHandler` | the threads of one handler, the library's transactions, the application, the network, the cleaner | `DlgPool` (atomic calls) |
| `TcapSsap` | the main thread, the SSAP instances and what reconnecting one does to the threads and the dialogues | |
| `MultiComp` | the components of a message, from the application's queue through the collection to the stack | |
| `SccpCodec` | the TCAP part of an SCCP unit data, encoded and decoded | |
| `SccpHandler` | the SCCP handler's threads around its one SSAP | extends `SccpCodec` (`ReadsWhatArrives`) |
| `DlgPool_proofs`, `DlgSem_proofs`, `DlgMgr_proofs` | the theorems about the pool | `DlgMgr_proofs` uses the other two, under its refinement mapping |
| `TcapHandler_proofs`, `TcapOwners_proofs` | the theorems about the handler: its types and its calls of the pool; who a transaction belongs to | the first extends `DlgPool_proofs`, the second the first |
| `MultiComp_proofs`, `TcapSsap_proofs`, `SccpHandler_proofs` | the theorems about these three | |
| `MCDlgPool`, `MCDlgSem`, `MCDlgMgr`, `MCTcapHandler`, `MCTcapSsap`, `MCMultiComp`, `MCSccpHandler` | instances for TLC | |

`DlgMgr` shows that, under the semaphore, calls take effect as if each were
one step; `TcapHandler` builds on that and takes the calls of the pool as single
actions, which keeps it small enough for the interleavings that matter there.

Some definitions carry a neighbour whose comment begins "a slip": a mistake a
programmer could plausibly make in that piece of code. No specification uses
them. Putting one in place of its neighbour makes the property it is listed
with in `PROJECT.json` fail; this is how the properties are known to say
something.

### DlgPool

`mInDlgRecordPool`, `dlgIdx`, `nextFreeDlgIdx`, `lastFreeDlgIdx` and
`recordCount` are the fields of the shared memory. A record is `NoRecord` when
its `dlgId` is 0, otherwise a member of `Content`. Ids up to `HalfMaxDlgSize`
are chosen by the application and never enter the ring; those above it are
handed out. `Allocate`, `FreeAllocated`, `FreeAppChosen` and `Update` are
`Allocate_DlgId`, the two branches of `FreeDlgInfo`, and `UpdateDlgInfo`.
`recordCount` wraps at `CountMod`, which is 2^32 in the code. `Update` writes a
record of any id, used or not, as the code does; `Next` contains only the
callers that keep to the protocol (`UpdateInUse`), and `TcapHandler` shows
where the code's callers do not.

`ReadConfig` computes the two sizes in unsigned arithmetic and checks neither;
`PoolAssumption` asks for what the ring needs: a shift smaller than half the
pool.

### DlgSem

`semval` is the semaphore, `semadj` the kernel's correction per process, `pc`
where each thread is. `Lock` is the semaphore operation pair "wait for 0, add
1"; `UnLock` subtracts 1 with `IPC_NOWAIT`. `Exit` ends a process anywhere: the
kernel adds its correction, never below 0. Signals that interrupt a waiting
`semop` are left out: `Lock` then returns false, its callers ignore that, and
nothing excludes any more. `PROJECT.json` lists it as a hazard without a
property.

### DlgMgr

`call` holds, for each thread, the call it makes and the next write of it. Each
write of `Allocate_DlgId` (the walk of the ring included), `FreeDlgInfo` and
`UpdateDlgInfo` is an action. `End` stops a process between any two writes;
`DlgMgr::Init` only attaches to a segment that exists, so nothing is repaired
by the next start. `torn` remembers that a process ended in the middle of a
call (`Writing`): after a write of it and before the last one.

`ImplementsPool` is the refinement. While a call is inside, the writes it still
has to make are counted as made (`Pool`), so that a call takes effect in
`DlgPool` at its first write, and every later write is a stutter. It is claimed
until a process ends in the middle of a call; the shared memory is then one
that no sequence of whole calls leaves behind. `NoIdShared` is claimed always.

### TcapHandler

`tx` and `rx` hold what each thread works on. A step of a thread is what it
does between two accesses to state that others share:

* Transmit (`ProcessTxMsgToStack`): take a message; look the record up and
  *copy* it (`TxFound`, `TxNotFound`), or open a transaction for a query
  (`TxOpen`); build the message; then either write the record and send, or, for
  a message that ends the dialogue, block the transaction, send, free the record,
  delete the transaction if the record was freed by this thread. A prearranged
  end goes another way: free, block, delete if the block was set, tell the
  application of a time-out if so configured.
* Receive (`RxMsgFromStack`, `ProcessRxMsgFromStack`): a query allocates an id;
  any other message looks up its dialogue by the transaction's user pointer. What
  follows is a sequence of steps (`Route`): a continuation writes the record,
  unblocks and delivers; an end unblocks, frees, deletes, delivers; a time-out
  delivers first.
* `Age` and `CleanTimedoutDlg` are time passing and the cleaner; `NetSend`
  is the network and the library's timers; `AppQuery` and `AppSend` are the
  application.

What the application is told goes by `Tell`. It either hears (`Hear`), or, with the
fault `tell`, the write finds the queue full at both attempts and the message is
gone (`Miss`): `TxMsgToApplication` reports that and no caller looks. An application that waits for
the end of its query is then `unheard`. `RxDeliver` may also drop a message
that `FillTcapStruct` could not convert (`fill`), after its record was freed and its
transaction deleted. The other faults are those of library calls: a query that
gets no transaction (`refuse`), a message that cannot be built (`build`) or
sent (`send`), a transaction whose ids cannot be had (`ids`). In the last case
a received message is dropped and the transaction deleted, but a time-out
still goes to the application, in the name of the dialogue the transaction
points to, if it can be told.

The code writes to the application once for each component of a message of the
stack; the model writes once for the message. A message is its kind and a
dialogue id, a record its transaction and whether it
is old. Addresses, components, counters and logging are left out, because no
property looks at them.

What is assumed of the library: a transaction that was deleted is never created
again under the same identity, a call on a deleted transaction has no effect and
reports no ids, and a block is held by one thread at a time.

### TcapSsap

`ssap`, `state`, `silent` and `link` are, for each instance, `mSsapPtr`, the
state in `mSaapStatus`, whether `lastActTime` is 15 seconds old, and what the
library reports of the connection; `status` is `gSsapDetails`. `main` is where
the main thread is, with the instance it looks at and the copies it holds:

* At start it creates an SSAP for each instance (`SsapCreate`), allows
  transmission and frees the records of the last process unless
  `RESTORATION_REQUIRED` is set (`HandlerInit`), and starts the threads.
* Then it looks at one instance after the other. A bad look marks the instance
  `EXITING` and clears `gRestoreStatus`, which makes *all* transmit threads
  wait; two more bad looks lead to `SsapReConnect`: delete the SSAP with its
  transactions, make and connect a new one, restore the transactions of the
  records, set `gRestoreStatus`, return the instance to service, call
  `HandleThreads`. A failure on the way leaves things as they are and goes to the
  next instance.
* A receive thread reads from its instance unless that is `EXITING`, and is then
  in the library for up to half a second (`get`) or works on a message.
* A transmit thread looks at `gRestoreStatus`, then reads the queue, where it
  waits for as long as the application says nothing, and then uses the
  transaction of a dialogue or opens one on an instance whose transmit flag is
  set.

Of a dialogue only its instance is kept and whether its transaction was deleted
with an SSAP (`gone`). What is simplified: one local point code and no
configured hosts (the first half of `GetSsapStatus`); choosing an instance is one
step and any instance with the flag may be chosen; a record may be too old to be
restored at any time. Time enters once: a `sleep(1)` of the main thread
outlasts a call that waits 500 ms for the stack and the message in hand
(`Settled`), which is what the code relies on.

### MultiComp

The application writes each component of a message into the queue by itself;
`Give` numbers them by `tcUserId` and marks the last. A transmit thread takes
one (`Take`) and, under the mutex, adds it to the dialogue's collection
(`Collect`): into the place of its `tcUserId`, one more counted, the total taken
from the latest component. The collection is complete when the last component
is there and the total is the count. A last component with no collection is a
message of its own (`GoesAlone`). `Build` takes the collection out again, in
`AddAcuTcapComponet`, some steps later and without the mutex; `BuildFails` is the
library refusing a component, `ReturnsEarly` any of the returns of
`ProcessTxMsgToStack` before it, which leave the collection in the map.

Two history variables say where the properties stop. `overtaken` has the
dialogues two of whose components were in the hands of two threads at once.
If the last component is processed first it goes alone, the others make a
collection that is completed by nobody, and the next message of that dialogue
id finds it. `left` has the dialogues whose collection an early return left
complete: the components of the next message of that dialogue id are counted on top of
it, so that the count is never the total again and the message is swallowed. Both follow from the code as it stands and
are listed as hazards. The properties say that nothing else goes wrong, in
particular nothing between dialogues.

### SccpHandler

`ssap`, `state`, `silent` and `mConnection` are `mSsapPtr`, the state and the
last activity in `mSaapStatus`, and the connection messages are sent on. The two
hosts are one `link`; `seen` is what the last `UpdateSsapStatus` saw of it, on which
`GetSsapStatus` judges (`Healthy`).

* The main thread samples and looks every three seconds; a bad look marks the
  SSAP `EXITING`, deletes it at once, makes a new one and connects it, and calls
  `HandleThreads`, which starts another pair of threads (`StartTx`, `StartRx`).
  `MaxPairs` bounds the pairs, not the reconnections.
* A receive thread reads unless the SSAP is marked. Every thread decodes into
  the one `mSccpInfo` of the handler and then forwards that (`RxUnitData`,
  `RxForwards`). The connection is made from the first event that needs it, and
  not again after the SSAP is replaced.
* A transmit thread takes a message and holds it until a look of its own is good
  (`TxGoesOn`); a bad one marks the SSAP (`TxWaits`).

The code uses a message pointer that was never set when the SSAP is marked,
an SSAP that was deleted under a reader, and a connection of a deleted SSAP. In
the model such a use may end the process (`Crash`) or have no effect.

### SccpCodec

A unit data is the sequence of its bytes. `EncodeSccpUnitData` writes, from the
outside in, the package type, the transaction ids, the dialogue portion, and the
component, each after its length, which takes a second byte above 127: in the
code, by moving what is already written. `DecodeUnitData` reads such a sequence as
the code does: the ids, then for an abort its reason (`DecodeAbort`), for any other
package the two portions (`DecodePortions`).

`Arriving` names what the code changes on the way, so that what is left to claim
is about lengths. Lost are the id that the package does not carry, the
component of an abort, and of an error all of its code but the first byte, and whether it was
private. The application's own abort reason is never written. The one id of an abort
arrives as the sender's. Its dialogue portion arrives as the
reason of a user abort: the encoder writes the portion for every package, and its
tag, 0x6B, is `TCAP_U_ABRT` where the decoder looks for a reason. Any other
dialogue portion is given to the encoder without its tag and arrives with it.

`ReadUnlessMisread` says that a message is decoded to what arrives of it, except
for two kinds, which are always misread (`Misread`):

* `LooksLong`: the length of a result's parameters is written in one byte, so that
  125 bytes of them (129 with the operation code) read as a length in two bytes;
* `LongAbort`: an abort whose dialogue portion is longer than 127 bytes has the length of
  its reason in two bytes, and the decoder takes the first of them, 129, for
  the length and the second for the first byte of the reason. The definition
  leaves out the one portion for which that happens to come out right: 129
  bytes that are all 129.

`AnyMessage` has every message the application may give: parameters and dialogue
portion of any bytes, any operation codes and transaction ids of four bytes
(`Number`), as long as the unit data has at most `MaxUnitData` bytes and, but for an
abort, a component. `Messages` is
the part of it that the runs go through. A number is read and written with at most four
steps (`ValueOf`, `BytesOf`), as the code's loops do, so that no recursion is needed.

## The runs

| Run | Question | Result |
|---|---|---|
| `dlg_pool` | does the ring lose, share or starve an id, refuse too early, miscount, or depart from first in, first out? | no |
| `dlg_sem` | does the semaphore exclude, and does it survive process ends? | yes |
| `dlg_mgr` | do interleaved calls behave as whole calls, and can the end of a process between two writes make an id shared? | yes, unless a process ended in the middle of a call; no |
| `tcap_one_shot` | query and answer, with both sides and a timer ending at once: one deletion each, nothing left over, records and transactions paired, every ended transaction deleted? do these dialogues meet the conditions of the handler's theorems (`Undisturbed`)? | yes |
| `tcap_pool_full` | conversations over one reusable id, ended by the application only, with more queries than ids, while messages to the application may be lost: is an id handed out while in use, is a dropped query's transaction kept? | no |
| `tcap_cleaned` | library failures, lost messages, the cleaner's prearranged ends: do old records go, is the application told of the end of its query? | yes; yes, but the one message that tells it may be lost |
| `tcap_write_back` | can a freed record come back? | yes |
| `tcap_ssap` | do the threads only use SSAPs that exist, is there one pair of threads per instance, do instances and transmission come back? | yes, unless an SSAP cannot be made again |
| `tcap_ssap_waits` | do transmit threads wait during a reconnection, and leave deleted transactions alone? | no |
| `multi_comp` | is each message built of its own components, whole, with nothing left for the next one of the dialogue, and none swallowed? | yes, for dialogues whose components are processed in order and whose collections are taken out |
| `sccp_handler` | are blocked links replaced and quiet ones kept, are held messages sent in the end, and is what is decoded what arrives of the message? | yes, with the escapes below; yes, but for the two misread kinds |
| `sccp_shared` | does a receive thread forward the message it decoded? | no |

Three runs end in a violation, because the code does not do what a comment or a
log text of it says; the text and the behaviour are quoted under `findings`
in `PROJECT.json`:

* **`tcap_write_back`**: the transmit thread writes its copy of a record back
  after the receive thread freed it: the id is both free and in use.
* **`tcap_ssap_waits`**: `gRestoreStatus` is looked at before the read of the
  queue, which blocks. A thread that is already in the read takes one message
  during the reconnection, and uses a transaction that went with the SSAP. The
  same happens to records that were not restored, which keep their pointer.
* **`sccp_shared`**: after a reconnection two receive threads decode into one
  `mSccpInfo`; a thread may forward the other's message, and lose its own.

Two more disagreements are listed as hazards and have no run. A prearranged end
frees the record, fails to get the block, and skips the deletion; the receive
thread that holds the block finds no record to free, and skips it too, so that
the transaction is leaked. And `Lock` that is interrupted by a signal, above.

The end of a process between two writes (`dlg_mgr`) can lose an id: between
zeroing a record and filling its slot the id is nowhere, and no start of a
process looks for it. It cannot make an id shared, which is what the order of
the writes achieves and what `NoIdShared` says.

`ReconnectsInTheEnd` and `TransmissionResumes` are stated with a hole the
code has: when the SSAP cannot be made again, `mSsapPtr` stays null, and
`GetSsapStatus` takes an instance without SSAP for a healthy one, so nobody tries
again and, if transmission was stopped, it stays so until another instance is
reconnected.

`MarkedIsReplaced` has the same hole for the SCCP handler, and another one: a
transmit thread marks the SSAP by a look of its own, and when the link is back
before the main thread looks, nobody replaces the SSAP and nobody takes the mark
away. The receive threads then do not read until the SSAP is silent for thirty
seconds while the link is down, or blocked.

The passing handler runs keep apart what these findings would mix:
`tcap_one_shot` has no continuation and no prearranged end and uses each of
the application's ids once; `tcap_pool_full` lets only the application end
dialogues; `tcap_cleaned` has every failure, of calls, conversions and writes,
but checks only what survives the findings. Its prearranged ends are the
cleaner's, which go the same way as the application's, and of the network there is no
continuation.

### Bounds

* `dlg_pool`: nine records with a shift of one: five application ids, three
  allocated ids and one in neither range. Three slots let the two positions wrap,
  meet when the ring is full and when it is empty, and be apart in either order. Two contents tell a
  written record from the one before.
* `dlg_sem`: two processes, one with three threads and one with two, so that a thread waits for one of
  its own process and for one of another.
* `dlg_mgr`: two processes with one thread each, which goes by the name of its process; a third
  thread could only wait. Six records, three of them allocated ids, so that the ring
  has three slots. `CalledIds` are the ids the callers name: the
  allocated range and one application id. One content: here it
  matters whether a record is in use, and `dlg_pool` tells contents apart.
* The handler: one transmit and one receive thread; two or three
  transactions, each created once; a pool of one or two ids on each side, where a freed id is at once
  the next to be handed out; a queue of one message (`QueueBound`)
  and one waiting message per transaction (`InboundBound`). Longer queues delay
  a message, which the interleavings already do.
* `tcap_ssap`: two instances, so that the main thread is busy with one while the
  other works and fails, and one dialogue id, which is in turn without record, of
  either instance, restored, skipped, too old. The threads of instance 0 get
  messages (`Busy`); those of instance 1 only read and are deleted under their
  feet. Any of the library calls may fail (`Faults`), any number of times.
* `tcap_ssap_waits`: one instance is enough, and no call needs to fail.
* `multi_comp`: two transmit threads, so that one may overtake the other; two dialogues, so that
  one is in order while the other is not; messages of one to three
  components and two messages for each dialogue, so that the second meets what
  the first left; a queue of two components.
* `sccp_handler`: two pairs of threads, the first and one that a reconnection added. For
  the codec, parameters of 0 to 2 bytes and of 98 to 129: each of the four lengths
  in a unit data passes from one byte to two somewhere in the second range. Dialogue
  portions of 2, 127 and 128 bytes, the last too long for an abort's reason. Operation
  codes of one to four bytes (9, 300, 70000, 16777216), transaction ids of one byte
  and of two, every package type and kind of component, and aborts without a
  component: 48 192 messages, all of at most `MaxUnitData` bytes, of which 1 160
  are misread. Parameters and portions are filled with one value, since no step
  looks into them; it is not 129, so that a long abort is always misread.

Deadlock is checked in the pool, semaphore and manager runs. The handler runs
switch it off: each transaction is created once, so the model may come to rest
when all dialogues are over; so do the SSAP runs, where the process exits when
an SSAP cannot be made at start; `multi_comp`, where the application has a bounded
number of messages; and the SCCP runs, where the process may end.

### Fairness

* `DlgSem.Fairness`: strong for `Lock`, because the kernel serves the sleepers
  of a semaphore in order; weak for `UnLock`, because the code between the two
  neither waits nor loops. None for calls and process ends.
* `TcapHandler.Fairness`: weak for each thread's own steps, since they wait for
  nothing once they have a message; strong for `RxGet`, because the library hands
  out messages in order and a blocked transaction only delays its own; weak for
  the passing of time and strong for the cleaner's post, which is tried every
  three seconds and meets a queue that is not always full. None for the
  application and the network.
* `TcapSsap.SsapFairness`: weak for the main thread, which never waits for
  another one, for the receive threads, whose waits are bounded, for a transmit
  thread with a message in hand, and for the passing of time; strong, for each
  instance, for a connection that is tried again and again. None for a transmit
  thread that waits for the application, for the state of the connection, or for
  making an SSAP, which may fail for ever.
* `SccpHandler.Fairness`: weak for the main thread, the receive threads and a
  message that is being sent, which wait for nothing or for half a second; weak
  for the passing of thirty seconds; strong for `TxGoesOn`, because a transmit
  thread looks every second and a sample lasts for three, so that a good sample
  is always seen. None for the state of the link, for the application, or for
  making and connecting the SSAP. `HeldGoesOn` assumes, in its own statement, that
  from some time on the link is not blocked.
* None in `MultiComp`, which has only safety properties.

## The proofs

`DlgPool_proofs` proves, for every pool size, shift and content that satisfy
`PoolAssumption`, the type invariant, `RingShape`, `IdsInRingOrInUse`,
`RefusesOnlyWhenFull`, `HandsOutFreeIdsOnly` and `CountIsExact`.

The inductive invariant is `IInv == TypeOK /\ RingShape /\ IdsInRingOrInUse`. No
conjunct is inductive alone. An allocation keeps the ids partitioned only
because the next slot is filled whenever any is, which `RingShape` says. A free
writes the slot at `lastFreeDlgIdx`, which must be empty or the id in it would
be lost; `RingShape` gives that only if the ring is not full of ids. That it is not, is a
counting argument (`SlotForFreedId`): were all slots filled, the ids in them,
all different, would be all the allocatable ids, by the pigeonhole principle;
then the id being freed is in the ring, so it is not in use, and `FreeDlgInfo`
refuses it. `CountIsExact` needs cardinalities and is proved on top of `IInv`,
step by step.

`DlgSem_proofs` proves the type invariant, `MutualExclusion` and
`TakenHasHolder`, for every set of threads and processes, although processes
end at any moment. The inductive invariant ties a correction of -1 to
the one thread inside.

`RingIsAQueue` is the refinement of `DlgIdQueue`: the free ids, read from
`nextFreeDlgIdx` around the ring, are a queue, from which an allocation takes the
head and to which a free appends. The proof first orders the filled slots
(`FreeSlotsInOrder`): the two positions wrap, and meet both when the ring is full
and when it is empty, so that each step has those cases; `FreeIdsInOrder` then
reads the ids off the slots.

`DlgMgr_proofs` proves `NoIdShared` for the single writes: any pool, any threads
and processes, which end between any two writes. The inductive invariant is
about the id a call has in hand, taken from the ring and not yet in a record, or
zeroed and not yet in the ring: it is in neither place (`InHandIsNowhere`). An
allocation may put it into a record because no slot has it; a free may put it
into a slot because no record is in use under it. Both need that no other thread
is in the middle of a call, which is the invariant of `DlgSem_proofs`, used
by name (`SemProofs!StepKeepsIInv`); and that a caller updates an id only while it
is in use (`UpdatesInUse`), without which the property fails. When a
process ends, the id it had in hand stays nowhere. The counting argument of
`DlgPool_proofs` is not needed: losing an id is not sharing one.

`CallsAreAtomic` is the refinement of `DlgPool` by the single writes, until a
process ends in the middle of a call. A call takes effect at its first write:
`RecordsDone`, `RingDone`, `NextDone`, `LastDone` and `CountDone` are the memory with
the writes that the call inside has still to make. The invariant
(`WholeCalls`) is that of `DlgPool_proofs`, cited by name, for that memory, with the addition that
no allocation walks the ring (`NoWalk`): the code looks for a filled slot from the
next position on, but the next slot is filled whenever any is, so that the first
look always finds it (`NextSlotIsTaken`). After the end of a process in the
middle of a call neither holds, which is what `torn` is for. `NoIdIsLost`
follows: only such an end loses an id.

`TcapHandler_proofs` and `TcapOwners_proofs` are about the handler with any number
of transmit and receive threads, transactions and ids. Their theorems
have hypotheses, because the code relies on things that it does not see to:

* `WrittenInUse`: a record is written only while its dialogue is in use. The code
  writes a copy it made earlier, and `tcap_write_back` shows a record that is
  written after it was freed.
* `Rested`: besides, an id rests before it is given to a new dialogue: no query
  for it waits, no thread works on it, and no transaction points to its record. The
  ring hands out the id that was freed longest ago, and applications do not
  reuse an id at once, but nothing in the code counts.
* `Undisturbed`: besides, nobody gives a transaction up. `NoneGivenUp` names the
  three places where the code does, each a hazard in `PROJECT.json`: an abort for
  a message without a record, which frees whatever dialogue has the id by then, a
  prearranged end that does not get the block, and a query that cannot be built.
* `CallsServe`: no send fails and `GetTransIds` never fails for a transaction that
  exists. When the send of a message that goes on fails, or the ids of a
  received one cannot be had, the code deletes the transaction and leaves the
  record, so that the invariants below do not hold of the code.

They are conditions on the steps the system takes, not on the model's constants, apart from
the last; `tcap_one_shot` checks that all behaviours of its dialogues, in which
both ends and a timer race, meet `Undisturbed`, so that they are met by more than
idle systems.

From `WrittenInUse` alone follow the types (`HTypes`), that the handler is a
caller that keeps to the pool's protocol (`HandlerUsesThePool`: its behaviours
satisfy the specification of `DlgPool`), and with the theorem about that
specification `IdsInRingOrInUse`.

From `Rested` follow `RecordsHaveTheirTrans` and `DeletedOnce`. The invariant is
`Belongs`, of three parts, none of which is inductive without the others:

* `AllFit`: records, user pointers and transactions agree (`PoolFits`), and what
  each thread has in hand agrees with them at the step it has come to (`TxFits`,
  `RxFits`). A thread that found a record and was then overtaken by the other end
  holds a dialogue that is gone; what it may still rely on is that no other
  dialogue took its place (`SameDialogue`), which is where resting ids come in.
* `Alone`: one thread alone holds the block of a transaction, has freed its
  record and will delete it, or is opening it. Who frees the record is decided by
  the return value of `FreeDlgInfo`, and a transaction that is finished has no
  record any more that another thread could free.
* `Queries`: the id of a query that waits or is being opened is nobody else's.
  Otherwise the map of one query would overwrite the record of another.

`view` holds what the threads' parts depend on, and five lemmas (`BlockedChanges`, `RecordFreed`,
`TransDeleted`, `TransBorn`, `RecordWritten`) say how it may change without
disturbing a thread at its work, so that each step is proved for the thread
that makes it, and the others follow.

From `Undisturbed` follows `NoOrphanTrans`. Its invariant is `AllKept`: a transaction
that exists is named by a record, or in the hands of a thread that will map it or
delete it.

For one kind of traffic the handler sees to most of this itself. `QueryAnswer` says
which: dialogues of one query and one answer or abort, no cleaner and no failure
but refused queries and messages to the application that are lost or cannot be
converted, which `tcap_one_shot` has but for the last two; threads, transactions and pool are any. Then
`Rested` follows from `IdsRest` alone (`AnswersAreWrittenInUse`): who maps a
record finds it in use. The invariant is `Answered`, and its core `MapsItsOwn`: from
the moment a receive thread has allocated a record until it maps it, no transmit thread has
a message for the dialogue beyond its first look, since the application does not
know of the dialogue yet, and the id rested before. With one transmit thread
(`OneTransmitter`: the program starts one for each instance that is connected, so this is a
configuration with a single connected instance) `Undisturbed` follows too
(`AnswersAreUndisturbed`), hence `NoOrphanTrans` (`AnswersLeakNothing`): a message
that found no record finds none when it frees one, for no other thread can have
mapped one in between. With a second transmit thread one can. `IdsRest` stays a
hypothesis: how long the ring lets an id rest depends on how many others are free.

`MultiComp_proofs` proves the type invariant, `SentWhole`, `NothingLeftOver` and
`NothingSwallowed`, for any number of threads, dialogues and components. The
invariant says that the components of a dialogue are one unbroken `Stream`: what was sent or
given up ends where the collection starts, that ends where the thread that has a
component of the dialogue goes on, that where the queue goes on, and the queue
ends where the application is. A place in the stream is a `Point`: so many
messages and so many components of the next. It is claimed
while the components of the dialogue are in the hands of one thread at a time (`InOrder`) and
no early return left a collection; without either it fails, as described above.
That it holds for one dialogue whatever happens to the others is what the lemma
`OtherKept` is for.

`TcapSsap_proofs` proves the type invariant, `RxUsesLiveSsap`,
`TransmittersHaveSsap` and `OnePairOfThreads` for any number of instances and
dialogues and whatever fails, with restoration or without. The inductive invariant adds what the main
thread knows at the place it has come to (`MainKnows`): from the bad look to
the end of the reconnection the instance is marked; when it is deleted its
receive thread is not in the library, which is the timing assumption
(`Settled`); and only a new SSAP gets it back into service. `ThreadsDue` says
which instances still have the status that `HandleThreads` looks for: none
once the supervision has begun, in `gSsapDetails` and in the main thread's copy
of it. `MissingIsMarked` says that an instance without an SSAP is marked, so that
no receive thread starts to read from it.

`SccpHandler_proofs` proves the type invariant, `MarkedWhileReplaced` and
`QuietLinkStays`, for any number of pairs of threads. The type invariant needs that the pairs are
started in order (`PairsComplete`); the action property needs that between the
bad look and the deletion the sample is still the bad one (`Judged`).

The same module proves that the codec is right for `AnyMessage`, which is
infinite but for `MaxUnitData`, and has no bound in the proof
(`EveryMessageRead`): a message is decoded to what arrives of it if and only if it is
neither a result that looks long nor a long abort. That is not an induction over the bytes: the
code copies parameters as one block, so the proof needs only that what follows a part is
found behind it (`Behind`, `Between`), that a length is read for the part it was
written for, in one byte or in two (`LengthRead`), and that four bytes hold a
number (`BytesRead`, `ShortestEnough`). Then it follows the nesting: the body of
each kind of component (`InvokeRead`, `ResultRead`, `ErrorRead`, `RejectRead`),
the ids and lengths around it (`AroundBody`), the transaction ids, the dialogue
portion (`PortionsRead`), the reason of an abort (`ReasonRead`, `AbortRead`), the
whole (`UnitDataRead`). The first wrong case is in
`ResultRead`: a result that looks long loses a byte of its operation code, the
next byte is no operation code's tag (it is the length, at most 4), and the rest is taken for
parameters, which are then too long to be the ones that were sent. The other is in
`ReasonRead`: 129 bytes beginning with a length are the portion only if it has
129 bytes, each equal to the one before. `Messages`
are members of `AnyMessage` under `CodecAssumption`, hence `ReadsWhatArrives`
(`WhatArrivesIsRead`). The theorem is about what arrives, not about what was
sent: what the code loses on the way is in `Arriving`.

The assumptions on the constants are the named ones: `PoolAssumption`,
`ThreadAssumption`, `CallersAssumption`, `HandlerAssumption`,
`MultiCompAssumption`, `SsapAssumption`, `SccpAssumption` and `CodecAssumption`. TLC evaluates each
in the runs. Every inductive invariant was checked with TLC before it was proved.

Only model-checked:

* liveness under fairness (`CallsReturn`, `OldRecordsGo`, `QueriesEnd`,
  `EndedTransIsDeleted`, `ReconnectsInTheEnd`, `TransmissionResumes`,
  `BlockedLinkGoes`, `MarkedIsReplaced`, `HeldGoesOn`), which is beyond the
  prover;
* the handler beyond the hypotheses of its theorems, where the runs say what
  survives. Even `HandlerTypeOK` cannot do without `WrittenInUse`: a record
  that is written after it was freed counts as in use again, and its second free takes the
  count below what is allocated, from zero it wraps, and the id may go to a slot of the ring
  that holds another.

## Not modelled

* The vendored library under `ACULAB_4-0/`, beyond the assumptions above. It is
  most of the lines in this repository (its Prosody and TiNG parts have nothing to
  do with signalling), so that the models cover a small share of all lines.
  `include/TcapAculabApi.cc` is an older copy of `tcap/src/TcapAculabApi.cc`.
* Logging, counters, the traffic report, the licence tool and the test tools: they
  hold no state that another part reads. The layout of TCAP components, which the
  library encodes; and SCCP addresses.
* In the handler: the several writes of one message with several components,
  `NOTICE`, the
  time-outs of one special subsystem that only unblocks
  (`Handler.cc:2424-2437`) and the send-rate throttle, which sleeps with the
  global mutex held.
* In the supervision: configured hosts (the second half of `GetSsapStatus`), the
  copies of `SsapDetails` the transmit threads write back, and several
  point codes. With `RESTORATION_REQUIRED` set, which the shipped configuration
  does not, `TransmissionResumes` fails from the start: nothing sets
  `gRestoreStatus` until an instance is reconnected.
* In the SCCP handler: the alternation between two destinations, whose
  status flags are read before they are set; `mTransmitFlag`, which is written and
  never read; dialogue portions of indefinite length; tags that only differ in a
  permission or in not being the last; and unit data whose decoding
  reads past its end: results without parameters, and messages other than aborts
  that have no component.
* Configuration reload, which replaces time limits and adds instances.

## The plan

1. `TcapSsap`: the supervision of two configured hosts, whose flags are set and
   never cleared; the transmit threads' unlocked copy of `SsapDetails`, which may
   undo a status the main thread wrote; the addition of instances by a reload.
2. `TcapHandler`: a ghost number for each dialogue, so that reused ids, two transmit
   and two receive threads can be told apart; runs for the order in which the application
   hears of ends, for stale frees and for the transactions that leak when a message cannot be built;
   one write for each component; `NOTICE`.
3. Proofs: the handler's theorems from weaker hypotheses. With a number for each
   dialogue, `Rested` could be asked only of ids whose last dialogue is still in
   some thread's hands; with the failed send, the records that keep a deleted
   transaction could be named as the exceptions they are.
