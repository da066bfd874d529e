# cppfastdevelop in TLA+

Models, model-checking runs and machine-checked proofs for cppfastdevelop, a
C++ library for servers on Linux: a foundation (threads, locks, condition
variables, sockets, epoll, shared memory, concurrent containers) and, on top of
it, libraries (a circular queue in shared memory, a network server, a log).

`PROJECT.json` lists the runs, the source lines every definition stands for,
the hazards, the findings and the theorems. This file explains them.

## 1. The system

In the table, "cf" is `src/cppfoundation` and "cl" is `src/cpplibrary`.

| component | state it keeps | operations | what makes it correct |
|---|---|---|---|
| circular queue, bytes (`cl_queue_operation.cpp`) | `headIndex`, `tailIndex`, `qLeftSize`, `elementCount` and the bytes of a segment | `write`, `read` | what is read is what was written, in order, whatever the sizes and wherever an element crosses the end of the segment |
| circular queue, calls (`cl_circular_queue.cpp`) | one mutex and one condition variable shared by processes | `Put`, `TryPut`, `TimedPut`, `Get`, `TryGet`, `TimedGet`, `StopPut`, `StopPutAndGet` | `write` and `read` are called only when they may be, calls return, nobody misses a wake-up |
| queue in POSIX shared memory (`cl_posixshm_circular_queue.hpp`) | a named segment | create, attach, destroy | nobody uses a segment that is not ready, has two mutexes, or is shorter than what is mapped |
| condition variables (`cf_condition.cpp`) | the sleepers | `Wait`, timed `Wait`, `Signal`, `Broadcast` | a sleeper gives the mutex up and takes it again |
| in-process queues (`cf_concurrency_queue.hpp`) | a `std::queue`, two stop flags, `_waitCount`, a set | `Get`, `Put`, `StopPut`, `StopPutAndGet`, `Find` | first in first out, no element waits for a sleeper, the set agrees with the queue |
| notify set (`cf_concurrency_set.hpp`) | a `std::set`, two stop flags, `_waitCount` | `Insert`, `Erase`, `Clear`, `Pop`, `TryPop`, stop calls | nothing is taken from an empty set, nobody sleeps beside an element |
| set and map (`cf_concurrency_set.hpp`, `cf_concurrency_map.hpp`) | a container under a read-write lock | look-ups, `Insert`, `OnlyInsert`, `Erase`, `Pop`, `Clear` | each of them is atomic, also those that look first and act on what they found |
| mutexes, read-write and file locks, semaphores (`cf_lock.cpp`, `cf_lock_guard.hpp`) | locks of the kernel | lock, try, unlock, open, close, unlink | exclusion; places of a semaphore are not lost or made |
| shared memory, message queues, files (`cf_ipc.cpp`) | objects of the kernel, found by name or key | construct, send, receive, attach, detach, remove, destroy | memory in use is there, messages are received once and in their order, what is removed is freed |
| sockets (`cf_network.cpp`) | a spare descriptor | connect, accept, send and receive segments, pass descriptors | a segment is moved whole and in order, or the call says how much of it |
| network server (`cl_event_handler.cpp`, `cl_server.hpp`) | sessions, connection count, listeners | `OnAccept`, `OnRead`, `OnWrite`, `OnClose`, `OnError`, `OnTimeout`, `AsyncRead`, `AsyncWrite`, `AsyncClose` | bytes delivered and sent in order, the connection limit, buffers neither lost nor shared |
| connection buffers (`cl_buffer.cpp`) | pools of read and write buffers | get, release, append, consume | a buffer is in one place |
| event demultiplexer and loop (`cf_epoll.cpp`, `cf_event_loop.hpp`) | what is registered, the last batch of events | `AddConn`, `DelConn`, `AddEvent`, `DelEvent`, `WaitEvent`, `Stop` | registered events are those the sessions need |
| threads and pools (`cf_thread.cpp`) | a status, a vector of threads | `Start`, `Join`, `Detach` | `Join` comes after all that the threads do |
| logs (`cl_log.hpp`, `cl_log_cache.cpp`) | a buffer, cached lines, the file | write a line, `Flush` | each line is whole, in order and written once |
| algorithms (`cf_binary_search.hpp`) | none | four binary searches | the place found is the one specified |

The rest of the repository (one-call wrappers, value classes, the redis client,
empty directories) keeps no state over several calls. `PROJECT.json` lists it
with the reason it is left out.

How they interact. Processes share a circular queue's segment: the mutex and the
condition variable are in it. `TimedPut` and `TimedGet` take the mutex, test,
wait on the condition variable until the test fails, call `write` or `read`,
release the mutex, and only then signal one sleeper. Threads of one process
share a `RawQueue` or a `RawNotifySet` by its mutex, but its stop calls do not
take it. Processes find memory, queues and semaphores by a name that others may
take away at any moment. The network server is one thread: the loop takes a batch
of events from epoll and calls a handler for each, the handler calls the
application's callbacks, and these call the server's `Async` operations, which
change what the rest of the batch finds.

What is hard to test: the relative positions of the ring's two indices; the
order of steps around mutexes and signals; kills, signals and expired waits in
the middle of calls; names taken away from those that use them; transfers cut
anywhere; events of one batch that refer to a session an earlier one ended.

## 2. The modules

| module | models | uses |
|---|---|---|
| `BoundedFifo` | the abstract queue: sequences of bytes limited by a capacity | |
| `ElementOp` | `QMetaOp` and `ElementOp` of `cl_queue_operation.cpp`, byte by byte | implements `BoundedFifo` |
| `CircularQueue` | `cl_circular_queue.cpp` with `RawPthreadMutex` and `RawPthreadCondition` | extends `ElementOp`, implements `BoundedFifo` |
| `RawQueue` | `RawQueue` and `RawFastFindQueue` | |
| `NotifySet` | `RawNotifySet` | |
| `AtomicMap` | the abstract map: every operation acts at one instant | |
| `GuardedMap` | `RawMap` and `RawSet` with their read-write lock | implements `AtomicMap` |
| `Locks` | the lock classes of `cf_lock.hpp`, `LockGuard` and `LockGuardUnlock` | |
| `ShmQueue` | `PosixShmCircularQueue`: `PosixShM`'s and `QMetaOp`'s constructors and destructors | |
| `MsgQueues` | `PosixMsgQ` and `SysVMsgQ` | |
| `FdPipe` | `SocketpairPipe`, `SendFds`, `RecvFds` | |
| `Segments` | `SysVShM` and `MemMappedFile` | |
| `Sockets` | `Socket`, `CreateServerSocket`, `ConnectToServer`, `AcceptAsync`, `SendSegmentSync`, `RecvSegmentSync` | |
| `Demux` | `Epoll` of `cf_epoll.cpp`: the table of registrations, and events made of what epoll reports | |
| `EventServer` | `EventHandler` of `cl_event_handler.cpp`, its buffers and pools, and the loop of `cf_event_loop.hpp` | extends `Demux` |
| `Logs` | `Thread`, `ThreadPool`, `LogNonCache`, `LogCache` | |
| `CircularQueueProofs` | the theorems about `ElementOp` and `CircularQueue` | extends `CircularQueue` |
| `RawQueueProofs`, `NotifySetProofs`, `GuardedMapProofs` | those about the module of that name | extends it |
| `LocksProofs` | those about `Locks` and `Logs` | extends both |
| `IpcProofs` | those about `ShmQueue`, `MsgQueues`, `FdPipe`, `Segments` and `Sockets` | extends the five |
| `EventServerProofs`, `EventServerOrder` | those about `EventServer`: sessions and buffers, and the order of bytes | the first extends `EventServer`, the second the first |
| `MC...` | small instances for TLC; `MCIpc` puts `ShmQueue`, `MsgQueues`, `FdPipe` and `Segments` side by side | |

Several modules end in definitions called "Seeded fault": plausible mistakes,
part of no specification, which show that the properties notice them
(`PROJECT.json`, "mutants").

### ElementOp

A segment is a function from `0 .. Total - 1` to bytes. An element is a header
of `HeaderSize` bytes, which carries the length of the body, and the body. The
state is the code's: `headIndex` is where the next element is written,
`tailIndex` where the oldest starts, `qLeftSize` the bytes left,
`elementCount` the elements. `QueueScene` and `QueueWriteCase` choose among the
five routes of `write` as the functions of the same names do; the `Store...` and
`Take...` operators are the routes, the `Can...` operators the conditions of the
code under which a route does not throw. `write` stores the route it chose in
the header (`StoredCase`) and `read` follows it. `fifo` is a history variable:
what a reader should find.

The counters of the code are 64-bit and unsigned. The model's are integers, and
`RingTypeOK` shows that they stay between 0 and `Total`, so no width matters.

### CircularQueue

`pc` says where a thread is in its call. The steps are those that other threads
can tell apart: entering, taking the mutex, one whole stay inside it, sleeping
(which releases the mutex in the same step), being woken, signalling. A stay
inside the mutex that ends in `write` or `read` is `PutElement` or `GetElement`
and contains the whole of `ElementOp`'s `Write` or `Read`. `Signal` is a
separate step because the code releases the mutex before it. The timeouts are
those the code tells apart: negative (for ever), zero (never wait), positive.
`Expire` may happen at any moment: the code passes the timeout itself as the
absolute time. `GiveUp` is the test of the time used, which may go either way.
`Expired` ends in either exception, because the code looks for `ETIMEDOUT` in
`errno` and `pthread_cond_timedwait` does not set it.

`Crash` kills a thread in the middle of a call. The mutex is not robust, so what
it held stays held. `write` and `read` are atomic here; a process killed inside
them leaves a half-written state that nobody can look at, for the same reason.

The branches for `Q_STOP_PUT` and `Q_STOP_PUT_AND_GET` are left out: nobody sets
that status (section 5).

### RawQueue and NotifySet

The steps inside the mutex are kept apart (`GetTest`, `GetWait`, `GetCheck`,
`GetNothing`, `GetElement`, `PutTest`, `PutElement`; in the set `PopMustWait`,
`PopTest`, `Sleep`, `PopTake`), because the stop calls change the flags without
it and fall between any two of them. `FastFind` chooses `RawFastFindQueue`, whose
set can throw for an element that was put twice. `TryGet` is left out: it names
an undeclared exception class. `IsEmpty`, `Size` and `Find` change nothing; in
`RawNotifySet` they do not compile.

The constructor of `RawNotifySet` leaves `_waitCount` unset. `NotifySet` starts
from any value of `Garbage` and keeps it in `born`: what is promised is promised
if it was not negative. With a negative one `Insert` brings the count to 0
through sleepers it does not signal, and `Pop` may sleep beside an element.

### GuardedMap

A call takes the lock, looks (`LookUp`: find, begin, size), and then acts on what
it found and unlocks, by return or by exception. Values are numbered objects, so
that it can be told which insertion a `Find` answers with. `AtomicMap` has two
steps per call, its beginning and its one effect; the refinement maps the state
by name, and the effect is the last step of the code. `Insert` into a key that is
there changes nothing, though the comment above it says "Insert or update."
(`cf_concurrency_map.hpp:114`; section 5). Erasing a range is left out, because its iterators
outlive the lock.

### Locks

`kind` is the class under test, chosen at the start. A semaphore has a history of
its own: `Open` makes one when the name stands for none, `Unlink` takes the name
away while others have it open, `LockInterrupted` returns from `sem_wait` without
a place, because `Lock` ignores what `sem_wait` returns, and `Kill` ends a user
anywhere. `RawFileRWMutex` always throws: `cf_fcntl` passes the address of its
`va_list` on as the lock request, and `fcntl` refuses it with `EINVAL`.

### ShmQueue, MsgQueues, FdPipe, Segments

These model what several processes do to objects they find by name, one step per
system call. In `ShmQueue` a creator opens, truncates, maps, clears and fills the
segment, or throws and unlinks the name; a user only opens and maps. The
histories `early`, `rebuilt` and `shrunk` name what the code does nothing against
(a user that comes before the segment is ready, a second creator, a smaller
`memSize`): the properties say that nothing else goes wrong.

`MsgQueues` has both kinds of queues. A receiver that finds nothing sleeps and may
be handed a message by a sender directly. `removed` and `key` tell a System V queue
that is gone from a POSIX queue that has lost its name.

In `FdPipe` both sides make their control buffer in one of three sizes (`Room`): for
one descriptor, for `SumSmall` or for `SumMax`. `SendFds` leaves zeros behind its
descriptors, which `sendmsg` refuses if there is room for another header in them
(`Refused`); it may fail for other reasons, too, and then nothing is under way. The
buffer `RecvFds` gives to `recvmsg` has room for what it asks for, and perhaps for more
(`Fitting`), but the receiver may have no places left; `Told` is the comparison of
`cmsg_len` with what was asked for. `due` remembers that a call asked for as many as were
sent and had places for them. A rest of data that a small buffer left is a message
without descriptors, and `recvmsg` goes on from it into the message behind.

`Segments`
models the flags of `SysVShM`, and the four steps of `MemMappedFile`, which opens,
asks for the length, sets it and maps; it throws unless its descriptor is 0, as
the code does.

### Sockets

`SendStep` and `RecvStep` are the loops of `SendSegmentSync` and
`RecvSegmentSync`: wait until the time is up, move any part of what was asked for,
count. The time left after a piece is any number, because the code computes it from
`seconds*1000 + useconds%1000`, which can go backwards. Callers repeat a call that
returned false with the rest of their buffer. `AcceptAsync` keeps a spare
descriptor, `nullfd`, and closes it to accept and drop a connection when there is
no other; another thread may take the descriptor in between (`others`). A signal
that ends `poll` makes the call throw (`SendInterrupted`, `RecvInterrupted`).

### Demux and EventServer

`Demux` is operators on one table, `interest`, which `EventServer` keeps as a
variable; each of them is an operation of `Epoll`. `Classified` turns what epoll
reports for one descriptor into events, in the code's order (read, write, close;
an error alone).

`EventServer` has one thread and everybody else. `WaitEvent` takes a batch, or throws out
of the loop because a signal ended `epoll_wait` (`Interrupt`); one
action handles each event: `OnAccept`, `OnRead`, `OnWrite`, `OnCloseOrError`. A
handler runs in one step up to its first callback and leaves a frame on `stack`;
`AcceptReturns`, `ReadReturns`, `WriteReturns` and `EndReturns` are what it does
when a callback returns, up to the next one. Between them the application calls
`AsyncRead`, `AsyncWrite`, `AsyncClose` or `Stop`, in any callback and for any
session it knows; `AsyncClose` calls `OnCloseComplete` in turn, so frames nest.
Peers connect, send, finish and reset between any two steps, and another process
may take a connection that was waiting (`AcceptedElsewhere`).

Bytes of a connection are numbered, so that a lost, repeated or reordered one
shows. Connections are numbered, too; descriptors are reused, lowest first. A
buffer has an identity, the free list no order. `currentconns` counts modulo
`CounterMod` as an unsigned integer does. `OnRead` and `OnWrite` on an empty chain
take the iterator before the first element of an empty `std::list`; with the
compiler's library that is the end again and the handler does nothing, which is
how it is modelled. An exception ends the loop and the state after it is not
looked at (`Throw`).

### Logs

`LogNonCache` builds a line in one buffer of the log, in two pieces, under the
mutex; level and line are chosen before it. `ThreadPool` starts its threads one
after the other, any `pthread_create` may fail, and `Join` waits for each.
`LogCache` writes its lines one by one from `Flush`, the destructor or a full
cache; `Fork` copies the cache, and either process may be killed between two lines.

A write brings the whole line to the file, a piece of it, or nothing (`Outcome`).
`LogNonCache` returns what write returned, and `said` keeps it for each call. `Flush` of
`LogCache` does not look at it, and sets `_currentLoop` to 0 all the same: `tried` is what was
given to write and `written` what is in the file, so a line whose write failed or was
short is lost and nobody is told. The properties say exactly that, and that no other
line is lost but the last ones of a process that is killed.

## 3. The runs

| run | instance | shows |
|---|---|---|
| `QueuePair` | 1 putter, 1 getter, 9 bytes, headers of 3, bodies of 1, 2, 3 and 6 bytes | the byte ring is sound and implements `BoundedFifo`; every call returns |
| `QueueFaults` | 1 putter, 1 getter, 1 stopper, all timeouts, 1 kill, bodies of 0, 1, 2 bytes and one too long | mutex and condition variable stay consistent; no missed wake-up while nobody is killed |
| `QueueContention` | 2 putters, 2 getters, 12 bytes (3 elements), bodies of 1 and 2 bytes | the ring's contract, and the four never all sleep |
| `RawQueueSafety` | `RawFastFindQueue`, 2 getters, 1 putter, 1 stopper, 3 puts, spurious wake-ups | order, no empty front, counted sleepers, a set that does not lie; every element is taken |
| `NotifySet` | 2 poppers, 1 inserter, 1 stopper, 2 elements, 2 insertions, `_waitCount` born as -1, 0 or 1 | nothing taken from an empty set; nobody sleeps beside an element |
| `GuardedMap` | 2 threads, 2 keys, 2 objects, either container | each operation is atomic and returns |
| `Locks` | 3 users of each class, 1 interrupted wait, 1 kill, 1 unlink | exclusion, places conserved, `Lock` returns |
| `Ipc` | 2 creators and 1 user of a queue with 1 kill and 2 sizes; 2 processes, 2 queues, 2 messages, 2 priorities or types; arrays of up to 6 descriptors, control buffers for 1, 4 and 5, a receiver that may open 5, and 2 calls of `SendFds`; 2 processes with segments or a file of 2 sizes | ready queues, memory that is there, messages once and in order, descriptors told of when as many are asked for as were sent, segments freed |
| `Sockets` | 2 connections, one of them with 2 bytes over a wire that holds 1, blocking or not, `segsize` 1 or none; 2 descriptors, up to 2 of which others use | true counts, one stream, the spare descriptor, calls end |
| `Logs` | 2 threads with 2 lines each and 2 levels; 2 processes with 3 lines each and a cache of 2; every write whole, short or failed | lines from one call that returned so, `Join` after the last, bounded loss |
| `ServerSessions` | 1 listener with a limit of 1, 2 connections, 2 bytes from peers, 3 calls of the application, reads of 1 and 2 bytes, writes of 2, 1 reset, pools that start with 1 buffer | streams in order, each buffer in one place, registrations match what waits, sessions counted, listener re-armed |
| `ServerClose` | the same without resets | finding: a session closed in its own callback still has an event in the batch, whose `ValueError` ends the loop |

### Bounds

The routes of `write` and `read` depend on how far an index is from the end of
the segment, compared with the header and the body: with 9 bytes and headers of
3 every route is taken, at every distance. The calls distinguish only "it fits",
"it does not fit now" and "it never fits", and small rings have elements of each
kind. `MaxPut` (elements put), `MaxInsert` and `MaxWait` (the value of `_waitCount`
up to which spurious wake-ups and stop calls begin) make `RawQueue` and `NotifySet`
finite; three elements let both getters be busy while a third is put.

Two threads are enough for `GuardedMap`, because a violation of atomicity needs one
operation that looks and acts and one that comes between; two keys are needed
for a first element that is not the one asked for. Three users of a lock let two
readers be inside with a writer before it. In `Ipc` a second object, queue or
segment under the same name is what makes a stale handle visible, and one kill
reaches every place between two system calls; the four modules share no state, so
a behaviour uses one of them (`shares`). Arrays of 6 are longer than every control
buffer, those of 2 leave room for another header, and those of 4 and 5 fill the buffers; two of them do
not fit into 5 places, so the receiver runs out in the middle of the second.

In `Sockets` a wire of 1 byte under a buffer of 2 cuts every transfer, and two
descriptors for two connections and the spare one run out. In `Logs` `MaxLoop` is 2 of 3
lines, so that a cache is filled and written on the way and at the end.

In `ServerSessions` two connections wait for a listener with a limit of one, so
the limit is passed, and the second can get the descriptor of the first. Two
bytes and reads of one and two give reads that complete in one or two steps and
two reads that complete in one `OnRead`; a write of two may be cut; three calls
allow two operations and a close. `CounterMod` is 4, more than the connections, so
that a count below 0 is seen. `MaxMade`, `MaxSent`, `MaxCalls` and `MaxReset` make
the model finite.

`NeverAllAsleep` has a threshold, found with TLC: producers and consumers sleep
on one condition variable and one `Signal` wakes one of them, of either kind.
Two producers and two consumers never all sleep on a ring with room for three
elements; with room for two they can, as two producers and one consumer can with
room for one. The larger instance is the one that is checked: the guarantee
needs threads <= elements + 1.

Deadlock is checked except where the system really stops: a killed owner stops
everybody (`QueueFaults`, `Locks`), and processes and calls come to an end
(`Ipc`, `Sockets`, `Logs`). A server whose loop has ended is not a deadlock (`Ended`).

### Fairness

* `CircularQueue!FairSpec`: a thread that can go on goes on (weak fairness of its
  own steps), which is what the scheduler gives; putters and getters call again
  and again, as the loops of `test_queue_put.cpp` and `test_queue_get.cpp` do; and
  spurious wake-ups end. Weak fairness of taking the mutex is enough because only
  two threads compete.
* `RawQueue!FairSpec` is the same without assumptions on spurious wake-ups, which
  its bound limits, and only getters keep calling.
* `NotifySet`, `GuardedMap` and `Locks` add strong fairness of taking the lock: a
  thread at a free mutex does not lose it to others every time. POSIX does not
  promise this and the default mutex of glibc does not enforce it; with a scheduler
  that gives every thread its turn it is what happens. It does not help a writer
  that finds readers every time, and the lock prefers readers: `CallsReturn` and
  `LockReturns` therefore say nothing of a writer among readers that overlap for ever.
* `MsgFair` and `Sockets!FairSpec`: a call that has begun and can go on does; time
  passes; `accept` is called while connections wait, because the event loop is
  level-triggered. Peers and callers owe nothing.

The server has no temporal property. What its liveness rests on is
`InterestMatches`, an invariant: with level-triggered events a session that has
something to read or to write, and is registered for it, is served by the next
batches, and one that is registered for nothing it needs would hang.

## 4. The proofs

All theorems hold for every value of the constants that satisfies the named
assumption of its module: any segment, header and message sizes, any number of
threads, users, keys, processes, connections and kills. The assumptions say that
sizes and bounds are naturals and that sets are disjoint or finite where they have to
be. Four say more. `LogsAssumption` wants a cache of at least one line, and
`PipeAssumption` that "none" is no file. `SocketsAssumption` wants `MaxOther` in
`0 .. MaxFd`: the other threads of a process cannot have more descriptors than the
process may. `ServerAssumption` wants no more connections than descriptors, which an
operating system sees to (`accept` fails), and fewer than the unsigned count of a
listener can tell apart, which a process with fewer than 2^32 descriptors cannot exceed.

`CircularQueueProofs`, first part: `ElementOp`.
* `RingSafe`: `RingTypeOK`, `Accounted`, `Intact` and `NeverCorrupt` always hold.
* `RingIsFifo`: the ring implements `BoundedFifo`.

The invariant is that the unread elements lie one after the other, modulo
`Total`, from `tailIndex` to `headIndex`, each with the route that belongs to its
position, and that `qLeftSize` is what they leave. `Accounted` and `Intact` say
exactly this and together are inductive; `NeverCorrupt` follows because a
route's conditions hold where the route was chosen. Each route has a lemma of its
own for `write` and for `read`.

`CircularQueueProofs`, second part: `CircularQueue`.
* `QueueThreads`: `ThreadsOK`. `QueueRespectsRing`: every step that touches the ring is a
  step of `ElementOp`. `QueueIsFifo` follows from it and from `RingIsFifo`.
* `PairNoMissedWakeup` and `PairNeverAllAsleep` for one producer and one consumer, as
  long as nobody was killed. Neither is inductive alone: the second needs the
  first, and the first needs to know that an empty ring has room for the putter's
  element (it is not `TooBig`), which comes from the ring's invariant. They end at
  the first kill, so the theorem is proved for behaviours up to it (`DeadStayDead`).

`RawQueueProofs`.
* `QueueSafe` (`QueueTypeOK`, `FrontExists`, `DrainedIsFinal`), by an invariant that adds
  that a putter past its test had `stopToPut` false or holds the mutex, so that nobody
  can have been told that the queue is drained in the meantime.
* `WaitersCounted` (`SleepersCounted`): `_waitCount` is at least the number of getters
  asleep or parking. One finite set loses or gains one member at each step that
  changes the count.
* `GetsFollowPuts` (`InOrder`) and `FindNeverLies` (`FindSound`).

`NotifySetProofs`.
* `SetSafe` (`SetOK`): a thread past its test is the owner of the mutex, so nobody
  empties the set before it takes the first element.
* `SleepersKnown` (`WaitersCounted`): when `Insert` signals, the owner is itself, so
  nobody is between counting itself and sleeping; it lowers the count by one and
  wakes one if there is one. The other ways out of a wait only take sleepers away.

`GuardedMapProofs`.
* `MapSafe` (`MapOK`): whoever changes the store is alone, so what another call found is
  still so when that call acts.
* `MapIsAtomic` (`ActsAtomically`): the refinement. `PopFirst` erases by the iterator,
  which the model tells by the object found: the invariant adds that no object is
  under two keys (`OneEach`). The least key exists by well-founded induction.

`LocksProofs`.
* `LocksKeepPlaces` (`LocksOK`) and `LocksExclude` (`MutualExclusion`). For the locks of one
  process exclusion is inductive. For a semaphore it follows from counting: its
  value and its holders, killed ones included, add up to the place it was made
  with and the places interrupted waits added (`Counted`), so that two holders need an
  interrupted wait.

`LocksProofs`, second part: `Logs`.
* `LogsCorrect` (`LogsOK`), `LinesAreWhole` (`LinesWhole`), `JoinIsLast` (`JoinSeesAll`). The
  invariant has a part for each of the two logs. For `LogNonCache`: the thread in the
  buffer is the mutex's owner (`BufferInv`), and a thread's lines in the file, counted
  with the one it is logging, are those it decided on; its n-th line in the file is
  the n-th it decided on (`FileInv`). `StartInv` knows which threads run: the first
  ones, all of them once `Start` has returned, and none after `Join`. For `LogCache`, for each
  process (`CacheAt`): what it gave to write and what its cache still holds behind the
  place where `Flush` is, one after the other, are the lines it inherited and then its own.
  A full cache is being flushed, so there is always a place for the next line. The k-th
  write that came through is the k-th line of the file (`ComesThrough`, `Rank`), which needs
  the writes that did not fail counted; a call's result is the one its line has
  in the file (`FileAt`).

`IpcProofs`.
* `ShmQueue`: `QueueMadeOnce` (`ShmOK`) and `MemoryIsThere` (`MemoryThere`). The invariant
  follows a creator between `memset` and the end of its constructor: an object nobody
  came to early, and that no second creator cleared, is used by nobody else, so the
  mutex made new takes nobody's place. What a process maps is within its object, or the
  object is one of `shrunk`.
* `MsgQueues`: `MessagesKept` (`QueuesOK`) and `FirstTaken` (`TakesTheFirst`). That a message is
  received at most once is not inductive: it needs to know that no message is twice
  in the queues. `ContentInv` gives it: the number of a message leads to its queue and
  urgency in the history of what was sent, and a queue is in its order, strictly by urgency
  and number, so two places have two messages. What is received is then no longer in any
  queue (`TakenInv`), and what is neither received nor in its queue was sent to one that
  has lost its key (`KeptInv`). `KeyInv` says that the key only moves on to newer queues, `WaitInv` that
  nobody sleeps for a message that is there.
* `FdPipe`: `FilesPassed` (`PipeOK`). A control buffer has room for as many descriptors as it
  was made for (`RoomEnough`), for every size of the three; hence a call that asks for as many
  as were sent, and has places, gets and tells of all of them (`AskedIsTold`). What the
  receiver was told of is open, and it has no more than it knows of as long as no call
  asked for another number or ran out of places (`CountedInv`).
* `Segments`: `SegmentsShared` (`SegmentsOK`) and `MappingsHeld` (`FileHoldsMapping`). A segment
  is found by the key, or somebody asked to remove it (`FoundByKey`); a file is not
  shorter than what `fstat` told a constructor that is about to set its length, unless
  the file changed in between (`FileInv`).
* `Sockets`: `CallsTellTruth` (`SocketsOK`) and `SegmentInOrder` (`StreamInOrder`). Of every
  connection `StreamAt` says: what the receiver counted is what it got; what the sender
  counted, over all its calls, is what the client got and what is under way, as
  long as the client is there; these bytes are numbered in order; and a receiver that
  `poll` let through finds bytes or the end, which is why `read` returning 0 means
  the end. `Used <= MaxFd` needs the descriptors counted, connection by connection:
  accepting adds one member to a finite set, closing takes one away. `ReserveInv`
  follows `AcceptAsync` between closing its spare descriptor and having it back.

`EventServerProofs` and `EventServerOrder`.
* `ServerCorrect` (`ServerOK`), `SessionsWatched` (`InterestMatches`), `NoBufferLost`
  (`BuffersInOnePlace`). `ServerInv` adds to these: a connection waits in one backlog,
  was accepted by the handler that runs, is of one session or over, and an accepted
  socket has a descriptor without a session (`ConnInv`, `PendingInv`), so that a new
  session takes nobody's place; only the outermost handler was called by the loop, those
  above it are `AsyncClose` in its callback, and no session is being ended twice
  (`FrameInv`), so that what a handler does when its callback returns is still about its
  own session or about none; no pending read has more data than it asked for
  (`ChainInv`); and a session whose end has begun is registered no more (`InterestInv`).
  `CountInv` says when `currentconns` is one less than the listener's sessions: from the
  moment `OnAccept` inserts one to the moment its callback has returned and it is
  counted; if the callback closes the session meanwhile, the unsigned count is for so
  long the greatest number there is. `BuffersInOnePlace` is proved by following, for
  each action, which one buffer moves.
* `SentInOrder` (`WritesInOrder`) and `HandedInOrder` (`ReadsInOrder`). The handlers
  move buffers, so `OrderInv` speaks of chains: a chain is a `Run` if each buffer has
  the bytes that follow those of the buffers before it. What was sent to the socket
  starts with the first byte (`Written`), and the write chain is the run behind it, up
  to the last byte the application queued (`Writing`). What the application has is
  followed by what `OnRead` took out of the read chain and is handing over (`Delivered`)
  and then by that chain (`Receiving`), of which only the first buffer has data
  (`OnlyFirst`), without which filling the next one would leave a gap. A connection that
  has no session yet is untouched (`Fresh`). How much a chain holds is a recursive
  function on its positions; facts about it for every position are proved with sets,
  because a set of naturals that is not empty has a least element (`NatAll`).

Only model-checked: all liveness and everything under fairness, which this prover
cannot do (`EveryCallReturns`, `EveryElementTaken`, `CallsReturn`, `NobodySleepsBeside`, `LockReturns`,
`EndsWithItsQueue`, `NobodyKeptWaiting`, `CallsEnd`), and `NeverAllAsleep` for more than two
threads.

## 5. Where code and description disagree

`ServerClose` is the finding that a run shows. The following came up on the way. The
modules state some of them as properties that no run checks, because they do not
hold (in brackets).

* `StopPut` and `StopPutAndGet` of the circular queue stop nothing: their status is
  set by functions nobody calls (`StopPutStops`).
* An expired timed wait may end in `SyscallExecuteError` (`TimeoutIsReported`), and the mutex
  of a killed owner stays locked (`DeadOwnerRestored`).
* `StopPut` between a getter's test and its wait is lost; the getter sleeps on
  (`StopReleases`). The same goes for the stop calls of `RawNotifySet`. The second copy
  of an element in a `RawFastFindQueue` is popped and lost in an exception (`AlwaysFound`).
* `cf_fcntl` hands on a `va_list`: file locks always throw, and the flags that
  `IsSocketBroken` sets are accidental. `SetBlocking` calls `fcntl` itself and works.
* The `mq_` stubs refuse NULL, so `Recv` without a priority, `Setattr` without the old
  attributes and withdrawing a notification always fail.
* `SendFds` of 2 to 12 or of 17 to 124 descriptors fails with `EINVAL` on Linux with 64 bits
  (`Refused`): the rest of the control buffer, all zeros, has room for another header, and
  the kernel takes one of length 0 for an error.
* `LogCache::Flush` ignores what `write` returns and forgets the lines: those whose write
  failed or was short are lost, and `Write` returns 0 (`cl_log_cache.cpp:186`).
* A signal ends the server's loop, or a blocking transfer, with `SyscallExecuteError`: nobody
  repeats `epoll_wait` or `poll` after `EINTR`.
* `SendSegmentSync` and `RecvSegmentSync` may return false ("timeout") though everything
  was moved, and with an infinite timeout usually do after the first piece;
  `hasDone` is right all the same. On blocking sockets `write` ignores the timeout.
* A creator whose segment is too small throws, and its destructor unlinks the
  name of a queue that others use. `MemMappedFile` and `CreateLocalServerSocket` throw
  unless their descriptor is 0.
* `AddNewConn` with a descriptor of the application's always throws, after it has
  registered the session. A peer that sends and finishes in one batch loses what the
  read callback asked to read or write next.
* `RawMap::Insert` passes its pair to `std::map::insert`, which leaves an element that is
  there as it is; the comment above it says "// Insert or update."
  (`cf_concurrency_map.hpp:114`, the code at :118). TLC refutes `InsertUpdates` on the instance of
  `GuardedMap.cfg`: a second `Insert` of a key keeps the old object.
* A cached line that was not written before a `fork` is written by both processes.
* `CRawSequenceContainer`, the const methods of `RawNotifySet`, `RawQueue::TryGet` and
  `TryLock` of a `FakeRWMutex` do not compile when they are used; `MsgQ` and `TaskPool`
  are not implemented.

## 6. Not modelled

* Binary searches: pure functions over an array, with no state and no order of
  steps; a unit test would reach every branch.
* Server: `StartListening` and `StopListening`, which nobody calls, and statistics.
* Sockets: datagrams and socket options; errors of `accept` but `EAGAIN` and `EMFILE`
  (`ECONNABORTED` ends the loop as `EAGAIN` does, others throw); the listening descriptor that `CreateServerSocket` does not close when
  `SetBlocking` throws (`cf_network.cpp:85-86`). `RecvFds` for no descriptors, and the data
  beside descriptors. Locks: pthread attributes, recursive locking, a `PtrLockGuard` of
  a null pointer, which throws before it locks (`cf_lock_guard.hpp:50-51`). Shared memory and queues: `Notify`, `Getattr`, `Msync`, `Fstat`, `mlock`. Logs:
  the change of files by size and date.
* Containers: ranges of iterators that outlive the lock, whose use is undefined when
  another thread erases.
* A process killed inside `write` or `read`: the mutex it holds stays locked, so
  nobody sees what it left.
* Left out for good: wrappers of one system call, generated or empty files, the
  redis client, and everything about formatting and file layout.

What is left to do, in this order: an abstract specification of a session (two byte
streams) that `EventServer` implements, which `WritesInOrder` and `ReadsInOrder` state
as invariants so far; `NeverAllAsleep` above its threshold; the change of log files.
