# LaminaFS in TLA+

LaminaFS is an overlay file system layer with an asynchronous API: clients
submit *work items* to a `FileContext`, one processing thread takes them from a
bounded queue and carries them out on *devices* that are mounted over one
another in a virtual tree. This directory models the library's own logic in
TLA+, checks it with TLC on small instances and proves its most important
parts with TLAPS for every size. Paths below are relative to the repository
(`src/` is its own source directory).

## The system

| component | state | operations |
|---|---|---|
| Work item queue, `src/util/RingBuffer.h` | array, read and write position, full flag, mutex | `push()` (spins while full, notifies when it found the buffer empty), `pop()`, `getCount()` |
| Semaphore, `src/util/Semaphore.h` | counter, condition variable | `notify()` (increment under the lock, signal outside it), `wait()` |
| Processing thread and its control, `src/FileContext.cpp` 142-201, 269-289, 658-791 | `_processing`, `_processingThread` | `processingFunc()`, `start/stopProcessingThread()`, called by `releaseMount()` and the destructor |
| Work item pool, `src/util/PoolAllocator.h` | bit mask in words, storage, mutex | `alloc()`, `free()` |
| Work items, `src/FileContext.cpp` 27-138, 406-656, 770-786 | operation, callback, buffer, allocator, `_completed`, completion mutex and condition | eighteen submitting functions, `WaitForWorkItem()`, `WorkItemCompleted()`, `WorkItemFreeBuffer()`, `releaseWorkItem()`, completion and callbacks |
| Mount table, `src/FileContext.cpp` 203-345 | `_interfaces`, `_mounts`, `_mountLock` | `registerDeviceInterface()`, `createMount()`, `releaseMount()`, two searches |
| Path normalization, `src/FileContext.cpp` 347-404 | the path and two cursors | `normalizePath()` |
| Directory device, `src/device/Directory.cpp` | the path of a directory of the disk | create and destroy the device; size, existence, read, write, delete, create and delete directories, on POSIX and on Windows |
| C interface, `src/laminaFS_c.cpp` | none | a function for each function of `FileContext`, to which it forwards |

They interact as follows. A client's call takes a slot of the pool, fills it in
(normalizing the path), pushes it to the ring buffer and, when the buffer was
empty, posts the semaphore. The thread pops an item, searches the mount table
for the operation's path, calls the device, marks the item completed under the
completion mutex, and then either runs the callback, frees the buffer and
returns the slot, or wakes the clients that wait, one of which does the latter
two. `releaseMount()` stops the thread, erases the mount and starts a new thread.

What is hard here is concurrency and ordering: a notification given only on the
empty-to-nonempty edge and outside the lock; a stop flag next to a semaphore;
slots that change hands between clients, queue, thread and callbacks; an item
that is corrected after it was queued; a mount table searched while it changes;
a full queue, an exhausted pool. The device adds partial failure: each function
is several system calls on files that other processes use. The hazards are
listed one by one, with the line where each bites, in `PROJECT.json`.

What makes each component correct:

- queue: a bounded FIFO, through wrap-around; no wake-up is lost;
- control: no stop is lost, no thread runs while mounts are freed, the thread
  object is never misused, every stop returns;
- pool: a set of free slots, never one behind the storage;
- work items: each slot in exactly one hand, each callback once and after its
  request, completion in order, no buffer out of reach, every wait returns;
- mount table: reads ask matching readable mounts newest first, mutations go to
  the newest mount that permits them, no device is called when dead or without
  the function;
- normalization: the resolved path, computed without leaving the buffer;
- device: a read fits its buffer and is the beginning of the part asked for, a
  write and the removal of a tree report what they did, an error does not uncover an old file.

## Modules

| module | models | composed of |
|---|---|---|
| `BoundedFifo` | abstract: what a queue promises | |
| `RingBuffer` | the array, `Push`, `PopItem`, `PopNothing` as locked sections | refines `BoundedFifo` |
| `Semaphore` | `Post` and `NotifyOne` (two steps), `TakeToken`, `Block`, `SpuriousWake` | |
| `ProcessingThread` | the hand-off: producers in `push()`, the loop, controllers in `releaseMount()`/destructor | extends `RingBuffer`, `Semaphore` |
| `SlotPool` | abstract: a set of free slots | |
| `PoolAllocator` | the bit mask, `Alloc`, `Free` | refines `SlotPool` |
| `ThreadControl` | `_processing`, the thread object and the steps of `stop`/`startProcessingThread()` inside `releaseMount()`, by any number of clients at once, without the semaphore | `ProcessingThread` refines it |
| `SuspendableThread` | abstract: what the one client that stops the thread can rely on | `ProcessingThread` refines it |
| `RequestService` | abstract: requests are carried out in order, each callback is called once and before the next request is carried out | |
| `WorkItems` | the life of an item, from any function of `FileContext` or of the C interface (`Forwards`), across stops and restarts of the thread; its queue is the FIFO, its pool the set of slots, of the modules above | extends `ThreadControl`, refines `RequestService` |
| `MountTable`, `MCMountTable` | interfaces, mounts, the two searches, one mount a step, and the dispatch; devices answer as they like | extends `ThreadControl` |
| `NormalizePath` | the two cursors, one action per round of the inner loop | |
| `DirectoryDevice` | the POSIX side of the device, one action per system call | |
| `WindowsDevice` | its Windows side, on the same disk | extends `DirectoryDevice` |
| `Overlay`, `MCOverlay` | items that go to several directory devices on one platform, devices mounted and destroyed in between, another process on the same disk | extends `WindowsDevice` |
| `ProcessingThreadProofs`, `PoolAllocatorProofs`, `NormalizePathProofs`, `MountTableProofs`, `WorkItemsProofs`, `OverlayProofs` | theorems and proofs (those about `RingBuffer` are in the first) | each extends its module |
| `WaitedItemsProofs` | theorems and proofs about `WorkItems` without callbacks | extends `WorkItemsProofs` |
| `SequenceFacts` | lemmas about sequences for the proofs | used by `MountTableProofs`, `WorkItemsProofs`, `WaitedItemsProofs`, `NormalizePathProofs` |

State and actions carry the source's names where there is one (`full`,
`readPos`, `processing`, `bitmask`, ...). A step is what happens between two
points at which another thread can act: a locked section is one action, a spin,
an unlocked read or write of shared state and a notification are actions of
their own. `tpc`, `ppc`, `mpc`, `cpc`, `dpc`, `rel` and the `pc` of `sub` and `client`
(`WorkItems`) say where a thread is. Variables commented *history* exist only
for properties: what became of each request (`log`), who was asked, how many
mounts there were when a search began.

Mistakes: an operator with a comment `Mistake:` is the definition after it with
a plausible bug. No specification uses them; `PROJECT.json` pairs each with the
property that fails when it takes the definition's place, which shows that the
property depends on the code.

Abstractions worth knowing:

- `WorkItems` takes the queue as an atomic FIFO with a blocking push and an
  item as a record; `ProcessingThread` takes an item as a value. That the array
  with its positions is such a FIFO is `RingBufferIsFifo` and `HandOffIsFifo`.
- A path is a sequence of components in `MountTable` and `DirectoryDevice`, a
  sequence of characters in `NormalizePath` only.
- `MountTable` gives a reallocation of the vector a variable of its own (`room`):
  a `createMount()` that reallocates while `findNextMountAndPath()`, which takes
  no lock, is in its loop leaves a dead iterator, where the model ends. The
  search with a lock excludes such a step, by `Locked`.
- `WorkItems` and `MountTable` take the stop and restart of the thread from
  `ThreadControl`, which has every unlocked read and write of `_processing`, the
  join, the erasure and the assignment of the thread object as steps of their own,
  and lets any number of clients be in `releaseMount()` at once. A thread
  object joined twice or overwritten ends the model (`aborted`). What
  `ThreadControl` leaves out is the semaphore: there, a thread that finds its queue
  empty looks again. `ThreadIsControlled` shows that `ProcessingThread`, with the
  semaphore, behaves so.
- A client that has waited for an item counts the items it submitted before it
  as completed, as the tests do; `WaitForLast` says that it may.
- In `DirectoryDevice` what the kernel does (path resolution, `lseek()` of a
  directory, the order of `fts_read()`) is external, modelled as the code meets
  it. Sizes have `Width` bits: unsigned differences wrap, and values whose top
  bit is set are negative offsets and counts. A file has at most the `LargestFile`
  bytes an `off_t` can measure: a write beyond them fails (`EFBIG`), and one of no
  bytes leaves the file alone. `read()` and `write()` may transfer less than they
  were asked for, which the code takes for the result (`Directory.cpp:315-331`,
  426-437); a `read()` transfers nothing only where there is nothing to read. Calls
  interrupted (`EINTR`) are retried by the code and not shown. A file is not removed while it is open.
- `WindowsDevice` keeps the differences of the code: every failed open of a read
  is `LFS_NOT_FOUND`, an error of `ReadFile()` becomes a read of nothing, a
  segment is not written to a file that does not exist, the offset of a
  truncating write is ignored, counts are cut to a `DWORD` of `DwordWidth` bits
  (so that of a part of 2^32 bytes or more only the lower half of the size is read,
  `Directory.cpp:274`),
  and a position whose lower half is `INVALID_SET_FILE_POINTER` counts as a failed
  seek. `SHFileOperationW()` removes a tree as `fts` does, entry by entry.

## Runs

Every property is an invariant, an action property or a liveness property of one of
these runs; the comment above each definition says what it means.

| run | question | bounds |
|---|---|---|
| `processing_thread` | Are wake-ups and stops lost, does a thread run while mounts are freed, is the array a FIFO, and does everything return? | 2 producers, 1 controller, capacity 2, 3 pushes, 2 stops |
| `work_items_plain` | Do items without callbacks have one holder, complete in order, keep their buffers, and do waits return? | 2 clients, pool 2, queue 2, 3 requests, 1 release of a mount |
| `work_items_callback` | The same with callbacks that submit again: are they called once and always, and is `RequestService` implemented? | 2 clients, pool 3, queue 1, 4 requests, 2 releases of a mount |
| `mount_table` | Do reads and mutations reach the right mounts while clients create and release mounts, and does each search end? | 2 clients, one of which releases mounts, 3 mounts made, 2 interfaces, 1 item that reads or deletes, the root and one directory mounted over it, the path of that directory |
| `pool_allocator` | Is the bit mask a set of slots? | 7 slots in words of 3 bits: two full words and one with padding |
| `normalize_path` | Is the result the resolved path, in normal form, and stable, for every path? | up to 7 characters of `/`, `.`, `a`, `b` |
| `overlay` | Do reads, writes and removals report what they did, whatever call fails? | both platforms; 2 devices, trees over `d` and `d/f` with files of 0, 2 or 5 bytes to begin with, 2 items, 1 foreign change, sizes of 4 bits and a `DWORD` of 2 |
| `mixed_ownership`, `write_runs`, `concurrent_release`, `segment_permission`, `overlay_newest` | The findings below | as small as they happen |

Why the bounds suffice: the ring of two slots is full, empty and wrapped with
three pushes; a second stop meets the tokens the first has left. A pool
with fewer slots than requests is exhausted, a queue with fewer places than the
pool has slots is full; three requests let a slot be used again while an
older item is waited for, and two queued items have an order. In
`work_items_callback` the pool has two items more than the queue has places, so
that a callback that pushes meets a full queue and waits for the thread it runs on,
as it may with the default sizes of 128 places and 1024 items
(`FileContext.h:104`); `CallbackServed` excepts that state (`Stuck`), and
`CallbacksFindRoom` says which sizes exclude it.
One release between submissions finds items queued, in hand and completed; the
second one of `work_items_callback` may be made while the first goes on. In
`mount_table` one client releases mounts, since what is checked there does not
hold of two (`concurrent_release`), and a read and a deletion stand for the two
searches. One
item is enough for `mount_table`, as a search leaves nothing behind in the
thread (`FinishItem`); what it meets is the mounts that came and went before it
and that come while it goes on.
Three mounts give a newest, a middle and an oldest one, and one release among
them. Seven characters hold two components, a `/..` behind each, and doubled or
trailing slashes. Two items on a disk that begins in any state let one operation
meet what another one left. With sizes of 4 bits an offset may be negative as an
`off_t`, and a file of 5 bytes is longer than a `DWORD` of 2 bits can say.

Fairness. `ProcessingThread`, `WorkItems` and, for the processing thread only,
`MountTable` state weak fairness for the
steps a thread takes inside a function it has called: the operating system runs
every thread that is ready, and `std::mutex` sections are short. Nothing is
assumed of *when* clients call, of a client ever waiting for or releasing an
item, or of spurious wake-ups. `PushReturns` needs no more, as the spin of `push()` sees
a free slot that stays free until some producer takes it, and the number of pushes is bounded.
Deadlock is checked in every run: `Quiescent`, `Ended` and the like let a
model stutter only where all is done.

## Proofs

All proofs hold for every value of the constants, under the `ASSUME`s of the
modules they extend.

- `ProcessingThreadProofs`: for the array alone, `RingBufferInvariant` (positions
  inside the array, held slots written) and `RingBufferIsFifo` (refinement of
  `BoundedFifo` by the sequence of held slots). `CountFacts` carries the modular
  arithmetic: equal positions are told apart by the full flag only. For the whole
  hand-off, `TypeInv` is the types with `TokenBound`: tokens plus notifications
  still to be made never exceed calls made. `TypeCorrectness` and `TokensCounted`
  are its two halves. The number of calls is bounded below `SemLimit` by
  assumption, so `TokensCounted` says that the counter does not wrap as long as
  fewer calls are made than it can count.
  `WakeInv` is then inductive relative to `TypeInv`: no queued item
  (`WakeupsKept`) and no stop (`StopsNoticed`) is left to a thread headed for
  `wait()` without a token there or on its way. `SingleController` and
  `ThreadObjectSafe` add `ControlInv`, which ties the controller's
  place to the thread's, **under the assumption `OneController`**: with two
  concurrent `releaseMount()` calls neither holds (`concurrent_release`).
  `HandOffIsFifo` lifts the refinement to the whole hand-off.
- Stop and restart, in `ProcessingThreadProofs`. `ThreadIsControlled` shows, for any
  number of controllers, that the hand-off implements `ThreadControl`. It maps a
  thread in `wait()` to one about to test `_processing` (`ThreadPlace`), the post and
  the signal of the stop to the wait for the thread (`ReleasePlace`), and needs
  `RunInv`: while `_processing` is cleared some controller is on its way to the
  restart, while it is set and the thread gone one is about to start another, and the
  destructor is alone and finds a thread to join.
  `ThreadIsSuspendable` says, under `OneController`, what the client that stops the
  thread can rely on: the thread finishes the item it has in hand, begins at most one
  more, and only when it is gone is it started again, never for a destroyed context
  (`ControlInv` and `RestartInv`: a controller on its way to a restart is not the
  destructor). These two properties are proved only; no run lists them.
- `PoolAllocatorProofs`: `PoolTypesCorrect`, `PaddingStaysClear` and
  `PoolAllocatorIsSet`, by the division of a slot number into word and bit
  (`Split`, `Unsplit`).
- `MountTableProofs`: `TypesHold`, `DevicesAreOwned`, `DevicesAskedLive`,
  `ReadsGoThroughOverlay`, `WritesGoToPermitted` and `NoFunctionMissing`.
  The first two hold of any number of clients in `releaseMount()` at once; the
  others are **under the assumption `OneReleaser`**, that at most one client releases
  mounts. `TableInv` types the state and keeps the iterator of a search inside the
  table. `OwnInv` gives every device alive exactly one place, in the table or in the
  hand of the client that creates its mount. `StopInv` says that the thread is
  gone while the one releaser is about to erase. `FindInv` says what a search knows:
  it has asked the matching mounts behind its iterator and no others, or it is on
  its way back to the one asked last, which no one can have erased meanwhile.
  `GrantInv` keeps the permissions of a mount within the functions of its
  interface. Two theorems need a further hypothesis:
  `WritesGoToPermitted` is about every operation but a segment write and
  `NoFunctionMissing` about contexts without one, which `segment_permission`
  shows to be necessary.
- `WorkItemsProofs`: `CallTypesCorrect`, `OneHolderHolds`, `CallbackOnceHolds`,
  `CallbackBuffersInReach`, `CallbacksServed`, the refinement of `RequestService`, and
  `CallbacksFindRoom`, all of them under the
  hypothesis `AllCallbacks`: every submission takes a callback, which is the
  second way to own an item that `FileContext.h:99-100` names (`mixed_ownership`
  shows that a context with items of both kinds breaks the third). `CallInv` is the
  invariant. `SlotInv` partitions the slots among the pool, the threads that
  submit, the places of the queue and the item in hand; `ReqInv` says that no
  request is in two of these places; `LogInv` ties the place a request is in to
  what has become of it. `StepCases` shows which steps such a context can take,
  before one lemma for each part of the invariant takes them in turn. `BufferInv`
  says that a buffer allocated by a read can only hang on the item in hand, from
  the operation to the end of the pass. For the
  refinement, `AllocMakes`, `SubmitServes` and `WorksServes` map each step to a
  step of the service or a stutter; that the thread has taken an item from the
  queue is a stutter by `PopKeepsPending`. `CallbacksFindRoom` counts: a callback that
  submits has the item in hand and the one it fills in, so the queue holds at most two
  items less than the pool and is not full when the pool has at most one item more than
  the queue has places. None of these theorems restricts who releases mounts, or when.
- `WaitedItemsProofs`: `WaitedTypesCorrect`, `WaitedOneHolder`,
  `WaitForLastHolds`, `WaitedBuffersInReach` and `WaitedServed`, the refinement of
  `RequestService`, under the opposite hypothesis `AllWaited`: no submission
  takes a callback, the first way to own an item (`FileContext.h:97-98`).
  `WaitForLast` is not inductive: it needs to know that the items of a client
  complete in the order it queued them. `Line` is a client's items in that order,
  the one `writeFile()` has queued and not yet returned included. `Shares`
  partitions the slots among the pool, the clients that submit and the lines;
  `Flight` says that an item of a line is completed, in the thread's hand or at
  one place of the queue; `Order` that the queue and the completions follow each line.
  `Moves` reduces the steps to seven (`Take`, `Fill`, `Hang`, `Drop`, `Pick`,
  `Finish`, `Keep`) by what they do to the slots, and one lemma for each shows
  that it keeps the three parts. That a client may release an item, and another take
  its slot, while the thread still points to it is harmless here: the thread
  lets go of an item when it completes it (`Hand`).
  `WaitedBuffersInReach` adds `HeapInv`. `Requested` says that no two items in use
  serve one request, so that a buffer is reached through one item only;
  `Allocates` that an item with a buffer of its own has an allocator and is
  completed or about to be, so that `WorkItemFreeBuffer()` frees it and no
  slot is filled in over it; `Kept` is the property itself on the slots in use.
  For `WaitedServed`, `Issued` says that an item in use is being filled in or
  serves a request that was not refused, and that the request is done only when the
  item is completed; with `Requested` no request is queued or
  carried out twice, although slots are used again. The service's requests
  are then made by `AllocMakesOne`, queued by `PushAppends` and carried
  out by `CompleteCarriesOut`; every other step is a stutter (`SameItems`).
- `NormalizePathProofs`: `CursorsStayInside` and `UnreadStaysIntact`, by
  `CursorInv`: the part not yet read is as given, therefore its terminator is in
  place, therefore no round runs past it. `ResultSettles` adds `FormInv`. `Clean`
  says that no segment written so far vanishes, `Joins` that what is still to be
  read does not complete the beginning of a segment that would: the look-ahead
  tests of a round are made at a slash, on three characters, and the proof shows
  that they are enough wherever a `/..` has moved the write cursor back
  to, since it stops before a slash (`BeforeSlash`). `Untouched` says that
  in a path given in normal form no round skips, so that each copies in place.
  `ResultMatches`, that the result is the one of the reference definition
  (`Normal`), adds `ParseInv`: what was written is the text of the segments the
  reference has kept after reading the same characters, followed by the
  segment that is being read as it stands (`Text`) or, when a round has skipped
  to a slash or the terminator, by what that segment comes to (`Final`).
  The two agree wherever a segment ends, because of `Joins` (`MidSettles`), and
  the place that `/..` backs up to is where the last segment kept begins
  (`BackedUp`). The reference is a recursive function on the positions of the
  path: `StepwiseExists` shows that such functions exist, by induction over a
  set (`CountUp`), and `ParsedSteps` and `FlattenAppend` what they do in a
  step.
- `OverlayProofs`: `TypesCorrect`, `SearchPassesOnlyEmpty`, `ReadBufferFits`,
  `ReadGetsPart`, `WritesAsReported` and `DeletesDirAsReported`, for every tree,
  content, request and width of a size, on both platforms. `IInv` says what is
  known between any two system calls, because another process may act there:
  `DiskInv` that the entries form trees, `ControlInv` and `OpenInv` where the
  thread is and what is open, `SearchInv` which devices have been passed over,
  `BufferInv` and `PartInv` what size, position and buffer are at each stage of a
  read, `WriteInv` and `DeleteInv` what a write or removal has done so far,
  `IdleInv` that nothing is kept between items. The last three properties and
  `ReadsPart` hold of an item whose path nobody else `changed` meanwhile. The
  library has no theorem that a finite set of numbers has a largest
  element, and none of the installed provers can use its induction:
  `MaxFacts` and `NothingBelow` (nothing lies below a path that is not there)
  go by a least counterexample instead (`WFMin`). `WidthAssumption` and
  `DwordAssumption` state what the provers do not know of powers of two, namely
  that 2^n is positive and doubles with n.

Only model-checked: all liveness. Of contexts with items of both kinds nothing is
proved: in them `CallbackOnce` does not hold.
Liveness under fairness is out of reach of the prover. So are the library's
induction theorems, which take an operator: where a recursive definition is
needed, as in `NormalizePathProofs`, the induction is over a set of numbers.

## Findings

Each is a run that TLC finishes with a counterexample, against a sentence of the
repository quoted in `PROJECT.json`.

- `mixed_ownership`: the thread reads `_callback` after it has set `_completed`
  and left the mutex; a client may have released the item, and a request
  with a callback may have taken its slot (`FileContext.cpp:775`).
- `write_runs`: `writeFile()` corrects `_operation` after the item was queued,
  so that it may run as a segment write (`FileContext.cpp:500`).
- `concurrent_release`: of two clients in `releaseMount()` at once, the one that
  finds `_processing` cleared skips the join and erases its mount while the thread
  runs, or while the other restarts it (`FileContext.cpp:196`).
- `segment_permission`: segment writes are not tested for the write permission
  (`FileContext.cpp:331`).
- `overlay_newest`: reading a file without a byte sets no result, so an older
  mount's version, or `LFS_NOT_FOUND`, is returned (`Directory.cpp:307`).

Behaviour the models also have, without a sentence in the repository that it
would contradict clearly, or without a run of its own: `WorkItemFreeBuffer()` on the
item of a write calls an allocator nobody has set (`FileContext.cpp:108`), where
`README.asciidoc:67-69` calls it null-safe; a read that comes back short is
reported as done (`Directory.cpp:315-331`); items still queued when the destructor runs are dropped; items queued when
`releaseMount()` runs are carried out after it; a callback that submits to a
full queue, waits for an item or releases a mount waits for its own thread;
the dead iterator of `MountTable`; `deleteDir()` that reports success when
`fts_open()` fails; a read without memory that reports success. On Windows: a
file of a newer device that cannot be opened uncovers an older one, a failed read
reports success, a part of 2^32 bytes or more is read in part and reported as read
(`Directory.cpp:274`), and a read with a terminator of the largest part, which only a
segment one byte behind the end of its file gives, gets a buffer of no bytes
(`Directory.cpp:271`); `PassesOnlyEmpty`, `ReadsPart` and `BufferFits` name these
as exceptions.

## Not modelled

- `widen()`, the allocation of paths, `EINTR` and a failed allocation of the
  buffer in the Windows branch of `readFile()`: failures of the client's allocator
  outside the POSIX `readFile()` are not handled by the code.
- The functions of the C interface for contexts, interfaces and mounts, and those
  that wait for, free or release an item: each forwards one call to a function
  that is modelled, and keeps no state.
- The allocator adapter, the default allocator and logging: no control of their
  own. That `_log` and `_interfaces` are read and written without a lock is
  listed under the hazards.
- A wrap of the semaphore's counter: `TokensCounted` bounds the tokens by the
  calls made, which the model bounds.

## Plan

Order of the work, the most important behaviour first: (1) hand-off and pool,
with proofs; (2) life of work items and the abstract service it implements; (3)
mount table, with proofs; (4) normalization; (5) device, on both platforms, and
overlay. These are in place, and so is a theorem for every safety invariant of
the runs, and that `WorkItems` implements `RequestService` in contexts of either
kind of ownership. `WorkItems` and `MountTable` are built on `ThreadControl`, which
`ProcessingThread` implements.
