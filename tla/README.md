# Verification of c-workspace

TLA+ specifications of the parts of this repository whose correctness depends on
interleavings, shared state, failures, long sequences of calls or boundaries of data;
TLC configurations that check them on small instances; and TLAPS proofs of the most
important results for every value of the constants. `PROJECT.json` lists components,
runs, mutants, findings, hazards and theorems, and maps every definition to the lines
it models.

    cd tla
    tlc -workers 2 -config MCBlockedQueue.cfg BlockedQueue   # one run
    tlapm ServicesProofs.tla                                 # one module of proofs

## 1. Inventory

The repository is a workspace of C and C++ code: libfastcommon (the base library of a
family of network servers), a program that recognises answer sheets, C++ utilities of
its own, and libraries it carries along.

| Part | State it keeps | Operations | Modelled by |
|---|---|---|---|
| `common_blocked_queue` | head, tail, nodes of an mblock, mutex, condition variable | init, push, pop (blocking or not), terminate | `BlockedQueue`, `FifoQueue` |
| `fast_task_queue` (`g_free_queue`) | free list, `alloc_connections`, buffers of tasks | init, pop, push, buffer sizes | `FreeQueue` |
| `fast_blocked_queue` | head, tail, mutex, condition variable; tasks are the nodes | push, pop, terminate | `TaskPipeline` |
| `connection_pool` | managers in a hash table; per manager a free list, counts, lock | get, close (forced or not), destroy | `ConnectionPool` |
| `fast_timer` | slots with doubly linked lists, current time | add, modify, remove, timeouts_get | `FastTimer`, `FastTimerProofs` |
| `ioevent`, `ioevent_loop` | polled events, attached sockets, timers, deleted list | the loop and what callbacks may call | `EventLoop` |
| `pthread_pool` | idle workers, sizes, two levels of mutexes, four kinds of condition variable | init, run, worker loop, destroy | `ThreadPool` |
| `sched_thread` | chain of entries by time, waiting entries, one deletion, delayed tasks | thread loop, add, delete, add_delay_task, stop | `Scheduler` |
| `logger` | line buffer, file, sizes, days | write, sync, rotate, reopen, delete old, destroy | `Logger` |
| `fast_mblock`, `fast_allocator`, `fast_mpool`, `fast_buffer` | chains of free nodes, delayed frees, trunks, accounts | alloc, free, delayed free, reclaim, reset, append | `FastMblock`, `FastAllocator`, `FastMpool`, `FastBuffer` |
| `sockopt` | sockets, descriptors, files | connect, accept, send, receive, files | `Sockets` |
| `multi_socket_client` | entries with stages and buffers, counters, deadline | a request on several sockets | `MultiSocket` |
| `shared_func` | none, or a file | text, number, path, file and host helpers | `TextHelpers`, `FileHelpers` |
| `id_generator`, `process_ctrl` | a file of serials, a pid file | next id; start, stop, restart | `IdGenerator`, `ProcessCtrl` |
| `ini_file_reader` | contexts, table of slots with variables, annotations | load, nested loads, free, queries | `IniFile` |
| `base64`, `json_parser`, `http_func`, `char_converter`, its loader | none | encode, decode, parse, convert | `TextHelpers` |
| `hash`, skip lists, `avl_tree`, `chain`, `pqueue` | sequential structures (the lists with concurrent readers) | all that change them | `HashTable`, `Skiplists`, `AvlTree`, `Chain`, `PQueue` |
| uthash and relatives | macros over the application's structs | all that change them | `UtHash`, `UtList`, `UtArray`, `Utf8` (strings), `MergeSort` |
| bstrlib, bstraux | strings with room, streams | edit, search, split, format, read, encode | `BString`, `BStream`, `BstrText` |
| `utf8.h` | none | functions on UTF-8 | `Utf8` |
| `date.h` | none | calendar arithmetic, to_stream, from_stream | `Calendar` |
| `pic-recognizer` | points, segments, ranges, boxes | the phases of `main` | `Recognizer` |
| `Dispatcher.h`, `str.cpp` | registry of processes | add, remove, enable, proceed; replaceAll, url_encode | `Dispatcher`, `TextHelpers` |
| `Pipe.h`, `Combinator.h`, md5, bmpread, munit, gtest, ... | | | not modelled (section 5) |

How the parts interact. A network server built on libfastcommon takes a task from
`g_free_queue`, receives into it, hands it to worker threads through a blocked queue
and gives it back; the task's `next` field links it in both lists, which is why
`TaskPipeline` composes them. Timers are owned by one event-loop thread, which polls
sockets, calls back, and frees closed tasks at the end of a round. The nodes of queues
and pools come from `fast_mblock`, under `fast_allocator`. The schedule thread calls the
logger's sync function. Connection pool and thread pool are called by arbitrary threads.
`ini_file_reader` stands on the text helpers; `id_generator` and `process_ctrl` on the
file helpers. `pic-recognizer` is a sequential program that reads a bitmap.

What is hard in this code: signals sent without or after the lock, waits without a
loop, work done between two critical sections (a connect, a growing pool, a buffer
replaced before the lock), two levels of mutexes, hand-over through fields that one
thread polls, lists that are spliced while they are walked or read while they are
written, callbacks that close what is being dealt with, partial transfers and late
answers, crashes between the system calls of an update, counters that live longer
than they should, and buffers that are exactly full. The `hazards` of `PROJECT.json`
name the lines.

What makes each part correct:

* queues: FIFO, nothing lost or duplicated, no sleeping consumer over queued work,
  everything queued is popped;
* task pool: one owner per task, resized only by its owner, gives up only at a limit;
* connection pool: exact counts, never above the limit, a connection in one hand
  only, no socket leaked or used after its close, free list ordered by idle time;
* timer and event loop: the lists stay whole, what is due is returned, nothing is
  overlooked for a whole turn, no callback for a closed task, closed tasks are freed;
* thread pool: every accepted job runs once, nobody waits for ever, the pool outlives
  its workers;
* schedule thread: entries run on their grid of times and keep running, the chain is
  whole, callers of add and delete return;
* logger and allocators: no line and no block lost, doubled or used by two;
* transfers: no byte lost, doubled or moved, success means all of them (section 5 has the
  exceptions), failure leaves nothing behind, calls return; files are whole at any moment; ids are given out once; one daemon;
* containers: they answer as the set, map, list or text they stand for after any
  sequence of calls, and keep within their memory;
* conversions: what was encoded or formatted is decoded or read back, and what cannot
  be is refused;
* recognizer: rows are cut into their segments, the ranges form a grid, the box
  with the strokes is reported.

## 2. Modules

In `PROJECT.json` a helper whose lines lie within those of another definition of its
module has no entry of its own in the map: the larger definition's entry stands for both.
Proofs are in the modules named `...Proofs`; those about the lists and about
`BlockedQueue`, `TaskPipeline` and `ThreadPool` are at the end of the modules themselves,
and `TaskPipeline` has those about `FreeQueue` too.

### LinkedQueue, FifoQueue, BlockedQueue

`LinkedQueue` has the singly linked list shared by three components: a record of
the chain of nodes reachable from `head` and the `tail` pointer, kept separately as
in the code. `PushTail` links the new node behind `tail`, wherever that is: if
`tail` is not the last node of the chain, elements are lost, as in memory.

`BlockedQueue` translates `common_blocked_queue.c`. A critical section is one
action. The signal of a push comes after the unlock (`PushNotify`), a woken
consumer takes the mutex again and reads the head once (`PopWoken`), so that it may
return NULL. `fast_mblock_alloc_object` may find no memory (`PushNoMemory`), freed
nodes are reused, and waits may end by themselves.
`FifoQueue` is the abstract specification: a sequence, a push appends, a pop
removes the first element and returns it, and a pop returns NULL only while the
queue is empty. The refinement mapping is `queue <- Contents`.

### FreeQueue and TaskPipeline

`FreeQueue` translates `free_queue_pop` as four actions: first attempt, unlocked
reading of `alloc_connections`, growth under the lock, and further attempts up to
`MaxTries` (10 in the code). Buffers change size outside the lock, and
`free_queue_push` shrinks the buffer before it takes the lock. Sizes are translated
with the doubling and the cut.

`TaskPipeline` extends `FreeQueue` and adds `fast_blocked_queue.c` as
`tests/test_blocked_queue.c` wires them: producers, a main thread that consumes, and
the signal handler whose two steps may come between any other two. Task buffers have
one size here; their sizes are the subject of `FreeQueue`.

### ConnectionPool

A call of `conn_pool_get_connection` is: find or create the manager (with the time
read there), take its lock, drop expired nodes at the head, reuse the head, fail at
the limit, or count a new node, release the lock, connect, and on failure take the
count back in a second critical section. `hash_insert` may fail, and the code ignores
it. Time is relative: `idle[n]` is the age of a free node and `lag[t]` how old the
time is that a thread has read; `MaxLag` bounds how long a thread may sit between
reading the clock and using it. A clock that goes backwards is not modelled.
`conn_pool_destroy` frees managers and locks without asking for their users, so the
model calls it only when no thread is in the pool or has a connection.

### FastTimer and EventLoop

In `FastTimer` `next` and `prev` are functions over cells: entries, slot heads and the
local `head` of the expired list. The loop of `fast_timer_timeouts_get` is run step by
step with its locals `entry`, `first`, `last`, `tail`; `deal_timeouts` then walks the
list and a callback may re-add its own entry.

`EventLoop` is the loop around it: `ioevent_poll`, `deal_ioevents` with the counter
that lets `ioevent_remove` blank an event still to come, the deleted list,
`deal_timeouts` with its saved next entry, and the notification callback. The wheel is
the set of times it holds. Callbacks are the application's: they may leave their task
alone, modify its timer, or close a task, in an event also that of another socket.
`OthersOnTimeout` lets a timeout callback close another task too (section 5).

### ThreadPool

Workers, callers and the destroyer have a program counter each. `poolLock` names the
holder of the pool's mutex where the code takes a worker's mutex inside it; a worker
holds its own mutex at "push" and "pushed". Creating a thread may fail. `Spec` calls
`threadpool_destroy` when all `threadpool_run` calls have returned; `RacySpec` lets it
be called at any time. Spurious wakeups of workers are left out (section 5).

### Scheduler

The schedule thread's loop (waiting for the next time, executing what is due, putting
the executed entries back into the chain, taking over waiting entries and a deletion,
running delayed tasks) and the callers that spin until the previous hand-over was
taken. Entries have an interval and a phase (`Base`); the clock may jump by `MaxStep`.
Memory may run out while the chain is rebuilt. `sched_add_entries` hands entries over
before it initialises their times: the thread may take them in between, when their time
is still the caller's (`Uninit`, long past), and `raced` remembers those. Initialising all
the entries of a batch is one step, so the thread finds either none of them
initialised or all.

### FastMblock, FastAllocator, FastMpool, FastBuffer, Logger

`FastMblock` has the operators of `fast_mblock.c` on one pool (allocation from the free
chain, a due delayed node or a new trunk, frees, reclaiming) and the state machine
around them. `FastAllocator` has the regions of sizes above it, with its account of
bytes and its reclaiming; it uses the operators of `FastMblock` through `Mblock(p)`, an
instance for each of its pools. `FastMpool` and `FastBuffer` are sequential.
`Logger` has threads that log (one in the run) and the syncer around one lock, with writes
(all or nothing), renames and opens that may fail, a reopen without the lock and a clock of days. Allocators are checked with one caller at a time: their
concurrency is one mutex around the whole operation.

### Sockets, MultiSocket, FileHelpers, IdGenerator, ProcessCtrl

A system call is a step. `Sockets` has a client and a server that connect, and a sender
and a receiver of a file, with short transfers, interruptions, timeouts, a hang-up and
a failing disk; `mode` says which of the functions (blocking or not, file, data,
"infinite" file, discard) is used at either end, and with `runs` which of the two ends goes
on to its end (the other may stop for ever at any step with its socket open). Bytes come in
units of 8, the size of the trailer of an "infinite" file: a unit of the file may hold
the number of units before it, and nothing tells it from the trailer. Parts that are no
multiple of 8 bytes are left out, and with them a trailer that comes in pieces. The build
is the one for Linux: `tcpsendfile_ex` is the loop around `sendfile` on a socket made
blocking (`sockopt.c:1383-1433`), which has no poll, no timeout and does not write
`*total_send_bytes`; the loop around `read` (1497-1548), compiled without USE_SENDFILE, is
there too. `send` on a blocking socket waits for room until it has taken all. `MultiSocket` has the client's
entries, external servers and a clock. `FileHelpers` has one writer, one reader and a
file system of directory entries and inodes; `Crash` kills the writer. `PowerLoss`
loses of any file an end that was not synced, and takes the directory back to any state
it has had since the last power failure (`ondisk`), for no call here forces the directory out: a
rename that was reported as done may be undone. Of the file system (external) it is
assumed that changes of the directory reach the disk in their order, that a rename is one of
them, and that the inode of a directory that may still come back is not given away. In `IdGenerator` processes lock the file with fcntl and
may die at any step. In `ProcessCtrl` commands are processes of their own; pids of
dead processes are given to other programs.

### IniFile, TextHelpers, Utf8

Functions on texts are operators over sequences of character codes, loops are
recursive operators, and each family ends with its reference: what the function
promises, stated independently (the words of a text by quantifiers, the replaced text
by recursion on the text, the meaning of a JSON array by its elements). `IniFile` is a
state machine: contexts are loaded, fail or are freed in any order, through the table
of slots and the annotations they share. `TextHelpers` also has the codecs, the loops around
`read` and `write` under every sequence of outcomes and the list of hosts that
`load_allow_hosts` builds; `Utf8` also has the searches of `utstring.h`. The lines of a
configuration file are records of what the parser
recognises; the values and names keep their characters.

### Containers

`Skiplists` has the three variants in one module: levels, links, insertion link by
link with a search running beside it, deletion, find, find_all, find_range and
iteration. `AvlTree` translates the balancing functions case by case. `HashTable` has
buckets, rehashing, in-place replacement and the byte account, for one caller: its
locks protect one bucket's chain, and a second caller would only meet the window that
`hash_insert_ex` leaves open (section 5). `UtHash` keeps the application order and the
buckets as linked records, as the macros do. `UtArray` models owned copies on a heap.
`Dispatcher` models unique_ptrs as addresses in a memory, so that a leak or a use after
the deletion would show.

### BString, BStream, BstrText

Strings are records of a buffer and a length, with garbage behind the end; `balloc`
rounds as in the code. `BStream` is a stream with its buffer and what is to come.
`BstrText` has the functions of bstrlib without side effects, the growth of lists and
formatted strings, and of bstraux the codecs, the input functions and `bwriteStream`.

### Calendar

`Calendar` has the eras of `to_days`/`from_days`, months and years with their
normalisation, weekdays, ISO weeks as used by formats, and `hh_mm_ss`, and then
`to_stream` and `from_stream` of the build with ONLY_C_LOCALE: the format is read
character by character with its pending command and modifier, the stream's failure and
end-of-file flags are kept, and the fields are checked against one another and put
together as in the code. A tick is a tenth of a second.

### Recognizer

The phases of `main` of `demo.c`: a row at a time (segments, test for the frame's
lines, ranges), the boxes, the counting. The segment buffer is reused, as `malloc`
does with blocks of one size, so that the unit behind the last one is a left-over or
`junk`; points outside the picture read as blanks. The constants of the code are
parameters, scaled to small pictures: 3 lines instead of 5, width over 0 instead of
2, runs of 2 rows instead of 5, a bottom bar above 70% instead of 95%.

### MCContainers, MCSupport, MCServices, MCTexts

Each puts components that do not interact side by side: the variable `unit`, chosen
initially, says which one a behaviour exercises; the others stay as initialised. A
property is an implication from its unit.

## 3. Runs

Every property of a passing run has at least one mutant in `PROJECT.json`: a slip in a
mapped definition with which TLC finds that property violated.

| Run | Instance | Shows |
|---|---|---|
| `blocked_queue` | 2 producers, 2 consumers, 3 nodes, 2 data | consistent pointers, refinement of `FifoQueue`, never all asleep over data, every push is popped |
| `free_queue` | 3 threads, pool of 1 growing to 3, sizes 2..5 | one owner per task; a task is resized by its owner only, and a pop gives up only at the limit |
| `task_pipeline` | 2 producers, main, pool of 1 growing to 3 | one place per task across both lists, tasks come back, the quit handler ends a sleeping main |
| `connection_pool` | 3 threads, 1 server, 2 managers, 3 nodes, limit 2 | counts and limit; ownership, sockets, order of the free list; destroy closes all |
| `fast_timer` | 3 entries, 2 slots, times to 4 | whole lists, due entries returned, late by less than a turn |
| `fast_timer_lazy_move` | 2 entries, 2 slots, times to 5 | violated: two increases clear `rehash` in the wrong slot |
| `thread_pool` | 2 workers, 3 callers, 4 jobs | exact account, jobs run once and all run, destroy returns |
| `thread_pool_racy_destroy` | 2 workers, 2 callers, 3 jobs | violated: a run between signal and wakeup loses its job |
| `containers` | lists of 3 nodes on 2 levels with a reader, trees of 8 keys, heaps of 6, 3 colliding hash keys, chains of 4, tables of 6 and lists of 5 elements, strings of 6 over 2 characters, streams of 5, a registry of 2 names | each container answers as the set, map, list or text it stands for, keeps its structure and its memory account |
| `support` | 3 trunks of 2 nodes, sizes of three regions and one beyond, 3 lines over 3 days, one failing call | exact accounts, no node given out before its delay is over, no line lost, doubled or in the wrong file |
| `services` | 3 schedule entries, one delay task; a file of 3 units of 8 bytes, one like a trailer, through a wire of 2; 2 event-loop tasks; 2 peers; 3 versions of a file; 2 processes drawing ids; 3 pids | see `SchedulerSound`, `TransferSound`, `EventLoopSound`, `FilesSound`; every entry and task runs; calls return, of a sender that waits in `sendfile` or a blocking `send` only beside a receiver that runs |
| `texts` | 126 sheets with two kinds of junk; 3 contexts over 5 files; all texts up to 4 to 7 symbols of the alphabets in `MCTexts`; days at the ends of years, Februaries and centuries | the marked box is reported; configurations answer as their files say; functions agree with their references; what is encoded or written is read back |

The violated runs state what a comment of the code promises; `findings` quotes it.

Why the bounds are enough for the interesting cases. Two consumers and two producers
are the least with which a signal can wake the wrong one, and three nodes let a node
be recycled while the queue is not empty. The task pipeline has one retry
(`MaxTries`) where the pool's own run has two and the code ten: each retry repeats the
same step. Three threads race for a pool that grows by one, so that the task a thread
allocated is taken by another. With two managers and a limit of two, two threads can be
connecting while a third is refused; a third node lets the free list have an order. Two
slots and four time units let the clock jump over a slot and over a whole turn; three
entries are needed to cut a run out of the middle of a list. Two workers and four jobs
fill the pool with a caller waiting.

Trees of eight keys meet every rotation on insertion and deletion and rotations that
go up two levels; hash keys 0, 3 and 103 share buckets before rehashing and not after;
tables of six elements double their buckets and meet the "ineffective expansion" test.
Strings of six with a minimal room of two cross three allocation steps. One faulty
system call at every place is enough for paths that leave on the first failure; files
get two, so that the cleanup may fail too. Two requests are the least with which an
answer comes late. Texts are long enough for two separators, two escapes, a full group
of base64 and the next, a multi-byte character behind another. Character codes stand
for their class; sizes such as 57 and 45 bytes a line are scaled to 3 and 6.

Fairness. A thread that is runnable gets to run: weak fairness of each thread's own
steps. Nothing obliges a caller to push or to call `threadpool_run`, a spurious wakeup to
happen or a signal to arrive. `Scheduler` has weak fairness of the thread and of a
caller that has begun, and strong fairness of a round in which the clock has moved:
it does. `Sockets` has weak fairness of the ends that `mode.runs` names and none of
the other one, which is a remote program. `EveryWaitEnds` says that a receiver that runs
returns whatever the sender does, because it waits in `poll` with a timeout (and in
`nbaccept` in `select`), and so does the sender on a non-blocking socket with
`tcpsenddata_nb`. With `sendfile` on Linux, and in the `send` of a blocking socket, there is no
timeout: such a sender is said to return only when the receiver runs too. `EventLoop` has weak fairness of the loop,
whose poll has a timeout; `MultiSocket` of dealing with events and of time.
CHECK_DEADLOCK is off where a system may end: a destroyed pool, a clock at its
bound, a finished transfer, a text at its full length.

## 4. Proofs

A theorem holds for every value of the constants that satisfies the named assumption;
TLC evaluates the assumption on its instance, and checked each invariant below on a run
before it was proved. In each module there is a lemma per action and conjunct it can
disturb, one that puts the actions together, and the theorem. Proofs of a few pages follow
their model in its module (those about `FreeQueue` in `TaskPipeline`, which extends it), the
longer ones have modules of their own.

`LinkedQueue` holds the lemmas on the shared list: what `PushTail`, `PushHead`, `PopHead`
and the blocks of new tasks make of `OnChain` (which nodes are reachable) and of
`WellLinked` (nothing twice, `tail` the last node).

`BlockedQueue` assumes `QueueAssumption` (there is a consumer, no thread is both, NULL
is no node and no datum).

* `QueueSafety`: `Spec => [](TypeOK /\ QueueWellFormed /\ NeverAllAsleep)`. The
  conjunction is inductive: `NeverAllAsleep` says that when data is queued some
  consumer is awake or a signal is about to be sent, which a push to a queue with
  data keeps because it finds it true already, and a push to an empty one makes true.
  `QueueLinked` states the part on the list by itself.
* `QueueImplementsFifo`: `Spec => ImplementsFifo`. `PushRefines` and `PopRefines`
  show that linking behind `tail` is appending to `Contents` and that taking the head
  is `Head`/`Tail`; they need `QueueWellFormed`.

`FreeQueue` assumes `PoolAssumption` (sizes in order, at least one connection and one
attempt, NULL is none of the numbers of tasks).

* `OneOwner`: `PoolSpec => []EachTaskHasOneOwner`. A task that is pushed must not be in the
  list already, and one that is allocated must be new, so `PoolInv` says where all of them
  are: `Ownership` (a thread has a task exactly where its place in the code says so, no
  two the same), `Partition` (the tasks up to `alloc_connections` are in the list or in a
  hand, the others in neither). `TriesLeft` bounds the attempts of a thread that looked
  at the counter without the lock.
* `OwnersOnly`: `PoolSpec => StepsOfOwnersOnly`, an action property: the buffer of a task
  changes outside the lock, by the thread that has it only, and a pop gives up only at
  the limit.

`TaskPipeline` assumes `PipelineAssumption` (the threads are the producers and `Main`, who
is no producer) beside it.

* `OnePlace`: `Spec => []OnePlacePerTask`. One `next` field links a task in the pool or
  in the blocked queue, so that `Inv` has both lists `WellLinked`, `Apart` (no task in
  both, none in a hand and a list) and `Accounted` (every allocated task is somewhere),
  beside `Ownership` and `TriesLeft`. Producers, the main thread and both steps of the
  signal handler are in it.

`ConnectionPoolProofs` assumes `PoolAssumption` (natural limits, finitely many nodes,
NULL is none of the objects).

* `PoolSafety`: `Spec => [](CountsExact /\ ConnectionsAccounted)`, and `PoolCounts` its
  first part. They are not inductive alone. `IInv` adds `CallState` (what is true at each
  place of a call: a thread between its counting and its connect owns a node with an
  owner, the holder of a manager's lock is where the code holds it) and `TableState`
  (managers in the table are in use, and what was not created has no nodes). The counts
  rest on `NodeGained` and `NodeFreed`, about the cardinality of a manager's nodes; the
  lists on `ListFacts` and `ListsKept`.
* `DestroyClosesAll`: `Spec => DestroyClosesTable`, an action property, from `IInv`.

`ThreadPool` assumes `PoolAssumption` (a pool has room for a worker, NULL is no
thread and no job, the destroyer is no caller).

* `Account`: `Spec => []PoolAccount`. `Inv` has what each place of a caller
  (`CallersOK`) and of the destroyer (`DestroyOK`) implies; `JobsOK`, that a job accepted
  and not run is with exactly one worker who will run it; `ListOK`, that a worker is listed
  once and sleeps or is about to; and `SizeOK`, that `current_size` counts the threads
  there are. The crux is `AllListed`: with `current_index` at `current_size` every thread
  is on the list, by an injection between finite sets of one size, so that none of them has
  a job when `threadpool_destroy` takes that for the end of all work.
* `QuietDestroySafe`: `Spec => []DestroyAfterAllJobs`. `Spec` calls
  `threadpool_destroy` after the last `threadpool_run` has returned. That is needed:
  the run `thread_pool_racy_destroy` finds a lost job without it.

`FastTimerProofs` assumes `TimerAssumption` (finitely many entries, at least one slot;
entries, heads of slots and the list's head are different objects, none of them NULL).

* `WheelStaysWhole`: `Spec => []WheelWhole`. Pointers say nothing by themselves, so that
  `IInv` says that there are two functions on the entries: `home`, the list an entry is in,
  and `pos`, a number that falls along the list. `Members` ties `home` to what is armed,
  `Leads` and `LeadsBack` say what `next` and `prev` have to be, given the two, and
  `Collecting`, `Scanning` and `Dealing` what holds in the middle of
  `fast_timer_timeouts_get`: the run of expired entries being walked is still in its slot
  and hangs on nothing else, and the last entry collected is where the next run goes.
  `LinkKeeps`, `UnlinkKeeps`, `DropKeeps` and `SpliceKeeps` show each operation on
  pointers to be the move of an entry, or of a run, from one list to another; each action
  is then such a move. `WalkFinds`, that following `next` finds the entries of a list and
  ends, is an induction along the list, by `Least`.
* `NeverATurnLate`: `Spec => []LateByLessThanOneTurn`, from the last conjunct of `IInv`: an
  entry that waits has a time (`Timely`) at which its slot comes up, less than a turn
  after it expires, wherever `fast_timer_modify` left it.

`ServicesProofs` assumes `ServicesAssumption`, with a part for each of five units of
`MCServices`: the tasks of the loop are not the names of the pipe's entry and
of a cleared event, and a timeout's callback closes no task but its own (`LoopConstants`;
section 5 says what the code does otherwise); inodes and versions (`FileConstants`); the
laws of exponents for the widths of an id, which any naturals satisfy and no installed
prover knows (`SerialConstants`); a file shorter than what stands for
INFINITE_FILE_SIZE, and parts of it that are not empty (`TransferConstants`); requests and
headers that are not empty (`RequestConstants`).

* `LoopSound`: `ServicesSpec => []EventLoopSound`. `LoopInv` adds to it `EventsAhead` (the
  events still to be dealt with are of open tasks, one of each, or cleared),
  `TimeoutsAhead` (expired entries are out of the wheel, each once), `Lists`
  (closed tasks are in the deleted list once, open ones attached), `Timers` (an open task
  has its timer in the wheel or in the list of expired entries) and `CalledOpen`.
* `FilesAllSound`: `ServicesSpec => []FilesSound`, from three invariants. `FileInv`: in
  every directory that a power failure may leave, the current one among them, what the name
  stands for is a whole synced version not older than the last one that was reported written when the
  directory was made, and the temporary file of one is the file of none (`Stands`, `Kept`,
  `Now`); the writer touches the temporary file alone and renames it when it is whole and
  synced (`Written`), the inode of the reader is never written again (`BeingRead`). So
  a version reported written stays until a power failure, which may bring an older one back,
  always whole, and no file that was there at the failure before is lost. `SerialInv`: who reads or writes the file of serials
  holds the lock (`Locked`), and serials drawn and ids given out are different and not above
  the file's (`Distinct`); with `IdParts` (`ComesApart`), arithmetic on the shifted
  fields, an id comes apart into its parts. `DaemonInv`: the pid file names the daemon
  that is up (`NamedUp`), a command that writes it does so with no daemon up and one that
  waits waits for the one that is (`OneCommand`), and what a stop waited for is not
  running afterwards (`Stopped`).

* `TransfersSound`: `ServicesSpec => []TransferSound`, from two invariants. `TransferInv`:
  what the receiver has stored, what it holds in its buffer and what lies on the wire are
  neighbouring stretches of what the sender has sent (`Stream`, `ReceiverAt`), beside what
  each place of the sender implies for its counters, its descriptor and the socket's flags
  (`SenderAt`, `Connecting`). A stored unit is therefore the sender's unit at that place. A
  receiver that reports success has the file up to one of its ends (`EndsAt`): the whole of a
  file of known length; of an "infinite" one all in front of the trailer or of a unit of
  the file that looks like it (`UnitsFacts`, `WholeStream`). What the sender reports
  to have sent is bounded by what it sent, where it reports it: with `sendfile` it does not. `RequestInv`: the counters are the numbers
  of sockets still to be dealt with and answered (`Counted`), the sockets of a batch of
  events are attached and different (`SocketsAhead`), `remain` is what is missing of the
  stage (`Remaining`), and on a socket where no request has failed yet what is read, what
  is on the wire and what the server has still to write are neighbouring stretches of the
  answer to this request (`Unspoilt`): that is why a whole one is counted. The deadline of
  a request is one unit of time, as `MCServices` instantiates `MultiSocket`.

  Both rest on `Stretch`, `StretchCut`, `StretchJoined` and `StretchTaken`, lemmas on
  `SubSeq` and `\o`.

* `ScheduleKept`: `ServicesSpec => []SchedulerSound`, under `ScheduleAssumption` of
  `Scheduler`: intervals are positive (`sched_init_entries` refuses others), ids are not
  negative, and an interval that goes with a time base divides the day, without which the
  code itself has no one grid. `ScheduleInv` has the chain in order while nothing runs
  and, while due entries run, from the running one on (`ChainInOrder`: those that ran
  already have their next times); what was asked for in the chain or handed over, and a
  deletion that is waiting not asked for again except by what waits with it
  (`Requested`); and the times of the chain and of what waits on their grids (`Grids`),
  save for entries taken before `sched_add_entries` had initialised them. `PutsBack`
  shows that an entry that ran goes back to where it belongs; `ChainsAreWhole`, that a
  whole round of them leaves a sorted chain with the same entries: the model puts them
  back by a recursive function on the natural numbers, so that the argument is by the
  least number at which it would fail (`Least`). `WholeTimes`, `SameGrid`, `FirstOnGrid`
  and `NextOnGrid` are the arithmetic of `%` behind the grid, for the first call and for
  the `do ... while` that skips times which have passed; `GridMoves` has the clock go
  round the day.

`SupportProofs` assumes `SupportAssumption` (finitely many trunks, at least one node per
trunk, natural sizes, integer delays, texts are sequences of bytes, a cache for one line at
least, the syncer is no logger). The units of `MCSupport` run side by side, so `Inv` is
one invariant for each.

* `ArenaAndBufferSound`: `Spec => []MpoolSound`. `ArenaWhole` states `FastMpool!Sound` by
  offsets: no trunk is overdrawn, and of two blocks of a trunk one ends before the other
  begins, which a cut at the end of the used part keeps. `BytesInv` is that the buffer has
  room for the text and one byte more. `fast_buffer_check` doubles the size until it
  suffices; that it ends, and above the need, is `DoublingEnds`, by the least number at
  which it would not.
* `NodesInOnePlace`: `Spec => [](unit = "block" => Block!Exact)`. `Whole` has the three places
  of nodes apart and complete (`Placed`) and counters that agree with them (`Counted`):
  a reference count is the number of nodes of its trunk that are not free, the totals are
  cardinalities. Reclaiming takes trunks without users out of the free chain, wherever
  their nodes are in it: `Ranked` and `WithoutHas` show what is left of a sequence when a
  set of its elements goes.
* `DelayedNeverEarly`: `Spec => MblockNeverEarly`, an action property. Only
  `fast_mblock_alloc` hands out nodes, and of the delayed ones only the first, if it is
  due.
* `LogKept`: `Spec => []LoggerSound`, for any threads that log, sizes, days and faults.
  `LinesInv` has who holds the lock from what each thread is doing (`LockOK`; the
  syncer's test of the cache, `log_notify_rotate` and the reopen do without), the line in
  a logger's hand as the last one accepted (`HandsOK`), room for it when it is put
  (`RoomOK`), the files in order before the cache, none younger than the name
  `log_rotate` would give, and no line in a file more than a day after the file's date (`FilesOK`,
  `Filed`), which is why deleting whole files never takes a line too early, and what
  `current_size` may miss at a write (`SizeOK`). `Spread` has every number accepted at one
  place: `PartedMoves` and `PartedAdds` show that a step which moves all lines of some places to
  another keeps it. `TurnFiles` is what `log_check_rotate` does whether the rename and the
  open work or not, and `CacheEmptied` the write to the file, to stderr or in vain.

Model-checked only:

* liveness (`EveryPushIsPopped`, `TasksComeBack`, `QuitWakesSleeper`, `AskedJobsRun`,
  `DestroyReturns`, `EveryTaskRuns`, `EveryWaitEnds` and the rest), which is out of the
  prover's reach with its fairness and ENABLED;
* the containers, the texts and the calendar, whose promises need induction over data, and
  the other properties of modules that reach a recursive operator (`MCContainers` and
  `MCTexts` with all their units);
* of `AllocatorExact` the part on `fast_allocator.c`, whose account is a sum over a set of
  pools: `NodesInOnePlace` is the part on one pool.

## 5. Not modelled, and what the passing runs keep away from

Not modelled: `Pipe.h` and `Combinator.h` (thin wrappers of standard containers and
algorithms); md5, `local_ip_func`, `system_info`, `io_opt`, `pthread_func` (arithmetic
without state, queries of the system); bmpread; munit, gtest and gmock; tinytime,
pprint, wink, bstrwrap; the debug, io and meta helpers; of date.h the build that uses
the facets of the locale; of bstrlib the failures of memory; socket options; formatting
and wording of log lines; `free_queue_destroy`, the peek and count helpers of the queues,
`fast_timer_slot_get` and `conn_pool_get_connection_count`, which read or tear down
without affecting the properties; locks of hash buckets and of an mblock, with more
than one caller.

The code does not cope with the following. Guards, or the choice of inputs, keep the
passing runs away from it, and each is named where the model does so. Properties in brackets
are stated in the modules and are false: checked in place of the properties of a
run's configuration, through the run's instance of the module and with the constants
given here where they differ, each has a counterexample.

Threads and queues

* `blocked_queue_terminate` signals without the lock: a main thread that has read
  `g_continue_flag` and has not reached `pthread_cond_wait` sleeps until the next push.
* The wait of a `pthread_pool` worker has no loop: a spurious wakeup runs the last job
  again and enters the worker twice.
* `connection_pool`: a connection below a reused one stays idle for ever
  (`IdleIsClosed`, under `FairSpec`, 2 threads, 1 manager, 2 nodes, no limit); a failed
  `hash_insert` doubles the limit (`LimitPerServer`, limit 1).
* `sched_thread.c:238`: a deletion that meets the entry while it is being executed is
  lost (`DeletedIsGone`).
* `ioevent_loop`: a timeout callback that closes the saved next entry
  (`OthersOnTimeout = TRUE`).
* `hash_insert_ex` (`hash.c:687`) looks for the key and links it in two critical
  sections; `log_reopen_ex` (`logger.c:204`) changes the file without the lock and a
  failed write (`:922`) drops the buffer; a skiplist reader may return an unequal element
  beside an insertion (`multi_skiplist.c:384`, `SkiplistFindReturnsEqual`).
* `fast_allocator.c:46` checks the limit before it rounds (`WithinAllocLimit`).

Sockets, files, processes

* `tcprecvfile` and relatives leave descriptors open on some errors, `tcpsendfile_ex:1375`
  among them, and `:1424` returns the result of an interrupted call
  (`TransferSentMeansSuccess`).
* `sockopt.h:478` says that `tcpsendfile_ex` stores the bytes sent in `total_send_bytes`. On
  Linux it does so only when it fails before it sends: the line that stores them,
  `sockopt.c:1474`, is in the `#else` of `#ifdef OS_LINUX`, and the caller's variable keeps
  what it held (`TransferCountStored`).
* `tcpsendfile_ex` makes a non-blocking socket blocking (1383) and calls `sendfile` (1411-1433)
  without its `timeout`; a peer that stays connected and does not read holds it for
  ever, and so it holds `tcpsenddata` in `send` on a blocking socket
  (`TransferSenderReturns`).
* `tcprecvfile` of an "infinite" file takes any error of `recv`, a timeout too, for its end,
  and compares the last 8 bytes with the number of those before (1138-1181): a file cut off behind 8
  bytes that happen to hold that number is accepted as whole (`TransferWholeFile`).
* `multi_socket_client`: an answer to an earlier request is counted for the next
  (`RequestOwnAnswer`), and with no time left the loop does not sleep.
* `safeWriteToFile` (`shared_func.c:1250`): two writers share one `.tmp`; the directory is
  not forced out after the rename (1262), so that a power failure may undo a write
  that was reported as done (`FileNothingTakenBack`); `getFileContent:1121` leaks on a
  failed read.
* `id_generator` excludes processes, not threads of one process, reads the time after
  the unlock and does not sync. `process_ctrl`: two starts race, a crash leaves an empty
  pid file, and stop signals whoever has the pid now.
* `http_func.c:205` leaves the socket open when the answer does not fit.

Configuration and texts

* ini: `iniFindAloneTag` (1956-1970) and `#@for` with an invalid range or step 0
  (2583-2619) never end; text behind the last `{$i}` is dropped (2547); `#@set` of
  included files is skipped and its offset not reset (2079-2127, `SetIsSupported`); the
  room of a for block (2511).
* `getAbsolutePath` and `getExeAbsoluteFilename` of "/a"; `parse_bytes` with an unknown
  unit; `parse_cidr_ips` keeps host bits (`WholeNetworks`); `load_allow_hosts` leaks on
  errors.
* `json_parser.c`: one byte too few for a map (512), `\b` read as a form feed (149);
  `base64.c:271` counts separators; a query parameter without `=` ends the query
  (`http_func.c:376`, `QueryPassesOver`); `fast_char_convert` drops the last character
  of a full buffer (144).
* utf8.h: `utf8spn`/`utf8cspn` and the last code point (`SpanLooksAtAll`), the order of
  `utf8casecmp`, `utf8ncat` of 0, `utf8rchr` past the terminator.
* bstrlib: `bsplitstr` skips a character behind a separator (`BStringSplitsAtEvery`),
  `bssplitstrcb` at the edge of a read (2526-2569, `StreamSplits`), odd sizes of
  `bfromcstrrangealloc` (253-260, `RangeRoomy`), the sign of `bstrnicmp` (676-704,
  `CaselessOrder`), NUL in `bstrcmp` (957). bstraux: `bUuDecodeEx` may not end
  (620-683, `UuDecodeEnds`), `bJustifyRight` and `bJustifyCenter` of a line that just
  fits, `bNetStr2Bstr`, `bStrfTime`.
* uthash: `HASH_SELECT` leaves the destination without its tail
  (`UtHashSelectKeepsTail`).
* date.h: `%e` with its blank (4734), `%H` with `%I` (5445), `%Y` with `%y` in centuries
  before 0 (5296), `%F` in the years -99 to -1 (3463) and `%D`, `%x` in negative ones,
  a lone "." (4288), blanks at the end of the stream (5283), month and day without a
  year (5392).
* `str.cpp:38`: `replaceAll` never ends when `to` contains `from`, joins pieces into new
  matches, and always returns false. `Dispatcher.h:146`: enabling an unknown name inserts a
  null process (`KeepsRunning`), and replacing one enables it again (`:111`).

Recognizer

* `colLineRange2DArray` has room for the ranges of two thirds of the rows (`demo.c:310`) and
  nothing checks it; the model's list of ranges has no bound.
* The segment buffer has room for half the row and one (`SegmentsFit`, with
  `Pictures <- TinyPictures`, `Junk <- ZeroPoint`, `Lines = 2`).
* `_locate_col_line_coord_range` pairs units from index 0 whatever the colour of the
  first: a frame that touches the edge adds too few ranges. The sheets have margins.
* `_try_to_get_answer_area_range` counts a run of rows only when a later row breaks it
  and keeps its maximum across columns. The strokes keep away from the frame's lines.

## 6. Plan

1. Several callers of one hash table and of one mblock.
2. date.h with the facets of the locale.
