# Models of the CS:APP programs

The repository is a set of study notes around one body of code: the programs of
*Computer Systems: A Programmer's Perspective* under `src/CSAPP/code`. Most of
them are a screen long. A few are real small systems, with state, concurrency
and failure: the bounded buffer, the servers built on threads, processes and
`select`, the Tiny web server, the job-control shell, the dynamic memory
allocator with its driver, and the robust I/O package. Others are small, but are
about one thing that is hard to get right: readers and writers, shared counters,
signal handlers. And there are nine files of functions that combine the elements
of a vector in every way a compiler or a processor may like. All of these are
modelled here. Paths below are relative to `src/CSAPP/code`.

Contents: [inventory](#inventory), [modules](#modules-and-the-code),
[runs](#runs), [fairness](#fairness), [proofs](#proofs),
[disagreements](#where-the-code-and-its-comments-disagree),
[not modelled](#what-is-not-modelled), [plan](#plan).

## Inventory

### Bounded buffer: `conc/sbuf.c`, `conc/sbuf.h`

*State*: `buf`, `n`, `front`, `rear`, and the semaphores `mutex`, `slots`,
`items`. *Operations*: `sbuf_init`, `sbuf_insert`, `sbuf_remove`,
`sbuf_deinit`. *Callers*: `prodconsn.c` and `echoservert_pre.c`, by function
call from several threads. *Hard*: every interleaving of the statements between
two semaphore operations; indices that only grow; a wakeup that is lost.
*Correct when*: the mutex excludes, the semaphores count what is available, the
indices stay inside the array, the whole behaves as an atomic bounded FIFO, and
every item comes out in the end.

### Producer and consumer: `conc/prodconsn.c`

*State*: two threads, their counters, the buffer. *Hard*: `main` frees the
buffer after two joins. *Correct when*: the items are consumed in order, nobody
uses the buffer after it was freed, and both joins return.

### Prethreaded server: `conc/echoservert_pre.c`, `conc/echo_cnt.c`

*State*: the shared `sbuf` of descriptors, the descriptor table of the process,
`byte_cnt` with its mutex and its `pthread_once_t`, and one `connfd` and line
for each worker. *Operations*: accept and insert (main); remove, echo, count,
close (workers). *Interaction*: a descriptor's ownership passes from main through the
buffer to a worker; the client waits for the echo of each line. *Hard*:
descriptor numbers are reused as soon as they are closed; lazy initialisation by
the first worker; a client that dies makes an error wrapper exit the server.
*Correct when*: one holder per open descriptor, each client gets its own echoes,
every byte is counted once, the initialisation happens once and first, and
everyone is served.

### Select server: `conc/echoservers.c`

*State*: the `pool` (maxfd, read_set, ready_set, nready, maxi, clientfd,
clientrio). *Operations*: `init_pool`, the `Select` and `Accept` of `main`,
`add_client`, `check_clients`. *Hard*: `ready_set` and `nready` are a snapshot
that is used while the pool changes; the loop over the clients stops early;
slots and descriptors are freed and reused in different orders; lines arrive in
parts, and buffered input must survive from one pass to the next. *Correct
when*: the parts of the pool agree, no ready client is passed over, the echo is
the input in order, and everyone is served.

### Shell: `ecf/shell.c`

*State*: the job list, what `main` is doing, and the children as the kernel
sees them. *Operations*: `eval`, the built-in `fg`, `bg`, `jobs` and `quit`,
`addjob`, `deletejob`, `updatejob`, `getjob`, `waitfg`, the SIGCHLD handler.
*Interaction*: the handler interrupts `main` anywhere and writes the same list;
signals merge while one is pending; `waitpid` in the handler and in `waitfg`
compete for the same children. *Correct when*: no job is lost, one is in the
foreground, stops are recorded, every zombie is reaped, and the shell comes back
when its foreground job ends or stops.

### Allocator: `vm/malloc/mm.c`, `memlib.c`, and its driver `mdriver.c`

*State*: the words of the heap, `mem_brk`, `heap_listp`, `rover`; in the driver
the blocks of the trace and the list of ranges. *Operations*: `mm_init`,
`mm_malloc`, `mm_free`, `mm_realloc`; `add_range`, `remove_range`,
`eval_mm_valid`, `eval_mm_util`. *Hard*: long sequences of legal calls; splits
at the minimum block size; coalescing under the next-fit rover; a heap that
fills up in the middle of `mm_realloc`; sizes near the width of `int`. *Correct
when*: headers and footers agree and tile the heap, neighbours are coalesced,
payloads are disjoint and keep their data, and the heap grows only when it must.

### Robust I/O: the `rio_` functions of `src/csapp.c`

*State*: `rio_t` (fd, count, pointer, buffer). *Operations*: `rio_readn`,
`rio_writen`, `rio_readinitb`, `rio_readnb`, `rio_readlineb`. *Callers*: every
network program. *Hard*: short counts, EINTR, EOF in the middle, two readers
of one buffer. *Correct when*: no byte is lost or doubled, and each call returns
the bytes it promises.

### Readers and writers: `conc/rw0.c` to `rw3.c`

*State*: the semaphores, `readcnt`, and in `rw3.c` the units a writer has
collected. *Operations*: `reader`, `writer`, endless loops. *Hard*: the first
reader in waits for `w` while it holds `mutex`; a writer of `rw3.c` takes N
units one at a time, and gives them back one at a time without the lock.
*Correct when*: a writer is alone, and nobody is shut out who should not be.

### Shared counters: `conc/badcnt.c`, `goodcnt.c`, `psum-*.c`, `race.c`, `norace.c`, `sharing.c`

*State*: a global sum or an array of sums, a mutex, and the cells through which
`main` passes each thread its number. *Hard*: lost updates; a cell that `main`
changes before the thread has read it; `main` reading sums of threads that still
add. *Correct when*: the results are right where the program promises them, and
each thread has a number of its own.

### Signal handlers: `ecf/procmask*.c`, `signal1.c` to `signal4.c`, `sigsuspend.c`, `waitforsignal.c`

*State*: the mask, one pending SIGCHLD, the job list or the flag `pid`. *Hard*:
the handler runs between any two calls of `main`; three ends may raise one
signal; a signal that comes before `main` starts to wait for it. *Correct when*:
the job list is the set of live children, no zombie stays, and `main` never
waits for a signal that has already been handled.

### Echo servers with processes and threads: `conc/echoserverp.c`, `echoservert.c`, `echo.c`

*State*: a descriptor table for each process, the descriptor that `main` hands
over (copied by `fork`, or in a block of its own), the children. *Hard*: a
connection is closed when the last copy of its descriptor is; descriptors and
`connfd` are reused at once. *Correct when*: each connection has one worker,
clients get their own lines, and what a client used is given back.

### Tiny: `netp/tiny/tiny.c`

*State*: the connection it serves, the lines read, the file and its mapping, the
CGI child. *Operations*: `doit` and the functions it calls, each with early
returns. *Interaction*: the CGI program writes to the connection after the
server's headers and before its `Close`. *Hard*: a client that closes in the
middle of a request or of an answer. *Correct when*: the answer is the one to
the request, complete and in order, nothing is kept from one client to the next,
and one client's request does not keep the next one from being answered.

### Combining functions: `opt/combine.c` and eight older versions of it

*State*: the loop index and the accumulators. *Operations*: some 65 functions in
each file: a main loop unrolled up to 20 times into up to 20 accumulators or
vectors, and a loop for what remains. *Hard*: limits and remainders for every
length; alignment; one wrong accumulator among twenty. *Correct when*: each
combines exactly the elements that `combine1` does.

### The rest

`echoserveri.c` and `echoservert_cnt.c` (variants of what is modelled), the
process examples, timing code, exercises in caches, data and linking, and the
notes outside `CSAPP`. See [not modelled](#what-is-not-modelled).

The hazards that come with all this, each with its line and the properties that
would notice it, are listed in `PROJECT.json`.

## Modules and the code

| Module | Models | State and steps |
|---|---|---|
| `BoundedFIFO` | nothing: what the comments of `sbuf.c` promise | a queue and the progress of each call; an insert or a removal is one step |
| `Sbuf` | `conc/sbuf.c` | one step per statement; `++rear` and `++front` are a load and a store; C's `int` arithmetic with its wrap and its signed `%` |
| `ProdCons` (extends `Sbuf`) | `conc/prodconsn.c` | `main`, the loops of both threads, over the statements of `Sbuf` |
| `PrethreadedServer` (uses `BoundedFIFO`) | `echoservert_pre.c`, `echo_cnt.c`, `netp/echoclient.c` | one step per statement of `thread` and `echo_cnt` that touches shared state |
| `EchoSelect` | `conc/echoservers.c`, with the Rio calls it makes | one step per system call and per turn of the loop in `check_clients` |
| `Shell` | `ecf/shell.c` | one step per place where the handler may interrupt; `updatejob` is a find and a store, `addjob` a pid and a state |
| `Malloc` | `mm.c`, `memlib.c` | pure functions from memory to memory, word by word |
| `MallocDriver` (extends `Malloc`) | `mdriver.c`: `eval_mm_valid`, `eval_mm_util` | one step per request of a trace |
| `MallocHuge` (extends `Malloc`) | one `mm_malloc` of any `size_t` | |
| `Rio` | the `rio_` functions | one step per system call and per copy out of the buffer |
| `ReadersWriters` | `rw0.c` to `rw3.c`; `solution` says which | one step per `P`, `V` and update of `readcnt`; `units` counts a writer's `P(&sem)` |
| `SharedCounters` | the eight programs; `counter` says which | `x += e` is a load and a store, `i++` of `main` a step of its own |
| `SignalHandlers` | the nine programs; `prog` says which | `main` is a position in the sequence of its calls, the handler a machine of its own |
| `EchoServers` | `echoserverp.c`, `echoservert.c`, `echo.c`; `server` says which | one step per system call; `table[p]` is the descriptor table of process p |
| `Tiny` | `tiny.c` | one step per system call; a request is a request line, a header and an empty line |
| `Combiners` | `combine.c`, `dpb*.c`, `fpb*.c`, `lsb-O1.c`, `lpb-O1.c`, `ipb-O1.c` | one step per turn of a loop |
| `SbufProofs`, `PrethreadedServerProofs`, `EchoSelectProofs`, `RioProofs` | | theorems about the module of that name |
| `MallocProofs` | | theorems about `MallocDriver`, and with it `Malloc` |
| `ProgramsProofs`, `ShellProofs` | | theorems about the programs that `MCPrograms` composes |
| `NumberLemmas` | | least elements, remainders, induction, sums over finite sets, the total length of disjoint intervals |
| `MCPrograms` | | composes the programs that share nothing, for one run |
| other `MC...` | | the sets that the runs use |

**Sbuf and BoundedFIFO.** `Sbuf` implements `BoundedFIFO` under the mapping in
`Abstract`: the queue is the part of `buf` behind `front`, and a call takes
effect at the store of its index. `PrethreadedServer` then uses `BoundedFIFO`
itself, so that the server is not multiplied by the statements of the buffer;
the refinement is what makes that legitimate. A store of an index and the
access to the cell it selects are one step, because no other thread reaches
that cell before the `V` that follows.

**PrethreadedServer.** Accept returns the lowest free descriptor, as the kernel
does; a read or a write on the connection of a client that has died makes the
Rio wrapper call `exit` (`exited`). A line is a pair of its client and its
number, and its length is its number, so that counts of different lines differ.
The listening socket, the greeting and address lookups are left out.

**EchoSelect.** A line is two pieces that the network delivers apart, so that
`Rio_readlineb` may block in the middle of a line. `clientrio` is always empty
in the pool, as in the code: `check_clients` copies it and never stores the copy
back. A client that is killed while it waits for an echo may reset its connection, and
the Rio wrappers exit the whole server (`Fails`, `exited`); so does `Accept` when the
process has no descriptor left (`AcceptFails`). The descriptors are fewer than the slots
of the pool, so `add_client` always finds a slot, and its own error exit is out of reach.

**Shell.** `waitfg` and the handler call the same `waitpid`, modelled by what it
reports: an end (which reaps), or a stop (which it reports once). A blocked
`waitpid` is restarted after a handler, as `Signal` in `src/csapp.c` asks for
(SA_RESTART). All children are in the shell's process group, because the code
never calls `setpgid`, so a key reaches all that do not ignore it. A child is
"forked" until it has executed its program: until then it is not struck by
keys. `parseline` and `listjobs` only read; a command line is the choice of
an action. The messages are left out.

**Malloc.** Addresses, block layout and sizes are those of the code, with the
header, the footer, the prologue and the epilogue as words of the heap. Only
the widths of `int` and `size_t` and the size of the heap are smaller.
`nextFit` says which build of the `#ifdef` runs; both are checked. Driver data:
`randomize_block`'s random bytes are a different datum for every id and word,
so that a word from another block or another place in the block is noticed.

**Rio.** The bytes are numbered in the order they arrive, and any subset may be
newlines. A `read` returns any part of what is left; that covers all times of
arrival. `Interrupted` is the EINTR path, `Fails` any other error, after which a
program stops (all the callers are wrappers that exit).

**SharedCounters.** In `psum-*.c` the cells are `myid[i]`, in `norace.c` the
blocks of `Malloc`, in `race.c` the variable `i` of `main` itself. A number is
read through the cell when the thread starts, however late.

**SignalHandlers.** The mask that matters is SIGCHLD's. `sigsuspend` unblocks
and sleeps in one step. The lists of calls (`procmask2` and so on) are the text
of each `main`; `wait` is the loop that ends when `pid` is set. The calls
`addjob` and `deletejob` of the files are empty; the list is the one their
comments describe.

**EchoServers.** `fork` copies the table of the parent, so that a connection is
open as long as one process has it. Threads have the table in common. A thread
gets its descriptor in a block that `main` does not touch again.

**Tiny.** `kind` is what `parse_uri`, `stat` and the tests of the mode find out:
a page, an empty file, a missing or unreadable one, a CGI program that works,
crashes or may not be executed, a method other than GET. A write to a client
that is gone may go unnoticed, or end the server; a read may find the end of the
input, or fail and end the server too (`ReadFails`). At the end of its input a
client that has not sent the empty line leaves the server in
`read_requesthdrs` for ever: the code does not look at what `Rio_readlineb`
returns.

**Combiners.** A function is described by the number of elements of an
iteration, the limit of its main loop, the statements `target = source OP
data[i + offset]` of the body, the accumulator of the remainder and the order of
the final expression; the constructors `Parallel`, `Unrolled`, `Whole`,
`Vectors` build the regular descriptions. Each group of functions of each file
has its table, in the order of the file. The tables hold the functions that the file registers,
and `unroll4x2as`, which each of the nine files defines and none registers: its loops are
those of `unrollx2as`. An accumulator is the sequence of
element numbers it has combined, so that a lost, doubled or foreign element is
seen. Only associativity of OP is assumed (`acc OP (x OP y)` is the same as
`(acc OP x) OP y`), which floating point has only up to rounding.

## Runs

| Run | Instance | What it shows |
|---|---|---|
| `sbuf_mpmc` | 2 producers, 2 consumers, 2 slots, 5 inserts of 2 values | mutual exclusion, semaphore accounting, no lost update, refinement of `BoundedFIFO`, every item is removed |
| `sbuf_wrap` (violated) | `int` is -4..3 | an index is negative after INT_MAX inserts |
| `programs` | see below | the properties of eight groups of programs |
| `prethreaded_server` | 2 workers, 1 slot, 3 clients with 2, 1 and 0 lines, 4 descriptors, one client may die | one holder per descriptor, own echoes, the byte count and its one initialisation, everyone is served |
| `echo_select` | 4 clients, two with a line, 3 descriptors for connections, one client may die | the pool, no ready client passed over, echoes in order, everyone is served unless a reset or the fourth connection at once makes the server exit |
| `echo_pipelined` (violated) | 1 client that sends 2 lines at once | the second line is lost |
| `shell_echild` (violated) | 2 children, 2 entries, no `fg` and `bg` | the handler takes the child that `waitfg` waits for |
| `shell_keys` (violated) | the same with any `fg` and `bg` | a job continued in the background is struck by keys |
| `malloc` | a heap of 80 bytes, chunks of 32, 3 ids, sizes 1, 9, 24, traces of 5 requests, both builds | block structure, coalescing, disjoint payloads, data, rover, growth, utilisation |
| `malloc_huge` (violated) | 8-bit `int` and `unsigned`, 16-bit `size_t` | a request near 2^32 gets a block that is not there |
| `rio` | 6 bytes, a buffer of 3, counts up to 4 | no loss, right results, complete writes |
| `combine_unroll` (violated) | as in `programs` | `unroll8x8` of the older files loses elements |

The run `programs` chooses in its initial state which group of programs runs;
the variables of the others keep one value. The groups do not interact in the
repository, so nothing is lost, and each property is that of its own module:

| Programs | Instance | Properties |
|---|---|---|
| readers and writers | 3 readers, 2 writers, N = 2, each of 4 solutions | `Exclusion`, `EveryoneGetsIn` |
| `prodconsn.c` | its own NITEMS = 5, BUFSIZE = 4 | `ConsumedInOrder`, `NoUseAfterFree`, `ProgramsEnd` |
| shared counters | 2 threads, 3 iterations or elements each | `ResultsRight`, `ProgramsEnd` |
| signal handlers | 3 children | `JobsMatchChildren`, `NothingMissed` |
| shell | 2 children, 2 entries, any `fg` and `bg` | `NoLostJob`, `OneForeground`, `StopsRecorded`, `ZombiesReaped`, `WaitfgReturns` |
| echo servers | 2 clients with a line, 2 descriptors | `OwnConnection`, `Released` |
| Tiny | 2 browsers with any kinds of request, one may leave | `AnswersFit`, `AnswerArrives` |
| combining functions | all of 9 files, every length up to two iterations and one more, every alignment, vectors of 2 | `CombinersAgree` |

What some of these say is less than their name, because the code does less:
`EveryoneGetsIn` holds for readers in all four solutions and for writers in
`rw0.c` and `rw3.c` only. `JobsMatchChildren` is about `procmask.c` and
`procmask2.c`; `procmask1.c` runs in the same instance and breaks it, as its
comment says. `NothingMissed` excludes the zombies of `signal1.c`. `ResultsRight`
gives `badcnt.c` a lower bound, and leaves out the numbers of `race.c`.
`AnswerArrives` excepts a server that has exited (an empty file, which `Mmap`
refuses, or a client that is gone) or hangs in `read_requesthdrs`.
`CombinersAgree` leaves out `unroll8x8` of the older files.

Why these bounds are enough to be of interest:

- *sbuf*: two slots and five inserts fill the buffer, empty it, and take the
  indices twice around the array; two threads on each side meet in every
  statement. The proofs lift the bounds altogether.
- *prethreaded_server*: three clients against one slot and two workers make a
  connection wait in the backlog, one in the buffer, and both workers be busy;
  four descriptors are the bound that `OneHolder` gives (SBUFSIZE + workers + 1),
  and they are reused.
- *echo_select*: three clients may be connected, leave and leave holes below the
  high-water mark while others are ready; a fourth reuses a descriptor and a slot, or
  finds none. A line of two pieces gives reads of a part of a line, a line, and
  EOF; between two lines of a client the server keeps nothing of it but the slot.
- *shell*: two children are enough for a SIGCHLD that stands for two ends, and
  for a handler that deletes another job than the one `main` works on. No pid
  is used twice in these runs (`MaxForks` = `PidMax`): with a
  second use, the stale entry described below breaks `OneForeground`.
- *readers and writers*: a stream of readers needs three to hand `w` on without
  a gap; two writers of `rw3.c` can each hold a unit of two.
- *shared counters*: with three iterations `badcnt.c` may lose all but two of
  six updates, and the elements of `psum-*.c` are not all in one thread.
- *signal handlers*: three children, as in `signal1.c`; two of them end while the
  handler runs for the first.
- *echo servers*: two descriptors and two clients: the second connection reuses
  the descriptor of the first, or is open at the same time.
- *Tiny*: the second browser meets whatever the first has left behind.
- *combining functions*: a wrong limit, remainder or accumulator shows itself in the first
  two iterations, in which each statement meets an accumulator that is empty, and one that is not.
- *malloc*: 80 bytes hold the prologue, the epilogue and up to four blocks of
  the minimum size; the heap starts with a chunk, grows, and becomes
  full. Sizes 1, 9 and 24 are one that is rounded up to the minimum, one just past a
  double word, and one that needs a bigger block; five requests suffice for
  allocate, allocate, free, reallocate, allocate with all forms of coalescing.
- *rio*: a buffer that is smaller than the longest request and does not divide the
  input, so that calls span two refills and end in the middle of one.

`CHECK_DEADLOCK FALSE` is set where the system stops by design: bounded inserts
and traces come to an end, a program exits, and an idle server waits for ever.

Each property of a passing run has a mutant, a definition with a plausible
mistake beside the one it replaces (a `P` that does not wait, a counter that is not
reset, one child reaped instead of all), under which TLC finds the property
violated.

## Fairness

- *Sbuf*: weak fairness of each thread's step. A thread in the middle of a call
  is scheduled; `sem_wait` on the mutex is granted in the end, which for a lock
  held over a few statements by finitely many callers is what Linux does. Starting
  a removal is fair, since `EveryItemRemoved` is about consumers that keep calling, as the
  workers of the server do; starting an insert is not: producers may stop.
- *ProdCons*, *PrethreadedServer*: weak fairness of each thread, and of a client that
  has connected (a terminal user who types on or ends the input). Nobody has to connect,
  and death is not fair.
- *EchoSelect*: weak fairness of the server's single process, of each
  client and of the network. The network part is what makes the half-line case end; a client
  that stops for good in the middle of a line blocks the server, as the listed hazard says.
- *ReadersWriters*: strong fairness of each thread: who could have the
  semaphore again and again gets it in the end (`sem_post` wakes a waiter). With weak
  fairness nobody is safe from starvation in any of the four programs.
- *SharedCounters*, *SignalHandlers*, *EchoServers*, *Tiny*: weak fairness of each
  thread, process and handler. That a read fails (`ReadFails` of Tiny) is not fair: it
  may always be the end of the input instead. Children of the signal examples and CGI programs
  end (they are `/bin/date` and the like), and a browser that has connected finishes its
  request; an echo client may be silent for ever.
- *Shell*: weak fairness of `main`, strong fairness of the handler. A pending
  signal is delivered when a system call returns; it must be strong because
  the wait of `waitfg`, which may have something to report each time, disables
  delivery in between. Nobody has to type, and no job has to end.

The properties that claim progress are stated so that this much is enough:
`ZombiesReaped` and `WaitfgReturns` start from an event that has happened.

## Proofs

### The bounded buffer

`SbufProofs` proves, for any finite sets of threads, any n,
any integer width and any number of inserts:

- `TypeCorrect`, `Locked` (`MutualExclusion`), `Accounted` (`SemaphoresCount`),
  `NoLostUpdate` (`LoadedIndexIsCurrent`): these hold also after `front` and
  `rear` have wrapped;
- `IndicesStayInBuf` (`IndicesSelectCells`) and `FIFORefinement`
  (`ImplementsFIFO`), under `NoWrap`, that at most INT_MAX items are inserted.
  `sbuf_wrap` shows that the assumption is needed;
- `NoDeadlockInSbuf`, also after a wrap: when all calls that are under way are blocked
  (`Blocked`: the semaphore of their next `P` is 0), the buffer is full and all of them
  insert, or it is empty and all of them remove. A call from the other end then goes on;
  no calls wait for one another's `mutex`, or for slots and items that are both 0.

*Assumptions*: the named ASSUMEs of `Sbuf` (finite sets of threads, integers as
items, 1 <= N <= IntMax), which TLC evaluates in the runs, and `NoWrap` where
stated.

*The argument*. None of the properties is inductive alone. The inductive
invariant `IInv` is typing without upper bounds on the semaphores, mutual
exclusion with the value of `mutex` (mutex + threads in the critical section =
1), the accounting, and that a loaded index is the one in memory. The bound on
the semaphores follows from the accounting; the accounting is preserved by a store only
if the stored value is one more than the value in memory, which needs the loaded
index to be current, which needs the lock. `MoveCounts` is the lemma behind
every case: a thread that moves from one label to another changes the
cardinalities of the sets of threads at those labels by one.

For the FIFO, `IndicesCount` adds that without a wrap `front` and `rear` are
natural numbers with `front <= rear`, and that `rear` counts the inserts that have
been stored. `Contents` then grows at the end by `StoreRear` and shrinks at the front by
`StoreFront`; `DistinctCells`, two indices less than n apart select different
cells, gives that no other item is touched.

`NoDeadlockInSbuf` follows from `IInv`: whoever holds `mutex` is not blocked, so with all
calls blocked nobody is past the `P` of `slots` or `items`, and the accounting says
`slots + items = n`.

### The allocator

`MallocProofs` proves all that the run `malloc` checks: `Accepted` (`DriverAccepts`),
`Consistent` (`HeapConsistent`), `NoneLost` (`AllocatedAreHeld`), `Apartness`
(`PayloadsDisjoint`), `Intact` (`DataIntact`), `Utilization` (`UtilizationAtMostOne`)
and `Growth` (`GrowsOnlyWithoutFit`); for any trace of any length, ids and
sizes, any size of the heap and of its extensions, any word sizes, and both builds.

*Assumptions*: `HeapAssumption` and `DriverAssumption`, which TLC evaluates in the runs.
MAX_HEAP and CHUNKSIZE are multiples of 8, CHUNKSIZE is at least the smallest
block, and both are less than 2^31 (`config.h` has 20 MB, `mm.c` 2^12); the sizes of a
trace are positive `int`s, as `mdriver.c` reads them; and the heap has room for what
`mm_init` asks for. A size beyond an `int` is not within them, and
`malloc_huge` shows that it must not be.

*The argument*. Blocks are found in the code, and in `HeapConsistent`, by a walk
from header to header, about which nothing can be said before the headers are
known to be right. The proofs therefore start from the other end. A *layout* is a set B
of block pointers with a size `s[b]` and a bit `a[b]` for each; `Layout` says that
the blocks are aligned, large enough, and lie one behind the other from the
prologue to `mem_brk`, and `Tagged` that headers, footers and epilogue say what the
layout says. The invariant `IInv` is

- `Owns`: there *is* a layout of the heap (`Shaped`) without free neighbours
  (`Apart`) and with the rover at a block (`RoverIn`), whose allocated blocks other
  than the prologue belong to one live id each, large enough, and filled with
  that id's data (`Owned`);
- `Ranged`: the range list of the driver is that of the live ids;
- `Tallied`: `total_size` is the sum of the live sizes, and its highest value
  is within the heap;
- `Books` (types) and `DriverAccepts`.

A layout changes in one way only: what lies between two borders is replaced by one or two
blocks (`SplicedB`, `SplicedS`, `SplicedA`). Merging, splitting, marking a block and
extending the heap are all cases of it, so that `SplicedLayout`, `SplicedMemory`,
`SplicedKept` and `SplicedApart` carry the arithmetic once for all. There is a lemma for each
function of `mm.c`, in the order of the calls: `CoalesceRight`,
`PlaceRight`, `FreeRight`, `ExtendRight`, `FitRight`, `MallocRight`, `InitRight` and
`ReallocRight`. Each says that a heap with a layout is left with one, which block is
new or gone, and that all other allocated blocks are where they were, with their
payload (`Kept`). `coalesce` is the one function that meets two free neighbours, and
X in `Apart` names the block where they may be.

What the two recursive functions compute follows from the layout by
induction on the distance to the end of the heap: `FitRight` says that the search returns the first block that fits,
or that there is none (for next fit, that the two searches together see every
block, which gives `Growth`); `ChainIs` that the walk of `checkheap` visits exactly
the blocks of B, which gives `Consistent` and `NoneLost`.

Of the driver, `AllocStep`, `ReallocStep`, `FreeStep` and `FreeNullStep` show that
`IInv` is kept, also by a call that fails with the old block still held; that
`add_range` and `check_index` find nothing follows from the blocks being apart.
`Utilization` needs a fact about numbers, `DisjointSum`: intervals apart from one
another have no more elements together than the interval they lie in.

The layout is not a variable of the model, so `Owns` is not checked by TLC as it
stands; what it means for the heap is `HeapConsistent`, `AllocatedAreHeld` and
`DataIntact`, which are.

### Readers and writers

The section of `ProgramsProofs` on `rw0.c` to `rw3.c` proves, for any finite sets of readers and writers and
any N >= 1 (`RWAssumption`), that a writer is alone (`WriterIsAlone`, which is
`Exclusion`) and that no semaphore goes below zero (`ReadersWritersType`). The
invariant `RWInv` has a part for each solution: in `rw0.c`, w is 1 or has one holder; in
`rw1.c` and `rw2.c`, `mutex` has at most one holder, `readcnt` is the number of
readers between the two counts (which only the holder changes), and `w` is
held by one writer or by the group of readers; in `rw3.c`, the units that are out
and those in the semaphore are N together. There `Exclusion` needs a count: a
writer with all N units leaves none for anybody else (`WriterHasAll`). Units
are proved as a finite set of pairs of a holder and a number, whose
cardinality is the sum of what the holders have.

`ReadersWritersGoOn` is deadlock freedom: while there are threads, one of them is not
`Stuck`, at a `P` of a semaphore that is 0 (`WaitsFor` lists the places; a thread that is at none
of them always has a step). A reader or writer that waits has whoever holds the
semaphore before it, and that thread goes on; for `rw2.c` the order of the two locks counts, `wg` before `w`, and for
`rw3.c` that a writer collects its N units under `wmutex`, so that no two writers each keep a part. `QueueInv` adds these two
locks to `RWInv`. The run `programs` does not check for deadlock, since the other programs
of the composition end; this theorem does it for the threads of `rw*.c`.

### Rio

`RioProofs` proves `NothingLost` (`BytesAreKept`) and `ReturnsNext` (`CallsAreRobust`)
for any number of bytes with newlines anywhere, any size of `rio_buf`, and any
counts (`RioAssumption`). Neither property is inductive: `NothingLost` says
nothing of the bytes that a call stores, and `ReturnsNext` nothing of a call in
progress. The invariant `IInv` has a part for each:

- `Placed`: the delivered, stored and unread bytes are adjacent and end with the
  last byte taken, and the cells of `rio_buf` from `rio_bufptr` hold the unread ones;
- `Stored`: the call in progress holds the next bytes, no more than it was asked
  for, and `rio_readlineb` has passed no newline;
- `InWriting`: the bytes written are those of the calls so far;
- `Reads`, the part of `ReturnsNext` about the call before.

Each action keeps it (one lemma each); the lemmas on `Interval` say that
consecutive numbers stay consecutive when the next ones are appended, and
`StoredAsExpected` that at the end of a loop, or at EOF, what is stored is what the
call promises. `NextNewline` is a least element, which exists because < is
well-founded on the natural numbers.

### The prethreaded server

`PrethreadedServerProofs` proves `OneHolder` (`OneHolderAlways`) and the types
(`ServerType`) for any sets of clients and workers, any SBUFSIZE and any number of
descriptors (`ServerAssumption`). `OneHolder` counts; the invariant `Owned` says
the same with quantifiers: a descriptor is in at most one place (a call on the buffer,
a cell of the queue, a worker that serves it), and it is open exactly if it is
in one. It needs the types, among them that `main` only inserts and the workers only
remove, so that an argument of one call is never the result of another. Five steps
move a descriptor (`Accept`, `SbufInsert`, `SbufRemove`, `RemoveReturns`, `Close`), one
lemma each; all the others are cases of `UnmovedKeepsOwned`. That `Accept` takes a
free descriptor is `LeastElement`.

`EchoesAreOwn` (`OwnEchoes`) needs that a line is in one place: `FlowInv` says for
every client what it has been sent, in terms of the lines it has written and of the
one that its worker carries (`UnderWay`), for every worker which line it carries
(`Carried`), and that no two workers serve one client (`OneCarrier`), which is
where `Owned` comes in: a descriptor that is open has one holder.

`EveryByteCounted` (`BytesCounted`) adds `CountInv`, for finite sets of clients and
workers (part of `ServerAssumption`, since a byte count is a sum over them):
`OnceRight`, what a worker may do before, during and after the one run of
`init_echo_cnt`; `LockRight`, that from then on `mutex` is 1 or has one holder; that
a `byte_cnt` that was loaded and not yet stored is current; and the equation

    byte_cnt + the bytes of the lines read but not yet added = the bytes of all lines read

whose two sums change with one worker's step by `SumChanges`.

`ServerLivesOn`: if there are more descriptors than SBUFSIZE and NTHREADS together (16 + 4 in the
code), the server exits only after a client has died: the Rio wrappers exit at the
ECONNRESET or EPIPE of its connection, and `Accept` and `Close` never fail. Each open descriptor is in the buffer or with a worker when `main` is about to accept
(`Owned`), so one is left (`DescriptorLeft`), and a worker that reads has a client at the
other end (`PeerIsThere`).

### The select server

`EchoSelectProofs` proves, for any sets of clients, pipelined and dying ones included,
any lines and any FD_SETSIZE > 1 (`SelectAssumption`):

- `PoolsAgree` (`PoolConsistent`) and `AllReadyServed` (`NoReadySkipped`), from
  `PoolInv`. `Agree` is `PoolConsistent` at every step, with quantifiers in place
  of cardinalities; `Counted` relates `nready` to what is left of `ready_set` in
  `accept`, between two slots and while a client is served. The two meet in
  `ReadySlots`: since each descriptor has one slot, as many slots are ready as
  descriptors. `SlotForClient`, a pigeonhole argument, shows that `add_client` always
  finds a slot and its error exit is dead code.
- `WaitersInOrder`, for every client that is not pipelined, and with it
  `AllEchoesInOrder` (`EchoesInOrder`) when no client is pipelined; `echo_pipelined`
  shows that the hypothesis is needed. The invariant `LineInv` says where the
  pieces of the one line a client waits for lie: in `buf` to x, in the Rio buffer
  to y, in the socket to z, in the network the rest. `Refill`, `TakePiece`,
  `Deliver` and `Echo` move these borders; at EOF the only borders left are those of
  a line that has been echoed. So the unread part of the Rio buffer, which
  `check_clients` drops with its copy `rio`, is empty for these clients.
  `WrittenIs` gives `Written`, a fold over the lines, in closed form.

### The programs of one process or a few threads

`ProgramsProofs` proves properties of six of the parts of `MCPrograms` (and of the
readers and writers, above), each from an invariant over its own variables, from the assumptions that the modules
make about their constants (`ProgramsAssumption`):

- *prodconsn.c*: `FreedAfterUse` (`NoUseAfterFree`) from `Joined`, which follows the
  two joins; `ConsumedAsProduced` (`ConsumedInOrder`) from `PassingInv`. The
  semaphores keep `rear - front` between 0 and BUFSIZE (`SemaphoresAt`), so that the
  cells filled and not emptied are different ones, and the j-th holds j - 1
  (`CellsHold`). The proof is about the statements of `Sbuf` as `ProdCons` calls
  them, not about the abstract FIFO.
- *the shared counters*: `SumsAndIds` (`ResultsRight`) for any number of threads and
  of iterations. The invariant `CountsInv` says what each thread has added (the
  range of its loop up to `k`), that the global sum is the sum of what the threads
  have added (`SumsRight`, with `SumTelescopes` for the n(n-1)/2 of `psum-*.c`), and
  for `badcnt.c`, where loads and stores mix, bounds only (`SumBounded`): never more than
  all iterations, at least 1 as soon as a thread has stored once, and 2 at the
  end: the thread that stores last loaded a value that it or another thread
  had already raised.
- *procmask.c, procmask2.c*: `JobListRight` (`JobsMatchChildren`) from `Matched`. SIGCHLD
  is blocked from the first call to the last, so the handler runs in one place of
  `main` only, where no child waits to be added.
- *echoserverp.c, echoservert.c*: `ConnectionOwned` (`OwnConnection`). A worker's
  descriptor leads to its client whatever `main` closes, accepts and overwrites
  meanwhile (`Holders`), and no two workers lead to one client (`OnlyHolder`).
- *tiny.c*: `AnswersFitAlways` (`AnswersFit`). `Pieces` says how much of the answer has
  been sent at each place of the program text, `RightKind` which requests lead
  there.
- *the combining functions*: `CombinersRight` (`CombinersAgree`), for any length,
  alignment, `VSIZE` and associative OP. `CallInv` says that the accumulators have together
  as many elements as have been passed (`Combined`: the sum of their lengths, with
  `SumOver`) and that the union of their elements is what has been passed; an
  element combined twice, lost or foreign would break one of the two. Where there is one accumulator, it has
  them in order. The functions with an accumulator for each half pass two
  stretches at once (`HalvesRight`). What a function needs for this is `Plain`: the j-th
  statement adds element j - 1 to an accumulator that it also starts from, and the
  final expression takes each accumulator once. The tables are shown to hold nothing
  else, shape by shape (`ParallelRight`, `WholeRight`, `FourRight`, `VectorsRight`, the
  last with the two numberings of the lanes, by vector and by lane) and then file by file
  (`FunctionsRight`), but for `OldUnroll8x8`, where the sixth statement starts from another
  accumulator. `FoldLeft`, by which the model runs the body of a loop, and
  `FlattenSeq`, by which it joins the accumulators, are taken from their definitions in
  the community modules (`RunExists`, `FlatExists`: the function that each chooses exists).

### The shell

`ShellProofs` proves four properties of `shell.c`, each where the signal handler may
run between any two steps of `main`:

- `JobsKept` (`NoLostJob`), if there is a pid for each child that is ever forked
  (`ShellForks <= PidMax`) and an entry for each (`ShellForks <= MAXJOBS`). Without
  the second, `addjob` fails and the shell goes on; without the first, a pid
  comes back while the entry of its last owner may still be there. At least one entry
  is `KeptInv`, at most one is `Numbered`: pids in the list are different.
- `JobsReachable`, the half of it that holds for pids that come back too: a live child has
  an entry, so that `fg` and `bg` find it (with a stale entry of the same pid it has two,
  and `JobsKept` is false). `KeptInv` says that every child that the kernel knows has its entry and that the
  handler deletes entries of pids only that the kernel no longer knows (`Kept`), and that
  neither the entries that are taken nor the loop of `addjob` are further on in the list
  than children have been forked (`Room`), so that the loop finds a free one.
- `StopsSeen` (`StopsRecorded`) and `OneInFront` (`OneForeground`), if no pid comes back
  and no argument of `fg` or `bg` is 0 (`0 \notin PidArgs`): `atoi` gives 0 for an
  argument that is no number, and `getjob` then finds a free entry (see the
  hazards). Their common invariant `FrontInv` says of the entry that `main` is
  about to write (`Working`) that it is that of its job or has just been freed by the
  handler, which of the entries show a stop that `waitfg` has seen (`Stops`), and that
  only `main`'s own job is in the foreground, until the wait is over (`Front`).

The run `programs` keeps within these hypotheses (2 children, 2 pids, 2 entries).

### Sums and induction

The provers do not induct over data, and the induction theorems of the library take
an operator as a parameter. `StrongInduction` of `NumberLemmas` takes a *set* in its
place: if a number is in `S` whenever all smaller ones are, `Nat` is a subset of `S`. It
follows from the fact that < is well-founded. With it the lemmas on sums (`SumExists`,
`SumUnique`, `SumRemoves`, `SumEqual`, `SumChanges`, `SumTelescopes`) give what the
proofs need of `MapThenSumSet`: it is the function that is 0 for the empty set and
adds the value of any element that is removed.

### Only model-checked

Liveness (`EveryItemRemoved`, `EveryClientServed`, `ProgramsEnd`, `EveryoneGetsIn`,
`NothingMissed`, `ZombiesReaped`, `WaitfgReturns`, `Released`, `AnswerArrives`),
which the proof system does not reach under fairness. Every safety invariant of the
passing runs is stated by a theorem.

## Where the code and its comments disagree

With a run:

1. `sbuf_wrap`: `front` and `rear` are never reduced (`conc/sbuf.c:32`, 45);
   after INT_MAX inserts the index is negative.
2. `malloc_huge`: `extend_heap` passes a `size_t` to an `int` and packs it into 32
   bits (`vm/malloc/mm.c:260`, 264); `mm_malloc(2^32 - 8)` overwrites the epilogue and returns a
   pointer past the heap.
3. `shell_echild`: SIGCHLD is not blocked between `Fork` and `waitpid`
   (`ecf/shell.c:206`); if the child ends early the handler reaps it, and the
   shell exits with an error.
4. `shell_keys`: only a job started with `&` ignores the keys, not one continued with
   `bg` (`ecf/shell.c:366`).
5. `echo_pipelined`: `check_clients` works on a copy of the Rio buffer
   (`conc/echoservers.c:107`) and loses all lines after the first of a read.

6. `combine_unroll`: `unroll8x8_combine` in `opt/dpb.c:1141` and its copies in six
   other files sets `acc6` from `acc5`; elements are lost from length 16 on. The
   function is registered to be compared with `combine1` (`dpb.c:1886`,
   `benchmark.c:97`). `combine.c` has it right.

Met while modelling, without a run of their own:

- `addjob` may come after the handler has reaped the child; the entry stays, and when
  the kernel gives out the pid again there are two jobs in the list for it, and two in
  state FG (`ecf/shell.c:24` says at most one).
- `fg` and `bg` of a word that is not a number look for pid 0, which is the mark of a free
  entry, so `getjob` finds one and `Kill(0, SIGCONT)` goes to the whole group
  (`ecf/shell.c:251`). With 0 among `PidArgs`, `StopsRecorded` fails.
- `read_requesthdrs` (`netp/tiny/tiny.c:108`) never ends for a client that closes
  before the empty line, and no other client is served then.
- A request for an empty file ends Tiny: `Mmap` of length 0 fails and the wrapper
  exits (`netp/tiny/tiny.c:170`).
- When the shell's job list is full a job runs without an entry (`ecf/shell.c:73`); if it stops,
  nobody can continue it. With `verbose` set the handler calls `printf` (`ecf/shell.c:304`), which
  may interrupt a `printf` of `main` and wait for its lock.
- `add_range` looks whether either end of a new range lies in an old one
  (`vm/malloc/mdriver.c:544`), and so accepts a range that contains an old one.
  The property `PayloadsDisjoint` is therefore stated for every kind of overlap and does not
  rely on the driver's verdict.

## What is not modelled

- *`echoserveri.c`, `echoservert_cnt.c`, `select.c`*: variants of what is modelled.
- *Parts of Combiners' files*: the inner comparison programs of `opt` other than these nine;
  the time a function takes; `int` counters of the SIMD versions for vectors of 2^31 elements;
  empty vectors, on which the pointer versions compare addresses in front of the array
  (`benchmark.c` uses lengths 31 and more); rounding.
- *Running out of descriptors by somebody else's use, failing `fork` and `malloc`* in
  the small programs: their wrappers exit.
- *The rest of csapp.c*: error wrappers of one call, `open_clientfd`,
  `open_listenfd`, number formatting. The wrappers' effect (exit) is part of the
  models whose runs reach it.
- *mdriver beyond the two evaluations*: reading trace files, timing, scoring and
  reporting (`driverlib.c`, `fsecs.c`, `fcyc.c`, `clock.c`, `ftimer.c`).
- *Process examples, network and file utilities*: programs that make a few library calls.
- *asm, arch, data, intro, link, mem, perf, error, and the rest of opt*: code to be compiled,
  disassembled, linked or timed; and the notes outside `CSAPP`, which hold no
  program.

## Plan

Done, in this order: `BoundedFIFO`, `Sbuf`, `SbufProofs`, `ProdCons`, `Malloc`,
`MallocDriver`, `MallocHuge`, `PrethreadedServer`, `Shell`, `EchoSelect`, `Rio`, `ReadersWriters`,
`SharedCounters`, `SignalHandlers`, `EchoServers`, `Tiny`,
`Combiners`, `MCPrograms`, `RioProofs`, `PrethreadedServerProofs`, `NumberLemmas`,
`EchoSelectProofs`, `ProgramsProofs`, `ShellProofs`, `MallocProofs`.

Next, to model:

1. A full job list in `Shell`, as a run of its own.
2. The reading of trace files and the scoring of `mdriver.c`, for a complete driver.
3. `fcyc.c`: the K-best measurement, whose loop ends when the samples agree.

What is left unproved is liveness, which stays with TLC.
