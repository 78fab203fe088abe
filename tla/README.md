# A TLA+ model of the lab programs

The repository holds solutions to the seven programming labs of CMU 15-213,
the programs of the handouts that test them, and the demo code of the course
that goes with the last lab. It is not one program but a set of small systems
programs in C. This directory models those of them that have state: the shell,
the allocator and its driver, the queue and the program that tests it, the
cache simulator and the transposes with their drivers, the bit puzzles and
theirs, the proxy, the web server and the library under them, and the demo
servers and threads.

TLC checks the models on small instances; TLAPS proves the central results
about the bounded buffer, the prethreaded server, the job list, the shell, the
proxy, the web server and the library under them, the demo servers and threads,
the cache simulator, the queue with its test program, and the drivers of the
transposes and of the bit puzzles, for every size.

## Inventory

| Part | State | Operations | Interacts with |
|---|---|---|---|
| job list (`5_ShellLab/.../tsh.c`, 611-760) | `jobs[MAXJOBS]`, `nextjid` | `addjob`, `deletejob`, `clearjob`, `maxjid`, lookups by pid and jid | read and written by the main loop and by the SIGCHLD handler |
| shell (`tsh.c`) | job list, signal mask, children | `eval`, `builtin_cmd` (`quit`, `jobs`, `bg`, `fg`), `waitfg`, handlers of SIGCHLD, SIGINT, SIGTSTP | kernel: fork, process groups, kill, waitpid, sigsuspend |
| bounded buffer (`7_ProxyLab/demoCode/conc/sbuf.c`) | ring, `front`, `rear`, three semaphores | `sbuf_insert`, `sbuf_remove` | shared by threads |
| prethreaded echo server (`echoservert_pre.c`, `echo_cnt.c`) | buffer of descriptors, byte counter, `pthread_once_t` | accept, serve, close | bounded buffer; operating system's descriptors; clients |
| allocator (`6_MallocLab/.../mm.c`, `memlib.c`) | the words of the heap, `TOP`, `mem_brk` | `mm_init`, `mm_malloc`, `mm_free`, `mm_realloc`, `mem_sbrk` | called by the driver |
| malloc driver (`mdriver.c`) | blocks, sizes and ranges of a trace | `eval_mm_valid`, `eval_mm_util`, `eval_mm_speed`, `add_range` | allocator |
| queue (`0_CProgrammingLab/.../queue.c`) | linked list with head, tail and size | `q_new`, `q_free`, `q_insert_head`, `q_insert_tail`, `q_remove_head`, `q_size`, `q_reverse` | allocates through the harness |
| harness (`harness.c`) | list of allocated blocks and their count, modes, jump buffer | `test_malloc`, `test_free`, `exception_setup`, `exception_cancel`, `trigger_exception` | SIGALRM and SIGSEGV handlers jump into it |
| console and `qtest.c` | stack of input files, command and option lists, error count, the queue and `qcnt` | the commands | queue, harness |
| bit puzzles (`1_DataLab/.../bits.c`), `btest.c`, `fshow.c`, `ishow.c` | none; points, alarm and jump buffer; none | thirteen puzzles; test of each within a time limit; display of a word | `btest` compares `bits.c` with `tests.c` |
| cache simulator (`4_CacheLab/.../csim.c`) | a linked list of lines per set, counts | one access, or two for a modify | reads a trace |
| transposes (`trans.c`, `tracegen.c`, `test-trans.c`) | two matrices; registered functions, result files | blocked transposes; validation; measurement of each function | test-trans runs tracegen and the reference simulator through the shell and files |
| proxy (`7_ProxyLab/proxylab-handout/proxy.c`, `wrapper.c`) | one thread and two descriptors per connection | read request, forward, relay the answer | robust I/O, sockets; clients and origin servers |
| robust I/O and sockets (`csapp.c`) | `rio_t`; list of addresses | `rio_writen`, `rio_readnb`, `rio_readlineb`; `open_clientfd`, `open_listenfd` | all network programs |
| tiny web server (`tiny/tiny.c`) | the connection served | request, static file, program in a child, error page | clients, files |
| echo servers (`echoservers.c`, `echoserveri.c`, `echoserverp.c`, `echoservert.c`, `select.c`, `echoclient.c`) | pool of clients with `select`; processes; threads | accept, echo, close | clients; SIGCHLD |
| thread demos (`badcnt.c`, `psum-*.c`, `race.c`, `norace.c`, `sharing.c`) | a shared counter, array or argument | increments, sums | threads |
| bomb and attack labs | none | notes on binaries | none |

Where the difficulties are, and what makes each part correct:

* **Shell.** A handler may run between any two instructions where its signal
  is not blocked, handlers nest, signals are not queued, children may stop, be
  continued and die at any time, and the process group of a child appears only
  some time after the fork. Correct means: the job list and the children
  agree; at most one job is in the foreground and none at the prompt; the wait
  for the foreground job ends; zombies are reaped; the shell survives.
* **Bounded buffer.** Any number of threads; each of the two functions takes a
  counting semaphore, a mutex, two memory steps, and releases. Correct means
  that it is a bounded FIFO queue.
* **Prethreaded server.** The operating system reuses a descriptor as soon as
  it is closed. Correct means: one owner for each open descriptor, exact byte
  count, bounded number of descriptors, every connection served and closed.
* **Allocator and driver.** A word is a header, a footer, a list node or data
  depending on who reads it; the footer of an 8-byte block is overwritten by
  its own list node; merged blocks stay on the list marked until the next
  search; a trace starts on what the last one left. Correct means: blocks tile
  the heap, the list holds the free blocks, nobody touches the data of the
  caller, and each pass of the driver sees the same blocks.
* **Queue, harness, console.** Allocations fail on purpose, and the time limit
  leaves an operation by `siglongjmp` between any two stores. Correct means: the
  queue is a deque as long as no operation was cut, and what a cut can do is
  delimited: which errors are counted, which blocks may be left, and when the
  program can fault.
* **Cache and data lab programs.** Pointers that go stale when a list is
  emptied, moves through a destination that still holds parked values, result
  files of earlier runs, an alarm that belongs to an earlier function, and
  arithmetic at the edges of 32 bits.
* **Proxy, web server, echo servers.** Short counts and interrupted calls,
  clients that reset or stall, servers that break off, descriptors that are
  used again, threads and processes that inherit connections, signals that are
  not queued. Correct means: no byte is lost, each client gets its own answer,
  every whole request is answered, and connections are released.

The hazards are listed with their source lines in `PROJECT.json`.

## Modules

| Module | Models | State and actions |
|---|---|---|
| `FifoQueue` | what the bounded buffer promises | `q`; `Put`, `Get` |
| `SBuf`, `MCSBuf` | `sbuf.c` | the struct's fields, `pc` and `item` per thread; one action per semaphore operation and memory access |
| `SBufProofs` | theorems about `SBuf` | |
| `EchoServerPre`, `MCEchoServerPre` | `echoservert_pre.c`, `echo_cnt.c` | `SBuf` by INSTANCE for the buffer, plus open descriptors, worker program counters, the counter and its semaphore |
| `EchoServerPreProofs` | theorems about `EchoServerPre` | |
| `JobTable` | the job-list functions of `tsh.c` as operators | |
| `JobList` | what the main loop, the handler, and `bg` and `fg` do to the list | the list, and the job pointer of a command under way; `AddJob`, `AddJobFails`, `DeleteJob`, `StopJob`, `FindJob`, `TestState`, `SetState` |
| `JobListProofs` | theorems about `JobList` | |
| `TinyShell` | job control of `tsh.c` | main-loop `pc` and locals, signal mask, pending signals, stack of handlers, state and pending signals of every child |
| `TinyShellProofs` | theorems about `TinyShell` | |
| `MmMalloc` | `mm.c`, `memlib.c` as operators from memory to memory | |
| `MmDriver` | `eval_mm_valid`, `eval_mm_util`, `eval_mm_speed` of `mdriver.c`, for every trace | memory, blocks of the trace, the trace itself, the pass and the position in it; a request of each kind per pass |
| `Deque` | what `queue.h` promises | `contents`; one action per operation |
| `Harness` | `harness.c` | blocks, count, modes, jump buffer |
| `CQueue` | `queue.c` | fields of the queue and of its elements; one action per store or call of malloc and free |
| `Console` | `console.c`, and the block accounts of `report.c` | stack of files, errors, quit flag |
| `QTest`, `MCQTest` | `qtest.c`: main, command handlers, signal handlers | composes `CQueue`, `Harness` and `Console` |
| `QTestProofs` | theorems about `QTest`: the queue, its harness and its console | |
| `LRUCache` | an abstract cache with LRU replacement | |
| `CSim` | `csim.c` | lists of lines by pointers, counts; one action per access |
| `Trans` | `trans.c`, `tracegen.c` | the matrices, a list of moves; one action per loop nest of a block |
| `TransTest` | `test-trans.c` and the files and statuses it goes through | |
| `Bits` | `bits.c` and `tests.c` as operators on sets of bits | |
| `BTest` | `btest.c`, `decl.c` | function and value under test, alarm, jump buffer, points |
| `FShow` | `fshow.c`, `ishow.c` | arguments left, what was shown |
| `LabProofs` | theorems about `CSim`, `TransTest` and `BTest` | |
| `MCLabs` | instance: one of csim, tracegen, test-trans, btest, fshow/ishow | |
| `Rio` | `rio_writen`, `rio_read`, `rio_readnb`, `rio_readlineb` | bytes to be sent, on the wire, in `rio_buf`, in the buffer of the caller |
| `Sockets` | `open_clientfd`, `open_listenfd` | addresses left, sockets open |
| `CsApp` | both of them side by side | those of `Rio` and `Sockets`, which share none |
| `Proxy` | `proxy.c`, `wrapper.c` | descriptor table, main thread, threads, clients |
| `Tiny` | `tiny.c` | the connection served, the queue of clients, the files |
| `NetProofs` | theorems about `CsApp`, `Proxy` and `Tiny` | |
| `SelectPool` | `echoservers.c` | the pool's fields, bytes on each connection |
| `EchoServers` | the other four echo servers and the client | holders of each connection, processes or threads, SIGCHLD |
| `EchoDemos` | both of them side by side | those of `SelectPool` and `EchoServers`, which share none |
| `ThreadDemos` | seven thread programs | shared variables, each thread's registers |
| `DemoProofs` | theorems about `ThreadDemos` and `EchoDemos` | |
| `MCNet` | instance: one of `Rio`, `Sockets`, `Proxy`, `Tiny`, `SelectPool`, `EchoServers`, `ThreadDemos` | |

`EchoServerPre` composes itself with `SBuf`; `TinyShell` and `JobList` share
`JobTable`; `MmDriver` is the environment of `MmMalloc`; `QTest` composes the
queue with its harness and console and refines `Deque`; `CSim` refines
`LRUCache`; `SBuf` refines `FifoQueue`. The programs of `MCLabs`, and those of
`MCNet`, do not share state: the variable `mode` chooses one of them, and the
others stay in one initial state. Definitions named as a mutant in their
comment are wrong variants of the definition after them, kept to show that a
property notices the error.

### How the models follow the code

*Bounded buffer.* `sbuf_insert` is P(slots), P(mutex), `++rear`, the store,
V(mutex), V(items); each is an action, so that all interleavings of those
steps occur. `front` and `rear` are not reduced modulo n in the code and are
not here either; `IntMax` bounds them. The refinement to `FifoQueue` maps the
queue to the slots between the stored rear and the loaded front: an insert
takes effect at its store, a remove at its load.

*Prethreaded server.* `accept` returns the lowest number that is not open, so a closed
descriptor comes back at once. `byte_cnt += n` is a load and a store. An error
of an RIO call exits the process (`RioError`).

*Shell.* A step of the main loop is the code between two points where a
handler could run and be noticed. `Deliver` pushes a handler frame when a
pending signal is not blocked, with the mask that `sigaction` gives (the
signal itself, no `sa_mask`), and the code runs on only when no unblocked
signal is pending. The SIGCHLD handler is `ChldWaitpid`, then `ChldUpdate` with
all signals blocked, and `ChldReturn` at the end. The key handlers read
`fgpid` and kill in a second step. `sigsuspend` changes the mask and sleeps
atomically. A child is forked in the group of the shell, calls `setpgid`, then
`execve`; until then it has the handlers of the shell and a copy of the job
list without a foreground job, so a key that reaches it is swallowed;
afterwards it may exit, stop, or be signalled at any time. A `Kill` that
fails ends the shell (`aborted`), as `unix_error` does. `bg` and `fg` find a job
pointer, test the state, write it, read the pid and kill in separate steps, for
the SIGCHLD handler may run between any two of them and clear the job; what they
write then lands in a free slot, and what they kill may be gone. The parsing of a
command line is left out: a command is foreground or background or a builtin,
or the end of the input. A `fg` or `bg` argument names a job of the list or
fails without effect.

*Allocator.* Memory is a function from word addresses to unsigned numbers
below `WordMod`; headers are a size and three flag bits, pointers are
addresses, and the reading side decides which it is, so that a footer
overwritten by a node is read exactly as the code reads it. `TOP` is a word
of that memory, which makes `&TOP` an ordinary predecessor. A call runs to
its end (one thread), so each function is an operator; a read or write outside
the memory gives `Crashed`. The list walk of `get_target_block`, which unlinks
the nodes marked -1U and remembers the best block, is stated by its result:
`Unlinked` and `BestFit` (the first block of the least sufficient size).
The globals `block_size` and `prev_node` are set in the same branch as the
result and used directly after, so they are fields of the result.
`dbg_heap_check` is part of `FreeListExact`; with `DEBUG` defined it does not
compile (mm.c:588 lacks a parenthesis), and it is modelled as it is meant.

*Malloc driver.* A trace of at most `MaxTrace` requests is remembered as it is
made up, and when it has passed `eval_mm_valid` it is run by `eval_mm_util` and
`eval_mm_speed`, each from `mm_init` on the words the last pass left; longer
traces (up to `MaxRequests`) have one pass only. `ftimer_gettod` calls the
speed pass a fixed number of times; here it may be any number.

*Queue lab.* A step is one store that the rest of the program can see, or one
call of malloc or free; the alarm may come between any two. `test_malloc` and
`test_free` link a block and count it in two statements, so the count of the
last call waits in `adj` and is lost by a jump. A local of a handler that is
not volatile may have its old value after the jump. An allocation may fail
once the option is set. `BigQueue` is `big_queue_size`, above which elements
are freed without a look at the list of blocks.

*Cache and data labs.* The lists of `csim` are records with next pointers in a
memory of `Lines`, of which malloc gives any that is free; each set has a head
and a tail, which may be stale. A transpose function is its sequence of
moves between cells, in the order of its loop nests, on the matrices the lab
prescribes. test-trans and the programs it runs are linked by exit statuses
and by files that survive from an earlier run. A word is the set of its one
bits, and addition is defined by its carries, so overflow wraps; a shift takes
its count modulo 32, which is what the x86 does where C leaves a shift by 32
undefined. The puzzles are compared with integer and float values. The alarm of `btest` may come at
any time after it was set, also when the next function runs.

*Network programs.* `Rio` is at the level of bytes: `read` and `write` transfer
any part, are interrupted or fail. The programs above it use its results
(lines), except `SelectPool`, whose defect is in the buffer itself and which
has bytes. In `Proxy` a uri is a host, a port, a path up to its first colon and what follows
that colon, since `parse_request` stops at the first colon wherever it is; what is
copied to `port` beyond its six bytes is no port in any case. All threads share
the descriptor table; a failing
`pthread_create` or `close` and a server that breaks off are bounded together
by `MaxFaults`; clients may say nothing, reset or stay, and servers may not
listen or not answer. In `Tiny` each
wrapper exits the process on an error, a file may be removed between `stat`
and `open`, and the child of a dynamic request writes to the connection
itself. In `EchoServers` a connection is held by a set of processes and is
released when the set is empty. In `ThreadDemos` an access to a shared variable
is one step.

## Runs

| Run | Instance | What it shows |
|---|---|---|
| `sbuf` | 2 producers, 2 consumers, 2 slots, 4 inserts, 2 values | the buffer is a bounded FIFO queue; semaphores account for the ring |
| `echo_server` | 2 workers, 1 slot, 5 connections, 5 descriptor numbers | `ConnectionsAccounted`: one owner per descriptor and a bound on them; exact byte count; every connection closed |
| `job_list` | 3 slots, 5 processes | `SlotsCoherent`: the searches agree on which slots hold a job, and a late write of `bg` or `fg` never hits another job; pids unique; ids lead to their job until they wrap |
| `shell_safety` | 2 slots, 3 children, 1 key or outside SIGKILL, all builtins | `ShellConsistent`: job list and children agree; `KillsMissOnlyReaped`: a kill by the main loop fails only for a process reaped since its pid was read |
| `shell_wait` | 2 slots, 2 children, 2 keys or outside signals, without `fg` and with the list never full | `ForegroundDiscipline`: one foreground job, none at the prompt; stopped jobs marked, `waitfg` returns, zombies reaped |
| `allocator` | traces of 7 requests, 4 blocks of 8, 16 and 24 bytes, heap of 80 bytes; traces of 5 requests in all three passes | `HeapConsistent`: tiling and free list; `DataKept`: the data and the driver's checks; best fit; the only two ways to crash; `PassesAgree`: utilisation at most 1, same blocks in each pass |
| `qtest` | scripts of 4 commands, nested source files, 6 blocks, failing allocations, 1 time-out | the queue refines `Deque`; `QueueConsistent`: an undone insertion leaves nothing; `DamageNeedsCut`, `CommandsEndClean`: what a cut can lead to; console blocks given back; every script ends |
| `labs` | see Bounds | csim refines `LRUCache` and frees every line; `TransposesJudged`: the functions transpose and tracegen tells which; `ReportIsRight`: test-trans reports what it measured; `PuzzlesCorrect`: puzzles equal their references, but for the words `float_i2f` misrounds; `ChargesAreRight`: the alarm of btest; fshow exact |
| `net` | see Bounds | `LibraryExact`: bytes and sockets; `ProxySafe`, `TinySafe`, `EchoesRight`, `DemosExact`: each program's safety; `EveryoneServed`: liveness of all of them |

A property that is a conjunction has its parts defined and explained one by
one before it, and `PROJECT.json` lists a mutant for each part.

Runs that end in a counterexample, each a place where the code does not do
what its comment or its own check says:

| Run | What happens | Line |
|---|---|---|
| `fg_lost_wakeup` | `fg` calls `waitfg` with SIGCHLD unblocked; the signal comes before `sigsuspend` and the shell sleeps for ever | tsh.c:385 |
| `realloc_shrink` | the header of a shrunk block grows; memory is given out twice | mm.c:277 |
| `proxy_fetch` | a uri with a port and a path is not found, and a zero byte ends a line of the reply | proxy.c:144, proxy.c:99 |

Other behaviour that the models contain and that their properties step around:

* `addjob` wraps `nextjid` without looking whether the id is in use (tsh.c:655),
  so `JidFindsJobBeforeWrap` speaks of the time before the wrap. With four slots
  and six processes `JidFindsJob` fails: start three jobs, end the second, start
  two more, and the last has the id 1 of the first.
* `bg` and `fg` set a state through a pointer to a job that the handler may have
  cleared since (tsh.c:347, 357, 594, 598), so a free slot may have the state FG
  or BG. `SlotFree` is stated by what the searches by pid and by jid see, and
  excludes only ST, the state that `bg` and `fg` would act on. `fgpid` searches
  by state, finds the free slot and returns 0 although another job is in the
  foreground: `FgpidFindsForeground` fails in `shell_safety`, and ctrl-c then
  does nothing. `ForegroundDiscipline` is checked without `fg`;
  `shell_safety` and `job_list` have it.
* `bg` or `fg` may end the shell: the process is reaped between the reading of its
  pid and the `kill`, which fails with ESRCH (tsh.c:348, 358, 595).
  `KillsMissOnlyReaped` says that this is the only way.
* A key before `setpgid` or after the reaping makes the `kill` of the handler
  fail, which exits the shell (tsh.c:460); no property speaks of it.
* With a full job list `ZombiesAreReaped` does not hold: the child that
  `addjob` had no slot for is killed, the handler meets a pid it does not know
  and leaves its loop (tsh.c:420-422), and another zombie that came with the
  same SIGCHLD stays. `MaxForks = 3` in `TinyShellWait.cfg` shows it. In which
  order `waitpid` returns two zombies is not specified; the model allows both.
* `float_i2f` shifts a number of 25 bits by 32 for its sticky bit (bits.c:403):
  undefined in C, and on the x86 the number unchanged, so that 0x01000001, half
  way between two floats, is rounded up and not to even. `PuzzlesCorrect` excepts
  these words (`Misrounded`) and no others; `FloatI2fEquivalent`, what the
  comment of `float_i2f` says, fails in `labs`.
* The proxy asks for the wrong file, or at the wrong port, when a path has a colon
  (proxy.c:132). `RelayedReply` says of such a request, and of one with a port
  and a path, only that its client gets nothing but what its own server
  answers to the part before the colon.
* `listbgjobs` reads a job several times with SIGCHLD unblocked (tsh.c:502), and
  a ctrl-c that reaches a child before its `execve` is swallowed (tsh.c:204).
  Both interleavings are in the model; neither changes state a property is about.
* `malloc_new_block` reads the size of an 8-byte free block from its list node
  (mm.c:339), and `mm_realloc` copies to the NULL that `mm_malloc` returns at
  the limit of the heap (mm.c:285). A crash ends the process;
  `CrashesAreKnown` says that it needs one of these two situations, and the
  other invariants speak of states in which the trace goes on.
* A request that fails has already taken the free block at the end of the heap
  off the list (mm.c:342), so the free list is exact only for callers that stop
  at the first NULL. mdriver is such a caller.
* A time-out in an insertion is not counted, one in a removal leaves a
  freed element in the queue, and one in an insertion at the tail leaves a tail
  that may be freed before the queue is done with it (`CommandsEndClean` and `DamageNeedsCut` say which
  commands they exclude, and why).
* test-trans takes a crash of tracegen for a success when the shell it was
  started by has replaced itself (`CorrectMeansValidated`).
* Tiny ends for a client that resets, for an empty file and for a file removed
  between `stat` and `open`, and loops on headers that end early
  (`TinyStopsOnlyFor`).
* The select server loses lines that arrive together (`LockstepEchoed` speaks
  of clients that wait for each line) and waits for the rest of a line
  (`LockstepServed`).

### Bounds

* `sbuf`: two producers, two consumers and two slots are the least with two
  threads contending on each side and a ring that wraps; four inserts go round
  twice.
* `echo_server`: with one slot, main, two workers, a descriptor can wait in
  main, in the buffer and at each worker at the same time, and five connections
  reuse numbers.
* Shell: two slots and three children fill the job list and overflow it; two
  children suffice for the interplay of a foreground and a background job. One
  key in the large run, two in the smaller one, so that a stop is followed by
  another event. In `job_list` five processes on three slots
  reuse each slot.
* `allocator`: seven requests are enough for four allocations, three frees in
  any order and for three allocations, three merging frees and a search, which
  is the longest life of a marked node; 80 bytes make requests fail. Sizes 4, 8
  and 20 give blocks without and with padding, of 8 bytes (no room for footer
  and node) and more. Five requests give a later pass a heap with a free block,
  a split and a move in it. The choice of the least free index only names
  blocks. `WordMod` is 2^12 instead of 2^32: above every address, so that only
  the wrap of the code's own unsigned arithmetic matters.
* `qtest`: six blocks are the queue, two elements with their strings and one
  more, so that an insertion can fail at either allocation; four lines allow
  creating, filling, a cut operation and one that meets what it left; one
  time-out, two `source` commands on a stack of two files, verbosity with and
  without the queue shown, `BigQueue` of 1 so that both ways to free occur.
* `labs`: csim with one set bit and one block bit, five addresses with three tags
  in one set and two offsets in a block, one and two lines per set and the
  invalid -1, five trace lines, a memory of five lines (all that two full sets
  and a line just added can take); the matrices of the lab (32x32, 64x64, 61x67) and
  small ones with edges; one or two registered functions of each behaviour;
  `TEST_RANGE` 3 around the edges of each argument plus two words, one time-out;
  for `float_i2f` also numbers of 23 to 31 bits, of both signs, with each pattern of the
  last bit kept, the first dropped and the rest, and with a carry into the exponent
  (no value of `btest` itself has 25 bits);
  display of words on both sides of each change of exponent, two arguments.
* `net`: streams of six bytes through a `rio_buf` of three and user buffers of
  at most four, so that lines cross refills and exceed buffers; three
  addresses; two clients, threads and four descriptors for the proxy, one
  fault; two clients for Tiny, one removed file; three clients and six
  descriptors for the select server, two of them waiting for their echo and one
  that sends two lines at once or half a line; two echo clients with two lines
  on each of four servers; two threads of three rounds.

CHECK_DEADLOCK is FALSE where the system may stop: the bounded number of
inserts and connections is used up, the user types nothing more or the shell
has quit, the process has crashed or the requests are used up, all pids are
used, servers have no clients left (`net`). `qtest` and `labs` check for
deadlock: their programs stop only by ending.

### Fairness

`SBuf`, the allocator and the programs of `MCLabs` have safety properties and
refinements only. In `EchoServerPre` every thread is weakly fair, because each
is scheduled; a semaphore is a step that is enabled while it is positive. That
a client ends its connection (`ReadEOF`) is assumed of clients: the server is
not able to serve others with a worker whose client never leaves. In
`TinyShell` the shell is scheduled and delivers its signals (weak fairness of
main loop, handlers, delivery), a child reaches `execve` and its signals take
effect. Nothing is assumed of the user, of other programs or of the programs
children run: `WaitfgReturns` starts from a process that has ended or has
stopped. In `QTest` the program makes steps; the alarm need not strike. In
`MCNet` the main loop and each thread, process and signal delivery of a server
are weakly fair, as the scheduler and the kernel guarantee; a client reads what
has arrived (`ClientReads`), and nothing else is assumed of clients and origin
servers: they may stall, reset or never close, and the liveness properties name
the cases in which that stops a sequential server.

## Proofs

`tlapm` proves the theorems listed in `PROJECT.json`, for every value of the
constants. They assume only what is stated in the modules, in named assumptions
that TLC evaluates on each run:

* `SBufAssumption`: finite disjoint sets of threads, `N` positive.
* `EchoAssumption`: the same for the server, whose main thread is not a worker and
  for which 0, the value of a slot never used, is no descriptor of a connection.
* `MAXJOBSAssumption`, `MaxPidAssumption`: at least one slot; a natural number.
* `DemoAssumption`: at least one thread, numbered from 0, and one round.
* `CSimAssumption`: shifts of 1 give positive numbers (the provers do not know it
  of `^`), an associativity other than 0, and a finite memory in which no line is
  at the null pointer.
* `TransTestAssumption`: at least one function is registered (`trans.c` registers its
  functions unconditionally), and each works, is wrong or crashes.
* `BTestAssumption`: every function of the table has an integer rating.
* `HarnessAssumption`, `QTestAssumption`: a natural number of blocks and of files,
  integer levels; `LinesAssumption`: what a line of commands parses to has the type
  of its command, so that an insertion has a string of `Strings`.
* `ProxyAssumption`: finite sets, a thread for each connection, no
  descriptor 0 (it is open when the program starts), and requests without a
  port or for 80 or 8080, of any path.
* `RioAssumption`, `SocketsAssumption`: the streams are sequences of bytes, a
  line, the buffer and the connection hold at least one byte, and the number of
  addresses is a natural number.
* `SelectAssumption`: a descriptor set with room for a connection; a finite set of
  clients, each with one of the three habits, and 0 is no client.
* `EchoServersAssumption`: a finite set of clients without 0, which is main, and
  one of the four servers.

Two theorems have a hypothesis beyond these: those of the shell about a job in the
foreground exclude the built-in command `fg`, and the one about the replies of
the proxy asks for two descriptors for each client. Both are necessary. `do_bgfg` marks the slot of the job it has found as in the
foreground while the SIGCHLD handler may just have emptied it, which `fgpid`
then takes for the foreground job; `shell_wait` therefore checks the two properties
without `fg` as well. With one descriptor less, connect may fail for a
client, whose connection the proxy then closes without a word.

### Bounded buffer

`SBufProofs`. The inductive invariant is `TypeOK /\ MutualExclusion /\
SemaphoresMatchRing`. Mutual exclusion is the equation *mutex + threads in the
critical section = 1*, and the semaphores are tied to the ring by two
equations that count the threads between a semaphore and the memory step it
allows; neither is inductive without the types and the other, since the
indices move only inside the critical section. Each action changes one of the
counted sets by one thread, so the proof has a lemma for adding and removing
one element and one step per action. From the invariant follow `TypeCorrect`,
`MutexSafe`, `SemaphoresSafe`; then `SBufImplementsFifo`, in which the store
and the load are the steps of the queue and everything else stutters (the
semaphores give `0 <= length <= N`, which makes the slot arithmetic modulo N
injective), and `RemoveReturnsOldest`. What each step does to the contents of
the ring is stated as a lemma (`RingStep`), for the users of the buffer.

### Prethreaded server

`EchoServerPreProofs`. The buffer is used as the program uses it: the theorems
of `SBufProofs` are taken over by INSTANCE, and the server's steps are
either steps of its ring or leave it alone. The inductive invariant has three
further parts. `Serving` says that a worker is in `sbuf_remove` only while it waits
for a connection. `Accounts` says that an open descriptor is in exactly one
of three places (with main before the store, in the buffer, with a worker after
the load) and that whatever is in one of them is open: this is what keeps a
descriptor number from being handed out again while somebody still has it.
`Counting` says when nobody counts yet, that the value a worker has loaded
is the counter as long as it holds the semaphore, and that the counter and what
the workers have read and not yet added make up what was received. From these
follow `ConnectionsAccountedAlways` and `ByteCountExactAlways`. The last needs
facts about sums over a set of workers, which the library has no usable
theorems for; they are proved by looking at a smallest set for which
they fail, so that no induction rule with an operator parameter is
needed.

### Job list and shell

Both modules begin with lemmas on what the searches of `JobTable` return (they
share no module of proofs: the variables of a list and of a shell differ).
`JobListProofs`: `TypeCorrect`, `SlotsCoherentAlways`,
`PidsUniqueAlways` and `JidFindsJobAlways`. A command holds its pointer across any
number of handler steps, so coherence needs the history of that pointer: its slot
holds the job it was found for or none, and since the main loop is busy with the
command nobody gives the slot away meanwhile. The ids need a strengthening: as
long as no more than `MAXJOBS` jobs were started, every id is below `nextjid`
and `nextjid` is at most one more than the number of jobs started, so the wrap
does not happen and a new id is always fresh.

`TinyShellProofs` is about the main loop, the handlers and the children
together. The invariant `Inv` says of the handlers that each blocks its own
signal and gives the mask of what it interrupted back (`Nested`), and that what
one has read is still so when it acts on it (`FramesCurrent`); of `eval` that no
SIGCHLD handler runs or will run between the fork and `addjob`
(`ChldBlocked`, `Newest`); of the list that its slots and the children not
waited for correspond one to one (`Tracks`, `Jids`); of the main loop that its
job pointer is a slot (`SlotPtr`), that a pid read from a slot is of a process with
a group, or else that slot is free by now (`LoadedPid`), that a job with a process is in the
foreground only while the loop waits for it (`Foreground`), and that a job seen
stopped has set its process group (`StoppedHasGroup`). Each part needs others:
`Tracks` is kept by `addjob` only because of `ChldBlocked`, that needs
`Nested`, and `StoppedHasGroup` needs `FramesCurrent`. From `Inv`
follow `ShellConsistentAlways`, `KillsMissOnlyReapedAlways` and
`NoForegroundAtPromptAlways`. Without `fg` a second invariant, relative to
`Inv`, gives `ForegroundDisciplineAlways` and `StoppedJobIsSTAlways`; with
`fg` both are false, for it marks a slot whose job a handler may just have
deleted.

### Proxy, web server and their library

`NetProofs`. For the proxy, `DInv` relates the descriptor table to its users: a thread's
descriptors refer to its own client and server (`ThreadDescriptors`), no
connection has two descriptors and no client two threads (`OneDescriptor`,
`OneThread`), threads and descriptors belong to clients that were accepted, the
connection main has just accepted has no thread yet (`MainDescriptor`), and
every descriptor in use has somebody to close it (`Owned`). A number can be
given out again as soon as it is closed; that it is then nobody else's
is what `OneDescriptor` and `OneThread` are for. Two counting arguments are
needed: a thread is left for each connection, and a descriptor is left for the
server of each client. `Replies` follows a request from the client to the thread
and its reply back: what the client has and what the thread has left are the
reply to what `parse_request` makes of what the client asked. The results are `DescriptorsOwnedAlways`
and `ProxySafeAlways`.

For Tiny, `TInv` has three parts. `TClients` is a set of any size and a client may
be in any state, so `TClient` says for each of them that it has nothing yet, or all that
was promised, or is the one served; `ServesAt` says for each label what the server
knows of that client (that it has sent a first line, that the file was found)
and, where it has stopped, why; and `Made` what it has made of the request so
far: the lines sent up to that label are the beginning of what `Decide` prescribes
for the request, and all of it at the close. Two things happen outside of the
server at any time, a reset and the removal of a file, and either takes
the client out of those of which `Made` speaks and weakens nothing else. The result
is `TinySafeAlways`.

For robust I/O, `RInv` says that the bytes are conserved: `Conserved` states that there
is a function which adds up, call by call, what was returned, and that its last
value, what the call in progress holds, and what is in `rio_buf`, on the
wire and not yet written make up the stream, in this order. A step moves bytes
from one of these places to the next, and concatenation is associative; nothing
else is needed, but `CallUnderway` (a call in progress is not complete, and
its line has no newline) is, for a short count to mean the end. That
the recursive `FlattenSeq` of the property has the value this function gives
is proved at a least index (`DeliveredIs`). For the sockets, `SocketsAt` says for each label
which descriptor is open: the one of the attempt under way, and at a return
the result. `CsApp` puts the two side by side; the result is
`LibraryExactAlways`.

### Thread demos and echo servers

`DemoProofs`, for any number of threads and rounds. The invariant counts
what each thread has done so far. For the programs that sum, `Did(t)` is the sum
of the numbers of its slice up to its `i`; the locked sum is the total of these
over the threads (`Locking`, with the mutual exclusion it needs and the register
that is current until the store), and the others have it in their own slot or
register (`OwnSums`). The last step is that the slices meet: the total
telescopes to *n(n-1)/2*. For `badcnt.c`, `Racing` says that the counter, and
whatever a thread is about to overwrite it with, is at most the number of
rounds made, which gives the upper bound; that the counter is 0 only before the
first store; and that 1 is only ever stored by a thread in its first round, which
gives the lower bound 2. A total over the threads is stated by its partial
sums, whose uniqueness is proved at the least index where two differ, and main's
last loop (`Result`) satisfies its recursive equation because the invariant
supplies a function that does. The result is `DemosExactAlways`.

For the echo servers with a worker for each connection and those without, for any
number of clients and of lines, `EInv` follows a connection from main to its
worker. Before a thread has copied it (`OwnCell`, `Of`) the connection is in a
cell of its own; each worker has another connection (`OneWorker`), and the one
main is busy with has none yet (`Accepted`). A worker is therefore left to start:
those started have different clients, and the client just met is of none of
them (`WorkerLeft`, by cardinalities). Whoever serves a connection has its
descriptor (`Holding`), so that the server does not drop it while it is
served. With this the line that a client waits for is always on its way, once
(`OnItsWay`), and what it printed as echoed is what it typed (`Printed`); a line
may be lost only after the server has dropped the connection.

For the server that selects, `SInv` states at every label what `PoolConsistent`
states between two calls: slots and open descriptors are one to one, the read set
and the two marks follow them (`Slotted`, `Watched`), and a descriptor is read
only in a slot that is used (`Reading`). `Whole` says that nothing of a
line of a client in lockstep stays behind in the copy of the buffer. The count of
bytes is `SumFunction` of lengths of `FlattenSeq`, both defined by recursion.
Instead of an induction over the data the invariant has functions that satisfy
the two recursive equations for what was sent so far (`Flattened`, `Counted`),
each step extends them, and their uniqueness follows from a least index and
a smallest set where two of them differ. The result of both parts is
`EchoesRightAlways`.

### Cache simulator and lab drivers

`LabProofs`. For the cache simulator, for any trace, geometry, associativity and memory. `Chain(i, s)` says
that the lines `s` are the list of set `i`: linked from head to tail, as many as
`cnt`, at most E, no line and no tag twice; the tail of an empty list may be
anything. `Chains` says that such lists exist, are disjoint, and are all that is
in memory, so that a write to one list leaves the others alone and a line malloc
returns is in none. `HitMoves` and `MissAdds` show, for each order of the stores
of `move_node_to_tail`, `add_tail` and `rmv_head`, which list they leave behind.
The loop of `search_cache` is a function of the number of steps (`Walk`); that
it visits the list, and that it stops at the first line with the tag, is proved
at a least index, not by an induction rule. `StepKeeps` then shows that the
invariant `CInv` is kept and that the step is a hit, a fill or an eviction of
`LRUCache`, or the end of the program, or changes nothing there. From it follow
`CountsMatchLinesAlways` and the refinement `CSimImplementsLRU`.

For test-trans, for any list of functions and whatever files an earlier run left:
what one evaluation knows of the next passes only through statuses and
files, so `TTInv` says what those hold of the function at hand, and only for the labels
between the program that writes one and the one that reads it (`AtHand`): the
status kept in `flag`, the trace valgrind wrote, the trace cut out of it, the
misses counted. Outside of these nothing is said of a file, since anything may
be left in it. `Registered` says that the submission found is behind or at hand,
`Validated` and `Evaluated` what is recorded of it at each label and that the functions
after it leave it so. The result is `ReportIsRightAlways`.

For btest, for any ratings and options and with an alarm at any moment: `Armed`
says that an alarm that is pending is of the function under test, and then there
is a place in it to jump to, or of an earlier one; `Charged` that a function is
behind when it loses its points, so that it does so once; `Balanced` that what was
taken off the points is what the functions in `Lost` are worth. The property adds
these with a fold that takes the elements of a set in an order of its own, while the
program takes them as they fail. So the invariant has a function on the subsets of
`Lost` that satisfies the equations of the fold, each loss extends it
(`ChargeAdds`), its value does not depend on the order (`AnyOrder`), and
it is the only such function (`OneTotal`): the last two at a smallest set where they
fail. The result is `ChargesAreRightAlways`. `PointsExact` spoke at first only of
runs without a wrong puzzle; the proof showed that it holds for all, and it says
so now.

### Queue, harness and console

`QTestProofs`, for any number of blocks, any strings, any command lines and files,
any number of time-outs, and whichever allocation fails. There are two
invariants, because most of what is promised has to hold after a time-out too,
when the list may be in any state.

`Base` holds whatever was cut short. `Flow` says which command can be at which
label and what its locals are there; `Modes` how the harness is set there;
`Account` and `Counted` which blocks the console has and which errors are
counted or will be; `Count` relates `allocated_count`, with the one block that may
be linked and not yet counted (`adj`), to the blocks there are. The queue may be
damaged, but not beyond `Region`: everything its fields, its elements, freed or
not, and the locals of an operation point to is in a set of blocks without
the queue object. This is what keeps `q_free` and the others from
writing through a stale pointer into the queue, and it is inductive because a
block that malloc returns is added to the set. `Locals` and `Tailed` say
what an operation has checked of its pointers, and that a queue with a head has a
tail unless an insertion at the tail was cut. From `Base` follow `CommandsEndCleanly`,
`ConsoleBlocksAreKept` and half of `DamageNeedsACut`.

`Shape` holds as long as no removal and no insertion at the tail was cut. It says
that there is a sequence `es` of cells, each with a string of its own, and, label
by label, how `head`, `tail`, the locals and the rest of the memory stand to it;
during `q_reverse` the first `k` of them point back. An insertion at the head
may be cut: its element is either in the list or lost, and a tail that
was set before the head points to a cell outside of the list, which is why
`tail` is only required to be the last element if nothing was cut. A lost cell
is harmless because nothing reads through it. A reversal may be cut: once it has
turned an element, the list is its first element, and what was behind it is lost. The lemmas on
lists (`TailList`, `ConsList`, `AppendList`, `TurnList`, `ReverseList`, `CutList`) say
what each kind of store makes of a list in any heap; each store of the code is
then one lemma named for it (`UnlinksShape`, `SetsHeadShape`, `TurnsShape`...).
From `Inv == Base /\ Shape` follow the rest of `DamageNeedsACut` and
`QueueIsConsistent`, for which `WalkIs` shows that following `next` from the head
visits `es` and stops.

`QueueRefinesDeque`: the contents of the deque are the strings of `es`
(`ContentsAre`), read back from `prv` and on from `lp` during a reversal
(`TurnedTexts`). `QueueContents` goes through the stores of an operation: one of them
is the step of the deque, namely `q->head` for an insertion at the head, the
`next` of the last element or `q->head` for one at the tail, the free of the string
for a removal, the last store of `head` for a reversal; all others leave the
contents alone, also the stores that take the list through states in which it
is not a list from `head`. `OtherContents` does the same for the handlers and the
console, and for the time-out, after which the deque promises nothing.

The attempt to prove them corrected two properties that TLC had passed within its
bounds, and TLC confirmed both on larger instances. A cut *insertion* may lead to
freed memory as well: cut between the stores to `tail->next` and `q->tail`, it
leaves a tail that lags behind, which two removals free and the next
insertion at the tail writes to (seven blocks and six lines). And `new` may be cut
in its `do_free` and again in `q_new`, which counts one error and not two.

Each of these invariants was checked by TLC on a small instance of the module
before it was proved. The invariants `TypeOK` of the bounded buffer and of the job list are
proved and not checked again by their runs.

### What is only model-checked

All liveness (`WaitfgReturns`, `ZombiesAreReaped`, `EveryConnectionClosed`,
`Terminates`, `EveryoneServed`), which is out of the prover's reach; what
the runs that expect a violation show; and these invariants:

* `HeapConsistent`, `DataKept`, `PassesAgree` of the allocator and its driver: a call
  of the allocator is one step, an operator made of walks over blocks and list nodes
  in a memory where every word may be read as a header, a footer, a node or
  data, so that the proof needs a theory of these walks before its first invariant;
* `PuzzlesCorrect` and `ShownIsExact`: arithmetic on 32-bit words as sets of bits,
  whose carries and values need an induction over the word;
* `TransposesJudged`: which functions are right for which of the lab's matrices. It is a
  fact about these sizes, and TLC goes through all of them.

## Not modelled

Listed with reasons in `PROJECT.json`. In short:

* input and output: splitting and parsing of lines and options, messages,
  tables of results, log files; the formats of trace files;
* of `tsh.c` `sigquit_handler`; of `mdriver.c` the runs of libc's malloc; of
  `console.c` the network branch of `cmd_select` and files longer than its
  buffer; a file that sources itself until descriptors run out;
* of `csapp.c` the unbuffered `rio_readn`, the wrappers of other system calls
  and the signal-safe printing, and its three further copies in the
  repository; a retry of `wrap_rio_readlineb` after EAGAIN, which blocking
  sockets do not give; a failing `Fork` in Tiny, and the second copy of Tiny;
* the demos that run one thread or print one line (`hello.c`, `hellobug.c`,
  `rand.c`, `rand_r.c`, `ctime_ts.c`, `tfgets-main.c`, `hostinfo.c`);
* the overflow of the indices of the bounded buffer after 2^31 inserts, which
  is outside `IntMax`; sizes near 2^32 in `mm_malloc`; the outcomes other than
  wrapping that C allows for signed overflow in `bits.c`, and other than an
  unchanged word for a shift by 32;
* the bomb and attack labs, which are notes on binaries.

## Plan

The modules were written in the order bounded buffer, prethreaded server, job
list, shell, allocator, queue and its test program, cache and data labs, proxy
lab and demos. The proofs went from the bounded buffer to the server that uses it,
from the job list to the shell, then to the proxy, the thread demos, the cache
simulator, the queue with its test program, Tiny and the library, the echo
servers, and the drivers of the cache and data labs. What could be proved next are the
operators of the allocator: encoding lemmas of headers and footers, what each
operator leaves unchanged, and then `HeapConsistent`.
