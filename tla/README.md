# A verification of c2go-libc in TLA+

c2go-libc is a C library for C programs that c2go translates to Go. Most of it
is C (`csrc/`, some of it imported from musl), which is translated like the
program itself; under the C there is a layer of Go (`*.go`) that stands where a
kernel and a thread library would stand: goroutines for threads, channels for
wake-ups, slices of the Go heap for `malloc`. The package `mlib` is a second
version of some of it for C whose memory the Go collector does see.

This directory holds TLA+ modules of the parts of the library in which order
and interleaving decide, TLC configurations that check them on small
instances, and theorems about the components that goroutines share, checked by
TLAPS for every instance. File names are relative to the root of the repository.

    tlc -config MCSync.cfg MCSync            # one run
    tlapm ThreadProofs.tla                   # one module of proofs

## 1. The system

### 1.1 Components

Every component keeps its state in one of three places: in C memory that the
Go collector does not look into, in Go objects that some registry keeps
reachable for C, or in the kernel. What makes the library hard is that the
three have to agree while goroutines call in any order.

| Component | State | Operations | What is hard, and what makes it correct |
|---|---|---|---|
| Handle tables, `handle.go` | registry, generations and free list per table, behind an RWMutex; an id in each C object | alloc, get, free, lazyInit; each client's destroy | first uses race; double close; recycled slots. *An id never denotes another object than its own; what C still names is rooted; nothing is rooted for ever* |
| Allocator, `malloc.go` | registry of slices, free list, header before each block | malloc, calloc, realloc, aligned_alloc, free | the header is written after the lock is gone; the collector takes what is not rooted. *A live block is rooted and keeps its bytes; a stale free does nothing* |
| Semaphores, `internal/posixsync/semaphore.go`, `sem.go` | count, queue of waiters, a channel per waiter | init, wait, trywait, timedwait, post, getvalue | a timer against a post. *Tokens are neither lost nor made up; first come first served* |
| Mutexes, `internal/posixsync/pthread.go` | a sync.Mutex, owner, count | lock, trylock, timedlock, unlock, for three kinds | ownership is a word beside the lock. *Exclusion; unlock by another fails; nobody waits for ever* |
| Condition variables, same file | queue of channels, lock | wait, timedwait, signal, broadcast | lost and swallowed wake-ups; a timed-out waiter that blocks with the lock held. *No signal is lost; the depth of a recursive mutex comes back* |
| Read-write locks, same file | an RWMutex, a flag | rdlock, wrlock, their try and timed forms, one unlock | one unlock for two modes. *A writer is alone; the unlock releases the caller's mode* |
| pthread_once, `thread.go` | two words | once | *The initializer runs once, and is complete when anybody returns* |
| Threads, `thread.go` | record per thread: done channel, result, detached and reaped words, id | create, exit, join, detach, self | finish, join and detach race to free. *Retired once; the result goes to one join or to nobody* |
| Thread-specific data, `pthread_key.go` | map per goroutine, deleted flag per key | create, delete, getspecific, setspecific, destructors at the end and at collection | destructors that set values. *Each value destroyed once, none forgotten, every run ends* |
| Signals, `signal.go`, `csrc/signal.c` | handler table, a channel and a pump goroutine per signal | signal, sigaction, raise | table and pump change in two steps. *A handled signal does not kill; pumps end* |
| FILE locks, `stdio.go`, `internal/posixstdio`, `csrc/stdio.c` | recursive lock per FILE, list of open files and its lock | flockfile, fopen, fclose, fflush(NULL) | lock order; a FILE freed under a walk. *No circle of waiting; everything is flushed* |
| FILE buffers, `csrc/stdio.c` | eight pointers and flags per FILE | getc, ungetc, putc, fread, fwrite, fgets, getdelim, fseek, ftell, rewind, fflush, setvbuf | one buffer for two directions; short transfers; failures part way. *The stream looks like a sequence of bytes with a position* |
| Child processes, `popen*.go`, `system_unix.go`, `csrc/stdio.c` | table of commands, pipe ends, children | popen, pclose, system | every step may fail; children inherit descriptors. *No descriptor, entry or zombie is left; pclose returns* |
| Process end, `csrc/exit.c`, `internal/finalize` | two registries, hooks and their lock | atexit, at_quick_exit, exit, quick_exit, abort, finalize | handlers that register and exit. *Each handler once; no byte that is owed left in a buffer* |
| Environment, `process.go`, `csrc/env.c` | Go's environment, a cache of C copies, the environ array | getenv, setenv, putenv, unsetenv, clearenv | copies go stale, arrays leak. *getenv's pointer stays valid; environ shows the environment* |
| mlib search containers, `csrc/mlib/search.c` | tree, table, queue | tsearch, tfind, tdelete, twalk, hsearch_r, hcreate_r, insque, remque | rotations far from the change; growth that fails. *Ordered, balanced, found* |
| Directory streams, `internal/posixdir`, `dirent*.go`, `csrc/dirent.c` | a descriptor, a batch of entries | opendir, fdopendir, readdir, rewinddir, closedir | failures half way; a directory that changes under its reader. *Every descriptor has one owner; an entry that stays is read once* |
| Descriptors, `io*.go`, `fsops.go`, `fd_alloc_unix.go` | the kernel's table, the virtual 0, 1 and 2 | open, close, read, write, dup, pipe, fcntl, flock | new descriptors are moved past the reserved numbers in several system calls. *Each call looks like one step on a table* |
| FILE life cycle, standard streams, `csrc/stdio.c` | the FILE, its descriptor | fopen, freopen, fdopen, fclose | a descriptor swapped under a FILE; every step may fail. *Every FILE has the file it was opened on* |
| Memory streams, same file | an array, its size, a position | fmemopen, open_memstream, fopencookie | the end of the array, growth that fails. *The same stream of bytes* |
| Formatted stdio, same file | a FILE or string, a format, arguments | printf, scanf, strto..., their wide forms | pushback over a refill, buffers of %m, counts that overflow, rounding. *What the grammar of a number and the format say; no buffer lost or freed twice* |
| Wide stdio, same file | bytes put back, half a surrogate pair | fgetwc, ungetwc, fputwc, fgetws, fputws | a character over the end of the buffer. *No character lost, doubled or made up* |
| Multibyte strings, `csrc/multibyte.c` | an mbstate_t | mbrtowc, mbsrtowcs, wcsrtombs and the like | a conversion cut anywhere. *Cut or whole, the same* |
| iconv, `iconv.go`, `csrc/iconv.c` | a decoder and an encoder per descriptor | iconv_open, iconv, iconv_close | codecs that never fail hide what was malformed. *It stops where it says* |
| mlib carriers, `mlib/pthread.go`, `mlib/sem.go` | a pointer in the C object | as in the root package | first users race with a compare-and-swap. *One engine per object* |
| mlib stdio, `csrc/mlib/stdio.c` | a managed FILE around a raw one, its lock, its roots, the list | as in the root package | fclose against waiting calls. *The raw engine and what it points to stay rooted; one goroutine works on it* |
| mlib glob, scandir | per call | glob, globfree, scandir | a recursion over one buffer; memory that ends. *All that match, in order, or what there was before* |
| Locale, intl, time, random, math, dl, other managed C functions | mostly per call | | arithmetic and tables |
| File system calls, configuration, terminals | none | one system call each | translation of arguments and errno |
| Jumps, errno, goroutine-local storage | goroutine stacks | setjmp, longjmp, errno | assembler |
| Windows layer, generated assembler, headers, self-tests | | | |

### 1.2 How they interact

* C calls Go with an integer id (`HandleTable`), never with a Go pointer; each
  of the nine root tables (mutexes, conditions, rwlocks, semaphores, threads,
  directories, file locks, commands, iconv) is an instance of the same code.
  `mlib` holds direct pointers and needs no table (`SyncCarriers` has both).
* `pthread_cond_wait` unlocks and relocks a mutex; `Pthread` has both.
* Every stdio call runs under its FILE's lock; `fopen`, `fclose` and
  `fflush(NULL)` also take the list's (`StdioLocks`). Under the locks a FILE is
  sequential (`FileBuffer`), and so is what reads numbers,
  formats and wide characters through it.
* FILEs and directory streams own descriptors. `FdTable` shows that a call that
  creates, closes or redirects one is atomic to C although it is several system
  calls; `FileLife` then uses the atomic calls of `DescriptorMap`.
* A managed FILE of mlib is a raw FILE of the root package with a lock of its
  own (`ManagedFile`); what a call does inside is the raw engine's.
* scanf reads numbers with the functions that strtol and strtod are made of
  (`ScanStream`), so both are held against one grammar (in `MCText`).
* `pclose` is `fclose` (which closes C's pipe end) and a wait for the child;
  which of the processes then sees the end of its input is `Popen`.
* `exit` runs handlers, then the hooks of `internal/finalize` (mlib's flush is
  one), then the root package's flush, which must be last because a cookie of
  an mlib stream may write to a root stream (`Exit`). To flush a cookie is to
  run user code in the middle of either walk.
* A thread that ends runs the destructors of its keys (`ThreadKeys`) and then
  publishes its result (`Thread`); the two share no state.

## 2. Modules

| Module | Models | Composed with |
|---|---|---|
| `HandleTable` | `handle.go` | implements `HandleMap` |
| `HandleMap` | abstract: objects, roots and carriers, no ids | |
| `Malloc` | `malloc.go` | |
| `Environ` | `process.go`, `csrc/env.c` | |
| `Semaphore` | `internal/posixsync/semaphore.go` | |
| `Pthread` | `internal/posixsync/pthread.go`, mutex and condition variable; `thread.go`, PthreadOnce | |
| `RWLock` | same, rwlock part | |
| `Thread` | `thread.go`, one record | at its end, the promise it implements |
| `ThreadKeys` | `pthread_key.go` | |
| `Signals` | `signal.go`, `csrc/signal.c`, one signal number | |
| `StdioLocks` | the locks of `csrc/stdio.c` and `stdio.go` | |
| `FileBuffer` | one FILE of `csrc/stdio.c` over what is behind it | implements `ByteStream`; at its end, the instance of it |
| `ByteStream` | abstract: a sequence of bytes and a position | |
| `Popen` | `popen.go`, `popen_unix.go`, `system_unix.go` | |
| `Exit` | `csrc/exit.c`, `internal/finalize/hooks.go` | |
| `SearchTree`, `HashTable`, `LinkedQueue` | `csrc/mlib/search.c` | |
| `SyncCarriers` | `pthread.go`, `sem.go`, `mlib/pthread.go`, `mlib/sem.go` | the engines above, one step per call |
| `ManagedFile` | the FILE of `csrc/mlib/stdio.c`, `mlib/stdio.go` | |
| `FdTable` | `io.go`, `fsops.go`, `fd_alloc_unix.go`, `stdio_std*.go` | implements `DescriptorMap` |
| `DescriptorMap` | abstract: descriptors in atomic calls | |
| `FileLife` | fopen, fdopen, tmpfile, freopen, fclose of `csrc/stdio.c` | INSTANCEs `DescriptorMap` |
| `DirStream` | `internal/posixdir`, `dirent.go`, `csrc/dirent.c`, `csrc/mlib/dirent.c` | |
| `ScanStream` | the number scanners of `csrc/stdio.c` | |
| `FormatScan` | both scanf cores | EXTENDS `ScanStream` |
| `FormatPrint` | both printf cores | |
| `FloatText` | floating-point numbers to text and back | |
| `WideStream` | wide characters through a FILE | |
| `Multibyte` | `csrc/multibyte.c` | |
| `Iconv` | `iconv.go`, `csrc/iconv.c` | |
| `Glob` | `csrc/mlib/glob.c`, `csrc/mlib/scandir.c` | |
| `MCMemory` | instance of `HandleTable`, `Environ`, `Malloc`, the three containers, `SyncCarriers`, `ManagedFile` | |
| `MCSync` | instance of `Pthread`, `Semaphore`, `RWLock`, `StdioLocks` | |
| `MCThreads` | instance of `Thread`, `ThreadKeys`, `Signals` | |
| `MCProcesses` | instance of `Popen` and `Exit` | |
| `MCFiles` | instance of `FdTable`, `DirStream`, `FileLife` | |
| `MCText` | instance of the modules from `ScanStream` to `Glob`, and what a number is | |
| `MemoryProofs` | proofs about `HandleTable`, and about `Malloc`, `Environ` and `LinkedQueue` as `MCMemory` instantiates them | |
| `CarrierProofs` | proofs about `SyncCarriers` and `ManagedFile` in `MCMemory` | |
| `SyncProofs` | proofs about `Pthread`, and about `RWLock`, `Semaphore` and `StdioLocks` as `MCSync` instantiates them | |
| `ThreadProofs` | proofs about `Thread`, and about `ThreadKeys` and `Signals` in `MCThreads` | |
| `ProcessProofs` | proofs about `Popen` and `Exit` in `MCProcesses` | |
| `FileProofs` | proofs about `FdTable`, `DirStream` and `FileLife` in `MCFiles` | |
| `BufferProofs` | proofs about `FileBuffer` | |
| `PromiseProofs` | proof that `FileBuffer` implements `ByteStream` | EXTENDS `BufferProofs` |

Conventions. An action stands for one step that no other goroutine can
interrupt: a section under a lock, one atomic operation, or one system call; a
function that has several of these is several actions joined by a program
counter `pc`. A name in the code keeps its name (`registry`, `allocLocked`,
`writeHeld`). Variables marked *ghost* are not in the code: they record what a
property has to remember. A definition called `X_Something` directly before
`X` is a faulty variant of `X`, kept to show that a property notices such a
bug; no specification uses it.

Instances with parts. Components that share no state are checked in one
instance with a variable `part` that is chosen in the initial state; a step is
a step of that part, and the others stay as they are. The instance has the
*sum* of the states of its parts, not the product; because the parts are
disjoint, nothing is lost. A property that joins those of several parts has
each of them guarded by its part.

Functions. Where the code is one function without a state of its own (the
number scanners, floating-point conversion, glob), its definition is a function
of the same inputs, written loop by loop, and an instance has one step, from a
case to its answer. What the answer should be is a second definition, which
knows nothing of limbs, buffers or bytes taken back.

### 2.1 How state and actions correspond to the code

**HandleTable.** The packed id `gen<<32 | idx+1` is a record. `slotOf`,
`getLocked`, `allocLocked` and `free` are operators; `lazyInit` is an unlocked
load (`LazyLoad`), then either `get` with the id loaded (`LazyGet`) or the slow
path under the write lock with its re-check (`LazySlow`). Destroying a C object
is the pattern of all clients: swap its id for 0, then free the old one
(`DestroySwap`, `DestroyFree`). `Free` takes any id ever issued, except the one
a carrier still uses: C closes what it opened, perhaps twice. The generation is
counted modulo `GenMod` (2^32 in the code).

**Malloc.** An address stands for a slice and the one payload pointer into it.
`Make` chooses any address the runtime may return (or fails, `MakeFails`),
`Root` claims a slot under the lock, and `Header` is written after it; `Lookup`
is what free and realloc do with a pointer they do not trust. `Reclaim` takes
memory that nothing roots away and lets other objects write over it. realloc is
three critical sections (`Realloc`, `Root`, `ReallocDone`) with `Copy` between.

**Environ.** getenv is the lookup (`process.go:94`), which is not under
`envMu`, and then the cache (`104-118`), which is. A mutator changes Go's
environment, drops the cached copy, builds the array, and publishes it.

**Semaphore, Pthread, RWLock.** One action per section
under the engine's lock. Go's `sync.Mutex` is a Boolean `held`; the owner word
is stored after it and cleared before it, in steps of their own. A timed wait
is a step in which the timer fires and a later one in which the waiter takes
the lock again, so that a post or a signal falls between. Broadcast takes the
queue under `c.mu` and sends to each channel without it; a waiter whose
deadline passed blocks on its channel with `c.mu` held (`cmu`). `RWLock` has
`sync.RWMutex`'s writer gate and the readers a writer parks. TimedLock and the
timed rwlock forms are polls: a try every 10 ms until the deadline.
pthread_once, at the end of `Pthread`, has its two words in variables of their
own: the caller whose swap succeeds runs the initializer (`Elect`) and sets the
flag last (`SetDone`); the others spin on the flag.

**Thread.** One record with both carriers: threads of the root package are
found by id, those of mlib by pointer. The thread stores its result (`Exit`),
closes the channel (`CloseDone`) and then reads the detached word
(`FinishCheck`); detach stores the word (`DetachStore`) and then looks at the
channel (`DetachReap`); join waits for the channel and then swaps `reaped`
(`JoinReap`). Whoever wins the swap (`Claim`) frees the slot and clears the
result.

**ThreadKeys.** The destructors are the range over the map (`Visit`), repeated
while they set something, `MaxRounds` times at most; then the same run again by
the collector's cleanup. Deleting a key sets a flag.

**Signals.** `Swap` is the atomic swap of `csrc/signal.c`; `Watch` and
`Default` are what signal() then does under `sigMu`, for a handler or SIG_IGN
and for SIG_DFL. os/signal delivers into a
channel with room for one and drops the rest. A signal without a channel takes
its default action, unless the Go program has subscribed to it itself
(`host`).

**StdioLocks.** The output of a stream is one bit, its life "free", "open",
"closed" (not yet freed). fopen links under the list's lock; fclose closes under
the file's (`CloseBody`), unlinks under the list's (`Unlink`) and frees;
fflush(NULL) holds the list's lock and takes each file's in turn.

**FileBuffer.** The pointers of a FILE come down to which direction it is in,
the unread bytes with the offset of `rpos` (which ungetc may push below the
buffer), and the unwritten bytes. Each of `__toread`, `__towrite`, `__uflow`,
`__overflow`, `__stdio_read`, `__stdio_write`, `__fwritex`, `__fseeko_unlocked`
and the calls above them is an operator or an action, getdelim and fread one
step per turn of their loop. The kernel transfers any part of what was asked.
The callbacks of a descriptor, of fmemopen, open_memstream and fopencookie are
the sets of states a call may leave; `trunc`, `tail` and `cap` tell what
fmemopen and open_memstream do at the end of their array.

**Popen.** The Go copy of a pipe end and the C copy that `syscall.Dup` makes are
two sets; a child inherits every C copy open when it starts. Each step may fail,
with the clean-up the code does for it. The command itself, which is the
environment, reads to the end of its input.

**Exit.** A goroutine's stack of library calls, because handlers call exit
themselves. The drain loop pops one registration (`PopAtexit`), calls it, and
looks again; `RunHooks` runs mlib's flush under `runMu`, and after it comes
`FlushRoot`. The open files of both worlds are numbered in the order in which
they are flushed, standard streams before the lists, and each is a step
(`FlushFile`). A cookie with something to write runs its callback there, which
may write to any of the other files; `dirty` keeps what it wrote to a file the
walk had left behind (`late`) apart from what is owed to the device.

**SearchTree, HashTable, LinkedQueue.** Each call is a step; the loops are
functions of the path (recursive in the tree). The comparator is the order of
the integers, the hash any function of the key.

**SyncCarriers.** The word of the C object is an id or a pointer; a first use
is a load (`LockStart`, `WaitStart`), then an engine of one's own and its
publication (`LockSlow`, `WaitSlow`), a compare-and-swap in mlib and the slow
path of `lazyInit` in the root. unlock, signal and broadcast only look. A
waiter is in the queue (`Queue`) before it gives the lock up (`Drop`). The clients
are producers and consumers, because whether an item is left behind a sleeping
consumer is what they would notice.

**ManagedFile.** A call acquires the FILE's lock, which is made on first use
and published with a compare-and-swap, works on the raw engine, and releases
it. fclose retires the engine under the lock, then drops the roots, unlinks
under the list's lock and clears the word of the lock last. exit and
fflush(NULL) walk the list.

**FdTable.** The kernel gives the lowest free number. `c2goFD` is a step per
system call (`DupFd`, `CloseOld`, `FailDup`), for pipe twice. The virtual
numbers 0 to 2 are what `os.Stdin` and the others hold now; the host may swap
them (`Swap`, `Restore`), and the process may have lost one (`Lose`).

**FileLife.** fopen and fdopen take a descriptor and a block, freopen a second
FILE whose descriptor it copies with dup3; each step may fail. Other threads
call on descriptors in between.

**DirStream.** A stream owns a kernel descriptor, delivers the two dots and
then batches; rewinding opens the path again, which may be another directory
now. The root carrier and mlib's differ in who forgets whom (`Forget`).

**ScanStream.** shlim, shgetc and shunget on a stream of chunks,
and over them `__intscan` and `__floatscan` as far as they decide what to
consume. `MCText` has the standard's definition of a number as automata.

**FormatScan, FormatPrint.** A step is one directive of an already parsed
format. Of scanf the buffers of %m are followed from their allocation to where
they are freed or given away. Of printf both passes are there, the count, the
room that is left, the stream's earlier error and what %n stores.

**FloatText.** The big-number loops of fmt_fp and decfloat on limbs of two
digits, a mantissa of a few bits and exponents to match, so that every branch
(a carry into a new limb, a shift of one limb into the next, a digit dropped at
the end of the ring, a subnormal result) is taken by short numbers. The bit
patterns of frexp, scalbn and fmod are exact. `junk` is the limb fmt_fp reads
before anything was stored in it.

**WideStream.** The bytes before `rpos` that can be put back, the unread ones
and the slot `wpend`, in both widths of wchar_t.

**Multibyte, Iconv.** A program converts a string in calls with any window and
any room. `Multibyte` has the reservation for the second half of a pair, the
bulk path and the counting path; wcsrtombs stops where its room is used up,
wcsnrtombs looks at all its input and finds an illegal character also where
there is no room left, and each has its own loop here. `Iconv` has the probe that decodes a window
again to find what was malformed, the search for a boundary (`iconvLocate`) and
the encoder's refusal of what the codeset lacks.

**Glob.** `DoGlob` is the recursion with its literal prefix, its separator and
its readdir loop; a path is the beginning of `buffer`. The outcome so far is
passed along as `w`: matches, calls of the error function, allocations left.
`Promised` takes the pattern component by component instead. Trees, links,
lstat, readdir and fnmatch are external.

### 2.2 Abstract specifications

* `HandleMap`: objects are live or not, a carrier denotes an object or none; an
  object a carrier denotes is never dropped. `HandleTable!ImplementsMap` holds
  as long as fewer objects are made than a generation counts.
* `DescriptorMap`: a table from numbers to open files; a call takes one step, no
  number below 3 is given out, and no stream the host put there is closed or
  redirected. `saved` is what the host will restore. `FdTable` implements it.
* `PromiseNext`, at the end of `Thread`: a thread finishes once; after that its result goes to one
  successful join or, if it was detached, is discarded. `Thread` implements it.
* `ByteStream`: content, a position, a few bytes pushed back, end-of-file and
  error flags, no buffer: a byte written is in the content at once. `FileBuffer`
  implements it until an error is reported; after that `ByteStream` makes the
  content indeterminate, as C does. One failure is reported nowhere, and
  `RewindFails` says so: `rewind` clears the error flag of its own failed flush.

## 3. Runs

Every run finishes within five minutes with two workers, most in half of that.
Deadlock checking is off where the bounds, or the end of the process, let a
behaviour stop.

| Run | Question | Properties |
|---|---|---|
| `memory` (`MCMemory`) | Does what C may still use stay rooted, and do shared objects get one engine? | handles: `TypeOK`, `StaleIdsMiss`, `CarrierRooted`, `LazyInitAgrees`, `NoLeakedRoot`, `ImplementsMap`; `EnvironSafe`; `MallocSafe`; `ContainersSafe`; `CarriersSafe` (carriers and mlib's FILEs) |
| `sync_objects` (`MCSync`) | Are the waiting objects safe? | `MutexSafe`, `CondSafe`, `SemaphoreSafe`, `RWLockSafe`, `OnceSafe`, `FileLocksSafe` |
| `sync_progress` (`MCSync`) | Do blocking calls return? | `LockReturns`, `WaitReturns`, `SemaphoreReturns`, `RWLockAndOnceGetIn`, `FlushAndCloseReturn` |
| `threads` (`MCThreads`) | Is a thread retired once, its keys destroyed once, its signals delivered? | `RetiredOnce`, `ImplementsThreadResult`, `AllEnds`, `KeysSafe`, `SignalsSafe` |
| `stdio_buffer` (`FileBuffer`) | Does a FILE look like an unbuffered stream, whatever is behind it? | `BufferSound`, `KeepsPromise`, `FlushedIsOut` |
| `processes` (`MCProcesses`) | Do children and the process end cleanly? | `PopenSafe`, `ExitSafe`, `ProcessesEnd` |
| `files` (`MCFiles`) | Has every descriptor one owner on every path? | `OneOwner`, `ImplementsDescriptors`, `FilesSafe` |
| `text` (`MCText`) | Is what is read, printed, converted or found what it should be? | `AnswersExact`, `PrintSafe`, `MultibyteSafe`, `ScanSafe`, `WideSafe` |
| `signals_race`, `popen_eof`, `managed_lock`, `scan_owner` | counterexamples, section 6 | `TableMatchesPump`, `EofFollowsClose`, `KeepsItsLock`, `GivenStaysLive` |

What the less obvious properties say:

* `StaleIdsMiss`: every id ever issued resolves to its own object or to none.
* `LazyInitAgrees`: a caller of `lazyInit` whose carrier nobody destroyed
  meanwhile holds the object that carrier denotes now.
* `NoLeakedRoot`: a live object made for a carrier is denoted by it, or by the
  id that a destroy has swapped out and is about to free.
* `EnvironSafe`: the string getenv returned is rooted until its name changes;
  environ is fresh when no change is under way; no array is lost; getenv
  returns a value its name had during the call.
* `MallocSafe`: a live block is rooted by the slot its header names and keeps its
  bytes; the free list is the set of empty slots, and every rooted slice is a
  live block or one being made or given up; a stale free does nothing.
* `ContainersSafe`: neighbours agree on their links; the tree is ordered and
  balanced and its path arrays suffice; every search of the table ends and finds
  what was entered, also when the table grows or fails to.
* `CarriersSafe`: for carriers, one goroutine is inside a lock and no consumer
  sleeps beside an item nobody will tell it of. For mlib's FILEs, one goroutine
  works on a raw engine, what the engine points to is rooted, every open stream
  is in the list, no call on an open stream is refused, fflush(NULL) flushes,
  and of the goroutines in a call one at least is not waiting for a lock.
* `MutexSafe`: exclusion; and when no call is in progress, owner and count are
  what the locks obtained and not given back add up to.
* `CondSafe`: the depth of a recursive mutex comes back; a goroutine that gave the
  mutex up in wait is in the queue, or was chosen, or timed out, so there is no
  moment in which a signal misses it; and a waiter that a signal chose does not
  report a timeout.
* `SemaphoreSafe`: tokens are conserved, none is banked while somebody queues,
  a waiter that lost the race with its timer to a post takes the token, and
  tokens go out in order of arrival.
* `RetiredOnce`: one actor wins the record; a join that succeeds has the value;
  a running thread keeps its id; and nothing is left behind at the end.
* `KeysSafe`: no value is destroyed twice (promptly and by the collector) or
  overwritten silently, and none is forgotten before the last round.
* `AllEnds`: the record of a finished thread is retired, the runs of destructors
  end, a delivery that was taken is consumed, and stopped pumps end.
* `FlushedIsOut`: fflush returns 0 only when the file has all that was written.
* `PopenSafe`: outside of a call, streams, descriptors, table entries and
  unreaped children match one to one, whatever failed.
* `ExitSafe`: each registration is called at most once, also when handlers call
  exit; with one exiting goroutine, all that are due are, and no byte stays in
  a buffer but those a cookie wrote to a file the walk had left behind: what
  mlib's cookies write to root files is always out.
* `ProcessesEnd`: pclose and system return (`PcloseReturns`), and exit ends.
* `SignalsSafe`: only the channel of the current pump is open; with one caller
  of signal(), there is a pump exactly when the table asks for one and a handled
  signal does not kill.
* `OneOwner`: every open number belongs to C, to os.Std*, to one stream or to one
  call in progress, which closes it once; and readdir returns the dots and
  every entry that was there all along, once.
* `FilesSafe`: every descriptor has exactly one holder and every FILE the file it
  was opened on, whatever failed in fopen or freopen; no call on a FILE touches
  a stream of the host.
* `AnswersExact`: strto... and wcsto... take the longest prefix that is a number
  and give its value or the nearest of the type; floating-point numbers are
  printed and read as the nearest there is; glob and scandir return all they
  should or leave what was there.
* `ScanSafe`: every directive consumes what the standard says, whatever pieces
  the input comes in; the count is exact; no buffer of %m is lost; and the wide
  core frees none that it has given away.
* `PrintSafe`: what is out is the beginning of what the format says, the result
  and %n count it, a text or a room too large for an int fails, an earlier error
  of the stream is kept.
* `MultibyteSafe`: a conversion cut into calls is the conversion of the whole;
  counting agrees with storing; iconv stops where, and for the reason, it says.
* `WideSafe`: the characters read are those of the file and of the calls to
  ungetwc, in order, each whole, whatever the look-ahead of scanf did between.

### 3.1 Bounds

* `MCMemory`, handles: two goroutines, one carrier, three objects and four
  generations, so that the last slot is recycled twice and double closes meet
  every later occupant; the wrap itself is excluded from the properties by
  `wrapped` and is discussed in section 6. Environment: one goroutine reads and
  both read or change, two names, two values, two C copies, two arrays; before C
  runs a name has the one value or none, since the values are alike.
* Allocator: "many" has three addresses and blocks of one byte, so that a block is
  reallocated while the other thread reuses the address of a third, and what the
  collector takes back is left with the number of the second slot: one that does
  not exist yet, is free, or is another block's. "sizes" has two addresses, two
  sizes, which tell a grow from a shrink, and every number.
* Containers: five elements; every tree over five keys from the empty one, all
  orders of deletion from the sparsest tree of height five (twelve nodes, where
  one deletion rotates twice); seven keys with chosen collisions, two of them
  with either of two values (`TwoValued`), in a table that grows from eight
  slots to sixteen, or fails to.
* Carriers: three users and three engines are two first users, whose engines
  race, and one that comes later; a new engine is one that no word and no call
  has at hand. mlib's FILEs: two goroutines, two FILEs, two
  locks; where calls race with fclose (`race`), one FILE, for the state is
  otherwise too large, and a second one adds nothing to that race. The goroutines
  are interchangeable there and so are the locks (`Symmetry`).
* `MCSync`: three goroutines are a signaller, the waiter it chose, and the one
  that overtakes; nesting of two tells count from held. Four posts against a
  maximum of two reach the overflow. Two files suffice for lock order, and for
  a FILE freed and its address reused.
* `MCSyncLive`: two goroutines and no nesting (`MaxDepth = MaxReads = 1`): the
  fairness then is one condition per kind of step for all parts, which is what
  makes the run feasible.
* `MCThreads`: three goroutines that join and detach as they like, beside the
  thread: two of them may race and a third come late. Three keys, one without
  a destructor, and the code's four rounds. Two pumps are a stopped one that
  still drains and its successor.
* `FileBuffer`: files of up to three bytes over buffers of one and two, so
  that every call also meets a full buffer, an empty one and a partial
  transfer; one byte of pushback room (eight in the code), the newline and one
  other byte. Twelve ways of opening cover update mode, append mode, a pipe
  (with a buffer of one byte), a terminal, stdout, and memory of the three
  kinds, with and without a failing device. A behaviour ends where memory was
  short and bytes are lost (`NothingLost`): fflush reports success then,
  section 6. States that differ only in what the last call returned are one state
  (`View`): the code reads it nowhere, and every step is checked from that one.
* `MCProcesses`: three jobs of two goroutines, with two streams open at a time;
  registries of two slots that overflow, three registrations, handlers that end
  the process from within the end of the process; three open files, a cookie of
  mlib, a plain one of root (as stdout is) and a cookie of root, so that
  callbacks write forwards and backwards and over the border of the worlds; with
  two goroutines that end it, one registration and no writes, for what one
  writes while the other exits is owed to nobody.
* `MCFiles`: descriptors up to 5 and two threads let a number below 3 be moved
  while the other thread takes the one it is moved to; the process loses its
  standard input and the host swaps its output, the two ways in which 0 to 2
  differ from the kernel's; the threads are interchangeable (`Symmetry`).
  Directories: two streams (one of each carrier), two
  names, batches of two, one change of the directory or its path during a
  reading. FILEs: three beside stdout, which the host swaps; a thread in freopen,
  which takes two, meets another one in fopen or in freopen of stdout.
* `MCText`, numbers: all strings of four of the bytes that matter, in pieces of
  one, three and all bytes, with `ULLONG_MAX` 255 and a signed limit of 128.
* Floating point: limbs of two digits. Printing has seven bits of mantissa (107
  and more digits in the code), which with exponents from -18 to 5 takes every
  shift and carry; reading has nine bits and five, exponents -20 and -16, and a
  ring of sixteen limbs that long numbers overflow; the functions on bit
  patterns run over every pattern of three bits of mantissa. `GUARD` is three
  digits where the code has 17: seven bits need no more.
* scanf: two directives over three characters, each of one or two bytes. printf:
  one directive with every flag, width and precision, and two or three of the
  others; `INT_MAX` is 11 and `BUF`, the buffer of a stream without one, 3, so
  that overflow and refill happen in a short format; strings have rooms up to
  `INT_MAX` and one beyond it, which vsnprintf and vswprintf refuse.
* Multibyte: four characters, rooms of one to four, `BULK` 1 and `WBUF` 8, so
  that the bulk path is entered and left. iconv: two characters, windows and
  rooms that cut them anywhere, one skipped error, two runs of one descriptor.
* Wide streams: files of two characters of one, two and four bytes, good or bad,
  a buffer of four and four calls.
* Paths: a tree of four directories with links to a directory, a file and
  nothing, dots and a name with a wildcard in it; directories that cannot be
  opened or fail while read; `PATH_MAX` 8, so that patterns are cut in a
  literal, at a slash and in a bracket; 39 patterns with every mixture of the
  flags that select. The sort runs on all short sequences of three names.

### 3.2 Fairness

* A goroutine in the middle of a library step goes on (weak fairness on the
  steps of a call, `Runs`, `Progress`, `Step`, `Library`): Go schedules
  preemptively, and no step blocks with a lock of the library held except where
  the model says so.
* Taking a `sync.Mutex` or `RWMutex` is strongly fair (`TakesLock`,
  `WriteGate`, `EnterHooks`): Go's mutex hands itself to a goroutine that has
  waited for a millisecond, so a lock that becomes free again and again is
  eventually got.
* A client gives back what it locked, at each depth (`GivesBack`), handlers and
  initializers return, and a command ends when its input does (`ChildEnds`
  under `HasToEnd`). Without these nothing could be promised.
* Nobody has to signal, post, register or start anything, and no deadline has
  to pass for a call without one: `WaitReturns` says only that a chosen or
  timed waiter returns, `SemaphoreReturns` the same of tokens.
* `PcloseReturns`, a part of `ProcessesEnd`, assumes that a goroutine closes its streams in reverse order
  of opening; without it the property fails (section 6).

## 4. Proofs

TLAPS checks these for every value of the constants: any number of goroutines,
objects, addresses, keys, FILEs and descriptors, and any limit. A theorem that
names `MCSpec` is about the component inside its instance, so that it states the
property the run checks; its proof uses none of the bounds that the instance puts on
the component, save the conditions that the property itself names.

| Theorem | Says |
|---|---|
| `MemoryProofs!TypeCorrect` | handles: types, and equal lengths of the slices |
| `MemoryProofs!FreeListCorrect` | the free list is the set of empty slots, without repetition |
| `MemoryProofs!StaleIdsNeverAlias` | no id denotes another object than its own, until a generation wraps |
| `MemoryProofs!CarriersStayRooted` | the object a carrier denotes is live |
| `MemoryProofs!LazyInitUnique` | undisturbed callers of lazyInit agree |
| `MemoryProofs!RootsNeverLeak` | a live object made for a carrier is still denoted |
| `MemoryProofs!RegistryBounded` | the registry grows only when every slot is occupied |
| `MemoryProofs!TableIsMap` | until a generation wraps, a step of the table is a step of `HandleMap`, or none |
| `MemoryProofs!TableImplementsMap` | with fewer objects than generations, `HandleTable` implements `HandleMap` |
| `MemoryProofs!MallocCorrect` | `MallocSafe` |
| `MemoryProofs!GetenvCorrect` | the part of `EnvironSafe` about getenv, for any number of writers and whatever fails |
| `MemoryProofs!EnvironCorrect` | `EnvironSafe`, with one writer and no failing allocation |
| `CarrierProofs!CarriersCorrect` | `CarriersSafe` |
| `CarrierProofs!ManagedFilesCorrect` | mlib's FILEs alone, where calls race with fclose on several FILEs of every kind |
| `SyncProofs!CondTypes`, `MutexCorrect`, `CondCorrect` | types, `MutexSafe`, `CondSafe` |
| `SyncProofs!OnceCorrect`, `RWLockCorrect`, `SemaphoreCorrect` | `OnceSafe`, `RWLockSafe`, `SemaphoreSafe` |
| `SyncProofs!FileWorkCorrect` | one goroutine works on a FILE, a freed FILE is off the list, fflush(NULL) misses none, whatever a flockfile region calls |
| `SyncProofs!FileLocksCorrect` | `FileLocksSafe`, where regions write and flush only |
| `ThreadProofs!ThreadTypes`, `ThreadRetiredOnce` | types, `RetiredOnce` |
| `ThreadProofs!ThreadKeepsPromise` | `Thread` implements its promise: the result goes to one join, or to nobody |
| `ThreadProofs!KeysCorrect`, `SignalsCorrect` | `KeysSafe`, `SignalsSafe` |
| `ProcessProofs!ExitCorrect`, `PopenCorrect` | `ExitSafe`, `PopenSafe` |
| `FileProofs!DescriptorsCorrect` | each open descriptor has one holder between the system calls of any call, and denotes what C asked for |
| `FileProofs!DescriptorsAreMap` | `FdTable` implements `DescriptorMap` |
| `FileProofs!StreamsCorrect`, `OneOwnerCorrect` | directory streams own their descriptors and read what they should; with `DescriptorsCorrect`, `OneOwner` |
| `FileProofs!FilesCorrect` | `FilesSafe` |
| `BufferProofs!BufferIsSound` | `BufferSound`, whatever the device does |
| `BufferProofs!FlushesAreOut` | `FlushedIsOut`: after an fflush that returned 0 the file has all that was written, or as much as memory allowed |
| `PromiseProofs!KeepsItsPromise` | `KeepsPromise`: `FileBuffer` implements `ByteStream`, whatever the device does |
| `MemoryProofs!LinksCorrect` | insque and remque: both directions of the links agree, removed elements are linked to nothing |

### 4.1 Assumptions

Of the constants the proofs assume what the modules assert of them and TLC
evaluates in each run: `HandleTableAssumption`, `MemoryConstants`,
`MutexAssumption`, `MCSyncAssumption`, `ThreadAssumption`, `PartsConstants` (keys
and signals), `PopenAssumption`, `ExitConstantsHold`, `FdTableConstants`,
`FileConstants` and `FileBufferAssumption`. They say that limits are natural
numbers (positive where a value of zero would leave nothing to do), that what
stands for "none" is not among the goroutines or objects, and that sets that
are searched are finite. Four theorems assume more:

* `TableImplementsMap` needs `MaxObj < GenMod`: a generation that wraps is the
  known limit of section 6. `TableIsMap` says the same without the bound, of
  the behaviours in which none wraps.
* `FileLocksCorrect` needs regions that write or flush. Another region can wait
  in a circle, section 6; `FileWorkCorrect` says what holds all the same.
* `EnvironCorrect` needs one writer, which C requires of its programs, and that
  the array can be allocated (a failed one is the known limit of section 6).
  `GetenvCorrect` needs neither.
* `SignalsCorrect` and `ExitCorrect` have the condition in the property: with
  two callers of signal() the pump does go missing (`signals_race`), and with two
  goroutines in exit() the second may end the process under the first.

### 4.2 How the proofs go

Few of the properties are inductive as they stand. Each component has an
inductive invariant, a conjunction of named parts; one lemma per action shows
that it is kept, under it one step per part that the action can disturb; a last
lemma, or step, shows that it implies the property. What the invariants add is
the reason why the code works:

* *Handles.* That a stale id misses needs that no id is ahead of its slot's
  generation (`Current`), which needs the free list to be exact, or a slot could
  be given out while it is occupied. That a carrier stays rooted needs every
  pending free to be of an id no carrier holds (`PendingFree`), and that two
  carriers never share an object (`CarrierIds`). `AllocEffect` and `FreeEffect`
  state what the slice operations do, `AllocCore` and `FreeCore` what that means
  for the ids issued. For the refinement, an id that was made keeps its meaning
  until its object is dropped.
* *Malloc* (`MallocInv`). The registry's slots hold different addresses, none of
  them reclaimed (`SlotsApart`); a block in the making is rooted by the slot whose
  number its header will get (`MallocCall`), and no two calls have the same block
  (`CallsApart`), so that what `Lookup` finds is the block's own slot.
* *Environment* (`EnvInv`, `ArrayInv`). A value that getenv looked up is one the
  name had since the call began (`LookedUp`); whoever rebuilds environ builds what
  the environment is, because nobody else writes it (`Rebuilding`).
* *Carriers* (`CarrierInv`). Whoever is past the lookup has the engine that the word
  names now (`LockUsed`, `CondUsed`): who loses the publication loads what the winner
  published, and clients do not destroy an object that is in use. A waiter is in the
  queue before it leaves the lock and until it is woken (`QueueRight`), so that
  whoever finds the queue empty finds nobody asleep.
* *mlib's FILEs* (`ManagedInv`). fclose forgets the lock last, after it has
  retired the engine and unlinked; until then (`Unforgotten`) everybody who was
  given a lock for the FILE has the same one (`LockRight`), so one of them at a
  time works on the engine (`OwnedRight`), and only the first finds it open
  (`ClosedOnce`). After that a goroutine may have a lock that is not the FILE's
  any more, which is `managed_lock` of section 6, and the property still holds:
  the FILE is closed, off the list (`KnownRight`), and nothing works on it. Without
  a race (`Calm`) this never happens. fflush(NULL) holds the list's lock, so that
  what it has still to visit cannot be unlinked (`WalkRight`).
* *Mutex and condition variable* (`Ownership`, `Queues`). At most one goroutine is
  in, which is more than to say that at most one holds it: the steps between the
  sync.Mutex and the owner word count (`In`). A waiter is in the queue, in the
  hands of one broadcaster, or has its token, in one of the three only; a chosen
  one is still listening.
* *Semaphore* (`SemInv`). A waiter is in the queue exactly as long as its channel
  is empty, whether its timer has fired or not.
* *Once, rwlock* (`OnceInv`, `RWInv`). The swap elects one; the flag that the one
  unlock function reads is true exactly while a writer is in.
* *FILE locks* (`FilesInv`, and `FilesApart` for the circles). Owner and count are
  what the region and the call of the holder add up to; the list is the open
  streams and those about to be unlinked; what a walk has before it is on the
  list. A goroutine with a file's lock never waits for the list's.
* *Threads* (`Lifecycle`, `Swapped`, `Remains`, `Entrusted`). The swap of `reaped`
  decides who retires the record; until then value and slot are there; and a
  detached thread that ended unreaped has a detacher still to come. The
  refinement maps `fate` to the one the result goes to.
* *Keys* (`KeysInv`). A run that has set nothing new has still to visit every key
  that needs its destructor (`Ahead`).
* *Signals* (`SignalsInv`). With one caller the table is what it wants and the
  pump what the table wants, except between its two critical sections
  (`OneCaller`).
* *Exit* (`ExitInv`). A registration is in one slot of one registry until it is
  called (`Registered`), calls nest in handlers only (`Nested`), and how far the
  one exit has got says which files owe nothing any more (`Alone`, `Passed`).
* *popen* (`PopenInv`). A job is in one call or is one stream (`OnePlace`), and each
  point of a call has its own set of ends, entries and children (`CallHas`).
* *The buffer of a FILE* (`BufferInv`). A device leaves its position inside what it
  has, also where a write fails half way (`DeviceSound`); unread bytes end at the
  device's position and unwritten ones fit the buffer (`InBuffer`), so that a flush
  that turns the buffer round finds it empty; a call's loop has at most what was
  asked for, and getdelim's byte that it gives back goes where it was taken from
  (`CallRight`). Each device's read and write operation has a lemma about all it may
  leave behind, the operations of the FILE have theirs over these, and the calls
  use only the latter. That a flush leaves the stream's content in the file
  (`FlushesAreOut`) needs the same invariant: the unwritten bytes fit, so what a
  device has written is a front of what was to be written, and all of it where
  nothing is reported.
* *A FILE as a byte stream* (`KeepInv`, which adds `CallKept` to the buffer's).
  What is unread, behind the bytes pushed back, stands in the file just before the
  device's position (`ReadAhead`), and at end of file nothing is unread (`Kept`):
  so what a call takes from the buffer is what a stream without one would read
  there. A call with a loop is one step of the stream, its last turn; until then
  `Running` says that what it has in hand, and the stream it leaves, is what the
  unbuffered stream reads from where the call began, in so many bytes. Between two
  turns getdelim may have put a byte back below the start of the buffer (`Kept`
  with low = -1); the next turn takes it. Once the error flag is set, or memory was
  short, `ByteStream` promises nothing of the content, and any step will do.
* *Descriptors* (`FdInv`, `DirInv`, `FileInv`). An open number has one holder, among
  the calls in progress, C, os.Std*, the host, streams and FILEs; a call that is
  half way has its numbers in two lists, of which the moved ones are above 2
  (`Contents`). For directories, what was returned, fetched, handed out by the
  kernel and left are apart (`Once`), and what was there all along is in the last
  two (`AllAlong`). For FILEs, freopen's second FILE owns its descriptor until dup3
  (`AtCall`).

Facts about sequences and sets that the proofs share (a free list that pushes
and pops, queues of distinct elements, a walk that loses its head) are lemmas at
the head of each module.

### 4.3 Only model-checked

* Liveness: `LockReturns`, `WaitReturns`, `SemaphoreReturns`, `RWLockAndOnceGetIn`,
  `FlushAndCloseReturn`, `AllEnds`, `ProcessesEnd`. The provers do not reason about
  fairness.
* `ContainersSafe`: that a tree is ordered and balanced, and what a search finds,
  are facts about recursion over data, which would need induction; only the
  queue is proved.
* The properties of `MCText`: `AnswersExact`, `ScanSafe`, `PrintSafe`,
  `MultibyteSafe`, `WideSafe`. What they are about is functions of texts, and some
  of their modules use recursive operators, which the provers refuse.

## 5. Not modelled

* Pure system calls and their translation of arguments and errno: file system
  calls, configuration, terminals, resources.
* Assembler: setjmp, longjmp, the goroutine-local slot of errno.
* Arithmetic and tables: math, character classes, calendar computation, locale,
  random numbers, regular expressions.
* Message catalogues and the dynamic loader: section 7.
* The Windows layer, except for what the Unix build shares with it (the 16-bit
  wchar_t of `WideStream` and `Multibyte` is there); generated assembler,
  headers and self-tests.

Inside the modelled components: mutex and condition attributes; the alignment
padding of `aligned_alloc`; `ftrylockfile` and freopen among the FILE locks; a
raise on Windows; bit operations on signal sets; inside `Exit` the lock of the
list of open files, transfers that fail, and cookies that do anything else than
write to another stream; transfers, seeks and record locks on descriptors; mode strings of fopen; the sign and padding of a printed
floating-point number and rounding modes other than to nearest; which bytes are
a character; codesets that shift (ISO-2022-JP); flockfile and the callbacks of
memory streams in mlib.

## 6. Where the code departs from what it says

Four runs end in a counterexample.

* `signals_race`: `csrc/signal.c:118` swaps the handler table before `sigMu` is
  taken. Of two concurrent calls of signal(), one may swap first and reach the
  pump last: the table then holds a handler and there is no pump, so the signal
  kills the process, or it holds SIG_DFL with a pump that swallows the signal.
  `signal.go:41` says that a pump is there "while custom-handled or ignored".
* `managed_lock`: `csrc/mlib/stdio.c:814` clears `_lock_state` after fclose has
  given the lock up. A goroutine that waited has the lock then, sees a closed
  stream and unlocks through a null pointer, or unlocks a lock that a third one
  has made in the meantime. The comment at 245-247 says that the pointer "is kept
  for the carrier's full lifetime, so waiters can never switch lock instances".
* `scan_owner`: the narrow scanf core does not clear `alloc` where a directive
  begins (`csrc/stdio.c:2807`; the wide one does, at 5018). With "%msx", an
  input that does not go on with an x frees the buffer that has been stored for
  the caller and counted. The comment at 2052 says that the caller owns it.
* `popen_eof`: the descriptor that C gets for a pipe end is made by
  `syscall.Dup` (`popen_unix.go:19`) and not close-on-exec. With
  `f1 = popen("cat", "w")` and then `f2 = popen("cat", "w")`, the second child
  holds the first one's pipe open, and `pclose(f1)` waits for ever.
  `csrc/stdio.c:1905` says that after the fclose "the child sees EOF / SIGPIPE".

Known limits: places where a comment, or a strict reading of it, fails. No run
checks them: either a definition states the comment and shows the failure with
the change given, or a property excludes the case by the name given.

| Comment | Code | How to see it |
|---|---|---|
| "a double close never hits the new occupant", `handle.go:45-47` | the generation wraps after 2^32 recycles of a slot, `handle.go:120` | `HandleTable!DoubleCloseNeverHitsNewOccupant`, `GenMod = 2` |
| only a genuine change replaces getenv's copy, `process.go:104-105` | the lookup is not under `envMu`, `process.go:94`: a slow reader puts an older value back | `Environ!OnlyChangeReplaces`, `Getters = {g1, g2}`, `Mutators = {g2}`: the reader is another goroutine than the writer |
| environ's array is freed when replaced, `csrc/env.c` | one string cannot be allocated: the half-built array is lost, `process.go:162` | `Environ!NoArrayLost`, `MallocFails = TRUE` |
| a stale free does nothing, `malloc.go:102-104` | a stale pointer whose address was reissued frees the new block, `malloc.go:101` | `Malloc!StaleFreeIsNoop`, `Reissued = TRUE` |
| the second run of a thread's destructors finds all slots nil, `pthread_key.go:120-121, 139-140` | values set again in the last prompt round are still there, `pthread_key.go:147` | `ThreadKeys!SecondRunDoesNothing` |
| flockfile, stdio calls and funlockfile compose, `stdio.go:40-42` | a region that opens a file or calls fflush(NULL) waits for the list's lock with a file's in hand, while another fflush(NULL) holds the list's and waits for the file's, `csrc/stdio.c:1581`; the same in mlib through its standard streams | `StdioLocks!NoCircularWait`, `Region = {"open", "flushall"}` |
| the caller of fdopendir that failed keeps its descriptor, `dir.go:69-70` | a failing malloc closes it, `csrc/dirent.c:60` | `DirStream!FailedConversionKeepsFd` |
| finalize "flushes every open stream" and a second call "does nothing further", `csrc/exit.c:54-61` | a cookie that runs in `fflush(NULL)` writes to stdout, which was flushed first, `csrc/stdio.c:1573-1584`, or to an mlib stream, whose hook has run: the bytes stay in the buffer, and exit ends the process | `Exit!ExitLosesNoByte` with `= "clean"` in place of `# "owed"` |
| C is given no number below 3, `fd_alloc_unix.go:7-11` | dirfd may return one, `internal/posixdir/dir.go:151-158`, and another one after rewinddir | `DirStream!ReservedStayReserved` |
| printf stops at an overflow, `csrc/stdio.c:4520-4522` | the wide printf adds the -1 of a nested printf_core to its count | excluded by the bounds of `FormatPrint` |
| the FILE lock is "NON-reentrant", `csrc/stdio.c:4442` | it is recursive, `stdio.go:40-42` | `StdioLocks` |
| a number that is not representable sets errno | a subnormal that is raised to a power of two does not, `csrc/stdio.c:2534-2541` | `FloatText!RaisedToPower` |
| scanf reads the nearest number | the tail of a long number counts upwards whatever the sign, 2526-2527: -2.47032822920623272088284396435e-324 reads as -0 and the same without the sign as 5e-324 | `FloatText`: the field `swallowed` |
| the same, hexadecimal | with 31 bits left the tail is put on the deciding bit, 2649: 0x800000028p-1079; with fourteen digits of which the first is 1 it is just half a unit, 2583-2587: 0x1.00000000000011p0 | `FloatText`: `swallowed`, `MarkDecides` |
| these encodings "carry no output shift state", `iconv.go:183-184` | ISO-2022-JP does | not modelled |
| the input that was consumed is located, `iconv.go:26-34` | UTF-16 with a byte order mark: a new decoder after EILSEQ has lost the order, and later windows of little-endian text are replayed as big-endian; a real U+FFFD there is EILSEQ | `Iconv!Placed`, `Iconv!Placeable` |

Found on the way and outside of what the properties say: fflush of a memory
stream returns 0 when memory was short; fseek and rewind leave `wpend`, the half
of a surrogate pair, alone, and scanf's look-ahead loses that half where the pair
lay over the end of the buffer (`csrc/stdio.c:4967-4974`); fputws has written the
chunks of `BUFSIZ` bytes before an illegal character when it fails (4336); mbsrtowcs with a buffer
of no room is left out (rooms are one or more); iconv forgets its count of
substitutions at E2BIG; glob returns HOME for "~" without looking whether it is
there, and gives the error function the path of the last entry where the
directory failed (`csrc/mlib/glob.c:187-188`).

## 7. Plan

Done: the modules of section 2, in the order handles, waiting objects,
threads, buffers, memory, processes, containers, descriptors and directories,
the life of FILEs, formatted and wide stdio, multibyte text, iconv, paths,
managed carriers and FILEs; the proofs of section 4.

Next, in this order:

1. *Proofs.* `HashTable` and the tree: what a call leaves alone, for the
   recursion itself is out of reach. `Popen` against an abstract table of
   streams.
2. *More of the system.* The additive random generator, message catalogues,
   calendar boundaries, the handle table of the dynamic loader, the arena of
   the regular expressions, and the stdio of mlib that `ManagedFile` leaves out.
