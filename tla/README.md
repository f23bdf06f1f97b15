# Verification of the kernel

TLA+ specifications of the OS/161 kernel in `src/kern`, of the parts of the C
library with an algorithm in them, and of the volume `mksfs` writes; checked
with TLC on small instances and, where it matters most, proved with TLAPS for
every value of the constants. `PROJECT.json` lists the components, the runs, the
mutants that show each property can fail, the source lines behind each
definition, the hazards, the findings and the theorems.

## The system and its parts

The kernel runs on one MIPS processor. Mutual exclusion inside it rests on one
thing: `splhigh` turns interrupts off, and then nothing else runs until the
level is lowered or the thread switches away. `Traps` models that mechanism; the
other modules take it for granted and make code with interrupts off one step.

| Part | Code | Module | Abstract specification |
|---|---|---|---|
| Threads, scheduler, clock, pids, fork, waitpid, _exit, sleep | `thread/thread.c`, `scheduler.c`, `hardclock.c`, `userprog/pid_system.c`, `system_calls_PI.c` | `Process`, `PidSystem` | `PidLifecycle` |
| Lists of threads and the library under them | `lib/queue.c`, `array.c`, `bitmap.c` | `Containers` | `ThreadLists` |
| Semaphores, locks, condition variables | `thread/synch.c` | `Synch` | `Monitor` |
| Interrupt level, traps, bus interrupts, context switch | `arch/mips/mips/{spl,trap,interrupt,pcb}.c`, `exception.S`, `dev/lamebus/lamebus.c`, `ltimer.c` | `Traps` | |
| User memory, TLB, loading, copying | `arch/mips/mips/{dumbvm,ram}.c`, `userprog/{runprogram,loadelf}.c` | `AddrSpace` | |
| System calls and copies between user and kernel | `arch/mips/mips/syscall.c`, `lib/copyinout.c`, `userprog/system_calls_PI.c` | `Syscalls` | |
| Kernel heap | `lib/kheap.c` | `KHeap` | |
| Disk driver | `dev/lamebus/lhd.c` | `Lhd` | `SectorStore` |
| Console, serial port, kprintf | `dev/generic/console.c`, `dev/lamebus/lser.c`, `lib/kprintf.c` | `Console` | |
| Emulator file system | `dev/lamebus/emu.c` | `Emufs` | |
| VFS, shutdown | `fs/vfs`, `main/main.c` | `Vfs` | |
| SFS and mksfs | `fs/sfs`, `fs/vfs/vfspath.c`, `sbin/mksfs` | `Sfs` | `FileStore` |
| File system tests | `test/fstest.c` | `Fstest` | (uses `FileStore`'s contract for one thread at a time) |
| Menu | `main/menu.c`, `lib/kgets.c`, `lib/libc/strtok_r.c` | `Menu` | |
| Cats and mice | `asst2/catsem.c` | `CatMouse` | |
| C library | `lib/libc/malloc.c`, `__printf.c`, `snprintf.c`, `atoi.c`, `random.c` | `Malloc`, `Printf`, `Random` | |

How they interact: the system calls and the menu fork threads, which take a pid
and go to the run queue; a thread that waits sleeps on an address, of a
semaphore, a lock, a condition variable or `lbolt`, until someone wakes that
address; the drivers are semaphores shared by threads and interrupt handlers;
SFS stands on the disk driver, VFS on SFS and emufs, the tests on VFS. Where one
module stands on another it uses what the other is shown to promise: `Lhd`,
`Console` and `Emufs` use atomic `P`, `V` and locks (`Synch`: exclusion, and no
sleeper beside a count or a free lock); `Sfs` uses whole blocks read and written
(`SectorStore`); `Fstest` uses a file store (`FileStore`) as long as one thread
at a time is in a call, and nothing after that; `Vfs` and the others use threads that are ready and do run (`ReadyRuns`).

## Modules

**PidSystem** has the pid list as operators on a sequence of entries: position
is `pidValue`. `assign_pid` takes the first unused entry after the head or
appends one; `release_pid` clears an entry without unlinking it.

**Process** composes threads, scheduler, clock, pid list and system calls. The
variables are those of the code and a `pc` per thread. Code that runs with
interrupts off is one action: all of `sys_fork`, `thread_exit` up to the switch,
each turn of the loop in `P`. The menu forks with interrupts on, so its fork is
two actions and the timer may come between them. `Dispatch` is `scheduler()`
with the rest of `mi_switch`, `exorcise` included; `hardclock` preempts
interruptible code, `hardclock_idle` is a tick of the idle processor. Memory
may run out in a fork (`*_fails`); `thread_create` then returns without `splx`,
which the variable `menuspl` records. `kids` is history: the pids a parent has
not yet collected.

**Containers** has the ring of `queue.c` and the arrays of `array.c` under
`thread_fork`, `mi_switch`, `thread_wakeup` and `exorcise`, with `kmalloc`
failing whenever one of them grows; the words of `bitmap.c`; and the three unit
tests of the containers as operators.

**Synch** has one semaphore, one lock and one condition variable with threads
that call them in any order, and interrupt handlers that do `V`. `Monitor` is
the promise of `synch.h` for locks, `cv_wait` and `cv_broadcast`; of `cv_signal`
it says what the kernel does, see below. `cv_signal` and `cv_broadcast` of this
kernel release the lock, so a caller that follows the
code's contract does not release it again (`Spec`); one that follows
`synch.h`, as `cvtest` does, releases it again (`CvtestSpec`).

**Traps** has a stack of frames per thread, `iec` for the processor's bit, and
the globals `curspl` and `in_interrupt`. A step ends where interrupts go on,
where the stack changes or where a handler is called. Devices raise their lines
(`RaiseIrq`), some without a driver; the clock's handler switches threads in the
middle of the interrupt.

**AddrSpace** has memory word by word: frames handed out in order, regions,
the shared TLB, loading a segment with a fault per page, stores, copies from the
kernel, `fork`, which may run out of memory before or after the copy, and exit.
The first fault of a program with one segment fails an assertion of `vm_fault`
(`panic`), after which nothing runs. `expect` is history: what each program should find.

**Syscalls** has the registers of a trap frame, `copycheck`, copies word by word
with preemption and faults, and the frame a child starts from.

**KHeap**, **Malloc** have the two heaps, call by call, with the checks their
code makes.

**Lhd** has threads at every preemption point of `lhd_io`, the interrupt
handler, and the disk (external), which may report medium errors; `uiomove`
may fail. The refinement mapping to `SectorStore` reads the answer of a call off
the registers, `lh_result` and the buffer until the thread has fetched it.

**Console** has threads in `con_io` and `kprintf`, the handler `lser_irq`, and
`lser_writepolled`, one step because it spins with interrupts off. The port and
the keyboard are external. Newline and return are converted as `con_io` does.

**Emufs** has threads at every point where `e_lock` is taken or the device
waited for; the device (external) may fail, and hands out a new handle for each
open. `emu.c` needs that, and it makes its branches for a vnode that is found in
the table (`emufs_loadvnode`) or in use again (`emufs_reclaim`) unreachable.

**Vfs** has the table of devices and mounts, boot directory, current
directories, open files and reference counts. A call is the list of what it
still has to do; each element is one critical section, and threads interleave
between them. `sfs_reclaim` is two of them, because it writes the inode back
between its look at the count and the removal, and so is picking up a loaded
vnode. Syncing a volume may fail, in `vfs_unmountall` too.

**Sfs** has the volume block by block: inodes, indirect blocks, directory
entries, the free map, loaded vnodes. The operators are the C functions, from a
state to a state with a result; an action is a whole operation of `vfspath.c`.
A failing read stands also for memory that runs out at the same place.
`FileStore` says what a user of the file system may rely on, failures included.

**Fstest**: each test is the sequence of file operations it makes, for several
threads at once. Calls that do not overlap are steps of `FileStore`; once two
have (`mixed`), every call may answer anything. **Menu**: the line is edited and cut up in place, character by
character, where a character stands for a word the menu tells apart.
**CatMouse**: one action is what an animal does between two sleeps.
**Printf**: a format is sent character by character through the state of
`__printf.c`. **Random**: arrays with their headers, and the two pointers.

## Runs

Components that need only a small instance share a run: an MC module puts them
side by side, the variable `which` says which of them a behaviour is of, and the
others stay as they are. The graph is the disjoint sum of the components'
graphs, so that a property of one is checked exactly as in a run of its own.

| Run | Shows |
|---|---|
| `processes` | The menu with two processes, failing forks, two ticks a second and two exit codes, beside the menu with three processes: no thread lost or listed twice, each owns its pid, an exit always reaches the waiter, a pid's semaphore is a gate, counters and lists agree, `waitpid` reports only exited processes, a status is kept, the pid list implements `PidLifecycle`. |
| `progress` | Under fairness: waits for a lock or a count end, ready threads run, sleeps end, `e_lock` is given back, a stuck interrupt line panics. With that, exclusion, no lost wakeup, `Monitor` implemented, handles and vnodes of emufs agree, the flags of the bowls are true. |
| `drivers` | Disk: every completion is awaited by the thread that started it, sectors are atomic (`SectorStore` implemented), the device is always freed. Console: the port is never written while busy, lines arrive whole and unmixed, writers finish although readers wait. |
| `services` | The TLB and memory are the running program's, across loading, faults, forks, switches and exits; the SFS volume stays consistent and implements `FileStore`, with a full disk and read errors; the menu executes what was entered, lines about debug flags apart; system calls answer for what they did. |
| `kernel` | Interrupt levels are true across switches; both heaps are disjoint and tiled; printed numbers read back and generators resume; the lists of threads are lists and the containers' unit tests pass on containers in use; vnodes count their references and are never left on an unmounted volume, until `sfs_reclaim` kills one in use; a volume that shutting down finds busy is not kept so by the thread that shuts down; the file system tests clean up after themselves whatever happens, and pass when no call fails and no two calls overlap in SFS. |
| `process_children_findable` | Violated: once a child has been reaped, its parent's `waitpid` fails. |
| `process_pid_reuse` | Violated: a pid is handed out again while a parent that waits for it has not run yet. |
| `process_wait_cycle` | Violated: two processes wait for each other after a pid is reused. |
| `synch_cvtest` | Violated: with callers like `cvtest` two threads hold the lock. |
| `console_keys` | Violated: a key typed before the last one was fetched is returned twice. |
| `containers_prealloc` | Violated: the ring holds one thread less than `thread_fork` preallocates for, so that `make_runnable` may need memory. |
| `vfs_reclaim` | Violated: a thread picks a vnode up while `sfs_reclaim` writes its inode back, and the vnode is killed all the same. |

The findings behind the violated runs, with the lines they contradict, are in
`PROJECT.json`.

### What the properties make exceptions for

Some properties hold only with an exception, which their comments state:

* `MallocSound`: `free` takes a block of size 0 at the top of the heap for one
  out of range.
* `LibrarySound`: `"%-05d"` is padded with zeros on the right and reads as
  another number; `setstate` on the array in use reads its header before saving
  the position, and goes back to an old one, although the comment at
  `random.c:344` calls this OK; `"%X"`, a type in `man/libc/printf.html:50`, is
  none in `__printf.c:489` and prints an `X` without taking its argument.
* `MenuFaithful`: the debug flags are added and subtracted, so that a flag
  switched on twice in a row changes its neighbour. Lines with `df` are not read
  like others, although `menu.c:966-968` says that the bootloader's line is
  "treated as if it had been typed" and that semicolons separate commands. A
  typed line that begins with `df` is compared as a whole with the 24 known
  ones, so that in `df 1 on;p` the command `p` is not run and `df1on`, the name
  in the command table, is refused. After another command (`p;df 1 on`), or when
  the bootloader passes it, `df 1 on` is looked up as a command `df`, which does
  not exist; for the bootloader's line that is a panic.
* `SyscallsSound`: a write of length 0 is answered with `EFAULT`, and `kprintf`
  ends what is shown at a NUL.
* `FilesSound`: a read error, or memory that runs out while an inode is loaded,
  may leave blocks marked and an unlinked file loaded (`sfs_makeobj` does not
  give its block back), and only after one may SFS panic (`sfs_getroot` does).
* `ReferencesSound`: ends where `sfs_reclaim` kills a vnode in use, which
  `vfs_reclaim` shows. `ShutdownClean`: a root that could not be reclaimed stays
  loaded and keeps its volume busy.
* `TestsSound`: claims nothing of the volume or of a test's verdict once two
  calls have overlapped, which is what `fs2`, `fs3`, `fs4` and `fs5` do on SFS:
  it has no lock and its calls share static buffers.
* `InterruptsSound`, `StuckLinePanics`: speak of lines a device asserts.
* `BowlsSound`: an animal may eat one meal more than `NMEALS`. Nothing is
  claimed about cats and mice eating at the same time: an animal tests the
  other kind once, before it waits for a bowl.

Disagreements seen while modelling that no run is about:

* `synch.h:75` says of `cv_signal`: "Wake up one thread that's sleeping on this
  CV". `synch.c:257-258` wakes all of them, as `cv_broadcast` does, so `Monitor`
  has one notification, `Notify`, for both. With Mesa semantics a woken thread
  has to test its condition again in either case.
* `lamebus.c:282-292` says that after a stray interrupt "we'll continue ahead" to
  the test of the dud count, "because we just might get a stray interrupt that
  latches itself on"; the next statement is `return` (`Stray`).
* `man/syscall/waitpid.html:102` promises `EFAULT` for an invalid status pointer,
  and `testbin/badcall/bad_waitpid.c` tests for it. `sys_waitpid` refuses only
  NULL and stores through any other pointer (`system_calls_PI.c:264`, `:275`)
  without `copyout`. `Process` takes the pointer to be a good one.
* `vm_fault` asserts a second region (`dumbvm.c:105-107`), so a program whose
  file has one segment panics the kernel at its first fault, though `load_elf`
  accepts it (`panic` in `AddrSpace`).
* `sys_write` does not free its buffer when the copy fails; `sfs_rwblock` repeats
  a failed write with a `uio` that has no data left.

### Bounds

`Process`: with four thread structures a grandchild takes the pid of a reaped
child while the grandparent waits, which is how most properties on pids could go
wrong; three suffice when memory runs out. `HZ` is 1 or 2 and sleeps last 1
or 2 seconds, so that the counter wraps and a sleeper goes back to sleep. The
list of pids is bounded by the threads, except that a failed fork leaks one
entry, which `MaxFailures` bounds. Threads other than the menu are
interchangeable (symmetry, not where fairness is assumed), and so are the
threads of `AddrSpace` and the names of files in `services`. `Synch`: three threads, so that
two waiters compete. `Lhd`: two threads, two sectors, requests of up to two
sectors with offsets and lengths in and out of alignment and range. `Console`:
two calls by two threads, lines of two characters of which one is a newline, one
polled character, one key (two in `console_keys`). `Emufs`: two threads, two
handles, one retry. `Traps`: two threads and three devices, one without a driver,
stacks of two nested interrupts, one dud before the panic. `AddrSpace`: two
threads and nine frames, enough for a program and its child and no more, a
TLB that one of the programs overflows, and programs with a segment too many and
one too few; programs store at two addresses
(`Touched`), one in a segment or past its end and one in the stack. `KHeap`, `Malloc`: a few pages or words,
so that pages, pagerefs and the heap run out. `Containers`: three threads over a
ring that starts with two places, so that it grows, wraps and grows again. `Vfs`:
two threads, a disk and a file system without a device; files are opened on the
mounted volume, the raw device is only looked up. `Sfs`: eight blocks of
two cells, one direct block per inode and an indirect block of two, two names,
one descriptor, one failure: the disk fills up in the middle of an operation
and a file reaches into the indirect block and past its end. `Fstest`: two
threads, files of two chunks, one failing call. `Menu`: lines of five characters
from the keyboard and longer ones from the bootloader, two words a command. `Syscalls`: two programs, eight addresses with a hole, two
calls each. `Printf`: words of eight bits, formats of five characters. `Random`:
two arrays, tables of degree 2 and 3 beside the linear generator, words of two
values, which are enough for the tables to go through every state but leave the
linear generator, which keeps half the values of a word, only one. `CatMouse`: three cats,
two mice, two bowls, two meals, so that more animals want a bowl than there are.

Sums whose behaviours may end (calls used up, everyone waiting on a condition
variable, the machine off) do not check for deadlock; the `process_*` runs do.
What a deadlock would stop is in the liveness properties. The views leave out history nothing reads (`kids`); in
`services` also what does not belong to the component that runs, the flags of
`Menu` once nothing is claimed of them, and for `Sfs` what the code will
overwrite before it looks at it again.

### Fairness

`Process`: a dispatch goes on, and kernel code with interrupts off runs to its
end (weak fairness); the timer holds its interrupt line until it is served, so a
tick is taken if interrupts are on again and again (strong fairness). Programs
promise nothing: they may compute for ever. `Synch`, `Lhd`, `Console`, `Emufs`:
threads that can run do, which is `ReadyRuns` of `Process`; the devices answer;
pending interrupts are taken. `Lhd` and `Emufs` promise only that the device is
freed, not that a given waiter gets it: `V` wakes all, and another thread may
take it again first. `Traps`: the processor executes. In `Console` nobody has to
type.

## Proofs

The theorems hold for any set of threads and any values of the other constants,
from the named assumptions beside the constants, which TLC evaluates on every
run: that the first thread is one of the threads, that `NULL` or `None` is not,
that sets that are counted are finite (`Process`, `Emufs`, `CatMouse`), and that
sizes are sizes (a page has words, user addresses are below the kernel's, a
program file has a segment and no empty one). Each rests on an inductive
invariant, which says what the property leaves unsaid:

* **`ProcessInv`, `ProcessProofs`** (`Process`, `PidSystem`): `IInv` is the
  conjunction of the safety invariants of `Process`. None is inductive alone:
  that an exited pid in use belongs to a zombie (`Bookkeeping`) is needed for
  `SemIsGate` when `exorcise` releases pids, and `SemIsGate` for `NoLostExit`
  when a process exits. `ProcessInv` has lemmas on the lists and the steps of
  scheduler, clock, `waitpid` and fork; `ProcessProofs` has exit and dispatch,
  the invariants, the two action properties (`StatusAfterExit`, `StatusKept`)
  and that the pid list implements `PidLifecycle`. `CountFacts` collects what is
  used of cardinalities and is proved from the library at the end.
* **`SynchProofs`**, `Synch`: exclusion, `HolderKnown`, `NoLostWakeup` and the
  refinement of `Monitor`, from an invariant that ties the lock's count,
  `lock_thread` and the callers together.
* **`SynchProofs`**, `Emufs`: `HandlesSound`. The holder of `e_lock` is the thread
  that waits for the device and the count of `e_sem` is its answer; what the
  registers hold is what that thread asked about; a handle that is open and not
  yet loaded is known to one thread alone; and a vnode whose handle is being
  closed has no reference but the closer's.
* **`SynchProofs`**, `CatMouse`: `BowlsSound`. The semaphore counts the bowls
  whose flags are down, so that an animal past `P(_bowl)` finds one; an animal
  at bowl 0 has had fewer than `NMEALS` meals, at bowl 1 at most `NMEALS`.
* **`LhdProofs`**: the token of `lh_clear` is with at most one driving thread, and
  registers, buffer and completion belong to it; from that, `CompletionAwaited`,
  `SectorExists` and the refinement of `SectorStore`.
* **`ConsoleProofs`**: three invariants. `IInv`: the right to give the port a
  character is in the semaphore, with one thread, or in the port, so
  `lser_write` never panics (`ClearToWrite`). `CInv`: what a call has had sent,
  counting the character that is in the port, is the part of its line it is
  past, each newline of `con_io` after a return (`Delivered`). `AInv`: since a
  call of `con_io` that is under way began to write no other has, because it
  holds the lock (`UserWritesAtomic`).
* **`KernelProofs`**, `Traps`: `InterruptsSound` speaks of the innermost frame of
  the running thread. The invariant adds what each frame below has saved: the
  levels the frame under it had, and whether a handler is under it; and that a
  thread which does not run stands in a switch with its `in_interrupt` in its pcb.
* **`KernelProofs`**, `KHeap`: `HeapSound`. For each pageref in use, the free list
  holds distinct offsets of its page, the page lies in stolen memory and is no
  other pageref's, and every offset that is not free is handed out. For each
  block handed out, it is a block of a pageref in use, of that page's size and
  not on its free list, or it is clear of all their pages. And the lists hold
  each pageref in use once, `sizebases` by size. That a page whose free count
  has come back to the number of its blocks has none handed out, so that
  `subpage_kfree` may take it apart, is a pigeonhole argument (`FullFact`); it
  and what is used of `Min` (`MinFact`) are proved from the library's facts on
  finite sets.
* **`AddrSpaceProofs`**: `TlbCurrent` and `MemoryPrivate`. The frames of a program
  are one row that meets no other program's row and no page of the kernel,
  because `ram_stealmem` never hands out a frame twice; the TLB is empty while
  regions are being defined; and a fault that is being handled, perhaps long
  after it was taken, is one the TLB still does not answer.
* **`SyscallsProofs`**: `SyscallsSound`. The invariant says how far a copy is: the
  words of a `write` that have been fetched, the word of a `read` or `__time`
  that has been stored, and that the seconds went before the nanoseconds. The
  lemma `Checks` is the arithmetic of `copycheck`, wrap-around included: it
  admits only what is below the kernel, and refuses nothing that is all mapped
  but a length of 0.

Where a leaf names `Zenon`, that prover finds it sooner than the SMT solver.

Only model-checked:

* all liveness properties (`WaitersServed`, `ReadyRuns`, `SleepEnds`, `CallsEnd`,
  `StuckLinePanics`, `DeviceFreed`, `WriteEnds`), which are out of the prover's
  reach;
* `LibrarySound`, `MenuFaithful`, `MallocSound`: what a recursive definition
  computes, which needs induction over the data; `Sfs`, `Menu` and others use
  `RECURSIVE` operators, which the prover cannot follow (`FilesSound`,
  `ImplementsFileStore`);
* `ReferencesSound` and with it `ShutdownClean`: they turn on sequences filtered
  by a test, again an induction;
* `ListsAgree` is proved for one set of threads (`ThreadsStayCounted`, and
  `Bookkeeping` as a part of `IInv`); the run checks it for two at once;
* `ImplementsLists`, `UnitTestsPass` (`Containers`) and `TestsSound` (`Fstest`)
  have no proof yet;
* the violated properties, which have counterexamples.

## Not modelled

* SFS with several threads, and a machine that stops between two writes: the
  code has neither locks nor recovery and says so; and writes that fail.
* Panic, `thread_killall`, and what precedes the second thread at boot; the
  probing of devices. Boot's result is the initial state of each module.
* Reading the clock, the random, beep, trace and screen devices: register
  accesses without state.
* What a bad status pointer does to `sys_waitpid` (above).
* Creating and destroying synchronisation primitives and containers.
* `copyinstr`, `copyoutstr` and `delete_pid_list`, which nothing calls. Sums of
  addresses and sizes that wrap around 32 bits, except in `copycheck`.
* `vm/*.c` is not compiled in this configuration. `catlock.c` has empty bodies
  and the turn functions of `stoplight.c` are never called.
* The programs in `bin`, `sbin` and `testbin`, and the rest of `lib/libc`:
  sequential code over system calls, most of which this kernel does not have.
