------------------------------ MODULE MCKernel ------------------------------
(***************************************************************************)
(* The parts of the kernel, and of the C library, whose properties are all *)
(* about safety, side by side in one state graph: interrupts and context   *)
(* switches; the kernel's and the user's heap; formatted output and random *)
(* numbers; the containers of the thread system; the VFS layer; the file   *)
(* system tests.  A behaviour is one of the component which; the others    *)
(* stay in their initial states.                                           *)
(***************************************************************************)
EXTENDS Traps, KHeap, TLC

CONSTANTS CThreads, QueueSize, KeepMax, NBits, BitsPerWord
CONSTANTS HeapBase, HeapLimit, Requests
CONSTANTS Bits, Chars, Plain, Nums, Lens, MaxFormat
CONSTANTS W, Tables, randtbl, Seeds
CONSTANTS VThreads, Menu
CONSTANTS NChunks, NThreads, NCreates, BufSize, FileSizes, MaxFailures

VARIABLES which
VARIABLES cur, runqueue, sleepers, zombies, numthreads, c_panicked
VARIABLES heaptop, header, live, complaint
VARIABLES pf, p_buf, len, done, out, seen, spec, last
VARIABLES table, state, rand_type, rptr, fptr, r_ready, past, lost
VARIABLES knowndevs, refs, bootfs, cwd, file, v_todo, life, leaked, torn
VARIABLES dir, data, open, ret, todo, threadsem, failed, faults, total, test, printed, con, mixed

\* The sizes of the kernel heap's blocks.
MCSizes == <<1, 2, 4>>

\* A string to print, and two generators besides the linear one.
MCText == <<"t", "u">>
MCDegrees == <<2, 3>>
MCSeps == <<1, 2>>
MCRoom == [t \in Tables |-> IF t = randtbl THEN 1 ELSE 2]

\* A file system without a device, and a disk that can be mounted.
MCConfig == <<[name |-> "emu0", rawname |-> None, vol |-> None, fs |-> TRUE],
              [name |-> "lhd0", rawname |-> "lhd0raw", vol |-> "vol", fs |-> FALSE]>>
MCPaths == {[start |-> "vol", sub |-> FALSE], [start |-> "lhd0raw", sub |-> FALSE],
            [start |-> "/", sub |-> TRUE], [start |-> ":", sub |-> FALSE]}
MCFiles == {path \in MCPaths : path.start = "vol"}

C == INSTANCE Containers WITH Threads <- CThreads, panicked <- c_panicked
M == INSTANCE Malloc
P == INSTANCE Printf WITH Text <- MCText, buf <- p_buf
R == INSTANCE Random WITH degrees <- MCDegrees, seps <- MCSeps, Room <- MCRoom,
                          ready <- r_ready
V == INSTANCE Vfs WITH Threads <- VThreads, Config <- MCConfig, Paths <- MCPaths,
                       Files <- MCFiles, todo <- v_todo
F == INSTANCE Fstest

cvars == <<cur, runqueue, sleepers, zombies, numthreads, c_panicked>>
mvars == <<heaptop, header, live, complaint>>
pvars == <<pf, p_buf, len, done, out, seen, spec, last>>
rvars == <<table, state, rand_type, rptr, fptr, r_ready, past, lost>>
vvars == <<knowndevs, refs, bootfs, cwd, file, v_todo, life, leaked, torn>>
fvars == <<dir, data, open, ret, todo, threadsem, failed, faults, total, test, printed,
           con, mixed>>

\* The threads on the lists are interchangeable.
MCSymmetry == Permutations(CThreads)

SumInit ==
  /\ which \in {"traps", "kheap", "containers", "malloc", "printf", "random", "vfs", "fstest"}
  /\ Init /\ HeapInit /\ C!Init /\ M!Init /\ P!Init /\ R!Init /\ V!Init /\ F!Init
  /\ which # "printf" => len = Min(Lens)

SumNext ==
  \/ which = "traps" /\ Next
     /\ UNCHANGED <<which, heap_vars, cvars, mvars, pvars, rvars, vvars, fvars>>
  \/ which = "kheap" /\ HeapNext
     /\ UNCHANGED <<which, vars, cvars, mvars, pvars, rvars, vvars, fvars>>
  \/ which = "containers" /\ C!Next
     /\ UNCHANGED <<which, vars, heap_vars, mvars, pvars, rvars, vvars, fvars>>
  \/ which = "malloc" /\ M!Next
     /\ UNCHANGED <<which, vars, heap_vars, cvars, pvars, rvars, vvars, fvars>>
  \/ which = "printf" /\ P!Next
     /\ UNCHANGED <<which, vars, heap_vars, cvars, mvars, rvars, vvars, fvars>>
  \/ which = "random" /\ R!Next
     /\ UNCHANGED <<which, vars, heap_vars, cvars, mvars, pvars, vvars, fvars>>
  \/ which = "vfs" /\ V!Next
     /\ UNCHANGED <<which, vars, heap_vars, cvars, mvars, pvars, rvars, fvars>>
  \/ which = "fstest" /\ F!Next
     /\ UNCHANGED <<which, vars, heap_vars, cvars, mvars, pvars, rvars, vvars>>

SumSpec ==
  SumInit /\ [][SumNext]_<<which, vars, heap_vars, cvars, mvars, pvars, rvars, vvars, fvars>>
-----------------------------------------------------------------------------
\* Blocks and headers tile the user's heap (malloc, free).
MallocSound == which = "malloc" => M!MallocSound
\* Printed fields read back as what was printed, and generators of random
\* numbers go on where they were left (__printf.c, snprintf.c, random.c).
LibrarySound == /\ which = "printf" => P!PrintfFaithful
                /\ which = "random" => R!GeneratorsResume
\* The containers are lists of threads (queue.c and array.c).
ImplementsLists == C!ImplementsLists
\* queuetest, arraytest and bitmaptest pass on containers in use.
UnitTestsPass == which = "containers" => C!UnitTestsPass
\* Vnodes count their references (vfs_chdir, vfs_setbootfs, vfs_unmount).
ReferencesSound == which = "vfs" => V!ReferencesSound
\* Shutting down leaves only what others keep busy mounted (shutdown).
ShutdownClean == V!ShutdownClean
\* The file system tests leave nothing behind, and pass unless a call fails or
\* calls overlap (fstest.c).
TestsSound == which = "fstest" => F!TestsSound
=============================================================================
