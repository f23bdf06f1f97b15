----------------------------- MODULE MCServices -----------------------------
(***************************************************************************)
(* What the kernel does for the operator and for programs: user memory,    *)
(* files on a small SFS volume, the commands of the menu and system calls. *)
(* A behaviour is one of the component which; the others stay in their     *)
(* initial states.                                                         *)
(***************************************************************************)
EXTENDS AddrSpace, Syscalls, TLC

CONSTANTS NBlocks, Cells, NDirect, DbPerIdb, Names, Fds, OpenModes, Offsets, Lengths, Writes
CONSTANTS Letters, BufSize, MaxArgs, Modulus, MaxFailures

VARIABLES which
VARIABLES fs, fds, ret, failures
VARIABLES buf, mode, context, isargs, dbflags, line, ran, on, doubled

\* Four programs, whose segments end in zeros: the TLB has room for all pages of
\* the first, but not of the second, whose data spill over into another page;
\* the third has one segment more than dumbvm can hold, and the last one less than
\* vm_fault asserts there are.
Seg(n, v, m, f) == [name |-> n, vaddr |-> v, memsz |-> m, filesz |-> f]
MCImages == {<<Seg("T", 2, 1, 1), Seg("D", 4, 1, 0)>>,
             <<Seg("T", 2, 1, 1), Seg("D", 5, 2, 1)>>,
             <<Seg("T", 2, 1, 1), Seg("D", 4, 1, 1), Seg("R", 6, 1, 1)>>,
             <<Seg("T", 2, 1, 1)>>}

\* The modes files are opened with, and what is written.
MCOpenModes == {{}, {"CREAT", "EXCL", "WRITE"}, {"CREAT", "APPEND", "WRITE"},
                {"CREAT", "TRUNC", "WRITE"}, {"TRUNC"}}
MCWrites == {[k \in 1..4 |-> <<1, "">>]}

\* Threads of user memory are interchangeable, and so are the names of files.
MCSymmetry == Permutations(Threads) \cup Permutations(Names)

\* Command lines of the bootloader: none, one with flags, one that fails, and one
\* with a flag as it would be typed.
MCFlags == <<"1">>
MCBootLines == {<<>>, <<"p", ";", "df", "1", "on", ";", "df", "1", "off">>, <<"x", ";", "p">>,
                <<"p", ";", "df", " ", "1", " ", "on">>}

F == INSTANCE Sfs
U == INSTANCE Menu WITH Flags <- MCFlags, BootLines <- MCBootLines

fvars == <<fs, fds, ret, failures>>
uvars == <<buf, mode, context, isargs, dbflags, line, ran, on, doubled>>

SumInit ==
  /\ which \in {"memory", "sfs", "menu", "syscalls"}
  /\ Init /\ F!Init /\ U!Init /\ SysInit
  /\ which # "menu" => line = <<>>

SumNext ==
  \/ which = "memory" /\ Next /\ UNCHANGED <<which, fvars, uvars, s_vars>>
  \/ which = "sfs" /\ F!Opens /\ UNCHANGED <<which, vars, uvars, s_vars>>
  \/ which = "sfs" /\ F!Uses /\ UNCHANGED <<which, vars, uvars, s_vars>>
  \/ which = "sfs" /\ F!Removes /\ UNCHANGED <<which, vars, uvars, s_vars>>
  \/ which = "sfs" /\ F!Renames /\ UNCHANGED <<which, vars, uvars, s_vars>>
  \/ which = "sfs" /\ F!Links /\ UNCHANGED <<which, vars, uvars, s_vars>>
  \/ which = "sfs" /\ F!Mounts /\ UNCHANGED <<which, vars, uvars, s_vars>>
  \/ which = "menu" /\ U!Next /\ UNCHANGED <<which, vars, fvars, s_vars>>
  \/ which = "syscalls" /\ SysNext /\ UNCHANGED <<which, vars, fvars, uvars>>

SumSpec == SumInit /\ [][SumNext]_<<which, vars, fvars, uvars, s_vars>>

\* Once a flag was switched twice in a row nothing is claimed of the flags, and
\* nothing else depends on them.
MenuView == <<buf, mode, context, isargs, line, ran, doubled,
              IF doubled THEN <<>> ELSE <<dbflags, on>>>>

\* What does not belong to the component that runs never changes.
SumView == <<which, CASE which = "memory" -> vars
                      [] which = "sfs" -> F!Observable
                      [] which = "menu" -> MenuView
                      [] which = "syscalls" -> s_vars>>
-----------------------------------------------------------------------------
\* The volume is consistent, and vnodes are held as long as they are used
\* (sfs_vnode.c).
FilesSound == which = "sfs" => F!VolumeConsistent /\ F!VnodesHeld
\* The files, descriptors and answers are those of FileStore (sfs_vnode.c,
\* vfspath.c).
ImplementsFileStore == F!ImplementsFileStore
\* The menu executes what was entered (kgets, strtok_r, cmd_dispatch).
MenuFaithful == which = "menu" => U!MenuFaithful
=============================================================================
