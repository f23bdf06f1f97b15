------------------------------ MODULE Syscalls ------------------------------
(***************************************************************************)
(* System calls as programs see them: mips_syscall and the registers of a  *)
(* trap frame (arch/mips/mips/syscall.c), the calls that move data between *)
(* a program and the kernel (userprog/system_calls_PI.c), the copying      *)
(* itself with its range check and its recovery from faults                *)
(* (lib/copyinout.c), and the trap frame that a forked child resumes from. *)
(*                                                                         *)
(* An address is a word of AddrSize values and memory has one value per    *)
(* address.  Programs share no memory, so that what one does changes none  *)
(* of another's; a call may be preempted at every word it copies.          *)
(* waitpid and the exits are in Process, the address spaces in AddrSpace.  *)
(***************************************************************************)
EXTENDS Integers, Sequences, FiniteSets

CONSTANTS
  Programs, FirstProgram, \* threads, and the one that runs a program at first
  AddrSize, UserTop,      \* the address space, and where the kernel starts in it
  Mapped,                 \* the addresses below UserTop that do not fault
  Ptrs, Sizes,            \* arguments of calls
  MaxCalls,               \* bound: the calls a program makes
  NULL

\* The error numbers, what a call can answer, and trap frames.
Errors == {"EBADF", "EFAULT", "ENOSPC", "EUNIMP", "ENOSYS", "ENOMEM"}
Values == Nat \cup Programs \cup {"secs"} \cup Errors
Frames == [v0 : Values, a3 : {0, 1}, epc : Nat]

\* Programs are below the kernel, arguments fit in a word, and NULL is neither
\* a length, nor a frame, nor a call.
ASSUME SysAssumption ==
  /\ FirstProgram \in Programs
  /\ AddrSize \in Nat /\ UserTop \in 1 .. AddrSize
  /\ Mapped \subseteq 0 .. (UserTop - 1)
  /\ Ptrs \cup Sizes \subseteq 0 .. (AddrSize - 1)
  /\ NULL \notin Nat /\ NULL \notin Frames
  /\ NULL \notin {"write", "read", "__time", "getpid", "sleep", "fork", "_exit", "other"}

VARIABLES
  s_pc,        \* "none", "new", "user", "getch", "copy", "copied" or "dead"
  tf,          \* the trap frame: v0, a3 and the number of calls epc is past
  call,        \* the call a thread is in, or was in last
  copy,        \* the last copy: user address, words done, kernel's buffer
  badfault,    \* pcb_badfaultfunc is set
  childtf,     \* the frame kmalloc'd for a child that has not started
  s_mem,       \* the memory of each program
  shown,       \* what the last write printed
  made         \* history: the calls a program, or its parent before it, made

s_vars == <<s_pc, tf, call, copy, badfault, childtf, s_mem, shown, made>>

Nul == "NUL"
NoCall == [no |-> NULL]

\* The calls a program makes.
Calls ==
  [no : {"write", "read"}, fd : {0, 1}, ptr : Ptrs, len : Sizes] \cup
  [no : {"__time"}, ptr : Ptrs, ptr2 : Ptrs] \cup
  [no : {"getpid", "sleep", "fork", "_exit", "other"}]

\* Addresses hold different values, and one of them the end of a string.
SysInit ==
  /\ s_pc = [t \in Programs |-> IF t = FirstProgram THEN "user" ELSE "none"]
  /\ tf = [t \in Programs |-> [v0 |-> 0, a3 |-> 0, epc |-> 0]]
  /\ call = [t \in Programs |-> NoCall]
  /\ copy = [t \in Programs |-> [addr |-> 0, done |-> 0, kbuf |-> <<>>]]
  /\ badfault = [t \in Programs |-> FALSE]
  /\ childtf = [t \in Programs |-> NULL]
  /\ s_mem = [t \in Programs |-> [a \in Mapped |-> IF a = UserTop - 1 THEN Nul ELSE "text"]]
  /\ shown = [t \in Programs |-> <<>>]
  /\ made = [t \in Programs |-> 0]
-----------------------------------------------------------------------------
\* The length that can be copied from or to ptr, NULL for EFAULT; top wraps.
copycheck(ptr, len) ==
  LET top == (ptr + len - 1) % AddrSize
  IN IF top < ptr \/ ptr >= UserTop THEN NULL
     ELSE IF top >= UserTop THEN UserTop - ptr ELSE len

Goes(t, where) == s_pc' = [s_pc EXCEPT ![t] = where]

\* The end of mips_syscall: the answer in the registers, and the program
\* counter past the instruction.
Registers(t, err, retval) ==
  tf' = [tf EXCEPT ![t] =
           [v0 |-> IF err = "OK" THEN retval ELSE err,
            a3 |-> IF err = "OK" THEN 0 ELSE 1, epc |-> @.epc + 1]]

Answers(t, err, retval) ==
  /\ Registers(t, err, retval)
  /\ Goes(t, "user")
  /\ UNCHANGED <<copy, badfault>>

\* copyin and copyout up to the memcpy: a region that is not all below
\* UserTop is refused.
StartCopy(t, ptr, kbuf) ==
  \/ /\ copycheck(ptr, Len(kbuf)) # Len(kbuf)
     /\ Answers(t, "EFAULT", 0)
  \/ /\ copycheck(ptr, Len(kbuf)) = Len(kbuf)
     /\ Goes(t, "copy")
     /\ copy' = [copy EXCEPT ![t] = [addr |-> ptr, done |-> 0, kbuf |-> kbuf]]
     /\ badfault' = [badfault EXCEPT ![t] = TRUE]
     /\ UNCHANGED tf

Address(t) == copy[t].addr + copy[t].done
Copying(t) == s_pc[t] = "copy" /\ copy[t].done < Len(copy[t].kbuf)

\* One word of the memcpy of copyin (for write) or copyout.
memcpy(t) ==
  /\ Copying(t)
  /\ Address(t) \in Mapped
  /\ LET i == copy[t].done + 1
     IN \/ /\ call[t].no = "write"
           /\ copy' = [copy EXCEPT ![t].done = i, ![t].kbuf[i] = s_mem[t][Address(t)]]
           /\ UNCHANGED s_mem
        \/ /\ call[t].no # "write"
           /\ copy' = [copy EXCEPT ![t].done = i]
           /\ s_mem' = [s_mem EXCEPT ![t][Address(t)] = copy[t].kbuf[i]]
  /\ UNCHANGED <<s_pc, tf, call, badfault, childtf, shown, made>>

\* A word of it faults: the trap resumes in copyfail, which goes back to the
\* setjmp, and the call fails.
copyfail(t) ==
  /\ Copying(t)
  /\ Address(t) \notin Mapped
  /\ badfault' = [badfault EXCEPT ![t] = FALSE]
  /\ Registers(t, "EFAULT", 0)
  /\ Goes(t, "user")
  /\ UNCHANGED <<call, copy, childtf, s_mem, shown, made>>

\* The memcpy is through.
CopyDone(t) ==
  /\ s_pc[t] = "copy" /\ ~Copying(t)
  /\ badfault' = [badfault EXCEPT ![t] = FALSE]
  /\ Goes(t, "copied")
  /\ UNCHANGED <<tf, call, copy, childtf, s_mem, shown, made>>
-----------------------------------------------------------------------------
\* The calls, up to where they wait or copy.

\* The kernel's buffer may not be had.
sys_write(t, c) ==
  \/ c.fd = 0 /\ Answers(t, "EBADF", 0)
  \/ c.fd # 0 /\ c.ptr = 0 /\ Answers(t, "EFAULT", 0)
  \/ c.fd # 0 /\ c.ptr # 0 /\ Answers(t, "ENOSPC", 0)
  \/ c.fd # 0 /\ c.ptr # 0 /\ StartCopy(t, c.ptr, [i \in 1 .. c.len |-> NULL])

sys_read(t, c) ==
  \/ c.fd # 0 /\ Answers(t, "EBADF", 0)
  \/ c.fd = 0 /\ c.ptr = 0 /\ Answers(t, "EFAULT", 0)
  \/ c.fd = 0 /\ c.ptr # 0 /\ c.len # 1 /\ Answers(t, "EUNIMP", 0)
  \/ c.fd = 0 /\ c.ptr # 0 /\ c.len = 1 /\ Goes(t, "getch") /\ UNCHANGED <<tf, copy, badfault>>

\* A key has come.
getch(t) ==
  /\ s_pc[t] = "getch"
  /\ StartCopy(t, call[t].ptr, <<"key">>)
  /\ UNCHANGED <<call, childtf, s_mem, shown, made>>

\* Either pointer may be NULL.
Nanoseconds(t, c) ==
  \/ c.ptr2 = 0 /\ Answers(t, "OK", "secs")
  \/ c.ptr2 # 0 /\ StartCopy(t, c.ptr2, <<"nsecs">>)
sys__time(t, c) ==
  \/ c.ptr = 0 /\ Nanoseconds(t, c)
  \/ c.ptr # 0 /\ StartCopy(t, c.ptr, <<"secs">>)

\* The other calls: unknown ones are refused, _exit does not come back.
Immediate(t, c) ==
  \/ c.no = "getpid" /\ Answers(t, "OK", t)
  \/ c.no = "sleep" /\ Answers(t, "OK", 0)
  \/ c.no = "other" /\ Answers(t, "ENOSYS", 0)
  \/ c.no = "_exit" /\ Goes(t, "dead") /\ UNCHANGED <<tf, copy, badfault>>

mips_syscall(t) ==
  /\ s_pc[t] = "user" /\ tf[t].epc < MaxCalls
  /\ \E c \in Calls :
       /\ call' = [call EXCEPT ![t] = c]
       /\ \/ c.no = "write" /\ sys_write(t, c)
          \/ c.no = "read" /\ sys_read(t, c)
          \/ c.no = "__time" /\ sys__time(t, c)
          \/ Immediate(t, c)
          \/ c.no = "fork" /\ Answers(t, "ENOMEM", 0)
  /\ made' = [made EXCEPT ![t] = @ + 1]
  /\ UNCHANGED <<childtf, s_mem, shown>>

\* A fork that succeeds: the child's frame is a copy of its own, on the heap.
sys_fork_frame(t) ==
  /\ s_pc[t] = "user" /\ tf[t].epc < MaxCalls
  /\ \E c \in Programs :
       /\ s_pc[c] = "none"
       /\ Registers(t, "OK", c)
       /\ s_pc' = [s_pc EXCEPT ![c] = "new"]
       /\ childtf' = [childtf EXCEPT ![c] = tf[t]]
       /\ s_mem' = [s_mem EXCEPT ![c] = s_mem[t]]
       /\ made' = [made EXCEPT ![t] = @ + 1, ![c] = made[t] + 1]
  /\ call' = [call EXCEPT ![t] = [no |-> "fork"]]
  /\ UNCHANGED <<copy, badfault, shown>>

\* (Mutant: the child starts at the instruction that called fork.)
childProcstub_again(c) ==
  /\ s_pc[c] = "new"
  /\ tf' = [tf EXCEPT ![c] = [v0 |-> 0, a3 |-> 0, epc |-> childtf[c].epc]]
  /\ childtf' = [childtf EXCEPT ![c] = NULL]
  /\ Goes(c, "user")
  /\ UNCHANGED <<call, copy, badfault, s_mem, shown, made>>

\* The child's first steps: it takes the frame, frees it and goes to the
\* instruction after the call.
childProcstub(c) ==
  /\ s_pc[c] = "new"
  /\ tf' = [tf EXCEPT ![c] = [v0 |-> 0, a3 |-> 0, epc |-> childtf[c].epc + 1]]
  /\ childtf' = [childtf EXCEPT ![c] = NULL]
  /\ Goes(c, "user")
  /\ UNCHANGED <<call, copy, badfault, s_mem, shown, made>>

\* kprintf of the buffer stops at a NUL.
Printed(s) ==
  LET end == {i \in 0 .. Len(s) : \A j \in 1 .. i : s[j] # Nul}
  IN SubSeq(s, 1, CHOOSE i \in end : \A j \in end : j <= i)

\* The calls after a copy.
AfterCopy(t) ==
  /\ s_pc[t] = "copied"
  /\ \/ /\ call[t].no = "write"
        /\ shown' = [shown EXCEPT ![t] = Printed(copy[t].kbuf)]
        /\ Answers(t, "OK", call[t].len)
     \/ /\ call[t].no = "read"
        /\ Answers(t, "OK", 1)
        /\ UNCHANGED shown
     \/ /\ call[t].no = "__time" /\ copy[t].kbuf = <<"secs">>
        /\ Nanoseconds(t, call[t])
        /\ UNCHANGED shown
     \/ /\ call[t].no = "__time" /\ copy[t].kbuf = <<"nsecs">>
        /\ Answers(t, "OK", "secs")
        /\ UNCHANGED shown
  /\ UNCHANGED <<call, childtf, s_mem, made>>

SysNext ==
  \E t \in Programs :
    \/ mips_syscall(t) \/ sys_fork_frame(t) \/ childProcstub(t) \/ getch(t)
    \/ memcpy(t) \/ copyfail(t) \/ CopyDone(t) \/ AfterCopy(t)

SysSpec == SysInit /\ [][SysNext]_s_vars
-----------------------------------------------------------------------------
Region(ptr, len) == ptr .. (ptr + len - 1)

\* What the answer to the last call of t says is what happened.
Honest(t) ==
  LET c == call[t]
      faulted == tf[t].a3 = 1 /\ tf[t].v0 = "EFAULT"
      done == tf[t].a3 = 0
  IN /\ c.no = "write" =>
          /\ done => /\ tf[t].v0 = c.len /\ Region(c.ptr, c.len) \subseteq Mapped
                     /\ shown[t] = Printed([i \in 1 .. c.len |-> s_mem[t][c.ptr + i - 1]])
          /\ faulted => c.ptr = 0 \/ c.len = 0 \/ ~(Region(c.ptr, c.len) \subseteq Mapped)
     /\ c.no = "read" =>
          /\ done => c.ptr \in Mapped /\ s_mem[t][c.ptr] = "key"
          /\ faulted => c.ptr = 0 \/ c.ptr \notin Mapped
     /\ c.no = "__time" =>
          /\ done => /\ c.ptr2 # 0 => c.ptr2 \in Mapped /\ s_mem[t][c.ptr2] = "nsecs"
                     /\ c.ptr \notin {0, c.ptr2} => c.ptr \in Mapped /\ s_mem[t][c.ptr] = "secs"
          /\ faulted => ~({c.ptr, c.ptr2} \ {0} \subseteq Mapped)

\* System calls are sound, under every preemption and fault (mips_syscall,
\* copyin, copyout, sys_fork and childProcstub): pcb_badfaultfunc is set
\* exactly while its thread copies, so that a fault elsewhere is not taken
\* for one of a copy; a copy never leaves the program's half of the address
\* space, wrap-around included; a program in user mode is past exactly the
\* calls that it, or its parent up to the fork, made; a child that has made
\* no call yet sees 0 from fork, whatever its parent did since; a child that
\* has not started has its frame; and the answer of each call is honest: a
\* success did all it says and EFAULT is never given for good memory.
SyscallsSound ==
  \A t \in Programs :
    /\ badfault[t] <=> s_pc[t] = "copy"
    /\ s_pc[t] = "copy" => Region(copy[t].addr, Len(copy[t].kbuf)) \subseteq 0 .. (UserTop - 1)
    /\ childtf[t] # NULL <=> s_pc[t] = "new"
    /\ s_pc[t] = "user" =>
         /\ tf[t].epc = made[t]
         /\ call[t] = NoCall => tf[t].v0 = 0 /\ tf[t].a3 = 0
         /\ Honest(t)

=============================================================================
