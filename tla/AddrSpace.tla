------------------------------ MODULE AddrSpace ------------------------------
(***************************************************************************)
(* User memory of OS/161's dumbvm: the address spaces of user programs     *)
(* (arch/mips/mips/dumbvm.c), the frames they take from ram_stealmem       *)
(* (arch/mips/mips/ram.c), the one TLB the threads share, how a program    *)
(* gets its memory (userprog/runprogram.c, loadelf.c, the copy of fork),   *)
(* and how a reference to it travels through mips_trap (trap.c) to         *)
(* vm_fault and back, in user mode or inside copyin and copyout            *)
(* (lib/copyinout.c).                                                      *)
(*                                                                         *)
(* Memory is a row of words, PageSize of them to a page.  A virtual or     *)
(* physical page is its number; frame 0 holds the exception handlers.  A   *)
(* word's contents are the name of whoever wrote it: a segment of the      *)
(* program file, Zero, the kernel, or the thread that stored to it.  A     *)
(* trap handler runs with interrupts on once it has saved its state, so a  *)
(* context switch may come between any two steps below.                    *)
(***************************************************************************)
EXTENDS Naturals, FiniteSets, Sequences

CONSTANTS
  Threads,     \* threads that may run a program
  PageSize,    \* words in a page
  NFrames,     \* frames of RAM, the kernel's own frame 0 included
  NumTlb,      \* slots of the TLB (NUM_TLB)
  StackPages,  \* pages of a stack (DUMBVM_STACKPAGES)
  UserStack,   \* the page just above the stack (USERSTACK)
  Images,      \* program files: sequences of [name, vaddr, memsz, filesz]
  Touched,     \* virtual addresses programs refer to
  Zero, KernelData, None

\* struct addrspace, and an entry of the TLB.
Spaces == [vbase1 : Nat, npages1 : Nat, pbase1 : Nat,
           vbase2 : Nat, npages2 : Nat, pbase2 : Nat, stackpbase : Nat]
Entries == [v : Nat, p : Nat]

\* A program file has at least one segment, and none of its segments is empty.
ASSUME AddrSpaceAssumption ==
  /\ PageSize \in Nat \ {0} /\ NFrames \in Nat \ {0} /\ NumTlb \in Nat
  /\ StackPages \in Nat /\ UserStack \in Nat /\ Touched \in SUBSET Nat
  /\ \A m \in Images :
       /\ Len(m) \in Nat \ {0}
       /\ \A i \in 1 .. Len(m) :
            m[i].vaddr \in Nat /\ m[i].memsz \in Nat /\ m[i].memsz > 0
  /\ None \notin Threads \cup Nat \cup Entries \cup Spaces

VARIABLES
  cur,        \* curthread, or None once the kernel has panicked
  stage,      \* what each thread is doing: [at, image, seg, off]
  fault,      \* the address of the reference being handled, or None
  space,      \* t_vmspace: an address space, or None
  tlb,        \* slot -> [v, p], or None where the slot is not valid
  firstpaddr, \* the first frame not yet handed out
  kernelpages,\* frames the kernel heap has
  mem,        \* the words of RAM
  expect      \* history: what each program should find at its addresses

vars == <<cur, stage, fault, space, tlb, firstpaddr, kernelpages, mem, expect>>

Slots == 0 .. NumTlb - 1
Page(v) == v \div PageSize
WordsOf(p) == p * PageSize .. (p + 1) * PageSize - 1

(***************************************************************************)
(* Frames.  Pages are handed out in order and never come back:             *)
(* free_kpages does nothing.                                               *)
(***************************************************************************)

\* Frame 0 for failure; the address and where the next request starts.
ram_stealmem(first, npages) ==
  IF first + npages > NFrames THEN [addr |-> 0, next |-> first]
                              ELSE [addr |-> first, next |-> first + npages]

\* kmalloc for a small object: a block the heap has, a fresh page for the
\* heap, or NULL when there is no page.
Kmalloc ==
  {[ok |-> TRUE, next |-> firstpaddr, pages |-> {}]} \cup
  LET r == ram_stealmem(firstpaddr, 1)
  IN IF r.addr = 0 THEN {[ok |-> FALSE, next |-> firstpaddr, pages |-> {}]}
                   ELSE {[ok |-> TRUE, next |-> r.next, pages |-> {r.addr}]}

\* The kernel writes to the heap page it got.
KernelWrites(m, pages) ==
  [w \in DOMAIN m |-> IF Page(w) \in pages THEN KernelData ELSE m[w]]

(***************************************************************************)
(* Address spaces.                                                         *)
(***************************************************************************)

as_create == [vbase1 |-> 0, npages1 |-> 0, pbase1 |-> 0,
              vbase2 |-> 0, npages2 |-> 0, pbase2 |-> 0, stackpbase |-> 0]

\* Rounds the region out to whole pages; a third region is EUNIMP.
as_define_region(as, vaddr, sz) ==
  LET npages == (sz + (vaddr % PageSize) + PageSize - 1) \div PageSize
  IN IF as.vbase1 = 0
     THEN [as |-> [as EXCEPT !.vbase1 = Page(vaddr), !.npages1 = npages], err |-> "OK"]
     ELSE IF as.vbase2 = 0
     THEN [as |-> [as EXCEPT !.vbase2 = Page(vaddr), !.npages2 = npages], err |-> "OK"]
     ELSE [as |-> as, err |-> "EUNIMP"]

\* Frames for both regions and the stack; what a failed request took is lost.
as_prepare_load(as, first) ==
  LET r1 == ram_stealmem(first, as.npages1)
      r2 == ram_stealmem(r1.next, as.npages2)
      r3 == ram_stealmem(r2.next, StackPages)
      As(p1, p2, p3) == [as EXCEPT !.pbase1 = p1, !.pbase2 = p2, !.stackpbase = p3]
      Fails(a, next) == [as |-> a, next |-> next, err |-> "ENOMEM"]
  IN IF r1.addr = 0 THEN Fails(As(0, 0, 0), first)
     ELSE IF r2.addr = 0 THEN Fails(As(r1.addr, 0, 0), r1.next)
     ELSE IF r3.addr = 0 THEN Fails(As(r1.addr, r2.addr, 0), r2.next)
     ELSE [as |-> As(r1.addr, r2.addr, r3.addr), next |-> r3.next, err |-> "OK"]

\* memmove of npages pages from frame src to frame dst.
Move(m, dst, src, npages) ==
  [w \in DOMAIN m |->
     IF Page(w) \in dst .. dst + npages - 1
     THEN m[w - dst * PageSize + src * PageSize] ELSE m[w]]

\* (Mutant: the stack is not copied.)
as_copy_nostack(old, m, first) ==
  LET new == [as_create EXCEPT
                !.vbase1 = old.vbase1, !.npages1 = old.npages1,
                !.vbase2 = old.vbase2, !.npages2 = old.npages2]
      r == as_prepare_load(new, first)
      m1 == Move(m, r.as.pbase1, old.pbase1, old.npages1)
  IN [as |-> r.as, next |-> r.next, err |-> r.err,
      mem |-> IF r.err = "OK" THEN Move(m1, r.as.pbase2, old.pbase2, old.npages2) ELSE m]

\* The new space has the old one's regions, in frames of its own, and a copy
\* of what the old one's frames hold.
as_copy(old, m, first) ==
  LET new == [as_create EXCEPT
                !.vbase1 = old.vbase1, !.npages1 = old.npages1,
                !.vbase2 = old.vbase2, !.npages2 = old.npages2]
      r == as_prepare_load(new, first)
      m1 == Move(m, r.as.pbase1, old.pbase1, old.npages1)
      m2 == Move(m1, r.as.pbase2, old.pbase2, old.npages2)
  IN [as |-> r.as, next |-> r.next, err |-> r.err,
      mem |-> IF r.err = "OK"
              THEN Move(m2, r.as.stackpbase, old.stackpbase, StackPages)
              ELSE m]

\* as_activate forgets every translation.
as_activate == [i \in Slots |-> None]

\* The frame of virtual page p in a space, or 0.
Translate(as, p) ==
  IF p >= as.vbase1 /\ p < as.vbase1 + as.npages1
  THEN as.pbase1 + (p - as.vbase1)
  ELSE IF p >= as.vbase2 /\ p < as.vbase2 + as.npages2
  THEN as.pbase2 + (p - as.vbase2)
  ELSE IF p >= UserStack - StackPages /\ p < UserStack
  THEN as.stackpbase + (p - (UserStack - StackPages))
  ELSE 0

\* What vm_fault asserts of a space: it has two regions, and a program with one
\* segment panics the kernel with its first reference.
AsSetUp(as) ==
  /\ as.vbase1 # 0 /\ as.pbase1 # 0 /\ as.npages1 # 0
  /\ as.vbase2 # 0 /\ as.pbase2 # 0 /\ as.npages2 # 0 /\ as.stackpbase # 0

\* The TLB with a translation of page p in the first slot that is free.
vm_fault(as, p) ==
  LET free == {i \in Slots : tlb[i] = None}
      slot == CHOOSE i \in free : \A j \in free : i <= j
      frame == Translate(as, p)
  IN IF frame = 0 \/ free = {}
     THEN [tlb |-> tlb, err |-> "EFAULT"]
     ELSE [tlb |-> [tlb EXCEPT ![slot] = [v |-> p, p |-> frame]], err |-> "OK"]

(***************************************************************************)
(* Threads.                                                                *)
(***************************************************************************)

At(a) == [at |-> a, image |-> <<>>, seg |-> 0, off |-> 0]

Running(t, a) == cur = t /\ stage[t].at = a /\ fault[t] = None

\* thread_exit drops the address space and leaves the processor to others.
thread_exit(t) ==
  /\ space' = [space EXCEPT ![t] = None]
  /\ stage' = [stage EXCEPT ![t] = At("dead")]
  /\ fault' = [fault EXCEPT ![t] = None]
  /\ expect' = [expect EXCEPT ![t] = <<>>]

\* (Mutant: a switch leaves the TLB as it is.)
mi_switch_noflush(t) ==
  /\ cur \notin {None, t} /\ stage[t].at \notin {"none", "dead"}
  /\ cur' = t
  /\ UNCHANGED <<stage, fault, space, tlb, firstpaddr, kernelpages, mem, expect>>

\* The menu's thread for a program, or fork, made the thread; mi_switch and
\* mi_threadstart flush the TLB for a thread that has an address space.
mi_switch(t) ==
  /\ cur \notin {None, t} /\ stage[t].at \notin {"none", "dead"}
  /\ cur' = t
  /\ tlb' = IF space[t] # None THEN as_activate ELSE tlb
  /\ UNCHANGED <<stage, fault, space, firstpaddr, kernelpages, mem, expect>>

cmd_prog(t) ==
  /\ cur # None /\ stage[t].at = "none"
  /\ stage' = [stage EXCEPT ![t] = At("new")]
  /\ UNCHANGED <<cur, fault, space, tlb, firstpaddr, kernelpages, mem, expect>>

\* An empty address space, active from here on, then load_elf.
runprogram(t) ==
  /\ Running(t, "new")
  /\ \E r \in Kmalloc :
       /\ firstpaddr' = r.next
       /\ kernelpages' = kernelpages \cup r.pages
       /\ mem' = KernelWrites(mem, r.pages)
       /\ IF r.ok
          THEN /\ space' = [space EXCEPT ![t] = as_create]
               /\ tlb' = as_activate
               /\ \E image \in Images :
                    stage' = [stage EXCEPT ![t] =
                                [at |-> "define", image |-> image, seg |-> 1, off |-> 0]]
               /\ UNCHANGED <<fault, expect>>
          ELSE thread_exit(t) /\ UNCHANGED tlb
  /\ UNCHANGED cur

\* load_elf reads one program header and defines its region, ...
DefineSegment(t) ==
  /\ Running(t, "define") /\ stage[t].seg <= Len(stage[t].image)
  /\ LET g == stage[t].image[stage[t].seg]
         r == as_define_region(space[t], g.vaddr, g.memsz)
     IN IF r.err = "OK"
        THEN /\ space' = [space EXCEPT ![t] = r.as]
             /\ stage' = [stage EXCEPT ![t].seg = @ + 1]
             /\ UNCHANGED <<fault, expect>>
        ELSE thread_exit(t)
  /\ UNCHANGED <<cur, tlb, firstpaddr, kernelpages, mem>>

\* ... gets the frames, ...
PrepareLoad(t) ==
  /\ Running(t, "define") /\ stage[t].seg > Len(stage[t].image)
  /\ LET r == as_prepare_load(space[t], firstpaddr)
     IN /\ firstpaddr' = r.next
        /\ IF r.err = "OK"
           THEN /\ space' = [space EXCEPT ![t] = r.as]
                /\ stage' = [stage EXCEPT ![t].at = "load", ![t].seg = 1]
                /\ UNCHANGED <<fault, expect>>
           ELSE thread_exit(t)
  /\ UNCHANGED <<cur, tlb, kernelpages, mem>>

Segment(t) == stage[t].image[stage[t].seg]

\* The word at offset off of a loaded segment: from the file, then zeros.
Loaded(g, off) == IF off < g.filesz THEN g.name ELSE Zero

\* A reference to address v: it hits the TLB, or traps.
Hit(v) == \E i \in Slots : tlb[i] # None /\ tlb[i].v = Page(v)
Physical(v) ==
  LET e == tlb[CHOOSE i \in Slots : tlb[i] # None /\ tlb[i].v = Page(v)]
  IN e.p * PageSize + (v % PageSize)

Traps(t, v) ==
  /\ ~Hit(v)
  /\ fault' = [fault EXCEPT ![t] = v]
  /\ UNCHANGED <<cur, stage, space, tlb, firstpaddr, kernelpages, mem, expect>>

\* ... and copies out each segment, its file part and then zeros.
load_segment(t) ==
  /\ Running(t, "load")
  /\ LET g == Segment(t)
         v == g.vaddr + stage[t].off
     IN \/ Traps(t, v)
        \/ /\ Hit(v)
           /\ mem' = [mem EXCEPT ![Physical(v)] = Loaded(g, stage[t].off)]
           /\ stage' = [stage EXCEPT ![t] =
                IF stage[t].off + 1 < g.memsz THEN [@ EXCEPT !.off = stage[t].off + 1]
                ELSE IF stage[t].seg < Len(stage[t].image)
                THEN [@ EXCEPT !.seg = stage[t].seg + 1, !.off = 0]
                ELSE At("user")]
           /\ expect' = [expect EXCEPT ![t] =
                [a \in DOMAIN @ \cup {v} |->
                   IF a = v THEN Loaded(g, stage[t].off) ELSE @[a]]]
           /\ UNCHANGED <<cur, fault, space, tlb, firstpaddr, kernelpages>>

\* The program stores its name at an address, ...
Store(t) ==
  /\ Running(t, "user")
  /\ \E v \in Touched :
       \/ Traps(t, v)
       \/ /\ Hit(v)
          /\ mem' = [mem EXCEPT ![Physical(v)] = t]
          /\ expect' = [expect EXCEPT ![t] =
               [a \in DOMAIN @ \cup {v} |-> IF a = v THEN t ELSE @[a]]]
          /\ UNCHANGED <<cur, stage, fault, space, tlb, firstpaddr, kernelpages>>

\* ... or makes a system call that copies a word from or to an address; the
\* copy runs in kernel mode with pcb_badfaultfunc set.
copyout(t) ==
  \/ /\ Running(t, "user")
     /\ \E v \in Touched :
          stage' = [stage EXCEPT ![t] = [At("copy") EXCEPT !.off = v]]
     /\ UNCHANGED <<cur, fault, space, tlb, firstpaddr, kernelpages, mem, expect>>
  \/ /\ Running(t, "copy")
     /\ LET v == stage[t].off
        IN \/ Traps(t, v)
           \/ /\ Hit(v)
              /\ mem' = [mem EXCEPT ![Physical(v)] = KernelData]
              /\ expect' = [expect EXCEPT ![t] =
                   [a \in DOMAIN @ \cup {v} |-> IF a = v THEN KernelData ELSE @[a]]]
              /\ stage' = [stage EXCEPT ![t] = At("user")]
              /\ UNCHANGED <<cur, fault, space, tlb, firstpaddr, kernelpages>>

\* vm_fault's answer decides: back to the reference, the program killed, the
\* copy called off with EFAULT (for load_elf, the end of the program).
mips_trap(t) ==
  /\ cur = t /\ fault[t] # None /\ AsSetUp(space[t])
  /\ LET r == vm_fault(space[t], Page(fault[t]))
     IN /\ tlb' = r.tlb
        /\ IF r.err = "OK"
           THEN fault' = [fault EXCEPT ![t] = None] /\ UNCHANGED <<stage, space, expect>>
           ELSE IF stage[t].at = "copy"
           THEN /\ fault' = [fault EXCEPT ![t] = None]
                /\ stage' = [stage EXCEPT ![t] = At("user")]
                /\ UNCHANGED <<space, expect>>
           ELSE thread_exit(t)
  /\ UNCHANGED <<cur, firstpaddr, kernelpages, mem>>

\* An assertion of vm_fault fails.
panic(t) ==
  /\ cur = t /\ fault[t] # None /\ ~AsSetUp(space[t])
  /\ cur' = None
  /\ UNCHANGED <<stage, fault, space, tlb, firstpaddr, kernelpages, mem, expect>>

\* fork, with interrupts off throughout: the child gets a copy of the space,
\* and is given it only after thread_fork has made it runnable.  If there is no
\* memory for the thread (~made), the frames of the copy are lost.
sys_fork(t) ==
  /\ Running(t, "user")
  /\ \E c \in Threads, k \in Kmalloc, made \in BOOLEAN :
       /\ stage[c].at = "none"
       /\ kernelpages' = kernelpages \cup k.pages
       /\ LET m == KernelWrites(mem, k.pages)
              r == as_copy(space[t], m, k.next)
          IN /\ firstpaddr' = IF k.ok THEN r.next ELSE k.next
             /\ mem' = IF k.ok THEN r.mem ELSE m
             /\ made \/ ram_stealmem(r.next, 1).addr = 0
             /\ IF k.ok /\ r.err = "OK" /\ made
                THEN /\ space' = [space EXCEPT ![c] = r.as]
                     /\ stage' = [stage EXCEPT ![c] = At("user")]
                     /\ expect' = [expect EXCEPT ![c] = expect[t]]
                     /\ tlb' = as_activate
                ELSE UNCHANGED <<space, stage, expect, tlb>>
  /\ UNCHANGED <<cur, fault>>

\* The program ends.
sys_exit(t) ==
  /\ Running(t, "user")
  /\ thread_exit(t)
  /\ UNCHANGED <<cur, tlb, firstpaddr, kernelpages, mem>>

ram_bootstrap(t) ==
  /\ cur = t
  /\ stage = [u \in Threads |-> IF u = t THEN At("new") ELSE At("none")]
  /\ fault = [u \in Threads |-> None]
  /\ space = [u \in Threads |-> None]
  /\ tlb = as_activate
  /\ firstpaddr = 1 /\ kernelpages = {0}
  /\ mem = [w \in 0 .. NFrames * PageSize - 1 |-> None]
  /\ expect = [u \in Threads |-> <<>>]

Init == \E t \in Threads : ram_bootstrap(t)

Next ==
  \E t \in Threads :
    \/ mi_switch(t) \/ cmd_prog(t) \/ runprogram(t) \/ DefineSegment(t)
    \/ PrepareLoad(t) \/ load_segment(t) \/ Store(t) \/ copyout(t)
    \/ mips_trap(t) \/ panic(t) \/ sys_fork(t) \/ sys_exit(t)

Spec == Init /\ [][Next]_vars

-----------------------------------------------------------------------------

\* Every translation in the TLB is one of the running program's own address
\* space, and no page has two (the processor's behaviour is then undefined),
\* although nothing but as_activate in mi_switch, mi_threadstart, runprogram
\* and fork keeps the one TLB in step with curthread, and a fault may be
\* handled long after it was taken.
TlbCurrent ==
  cur # None /\ space[cur] # None =>
    \A i \in Slots :
      tlb[i] # None =>
        /\ Translate(space[cur], tlb[i].v) = tlb[i].p
        /\ \A j \in Slots \ {i} : tlb[j] # None => tlb[j].v # tlb[i].v

\* Every word of a program is what it last stored there, what the kernel
\* copied out to it, or what it was loaded or forked with: as_copy and
\* ram_stealmem give no frame to two owners, and load_segment put the file
\* and the zeros where the program's addresses lead.
MemoryPrivate ==
  \A t \in Threads :
    space[t] # None =>
      \A v \in DOMAIN expect[t] :
        mem[Translate(space[t], Page(v)) * PageSize + (v % PageSize)] = expect[t][v]

=============================================================================
