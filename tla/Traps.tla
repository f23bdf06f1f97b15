------------------------------- MODULE Traps -------------------------------
(***************************************************************************)
(* Traps, interrupts and context switches on the one CPU: the interrupt    *)
(* level (arch/mips/mips/spl.c), the trap handler (exception.S, trap.c,    *)
(* interrupt.c), the dispatch of bus interrupts to drivers                 *)
(* (dev/lamebus/lamebus.c), the clock's forced context switch (ltimer.c,   *)
(* hardclock.c) and the switch itself (thread.c, scheduler.c, pcb.c).      *)
(*                                                                         *)
(* curspl and in_interrupt are globals that describe whatever the CPU is   *)
(* executing; the processor's own interrupt enable bit is iec.  Each       *)
(* thread has a kernel stack, a sequence of frames with the innermost      *)
(* first.  With interrupts disabled nothing can come between two           *)
(* instructions, so a step ends where iec goes on, where the CPU changes   *)
(* stacks or where a handler is called.  The processor takes a pending     *)
(* interrupt before the next instruction it would execute with iec on.     *)
(***************************************************************************)
EXTENDS Naturals, Sequences, FiniteSets, FiniteSetsExt

CONSTANTS
  Threads,      \* kernel threads
  Boot,         \* the thread the kernel starts as
  Devices,      \* the slots that hold a device
  Timer,        \* the slot of the ltimer that does hardclock
  Drivers,      \* the slots autoconfiguration finds a driver for
  NSlots,       \* LB_NSLOTS
  MaxDuds,      \* the dud interrupts in a row that are survived (10000)
  MaxDepth,     \* bound: frames on a stack when another trap is taken
  None

ASSUME TrapsAssumption ==
  /\ Boot \in Threads /\ None \notin Threads
  /\ Devices \subseteq Nat /\ MaxDuds \in Nat

VARIABLES
  iec,          \* the interrupt enable bit of the status register
  curspl,       \* 0, or 1 for SPL_HIGH
  in_interrupt, \* the global of interrupt.c
  curthread,    \* the current thread, or None inside the scheduler
  running,      \* the thread whose stack the CPU is on
  stack,        \* the frames of every thread, innermost first
  pcb,          \* pcb_ininterrupt of the threads that do not run
  ready,        \* the run queue
  asleep,       \* the threads that sleep on lbolt
  slotsinuse, irqfuncs,   \* ls_slotsinuse, and the slots with a handler
  irq,          \* the slots that assert their interrupt line
  duds,         \* the static counter of lamebus_interrupt
  panicked

cpu == <<iec, curspl, in_interrupt>>
threads == <<curthread, running, pcb, ready, asleep>>
bus == <<slotsinuse, irqfuncs, irq, duds, panicked>>
vars == <<iec, curspl, in_interrupt, curthread, running, stack, pcb, ready,
          asleep, slotsinuse, irqfuncs, irq, duds, panicked>>

\* Frames.  A kernel frame is code that is not in a trap handler, with the
\* interrupt level it saved in splhigh, if it is in such a section.
User == [pc |-> "user"]
Kernel(high) == [pc |-> "kernel", high |-> high]
Lowering == [pc |-> "lowering"]                      \* in splx(0)
Switching(spl) == [pc |-> "switch", spl |-> spl]     \* in thread_yield
Starting == [pc |-> "starting"]                      \* to enter mi_threadstart
Trap == [pc |-> "trap", spl |-> curspl, ie |-> iec]  \* mips_trap, EX_SYS, TLB
Interrupted(irqs) ==                                  \* lamebus_interrupt
  [pc |-> "bus", spl |-> curspl, ie |-> iec, old_in |-> in_interrupt,
   slot |-> 0, irqs |-> irqs, duds |-> 0]

Top == stack[running][1]
Rest == Tail(stack[running])
At(where) == ~panicked /\ (iec = 1 => irq = {}) /\ Top.pc = where
SetStack(s) == stack' = [stack EXCEPT ![running] = s]

\* The kernel starts with interrupts off; lamebus_init leaves only the bus
\* controller's own slot in use.
Init ==
  /\ iec = 0 /\ curspl = 1 /\ in_interrupt = 0
  /\ curthread = Boot /\ running = Boot
  /\ stack = [t \in Threads |-> IF t = Boot THEN <<Kernel(TRUE)>> ELSE <<>>]
  /\ pcb = [t \in Threads |-> 0]
  /\ ready = {} /\ asleep = {}
  /\ slotsinuse = {NSlots - 1} /\ irqfuncs = {} /\ irq = {}
  /\ duds = 0 /\ panicked = FALSE
-----------------------------------------------------------------------------
\* The interrupt level.

\* splx(spl) returns to the frames s.  To lower the level it turns interrupts
\* on first and sets curspl after that.
splx(spl, s) ==
  IF spl = 0 THEN iec' = 1 /\ curspl' = curspl /\ SetStack(<<Lowering>> \o s)
             ELSE iec' = 0 /\ curspl' = 1 /\ SetStack(s)

\* The second half of splx(0).
SplxLowers ==
  /\ At("lowering")
  /\ curspl' = 0 /\ SetStack(Rest)
  /\ UNCHANGED <<iec, in_interrupt, threads, bus>>

splhigh ==
  /\ At("kernel") /\ ~Top.high
  /\ iec' = 0 /\ curspl' = 1 /\ SetStack(<<Kernel(TRUE)>> \o Rest)
  /\ UNCHANGED <<in_interrupt, threads, bus>>

\* splx with the level that splhigh returned, and spl0 at the end of
\* machdep_dev_bootstrap.
EndSection ==
  /\ At("kernel") /\ Top.high
  /\ splx(0, <<Kernel(FALSE)>> \o Rest)
  /\ UNCHANGED <<in_interrupt, threads, bus>>
-----------------------------------------------------------------------------
\* Context switches.

\* thread_yield: splhigh, then mi_switch, which does nothing when it is called
\* from an interrupt in the idle loop.
thread_yield(s) ==
  IF curthread = None
  THEN splx(curspl, s) /\ UNCHANGED <<curthread, ready>>
  ELSE /\ iec' = 0 /\ curspl' = 1
       /\ SetStack(<<Switching(curspl)>> \o s)
       /\ curthread' = None
       /\ ready' = ready \cup {running}

Yield ==
  /\ At("kernel") /\ ~Top.high
  /\ thread_yield(stack[running])
  /\ UNCHANGED <<in_interrupt, running, pcb, asleep, bus>>

\* dev_bootstrap has run: no thread is forked, and none sleeps, before that.
Booted == Drivers \subseteq irqfuncs

\* thread_sleep(&lbolt) in clocksleep.
thread_sleep ==
  /\ At("kernel") /\ Top.high /\ Booted
  /\ SetStack(<<Switching(1)>> \o stack[running])
  /\ curthread' = None
  /\ asleep' = asleep \cup {running}
  /\ UNCHANGED <<cpu, running, pcb, ready, bus>>

\* (Mutant: in_interrupt is not switched with the thread.)
md_switch_global(next) == pcb' = pcb /\ in_interrupt' = in_interrupt

\* in_interrupt is saved and restored with the thread; curspl is not.
md_switch(next) ==
  IF next = running THEN UNCHANGED <<pcb, in_interrupt>>
  ELSE /\ pcb' = [pcb EXCEPT ![running] = in_interrupt]
       /\ in_interrupt' = pcb[next]

\* scheduler() finds a ready thread.
Dispatch(next) ==
  /\ At("switch") /\ curthread = None
  /\ next \in ready
  /\ ready' = ready \ {next}
  /\ curthread' = next /\ running' = next
  /\ md_switch(next)
  /\ UNCHANGED <<iec, curspl, stack, asleep, bus>>

\* scheduler() finds none: cpu_idle waits for an interrupt, lets it in and
\* turns interrupts off again.
IdleOn ==
  /\ At("switch") /\ curthread = None /\ ready = {} /\ irq # {} /\ iec = 0
  /\ iec' = 1 /\ SetStack(<<[pc |-> "idle"]>> \o stack[running])
  /\ UNCHANGED <<curspl, in_interrupt, threads, bus>>

IdleOff ==
  /\ At("idle")
  /\ iec' = 0 /\ SetStack(Rest)
  /\ UNCHANGED <<curspl, in_interrupt, threads, bus>>

\* mi_switch returns in the thread that was switched to.
Resume ==
  /\ At("switch") /\ curthread = running
  /\ splx(Top.spl, Rest)
  /\ UNCHANGED <<in_interrupt, threads, bus>>

\* A new thread calls spl0 instead.
mi_threadstart ==
  /\ At("starting") /\ curthread = running
  /\ splx(0, <<Kernel(FALSE)>>)
  /\ UNCHANGED <<in_interrupt, threads, bus>>

thread_fork(u) ==
  /\ At("kernel") /\ ~Top.high /\ Booted
  /\ stack[u] = <<>>
  /\ stack' = [stack EXCEPT ![u] = <<Starting>>]
  /\ ready' = ready \cup {u}
  /\ UNCHANGED <<cpu, curthread, running, pcb, asleep, bus>>
-----------------------------------------------------------------------------
\* Traps other than interrupts.

\* A system call from user mode, or a TLB fault there or in copyin and its
\* like.  mips_trap puts the level back to what it was and goes on as ordinary
\* kernel code.
mips_trap ==
  /\ At("user") \/ At("kernel")
  /\ Len(stack[running]) < MaxDepth
  /\ Top.pc = "kernel" => ~Top.high
  /\ splx(Trap.spl, <<Kernel(FALSE)>> \o (<<Trap>> \o stack[running]))
  /\ UNCHANGED <<in_interrupt, threads, bus>>

\* The end of mips_trap and exception_return.
TrapReturns ==
  /\ At("kernel") /\ ~Top.high /\ Len(stack[running]) > 1
  /\ LET trap == stack[running][2]
     IN /\ curspl' = trap.spl /\ iec' = trap.ie
        /\ SetStack(Tail(Rest))
  /\ UNCHANGED <<in_interrupt, threads, bus>>

\* md_usermode and childProcstub abandon what is on the kernel stack; the
\* return from exception turns interrupts on.
mips_usermode ==
  /\ At("kernel") /\ ~Top.high /\ running # Boot
  /\ Len(stack[running]) = 1
  /\ curspl' = 0 /\ iec' = 1 /\ SetStack(<<User>>)
  /\ UNCHANGED <<in_interrupt, threads, bus>>
-----------------------------------------------------------------------------
\* Interrupts.

\* mips_trap, mips_interrupt and the first reading of the bus controller.
mips_interrupt ==
  /\ ~panicked /\ iec = 1 /\ irq # {}
  /\ iec' = 0 /\ curspl' = 1 /\ in_interrupt' = 1
  /\ SetStack(<<Interrupted(irq)>> \o stack[running])
  /\ UNCHANGED <<threads, bus>>

\* An interrupt that no slot asserts is counted, and returns at once: before the
\* dud count is looked at, although the comment there says that it goes on to
\* that, so one that latches itself on is taken for ever.  The count is capped.
Stray ==
  /\ ~panicked /\ iec = 1 /\ irq = {}
  /\ duds' = Min({duds + 1, MaxDuds})
  /\ UNCHANGED <<cpu, threads, stack, slotsinuse, irqfuncs, irq, panicked>>

Pending == {s \in Top.irqs : s >= Top.slot}

\* A slot with no driver, or with no handler.
Dud ==
  /\ At("bus") /\ Pending # {}
  /\ Min(Pending) \notin slotsinuse \cap irqfuncs
  /\ duds' = duds + 1
  /\ SetStack(<<[Top EXCEPT !.slot = Min(Pending) + 1, !.duds = @ + 1]>> \o Rest)
  /\ UNCHANGED <<cpu, threads, slotsinuse, irqfuncs, irq, panicked>>

\* hardclock wakes the sleepers of lbolt once in HZ times, and yields.
hardclock(s) ==
  \E woken \in {{}, asleep} :
    /\ asleep' = asleep \ woken
    /\ IF curthread = None
       THEN splx(curspl, s) /\ ready' = ready \cup woken /\ UNCHANGED curthread
       ELSE /\ SetStack(<<Switching(curspl)>> \o s)
            /\ curthread' = None
            /\ ready' = ready \cup woken \cup {running}
            /\ UNCHANGED <<iec, curspl>>

\* The driver's handler makes its device release the line; the timer's calls
\* hardclock.
Handler ==
  /\ At("bus") /\ Pending # {}
  /\ Min(Pending) \in slotsinuse \cap irqfuncs
  /\ LET slot == Min(Pending)
         s == <<[Top EXCEPT !.slot = slot + 1, !.pc = "reload"]>> \o Rest
     IN /\ irq' = irq \ {slot}
        /\ IF slot = Timer THEN hardclock(s)
           ELSE SetStack(s) /\ UNCHANGED <<iec, curspl, curthread, ready, asleep>>
  /\ UNCHANGED <<in_interrupt, running, pcb, slotsinuse, irqfuncs, duds, panicked>>

Reload ==
  /\ At("reload")
  /\ SetStack(<<[Top EXCEPT !.pc = "bus", !.irqs = irq]>> \o Rest)
  /\ UNCHANGED <<cpu, threads, bus>>

\* (Mutant: the count starts again whenever some handler was called.)
lamebus_interrupt_forgets ==
  /\ At("bus") /\ Pending = {}
  /\ duds' = IF Top.slot > 0 /\ Top.duds < 2 THEN 0 ELSE duds
  /\ panicked' = (duds' > MaxDuds)
  /\ in_interrupt' = Top.old_in /\ curspl' = Top.spl /\ iec' = Top.ie
  /\ SetStack(Rest)
  /\ UNCHANGED <<threads, slotsinuse, irqfuncs, irq>>

\* The end of lamebus_interrupt, of mips_interrupt and of mips_trap.
lamebus_interrupt ==
  /\ At("bus") /\ Pending = {}
  /\ duds' = IF Top.duds = 0 THEN 0 ELSE duds
  /\ panicked' = (duds' > MaxDuds)
  /\ in_interrupt' = Top.old_in /\ curspl' = Top.spl /\ iec' = Top.ie
  /\ SetStack(Rest)
  /\ UNCHANGED <<threads, slotsinuse, irqfuncs, irq>>
-----------------------------------------------------------------------------
\* Autoconfiguration, in the boot thread with interrupts on: a driver marks its
\* slot and installs its handler.
Configures == At("kernel") /\ ~Top.high /\ running = Boot

lamebus_mark(slot) ==
  /\ Configures /\ slot \in Drivers \ slotsinuse
  /\ slotsinuse' = slotsinuse \cup {slot}
  /\ UNCHANGED <<cpu, threads, stack, irqfuncs, irq, duds, panicked>>

lamebus_attach_interrupt(slot) ==
  /\ Configures /\ slot \in (Drivers \cap slotsinuse) \ irqfuncs
  /\ irqfuncs' = irqfuncs \cup {slot}
  /\ UNCHANGED <<cpu, threads, stack, slotsinuse, irq, duds, panicked>>

\* A device asserts its line and holds it; config_ltimer arms the timer after
\* its handler is installed.
RaiseIrq(slot) ==
  /\ ~panicked /\ slot \notin irq
  /\ slot = Timer => Timer \in irqfuncs
  /\ irq' = irq \cup {slot}
  /\ UNCHANGED <<cpu, threads, stack, slotsinuse, irqfuncs, duds, panicked>>

CpuStep ==
  \/ SplxLowers \/ splhigh \/ EndSection \/ Yield \/ thread_sleep
  \/ \E t \in Threads : Dispatch(t) \/ thread_fork(t)
  \/ IdleOn \/ IdleOff \/ Resume \/ mi_threadstart
  \/ mips_trap \/ TrapReturns \/ mips_usermode
  \/ mips_interrupt \/ Dud \/ Handler \/ Reload \/ lamebus_interrupt
  \/ \E s \in Drivers : lamebus_mark(s) \/ lamebus_attach_interrupt(s)

Next == CpuStep \/ Stray \/ \E s \in Devices : RaiseIrq(s)

Spec == Init /\ [][Next]_vars

\* The processor always executes its next instruction.
Fairness == WF_vars(CpuStep)
-----------------------------------------------------------------------------
InHandler(t) == \E i \in DOMAIN stack[t] : stack[t][i].pc \in {"bus", "reload"}

\* The globals tell the truth about what the CPU executes, whatever switches
\* and interrupts came between: user code runs with interrupts on; kernel code
\* runs with curspl and the processor's bit at the level it asked for, so that
\* curspl says whether interrupts are on; interrupt handlers and the switch run
\* with both off; in_interrupt is set exactly while a handler is on the stack
\* (splx, mips_trap, mips_interrupt and md_switch, against the clock's switch
\* in the middle of an interrupt).
LevelsTrue ==
  /\ in_interrupt = (IF InHandler(running) THEN 1 ELSE 0)
  /\ CASE Top.pc = "user" -> curspl = 0 /\ iec = 1
       [] Top.pc = "kernel" -> /\ curspl = (IF Top.high THEN 1 ELSE 0)
                               /\ iec = 1 - curspl
       [] Top.pc = "lowering" -> iec = 1
       [] Top.pc = "idle" -> curspl = 1
       [] OTHER -> curspl = 1 /\ iec = 0
  /\ curthread = None => \E i \in DOMAIN stack[running] :
                           stack[running][i].pc = "switch"

\* The slots lamebus_interrupt takes for pending are asserting their lines when
\* their handlers are called, though the frame may have been switched away from
\* inside an earlier handler and other frames have served the bus since
\* (lamebus_interrupt: "Reload the mask of pending IRQs").
HandlersWanted == Top.pc = "bus" => Pending \subseteq irq

\* Both, for what the CPU executes (splx, mips_interrupt, lamebus_interrupt).
InterruptsSound == LevelsTrue /\ HandlersWanted

\* A device without a driver that holds its interrupt line ends in a panic, and
\* not in a machine that takes interrupts for ever (the check of the dud count
\* at the end of lamebus_interrupt, which an interrupt that no slot asserts does
\* not reach).
StuckLinePanics ==
  \A s \in Devices \ Drivers : s \in irq ~> panicked
=============================================================================
