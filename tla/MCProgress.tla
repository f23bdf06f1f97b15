----------------------------- MODULE MCProgress -----------------------------
(***************************************************************************)
(* The components with something that must eventually happen, side by side *)
(* in one state graph: semaphores, locks and condition variables; threads  *)
(* and processes; emufs; interrupts; the cats and mice.  A behaviour is    *)
(* one of the component which; the others stay in their initial states.    *)
(***************************************************************************)
EXTENDS Synch, Emufs, CatMouse

CONSTANTS PThreads, Boot, ExitCodes, HZ, SleepSecs, JoinSecs, MaxFailures
CONSTANTS Cpu, Devices, Timer, Drivers, NSlots, MaxDuds, MaxDepth

VARIABLES which
VARIABLES curthread, runqueue, sleepers, zombies, numthreads, pidValue, pids,
          p_pc, waitfor, secs, lbolt_counter, kids, joining, menuspl, failures
VARIABLES iec, curspl, in_interrupt, t_curthread, running, stack, pcb, ready,
          asleep, slotsinuse, irqfuncs, irq, duds, panicked

Pr == INSTANCE Process WITH Threads <- PThreads, pc <- p_pc
T == INSTANCE Traps WITH Threads <- {Cpu}, Boot <- Cpu, None <- NULL,
                         curthread <- t_curthread

pvars == <<curthread, runqueue, sleepers, zombies, numthreads, pidValue, pids,
           p_pc, waitfor, secs, lbolt_counter, kids, joining, menuspl, failures>>
tvars == <<iec, curspl, in_interrupt, t_curthread, running, stack, pcb, ready,
           asleep, slotsinuse, irqfuncs, irq, duds, panicked>>

SumInit ==
  /\ which \in {"synch", "process", "emufs", "traps", "catmouse"}
  /\ Init /\ Pr!Init /\ EmuInit /\ T!Init /\ catmousesem

SumNext ==
  \/ which = "synch" /\ Next /\ UNCHANGED <<which, pvars, e_vars, tvars, c_vars>>
  \/ which = "process" /\ Pr!Next /\ UNCHANGED <<which, vars, e_vars, tvars, c_vars>>
  \/ which = "emufs" /\ EmuNext /\ UNCHANGED <<which, vars, pvars, tvars, c_vars>>
  \/ which = "traps" /\ T!Next /\ UNCHANGED <<which, vars, pvars, e_vars, c_vars>>
  \/ which = "catmouse" /\ CatNext /\ UNCHANGED <<which, vars, pvars, e_vars, tvars>>

\* The fairness of each component, asked of the component that runs.
SumFairness ==
  /\ \A t \in Threads :
       /\ WF_vars(which = "synch" /\ pc[t] = "acquire" /\ lock_acquire(t))
       /\ WF_vars(which = "synch" /\ pc[t] = "P" /\ P(t))
       /\ WF_vars(which = "synch" /\ Leave(t))
  /\ WF_pvars(which = "process" /\ Pr!Dispatch)
  /\ SF_pvars(which = "process" /\ (Pr!hardclock \/ Pr!hardclock_idle))
  /\ \A t \in PThreads : WF_pvars(which = "process" /\ Pr!KernelStep(t))
  /\ WF_e_vars(which = "emufs" /\ DeviceDone)
  /\ WF_e_vars(which = "emufs" /\ emu_irq)
  /\ \A t \in EThreads : WF_e_vars(which = "emufs" /\ EmuStep(t))
  /\ WF_tvars(which = "traps" /\ T!CpuStep)

SumSpec ==
  SumInit /\ [][SumNext]_<<which, vars, pvars, e_vars, tvars, c_vars>> /\ SumFairness
-----------------------------------------------------------------------------
\* Waiting for a free lock, or for a positive count, ends (lock_release and V
\* wake every sleeper, and each looks again).
WaitersServed == LockTaken /\ CountTaken
\* A ready thread runs (mi_switch and the round robin of scheduler.c).
ReadyRuns == Pr!ReadyRuns
\* A sleep of some seconds ends (clocksleep and hardclock).
SleepEnds == Pr!SleepEnds
\* A stuck interrupt line ends in a panic (the dud count of lamebus_interrupt).
StuckLinePanics == T!StuckLinePanics
=============================================================================
