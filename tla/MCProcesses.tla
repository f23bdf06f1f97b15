----------------------------- MODULE MCProcesses -----------------------------
(***************************************************************************)
(* Two instances of Process side by side in one state graph: few threads,  *)
(* with forks that run out of memory, long sleeps and two exit codes; and  *)
(* more threads without all that.  A behaviour is one of the instance      *)
(* which; the other stays in its initial state.                            *)
(***************************************************************************)
EXTENDS Process, TLC

CONSTANTS MThreads

VARIABLES which
VARIABLES m_curthread, m_runqueue, m_sleepers, m_zombies, m_numthreads,
          m_pidValue, m_pids, m_pc, m_waitfor, m_secs, m_lbolt, m_kids,
          m_joining, m_menuspl, m_failures

Many == INSTANCE Process WITH
          Threads <- MThreads, ExitCodes <- {0}, HZ <- 1, SleepSecs <- {1},
          MaxFailures <- 0,
          curthread <- m_curthread, runqueue <- m_runqueue,
          sleepers <- m_sleepers, zombies <- m_zombies,
          numthreads <- m_numthreads, pidValue <- m_pidValue, pids <- m_pids,
          pc <- m_pc, waitfor <- m_waitfor, secs <- m_secs,
          lbolt_counter <- m_lbolt, kids <- m_kids, joining <- m_joining,
          menuspl <- m_menuspl, failures <- m_failures

mvars == <<m_curthread, m_runqueue, m_sleepers, m_zombies, m_numthreads,
           m_pidValue, m_pids, m_pc, m_waitfor, m_secs, m_lbolt, m_kids,
           m_joining, m_menuspl, m_failures>>

SumInit == which \in {"few", "many"} /\ Init /\ Many!Init

SumNext ==
  \/ which = "few" /\ Next /\ UNCHANGED <<which, mvars>>
  \/ which = "many" /\ Many!Next /\ UNCHANGED <<which, vars>>

SumSpec == SumInit /\ [][SumNext]_<<which, vars, mvars>>

\* Threads other than the menu are interchangeable.
MCSymmetry == Permutations(Threads \ {Boot}) \cup Permutations(MThreads \ {Boot})

\* kids only records history: no action reads it, and no property here.
WithoutKids ==
  <<which, curthread, runqueue, sleepers, zombies, numthreads, pidValue, pids,
    pc, waitfor, secs, lbolt_counter, joining, menuspl, failures,
    m_curthread, m_runqueue, m_sleepers, m_zombies, m_numthreads, m_pidValue,
    m_pids, m_pc, m_waitfor, m_secs, m_lbolt, m_joining, m_menuspl, m_failures>>
-----------------------------------------------------------------------------
\* The counters and lists agree, also after a fork that ran out of memory in
\* the middle; and with four threads, so that pids pass from one to another
\* while a third waits for them, no thread and no exit is lost and pids are
\* owned (thread_create, thread_exit, exorcise and assign_pid).
ListsAgree ==
  /\ which = "few" => ThreadsCounted /\ Bookkeeping
  /\ which = "many" => Many!ThreadsPlaced /\ Many!PidsOwned /\ Many!NoLostExit
=============================================================================
