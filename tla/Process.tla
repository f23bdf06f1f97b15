------------------------------- MODULE Process -------------------------------
(***************************************************************************)
(* Threads and processes: kern/thread/thread.c, scheduler.c, hardclock.c,  *)
(* kern/userprog/pid_system.c and the process system calls of              *)
(* kern/userprog/system_calls_PI.c.                                        *)
(*                                                                         *)
(* One processor.  A thread that holds it runs until it switches away or,  *)
(* when interrupts are on, until the timer interrupts it.  The code        *)
(* between splhigh() and the context switch is therefore one step.         *)
(* mi_switch is cut in two where the processor can idle: the step that     *)
(* stashes the current thread leaves curthread = NULL, and Dispatch, which *)
(* is the only step possible while the run queue is not empty, is          *)
(* scheduler(), md_switch and what the next thread does before it returns  *)
(* from mi_switch.                                                         *)
(***************************************************************************)
EXTENDS PidSystem, FiniteSets, Functions

CONSTANTS
    Boot,         \* the thread that becomes the kernel menu
    HZ,           \* timer interrupts per second (100 in the kernel)
    SleepSecs,    \* arguments processes pass to sleep()
    JoinSecs,     \* how long thread_join sleeps (5 in the kernel)
    MaxFailures   \* bound: times a fork runs out of memory

ASSUME BootAssumption == Boot \in Threads
ASSUME ThreadsAssumption == IsFiniteSet(Threads)
ASSUME HZAssumption == HZ \in Nat \ {0}
ASSUME SecsAssumption == SleepSecs \subseteq Nat \ {0} /\ JoinSecs \in Nat \ {0}
ASSUME FailAssumption == MaxFailures \in Nat

VARIABLES
    curthread,      \* the running thread, NULL while the scheduler runs
    runqueue,       \* FIFO of ready threads
    sleepers,       \* sleeping threads, in the order they went to sleep
    zombies,        \* exited threads not yet destroyed
    numthreads,     \* threads that have not exited
    pidValue,       \* t->pidValue
    pids,           \* the pid list
    pc,             \* where each thread is (see below)
    waitfor,        \* waitpid's checkChild: the pid a thread waits for
    secs,           \* clocksleep's num_secs
    lbolt_counter,  \* ticks since lbolt was last woken
    kids,           \* pids fork returned to t and waitpid has not yet reported
    joining,        \* the thread the menu forked and joins, else NULL
    menuspl,        \* the interrupt level the menu runs at: 0, or SPL_HIGH
    failures        \* forks that ran out of memory so far

vars == <<curthread, runqueue, sleepers, zombies, numthreads, pidValue, pids,
          pc, waitfor, secs, lbolt_counter, kids, joining, menuspl, failures>>

SPL_HIGH == 15

\* none: no such thread.  created: thread_create returned it to the menu.
\* new: runnable, never run.  user: interruptible code.  forking: the menu,
\* between thread_create and the rest of thread_fork, interruptible too.
\* waitpid: in the P loop of sys_waitpid.  clocksleep: in its loop.
PC == {"none", "created", "new", "user", "forking", "waitpid", "clocksleep",
       "zombie"}

TypeOK ==
    /\ curthread \in Threads \cup {NULL}
    /\ runqueue \in Seq(Threads)
    /\ sleepers \in Seq(Threads)
    /\ zombies \subseteq Threads
    /\ numthreads \in Nat
    /\ pidValue \in [Threads -> Nat]
    /\ pids \in Seq(PidEntry)
    /\ pc \in [Threads -> PC]
    /\ waitfor \in [Threads -> Nat]
    /\ secs \in [Threads -> Nat]
    /\ lbolt_counter \in 0 .. (HZ - 1)
    /\ kids \in [Threads -> SUBSET Nat]
    /\ joining \in Threads \cup {NULL}
    /\ menuspl \in {0, SPL_HIGH}
    /\ failures \in 0 .. MaxFailures

\* main.c boot: create_pid_list, then thread_bootstrap makes the boot thread.
Init ==
    /\ curthread = Boot
    /\ runqueue = <<>>
    /\ sleepers = <<>>
    /\ zombies = {}
    /\ numthreads = 1
    /\ pidValue = [t \in Threads |-> IF t = Boot THEN 1 ELSE 0]
    /\ pids = create_pid_list
    /\ pc = [t \in Threads |-> IF t = Boot THEN "user" ELSE "none"]
    /\ waitfor = [t \in Threads |-> 0]
    /\ secs = [t \in Threads |-> 0]
    /\ lbolt_counter = 0
    /\ kids = [t \in Threads |-> {}]
    /\ joining = NULL
    /\ menuspl = 0
    /\ failures = 0

(***************************************************************************)
(* thread.c and scheduler.c                                                *)
(***************************************************************************)

\* The sequences that list the set S in the order in which s lists it (there
\* is exactly one when S is contained in the range of s).
InOrderOf(S, s) ==
    {w \in UNION {[1 .. n -> S] : n \in 0 .. Len(s)} :
        /\ Range(w) = S
        /\ \A i, j \in DOMAIN w : i < j =>
              \E k, l \in DOMAIN s : k < l /\ s[k] = w[i] /\ s[l] = w[j]}

\* scheduler.c make_runnable: to the tail of the run queue.
make_runnable(q, t) == Append(q, t)

\* Sleepers on the semaphore of pid p, and on lbolt.
WaitingFor(p) == {t \in Range(sleepers) : pc[t] = "waitpid" /\ waitfor[t] = p}
OnLbolt == {t \in Range(sleepers) : pc[t] = "clocksleep"}

\* (Mutant: does not remove them from sleepers.)
thread_wakeup_keeps(S, next) ==
    \E woken \in InOrderOf(S, sleepers) :
        /\ runqueue' = runqueue \o woken \o next
        /\ sleepers' = sleepers

\* thread_wakeup: every sleeper of the set S goes to the tail of the run
\* queue, in sleepers order, followed by the sequence next.
thread_wakeup(S, next) ==
    \E woken \in InOrderOf(S, sleepers),
       rest \in InOrderOf(Range(sleepers) \ S, sleepers) :
        /\ runqueue' = runqueue \o woken \o next
        /\ sleepers' = rest

\* thread_sleep up to the scheduler.
thread_sleep(t) ==
    /\ curthread' = NULL
    /\ sleepers' = Append(sleepers, t)
    /\ UNCHANGED runqueue

\* exorcise: free the zombies and their pids.
exorcise ==
    /\ pids' = release_pid(pids, {pidValue[z] : z \in zombies})
    /\ pidValue' = [t \in Threads |-> IF t \in zombies THEN 0 ELSE pidValue[t]]
    /\ pc' = [t \in Threads |-> IF t \in zombies THEN "none" ELSE pc[t]]
    /\ zombies' = {}

\* scheduler() finds a ready thread and mi_switch resumes it.  A thread that
\* never ran starts in mi_threadstart, which does not call exorcise.
Dispatch ==
    /\ curthread = NULL
    /\ runqueue # <<>>
    /\ curthread' = Head(runqueue)
    /\ runqueue' = Tail(runqueue)
    /\ \/ /\ pc[Head(runqueue)] = "new"
          /\ pc' = [pc EXCEPT ![Head(runqueue)] = "user"]
          /\ UNCHANGED <<pids, pidValue, zombies>>
       \/ /\ pc[Head(runqueue)] # "new"
          /\ exorcise
    /\ UNCHANGED <<sleepers, numthreads, waitfor, secs, lbolt_counter, kids,
                   joining, menuspl, failures>>

\* thread_yield: to the tail of the run queue, still runnable.
thread_yield(t) ==
    /\ curthread = t /\ pc[t] = "user"
    /\ curthread' = NULL
    /\ runqueue' = make_runnable(runqueue, t)
    /\ UNCHANGED <<sleepers, zombies, numthreads, pidValue, pids, pc, waitfor,
                   secs, lbolt_counter, kids, joining, menuspl, failures>>

(***************************************************************************)
(* hardclock.c.  The interrupt is taken only while interrupts are on: in   *)
(* interruptible code of the current thread, or in the idle loop, where    *)
(* mi_switch returns at once because curthread is NULL.                    *)
(***************************************************************************)
hardclock_lbolt(next) ==
    IF lbolt_counter + 1 >= HZ
    THEN lbolt_counter' = 0 /\ thread_wakeup(OnLbolt, next)
    ELSE /\ lbolt_counter' = lbolt_counter + 1
         /\ thread_wakeup({}, next)

\* (Mutant: does not yield.)
hardclock_keeps_running ==
    /\ curthread # NULL
    /\ pc[curthread] \in {"user", "forking"}
    /\ curthread = Boot => menuspl = 0
    /\ hardclock_lbolt(<<>>)
    /\ UNCHANGED <<curthread, zombies, numthreads, pidValue, pids, pc, waitfor,
                   secs, kids, joining, menuspl, failures>>

hardclock ==
    /\ curthread # NULL
    /\ pc[curthread] \in {"user", "forking"}
    /\ curthread = Boot => menuspl = 0
    /\ hardclock_lbolt(<<curthread>>)
    /\ curthread' = NULL
    /\ UNCHANGED <<zombies, numthreads, pidValue, pids, pc, waitfor, secs,
                   kids, joining, menuspl, failures>>

\* (Mutant: the tick that finds the processor idle is not counted.)
hardclock_idle_skips ==
    /\ curthread = NULL
    /\ runqueue = <<>>
    /\ UNCHANGED vars

hardclock_idle ==
    /\ curthread = NULL
    /\ runqueue = <<>>
    /\ hardclock_lbolt(<<>>)
    /\ UNCHANGED <<curthread, zombies, numthreads, pidValue, pids, pc, waitfor,
                   secs, kids, joining, menuspl, failures>>

\* clocksleep(n): sleep on lbolt n times.
clocksleep(t, n) ==
    /\ pc' = [pc EXCEPT ![t] = "clocksleep"]
    /\ secs' = [secs EXCEPT ![t] = n]
    /\ thread_sleep(t)

\* The loop of clocksleep after a wakeup.
clocksleep_loop(t) ==
    /\ curthread = t /\ pc[t] = "clocksleep"
    /\ secs' = [secs EXCEPT ![t] = @ - 1]
    /\ \/ /\ secs[t] > 1
          /\ thread_sleep(t)
          /\ UNCHANGED <<pc, joining>>
       \/ /\ secs[t] <= 1
          /\ pc' = [pc EXCEPT ![t] = "user"]
          /\ joining' = IF t = Boot THEN NULL ELSE joining
          /\ UNCHANGED <<curthread, runqueue, sleepers>>
    /\ UNCHANGED <<zombies, numthreads, pidValue, pids, waitfor, lbolt_counter,
                   kids, menuspl, failures>>

sys_sleep(t) ==
    /\ curthread = t /\ pc[t] = "user" /\ t # Boot
    /\ \E n \in SleepSecs : clocksleep(t, n)
    /\ UNCHANGED <<zombies, numthreads, pidValue, pids, waitfor, lbolt_counter,
                   kids, joining, menuspl, failures>>

\* thread_join, which the menu calls on the thread it has just forked.
thread_join(t) ==
    /\ curthread = t /\ pc[t] = "user" /\ t = Boot
    /\ joining # NULL
    /\ clocksleep(t, JoinSecs)
    /\ UNCHANGED <<zombies, numthreads, pidValue, pids, waitfor, lbolt_counter,
                   kids, joining, menuspl, failures>>

(***************************************************************************)
(* fork, _exit and waitpid                                                 *)
(***************************************************************************)

\* (Mutant: without the P.)
thread_create_open(t, u, p) ==
    /\ pc[u] = "none"
    /\ assignsPid(pids, p)
    /\ pids' = assign_pid(pids, p, pidValue[t], u)

\* thread_create gives the new thread u of t the pid p: assign_pid, then P on
\* the semaphore of the entry, which the child holds until it exits.
thread_create(t, u, p) ==
    LET list == assign_pid(pids, p, pidValue[t], u)
    IN  /\ pc[u] = "none"
        /\ assignsPid(pids, p)
        /\ pids' = [list EXCEPT ![p].parentSem = @ - 1]

\* sys_fork runs with interrupts off to its end.
sys_fork(t) ==
    /\ curthread = t /\ pc[t] = "user" /\ t # Boot
    /\ \E u \in Threads, p \in 2 .. (Len(pids) + 1) :
        /\ thread_create(t, u, p)
        /\ pidValue' = [pidValue EXCEPT ![u] = p]
        /\ pc' = [pc EXCEPT ![u] = "new"]
        /\ kids' = [kids EXCEPT ![t] = @ \cup {p}]
        /\ runqueue' = make_runnable(runqueue, u)
    /\ numthreads' = numthreads + 1
    /\ UNCHANGED <<curthread, sleepers, zombies, waitfor, secs, lbolt_counter,
                   joining, menuspl, failures>>

\* thread_fork runs out of memory after thread_create, for the stack or for
\* one of the preallocations: the thread is freed, its pid is not released.
sys_fork_fails(t) ==
    /\ curthread = t /\ pc[t] = "user" /\ t # Boot
    /\ failures < MaxFailures
    /\ \E u \in Threads, p \in 2 .. (Len(pids) + 1) : thread_create(t, u, p)
    /\ failures' = failures + 1
    /\ UNCHANGED <<curthread, runqueue, sleepers, zombies, numthreads, pidValue,
                   pc, waitfor, secs, lbolt_counter, kids, joining, menuspl>>

\* The menu forks with interrupts on (common_prog): thread_create is atomic,
\* and so is the rest of thread_fork, but the timer may come between them.
menu_thread_create(t) ==
    /\ curthread = t /\ pc[t] = "user" /\ t = Boot
    /\ joining = NULL
    /\ \E u \in Threads, p \in 2 .. (Len(pids) + 1) :
        /\ thread_create(t, u, p)
        /\ pidValue' = [pidValue EXCEPT ![u] = p]
        /\ pc' = [pc EXCEPT ![u] = "created", ![t] = "forking"]
    /\ UNCHANGED <<curthread, runqueue, sleepers, zombies, numthreads, waitfor,
                   secs, lbolt_counter, kids, joining, menuspl, failures>>

\* thread_create itself runs out of memory and returns without splx.
\* (sys_fork saved the level before the call and restores it.)
menu_thread_create_fails(t) ==
    /\ curthread = t /\ pc[t] = "user" /\ t = Boot
    /\ joining = NULL
    /\ failures < MaxFailures
    /\ failures' = failures + 1
    /\ menuspl' = SPL_HIGH
    /\ UNCHANGED <<curthread, runqueue, sleepers, zombies, numthreads, pidValue,
                   pids, pc, waitfor, secs, lbolt_counter, kids, joining>>

\* The rest of thread_fork, from the preallocations on.
menu_thread_fork(t) ==
    /\ curthread = t /\ pc[t] = "forking"
    /\ \E u \in Threads :
        /\ pc[u] = "created"
        /\ pc' = [pc EXCEPT ![u] = "new", ![t] = "user"]
        /\ runqueue' = make_runnable(runqueue, u)
        /\ joining' = u
    /\ numthreads' = numthreads + 1
    /\ UNCHANGED <<curthread, sleepers, zombies, pidValue, pids, waitfor, secs,
                   lbolt_counter, kids, menuspl, failures>>

menu_thread_fork_fails(t) ==
    /\ curthread = t /\ pc[t] = "forking"
    /\ failures < MaxFailures
    /\ failures' = failures + 1
    /\ \E u \in Threads :
        /\ pc[u] = "created"
        /\ pc' = [pc EXCEPT ![u] = "none", ![t] = "user"]
        /\ pidValue' = [pidValue EXCEPT ![u] = 0]
    /\ UNCHANGED <<curthread, runqueue, sleepers, zombies, numthreads, pids,
                   waitfor, secs, lbolt_counter, kids, joining, menuspl>>

\* (Mutant: counts the semaphore up without waking its sleepers.)
thread_exit_silent(t) ==
    /\ curthread = t /\ pc[t] = "user" /\ t # Boot
    /\ \E code \in ExitCodes :
        pids' = [pids EXCEPT ![pidValue[t]] = exited(pids[pidValue[t]], code)]
    /\ numthreads' = numthreads - 1
    /\ zombies' = zombies \cup {t}
    /\ pc' = [pc EXCEPT ![t] = "zombie"]
    /\ curthread' = NULL
    /\ kids' = [kids EXCEPT ![t] = {}]
    /\ UNCHANGED <<runqueue, sleepers, pidValue, waitfor, secs, lbolt_counter,
                   joining, menuspl, failures>>

\* thread_exit, from _exit, a fatal fault (code 0) or the end of a kernel
\* thread (code 0).  The V wakes whoever waits for this process.
thread_exit(t) ==
    /\ curthread = t /\ pc[t] = "user" /\ t # Boot
    /\ \E code \in ExitCodes :
        pids' = [pids EXCEPT ![pidValue[t]] = exited(pids[pidValue[t]], code)]
    /\ thread_wakeup(WaitingFor(pidValue[t]), <<>>)
    /\ numthreads' = numthreads - 1
    /\ zombies' = zombies \cup {t}
    /\ pc' = [pc EXCEPT ![t] = "zombie"]
    /\ curthread' = NULL
    /\ kids' = [kids EXCEPT ![t] = {}]
    /\ UNCHANGED <<pidValue, waitfor, secs, lbolt_counter, joining, menuspl,
                   failures>>

\* waitpid(p) on a child that has exited: the status is there at once.  The
\* status pointer is a good one: sys_waitpid refuses NULL and stores through any
\* other without copyout.
sys_waitpid_exited(t, p) ==
    /\ curthread = t /\ pc[t] = "user" /\ t # Boot
    /\ pid_search(pids, p)
    /\ pids[p].pPid = pidValue[t]
    /\ pids[p].didExit = 1
    /\ kids' = [kids EXCEPT ![t] = @ \ {p}]
    /\ UNCHANGED <<curthread, runqueue, sleepers, zombies, numthreads, pidValue,
                   pids, pc, waitfor, secs, lbolt_counter, joining, menuspl,
                   failures>>

\* waitpid(p) on a child that has not: into the loop of P(parentSem).
\* (waitpid on any other pid fails with EINVAL and changes nothing.)
sys_waitpid(t, p) ==
    /\ curthread = t /\ pc[t] = "user" /\ t # Boot
    /\ pid_search(pids, p)
    /\ pids[p].pPid = pidValue[t]
    /\ pids[p].didExit = 0
    /\ pc' = [pc EXCEPT ![t] = "waitpid"]
    /\ waitfor' = [waitfor EXCEPT ![t] = p]
    /\ UNCHANGED <<curthread, runqueue, sleepers, zombies, numthreads, pidValue,
                   pids, secs, lbolt_counter, kids, joining, menuspl,
                   failures>>

\* One turn of the loop of P: the count is 0, sleep on the semaphore.
waitpid_sleeps(t) ==
    /\ curthread = t /\ pc[t] = "waitpid"
    /\ pids[waitfor[t]].parentSem = 0
    /\ thread_sleep(t)
    /\ UNCHANGED <<zombies, numthreads, pidValue, pids, pc, waitfor, secs,
                   lbolt_counter, kids, joining, menuspl, failures>>

\* (Mutant: P tests the count once instead of in a loop.)
waitpid_returns_once(t) ==
    /\ curthread = t /\ pc[t] = "waitpid"
    /\ thread_wakeup(WaitingFor(waitfor[t]), <<>>)
    /\ pc' = [pc EXCEPT ![t] = "user"]
    /\ kids' = [kids EXCEPT ![t] = @ \ {waitfor[t]}]
    /\ waitfor' = [waitfor EXCEPT ![t] = 0]
    /\ UNCHANGED <<curthread, zombies, numthreads, pidValue, pids, secs,
                   lbolt_counter, joining, menuspl, failures>>

\* The count is positive: P takes it, V gives it back and wakes the others
\* who sleep on it, and waitpid returns exitCode.
waitpid_returns(t) ==
    /\ curthread = t /\ pc[t] = "waitpid"
    /\ pids[waitfor[t]].parentSem > 0
    /\ thread_wakeup(WaitingFor(waitfor[t]), <<>>)
    /\ pc' = [pc EXCEPT ![t] = "user"]
    /\ kids' = [kids EXCEPT ![t] = @ \ {waitfor[t]}]
    /\ waitfor' = [waitfor EXCEPT ![t] = 0]
    /\ UNCHANGED <<curthread, zombies, numthreads, pidValue, pids, secs,
                   lbolt_counter, joining, menuspl, failures>>

ThreadStep(t) ==
    \/ thread_yield(t)
    \/ clocksleep_loop(t)
    \/ sys_sleep(t)
    \/ thread_join(t)
    \/ sys_fork(t)
    \/ sys_fork_fails(t)
    \/ menu_thread_create(t)
    \/ menu_thread_create_fails(t)
    \/ menu_thread_fork(t)
    \/ menu_thread_fork_fails(t)
    \/ thread_exit(t)
    \/ \E p \in 1 .. Len(pids) : sys_waitpid_exited(t, p) \/ sys_waitpid(t, p)
    \/ waitpid_sleeps(t)
    \/ waitpid_returns(t)

Next ==
    \/ Dispatch
    \/ hardclock
    \/ hardclock_idle
    \/ \E t \in Threads : ThreadStep(t)

Spec == Init /\ [][Next]_vars

(***************************************************************************)
(* Fairness.  The processor executes: a dispatch goes on, and kernel code  *)
(* that runs with interrupts off runs to its end.  The timer keeps its     *)
(* interrupt line raised until the handler runs, so a tick is taken if     *)
(* interrupts are on again and again.  User code promises nothing.         *)
(***************************************************************************)
KernelStep(t) == clocksleep_loop(t) \/ waitpid_sleeps(t) \/ waitpid_returns(t)

Fairness ==
    /\ WF_vars(Dispatch)
    /\ SF_vars(hardclock \/ hardclock_idle)
    /\ \A t \in Threads : WF_vars(KernelStep(t))

FairSpec == Spec /\ Fairness

(***************************************************************************)
(* Safety                                                                  *)
(***************************************************************************)
Live == {t \in Threads : pc[t] \notin {"none", "created", "zombie"}}

\* Between the stash of mi_switch and the array operations of thread_wakeup
\* no thread is lost or listed twice: each one is running, or on exactly one
\* of the run queue, sleepers and zombies, once.
ThreadsPlaced ==
    /\ IsInjective(runqueue)
    /\ IsInjective(sleepers)
    /\ Range(runqueue) \cap Range(sleepers) = {}
    /\ curthread \notin Range(runqueue) \cup Range(sleepers)
    /\ Live = (Range(runqueue) \cup Range(sleepers) \cup {curthread}) \ {NULL}
    /\ zombies = {t \in Threads : pc[t] = "zombie"}

\* numthreads, which sizes the preallocation of every queue, counts exactly
\* the threads that can be stashed on one.
ThreadsCounted == numthreads = Cardinality(Live)

\* Every thread, from thread_create until exorcise, owns a pid that is in use,
\* is not the head's unless it is the boot thread, and is nobody else's.
PidsOwned ==
    \A t \in Threads : pc[t] # "none" =>
        /\ pidValue[t] \in DOMAIN pids
        /\ pids[pidValue[t]].isUsed = 1
        /\ t # Boot => pidValue[t] # 1 /\ pids[pidValue[t]].myThread = t
        /\ (pids[pidValue[t]].didExit = 1) <=> (pc[t] = "zombie")
        /\ \A u \in Threads \ {t} : pidValue[u] # pidValue[t]

\* parentSem is a gate: closed while the pid's process has not exited and open
\* otherwise.  In particular the P of thread_create, which runs inside fork
\* with the list half updated, never blocks.
SemIsGate ==
    \A p \in 2 .. Len(pids) :
        pids[p].parentSem =
            IF pids[p].isUsed = 1 /\ pids[p].didExit = 0 THEN 0 ELSE 1

\* No lost wakeup: nobody sleeps on the semaphore of a process that has
\* exited, whatever happened to the pid since the waiter looked at it.
NoLostExit ==
    \A t \in Range(sleepers) :
        pc[t] = "waitpid" => pids[waitfor[t]].didExit = 0

\* What the code takes for granted without a check: the menu thread never
\* exits and keeps pid 1; a released pid is marked exited; an exited pid in use
\* belongs to a zombie, so exorcise will release it; waitpid waits for an entry
\* of the list other than the head; clocksleep counts down from at least one.
Bookkeeping ==
    /\ pc[Boot] \in {"user", "forking", "clocksleep"} /\ pidValue[Boot] = 1
    /\ 1 \in DOMAIN pids /\ pids[1].isUsed = 1 /\ pids[1].didExit = 0
    /\ pids[1].pPid = 0
    /\ \A p \in 2 .. Len(pids) :
          /\ pids[p].isUsed = 0 => pids[p].didExit = 1
          /\ pids[p].isUsed = 1 /\ pids[p].didExit = 1
                => \E z \in zombies : pidValue[z] = p
    /\ \A t \in Threads :
          /\ pc[t] = "none" => pidValue[t] = 0
          /\ pc[t] = "waitpid" => waitfor[t] \in 2 .. Len(pids)
          /\ pc[t] = "clocksleep" => secs[t] > 0

\* waitpid never reports the status of a process that is still running.
StatusAfterExit ==
    [][\A t \in Threads :
          pc[t] = "waitpid" /\ pc'[t] = "user" => pids[waitfor[t]].didExit = 1]_vars

\* The status thread_exit recorded survives exorcise and release_pid: a waiter
\* that is scheduled late still reads it, until the pid is handed out again.
StatusKept ==
    [][\A p \in DOMAIN pids :
          pids[p].didExit = 1 /\ pids'[p].didExit = 1
              => pids'[p].exitCode = pids[p].exitCode]_vars

(***************************************************************************)
(* The abstract specification of the pid system                            *)
(***************************************************************************)
pidState ==
    [p \in DOMAIN pids |->
        IF pids[p].isUsed = 0 THEN "free"
        ELSE IF pids[p].didExit = 1 THEN "exited" ELSE "live"]

Pids == INSTANCE PidLifecycle WITH state <- pidState

\* Whatever fork, exit, context switches and failures do to the pid list in
\* whatever order, every pid goes from free to live to exited to free, one
\* step at a time, and all exited pids are released together by exorcise.
PidsLifecycle == Pids!Spec

(***************************************************************************)
(* Liveness                                                                *)
(***************************************************************************)

\* Round robin: a ready thread gets the processor, even if every other thread
\* computes forever.
ReadyRuns ==
    \A t \in Threads : t \in Range(runqueue) ~> curthread = t

\* clocksleep ends.
SleepEnds ==
    \A t \in Threads : pc[t] = "clocksleep" ~> pc[t] = "user"

(***************************************************************************)
(* What the manual says of fork, _exit and waitpid, and the code does not  *)
(* do.                                                                     *)
(***************************************************************************)

\* "Your system must (of course) in some manner protect itself from these
\* situations": no two processes wait for each other.
NoWaitCycle ==
    ~ \E t, u \in Threads :
        /\ pc[t] = "waitpid" /\ pc[u] = "waitpid"
        /\ waitfor[t] = pidValue[u] /\ waitfor[u] = pidValue[t]

\* "process P should be able to find out that exit code by calling waitpid":
\* as long as a child is not collected, waitpid by its parent finds it.
ChildrenFindable ==
    \A t \in Live : \A p \in kids[t] : pids[p].pPid = pidValue[t]

\* "The process id of the exiting process should not be reused until all
\* processes interested in collecting the exit code with waitpid have done so".
PidNotReusedWhileAwaited ==
    [][\A t \in Threads : \A p \in DOMAIN pids :
          /\ pc[t] = "waitpid" /\ waitfor[t] = p
          /\ pids[p].isUsed = 0
          => pids'[p].isUsed = 0]_vars
==============================================================================
