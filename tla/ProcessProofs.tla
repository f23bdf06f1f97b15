---------------------------- MODULE ProcessProofs ----------------------------
(***************************************************************************)
(* The theorems about Process, for every finite set of threads, every HZ   *)
(* and every number of failures.                                           *)
(***************************************************************************)
EXTENDS ProcessInv

(***************************************************************************)
(* Exit and the context switch                                             *)
(***************************************************************************)

\* The fields of an entry whose process exits.
LEMMA ExitedEntry ==
    ASSUME NEW r \in PidEntry, NEW code \in ExitCodes
    PROVE  /\ exited(r, code) \in PidEntry
           /\ exited(r, code).isUsed = r.isUsed
           /\ exited(r, code).didExit = 1
           /\ exited(r, code).exitCode = code
           /\ exited(r, code).parentSem = r.parentSem + 1
           /\ exited(r, code).pPid = r.pPid
           /\ exited(r, code).myThread = r.myThread
<1> DEFINE n == r.parentSem + 1
<1>1. r.parentSem \in Nat
  BY DEF PidEntry
<1>2. n \in Nat
  BY <1>1
<1>3. exited(r, code) = [r EXCEPT !.didExit = 1, !.exitCode = code, !.parentSem = n]
  BY DEF exited
<1> HIDE DEF n
<1>4. /\ exited(r, code) \in PidEntry
      /\ exited(r, code).isUsed = r.isUsed
      /\ exited(r, code).didExit = 1
      /\ exited(r, code).exitCode = code
      /\ exited(r, code).parentSem = n
      /\ exited(r, code).pPid = r.pPid
      /\ exited(r, code).myThread = r.myThread
  BY Zenon, <1>2, <1>3 DEF PidEntry
<1>5. QED
  BY <1>4 DEF n

\* thread_exit preserves the invariant: it opens the gate and wakes everyone
\* who sleeps on it in the same step.
LEMMA ExitIInv ==
    ASSUME CountFacts, IInv, NEW t \in Threads, thread_exit(t)
    PROVE  IInv'
<1> DEFINE p == pidValue[t]
<1> DEFINE S == WaitingFor(p)
<1>1. PICK code \in ExitCodes : pids' = [pids EXCEPT ![p] = exited(pids[p], code)]
  BY Zenon DEF thread_exit
<1>2. /\ curthread = t /\ pc[t] = "user" /\ t # Boot
      /\ p = pidValue[t]
      /\ thread_wakeup(S, <<>>)
      /\ numthreads' = numthreads - 1
      /\ zombies' = zombies \cup {t}
      /\ pc' = [pc EXCEPT ![t] = "zombie"]
      /\ curthread' = NULL
      /\ kids' = [kids EXCEPT ![t] = {}]
      /\ UNCHANGED <<pidValue, waitfor, secs, lbolt_counter, joining, menuspl,
                     failures>>
  BY DEF thread_exit
<1> HIDE DEF p
<1>3. /\ pids \in Seq(PidEntry) /\ Len(pids) \in Nat /\ DOMAIN pids = 1 .. Len(pids)
      /\ p \in DOMAIN pids /\ p # 1 /\ pids[p] \in PidEntry
      /\ pids[p].isUsed = 1 /\ pids[p].didExit = 0
  <2>1. pids \in Seq(PidEntry)
    BY Zenon DEF IInv, TypeOK
  <2>2. p \in DOMAIN pids /\ p # 1 /\ pids[p].isUsed = 1 /\ pids[p].didExit # 1
    BY <1>2 DEF IInv, PidsOwned
  <2>3. pids[p] \in PidEntry
    BY <2>1, <2>2
  <2>4. pids[p].didExit \in {0, 1}
    BY Zenon, <2>3 DEF PidEntry
  <2>5. QED
    BY <2>1, <2>2, <2>3, <2>4
<1>4. p \in 2 .. Len(pids) /\ pids[p].parentSem = 0
  BY <1>3 DEF IInv, SemIsGate
<1> DEFINE e == exited(pids[p], code)
<1>5. /\ e \in PidEntry /\ e.isUsed = 1 /\ e.didExit = 1 /\ e.parentSem = 1
      /\ e.pPid = pids[p].pPid /\ e.myThread = pids[p].myThread
  BY <1>3, <1>4, ExitedEntry
<1>6. /\ pids' \in Seq(PidEntry) /\ Len(pids') = Len(pids)
      /\ DOMAIN pids' = DOMAIN pids
      /\ pids'[p] = e
      /\ \A q \in DOMAIN pids \ {p} : pids'[q] = pids[q]
  <2>1. pids' = [pids EXCEPT ![p] = e]
    BY <1>1
  <2> HIDE DEF e
  <2>2. QED
    BY <1>3, <1>5, <2>1
<1> HIDE DEF e
<1>7. /\ pc' \in [Threads -> PC] /\ pc'[t] = "zombie"
      /\ \A v \in Threads \ {t} : pc'[v] = pc[v]
  BY <1>2 DEF IInv, TypeOK, PC
<1>8. Live' = Live \ {t} /\ t \in Live
  BY <1>2, <1>7 DEF Live
<1>9. /\ runqueue' \in Seq(Threads) /\ sleepers' \in Seq(Threads)
      /\ IsInjective(runqueue') /\ IsInjective(sleepers')
      /\ Range(runqueue') = Range(runqueue) \cup S
      /\ Range(sleepers') = Range(sleepers) \ S
  <2>1. S \in SUBSET Range(sleepers)
    BY Zenon DEF WaitingFor
  <2> DEFINE nil == <<>>
  <2>2. nil \in Seq(Threads) /\ IsInjective(nil) /\ Range(nil) = {}
    BY DEF IsInjective, Range
  <2>3. TypeOK /\ ThreadsPlaced /\ thread_wakeup(S, nil)
    BY Zenon, <1>2 DEF IInv
  <2> HIDE DEF S, nil
  <2>4. QED
    BY <2>1, <2>2, <2>3, WakeupMoves
<1>10. S \subseteq Range(sleepers)
  BY Zenon DEF WaitingFor
<1>11. zombies' = {v \in Threads : pc'[v] = "zombie"}
  <2>1. zombies = {v \in Threads : pc[v] = "zombie"}
    BY Zenon DEF IInv, ThreadsPlaced
  <2>2. QED
    BY Zenon, <1>2, <1>7, <2>1
<1>12. ThreadsPlaced'
  <2>1. /\ Live = (Range(runqueue) \cup Range(sleepers) \cup {t}) \ {NULL}
        /\ Range(runqueue) \cap Range(sleepers) = {}
    BY Zenon, <1>2 DEF IInv, ThreadsPlaced
  <2> HIDE DEF S
  <2>2. QED
    BY SMTT(60), <1>2, <1>8, <1>9, <1>10, <1>11, <2>1, ListFacts, NullAssumption
       DEF ThreadsPlaced
<1>13. ThreadsCounted' /\ numthreads' \in Nat
  <2>1. Live \in SUBSET Threads /\ Live \ {t} \in SUBSET Threads
    BY Zenon DEF Live
  <2>2. Cardinality(Live \ {t}) = Cardinality(Live) - 1
    BY Zenon, <1>8, <2>1 DEF CountFacts
  <2>3. Cardinality(Live \ {t}) \in Nat
    BY Zenon, <2>1 DEF CountFacts
  <2>4. QED
    BY Zenon, <1>2, <1>8, <2>2, <2>3 DEF IInv, ThreadsCounted
<1>14. TypeOK'
  <2>1. kids' \in [Threads -> SUBSET Nat] /\ zombies' \subseteq Threads
    BY SMTT(60), <1>2 DEF IInv, TypeOK
  <2>2. QED
    BY SMTT(60), <1>2, <1>6, <1>7, <1>9, <1>13, <2>1 DEF IInv, TypeOK
<1>15. PidsOwned'
  <2>1. ASSUME NEW v \in Threads \ {t}, pc[v] # "none"
        PROVE  pids'[pidValue[v]] = pids[pidValue[v]]
    BY <1>2, <1>6, <2>1 DEF IInv, PidsOwned
  <2>2. QED
    BY SMTT(60), <1>2, <1>3, <1>5, <1>6, <1>7, <2>1 DEF IInv, PidsOwned
<1>16. SemIsGate'
  BY SMTT(60), <1>3, <1>5, <1>6 DEF IInv, SemIsGate
<1>17. NoLostExit'
  <2>1. ASSUME NEW v \in Range(sleepers'), pc'[v] = "waitpid"
        PROVE  pids'[waitfor'[v]].didExit = 0
    <3>1. v \in Range(sleepers) /\ v \notin S /\ v \in Threads /\ v # t
      BY Zenon, <1>2, <1>9, ListFacts
    <3>2. pc[v] = "waitpid" /\ waitfor[v] # p
      BY Zenon, <1>7, <2>1, <3>1 DEF WaitingFor
    <3>3. waitfor[v] \in DOMAIN pids /\ pids[waitfor[v]].didExit = 0
      BY SMTT(60), <1>3, <3>1, <3>2 DEF IInv, NoLostExit, Bookkeeping
    <3>4. QED
      BY SMTT(60), <1>2, <1>6, <3>2, <3>3
  <2>2. QED
    BY <2>1 DEF NoLostExit
<1>18. Bookkeeping'
  <2>1. pids'[1] = pids[1] /\ pc'[Boot] = pc[Boot]
    BY SMTT(60), <1>2, <1>3, <1>6, <1>7, BootAssumption DEF IInv, Bookkeeping
  <2>2. ASSUME NEW q \in 2 .. Len(pids)
        PROVE  /\ pids'[q].isUsed = 0 => pids'[q].didExit = 1
               /\ pids'[q].isUsed = 1 /\ pids'[q].didExit = 1
                     => \E z \in zombies' : pidValue[z] = q
    <3>1. CASE q = p
      BY SMTT(60), <1>2, <1>5, <1>6, <3>1
    <3>2. CASE q # p
      BY SMTT(60), <1>2, <1>3, <1>6, <3>2 DEF IInv, Bookkeeping
    <3>3. QED
      BY <3>1, <3>2
  <2>3. \A v \in Threads : /\ pc'[v] = "none" => pidValue[v] = 0
                           /\ pc'[v] = "waitpid" => waitfor[v] \in 2 .. Len(pids)
                           /\ pc'[v] = "clocksleep" => secs[v] > 0
    BY Zenon, <1>7 DEF IInv, Bookkeeping
  <2>4. QED
    BY SMTT(60), <1>2, <1>6, <2>1, <2>2, <2>3 DEF IInv, Bookkeeping
<1>19. QED
  BY SMTT(60), <1>12, <1>13, <1>14, <1>15, <1>16, <1>17, <1>18 DEF IInv

(***************************************************************************)
(* The context switch, which frees the exited threads and their pids       *)
(***************************************************************************)

\* What exorcise does to the pid list.
LEMMA ExorcisePids ==
    ASSUME IInv, NEW ps, pids' = release_pid(pids, ps)
    PROVE  /\ pids' \in Seq(PidEntry)
           /\ DOMAIN pids' = DOMAIN pids /\ Len(pids') = Len(pids)
           /\ \A q \in DOMAIN pids \ ps : pids'[q] = pids[q]
           /\ \A q \in DOMAIN pids \cap ps :
                 /\ pids'[q].isUsed = 0 /\ pids'[q].didExit = pids[q].didExit
                 /\ pids'[q].exitCode = pids[q].exitCode
                 /\ pids'[q].parentSem = pids[q].parentSem
<1>1. /\ pids \in Seq(PidEntry) /\ Len(pids) \in Nat
      /\ DOMAIN pids = 1 .. Len(pids)
  BY DEF IInv, TypeOK
<1> DEFINE freed(r) == [r EXCEPT !.isUsed = 0, !.pPid = 0, !.myThread = NULL]
<1>2. \A r \in PidEntry : /\ freed(r) \in PidEntry
                          /\ freed(r).isUsed = 0 /\ freed(r).didExit = r.didExit
                          /\ freed(r).exitCode = r.exitCode
                          /\ freed(r).parentSem = r.parentSem
  BY Zenon DEF PidEntry
<1>3. \A q \in DOMAIN pids : pids[q] \in PidEntry
  BY <1>1
<1>4. pids' = [q \in 1 .. Len(pids) |-> IF q \in ps THEN freed(pids[q]) ELSE pids[q]]
  BY Zenon, <1>1 DEF release_pid
<1> HIDE DEF freed
<1>5. \A q \in 1 .. Len(pids) : pids'[q] \in PidEntry
  BY Zenon, <1>1, <1>2, <1>3, <1>4
<1>6. pids' \in [1 .. Len(pids) -> PidEntry]
  BY Zenon, <1>4, <1>5
<1>7. pids' \in Seq(PidEntry) /\ DOMAIN pids' = DOMAIN pids /\ Len(pids') = Len(pids)
  BY <1>1, <1>6
<1>8. QED
  BY <1>1, <1>2, <1>3, <1>4, <1>7

\* A context switch preserves the invariant.
LEMMA DispatchIInv ==
    ASSUME IInv, Dispatch
    PROVE  IInv'
<1> DEFINE h == Head(runqueue)
<1>1. /\ curthread = NULL /\ runqueue # <<>>
      /\ curthread' = h /\ runqueue' = Tail(runqueue)
      /\ UNCHANGED <<sleepers, numthreads, waitfor, secs, lbolt_counter, kids,
                     joining, menuspl, failures>>
  BY Zenon DEF Dispatch
<1>2. /\ runqueue' \in Seq(Threads) /\ h \in Threads
      /\ IsInjective(runqueue')
      /\ h \in Range(runqueue)
      /\ Range(runqueue') = Range(runqueue) \ {h}
  BY Zenon, <1>1, ListFacts, TailInjective
<1> HIDE DEF h
<1>3. ASSUME Live' = Live, zombies' = {v \in Threads : pc'[v] = "zombie"}
      PROVE  ThreadsPlaced' /\ ThreadsCounted'
  <2>1. /\ Live = (Range(runqueue) \cup Range(sleepers)) \ {NULL}
        /\ Range(runqueue) \cap Range(sleepers) = {}
        /\ IsInjective(sleepers)
    BY Zenon, <1>1 DEF IInv, ThreadsPlaced
  <2>2. ThreadsPlaced'
    BY Zenon, <1>1, <1>2, <1>3, <2>1, ListFacts, NullAssumption DEF ThreadsPlaced
  <2>3. ThreadsCounted'
    BY Zenon, <1>1, <1>3 DEF IInv, ThreadsCounted
  <2>4. QED
    BY Zenon, <2>2, <2>3
<1>4. h \in Live
  BY Zenon, <1>1, <1>2, NullAssumption DEF IInv, ThreadsPlaced
<1>5. CASE /\ pc[h] = "new" /\ pc' = [pc EXCEPT ![h] = "user"]
           /\ UNCHANGED <<pids, pidValue, zombies>>
  <2>1. SameLives
    <3>1. pc \in [Threads -> PC] /\ "user" \in PC
      BY Zenon DEF IInv, TypeOK, PC
    <3>2. /\ pc' \in [Threads -> PC] /\ pc'[h] = "user"
          /\ \A v \in Threads \ {h} : pc'[v] = pc[v]
      BY Zenon, <1>2, <1>5, <3>1
    <3>3. QED
      BY Zenon, <1>1, <1>5, <3>2 DEF SameLives
  <2>2. ThreadsPlaced' /\ ThreadsCounted'
    BY <1>3, <2>1, SameLivesKeeps
  <2>3. TypeOK'
    <3>1. pc' \in [Threads -> PC]
      BY Zenon, <1>2, <1>5 DEF IInv, TypeOK, PC
    <3>2. QED
      BY Zenon, <1>1, <1>2, <1>5, <3>1 DEF IInv, TypeOK
  <2>4. \A v \in Threads : /\ pc'[v] = "waitpid" => pc[v] = "waitpid"
                           /\ pc'[v] = "clocksleep" => pc[v] = "clocksleep"
    BY <1>2, <1>5 DEF IInv, TypeOK
  <2>5. NoLostExit'
    BY <1>1, <1>5, <2>4, ListFacts DEF IInv, NoLostExit
  <2>6. Bookkeeping'
    <3>1. pc'[Boot] \in {"user", "forking", "clocksleep"}
      BY Zenon, <1>2, <1>5, BootAssumption DEF IInv, TypeOK, Bookkeeping
    <3>2. QED
      BY Zenon, <1>1, <2>1, <2>4, <3>1, SameLivesBookkeeping DEF IInv, Bookkeeping
  <2>7. QED
    BY Zenon, <2>1, <2>2, <2>3, <2>5, <2>6, SameLivesKeeps DEF IInv
<1>6. CASE pc[h] # "new" /\ exorcise
  <2> DEFINE ps == {pidValue[z] : z \in zombies}
  <2>1. /\ pids' = release_pid(pids, ps)
        /\ pidValue' = [u \in Threads |-> IF u \in zombies THEN 0 ELSE pidValue[u]]
        /\ pc' = [u \in Threads |-> IF u \in zombies THEN "none" ELSE pc[u]]
        /\ zombies' = {}
    BY <1>6 DEF exorcise
  <2>2. zombies = {v \in Threads : pc[v] = "zombie"}
    BY DEF IInv, ThreadsPlaced
  <2>3. \A z \in zombies : z \in Threads /\ pc[z] = "zombie" /\ pidValue[z] \in ps
    BY Zenon, <2>2
  <2>4. \A q \in ps : \E z \in zombies : q = pidValue[z]
    BY Zenon
  <2>5. \A u \in Threads \ zombies : pc[u] # "none" => pidValue[u] \notin ps
    BY <2>3, <2>4 DEF IInv, PidsOwned
  <2> HIDE DEF ps
  <2>6. /\ pids' \in Seq(PidEntry)
        /\ DOMAIN pids' = DOMAIN pids /\ Len(pids') = Len(pids)
        /\ \A q \in DOMAIN pids \ ps : pids'[q] = pids[q]
        /\ \A q \in DOMAIN pids \cap ps :
              /\ pids'[q].isUsed = 0 /\ pids'[q].didExit = pids[q].didExit
              /\ pids'[q].exitCode = pids[q].exitCode
              /\ pids'[q].parentSem = pids[q].parentSem
    BY Zenon, <2>1, ExorcisePids
  <2>7. /\ pc' \in [Threads -> PC] /\ pidValue' \in [Threads -> Nat]
        /\ \A u \in zombies : pc'[u] = "none" /\ pidValue'[u] = 0
        /\ \A u \in Threads \ zombies : pc'[u] = pc[u] /\ pidValue'[u] = pidValue[u]
    BY Zenon, <2>1, <2>3 DEF IInv, TypeOK, PC
  <2>8. Live' = Live
    BY Zenon, <2>2, <2>7 DEF Live
  <2>9. zombies' = {v \in Threads : pc'[v] = "zombie"}
    BY Zenon, <2>1, <2>2, <2>7
  <2>10. ThreadsPlaced' /\ ThreadsCounted'
    BY SMTT(60), <1>3, <2>8, <2>9
  <2>11. TypeOK'
    BY Zenon, <1>1, <1>2, <2>1, <2>6, <2>7 DEF IInv, TypeOK
  <2>12. ASSUME NEW u \in Threads, pc'[u] # "none"
         PROVE  /\ u \notin zombies /\ pc[u] # "none"
                /\ pidValue[u] \in DOMAIN pids \ ps /\ pidValue[u] # 0
    <3>1. u \notin zombies /\ pc[u] # "none"
      BY Zenon, <2>7, <2>12
    <3>2. pidValue[u] \in DOMAIN pids /\ pids \in Seq(PidEntry)
      BY Zenon, <3>1 DEF IInv, PidsOwned, TypeOK
    <3>3. QED
      BY <2>5, <3>1, <3>2
  <2>13. PidsOwned'
    <3>1. SUFFICES ASSUME NEW u \in Threads, pc'[u] # "none"
          PROVE  /\ pidValue'[u] \in DOMAIN pids'
                 /\ pids'[pidValue'[u]].isUsed = 1
                 /\ u # Boot => pidValue'[u] # 1 /\ pids'[pidValue'[u]].myThread = u
                 /\ (pids'[pidValue'[u]].didExit = 1) <=> (pc'[u] = "zombie")
                 /\ \A v \in Threads \ {u} : pidValue'[v] # pidValue'[u]
      BY Zenon DEF PidsOwned
    <3>2. /\ u \notin zombies /\ pc[u] # "none" /\ pidValue[u] \in DOMAIN pids \ ps
          /\ pidValue[u] # 0 /\ pidValue'[u] = pidValue[u] /\ pc'[u] = pc[u]
      BY Zenon, <2>7, <2>12, <3>1
    <3>3. QED
      BY <2>6, <2>7, <3>2 DEF IInv, PidsOwned
  <2>14. /\ Len(pids) \in Nat /\ DOMAIN pids = 1 .. Len(pids)
         /\ \A q \in ps : pids[q].isUsed = 1 /\ pids[q].didExit = 1
    <3>1. pids \in Seq(PidEntry)
      BY Zenon DEF IInv, TypeOK
    <3>2. \A q \in ps : pids[q].isUsed = 1 /\ pids[q].didExit = 1
      <4>1. ASSUME NEW z \in zombies
            PROVE  pids[pidValue[z]].isUsed = 1 /\ pids[pidValue[z]].didExit = 1
        <5>1. z \in Threads /\ pc[z] = "zombie"
          BY Zenon, <2>3, <4>1
        <5>2. QED
          BY Zenon, <5>1 DEF IInv, PidsOwned
      <4>2. QED
        BY <2>4, <4>1
    <3>3. QED
      BY <3>1, <3>2
  <2>15. SemIsGate'
    BY <2>6, <2>14 DEF IInv, SemIsGate
  <2>16. \A q \in DOMAIN pids : pids'[q].didExit = pids[q].didExit
    BY <2>6
  <2>17. \A u \in Threads : pc'[u] = "waitpid" => pc[u] = "waitpid"
    BY Zenon, <2>7
  <2>18. NoLostExit'
    BY SMTT(60), <1>1, <2>14, <2>16, <2>17, ListFacts DEF IInv, NoLostExit, Bookkeeping
  <2>19. Bookkeeping'
    <3>1. Boot \notin zombies
      BY Zenon, <2>3 DEF IInv, Bookkeeping
    <3>2. 1 \notin ps /\ pids'[1] = pids[1] /\ 1 \in DOMAIN pids'
      BY <2>6, <2>14 DEF IInv, Bookkeeping
    <3>3. ASSUME NEW q \in 2 .. Len(pids)
          PROVE  /\ pids'[q].isUsed = 0 => pids'[q].didExit = 1
                 /\ ~(pids'[q].isUsed = 1 /\ pids'[q].didExit = 1)
      <4>1. CASE q \in ps
        BY <2>6, <2>14, <4>1
      <4>2. CASE q \notin ps
        <5>1. pids'[q] = pids[q]
          BY <2>6, <2>14, <4>2
        <5>2. ~(pids[q].isUsed = 1 /\ pids[q].didExit = 1)
          BY Zenon, <2>3, <4>2 DEF IInv, Bookkeeping
        <5>3. QED
          BY Zenon, <5>1, <5>2 DEF IInv, Bookkeeping
      <4>3. QED
        BY Zenon, <4>1, <4>2
    <3>4. \A u \in Threads :
             /\ pc'[u] = "none" => pidValue'[u] = 0
             /\ pc'[u] = "waitpid" => waitfor[u] \in 2 .. Len(pids)
             /\ pc'[u] = "clocksleep" => secs[u] > 0
      BY <2>7 DEF IInv, Bookkeeping
    <3>5. QED
      BY SMTT(60), <1>1, <2>6, <2>7, <3>1, <3>2, <3>3, <3>4, BootAssumption
         DEF IInv, Bookkeeping
  <2>20. QED
    BY Zenon, <2>10, <2>11, <2>13, <2>15, <2>18, <2>19 DEF IInv
<1>7. QED
  BY Zenon, <1>5, <1>6 DEF Dispatch, h

(***************************************************************************)
(* The invariant holds                                                     *)
(***************************************************************************)

\* Every step of the kernel preserves the invariant.
LEMMA NextIInv == CountFacts /\ IInv /\ [Next]_vars => IInv'
<1> SUFFICES ASSUME CountFacts, IInv, [Next]_vars PROVE IInv'
  BY Zenon
<1>1. CASE UNCHANGED vars
  <2>1. Live' = Live
    BY Zenon, <1>1 DEF vars, Live
  <2>2. TypeOK'
    BY SMTT(60), <1>1 DEF vars, IInv, TypeOK
  <2>3. ThreadsPlaced' /\ ThreadsCounted'
    BY <1>1, <2>1 DEF vars, IInv, ThreadsPlaced, ThreadsCounted
  <2>4. PidsOwned' /\ SemIsGate' /\ NoLostExit' /\ Bookkeeping'
    BY <1>1 DEF vars, IInv, PidsOwned, SemIsGate, NoLostExit, Bookkeeping
  <2>5. QED
    BY Zenon, <2>2, <2>3, <2>4 DEF IInv
<1>2. CASE Dispatch
  BY Zenon, <1>2, DispatchIInv
<1>3. CASE hardclock \/ hardclock_idle
  BY Zenon, <1>3, HardclockIInv
<1>4. CASE \E t \in Threads : ThreadStep(t)
  <2>1. PICK t \in Threads : ThreadStep(t)
    BY Zenon, <1>4
  <2>2. CASE thread_yield(t)
    BY Zenon, <2>2, YieldIInv
  <2>3. CASE clocksleep_loop(t)
    BY Zenon, <2>3, ClocksleepLoopIInv
  <2>4. CASE sys_sleep(t) \/ thread_join(t)
    BY SMTT(60), <2>4, ClocksleepIInv
  <2>5. CASE sys_fork(t)
    BY SMTT(60), <2>5, ForkIInv
  <2>6. CASE sys_fork_fails(t)
    BY <2>6, ForkFailsIInv
  <2>7. CASE menu_thread_create(t)
    BY <2>7, MenuCreateIInv
  <2>8. CASE menu_thread_create_fails(t)
    BY SMTT(60), <2>8, QuietIInv
  <2>9. CASE menu_thread_fork(t)
    BY <2>9, MenuForkIInv
  <2>10. CASE menu_thread_fork_fails(t)
    BY <2>10, MenuForkFailsIInv
  <2>11. CASE thread_exit(t)
    BY <2>11, ExitIInv
  <2>12. CASE \E p \in 1 .. Len(pids) : sys_waitpid_exited(t, p)
    BY Zenon, <2>12, QuietIInv
  <2>13. CASE \E p \in 1 .. Len(pids) : sys_waitpid(t, p)
    BY SMTT(60), <2>13, WaitpidIInv
  <2>14. CASE waitpid_sleeps(t)
    BY <2>14, WaitpidSleepsIInv
  <2>15. CASE waitpid_returns(t)
    BY <2>15, WaitpidReturnsIInv
  <2>16. QED
    BY SMTT(60), <2>1, <2>2, <2>3, <2>4, <2>5, <2>6, <2>7, <2>8, <2>9, <2>10, <2>11,
       <2>12, <2>13, <2>14, <2>15 DEF ThreadStep
<1>5. QED
  BY <1>1, <1>2, <1>3, <1>4 DEF Next

(***************************************************************************)
(* The action properties                                                   *)
(***************************************************************************)
Reports ==
    \A t \in Threads :
        pc[t] = "waitpid" /\ pc'[t] = "user" => pids[waitfor[t]].didExit = 1

\* A step that leaves the loop of waitpid finds the process exited.
LEMMA ReportStep == ASSUME IInv, Next PROVE Reports
<1>1. SUFFICES ASSUME NEW v \in Threads, pc[v] = "waitpid", pc'[v] = "user"
               PROVE  pids[waitfor[v]].didExit = 1
  BY Zenon DEF Reports
<1>2. pc \in [Threads -> PC]
  BY Zenon, <1>1 DEF IInv, TypeOK
<1>3. CASE Dispatch
  BY Zenon, <1>1, <1>2, <1>3 DEF Dispatch, exorcise
<1>4. CASE hardclock \/ hardclock_idle
  BY SMTT(60), <1>1, <1>4 DEF hardclock, hardclock_idle
<1>5. ASSUME NEW t \in Threads, ThreadStep(t)
      PROVE  pids[waitfor[v]].didExit = 1
  <2>1. CASE waitpid_returns(t)
    <3>1. v = t /\ pids[waitfor[t]].parentSem > 0
      BY SMTT(60), <1>1, <1>2, <2>1 DEF waitpid_returns
    <3>2. waitfor[t] \in 2 .. Len(pids) /\ pids \in Seq(PidEntry)
      BY Zenon, <1>1, <3>1 DEF IInv, Bookkeeping, TypeOK
    <3>3. pids[waitfor[t]].didExit \in {0, 1} /\ pids[waitfor[t]].isUsed \in {0, 1}
      <4>1. pids[waitfor[t]] \in PidEntry
        BY <3>2
      <4>2. QED
        BY <4>1 DEF PidEntry
    <3>4. QED
      BY SMTT(60), <3>1, <3>2, <3>3 DEF IInv, SemIsGate, Bookkeeping
  <2>2. CASE thread_yield(t) \/ sys_fork_fails(t) \/ menu_thread_create_fails(t)
             \/ waitpid_sleeps(t)
             \/ \E p \in 1 .. Len(pids) : sys_waitpid_exited(t, p)
    BY Zenon, <1>1, <2>2 DEF thread_yield, sys_fork_fails, menu_thread_create_fails,
                      waitpid_sleeps, sys_waitpid_exited
  <2>3. CASE clocksleep_loop(t) \/ sys_sleep(t) \/ thread_join(t)
    BY SMTT(60), <1>1, <1>2, <2>3 DEF clocksleep_loop, sys_sleep, thread_join, clocksleep
  <2>4. CASE sys_fork(t) \/ menu_thread_create(t)
    BY SMTT(60), <1>1, <1>2, <2>4 DEF sys_fork, menu_thread_create, thread_create
  <2>5. CASE menu_thread_fork(t) \/ menu_thread_fork_fails(t)
    BY SMTT(60), <1>1, <1>2, <2>5 DEF menu_thread_fork, menu_thread_fork_fails
  <2>6. CASE thread_exit(t) \/ \E p \in 1 .. Len(pids) : sys_waitpid(t, p)
    BY Zenon, <1>1, <1>2, <2>6 DEF thread_exit, sys_waitpid
  <2>7. QED
    BY SMTT(60), <1>5, <2>1, <2>2, <2>3, <2>4, <2>5, <2>6 DEF ThreadStep
<1>6. QED
  BY Zenon, <1>3, <1>4, <1>5 DEF Next

Keeps ==
    \A p \in DOMAIN pids :
        pids[p].didExit = 1 /\ pids'[p].didExit = 1
            => pids'[p].exitCode = pids[p].exitCode

\* No step changes the status of an exited process.
LEMMA KeepStep == ASSUME IInv, Next PROVE Keeps
<1>1. CASE UNCHANGED pids
  BY Zenon, <1>1 DEF Keeps
<1>2. CASE pids' = release_pid(pids, {pidValue[z] : z \in zombies})
  BY Zenon, <1>2, ExorcisePids DEF Keeps
<1>3. ASSUME NEW t \in Threads, NEW u \in Threads,
             NEW p \in 2 .. (Len(pids) + 1), thread_create(t, u, p)
      PROVE  Keeps
  BY <1>3, ThreadCreatePids DEF Keeps
<1>4. ASSUME NEW t \in Threads, thread_exit(t)
      PROVE  Keeps
  <2>1. pids[pidValue[t]].didExit # 1
    BY Zenon, <1>4 DEF thread_exit, IInv, PidsOwned
  <2>2. \A q \in DOMAIN pids : q # pidValue[t] => pids'[q] = pids[q]
    BY SMTT(60), <1>4 DEF thread_exit, IInv, TypeOK
  <2>3. QED
    BY SMTT(60), <2>1, <2>2 DEF Keeps
<1>5. ASSUME NEW t \in Threads, ThreadStep(t)
      PROVE  \/ UNCHANGED pids
             \/ thread_exit(t)
             \/ \E u \in Threads, p \in 2 .. (Len(pids) + 1) : thread_create(t, u, p)
  BY Zenon, <1>5 DEF ThreadStep, thread_yield, clocksleep_loop, sys_sleep, thread_join,
              sys_fork, sys_fork_fails, menu_thread_create,
              menu_thread_create_fails, menu_thread_fork,
              menu_thread_fork_fails, sys_waitpid_exited, sys_waitpid,
              waitpid_sleeps, waitpid_returns
<1>6. CASE \E t \in Threads : ThreadStep(t)
  BY SMTT(60), <1>1, <1>3, <1>4, <1>5, <1>6
<1>7. CASE Dispatch \/ hardclock \/ hardclock_idle
  BY Zenon, <1>1, <1>2, <1>7 DEF Dispatch, exorcise, hardclock, hardclock_idle
<1>8. QED
  BY Zenon, <1>6, <1>7 DEF Next

(***************************************************************************)
(* The pid system implements its life cycle                                *)
(***************************************************************************)
\* The state of a pid and of the pids around it.
LEMMA PidStateOf ==
    ASSUME IInv
    PROVE  /\ DOMAIN pidState = 1 .. Len(pids) /\ Len(pids) \in Nat
           /\ pidState \in Seq(Pids!States) /\ Len(pidState) = Len(pids)
           /\ \A p \in 1 .. Len(pids) :
                 /\ (pidState[p] = "free") <=> (pids[p].isUsed = 0)
                 /\ (pidState[p] = "live")
                       <=> (pids[p].isUsed = 1 /\ pids[p].didExit = 0)
                 /\ (pidState[p] = "exited")
                       <=> (pids[p].isUsed = 1 /\ pids[p].didExit = 1)
<1>1. /\ pids \in Seq(PidEntry) /\ Len(pids) \in Nat
      /\ DOMAIN pids = 1 .. Len(pids)
  BY DEF IInv, TypeOK
<1>2. \A p \in 1 .. Len(pids) : pids[p] \in PidEntry
  BY <1>1
<1>3. \A p \in 1 .. Len(pids) : pids[p].isUsed \in {0, 1} /\ pids[p].didExit \in {0, 1}
  BY Zenon, <1>2 DEF PidEntry
<1>4. /\ DOMAIN pidState = 1 .. Len(pids)
      /\ pidState \in [1 .. Len(pids) -> Pids!States]
  BY Zenon, <1>1 DEF pidState, Pids!States
<1>5. pidState \in Seq(Pids!States) /\ Len(pidState) = Len(pids)
  BY <1>1, <1>4
<1>6. \A p \in 1 .. Len(pids) :
         pidState[p] = IF pids[p].isUsed = 0 THEN "free"
                       ELSE IF pids[p].didExit = 1 THEN "exited" ELSE "live"
  BY Zenon, <1>1 DEF pidState
<1>7. QED
  BY SMTT(60), <1>1, <1>3, <1>4, <1>5, <1>6

\* fork takes a free pid or, when there is none, a new one.
LEMMA ForkIsTakeOrGrow ==
    ASSUME IInv, NEW t \in Threads, NEW u \in Threads,
           NEW p \in 2 .. (Len(pids) + 1), thread_create(t, u, p)
    PROVE  Pids!Next
<1>1. /\ pids' \in Seq(PidEntry) /\ DOMAIN pids' = 1 .. Len(pids')
      /\ Len(pids') = IF p = Len(pids) + 1 THEN p ELSE Len(pids)
      /\ 1 .. Len(pids') = (1 .. Len(pids)) \cup {p}
      /\ p \in DOMAIN pids => pids[p].isUsed = 0
      /\ \A q \in (1 .. Len(pids)) \ {p} : pids'[q] = pids[q]
      /\ pids'[p].isUsed = 1 /\ pids'[p].didExit = 0
  BY ThreadCreatePids
<1>2. /\ DOMAIN pidState = 1 .. Len(pids) /\ Len(pids) \in Nat
      /\ pidState \in Seq(Pids!States) /\ Len(pidState) = Len(pids)
      /\ DOMAIN pids = 1 .. Len(pids)
  <2>1. DOMAIN pids = 1 .. Len(pids)
    BY DEF IInv, TypeOK
  <2>2. QED
    BY Zenon, <2>1, PidStateOf
<1>3. /\ \A q \in (1 .. Len(pids)) \ {p} : pidState'[q] = pidState[q]
      /\ pidState'[p] = "live"
      /\ Len(pids') \in Nat
      /\ pidState' = [q \in 1 .. Len(pids') |-> pidState'[q]]
  <2>1. \A q \in (1 .. Len(pids)) \ {p} : q \in DOMAIN pids /\ q \in DOMAIN pids'
    BY Zenon, <1>1, <1>2
  <2>2. p \in DOMAIN pids'
    BY Zenon, <1>1
  <2>3. \A q \in (1 .. Len(pids)) \ {p} : pidState'[q] = pidState[q]
    BY Zenon, <1>1, <2>1 DEF pidState
  <2>4. pidState'[p] = "live"
    BY <1>1, <2>2 DEF pidState
  <2>5. pidState' = [q \in 1 .. Len(pids') |-> pidState'[q]]
    BY Zenon, <1>1 DEF pidState
  <2>6. Len(pids') \in Nat
    BY <1>1
  <2>7. QED
    BY SMTT(60), <2>3, <2>4, <2>5, <2>6
<1>4. CASE p \in 1 .. Len(pids)
  <2>1. Len(pids') = Len(pids)
    <3>1. Len(pids) \in Nat
      BY Zenon, <1>2
    <3>2. p # Len(pids) + 1
      BY <1>4, <3>1
    <3>3. QED
      BY Zenon, <1>1, <3>2
  <2>2. pidState[p] = "free"
    BY SMTT(60), <1>1, <1>2, <1>4, PidStateOf
  <2>3. pidState' = [pidState EXCEPT ![p] = "live"]
    <3>1. pidState = [q \in 1 .. Len(pids) |-> pidState[q]]
      BY <1>2
    <3>2. QED
      BY SMTT(60), <1>2, <1>3, <1>4, <2>1, <3>1
  <2>4. Pids!Take(p)
    BY Zenon, <2>2, <2>3 DEF Pids!Take
  <2>5. QED
    BY Zenon, <1>2, <1>4, <2>4 DEF Pids!Next
<1>5. CASE p = Len(pids) + 1
  <2>1. \A q \in 2 .. Len(pids) : pids[q].isUsed = 1
    BY SMTT(60), <1>2, <1>5 DEF thread_create, assignsPid, FirstFree
  <2>2. pids[1].isUsed = 1
    BY Zenon DEF IInv, Bookkeeping
  <2>3. \A q \in DOMAIN pidState : pidState[q] # "free"
    BY SMTT(60), <1>2, <2>1, <2>2, PidStateOf
  <2>4. Len(pids') = Len(pids) + 1
    BY SMTT(60), <1>1, <1>2, <1>5
  <2>5. pidState' = Append(pidState, "live")
    <3> DEFINE a == Append(pidState, "live")
    <3>1. "live" \in Pids!States
      BY Zenon DEF Pids!States
    <3>2. /\ a \in Seq(Pids!States) /\ Len(a) = Len(pidState) + 1
          /\ a[Len(pidState) + 1] = "live"
          /\ \A q \in 1 .. Len(pidState) : a[q] = pidState[q]
      BY <1>2, <3>1
    <3> HIDE DEF a
    <3>3. a = [q \in 1 .. (Len(pids) + 1) |-> a[q]]
      BY <1>2, <3>2
    <3>4. \A q \in 1 .. (Len(pids) + 1) : pidState'[q] = a[q]
      BY SMTT(60), <1>2, <1>3, <1>5, <3>2
    <3>5. pidState' = a
      BY SMTT(60), <1>3, <2>4, <3>3, <3>4
    <3>6. QED
      BY <3>5 DEF a
  <2>6. QED
    BY <2>3, <2>5 DEF Pids!Next, Pids!Grow
<1>6. QED
  BY <1>2, <1>4, <1>5

\* thread_exit takes its pid from live to exited.
LEMMA ExitIsExit ==
    ASSUME IInv, NEW t \in Threads, thread_exit(t)
    PROVE  Pids!Next
<1> DEFINE p == pidValue[t]
<1>1. /\ p \in DOMAIN pids /\ p # 1 /\ pids[p].isUsed = 1 /\ pids[p].didExit # 1
  BY Zenon DEF thread_exit, IInv, PidsOwned
<1>2. /\ DOMAIN pids' = DOMAIN pids
      /\ \A q \in DOMAIN pids : q # p => pids'[q] = pids[q]
      /\ pids'[p].isUsed = 1 /\ pids'[p].didExit = 1
  <2>1. PICK code \in ExitCodes : pids' = [pids EXCEPT ![p] = exited(pids[p], code)]
    BY Zenon DEF thread_exit
  <2>2. pids \in Seq(PidEntry)
    BY Zenon DEF IInv, TypeOK
  <2>3. pids[p] \in PidEntry
    BY <1>1, <2>2
  <2>4. exited(pids[p], code).isUsed = 1 /\ exited(pids[p], code).didExit = 1
    BY Zenon, <1>1, <2>3, ExitedEntry
  <2> HIDE DEF p
  <2>5. QED
    BY <1>1, <2>1, <2>2, <2>4
<1> HIDE DEF p
<1>3. pidState[p] = "live" /\ DOMAIN pidState = DOMAIN pids /\ p \in DOMAIN pidState
  BY <1>1 DEF pidState
<1>4. pidState' = [pidState EXCEPT ![p] = "exited"]
  BY Zenon, <1>1, <1>2, <1>3 DEF pidState
<1>5. QED
  BY Zenon, <1>1, <1>3, <1>4 DEF Pids!Next, Pids!Exit

\* exorcise releases exactly the exited pids.
LEMMA ExorciseIsReleaseAll ==
    ASSUME IInv, exorcise
    PROVE  Pids!Next
<1> DEFINE ps == {pidValue[z] : z \in zombies}
<1>1. pids' = release_pid(pids, ps)
  BY Zenon DEF exorcise
<1>2. /\ DOMAIN pids' = DOMAIN pids
      /\ \A q \in DOMAIN pids \ ps : pids'[q] = pids[q]
      /\ \A q \in DOMAIN pids \cap ps : pids'[q].isUsed = 0
  <2> HIDE DEF ps
  <2> QED
    BY Zenon, <1>1, ExorcisePids
<1>3. DOMAIN pids = 1 .. Len(pids) /\ Len(pids) \in Nat
  BY DEF IInv, TypeOK
<1>4. ASSUME NEW q \in 1 .. Len(pids)
      PROVE  (q \in ps) <=> (pidState[q] = "exited")
  <2>1. ASSUME q \in ps PROVE pids[q].isUsed = 1 /\ pids[q].didExit = 1
    <3>1. PICK z \in zombies : q = pidValue[z]
      BY Zenon, <2>1
    <3>2. z \in Threads /\ pc[z] = "zombie"
      BY Zenon DEF IInv, ThreadsPlaced
    <3>3. QED
      BY Zenon, <3>1, <3>2 DEF IInv, PidsOwned
  <2>2. ASSUME pids[q].isUsed = 1, pids[q].didExit = 1 PROVE q \in ps
    <3>1. q \in 2 .. Len(pids)
      BY <1>3, <2>2 DEF IInv, Bookkeeping
    <3>2. QED
      BY Zenon, <2>2, <3>1 DEF IInv, Bookkeeping
  <2>3. QED
    BY Zenon, <2>1, <2>2, PidStateOf
<1> HIDE DEF ps
<1>5. ASSUME NEW q \in 1 .. Len(pids)
      PROVE  pidState'[q] = IF pidState[q] = "exited" THEN "free" ELSE pidState[q]
  <2>1. CASE q \in ps
    BY SMTT(60), <1>2, <1>3, <1>4, <2>1 DEF pidState
  <2>2. CASE q \notin ps
    BY SMTT(60), <1>2, <1>3, <1>4, <2>2 DEF pidState
  <2>3. QED
    BY Zenon, <2>1, <2>2
<1>6. DOMAIN pidState = 1 .. Len(pids) /\ DOMAIN pidState' = 1 .. Len(pids)
  BY Zenon, <1>2, <1>3 DEF pidState
<1>7. pidState' = [q \in 1 .. Len(pids) |-> pidState'[q]]
  BY Zenon, <1>2, <1>3 DEF pidState
<1>8. pidState' = [q \in DOMAIN pidState |->
                     IF pidState[q] = "exited" THEN "free" ELSE pidState[q]]
  BY Zenon, <1>5, <1>6, <1>7
<1>9. QED
  BY Zenon, <1>8 DEF Pids!Next, Pids!ReleaseAll

(***************************************************************************)
(* The theorems                                                            *)
(***************************************************************************)

F == INSTANCE FiniteSetTheorems

\* The facts about cardinalities the lemmas use hold for a finite set of threads.
LEMMA CountFactsHold == CountFacts
<1>1. \A S : F!Cardinality(S) = Cardinality(S) /\ (F!IsFiniteSet(S) <=> IsFiniteSet(S))
  BY Zenon DEF F!Cardinality, Cardinality, F!IsFiniteSet, IsFiniteSet
<1>2. \A S \in SUBSET Threads : F!IsFiniteSet(S)
  BY <1>1, ThreadsAssumption, F!FS_Subset
<1>3. \A S \in SUBSET Threads : Cardinality(S) \in Nat
  BY <1>1, <1>2, F!FS_CardinalityType
<1>4. \A t \in Threads : Cardinality({t}) = 1
  BY Zenon, <1>1, F!FS_Singleton
<1>5. ASSUME NEW S \in SUBSET Threads, NEW t \in Threads \ S
      PROVE  Cardinality(S \cup {t}) = Cardinality(S) + 1
  BY <1>1, <1>2, F!FS_AddElement
<1>6. ASSUME NEW S \in SUBSET Threads, NEW t \in S
      PROVE  Cardinality(S \ {t}) = Cardinality(S) - 1
  BY <1>1, <1>2, F!FS_RemoveElement
<1>7. QED
  BY <1>3, <1>4, <1>5, <1>6 DEF CountFacts

\* The conjunction of the invariants below and of Bookkeeping is inductive.
THEOREM Inductive == Spec => []IInv
  BY CountFactsHold, InitIInv, NextIInv, PTL DEF Spec

\* Type correctness: in particular no semaphore count, thread count or sleep
\* counter of the kernel is ever decremented below zero.
THEOREM TypeCorrect == Spec => []TypeOK
<1>1. IInv => TypeOK
  BY DEF IInv
<1>2. QED
  BY <1>1, Inductive, PTL

\* mi_switch, thread_wakeup and exorcise lose no thread and list none twice.
THEOREM ThreadsStayPlaced == Spec => []ThreadsPlaced
<1>1. IInv => ThreadsPlaced
  BY DEF IInv
<1>2. QED
  BY <1>1, Inductive, PTL

\* numthreads is the number of threads that may be stashed on a queue.
THEOREM ThreadsStayCounted == Spec => []ThreadsCounted
<1>1. IInv => ThreadsCounted
  BY DEF IInv
<1>2. QED
  BY <1>1, Inductive, PTL

\* Every thread owns a pid in use that no other thread has, from thread_create
\* to exorcise.
THEOREM PidsStayOwned == Spec => []PidsOwned
<1>1. IInv => PidsOwned
  BY DEF IInv
<1>2. QED
  BY <1>1, Inductive, PTL

\* parentSem is 0 exactly while the process of the pid has not exited, so the P
\* in thread_create never blocks.
THEOREM SemStaysGate == Spec => []SemIsGate
<1>1. IInv => SemIsGate
  BY DEF IInv
<1>2. QED
  BY <1>1, Inductive, PTL

\* Nobody sleeps in waitpid on a process that has exited.
THEOREM ExitNeverLost == Spec => []NoLostExit
<1>1. IInv => NoLostExit
  BY DEF IInv
<1>2. QED
  BY <1>1, Inductive, PTL

\* waitpid leaves its loop only when the process it waits for has exited.
THEOREM WaitpidReportsExited == Spec => StatusAfterExit
<1>1. IInv /\ [Next]_vars => [Reports]_vars
  BY ReportStep
<1>2. QED
  BY <1>1, Inductive, PTL DEF Spec, Reports, StatusAfterExit

\* The status of an exited process stays as thread_exit wrote it until its pid
\* is handed out again, across exorcise.
THEOREM StatusSurvives == Spec => StatusKept
<1>1. IInv /\ [Next]_vars => [Keeps]_vars
  BY KeepStep
<1>2. QED
  BY <1>1, Inductive, PTL DEF Spec, Keeps, StatusKept

\* The pid system keeps the promise of PidLifecycle, for any number of threads
\* and in every interleaving of fork, exit, context switches and failures.
THEOREM PidsFollowLifecycle == Spec => PidsLifecycle
<1>1. Init => Pids!Init
  <2> SUFFICES ASSUME Init PROVE pidState = <<"live">>
    BY Zenon DEF Pids!Init
  <2>1. IInv
    BY Zenon, InitIInv, CountFactsHold
  <2>2. Len(pids) = 1 /\ pids[1].isUsed = 1 /\ pids[1].didExit = 0
    BY Zenon DEF Init, create_pid_list
  <2>3. QED
    BY <2>1, <2>2, PidStateOf
<1>2. ASSUME IInv, [Next]_vars PROVE [Pids!Next]_pidState
  <2>1. CASE UNCHANGED pids
    BY Zenon, <2>1 DEF pidState
  <2>2. CASE exorcise
    BY SMTT(60), <1>2, <2>2, ExorciseIsReleaseAll
  <2>3. ASSUME NEW t \in Threads, ThreadStep(t)
        PROVE  \/ UNCHANGED pids
               \/ thread_exit(t)
               \/ \E u \in Threads, p \in 2 .. (Len(pids) + 1) : thread_create(t, u, p)
    BY Zenon, <2>3 DEF ThreadStep, thread_yield, clocksleep_loop, sys_sleep, thread_join,
                sys_fork, sys_fork_fails, menu_thread_create,
                menu_thread_create_fails, menu_thread_fork,
                menu_thread_fork_fails, sys_waitpid_exited, sys_waitpid,
                waitpid_sleeps, waitpid_returns
  <2>4. CASE \E t \in Threads : ThreadStep(t)
    BY SMTT(60), <1>2, <2>1, <2>3, <2>4, ForkIsTakeOrGrow, ExitIsExit
  <2>5. CASE Dispatch \/ hardclock \/ hardclock_idle \/ UNCHANGED vars
    BY Zenon, <2>1, <2>2, <2>5 DEF Dispatch, hardclock, hardclock_idle, vars
  <2>6. QED
    BY SMTT(60), <1>2, <2>4, <2>5 DEF Next
<1>3. QED
  BY <1>1, <1>2, Inductive, PTL DEF Spec, Pids!Spec, PidsLifecycle
==============================================================================
