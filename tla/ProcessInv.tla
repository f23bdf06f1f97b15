----------------------------- MODULE ProcessInv ------------------------------
(***************************************************************************)
(* The inductive invariant of Process, and the proof that the steps of the *)
(* scheduler, the clock and waitpid, and every way a fork succeeds or      *)
(* fails, keep it.                                                         *)
(***************************************************************************)
EXTENDS Process, TLAPS

(***************************************************************************)
(* Lists of threads                                                        *)
(***************************************************************************)

\* Appending a thread that is not listed keeps a list free of duplicates.
LEMMA AppendInjective ==
    ASSUME NEW S, NEW s \in Seq(S), NEW x \in S, IsInjective(s), x \notin Range(s)
    PROVE  /\ Append(s, x) \in Seq(S)
           /\ IsInjective(Append(s, x))
           /\ Range(Append(s, x)) = Range(s) \cup {x}
<1>1. /\ Append(s, x) \in Seq(S)
      /\ Len(Append(s, x)) = Len(s) + 1
      /\ \A i \in 1 .. Len(s) : Append(s, x)[i] = s[i]
      /\ Append(s, x)[Len(s) + 1] = x
      /\ DOMAIN Append(s, x) = 1 .. (Len(s) + 1)
      /\ DOMAIN s = 1 .. Len(s) /\ Len(s) \in Nat
  OBVIOUS
<1>2. IsInjective(Append(s, x))
  BY <1>1 DEF IsInjective, Range
<1>3. Range(Append(s, x)) = Range(s) \cup {x}
  BY <1>1 DEF Range
<1>4. QED
  BY <1>1, <1>2, <1>3

\* Two lists without duplicates and without a common thread, concatenated.
LEMMA ConcatInjective ==
    ASSUME NEW S, NEW s \in Seq(S), NEW t \in Seq(S), IsInjective(s),
           IsInjective(t), Range(s) \cap Range(t) = {}
    PROVE  /\ s \o t \in Seq(S)
           /\ IsInjective(s \o t)
           /\ Range(s \o t) = Range(s) \cup Range(t)
<1>1. /\ s \o t \in Seq(S)
      /\ Len(s \o t) = Len(s) + Len(t)
      /\ \A i \in 1 .. Len(s) : (s \o t)[i] = s[i]
      /\ \A i \in (Len(s) + 1) .. (Len(s) + Len(t)) : (s \o t)[i] = t[i - Len(s)]
      /\ DOMAIN (s \o t) = 1 .. (Len(s) + Len(t))
      /\ DOMAIN s = 1 .. Len(s) /\ Len(s) \in Nat
      /\ DOMAIN t = 1 .. Len(t) /\ Len(t) \in Nat
  OBVIOUS
<1>2. \A i \in 1 .. Len(t) : i + Len(s) \in (Len(s) + 1) .. (Len(s) + Len(t))
                             /\ (s \o t)[i + Len(s)] = t[i]
  BY <1>1
<1>3. IsInjective(s \o t)
  <2> SUFFICES ASSUME NEW i \in 1 .. (Len(s) + Len(t)),
                      NEW j \in 1 .. (Len(s) + Len(t)),
                      (s \o t)[i] = (s \o t)[j]
               PROVE  i = j
    BY Zenon, <1>1 DEF IsInjective
  <2>1. CASE i \in 1 .. Len(s) /\ j \in 1 .. Len(s)
    BY Zenon, <1>1, <2>1 DEF IsInjective
  <2>2. CASE i \notin 1 .. Len(s) /\ j \notin 1 .. Len(s)
    <3>1. i - Len(s) \in 1 .. Len(t) /\ j - Len(s) \in 1 .. Len(t)
      BY <1>1, <2>2
    <3>2. t[i - Len(s)] = t[j - Len(s)]
      BY <1>1, <2>2
    <3>3. QED
      BY SMTT(60), <1>1, <3>1, <3>2 DEF IsInjective
  <2>3. ASSUME NEW k \in 1 .. Len(s),
               NEW l \in (Len(s) + 1) .. (Len(s) + Len(t))
        PROVE  (s \o t)[k] # (s \o t)[l]
    <3>1. (s \o t)[k] = s[k] /\ s[k] \in Range(s)
      BY Zenon, <1>1 DEF Range
    <3>2. l - Len(s) \in 1 .. Len(t) /\ (s \o t)[l] = t[l - Len(s)]
      BY <1>1
    <3>3. t[l - Len(s)] \in Range(t)
      BY SMTT(60), <1>1, <3>2 DEF Range
    <3>4. QED
      BY Zenon, <3>1, <3>2, <3>3
  <2>4. QED
    BY <1>1, <2>1, <2>2, <2>3
<1>4. Range(s \o t) = Range(s) \cup Range(t)
  <2>1. ASSUME NEW i \in DOMAIN (s \o t)
        PROVE  (s \o t)[i] \in Range(s) \cup Range(t)
    <3>1. CASE i \in 1 .. Len(s)
      BY <1>1, <3>1 DEF Range
    <3>2. CASE i \in (Len(s) + 1) .. (Len(s) + Len(t))
      <4>1. i - Len(s) \in 1 .. Len(t) /\ (s \o t)[i] = t[i - Len(s)]
        BY <1>1, <3>2
      <4>2. QED
        BY Zenon, <1>1, <4>1 DEF Range
    <3>3. QED
      BY <1>1, <3>1, <3>2
  <2>2. ASSUME NEW i \in DOMAIN s PROVE s[i] \in Range(s \o t)
    <3>1. i \in DOMAIN (s \o t) /\ s[i] = (s \o t)[i]
      BY <1>1
    <3>2. QED
      BY Zenon, <3>1 DEF Range
  <2>3. ASSUME NEW i \in DOMAIN t PROVE t[i] \in Range(s \o t)
    <3>1. i + Len(s) \in DOMAIN (s \o t) /\ t[i] = (s \o t)[i + Len(s)]
      BY <1>1, <1>2
    <3>2. QED
      BY Zenon, <3>1 DEF Range
  <2>4. QED
    BY Zenon, <2>1, <2>2, <2>3 DEF Range
<1>5. QED
  BY <1>1, <1>3, <1>4

\* Removing the head of a list without duplicates removes that thread.
LEMMA TailInjective ==
    ASSUME NEW S, NEW s \in Seq(S), IsInjective(s), s # <<>>
    PROVE  /\ Tail(s) \in Seq(S) /\ Head(s) \in S
           /\ IsInjective(Tail(s))
           /\ Head(s) \in Range(s)
           /\ Range(Tail(s)) = Range(s) \ {Head(s)}
<1>1. /\ Tail(s) \in Seq(S)
      /\ Len(Tail(s)) = Len(s) - 1
      /\ \A i \in 1 .. (Len(s) - 1) : Tail(s)[i] = s[i + 1]
      /\ DOMAIN Tail(s) = 1 .. (Len(s) - 1)
      /\ DOMAIN s = 1 .. Len(s) /\ Len(s) \in Nat \ {0}
      /\ Head(s) = s[1] /\ Head(s) \in S
  OBVIOUS
<1>2. IsInjective(Tail(s))
  BY <1>1 DEF IsInjective
<1>3. \A i \in 2 .. Len(s) : i - 1 \in 1 .. (Len(s) - 1) /\ Tail(s)[i - 1] = s[i]
  BY <1>1
<1>4. Range(Tail(s)) = Range(s) \ {Head(s)}
  <2>1. ASSUME NEW i \in DOMAIN Tail(s) PROVE Tail(s)[i] \in Range(s) \ {Head(s)}
    <3>1. i + 1 \in DOMAIN s /\ i + 1 # 1 /\ 1 \in DOMAIN s /\ Tail(s)[i] = s[i + 1]
      BY <1>1
    <3>2. QED
      BY Zenon, <1>1, <3>1 DEF Range, IsInjective
  <2>2. ASSUME NEW i \in DOMAIN s, s[i] # Head(s) PROVE s[i] \in Range(Tail(s))
    <3>1. i - 1 \in DOMAIN Tail(s) /\ Tail(s)[i - 1] = s[i]
      BY <1>1, <1>3, <2>2
    <3>2. QED
      BY Zenon, <3>1 DEF Range
  <2>3. QED
    BY Zenon, <2>1, <2>2 DEF Range
<1>5. QED
  BY <1>1, <1>2, <1>4 DEF Range

\* A listing of S in the order of s is a list of exactly the threads of S,
\* each once.
LEMMA InOrderOfIsListing ==
    ASSUME NEW S, NEW T, NEW s \in Seq(T), IsInjective(s),
           NEW w \in InOrderOf(S, s)
    PROVE  w \in Seq(S) /\ IsInjective(w) /\ Range(w) = S
<1>1. Len(s) \in Nat
  OBVIOUS
<1>2. PICK n \in 0 .. Len(s) : w \in [1 .. n -> S] /\ Range(w) = S
  BY Zenon DEF InOrderOf
<1>3. w \in Seq(S)
  BY <1>1, <1>2
<1>4. ASSUME NEW i \in DOMAIN w, NEW j \in DOMAIN w, i < j
      PROVE  w[i] # w[j]
  <2>1. PICK k \in DOMAIN s, l \in DOMAIN s : k < l /\ s[k] = w[i] /\ s[l] = w[j]
    BY <1>4 DEF InOrderOf
  <2>2. k # l
    BY <2>1
  <2>3. QED
    BY Zenon, <2>1, <2>2 DEF IsInjective
<1>5. \A i, j \in DOMAIN w : i # j => i < j \/ j < i
  BY <1>1, <1>2
<1>6. IsInjective(w)
  BY Zenon, <1>4, <1>5 DEF IsInjective
<1>7. QED
  BY Zenon, <1>2, <1>3, <1>6

\* What thread_wakeup does to the two lists.
LEMMA WakeupMoves ==
    ASSUME TypeOK, ThreadsPlaced, NEW S \in SUBSET Range(sleepers),
           NEW next \in Seq(Threads), IsInjective(next),
           Range(next) \cap (Range(runqueue) \cup Range(sleepers)) = {},
           thread_wakeup(S, next)
    PROVE  /\ runqueue' \in Seq(Threads) /\ sleepers' \in Seq(Threads)
           /\ IsInjective(runqueue') /\ IsInjective(sleepers')
           /\ Range(runqueue') = Range(runqueue) \cup S \cup Range(next)
           /\ Range(sleepers') = Range(sleepers) \ S
<1> DEFINE R == Range(sleepers) \ S
<1>1. /\ runqueue \in Seq(Threads) /\ sleepers \in Seq(Threads)
      /\ IsInjective(runqueue) /\ IsInjective(sleepers)
      /\ Range(runqueue) \cap Range(sleepers) = {}
  BY Zenon DEF TypeOK, ThreadsPlaced
<1>2. Range(sleepers) \subseteq Threads
  BY <1>1 DEF Range
<1>3. S \subseteq Threads /\ R \subseteq Threads
  BY <1>2
<1>5. PICK woken \in InOrderOf(S, sleepers), rest \in InOrderOf(R, sleepers) :
        runqueue' = runqueue \o woken \o next /\ sleepers' = rest
  BY Zenon DEF thread_wakeup
<1>6. woken \in Seq(S) /\ IsInjective(woken) /\ Range(woken) = S
  BY Zenon, <1>1, InOrderOfIsListing
<1>7. rest \in Seq(R) /\ IsInjective(rest) /\ Range(rest) = R
  BY Zenon, <1>1, InOrderOfIsListing
<1>8. woken \in Seq(Threads) /\ rest \in Seq(Threads)
  BY <1>3, <1>6, <1>7
<1> DEFINE q == runqueue \o woken
<1>9. q \in Seq(Threads) /\ IsInjective(q) /\ Range(q) = Range(runqueue) \cup S
  BY <1>1, <1>6, <1>8, ConcatInjective
<1>10. Range(q) \cap Range(next) = {}
  BY Zenon, <1>9
<1>11. runqueue' = q \o next
  BY Zenon, <1>5
<1>12. /\ q \o next \in Seq(Threads) /\ IsInjective(q \o next)
       /\ Range(q \o next) = Range(q) \cup Range(next)
  <2> HIDE DEF q
  <2> QED
    BY <1>9, <1>10, ConcatInjective
<1>13. QED
  BY Zenon, <1>5, <1>7, <1>8, <1>9, <1>11, <1>12

(***************************************************************************)
(* What the proofs use of cardinalities.  ProcessProofs proves it: the     *)
(* library's theorems on finite sets are many, and every obligation of a   *)
(* module that extends them carries them along.                            *)
(***************************************************************************)
CountFacts ==
    /\ \A t \in Threads : Cardinality({t}) = 1
    /\ \A S \in SUBSET Threads : Cardinality(S) \in Nat
    /\ \A S \in SUBSET Threads : \A t \in Threads \ S :
          Cardinality(S \cup {t}) = Cardinality(S) + 1
    /\ \A S \in SUBSET Threads : \A t \in S :
          Cardinality(S \ {t}) = Cardinality(S) - 1

(***************************************************************************)
(* The inductive invariant                                                 *)
(***************************************************************************)
IInv ==
    /\ TypeOK
    /\ ThreadsPlaced
    /\ ThreadsCounted
    /\ PidsOwned
    /\ SemIsGate
    /\ NoLostExit
    /\ Bookkeeping

\* The state the boot code leaves behind satisfies the invariant.
LEMMA InitIInv == CountFacts /\ Init => IInv
<1> SUFFICES ASSUME CountFacts, Init PROVE IInv
  BY Zenon
<1> USE DEF Init
<1> USE NullAssumption, ExitCodesAssumption, BootAssumption, HZAssumption, FailAssumption
<1>1. pids \in Seq(PidEntry) /\ Len(pids) = 1 /\ DOMAIN pids = 1 .. 1
      /\ pids[1].isUsed = 1 /\ pids[1].didExit = 0 /\ pids[1].pPid = 0
  BY DEF create_pid_list, PidEntry
<1>2. TypeOK
  BY <1>1 DEF TypeOK, PC
<1>3. Live = {Boot}
  BY Zenon DEF Live
<1>4. ThreadsPlaced
  <2>1. Range(<<>>) = {} /\ IsInjective(<<>>)
    BY DEF Range, IsInjective
  <2>2. {u \in Threads : pc[u] = "zombie"} = {}
    BY Zenon
  <2>3. QED
    BY Zenon, <1>3, <2>1, <2>2 DEF ThreadsPlaced
<1>5. ThreadsCounted
  BY Zenon, <1>3 DEF ThreadsCounted, CountFacts
<1>6. PidsOwned
  <2>1. \A t \in Threads : pc[t] # "none" => t = Boot
    BY Zenon
  <2>2. pidValue[Boot] = 1 /\ pc[Boot] = "user"
        /\ \A u \in Threads \ {Boot} : pidValue[u] = 0
    BY Zenon
  <2>3. QED
    BY <1>1, <2>1, <2>2 DEF PidsOwned
<1>7. SemIsGate
  BY <1>1 DEF SemIsGate
<1>8. NoLostExit
  BY DEF NoLostExit, Range
<1>9. Bookkeeping
  BY <1>1 DEF Bookkeeping
<1>10. QED
  BY Zenon, <1>2, <1>4, <1>5, <1>6, <1>7, <1>8, <1>9 DEF IInv

(***************************************************************************)
(* Steps that leave the pid list alone                                     *)
(***************************************************************************)

\* No thread comes into being, exits or is destroyed.
SameLives ==
    /\ UNCHANGED <<zombies, numthreads, pidValue, pids>>
    /\ pc' \in [Threads -> PC]
    /\ \A u \in Threads : /\ (pc'[u] = "none") <=> (pc[u] = "none")
                          /\ (pc'[u] = "created") <=> (pc[u] = "created")
                          /\ (pc'[u] = "zombie") <=> (pc[u] = "zombie")

\* The lists hold threads, and the running thread is on none of them.
LEMMA ListFacts ==
    ASSUME IInv
    PROVE  /\ runqueue \in Seq(Threads) /\ sleepers \in Seq(Threads)
           /\ IsInjective(runqueue) /\ IsInjective(sleepers)
           /\ Range(runqueue) \subseteq Threads /\ Range(sleepers) \subseteq Threads
           /\ \A t \in Threads : curthread = t =>
                 t \notin Range(runqueue) /\ t \notin Range(sleepers) /\ t \in Live
<1>1. /\ runqueue \in Seq(Threads) /\ sleepers \in Seq(Threads)
      /\ IsInjective(runqueue) /\ IsInjective(sleepers)
  BY DEF IInv, TypeOK, ThreadsPlaced
<1>2. Range(runqueue) \subseteq Threads /\ Range(sleepers) \subseteq Threads
  BY <1>1 DEF Range
<1>3. \A t \in Threads : curthread = t =>
        t \notin Range(runqueue) /\ t \notin Range(sleepers) /\ t \in Live
  BY Zenon, NullAssumption DEF IInv, ThreadsPlaced
<1>4. QED
  BY Zenon, <1>1, <1>2, <1>3

\* Such steps preserve what is said of pids and of the number of threads.
LEMMA SameLivesKeeps ==
    ASSUME IInv, SameLives
    PROVE  /\ Live' = Live /\ ThreadsCounted' /\ PidsOwned' /\ SemIsGate'
           /\ zombies' = {u \in Threads : pc'[u] = "zombie"}
<1>1. Live' = Live
  BY Zenon DEF Live, SameLives
<1>2. ThreadsCounted'
  BY Zenon, <1>1 DEF SameLives, IInv, ThreadsCounted
<1>3. PidsOwned'
  BY DEF SameLives, IInv, PidsOwned
<1>4. SemIsGate'
  BY Zenon DEF SameLives, IInv, SemIsGate
<1>5. zombies' = {u \in Threads : pc'[u] = "zombie"}
  BY Zenon DEF SameLives, IInv, ThreadsPlaced
<1>6. QED
  BY Zenon, <1>1, <1>2, <1>3, <1>4, <1>5

\* The running thread goes to sleep.
LEMMA SleepPlaced ==
    ASSUME IInv, SameLives, NEW t \in Threads, curthread = t, thread_sleep(t)
    PROVE  /\ ThreadsPlaced'
           /\ curthread' = NULL /\ runqueue' \in Seq(Threads)
           /\ sleepers' \in Seq(Threads)
           /\ Range(sleepers') = Range(sleepers) \cup {t}
<1>1. /\ sleepers' = Append(sleepers, t) /\ curthread' = NULL
      /\ runqueue' = runqueue
  BY Zenon DEF thread_sleep
<1>2. /\ sleepers' \in Seq(Threads)
      /\ IsInjective(sleepers')
      /\ Range(sleepers') = Range(sleepers) \cup {t}
  BY <1>1, ListFacts, AppendInjective
<1>3. Live = (Range(runqueue) \cup Range(sleepers) \cup {t}) \ {NULL}
      /\ Range(runqueue) \cap Range(sleepers) = {}
  BY Zenon DEF IInv, ThreadsPlaced
<1>4. ThreadsPlaced'
  BY Zenon, <1>1, <1>2, <1>3, ListFacts, SameLivesKeeps, NullAssumption DEF ThreadsPlaced
<1>5. QED
  BY Zenon, <1>1, <1>2, <1>4, ListFacts

\* The sleepers of S become ready, and the running thread stays or, if next
\* lists it, becomes ready after them.
LEMMA WakePlaced ==
    ASSUME IInv, SameLives, NEW S \in SUBSET Range(sleepers),
           NEW next \in Seq(Threads), thread_wakeup(S, next),
           \/ next = <<>> /\ curthread' = curthread
           \/ curthread # NULL /\ next = <<curthread>> /\ curthread' = NULL
    PROVE  /\ ThreadsPlaced'
           /\ curthread' \in Threads \cup {NULL}
           /\ runqueue' \in Seq(Threads) /\ sleepers' \in Seq(Threads)
           /\ Range(sleepers') = Range(sleepers) \ S
<1>1. curthread \in Threads \cup {NULL} /\ TypeOK /\ ThreadsPlaced
  BY SMTT(60) DEF IInv, TypeOK
<1>2. /\ IsInjective(next)
      /\ Range(next) = IF next = <<>> THEN {} ELSE {curthread}
      /\ next # <<>> => curthread \in Threads /\ curthread' = NULL
      /\ next = <<>> => curthread' = curthread
  BY <1>1 DEF IsInjective, Range
<1>3. Range(next) \cap (Range(runqueue) \cup Range(sleepers)) = {}
  BY Zenon, <1>1, <1>2 DEF ThreadsPlaced
<1>4. /\ runqueue' \in Seq(Threads) /\ sleepers' \in Seq(Threads)
      /\ IsInjective(runqueue') /\ IsInjective(sleepers')
      /\ Range(runqueue') = Range(runqueue) \cup S \cup Range(next)
      /\ Range(sleepers') = Range(sleepers) \ S
  BY Zenon, <1>1, <1>2, <1>3, WakeupMoves
<1>5. /\ Live = (Range(runqueue) \cup Range(sleepers) \cup {curthread}) \ {NULL}
      /\ Range(runqueue) \cap Range(sleepers) = {}
      /\ curthread \notin Range(runqueue) \cup Range(sleepers)
  BY Zenon DEF IInv, ThreadsPlaced
<1>6. ThreadsPlaced'
  <2>1. Live' = (Range(runqueue') \cup Range(sleepers') \cup {curthread'}) \ {NULL}
    BY Zenon, <1>2, <1>4, <1>5, SameLivesKeeps, ListFacts, NullAssumption
  <2>2. curthread' \notin Range(runqueue') \cup Range(sleepers')
    BY Zenon, <1>2, <1>4, <1>5, ListFacts, NullAssumption
  <2>3. Range(runqueue') \cap Range(sleepers') = {}
    BY Zenon, <1>2, <1>3, <1>4, <1>5
  <2>4. QED
    BY Zenon, <1>4, <2>1, <2>2, <2>3, SameLivesKeeps DEF ThreadsPlaced
<1>7. QED
  BY Zenon, <1>1, <1>2, <1>4, <1>6

\* Such steps preserve Bookkeeping if they keep the menu alive and the loops of
\* waitpid and clocksleep well formed.
LEMMA SameLivesBookkeeping ==
    ASSUME IInv, SameLives,
           pc'[Boot] \in {"user", "forking", "clocksleep"},
           \A u \in Threads : pc'[u] = "waitpid" => waitfor'[u] \in 2 .. Len(pids),
           \A u \in Threads : pc'[u] = "clocksleep" => secs'[u] > 0
    PROVE  Bookkeeping'
  BY DEF IInv, SameLives, Bookkeeping

\* thread_yield preserves the invariant.
LEMMA YieldIInv ==
    ASSUME IInv, NEW t \in Threads, thread_yield(t)
    PROVE  IInv'
<1>1. SameLives
  BY Zenon DEF IInv, TypeOK, SameLives, thread_yield
<1>2. /\ curthread = t /\ curthread' = NULL /\ sleepers' = sleepers
      /\ runqueue' = Append(runqueue, t)
  BY Zenon DEF thread_yield, make_runnable
<1>3. /\ runqueue' \in Seq(Threads)
      /\ IsInjective(runqueue')
      /\ Range(runqueue') = Range(runqueue) \cup {t}
  BY <1>2, ListFacts, AppendInjective
<1>4. /\ Live = (Range(runqueue) \cup Range(sleepers) \cup {t}) \ {NULL}
      /\ Range(runqueue) \cap Range(sleepers) = {}
  BY Zenon, <1>2 DEF IInv, ThreadsPlaced
<1>5. ThreadsPlaced'
  BY Zenon, <1>1, <1>2, <1>3, <1>4, ListFacts, SameLivesKeeps, NullAssumption DEF ThreadsPlaced
<1>6. TypeOK'
  BY Zenon, <1>2, <1>3 DEF IInv, TypeOK, thread_yield
<1>7. NoLostExit' /\ Bookkeeping'
  BY DEF IInv, thread_yield, NoLostExit, Bookkeeping
<1>8. QED
  BY Zenon, <1>1, <1>5, <1>6, <1>7, SameLivesKeeps DEF IInv

\* The timer interrupt preserves the invariant.
LEMMA HardclockIInv ==
    ASSUME IInv, hardclock \/ hardclock_idle
    PROVE  IInv'
<1> DEFINE next == IF curthread = NULL THEN <<>> ELSE <<curthread>>
<1>1. SameLives
  BY Zenon DEF IInv, TypeOK, SameLives, hardclock, hardclock_idle
<1>2. /\ hardclock_lbolt(next)
      /\ curthread' = NULL
      /\ UNCHANGED <<zombies, numthreads, pidValue, pids, pc, waitfor, secs,
                     kids, joining, menuspl, failures>>
  BY Zenon DEF hardclock, hardclock_idle
<1>3. next \in Seq(Threads)
  BY DEF IInv, TypeOK
<1>4. \/ next = <<>> /\ curthread' = curthread
      \/ curthread # NULL /\ next = <<curthread>> /\ curthread' = NULL
  BY Zenon, <1>2
<1>5. /\ lbolt_counter' \in 0 .. (HZ - 1)
      /\ \E S \in SUBSET Range(sleepers) : thread_wakeup(S, next)
  <2>1. OnLbolt \in SUBSET Range(sleepers) /\ {} \in SUBSET Range(sleepers)
    BY Zenon DEF OnLbolt
  <2>2. thread_wakeup(OnLbolt, next) \/ thread_wakeup({}, next)
    BY Zenon, <1>2 DEF hardclock_lbolt
  <2>3. lbolt_counter' \in 0 .. (HZ - 1)
    BY <1>2, HZAssumption DEF hardclock_lbolt, IInv, TypeOK
  <2>4. QED
    BY Zenon, <2>1, <2>2, <2>3
<1>6. PICK S \in SUBSET Range(sleepers) : thread_wakeup(S, next)
  BY <1>5
<1>7. /\ ThreadsPlaced'
      /\ curthread' \in Threads \cup {NULL}
      /\ runqueue' \in Seq(Threads) /\ sleepers' \in Seq(Threads)
      /\ Range(sleepers') = Range(sleepers) \ S
  <2> HIDE DEF next
  <2> QED
    BY Zenon, <1>1, <1>3, <1>4, <1>6, WakePlaced
<1>8. TypeOK'
  BY Zenon, <1>2, <1>5, <1>7 DEF IInv, TypeOK
<1>9. NoLostExit'
  BY Zenon, <1>2, <1>7 DEF IInv, NoLostExit
<1>10. Bookkeeping'
  BY Zenon, <1>2 DEF IInv, Bookkeeping
<1>11. QED
  BY <1>1, <1>7, <1>8, <1>9, <1>10, SameLivesKeeps DEF IInv

\* Entering clocksleep, from sleep() or from thread_join, preserves it.
LEMMA ClocksleepIInv ==
    ASSUME IInv, NEW t \in Threads, sys_sleep(t) \/ thread_join(t)
    PROVE  IInv'
<1>1. PICK n \in Nat \ {0} : clocksleep(t, n)
  BY Zenon, SecsAssumption DEF sys_sleep, thread_join
<1>2. /\ curthread = t /\ pc[t] = "user"
      /\ pc' = [pc EXCEPT ![t] = "clocksleep"]
      /\ secs' = [secs EXCEPT ![t] = n]
      /\ thread_sleep(t)
      /\ UNCHANGED <<zombies, numthreads, pidValue, pids, waitfor, lbolt_counter,
                     kids, joining, menuspl, failures>>
  BY Zenon, <1>1 DEF sys_sleep, thread_join, clocksleep
<1>3. SameLives
  BY SMTT(60), <1>2 DEF IInv, TypeOK, SameLives, PC
<1>4. /\ ThreadsPlaced'
      /\ curthread' = NULL /\ runqueue' \in Seq(Threads)
      /\ sleepers' \in Seq(Threads)
      /\ Range(sleepers') = Range(sleepers) \cup {t}
  BY <1>2, <1>3, SleepPlaced
<1>5. TypeOK'
  <2>1. n \in Nat
    BY <1>1
  <2>2. secs' \in [Threads -> Nat] /\ pc' \in [Threads -> PC]
    BY Zenon, <1>2, <2>1 DEF IInv, TypeOK, PC
  <2>3. QED
    BY Zenon, <1>2, <1>4, <2>2 DEF IInv, TypeOK
<1>6. NoLostExit'
  BY Zenon, <1>2, <1>4, ListFacts DEF IInv, NoLostExit, TypeOK
<1>7. Bookkeeping'
  <2>1. \A u \in Threads : /\ pc'[u] = "waitpid" => waitfor'[u] \in 2 .. Len(pids)
                           /\ pc'[u] = "clocksleep" => secs'[u] > 0
    BY <1>2 DEF IInv, TypeOK, Bookkeeping
  <2>2. pc'[Boot] \in {"user", "forking", "clocksleep"}
    BY Zenon, <1>2, BootAssumption DEF IInv, TypeOK, Bookkeeping
  <2>3. QED
    BY <1>3, <2>1, <2>2, SameLivesBookkeeping
<1>8. QED
  BY Zenon, <1>3, <1>4, <1>5, <1>6, <1>7, SameLivesKeeps DEF IInv

\* One turn of the loop of clocksleep preserves it.
LEMMA ClocksleepLoopIInv ==
    ASSUME IInv, NEW t \in Threads, clocksleep_loop(t)
    PROVE  IInv'
<1>1. /\ curthread = t /\ pc[t] = "clocksleep" /\ secs[t] \in Nat \ {0}
      /\ secs' = [secs EXCEPT ![t] = secs[t] - 1]
      /\ UNCHANGED <<zombies, numthreads, pidValue, pids, waitfor, lbolt_counter,
                     kids, menuspl, failures>>
  BY DEF clocksleep_loop, IInv, TypeOK, Bookkeeping
<1>2. secs' \in [Threads -> Nat] /\ secs'[t] = secs[t] - 1
      /\ \A u \in Threads \ {t} : secs'[u] = secs[u]
  BY SMTT(60), <1>1 DEF IInv, TypeOK
<1>3. CASE secs[t] > 1 /\ thread_sleep(t) /\ UNCHANGED <<pc, joining>>
  <2>1. SameLives
    BY <1>1, <1>3 DEF IInv, TypeOK, SameLives
  <2>2. /\ ThreadsPlaced'
        /\ curthread' = NULL /\ runqueue' \in Seq(Threads)
        /\ sleepers' \in Seq(Threads)
        /\ Range(sleepers') = Range(sleepers) \cup {t}
    BY <1>1, <1>3, <2>1, SleepPlaced
  <2>3. TypeOK'
    BY Zenon, <1>1, <1>2, <1>3, <2>2 DEF IInv, TypeOK
  <2>4. NoLostExit'
    BY Zenon, <1>1, <1>3, <2>2 DEF IInv, NoLostExit
  <2>5. Bookkeeping'
    BY <1>1, <1>2, <1>3 DEF IInv, Bookkeeping
  <2>6. QED
    BY <2>1, <2>2, <2>3, <2>4, <2>5, SameLivesKeeps DEF IInv
<1>4. CASE /\ pc' = [pc EXCEPT ![t] = "user"]
           /\ joining' = IF t = Boot THEN NULL ELSE joining
           /\ UNCHANGED <<curthread, runqueue, sleepers>>
  <2>1. SameLives
    BY SMTT(60), <1>1, <1>4 DEF IInv, TypeOK, SameLives, PC
  <2>2. ThreadsPlaced'
    BY <1>4, <2>1, SameLivesKeeps DEF IInv, ThreadsPlaced
  <2>3. TypeOK'
    <3>1. pc' \in [Threads -> PC]
      BY Zenon, <1>4 DEF IInv, TypeOK, PC
    <3>2. joining' \in Threads \cup {NULL}
      BY Zenon, <1>4 DEF IInv, TypeOK
    <3>3. QED
      BY Zenon, <1>1, <1>2, <1>4, <3>1, <3>2 DEF IInv, TypeOK
  <2>4. NoLostExit'
    BY Zenon, <1>1, <1>4, ListFacts DEF IInv, TypeOK, NoLostExit
  <2>5. Bookkeeping'
    <3>1. \A u \in Threads : /\ pc'[u] = "waitpid" => waitfor'[u] \in 2 .. Len(pids)
                             /\ pc'[u] = "clocksleep" => secs'[u] > 0
      BY <1>1, <1>2, <1>4 DEF IInv, TypeOK, Bookkeeping
    <3>2. pc'[Boot] \in {"user", "forking", "clocksleep"}
      BY Zenon, <1>4, BootAssumption DEF IInv, TypeOK, Bookkeeping
    <3>3. QED
      BY Zenon, <2>1, <3>1, <3>2, SameLivesBookkeeping
  <2>6. QED
    BY Zenon, <2>1, <2>2, <2>3, <2>4, <2>5, SameLivesKeeps DEF IInv
<1>5. QED
  BY Zenon, <1>3, <1>4 DEF clocksleep_loop

\* waitpid that finds its child exited, and a thread_create that fails for lack
\* of memory, change no list.
LEMMA QuietIInv ==
    ASSUME IInv, NEW t \in Threads,
           \/ \E p \in 1 .. Len(pids) : sys_waitpid_exited(t, p)
           \/ menu_thread_create_fails(t)
    PROVE  IInv'
<1>1. /\ UNCHANGED <<curthread, runqueue, sleepers, zombies, numthreads, pidValue,
                     pids, pc, waitfor, secs, lbolt_counter, joining>>
      /\ kids' \in [Threads -> SUBSET Nat]
      /\ menuspl' \in {0, SPL_HIGH}
      /\ failures' \in 0 .. MaxFailures
  <2>1. CASE \E p \in 1 .. Len(pids) : sys_waitpid_exited(t, p)
    BY SMTT(60), <2>1 DEF IInv, TypeOK, sys_waitpid_exited
  <2>2. CASE menu_thread_create_fails(t)
    BY <2>2, FailAssumption DEF IInv, TypeOK, menu_thread_create_fails
  <2>3. QED
    BY Zenon, <2>1, <2>2
<1>2. TypeOK'
  BY Zenon, <1>1 DEF IInv, TypeOK
<1>3. Live' = Live
  BY Zenon, <1>1 DEF Live
<1>4. ThreadsPlaced' /\ ThreadsCounted'
  BY Zenon, <1>1, <1>3 DEF IInv, ThreadsPlaced, ThreadsCounted
<1>5. PidsOwned' /\ SemIsGate' /\ NoLostExit' /\ Bookkeeping'
  BY <1>1 DEF IInv, PidsOwned, SemIsGate, NoLostExit, Bookkeeping
<1>6. QED
  BY Zenon, <1>2, <1>4, <1>5 DEF IInv

\* waitpid on a child that runs preserves the invariant: the entry it waits for
\* is not the head, whose pPid is 0.
LEMMA WaitpidIInv ==
    ASSUME IInv, NEW t \in Threads, NEW p \in 1 .. Len(pids), sys_waitpid(t, p)
    PROVE  IInv'
<1>1. /\ curthread = t /\ pc[t] = "user" /\ t # Boot
      /\ pids[p].pPid = pidValue[t]
      /\ pc' = [pc EXCEPT ![t] = "waitpid"]
      /\ waitfor' = [waitfor EXCEPT ![t] = p]
      /\ UNCHANGED <<curthread, runqueue, sleepers, zombies, numthreads, pidValue,
                     pids, secs, lbolt_counter, kids, joining, menuspl, failures>>
  BY Zenon DEF sys_waitpid
<1>2. SameLives
  <2>1. pc \in [Threads -> PC]
    BY Zenon DEF IInv, TypeOK
  <2>2. QED
    BY Zenon, <1>1, <2>1 DEF SameLives, PC
<1>3. p \in 2 .. Len(pids)
  <2>1. pidValue[t] \in DOMAIN pids /\ pids \in Seq(PidEntry) /\ pids[1].pPid = 0
    BY Zenon, <1>1 DEF IInv, TypeOK, PidsOwned, Bookkeeping
  <2>2. QED
    BY <1>1, <2>1
<1>4. ThreadsPlaced'
  BY Zenon, <1>1, <1>2, SameLivesKeeps DEF IInv, ThreadsPlaced
<1>5. TypeOK'
  <2>1. p \in Nat /\ Len(pids) \in Nat
    BY <1>3 DEF IInv, TypeOK
  <2>2. waitfor' \in [Threads -> Nat] /\ pc' \in [Threads -> PC]
    BY Zenon, <1>1, <2>1 DEF IInv, TypeOK, PC
  <2>3. QED
    BY Zenon, <1>1, <2>2 DEF IInv, TypeOK
<1>6. NoLostExit'
  BY Zenon, <1>1, ListFacts DEF IInv, TypeOK, NoLostExit
<1>7. Bookkeeping'
  <2>1. \A u \in Threads : /\ pc'[u] = "waitpid" => waitfor'[u] \in 2 .. Len(pids)
                           /\ pc'[u] = "clocksleep" => secs'[u] > 0
    <3>1. /\ pc \in [Threads -> PC] /\ waitfor \in [Threads -> Nat]
          /\ \A u \in Threads : /\ pc[u] = "waitpid" => waitfor[u] \in 2 .. Len(pids)
                                /\ pc[u] = "clocksleep" => secs[u] > 0
      BY Zenon DEF IInv, TypeOK, Bookkeeping
    <3>2. QED
      BY Zenon, <1>1, <1>3, <3>1
  <2>2. pc'[Boot] \in {"user", "forking", "clocksleep"}
    BY <1>1, BootAssumption DEF IInv, TypeOK, Bookkeeping
  <2>3. QED
    BY Zenon, <1>2, <2>1, <2>2, SameLivesBookkeeping
<1>8. QED
  BY Zenon, <1>2, <1>4, <1>5, <1>6, <1>7, SameLivesKeeps DEF IInv

\* Sleeping in P preserves it: the count is 0 only if the process runs.
LEMMA WaitpidSleepsIInv ==
    ASSUME IInv, NEW t \in Threads, waitpid_sleeps(t)
    PROVE  IInv'
<1>1. /\ curthread = t /\ pc[t] = "waitpid"
      /\ pids[waitfor[t]].parentSem = 0
      /\ thread_sleep(t)
      /\ UNCHANGED <<zombies, numthreads, pidValue, pids, pc, waitfor, secs,
                     lbolt_counter, kids, joining, menuspl, failures>>
  BY DEF waitpid_sleeps
<1>2. SameLives
  BY Zenon, <1>1 DEF IInv, TypeOK, SameLives
<1>3. /\ ThreadsPlaced'
      /\ curthread' = NULL /\ runqueue' \in Seq(Threads)
      /\ sleepers' \in Seq(Threads)
      /\ Range(sleepers') = Range(sleepers) \cup {t}
  BY <1>1, <1>2, SleepPlaced
<1>4. TypeOK'
  BY Zenon, <1>1, <1>3 DEF IInv, TypeOK
<1>5. pids[waitfor[t]].didExit = 0
  BY <1>1 DEF IInv, SemIsGate, Bookkeeping
<1>6. NoLostExit'
  BY Zenon, <1>1, <1>3, <1>5 DEF IInv, NoLostExit
<1>7. Bookkeeping'
  BY Zenon, <1>1 DEF IInv, Bookkeeping
<1>8. QED
  BY <1>2, <1>3, <1>4, <1>6, <1>7, SameLivesKeeps DEF IInv

\* Returning from waitpid preserves it.
LEMMA WaitpidReturnsIInv ==
    ASSUME IInv, NEW t \in Threads, waitpid_returns(t)
    PROVE  IInv'
<1> DEFINE S == WaitingFor(waitfor[t])
<1>1. /\ curthread = t /\ pc[t] = "waitpid"
      /\ thread_wakeup(S, <<>>)
      /\ pc' = [pc EXCEPT ![t] = "user"]
      /\ kids' = [kids EXCEPT ![t] = kids[t] \ {waitfor[t]}]
      /\ waitfor' = [waitfor EXCEPT ![t] = 0]
      /\ UNCHANGED <<curthread, zombies, numthreads, pidValue, pids, secs,
                     lbolt_counter, joining, menuspl, failures>>
  BY Zenon DEF waitpid_returns, IInv, TypeOK
<1>2. SameLives
  BY Zenon, <1>1 DEF IInv, TypeOK, SameLives, PC
<1>3. S \in SUBSET Range(sleepers)
  BY DEF WaitingFor
<1>4. /\ ThreadsPlaced'
      /\ curthread' \in Threads \cup {NULL}
      /\ runqueue' \in Seq(Threads) /\ sleepers' \in Seq(Threads)
      /\ Range(sleepers') = Range(sleepers) \ S
  <2> HIDE DEF S
  <2>1. <<>> \in Seq(Threads)
    OBVIOUS
  <2> QED
    BY Zenon, <1>1, <1>2, <1>3, <2>1, WakePlaced
<1>5. TypeOK'
  BY Zenon, <1>1, <1>2, <1>4 DEF IInv, TypeOK, SameLives
<1>6. NoLostExit'
  <2>1. t \notin Range(sleepers) /\ Range(sleepers) \subseteq Threads
    BY Zenon, <1>1, ListFacts
  <2>2. \A v \in Threads \ {t} : pc'[v] = pc[v] /\ waitfor'[v] = waitfor[v]
    BY <1>1 DEF IInv, TypeOK
  <2>3. QED
    BY Zenon, <1>1, <1>4, <2>1, <2>2 DEF IInv, NoLostExit
<1>7. Bookkeeping'
  <2>1. \A u \in Threads : /\ pc'[u] = "waitpid" => waitfor'[u] \in 2 .. Len(pids)
                           /\ pc'[u] = "clocksleep" => secs'[u] > 0
    <3>1. /\ pc \in [Threads -> PC] /\ waitfor \in [Threads -> Nat]
          /\ \A u \in Threads : /\ pc[u] = "waitpid" => waitfor[u] \in 2 .. Len(pids)
                                /\ pc[u] = "clocksleep" => secs[u] > 0
      BY Zenon DEF IInv, TypeOK, Bookkeeping
    <3>2. QED
      BY <1>1, <3>1
  <2>2. pc'[Boot] \in {"user", "forking", "clocksleep"}
    BY <1>1, BootAssumption DEF IInv, TypeOK, Bookkeeping
  <2>3. QED
    BY <1>2, <2>1, <2>2, SameLivesBookkeeping
<1>8. QED
  BY Zenon, <1>2, <1>4, <1>5, <1>6, <1>7, SameLivesKeeps DEF IInv

(***************************************************************************)
(* Steps of fork                                                           *)
(***************************************************************************)

\* What thread_create does to the pid list: p becomes the live pid of u, and
\* no other entry changes.
LEMMA ThreadCreatePids ==
    ASSUME IInv, NEW t \in Threads, NEW u \in Threads,
           NEW p \in 2 .. (Len(pids) + 1), thread_create(t, u, p)
    PROVE  /\ pids' \in Seq(PidEntry)
           /\ Len(pids) \in Nat /\ DOMAIN pids = 1 .. Len(pids)
           /\ DOMAIN pids' = 1 .. Len(pids')
           /\ Len(pids') = IF p = Len(pids) + 1 THEN p ELSE Len(pids)
           /\ 1 .. Len(pids') = (1 .. Len(pids)) \cup {p}
           /\ 2 .. Len(pids') = (2 .. Len(pids)) \cup {p}
           /\ p \in DOMAIN pids => pids[p].isUsed = 0
           /\ \A q \in (1 .. Len(pids)) \ {p} : pids'[q] = pids[q]
           /\ pids'[p].isUsed = 1 /\ pids'[p].didExit = 0
           /\ pids'[p].parentSem = 0 /\ pids'[p].myThread = u
<1> DEFINE list == assign_pid(pids, p, pidValue[t], u)
<1>1. /\ pids \in Seq(PidEntry) /\ Len(pids) \in Nat
      /\ DOMAIN pids = 1 .. Len(pids) /\ pidValue[t] \in Nat
  BY DEF IInv, TypeOK
<1>2. /\ list \in Seq(PidEntry)
      /\ p \in DOMAIN list
      /\ Len(list) = IF p = Len(pids) + 1 THEN Len(pids) + 1 ELSE Len(pids)
      /\ \A q \in (1 .. Len(pids)) \ {p} : list[q] = pids[q]
      /\ list[p].isUsed = 1 /\ list[p].didExit = 0
      /\ list[p].parentSem = 1 /\ list[p].myThread = u
      /\ p \in DOMAIN pids => pids[p].isUsed = 0
  <2>1. CASE p = Len(pids) + 1
    <3>1. list = append_pid(pids, pidValue[t], u)
      BY Zenon, <2>1 DEF assign_pid
    <3> DEFINE e == [isUsed |-> 1, pPid |-> pidValue[t], didExit |-> 0,
                     exitCode |-> 0, myThread |-> u, parentSem |-> 1]
    <3>2. e \in PidEntry
      BY Zenon, <1>1, ExitCodesAssumption DEF PidEntry
    <3>3. list = Append(pids, e)
      BY Zenon, <3>1 DEF append_pid
    <3>4. e.isUsed = 1 /\ e.didExit = 0 /\ e.parentSem = 1 /\ e.myThread = u
      BY Zenon
    <3> HIDE DEF e, list
    <3>5. QED
      BY <1>1, <2>1, <3>2, <3>3, <3>4
  <2>2. CASE p # Len(pids) + 1
    <3>1. p \in DOMAIN pids /\ p \in 2 .. Len(pids)
      BY <1>1, <2>2
    <3>2. pids[p].isUsed = 0
      BY Zenon, <2>2, <3>1 DEF thread_create, assignsPid, FirstFree
    <3>3. pids[p] \in PidEntry /\ pids[p].parentSem = 1
      BY <1>1, <3>1, <3>2 DEF IInv, SemIsGate
    <3> DEFINE e == [pids[p] EXCEPT !.isUsed = 1, !.pPid = pidValue[t],
                                    !.didExit = 0, !.myThread = u]
    <3>4. list = [pids EXCEPT ![p] = e]
      BY Zenon, <2>2 DEF assign_pid
    <3>5. e \in PidEntry /\ e.isUsed = 1 /\ e.didExit = 0 /\ e.parentSem = 1
          /\ e.myThread = u
      BY Zenon, <1>1, <3>3 DEF PidEntry
    <3> HIDE DEF e, list
    <3>6. QED
      BY <1>1, <2>2, <3>1, <3>2, <3>4, <3>5
  <2>3. QED
    BY Zenon, <2>1, <2>2
<1>3. pids' = [list EXCEPT ![p].parentSem = list[p].parentSem - 1]
  BY Zenon, <1>2 DEF thread_create
<1>4. list[p] \in PidEntry
  <2> HIDE DEF list
  <2> QED
    BY <1>2
<1> DEFINE f == [list[p] EXCEPT !.parentSem = 0]
<1>5. pids' = [list EXCEPT ![p] = f]
  <2> HIDE DEF list
  <2> QED
    BY <1>2, <1>3
<1>6. f \in PidEntry /\ f.isUsed = 1 /\ f.didExit = 0 /\ f.parentSem = 0
      /\ f.myThread = u
  <2> HIDE DEF list
  <2> QED
    BY Zenon, <1>2, <1>4 DEF PidEntry
<1> HIDE DEF f, list
<1>7. /\ pids' \in Seq(PidEntry) /\ Len(pids') = Len(list)
      /\ DOMAIN pids' = 1 .. Len(pids')
      /\ pids'[p] = f
      /\ \A q \in DOMAIN list \ {p} : pids'[q] = list[q]
  BY <1>2, <1>5, <1>6
<1>8. \A q \in (1 .. Len(pids)) \ {p} : pids'[q] = pids[q]
  BY <1>1, <1>2, <1>7
<1>9. 1 .. Len(pids') = (1 .. Len(pids)) \cup {p}
      /\ 2 .. Len(pids') = (2 .. Len(pids)) \cup {p}
  BY <1>1, <1>2, <1>7
<1>10. QED
  BY Zenon, <1>1, <1>2, <1>6, <1>7, <1>8, <1>9

\* The pid list after thread_create, whatever the caller does with the thread.
LEMMA SpawnPids ==
    ASSUME IInv, NEW t \in Threads, NEW u \in Threads,
           NEW p \in 2 .. (Len(pids) + 1), thread_create(t, u, p),
           pidValue' = [pidValue EXCEPT ![u] = p],
           pc'[u] \in {"new", "created"},
           \A v \in Threads \ {u} :
               /\ (pc'[v] = "none") <=> (pc[v] = "none")
               /\ (pc'[v] = "zombie") <=> (pc[v] = "zombie")
               /\ (pc'[v] = "waitpid") <=> (pc[v] = "waitpid")
               /\ (pc'[v] = "clocksleep") <=> (pc[v] = "clocksleep"),
           pc'[Boot] \in {"user", "forking", "clocksleep"},
           UNCHANGED <<sleepers, zombies, waitfor, secs>>
    PROVE  PidsOwned' /\ SemIsGate' /\ NoLostExit' /\ Bookkeeping'
<1>1. /\ pids' \in Seq(PidEntry)
      /\ Len(pids) \in Nat /\ DOMAIN pids = 1 .. Len(pids)
      /\ DOMAIN pids' = 1 .. Len(pids')
      /\ 1 .. Len(pids') = (1 .. Len(pids)) \cup {p}
      /\ 2 .. Len(pids') = (2 .. Len(pids)) \cup {p}
      /\ p \in DOMAIN pids => pids[p].isUsed = 0
      /\ \A q \in (1 .. Len(pids)) \ {p} : pids'[q] = pids[q]
      /\ pids'[p].isUsed = 1 /\ pids'[p].didExit = 0
      /\ pids'[p].parentSem = 0 /\ pids'[p].myThread = u
  BY ThreadCreatePids
<1>2. pc[u] = "none" /\ u # Boot /\ pidValue[u] = 0
  BY Zenon DEF thread_create, IInv, Bookkeeping
<1>3. /\ pidValue'[u] = p
      /\ \A v \in Threads \ {u} : pidValue'[v] = pidValue[v]
  BY Zenon DEF IInv, TypeOK
<1>4. ASSUME NEW v \in Threads \ {u}, pc[v] # "none"
      PROVE  pidValue[v] \in (1 .. Len(pids)) \ {p}
  <2>1. pidValue[v] \in DOMAIN pids /\ pids[pidValue[v]].isUsed = 1
    BY Zenon, <1>4 DEF IInv, PidsOwned
  <2>2. QED
    BY <1>1, <2>1
<1>5. \A v \in Threads \ {u} : pc[v] = "none" => pidValue[v] = 0
  BY Zenon DEF IInv, Bookkeeping
<1>6. PidsOwned'
  <2>1. ASSUME NEW v \in Threads \ {u}, pc[v] # "none"
        PROVE  /\ pidValue'[v] \in DOMAIN pids'
               /\ pids'[pidValue'[v]].isUsed = 1
               /\ v # Boot => pidValue'[v] # 1 /\ pids'[pidValue'[v]].myThread = v
               /\ (pids'[pidValue'[v]].didExit = 1) <=> (pc'[v] = "zombie")
               /\ \A x \in Threads \ {v} : pidValue'[x] # pidValue'[v]
    <3>1. pidValue'[v] = pidValue[v] /\ pids'[pidValue[v]] = pids[pidValue[v]]
          /\ pidValue[v] \in DOMAIN pids' /\ pidValue[v] # p
      BY <1>1, <1>3, <1>4, <2>1
    <3>2. \A x \in Threads \ {v} : pidValue'[x] # pidValue'[v]
      BY <1>3, <2>1, <3>1 DEF IInv, PidsOwned
    <3>3. QED
      BY <2>1, <3>1, <3>2 DEF IInv, PidsOwned
  <2>2. \A x \in Threads \ {u} : pidValue'[x] # p
    BY <1>3, <1>4, <1>5
  <2>3. QED
    BY <1>1, <1>3, <2>1, <2>2 DEF PidsOwned
<1>7. SemIsGate'
  <2>1. ASSUME NEW q \in 2 .. Len(pids'), q # p
        PROVE  q \in 2 .. Len(pids) /\ pids'[q] = pids[q]
    BY <1>1, <2>1
  <2>2. QED
    BY <1>1, <2>1 DEF IInv, SemIsGate
<1>8. \A q \in 2 .. Len(pids) : pids'[q].didExit = 1 => pids'[q] = pids[q]
  BY <1>1
<1>9. NoLostExit'
  <2>1. ASSUME NEW v \in Range(sleepers), pc'[v] = "waitpid"
        PROVE  pids'[waitfor[v]].didExit = 0
    <3>1. v \in Threads /\ pc[v] = "waitpid"
      BY Zenon, <2>1, ListFacts
    <3>2. waitfor[v] \in 2 .. Len(pids) /\ pids[waitfor[v]].didExit = 0
      BY Zenon, <2>1, <3>1 DEF IInv, NoLostExit, Bookkeeping
    <3>3. QED
      BY <1>1, <3>2
  <2>2. QED
    BY Zenon, <2>1 DEF NoLostExit
<1>10. Bookkeeping'
  <2>1. /\ pidValue'[Boot] = 1
        /\ 1 \in DOMAIN pids' /\ pids'[1] = pids[1]
    BY <1>1, <1>2, <1>3, BootAssumption DEF IInv, Bookkeeping
  <2>2. ASSUME NEW q \in 2 .. Len(pids')
        PROVE  /\ pids'[q].isUsed = 0 => pids'[q].didExit = 1
               /\ pids'[q].isUsed = 1 /\ pids'[q].didExit = 1
                     => \E z \in zombies : pidValue'[z] = q
    <3>1. CASE q = p
      BY <1>1, <3>1
    <3>2. CASE q # p
      <4>1. q \in 2 .. Len(pids) /\ pids'[q] = pids[q]
        BY <1>1, <3>2
      <4>2. \A z \in zombies : z \in Threads /\ z # u
        BY Zenon, <1>2 DEF IInv, ThreadsPlaced
      <4>3. QED
        BY SMTT(60), <1>3, <4>1, <4>2 DEF IInv, Bookkeeping
    <3>3. QED
      BY Zenon, <3>1, <3>2
  <2>3. ASSUME NEW v \in Threads
        PROVE  /\ pc'[v] = "none" => pidValue'[v] = 0
               /\ pc'[v] = "waitpid" => waitfor[v] \in 2 .. Len(pids')
               /\ pc'[v] = "clocksleep" => secs[v] > 0
    BY <1>1, <1>3 DEF IInv, Bookkeeping
  <2>4. QED
    BY Zenon, <2>1, <2>2, <2>3 DEF IInv, Bookkeeping
<1>11. QED
  BY Zenon, <1>6, <1>7, <1>9, <1>10

\* A thread that did not live becomes ready.
LEMMA ReadyPlaced ==
    ASSUME CountFacts, IInv, NEW u \in Threads, u \notin Live,
           runqueue' = make_runnable(runqueue, u),
           numthreads' = numthreads + 1,
           Live' = Live \cup {u},
           zombies' = {v \in Threads : pc'[v] = "zombie"},
           UNCHANGED <<curthread, sleepers>>
    PROVE  ThreadsPlaced' /\ ThreadsCounted' /\ runqueue' \in Seq(Threads)
           /\ numthreads' \in Nat
<1>1. u \notin Range(runqueue) /\ u \notin Range(sleepers) /\ u # curthread
  BY Zenon, ListFacts, NullAssumption DEF IInv, ThreadsPlaced
<1>2. /\ runqueue' \in Seq(Threads)
      /\ IsInjective(runqueue')
      /\ Range(runqueue') = Range(runqueue) \cup {u}
  BY Zenon, <1>1, ListFacts, AppendInjective DEF make_runnable
<1>3. ThreadsPlaced'
  BY Zenon, <1>1, <1>2, NullAssumption DEF IInv, ThreadsPlaced
<1>4. Live \in SUBSET Threads
  BY Zenon DEF Live
<1>5. ThreadsCounted'
  BY Zenon, <1>4 DEF IInv, ThreadsCounted, CountFacts
<1>6. QED
  BY <1>2, <1>3, <1>5 DEF IInv, TypeOK

\* A process forks.
LEMMA ForkIInv ==
    ASSUME CountFacts, IInv, NEW t \in Threads, sys_fork(t)
    PROVE  IInv'
<1>1. PICK u \in Threads, p \in 2 .. (Len(pids) + 1) :
        /\ thread_create(t, u, p)
        /\ pidValue' = [pidValue EXCEPT ![u] = p]
        /\ pc' = [pc EXCEPT ![u] = "new"]
        /\ kids' = [kids EXCEPT ![t] = kids[t] \cup {p}]
        /\ runqueue' = make_runnable(runqueue, u)
  BY Zenon DEF sys_fork, IInv, TypeOK
<1>2. /\ numthreads' = numthreads + 1
      /\ UNCHANGED <<curthread, sleepers, zombies, waitfor, secs, lbolt_counter,
                     joining, menuspl, failures>>
  BY Zenon DEF sys_fork
<1>3. pc[u] = "none" /\ u # Boot /\ p \in Nat
  <2>1. Len(pids) \in Nat
    BY DEF IInv, TypeOK
  <2>2. p \in Nat
    BY <2>1
  <2>3. QED
    BY Zenon, <1>1, <2>2 DEF thread_create, IInv, Bookkeeping
<1>4. /\ pc' \in [Threads -> PC] /\ pc'[u] = "new"
      /\ \A v \in Threads \ {u} : pc'[v] = pc[v]
  BY Zenon, <1>1 DEF IInv, TypeOK, PC
<1>5. pids' \in Seq(PidEntry)
  BY Zenon, <1>1, ThreadCreatePids
<1>6. PidsOwned' /\ SemIsGate' /\ NoLostExit' /\ Bookkeeping'
  <2>1. pc'[Boot] \in {"user", "forking", "clocksleep"}
    BY Zenon, <1>3, <1>4, BootAssumption DEF IInv, Bookkeeping
  <2>2. QED
    BY Zenon, <1>1, <1>2, <1>4, <2>1, SpawnPids
<1>7. u \notin Live /\ Live' = Live \cup {u}
      /\ zombies' = {v \in Threads : pc'[v] = "zombie"}
  <2>1. zombies' = {v \in Threads : pc[v] = "zombie"}
    BY Zenon, <1>2 DEF IInv, ThreadsPlaced
  <2>2. {v \in Threads : pc'[v] = "zombie"} = {v \in Threads : pc[v] = "zombie"}
    BY Zenon, <1>3, <1>4
  <2>3. u \notin Live /\ Live' = Live \cup {u}
    BY Zenon, <1>3, <1>4 DEF Live
  <2>4. QED
    BY Zenon, <2>1, <2>2, <2>3
<1>8. ThreadsPlaced' /\ ThreadsCounted' /\ runqueue' \in Seq(Threads)
      /\ numthreads' \in Nat
  BY Zenon, <1>1, <1>2, <1>7, ReadyPlaced
<1>9. pidValue' \in [Threads -> Nat] /\ kids' \in [Threads -> SUBSET Nat]
  BY Zenon, <1>1, <1>3 DEF IInv, TypeOK
<1>10. TypeOK'
  BY Zenon, <1>2, <1>4, <1>5, <1>8, <1>9 DEF IInv, TypeOK
<1>11. QED
  BY <1>6, <1>8, <1>10 DEF IInv

\* A process's fork fails after its thread_create: the pid stays live, owned by
\* no thread.
LEMMA ForkFailsIInv ==
    ASSUME IInv, NEW t \in Threads, sys_fork_fails(t)
    PROVE  IInv'
<1>1. PICK u \in Threads, p \in 2 .. (Len(pids) + 1) : thread_create(t, u, p)
  BY Zenon DEF sys_fork_fails
<1>2. /\ failures' \in 0 .. MaxFailures
      /\ UNCHANGED <<curthread, runqueue, sleepers, zombies, numthreads, pidValue,
                     pc, waitfor, secs, lbolt_counter, kids, joining, menuspl>>
  <2>1. failures \in 0 .. MaxFailures /\ failures < MaxFailures /\ failures' = failures + 1
    BY Zenon DEF sys_fork_fails, IInv, TypeOK
  <2>2. failures' \in 0 .. MaxFailures
    BY <2>1, FailAssumption
  <2>3. QED
    BY Zenon, <2>2 DEF sys_fork_fails
<1>3. /\ pids' \in Seq(PidEntry)
      /\ Len(pids) \in Nat /\ DOMAIN pids = 1 .. Len(pids)
      /\ DOMAIN pids' = 1 .. Len(pids')
      /\ 1 .. Len(pids') = (1 .. Len(pids)) \cup {p}
      /\ 2 .. Len(pids') = (2 .. Len(pids)) \cup {p}
      /\ p \in DOMAIN pids => pids[p].isUsed = 0
      /\ \A q \in (1 .. Len(pids)) \ {p} : pids'[q] = pids[q]
      /\ pids'[p].isUsed = 1 /\ pids'[p].didExit = 0
      /\ pids'[p].parentSem = 0
  BY <1>1, ThreadCreatePids
<1>4. TypeOK'
  BY Zenon, <1>2, <1>3 DEF IInv, TypeOK
<1>5. ThreadsPlaced' /\ ThreadsCounted'
  <2>1. Live' = Live
    BY Zenon, <1>2 DEF Live
  <2>2. QED
    BY Zenon, <1>2, <2>1 DEF IInv, ThreadsPlaced, ThreadsCounted
<1>6. PidsOwned'
  <2>1. ASSUME NEW v \in Threads, pc[v] # "none"
        PROVE  /\ pidValue[v] \in DOMAIN pids'
               /\ pids'[pidValue[v]] = pids[pidValue[v]]
    <3>1. pidValue[v] \in DOMAIN pids /\ pids[pidValue[v]].isUsed = 1
      BY Zenon, <2>1 DEF IInv, PidsOwned
    <3>2. QED
      BY <1>3, <3>1
  <2>2. QED
    BY <1>2, <2>1 DEF IInv, PidsOwned
<1>7. ASSUME NEW q \in 2 .. Len(pids'), q # p
      PROVE  q \in 2 .. Len(pids) /\ pids'[q] = pids[q]
  BY <1>3, <1>7
<1>8. SemIsGate'
  BY Zenon, <1>3, <1>7 DEF IInv, SemIsGate
<1>9. NoLostExit'
  <2>1. ASSUME NEW v \in Range(sleepers), pc[v] = "waitpid"
        PROVE  pids'[waitfor[v]].didExit = 0
    <3>1. waitfor[v] \in 2 .. Len(pids) /\ pids[waitfor[v]].didExit = 0
      BY Zenon, <2>1, ListFacts DEF IInv, NoLostExit, Bookkeeping
    <3>2. QED
      BY <1>3, <3>1
  <2>2. QED
    BY Zenon, <1>2, <2>1 DEF NoLostExit
<1>10. Bookkeeping'
  <2>1. 1 \in DOMAIN pids' /\ pids'[1] = pids[1]
    BY <1>3 DEF IInv, Bookkeeping
  <2>2. ASSUME NEW q \in 2 .. Len(pids')
        PROVE  /\ pids'[q].isUsed = 0 => pids'[q].didExit = 1
               /\ pids'[q].isUsed = 1 /\ pids'[q].didExit = 1
                     => \E z \in zombies : pidValue[z] = q
    BY <1>3, <1>7 DEF IInv, Bookkeeping
  <2>3. \A v \in Threads : pc[v] = "waitpid" => waitfor[v] \in 2 .. Len(pids')
    BY <1>3 DEF IInv, Bookkeeping
  <2>4. QED
    BY SMTT(60), <1>2, <2>1, <2>2, <2>3 DEF IInv, Bookkeeping
<1>11. QED
  BY Zenon, <1>4, <1>5, <1>6, <1>8, <1>9, <1>10 DEF IInv

\* The menu's thread_create.
LEMMA MenuCreateIInv ==
    ASSUME IInv, NEW t \in Threads, menu_thread_create(t)
    PROVE  IInv'
<1>1. PICK u \in Threads, p \in 2 .. (Len(pids) + 1) :
        /\ thread_create(t, u, p)
        /\ pidValue' = [pidValue EXCEPT ![u] = p]
        /\ pc' = [pc EXCEPT ![u] = "created", ![t] = "forking"]
  BY Zenon DEF menu_thread_create
<1>2. /\ pc[t] = "user" /\ t = Boot
      /\ UNCHANGED <<curthread, runqueue, sleepers, zombies, numthreads, waitfor,
                     secs, lbolt_counter, kids, joining, menuspl, failures>>
  BY DEF menu_thread_create
<1>3. pc[u] = "none" /\ u # t /\ p \in Nat
  <2>1. Len(pids) \in Nat
    BY DEF IInv, TypeOK
  <2>2. p \in Nat
    BY <2>1
  <2>3. QED
    BY <1>1, <1>2, <2>2 DEF thread_create
<1>4. /\ pc' \in [Threads -> PC] /\ pc'[u] = "created" /\ pc'[t] = "forking"
      /\ \A v \in Threads \ {u, t} : pc'[v] = pc[v]
  BY Zenon, <1>1, <1>3 DEF IInv, TypeOK, PC
<1>5. pids' \in Seq(PidEntry)
  BY Zenon, <1>1, ThreadCreatePids
<1>6. PidsOwned' /\ SemIsGate' /\ NoLostExit' /\ Bookkeeping'
  <2>1. \A v \in Threads \ {u} :
           /\ (pc'[v] = "none") <=> (pc[v] = "none")
           /\ (pc'[v] = "zombie") <=> (pc[v] = "zombie")
           /\ (pc'[v] = "waitpid") <=> (pc[v] = "waitpid")
           /\ (pc'[v] = "clocksleep") <=> (pc[v] = "clocksleep")
    BY Zenon, <1>2, <1>3, <1>4
  <2>2. QED
    BY Zenon, <1>1, <1>2, <1>4, <2>1, SpawnPids
<1>7. Live' = Live /\ zombies' = {v \in Threads : pc'[v] = "zombie"}
  <2>1. zombies' = {v \in Threads : pc[v] = "zombie"}
    BY Zenon, <1>2 DEF IInv, ThreadsPlaced
  <2>2. {v \in Threads : pc'[v] = "zombie"} = {v \in Threads : pc[v] = "zombie"}
    BY Zenon, <1>2, <1>3, <1>4
  <2>3. Live' = Live
    BY Zenon, <1>2, <1>3, <1>4 DEF Live
  <2>4. QED
    BY Zenon, <2>1, <2>2, <2>3
<1>8. ThreadsPlaced' /\ ThreadsCounted'
  BY Zenon, <1>2, <1>7 DEF IInv, ThreadsPlaced, ThreadsCounted
<1>9. pidValue' \in [Threads -> Nat]
  BY Zenon, <1>1, <1>3 DEF IInv, TypeOK
<1>10. TypeOK'
  BY Zenon, <1>2, <1>4, <1>5, <1>9 DEF IInv, TypeOK
<1>11. QED
  BY <1>6, <1>8, <1>10 DEF IInv

\* The rest of the menu's thread_fork, successful or not.
LEMMA MenuForkIInv ==
    ASSUME CountFacts, IInv, NEW t \in Threads, menu_thread_fork(t)
    PROVE  IInv'
<1>1. PICK u \in Threads :
        /\ pc[u] = "created"
        /\ pc' = [pc EXCEPT ![u] = "new", ![t] = "user"]
        /\ runqueue' = make_runnable(runqueue, u)
        /\ joining' = u
  BY Zenon DEF menu_thread_fork
<1>2. /\ pc[t] = "forking" /\ numthreads' = numthreads + 1
      /\ UNCHANGED <<curthread, sleepers, zombies, pidValue, pids, waitfor, secs,
                     lbolt_counter, kids, menuspl, failures>>
  BY DEF menu_thread_fork
<1>3. /\ pc' \in [Threads -> PC] /\ pc'[u] = "new" /\ pc'[t] = "user"
      /\ \A v \in Threads \ {u, t} : pc'[v] = pc[v]
  BY Zenon, <1>1, <1>2 DEF IInv, TypeOK, PC
<1>4. u \notin Live /\ Live' = Live \cup {u}
  BY Zenon, <1>1, <1>2, <1>3 DEF Live
<1>5. zombies' = {v \in Threads : pc'[v] = "zombie"}
  <2>1. zombies' = {v \in Threads : pc[v] = "zombie"}
    BY Zenon, <1>2 DEF IInv, ThreadsPlaced
  <2>2. QED
    BY Zenon, <1>1, <1>2, <1>3, <2>1
<1>6. ThreadsPlaced' /\ ThreadsCounted' /\ runqueue' \in Seq(Threads)
      /\ numthreads' \in Nat
  BY SMTT(60), <1>1, <1>2, <1>4, <1>5, ReadyPlaced
<1>7. TypeOK'
  BY Zenon, <1>1, <1>2, <1>3, <1>6 DEF IInv, TypeOK
<1>8. \A v \in Threads : /\ (pc'[v] = "none") <=> (pc[v] = "none")
                         /\ (pc'[v] = "zombie") <=> (pc[v] = "zombie")
                         /\ (pc'[v] = "waitpid") <=> (pc[v] = "waitpid")
                         /\ (pc'[v] = "clocksleep") <=> (pc[v] = "clocksleep")
  BY Zenon, <1>1, <1>2, <1>3
<1>9. PidsOwned' /\ SemIsGate'
  BY SMTT(60), <1>2, <1>8 DEF IInv, PidsOwned, SemIsGate
<1>10. NoLostExit'
  BY Zenon, <1>2, <1>8, ListFacts DEF IInv, NoLostExit
<1>11. Bookkeeping'
  <2>1. pc'[Boot] \in {"user", "forking", "clocksleep"}
    BY Zenon, <1>1, <1>3, BootAssumption DEF IInv, Bookkeeping
  <2>2. QED
    BY Zenon, <1>2, <1>8, <2>1 DEF IInv, Bookkeeping
<1>12. QED
  BY Zenon, <1>6, <1>7, <1>9, <1>10, <1>11 DEF IInv

\* thread_fork failing on its preallocations for the menu keeps the invariant: the
\* thread is gone and its pid stays taken for good.
LEMMA MenuForkFailsIInv ==
    ASSUME IInv, NEW t \in Threads, menu_thread_fork_fails(t)
    PROVE  IInv'
<1>1. PICK u \in Threads :
        /\ pc[u] = "created"
        /\ pc' = [pc EXCEPT ![u] = "none", ![t] = "user"]
        /\ pidValue' = [pidValue EXCEPT ![u] = 0]
  BY Zenon DEF menu_thread_fork_fails
<1>2. /\ pc[t] = "forking" /\ failures' \in 0 .. MaxFailures
      /\ UNCHANGED <<curthread, runqueue, sleepers, zombies, numthreads, pids,
                     waitfor, secs, lbolt_counter, kids, joining, menuspl>>
  BY FailAssumption DEF menu_thread_fork_fails, IInv, TypeOK
<1>3. /\ pc' \in [Threads -> PC] /\ pc'[u] = "none" /\ pc'[t] = "user"
      /\ \A v \in Threads \ {u, t} : pc'[v] = pc[v]
  BY Zenon, <1>1, <1>2 DEF IInv, TypeOK, PC
<1>4. /\ pidValue' \in [Threads -> Nat] /\ pidValue'[u] = 0
      /\ \A v \in Threads \ {u} : pidValue'[v] = pidValue[v]
  BY Zenon, <1>1 DEF IInv, TypeOK
<1>5. TypeOK'
  BY Zenon, <1>2, <1>3, <1>4 DEF IInv, TypeOK
<1>6. Live' = Live
  BY Zenon, <1>1, <1>2, <1>3 DEF Live
<1>7. \A v \in Threads : /\ (pc'[v] = "zombie") <=> (pc[v] = "zombie")
                         /\ (pc'[v] = "waitpid") <=> (pc[v] = "waitpid")
                         /\ (pc'[v] = "clocksleep") <=> (pc[v] = "clocksleep")
  BY Zenon, <1>1, <1>2, <1>3
<1>8. zombies = {v \in Threads : pc[v] = "zombie"}
  BY Zenon DEF IInv, ThreadsPlaced
<1>9. zombies' = {v \in Threads : pc'[v] = "zombie"}
  BY Zenon, <1>2, <1>7, <1>8
<1>10. ThreadsPlaced' /\ ThreadsCounted'
  BY Zenon, <1>2, <1>6, <1>9 DEF IInv, ThreadsPlaced, ThreadsCounted
<1>11. PidsOwned'
  <2>1. ASSUME NEW v \in Threads, pc'[v] # "none"
        PROVE  v # u /\ pc[v] # "none" /\ pidValue[v] # 0
    <3>1. v # u /\ pc[v] # "none"
      BY <1>2, <1>3, <2>1
    <3>2. pidValue[v] \in DOMAIN pids /\ pids \in Seq(PidEntry)
      BY <3>1 DEF IInv, PidsOwned, TypeOK
    <3>3. QED
      BY <3>1, <3>2
  <2>2. ASSUME NEW v \in Threads, pc'[v] # "none"
        PROVE  /\ pidValue'[v] = pidValue[v] /\ pids' = pids
               /\ \A w \in Threads \ {v} : pidValue'[w] # pidValue'[v]
    <3>1. v # u /\ pc[v] # "none" /\ pidValue[v] # 0
      BY Zenon, <2>1, <2>2
    <3>2. pidValue'[v] = pidValue[v] /\ pids' = pids
      BY Zenon, <1>2, <1>4, <3>1
    <3>3. \A w \in Threads \ {v} : pidValue[w] # pidValue[v]
      BY Zenon, <3>1 DEF IInv, PidsOwned
    <3>4. QED
      BY Zenon, <1>4, <3>1, <3>2, <3>3
  <2>3. \A v \in Threads : pc'[v] # "none" =>
          /\ pidValue[v] \in DOMAIN pids /\ pids[pidValue[v]].isUsed = 1
          /\ v # Boot => pidValue[v] # 1 /\ pids[pidValue[v]].myThread = v
          /\ (pids[pidValue[v]].didExit = 1) <=> (pc'[v] = "zombie")
    BY Zenon, <1>7, <2>1 DEF IInv, PidsOwned
  <2>4. QED
    BY <2>2, <2>3 DEF PidsOwned
<1>12. SemIsGate'
  BY Zenon, <1>2 DEF IInv, SemIsGate
<1>13. NoLostExit'
  BY Zenon, <1>2, <1>7, ListFacts DEF IInv, NoLostExit
<1>14. Bookkeeping'
  <2>1. pc'[Boot] \in {"user", "forking", "clocksleep"} /\ Boot # u
    BY Zenon, <1>1, <1>3, BootAssumption DEF IInv, Bookkeeping
  <2>2. \A z \in zombies : z \in Threads /\ pidValue'[z] = pidValue[z]
    BY Zenon, <1>1, <1>4, <1>8
  <2>3. \A v \in Threads : pc'[v] = "none" => pidValue'[v] = 0
    <3>1. ASSUME NEW v \in Threads, v # u, pc'[v] = "none" PROVE pidValue[v] = 0
      <4>1. pc[v] = "none"
        BY Zenon, <1>3, <3>1
      <4>2. QED
        BY Zenon, <4>1 DEF IInv, Bookkeeping
    <3>2. QED
      BY Zenon, <1>4, <3>1
  <2>4. pidValue'[Boot] = 1 /\ pids' = pids /\ zombies' = zombies
    BY Zenon, <1>2, <1>4, <2>1, BootAssumption DEF IInv, Bookkeeping
  <2>5. \A v \in Threads : /\ pc'[v] = "waitpid" => waitfor'[v] \in 2 .. Len(pids)
                           /\ pc'[v] = "clocksleep" => secs'[v] > 0
    BY Zenon, <1>2, <1>7 DEF IInv, Bookkeeping
  <2>6. \A q \in 2 .. Len(pids) :
          /\ pids[q].isUsed = 0 => pids[q].didExit = 1
          /\ pids[q].isUsed = 1 /\ pids[q].didExit = 1
               => \E z \in zombies : pidValue'[z] = q
    BY Zenon, <2>2 DEF IInv, Bookkeeping
  <2>7. /\ 1 \in DOMAIN pids /\ pids[1].isUsed = 1 /\ pids[1].didExit = 0
        /\ pids[1].pPid = 0
    BY Zenon DEF IInv, Bookkeeping
  <2>8. QED
    BY Zenon, <2>1, <2>3, <2>4, <2>5, <2>6, <2>7 DEF Bookkeeping
<1>15. QED
  BY <1>5, <1>10, <1>11, <1>12, <1>13, <1>14 DEF IInv
=============================================================================
