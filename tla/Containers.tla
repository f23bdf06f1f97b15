----------------------------- MODULE Containers ------------------------------
(***************************************************************************)
(* The kernel library's containers and their use by the thread system:     *)
(* the ring buffer of lib/queue.c behind the run queue (scheduler.c), the  *)
(* growing arrays of lib/array.c behind the sleepers and the zombies       *)
(* (thread.c), and the words of lib/bitmap.c, which SFS keeps its free     *)
(* blocks in.  kmalloc may fail whenever a container has to grow.          *)
(*                                                                         *)
(* thread_fork reserves room in all three lists, so that no later move of  *)
(* a thread from one to another needs memory.                              *)
(***************************************************************************)
EXTENDS Naturals, FiniteSets, Sequences, SequencesExt

CONSTANTS
  Threads,    \* threads
  QueueSize,  \* q_create(32) of scheduler_bootstrap
  KeepMax,    \* the size an emptied array may keep (16)
  NBits,      \* bits of the bitmap
  BitsPerWord,\* BITS_PER_WORD
  None

VARIABLES
  cur,        \* curthread, None while the processor idles
  runqueue,   \* [size, nextwrite, nextread, data]
  sleepers,   \* [num, max, v]
  zombies,
  numthreads,
  panicked    \* an assertion that an addition succeeded has failed

vars == <<cur, runqueue, sleepers, zombies, numthreads, panicked>>

(***************************************************************************)
(* queue.c.  An operation yields the queue and whether it succeeded; mem   *)
(* says whether kmalloc would.                                             *)
(***************************************************************************)

q_create(size) ==
  [size |-> size, nextwrite |-> 0, nextread |-> 0,
   data |-> [i \in 0 .. size - 1 |-> None]]

q_empty(q) == q.nextwrite = q.nextread

\* The elements, from nextread up to nextwrite around the ring.
QueueItems(q) ==
  LET n == (q.nextwrite + q.size - q.nextread) % q.size
  IN [k \in 1 .. n |-> q.data[(q.nextread + k - 1) % q.size]]

Doubled(size, target) ==
  LET nsize[n \in Nat] == IF n < target THEN nsize[n * 2] ELSE n IN nsize[size]

\* A ring of twice the size, as often as it takes, refilled from its start.
q_grow(q, targetsize, mem) ==
  LET nsize == Doubled(q.size, targetsize)
      items == QueueItems(q)
  IN IF ~mem THEN [q |-> q, ok |-> FALSE]
     ELSE [q |-> [size |-> nsize, nextread |-> 0, nextwrite |-> Len(items),
                  data |-> [i \in 0 .. nsize - 1 |->
                              IF i < Len(items) THEN items[i + 1] ELSE None]],
           ok |-> TRUE]

q_preallocate(q, size, mem) ==
  IF size > q.size THEN q_grow(q, size, mem) ELSE [q |-> q, ok |-> TRUE]

\* One slot always stays empty, or a full ring would look like an empty one.
q_addtail(q, t, mem) ==
  LET r == IF (q.nextwrite + 1) % q.size = q.nextread
           THEN q_grow(q, q.size + 1, mem) ELSE [q |-> q, ok |-> TRUE]
  IN IF ~r.ok THEN r
     ELSE [q |-> [r.q EXCEPT !.data[r.q.nextwrite] = t,
                             !.nextwrite = (@ + 1) % r.q.size],
           ok |-> TRUE]

q_remhead(q) ==
  [t |-> q.data[q.nextread],
   q |-> [q EXCEPT !.nextread = (@ + 1) % q.size]]

(***************************************************************************)
(* array.c.                                                                *)
(***************************************************************************)

array_create == [num |-> 0, max |-> 0, v |-> <<>>]

Items(a) == SubSeq(a.v, 1, a.num)

Enough(max, nguys) ==
  LET newmax[n \in Nat] == IF nguys > n THEN newmax[(n + 1) * 2] ELSE n IN newmax[max]

\* Always moves to new storage, even when the old is large enough.
array_preallocate(a, nguys, mem) ==
  LET newmax == Enough(a.max, nguys)
  IN IF ~mem THEN [a |-> a, ok |-> FALSE]
     ELSE [a |-> [a EXCEPT !.max = newmax,
                           !.v = [i \in 1 .. newmax |->
                                    IF i <= a.num THEN a.v[i] ELSE None]],
           ok |-> TRUE]

array_setsize(a, nguys, mem) ==
  LET r == IF nguys > a.max THEN array_preallocate(a, nguys, mem)
           ELSE IF nguys = 0 /\ a.max > KeepMax
           THEN [a |-> [a EXCEPT !.v = <<>>, !.max = 0], ok |-> TRUE]
           ELSE [a |-> a, ok |-> TRUE]
  IN IF r.ok THEN [r EXCEPT !.a.num = nguys] ELSE r

array_add(a, t, mem) ==
  LET r == array_setsize(a, a.num + 1, mem)
  IN IF r.ok THEN [r EXCEPT !.a.v[a.num + 1] = t] ELSE r

\* (Mutant: one element too few moves.)
array_remove_short(a, index) ==
  [a EXCEPT !.num = a.num - 1,
            !.v = [i \in DOMAIN a.v |->
                     IF i >= index /\ i + 1 < a.num THEN a.v[i + 1] ELSE a.v[i]]]

\* The elements behind index move down by one.
array_remove(a, index) ==
  [a EXCEPT !.num = a.num - 1,
            !.v = [i \in DOMAIN a.v |->
                     IF i >= index /\ i < a.num THEN a.v[i + 1] ELSE a.v[i]]]

(***************************************************************************)
(* bitmap.c.                                                               *)
(***************************************************************************)

Words(n) == (n + BitsPerWord - 1) \div BitsPerWord

\* (Mutant: the bits past the end are left clear.)
bitmap_create_clear(n) == [i \in 0 .. Words(n) * BitsPerWord - 1 |-> FALSE]

\* The bits of the last word past nbits count as in use.
bitmap_create(n) == [i \in 0 .. Words(n) * BitsPerWord - 1 |-> i >= n]

\* The first word with a clear bit, and its first clear bit.
bitmap_alloc(b) ==
  LET words == {ix \in 0 .. Words(NBits) - 1 :
                  \E k \in 0 .. BitsPerWord - 1 : ~b[ix * BitsPerWord + k]}
      ix == CHOOSE w \in words : \A x \in words : w <= x
      offset == CHOOSE k \in 0 .. BitsPerWord - 1 :
                  /\ ~b[ix * BitsPerWord + k]
                  /\ \A j \in 0 .. k - 1 : b[ix * BitsPerWord + j]
  IN IF words = {} THEN [ok |-> FALSE, b |-> b, index |-> 0]
     ELSE [ok |-> TRUE, index |-> ix * BitsPerWord + offset,
           b |-> [b EXCEPT ![ix * BitsPerWord + offset] = TRUE]]

bitmap_mark(b, index) == [b EXCEPT ![index] = TRUE]
bitmap_unmark(b, index) == [b EXCEPT ![index] = FALSE]

(***************************************************************************)
(* The thread system.                                                      *)
(***************************************************************************)

Placed == {cur} \cup Range(QueueItems(runqueue)) \cup Range(Items(sleepers))
                \cup Range(Items(zombies))

\* Room for one more thread everywhere, then the new thread is runnable.  The
\* n-th request for memory may fail.
thread_fork ==
  /\ cur # None
  /\ \E t \in Threads \ Placed, n \in 1 .. 5 :
       LET s == array_preallocate(sleepers, numthreads + 1, n # 1)
           z == array_preallocate(zombies, numthreads + 1, n # 2)
           q == q_preallocate(runqueue, numthreads + 1, n # 3)
           r == q_addtail(q.q, t, n # 4)
       IN /\ sleepers' = s.a
          /\ zombies' = IF s.ok THEN z.a ELSE zombies
          /\ runqueue' = IF s.ok /\ z.ok /\ q.ok THEN r.q ELSE runqueue
          /\ numthreads' = IF s.ok /\ z.ok /\ q.ok /\ r.ok
                           THEN numthreads + 1 ELSE numthreads
  /\ UNCHANGED <<cur, panicked>>

\* scheduler: the head of the queue, or the idle loop.
scheduler(q) ==
  IF q_empty(q) THEN cur' = None /\ runqueue' = q
  ELSE LET r == q_remhead(q) IN cur' = r.t /\ runqueue' = r.q

\* mi_switch(S_READY), (S_SLEEP) and (S_ZOMB); result is asserted to be 0.
mi_switch ==
  /\ cur # None
  /\ \E mem \in BOOLEAN :
       \/ LET r == q_addtail(runqueue, cur, mem)
          IN /\ panicked' = ~r.ok
             /\ IF r.ok THEN scheduler(r.q) ELSE UNCHANGED <<cur, runqueue>>
             /\ UNCHANGED <<sleepers, zombies, numthreads>>
       \/ LET r == array_add(sleepers, cur, mem)
          IN /\ panicked' = ~r.ok
             /\ sleepers' = r.a
             /\ IF r.ok THEN scheduler(runqueue) ELSE UNCHANGED <<cur, runqueue>>
             /\ UNCHANGED <<zombies, numthreads>>
       \/ LET r == array_add(zombies, cur, mem)
          IN /\ numthreads > 1
             /\ panicked' = ~r.ok
             /\ zombies' = r.a
             /\ numthreads' = IF r.ok THEN numthreads - 1 ELSE numthreads
             /\ IF r.ok THEN scheduler(runqueue) ELSE UNCHANGED <<cur, runqueue>>
             /\ UNCHANGED sleepers

\* The idle loop finds a thread an interrupt has made runnable.
Idle ==
  /\ cur = None /\ ~q_empty(runqueue)
  /\ scheduler(runqueue)
  /\ UNCHANGED <<sleepers, zombies, numthreads, panicked>>

\* The loop of thread_wakeup over the sleepers, of whom those in S are woken:
\* index i stays where it is after a removal.
Woken(S, mem) ==
  LET Look(r, k) ==
        LET t == r.s.v[r.i]
            added == q_addtail(r.q, t, mem)
        IN IF ~r.ok THEN r
           ELSE IF t \notin S THEN [r EXCEPT !.i = @ + 1]
           ELSE IF added.ok THEN [r EXCEPT !.s = array_remove(@, r.i), !.q = added.q]
           ELSE [r EXCEPT !.ok = FALSE]
  IN FoldLeft(Look, [i |-> 1, s |-> sleepers, q |-> runqueue, ok |-> TRUE],
              Items(sleepers))

thread_wakeup ==
  /\ \E S \in SUBSET Range(Items(sleepers)), mem \in BOOLEAN :
       LET r == Woken(S, mem)
       IN /\ S # {}
          /\ panicked' = ~r.ok
          /\ IF r.ok THEN sleepers' = r.s /\ runqueue' = r.q
                     ELSE UNCHANGED <<sleepers, runqueue>>
  /\ UNCHANGED <<cur, zombies, numthreads>>

\* The next thread to run destroys the zombies.
exorcise ==
  /\ cur # None /\ zombies.num > 0
  /\ zombies' = array_setsize(zombies, 0, TRUE).a
  /\ UNCHANGED <<cur, runqueue, sleepers, numthreads, panicked>>

Init ==
  /\ cur \in Threads
  /\ runqueue = q_create(QueueSize)
  /\ sleepers = array_create /\ zombies = array_create
  /\ numthreads = 1
  /\ panicked = FALSE

Next ==
  /\ ~panicked
  /\ \/ thread_fork \/ mi_switch \/ Idle \/ thread_wakeup \/ exorcise

Spec == Init /\ [][Next]_vars

(***************************************************************************)
(* The tests of kern/test, as far as they may be run on a container that   *)
(* is already in use: each says whether its assertions hold.               *)
(***************************************************************************)

\* testq: n additions to an empty queue come back in order.
testq(q, n) ==
  LET filled == FoldLeft(LAMBDA r, i : IF r.ok THEN q_addtail(r.q, i, TRUE) ELSE r,
                         [q |-> q, ok |-> TRUE], [i \in 1 .. n |-> i])
      drained == FoldLeft(LAMBDA r, i :
                            IF ~r.ok \/ q_empty(r.q) THEN [r EXCEPT !.ok = FALSE]
                            ELSE [q |-> q_remhead(r.q).q, ok |-> q_remhead(r.q).t = i],
                          filled, [i \in 1 .. n |-> i])
  IN filled.ok /\ drained.ok /\ q_empty(drained.q)

\* testa: n additions to an empty array, all of it overwritten in reverse, cut
\* to half, the second element removed, cut to two, stretched to ten times n.
testa(a, n) ==
  LET Size(b, k) == array_setsize(b, k, TRUE).a
      added == FoldLeft(LAMBDA r, i : IF r.ok THEN array_add(r.a, i, TRUE) ELSE r,
                        [a |-> a, ok |-> TRUE], [i \in 1 .. n |-> i]).a
      reversed == [added EXCEPT !.v = [i \in DOMAIN @ |-> IF i <= n THEN n - i ELSE @[i]]]
      half == Size(reversed, n \div 2)
      less == array_remove(half, 2)
      two == Size(less, 2)
      null == [two EXCEPT !.v[2] = None]
      long == Size(null, n * 10)
  IN /\ Items(added) = [i \in 1 .. n |-> i]
     /\ Items(half) = [i \in 1 .. n \div 2 |-> n - i]
     /\ Items(less) = [i \in 1 .. (n \div 2) - 1 |-> IF i = 1 THEN n - 1 ELSE n - i - 1]
     /\ Items(two) = <<n - 1, n - 3>>
     /\ long.num = n * 10 /\ long.v[1] = n - 1 /\ long.v[2] = None

\* arraytest: twice, with the array emptied in between.
arraytest(a, n) ==
  /\ testa(a, n)
  /\ testa(array_setsize(array_setsize(a, n, TRUE).a, 0, TRUE).a, n)

\* bitmaptest: the bits in data marked, then all of them turned over, then the
\* rest allocated: every number once, none past the end, each of them in data.
bitmaptest(data) ==
  LET all == 0 .. NBits - 1
      Marked(b, S) == [i \in DOMAIN b |-> IF i \in S THEN bitmap_mark(b, i)[i] ELSE b[i]]
      marked == Marked(bitmap_create(NBits), data)
      turned == [i \in DOMAIN marked |->
                   IF i \in data THEN bitmap_unmark(marked, i)[i]
                   ELSE IF i \in all THEN bitmap_mark(marked, i)[i] ELSE marked[i]]
      Alloc(r, k) ==
        IF ~r.ok THEN r
        ELSE LET a == bitmap_alloc(r.b)
             IN IF a.ok THEN [b |-> a.b, left |-> r.left \ {a.index},
                              ok |-> a.index \in r.left]
                ELSE r
      full == FoldLeft(Alloc, [b |-> turned, left |-> data, ok |-> TRUE],
                       [k \in 1 .. NBits |-> k])
  IN /\ \A i \in all : marked[i] <=> i \in data
     /\ \A i \in all : turned[i] <=> i \notin data
     /\ full.ok /\ full.left = {} /\ ~bitmap_alloc(full.b).ok
     /\ \A i \in all : full.b[i]

-----------------------------------------------------------------------------

L == INSTANCE ThreadLists WITH
       ready <- QueueItems(runqueue), sleeping <- Items(sleepers),
       dead <- Items(zombies)

\* The ring and the arrays implement a queue and two lists: no growth,
\* shrinking, wrap-around or removal in the middle loses, repeats or reorders
\* a thread.
ImplementsLists == L!Spec

\* queuetest, arraytest and bitmaptest pass on every container the kernel's use
\* of them can leave behind, wherever its ring starts and however large its
\* storage has become, and not only on a new one.
UnitTestsPass ==
  /\ q_empty(runqueue) => testq(runqueue, runqueue.size - 1) /\ testq(runqueue, 2 * runqueue.size + 1)
  /\ zombies.num = 0 => arraytest(zombies, 2 * KeepMax)
  /\ (numthreads = 1 /\ sleepers.max = 0) =>
       \A data \in SUBSET (0 .. NBits - 1) : bitmaptest(data)

\* Because thread_fork preallocates, moving one of the threads it has counted
\* to the run queue, the sleepers or the zombies does not fail (thread.c,
\* mi_switch and thread_wakeup).
PreallocationSuffices == panicked => numthreads = 1

=============================================================================
