------------------------------- MODULE Malloc --------------------------------
(***************************************************************************)
(* malloc and free of the user programs' C library (lib/libc/malloc.c): a  *)
(* first-fit heap whose blocks carry headers with the distances to the     *)
(* next and to the previous header.                                        *)
(*                                                                         *)
(* The unit of addresses and sizes is MBLOCKSIZE, the size of a header.    *)
(* malloc and free check the headers they walk over and end the program    *)
(* with a message when they do not agree; complaint says which check it    *)
(* was.  The program is one thread, so each call is one step.              *)
(***************************************************************************)
EXTENDS Naturals, FiniteSets

CONSTANTS
  HeapBase,   \* where the heap starts
  HeapLimit,  \* sbrk fails beyond this address
  Requests,   \* sizes of requests, in units, rounded up
  None

VARIABLES
  heaptop,    \* __heaptop
  header,     \* address -> [prev, next, inuse]
  live,       \* what the program holds: [addr, size] of the data
  complaint   \* the check that failed, or None

vars == <<heaptop, header, live, complaint>>

Size(h, i) == h[i].next - 1
Next1(h, i) == i + h[i].next

\* M_OK fails where there is no header.
M_OK(h, i) == i \in DOMAIN h

Put(h, i, prev, next, inuse) ==
  [a \in DOMAIN h \cup {i} |->
     IF a = i THEN [prev |-> prev, next |-> next, inuse |-> inuse] ELSE h[a]]

\* The header at j, if there is one, is now told of a block of n units below.
TellNext(h, j, top, n) == IF j = top THEN h ELSE [h EXCEPT ![j].prev = n]

\* (Mutant: the block above is not told of its new neighbour.)
__malloc_split_untold(h, i, size) ==
  LET old == Size(h, i)
  IN IF old - size < 2 THEN h
     ELSE Put([h EXCEPT ![i].next = size + 1], i + size + 1, size + 1, old - size, FALSE)

\* The rest of block i beyond size becomes a block, if it can hold a header
\* and a unit of data.
__malloc_split(h, i, size) ==
  LET old == Size(h, i)
      rest == i + size + 1
  IN IF old - size < 2 THEN h
     ELSE TellNext(Put([h EXCEPT ![i].next = size + 1], rest, size + 1, old - size, FALSE),
                   i + old + 1, heaptop, old - size)

\* The walk from the bottom: the first block that is free and large enough,
\* the top with the size of the block below it, or the header that is wrong.
Search(size) ==
  LET walk[i \in Nat, rightprev \in Nat] ==
        IF i >= heaptop
        THEN [at |-> i, prev |-> rightprev,
              bad |-> IF i = heaptop THEN None ELSE "ran off end"]
        ELSE IF ~M_OK(header, i) THEN [at |-> i, prev |-> 0, bad |-> "bad magic bits"]
        ELSE IF header[i].prev # rightprev
        THEN [at |-> i, prev |-> 0, bad |-> "bad previous-block size"]
        ELSE IF header[i].inuse \/ Size(header, i) < size
        THEN walk[Next1(header, i), header[i].next]
        ELSE [at |-> i, prev |-> rightprev, bad |-> None]
  IN walk[HeapBase, 0]

\* sbrk extends the heap at its top, or fails.
__malloc_sbrk(size) == IF heaptop + size <= HeapLimit THEN {TRUE, FALSE} ELSE {FALSE}

malloc ==
  \E size \in Requests :
    LET r == Search(size)
        Allocated(i) == live' = live \cup {[addr |-> i + 1, size |-> size]}
    IN /\ complaint' = r.bad
       /\ IF r.bad # None THEN UNCHANGED <<heaptop, header, live>>
          ELSE IF r.at < heaptop
          THEN /\ header' = [__malloc_split(header, r.at, size) EXCEPT ![r.at].inuse = TRUE]
               /\ Allocated(r.at) /\ UNCHANGED heaptop
          ELSE \E ok \in __malloc_sbrk(size + 1) :
                 IF ok THEN /\ heaptop' = heaptop + size + 1
                            /\ header' = Put(header, r.at, r.prev, size + 1, TRUE)
                            /\ Allocated(r.at)
                       ELSE UNCHANGED <<heaptop, header, live>>

\* Two neighbours that are both free become one; the upper header is wiped.
__malloc_trymerge(h, i, j) ==
  IF h[i].inuse \/ h[j].inuse THEN h
  ELSE LET n == h[i].next + h[j].next
           merged == [h EXCEPT ![i].next = n]
           rest == [a \in DOMAIN h \ {j} |-> merged[a]]
       IN TellNext(rest, j + h[j].next, heaptop, n)

\* The distances that __malloc_trymerge compares.
Neighbours(i) ==
  LET up == Next1(header, i)
      down == i - header[i].prev
  IN /\ up # heaptop => M_OK(header, up) /\ header[up].prev = header[i].next
     /\ i # HeapBase => M_OK(header, down) /\ header[down].next = header[i].prev

free ==
  \E b \in live :
    LET i == b.addr - 1
        h0 == [header EXCEPT ![i].inuse = FALSE]
        up == Next1(h0, i)
        h1 == IF up # heaptop THEN __malloc_trymerge(h0, i, up) ELSE h0
        down == i - h1[i].prev
        h2 == IF i # HeapBase THEN __malloc_trymerge(h1, down, i) ELSE h1
        bad == CASE b.addr >= heaptop -> "out of range"
                 [] b.addr < heaptop /\ ~M_OK(header, i) -> "corrupt header"
                 [] b.addr < heaptop /\ M_OK(header, i) /\ ~header[i].inuse -> "already free"
                 [] OTHER -> IF Neighbours(i) THEN None ELSE "inconsistent"
    IN /\ complaint' = bad
       /\ IF bad # None THEN UNCHANGED <<header, live>>
          ELSE header' = h2 /\ live' = live \ {b}
       /\ UNCHANGED heaptop

\* __malloc_init at the first call finds the base of an empty heap.
Init == /\ heaptop = HeapBase
        /\ header = [a \in {} |-> None]
        /\ live = {} /\ complaint = None

Next == complaint = None /\ (malloc \/ free)

Spec == Init /\ [][Next]_vars

-----------------------------------------------------------------------------

Extent(b) == b.addr .. b.addr + b.size - 1

\* What the program holds is disjoint, inside the heap and clear of every
\* header; headers and blocks tile the heap and agree on their distances; two
\* free blocks are never neighbours.  No check of malloc and free ever fails,
\* save that a block of size 0 at the top of the heap is taken to be out of
\* range when it is freed.
MallocSound ==
  /\ complaint \in {None, "out of range"}
  /\ complaint = "out of range" => [addr |-> heaptop, size |-> 0] \in live
  /\ \A b \in live : /\ Extent(b) \subseteq HeapBase .. heaptop - 1
                     /\ Extent(b) \cap DOMAIN header = {}
                     /\ M_OK(header, b.addr - 1) /\ header[b.addr - 1].inuse
                     /\ \A c \in live \ {b} : Extent(b) \cap Extent(c) = {}
  /\ \A i \in DOMAIN header :
       LET j == Next1(header, i)
       IN /\ j # heaptop =>
               /\ M_OK(header, j) /\ header[j].prev = header[i].next
               /\ header[i].inuse \/ header[j].inuse
          /\ \A a \in DOMAIN header : a <= i \/ a >= j

=============================================================================
