-------------------------- MODULE AddrSpaceProofs --------------------------
(***************************************************************************)
(* AddrSpace keeps the TLB in step with the running program and the memory *)
(* of programs apart, for any threads, programs, sizes and addresses.      *)
(*                                                                         *)
(* IInv is inductive.  Beyond the two properties it says where frames come *)
(* from: the frames of a program are one row below firstpaddr that no      *)
(* other program's row and no page of the kernel meets, because            *)
(* ram_stealmem never hands out a frame twice; which stages of a thread    *)
(* have an address space; and that a fault being handled is one the TLB    *)
(* still does not answer.                                                  *)
(***************************************************************************)
EXTENDS AddrSpace, TLAPS

\* What a thread may be doing, and the words of RAM.
Stages == [at : {"none", "new", "define", "load", "user", "copy", "dead"},
           image : Images \cup {<<>>}, seg : Nat, off : Nat]
Words == 0 .. NFrames * PageSize - 1

TypeInv ==
  /\ cur \in Threads \cup {None}
  /\ stage \in [Threads -> Stages]
  /\ fault \in [Threads -> Nat \cup {None}]
  /\ space \in [Threads -> Spaces \cup {None}]
  /\ tlb \in [Slots -> Entries \cup {None}]
  /\ firstpaddr \in Nat /\ firstpaddr >= 1 /\ firstpaddr <= NFrames
  /\ kernelpages \in SUBSET Nat /\ \A k \in kernelpages : k < firstpaddr
  /\ mem = [w \in Words |-> mem[w]]
  /\ expect = [t \in Threads |-> expect[t]]
  /\ \A t \in Threads : DOMAIN expect[t] \in SUBSET Nat

\* A thread has an address space from runprogram or fork to its exit, and only
\* a program that is loaded, or being loaded, refers to it.
Ready(t) == stage[t].at \in {"load", "user", "copy"}
StageTrue(t) ==
  /\ space[t] # None <=> Ready(t) \/ stage[t].at = "define"
  /\ fault[t] # None => Ready(t)
  /\ ~Ready(t) => DOMAIN expect[t] = {}
  /\ stage[t].at \in {"define", "load"} => stage[t].image \in Images
  /\ stage[t].at = "define" => stage[t].seg >= 1
  /\ stage[t].at = "load" => stage[t].seg \in 1 .. Len(stage[t].image)

\* The frames of a program are one row, its regions one after the other; no
\* two rows meet, and the kernel has no page in one.
End(as) == as.stackpbase + StackPages
Prepared(as) ==
  /\ as.pbase1 >= 1 /\ as.pbase2 = as.pbase1 + as.npages1
  /\ as.stackpbase = as.pbase2 + as.npages2
RowTrue(t) ==
  Ready(t) =>
    /\ Prepared(space[t]) /\ End(space[t]) <= firstpaddr
    /\ \A k \in kernelpages : k < space[t].pbase1 \/ k >= End(space[t])
Apart(t, u) ==
  Ready(t) /\ Ready(u) =>
    End(space[t]) <= space[u].pbase1 \/ End(space[u]) <= space[t].pbase1

\* The TLB has translations of the running program only, none of them twice,
\* none while its regions are still being defined, and none of the page whose
\* fault is being handled.
TlbTrue ==
  cur \in Threads /\ space[cur] # None =>
    /\ \A i \in Slots : tlb[i] # None =>
         /\ Translate(space[cur], tlb[i].v) = tlb[i].p /\ tlb[i].p # 0
         /\ \A j \in Slots \ {i} : tlb[j] # None => tlb[j].v # tlb[i].v
    /\ stage[cur].at = "define" => \A i \in Slots : tlb[i] = None
    /\ fault[cur] # None => ~Hit(fault[cur])

\* The words of a program are what it expects.
Address(as, v) == Translate(as, Page(v)) * PageSize + (v % PageSize)
WordsTrue(t) ==
  \A v \in DOMAIN expect[t] :
    Translate(space[t], Page(v)) # 0 /\ mem[Address(space[t], v)] = expect[t][v]

IInv ==
  /\ TypeInv /\ TlbTrue
  /\ \A t \in Threads : StageTrue(t) /\ RowTrue(t) /\ WordsTrue(t)
  /\ \A t, u \in Threads : t # u => Apart(t, u)

-----------------------------------------------------------------------------
\* Pages and the words in them.
LEMMA Paging ==
  /\ \A v \in Nat : Page(v) \in Nat /\ v % PageSize \in Nat /\ v % PageSize < PageSize
  /\ \A v \in Nat : v = Page(v) * PageSize + (v % PageSize)
  /\ \A f, o \in Nat : o < PageSize => Page(f * PageSize + o) = f
  /\ \A f, g, o, q \in Nat :
       o < PageSize /\ q < PageSize /\ f * PageSize + o = g * PageSize + q => f = g /\ o = q
  /\ \A f, o \in Nat : o < PageSize /\ f < NFrames => f * PageSize + o \in Words
<1>1. \A v \in Nat : v \div PageSize \in Nat /\ v % PageSize \in Nat /\ v % PageSize < PageSize
  BY AddrSpaceAssumption
<1>2. \A v \in Nat : v = (v \div PageSize) * PageSize + (v % PageSize)
  BY AddrSpaceAssumption
<1>3. \A f, o \in Nat : o < PageSize => (f * PageSize + o) \div PageSize = f
  BY AddrSpaceAssumption
<1>4. \A f, g, o, q \in Nat :
        o < PageSize /\ q < PageSize /\ f * PageSize + o = g * PageSize + q => f = g /\ o = q
  BY AddrSpaceAssumption
<1>5. \A f, g, o \in Nat : o < PageSize /\ f < g => f * PageSize + o < g * PageSize
  BY AddrSpaceAssumption
<1>6. \A f, o \in Nat : f * PageSize + o \in Nat
  BY AddrSpaceAssumption
<1>7. \A f, o \in Nat : o < PageSize /\ f < NFrames => f * PageSize + o \in Words
  BY <1>5, <1>6, AddrSpaceAssumption DEF Words
<1>8. QED
  BY <1>1, <1>2, <1>3, <1>4, <1>7 DEF Page

\* What vm_fault finds for a page is a frame of the program's row, and no two
\* pages have the same.
LEMMA Translates ==
  ASSUME NEW a \in Spaces, NEW p \in Nat
  PROVE  /\ Translate(a, p) \in Nat
         /\ Prepared(a) /\ Translate(a, p) # 0 =>
              Translate(a, p) >= a.pbase1 /\ Translate(a, p) < End(a)
         /\ Prepared(a) => \A q \in Nat :
              Translate(a, p) = Translate(a, q) /\ Translate(a, p) # 0 => p = q
<1>1. /\ a.vbase1 \in Nat /\ a.npages1 \in Nat /\ a.pbase1 \in Nat
      /\ a.vbase2 \in Nat /\ a.npages2 \in Nat /\ a.pbase2 \in Nat
      /\ a.stackpbase \in Nat /\ StackPages \in Nat /\ UserStack \in Nat
  BY AddrSpaceAssumption DEF Spaces
<1>2. Translate(a, p) \in Nat
  BY <1>1 DEF Translate
<1>3. ASSUME Prepared(a), NEW x \in Nat, Translate(a, x) # 0
      PROVE  LET f == Translate(a, x)
             IN \/ f = a.pbase1 + (x - a.vbase1) /\ f >= a.pbase1 /\ f < a.pbase2
                \/ f = a.pbase2 + (x - a.vbase2) /\ f >= a.pbase2 /\ f < a.stackpbase
                \/ /\ f = a.stackpbase + (x - (UserStack - StackPages))
                   /\ f >= a.stackpbase /\ f < End(a)
  <2>1. CASE x >= a.vbase1 /\ x < a.vbase1 + a.npages1
    BY <1>1, <1>3, <2>1 DEF Translate, Prepared
  <2>2. CASE /\ ~(x >= a.vbase1 /\ x < a.vbase1 + a.npages1)
             /\ x >= a.vbase2 /\ x < a.vbase2 + a.npages2
    BY <1>1, <1>3, <2>2 DEF Translate, Prepared
  <2>3. CASE /\ ~(x >= a.vbase1 /\ x < a.vbase1 + a.npages1)
             /\ ~(x >= a.vbase2 /\ x < a.vbase2 + a.npages2)
    BY <1>1, <1>3, <2>3 DEF Translate, Prepared, End
  <2>4. QED
    BY Zenon, <2>1, <2>2, <2>3
<1>4. ASSUME Prepared(a)
      PROVE  a.pbase1 <= a.pbase2 /\ a.pbase2 <= a.stackpbase /\ a.stackpbase <= End(a)
             /\ End(a) \in Nat
  BY <1>1, <1>4 DEF Prepared, End
<1>5. ASSUME Prepared(a), Translate(a, p) # 0
      PROVE  Translate(a, p) >= a.pbase1 /\ Translate(a, p) < End(a)
  BY <1>1, <1>2, <1>3, <1>4, <1>5
<1>6. ASSUME Prepared(a), NEW q \in Nat, Translate(a, p) = Translate(a, q),
             Translate(a, p) # 0
      PROVE  p = q
  BY <1>1, <1>2, <1>3, <1>4, <1>6
<1>7. QED
  BY Zenon, <1>2, <1>5, <1>6

\* ram_stealmem hands out pages in order.
LEMMA Steals ==
  ASSUME NEW first \in Nat, first >= 1, first <= NFrames, NEW n \in Nat
  PROVE  LET r == ram_stealmem(first, n)
         IN /\ r.next \in Nat /\ r.next >= first /\ r.next <= NFrames
            /\ r.addr # 0 => r.addr = first /\ r.next = first + n
  BY AddrSpaceAssumption DEF ram_stealmem

\* as_prepare_load gives a space a row of frames that nobody has had.
LEMMA Prepares ==
  ASSUME NEW a \in Spaces, NEW first \in Nat, first >= 1, first <= NFrames
  PROVE  LET r == as_prepare_load(a, first)
         IN /\ r.next \in Nat /\ r.next >= first /\ r.next <= NFrames
            /\ r.err = "OK" =>
                 /\ r.as \in Spaces /\ Prepared(r.as)
                 /\ r.as.pbase1 = first /\ End(r.as) = r.next
                 /\ r.as.vbase1 = a.vbase1 /\ r.as.npages1 = a.npages1
                 /\ r.as.vbase2 = a.vbase2 /\ r.as.npages2 = a.npages2
<1> DEFINE r1 == ram_stealmem(first, a.npages1)
           r2 == ram_stealmem(r1.next, a.npages2)
           r3 == ram_stealmem(r2.next, StackPages)
           As(p1, p2, p3) == [a EXCEPT !.pbase1 = p1, !.pbase2 = p2, !.stackpbase = p3]
           r == as_prepare_load(a, first)
<1>1. /\ a.npages1 \in Nat /\ a.npages2 \in Nat /\ StackPages \in Nat
      /\ NFrames \in Nat
  BY Zenon, AddrSpaceAssumption DEF Spaces
<1>2. /\ r1.next \in Nat /\ r1.next >= first /\ r1.next <= NFrames
      /\ r1.addr # 0 => r1.addr = first /\ r1.next = first + a.npages1
  BY <1>1, Steals
<1>3. r1.next >= 1
  BY <1>1, <1>2
<1>4. /\ r2.next \in Nat /\ r2.next >= r1.next /\ r2.next <= NFrames
      /\ r2.addr # 0 => r2.addr = r1.next /\ r2.next = r1.next + a.npages2
  BY <1>1, <1>2, <1>3, Steals
<1>5. r2.next >= 1
  BY <1>1, <1>2, <1>3, <1>4
<1>6. /\ r3.next \in Nat /\ r3.next >= r2.next /\ r3.next <= NFrames
      /\ r3.addr # 0 => r3.addr = r2.next /\ r3.next = r2.next + StackPages
  BY <1>1, <1>4, <1>5, Steals
<1>7. r = IF r1.addr = 0 THEN [as |-> As(0, 0, 0), next |-> first, err |-> "ENOMEM"]
          ELSE IF r2.addr = 0 THEN [as |-> As(r1.addr, 0, 0), next |-> r1.next, err |-> "ENOMEM"]
          ELSE IF r3.addr = 0
          THEN [as |-> As(r1.addr, r2.addr, 0), next |-> r2.next, err |-> "ENOMEM"]
          ELSE [as |-> As(r1.addr, r2.addr, r3.addr), next |-> r3.next, err |-> "OK"]
  BY DEF as_prepare_load
<1> HIDE DEF r1, r2, r3, r
<1>8. r.next \in Nat /\ r.next >= first /\ r.next <= NFrames
  BY <1>1, <1>2, <1>4, <1>6, <1>7
<1>9. ASSUME r.err = "OK"
      PROVE  /\ r.as = As(first, first + a.npages1, first + a.npages1 + a.npages2)
             /\ r.next = first + a.npages1 + a.npages2 + StackPages
  BY <1>1, <1>2, <1>4, <1>6, <1>7, <1>9, Zenon
<1>10. ASSUME r.err = "OK"
       PROVE  /\ r.as \in Spaces
              /\ r.as.pbase1 = first /\ r.as.pbase2 = first + a.npages1
              /\ r.as.stackpbase = first + a.npages1 + a.npages2
              /\ r.as.vbase1 = a.vbase1 /\ r.as.npages1 = a.npages1
              /\ r.as.vbase2 = a.vbase2 /\ r.as.npages2 = a.npages2
  <2>1. first \in Nat /\ first + a.npages1 \in Nat /\ first + a.npages1 + a.npages2 \in Nat
    BY <1>1
  <2>2. QED
    BY <1>9, <1>10, <2>1, Zenon DEF Spaces
<1>11. ASSUME r.err = "OK" PROVE Prepared(r.as) /\ End(r.as) = r.next
  BY <1>1, <1>9, <1>10, <1>11 DEF Prepared, End
<1>12. QED
  BY Zenon, <1>8, <1>10, <1>11 DEF r

\* What a step of thread t may change: the stage, fault, space and history of t,
\* frames that nobody has yet, and the words of t's own row.
Local(t) ==
  /\ firstpaddr' \in Nat /\ firstpaddr' >= firstpaddr /\ firstpaddr' <= NFrames
  /\ kernelpages' \in SUBSET Nat
  /\ \A k \in kernelpages' : k \in kernelpages \/ (k >= firstpaddr /\ k < firstpaddr')
  /\ \A w \in Words :
       \/ mem'[w] = mem[w] \/ Page(w) >= firstpaddr
       \/ Ready(t) /\ Page(w) >= space[t].pbase1 /\ Page(w) < End(space[t])
  /\ \A u \in Threads : u # t =>
       /\ stage'[u] = stage[u] /\ fault'[u] = fault[u]
       /\ space'[u] = space[u] /\ expect'[u] = expect[u]

\* The row of a program is a row of numbers.
LEMMA Rows ==
  ASSUME IInv, NEW t \in Threads, Ready(t)
  PROVE  /\ space[t] \in Spaces /\ Prepared(space[t])
         /\ space[t].pbase1 \in Nat /\ space[t].pbase1 >= 1
         /\ End(space[t]) \in Nat /\ End(space[t]) <= firstpaddr
         /\ space[t].pbase1 <= End(space[t])
<1>1. space[t] \in Spaces
  BY DEF IInv, TypeInv, StageTrue
<1>2. Prepared(space[t]) /\ End(space[t]) <= firstpaddr
  BY DEF IInv, RowTrue
<1>3. /\ space[t].npages1 \in Nat /\ space[t].pbase1 \in Nat /\ space[t].npages2 \in Nat
      /\ space[t].pbase2 \in Nat /\ space[t].stackpbase \in Nat /\ StackPages \in Nat
  BY Zenon, <1>1, AddrSpaceAssumption DEF Spaces
<1>4. QED
  BY <1>1, <1>2, <1>3 DEF Prepared, End

\* Where a program's address leads: a word of its row.
LEMMA Addresses ==
  ASSUME IInv, NEW t \in Threads, Ready(t), NEW v \in Nat,
         Translate(space[t], Page(v)) # 0
  PROVE  LET f == Translate(space[t], Page(v))
             w == Address(space[t], v)
         IN /\ f \in Nat /\ f >= space[t].pbase1 /\ f < End(space[t]) /\ f < firstpaddr
            /\ w \in Words /\ Page(w) = f
<1> DEFINE f == Translate(space[t], Page(v))
<1>1. /\ space[t] \in Spaces /\ Prepared(space[t]) /\ End(space[t]) <= firstpaddr
      /\ End(space[t]) \in Nat
  BY Zenon, Rows
<1>2. Page(v) \in Nat /\ v % PageSize \in Nat /\ v % PageSize < PageSize
  BY Zenon, Paging, AddrSpaceAssumption
<1>3. f \in Nat /\ f >= space[t].pbase1 /\ f < End(space[t])
  BY Zenon, <1>1, <1>2, Translates
<1>4. firstpaddr \in Nat /\ firstpaddr <= NFrames /\ NFrames \in Nat
  BY Zenon, AddrSpaceAssumption DEF IInv, TypeInv
<1> HIDE DEF f
<1>5. f < firstpaddr /\ f < NFrames
  BY <1>1, <1>3, <1>4
<1>6. f * PageSize + (v % PageSize) \in Words /\ Page(f * PageSize + (v % PageSize)) = f
  BY Zenon, <1>2, <1>3, <1>5, Paging
<1>7. QED
  BY <1>3, <1>5, <1>6 DEF f, Address

\* A step of t leaves every other program as it was.
LEMMA Others ==
  ASSUME IInv, NEW t \in Threads, Local(t), NEW u \in Threads, u # t
  PROVE  /\ StageTrue(u)' /\ RowTrue(u)' /\ WordsTrue(u)' /\ (Ready(u)' <=> Ready(u))
         /\ \A x \in Threads : x # t /\ x # u => Apart(u, x)'
<1>1. /\ stage'[u] = stage[u] /\ fault'[u] = fault[u]
      /\ space'[u] = space[u] /\ expect'[u] = expect[u]
  BY Zenon DEF Local
<1>2. Ready(u)' <=> Ready(u)
  BY Zenon, <1>1 DEF Ready
<1>3. StageTrue(u)'
  BY Zenon, <1>1, <1>2 DEF StageTrue, IInv
<1>4. RowTrue(u)'
  <2>1. SUFFICES ASSUME Ready(u)
                 PROVE  /\ Prepared(space[u]) /\ End(space[u]) <= firstpaddr'
                        /\ \A k \in kernelpages' : k < space[u].pbase1 \/ k >= End(space[u])
    BY Zenon, <1>1, <1>2 DEF RowTrue
  <2>2. /\ Prepared(space[u]) /\ End(space[u]) <= firstpaddr
        /\ \A k \in kernelpages : k < space[u].pbase1 \/ k >= End(space[u])
    BY Zenon, <2>1 DEF IInv, RowTrue
  <2>3. End(space[u]) \in Nat /\ firstpaddr \in Nat /\ firstpaddr' \in Nat
        /\ firstpaddr <= firstpaddr' /\ kernelpages' \in SUBSET Nat
    BY Zenon, <2>1, Rows DEF IInv, TypeInv, Local
  <2>4. End(space[u]) <= firstpaddr'
    BY <2>2, <2>3
  <2>5. ASSUME NEW k \in kernelpages' PROVE k < space[u].pbase1 \/ k >= End(space[u])
    <3>1. k \in Nat /\ (k \in kernelpages \/ k >= firstpaddr)
      BY <2>5, Zenon DEF Local
    <3>2. QED
      BY <2>2, <2>3, <3>1
  <2>6. QED
    BY Zenon, <2>2, <2>4, <2>5
<1>5. WordsTrue(u)'
  <2>1. SUFFICES ASSUME NEW v \in DOMAIN expect[u]
                 PROVE  /\ Translate(space[u], Page(v)) # 0
                        /\ mem'[Address(space[u], v)] = expect[u][v]
    BY Zenon, <1>1 DEF WordsTrue
  <2>2. Ready(u) /\ v \in Nat
    BY Zenon, <2>1 DEF IInv, StageTrue, TypeInv
  <2>3. Translate(space[u], Page(v)) # 0 /\ mem[Address(space[u], v)] = expect[u][v]
    BY Zenon, <2>1 DEF IInv, WordsTrue
  <2>4. PICK w \in Words : w = Address(space[u], v)
    BY Zenon, <2>2, <2>3, Addresses
  <2>5. /\ Page(w) \in Nat /\ Page(w) >= space[u].pbase1 /\ Page(w) < End(space[u])
        /\ Page(w) < firstpaddr
    BY <2>2, <2>3, <2>4, Addresses
  <2>6. firstpaddr \in Nat /\ End(space[u]) \in Nat /\ space[u].pbase1 \in Nat
    BY Zenon, <2>2, Rows DEF IInv, TypeInv
  <2>7. ~(Ready(t) /\ Page(w) >= space[t].pbase1 /\ Page(w) < End(space[t]))
    <3>1. SUFFICES ASSUME Ready(t) PROVE ~(Page(w) >= space[t].pbase1 /\ Page(w) < End(space[t]))
      BY Zenon
    <3>2. End(space[t]) \in Nat /\ space[t].pbase1 \in Nat
      BY Zenon, <3>1, Rows
    <3>3. End(space[t]) <= space[u].pbase1 \/ End(space[u]) <= space[t].pbase1
      BY Zenon, <2>2, <3>1 DEF IInv, Apart
    <3>4. QED
      BY <2>5, <2>6, <3>2, <3>3
  <2>8. ~(Page(w) >= firstpaddr)
    BY <2>5, <2>6
  <2>9. mem'[w] = mem[w]
    BY Zenon, <2>7, <2>8 DEF Local
  <2>10. QED
    BY Zenon, <2>3, <2>4, <2>9
<1>6. ASSUME NEW x \in Threads, x # t, x # u PROVE Apart(u, x)'
  <2>1. space'[x] = space[x] /\ stage'[x] = stage[x]
    BY <1>6 DEF Local
  <2>2. Apart(u, x)
    BY Zenon, <1>6 DEF IInv
  <2>3. QED
    BY Zenon, <1>1, <2>1, <2>2 DEF Apart, Ready
<1>7. QED
  BY Zenon, <1>2, <1>3, <1>4, <1>5, <1>6

\* So what is left to show of a step of t is about t itself, ...
LEMMA Mine ==
  ASSUME IInv, NEW t \in Threads, Local(t), TypeInv', TlbTrue',
         StageTrue(t)', RowTrue(t)', WordsTrue(t)',
         \A u \in Threads : u # t => Apart(t, u)'
  PROVE  IInv'
<1>1. \A u \in Threads : StageTrue(u)' /\ RowTrue(u)' /\ WordsTrue(u)'
  BY Zenon, Others
<1>2. ASSUME NEW u \in Threads, NEW x \in Threads, u # x PROVE Apart(u, x)'
  <2>1. CASE u # t /\ x # t
    BY Zenon, <1>2, <2>1, Others
  <2>2. CASE u = t
    BY Zenon, <1>2, <2>2
  <2>3. CASE x = t
    <3>1. Apart(t, u)'
      BY Zenon, <1>2, <2>3
    <3>2. QED
      BY Zenon, <2>3, <3>1 DEF Apart
  <2>4. QED
    BY Zenon, <2>1, <2>2, <2>3
<1>3. QED
  BY Zenon, <1>1, <1>2 DEF IInv

\* ... and if t has no frames afterwards, about its stage only.
LEMMA Idle ==
  ASSUME IInv, NEW t \in Threads, Local(t), TypeInv', TlbTrue', StageTrue(t)', ~Ready(t)'
  PROVE  IInv'
<1>1. RowTrue(t)' /\ \A u \in Threads : Apart(t, u)'
  BY Zenon DEF RowTrue, Apart
<1>2. WordsTrue(t)'
  BY Zenon DEF WordsTrue, StageTrue
<1>3. QED
  BY Zenon, <1>1, <1>2, Mine
-----------------------------------------------------------------------------
\* Frames are only handed out, and only words of new frames change.
Grows ==
  /\ firstpaddr' \in Nat /\ firstpaddr' >= firstpaddr /\ firstpaddr' <= NFrames
  /\ kernelpages' \in SUBSET Nat
  /\ \A k \in kernelpages' : k \in kernelpages \/ (k >= firstpaddr /\ k < firstpaddr')
  /\ mem' = [w \in Words |-> mem'[w]]
  /\ \A w \in Words : mem'[w] = mem[w] \/ Page(w) >= firstpaddr

\* A step that touches no frame, and a kmalloc, only hand frames out.
LEMMA Still ==
  ASSUME IInv, UNCHANGED <<firstpaddr, kernelpages, mem>>
  PROVE  Grows
  BY DEF IInv, TypeInv, Grows

\* What kmalloc gives the kernel are frames nobody has had, and the kernel
\* writes only there.
LEMMA Kmallocs ==
  ASSUME IInv, NEW r \in Kmalloc
  PROVE  /\ r.next \in Nat /\ r.next >= firstpaddr /\ r.next <= NFrames
         /\ \A k \in r.pages : k \in Nat /\ k >= firstpaddr /\ k < r.next
         /\ KernelWrites(mem, r.pages) = [w \in Words |-> KernelWrites(mem, r.pages)[w]]
         /\ \A w \in Words :
              KernelWrites(mem, r.pages)[w] = mem[w] \/ Page(w) >= firstpaddr
<1>1. /\ firstpaddr \in Nat /\ firstpaddr >= 1 /\ firstpaddr <= NFrames
      /\ mem = [w \in Words |-> mem[w]] /\ NFrames \in Nat
  BY Zenon, AddrSpaceAssumption DEF IInv, TypeInv
<1>2. /\ r.next \in Nat /\ r.next >= firstpaddr /\ r.next <= NFrames
      /\ \A k \in r.pages : k \in Nat /\ k >= firstpaddr /\ k < r.next
  BY <1>1 DEF Kmalloc, ram_stealmem
<1>3. DOMAIN mem = Words
  BY Zenon, <1>1
<1>4. KernelWrites(mem, r.pages) =
        [w \in Words |-> IF Page(w) \in r.pages THEN KernelData ELSE mem[w]]
  BY Zenon, <1>3 DEF KernelWrites
<1>5. QED
  BY Zenon, <1>2, <1>4

\* A step that calls kmalloc hands frames out and writes to no others.
LEMMA KmallocGrows ==
  ASSUME IInv, NEW r \in Kmalloc, firstpaddr' = r.next,
         kernelpages' = kernelpages \cup r.pages, mem' = KernelWrites(mem, r.pages)
  PROVE  Grows
<1>1. kernelpages \in SUBSET Nat
  BY Zenon DEF IInv, TypeInv
<1>2. QED
  BY Zenon, <1>1, Kmallocs DEF Grows

\* The type invariant after such a step.
LEMMA Typed ==
  ASSUME IInv, Grows, cur' \in Threads \cup {None}, stage' \in [Threads -> Stages],
         fault' \in [Threads -> Nat \cup {None}],
         space' \in [Threads -> Spaces \cup {None}],
         tlb' \in [Slots -> Entries \cup {None}],
         expect' = [t \in Threads |-> expect'[t]],
         \A t \in Threads : DOMAIN expect'[t] \in SUBSET Nat
  PROVE  TypeInv'
<1>1. /\ firstpaddr \in Nat /\ firstpaddr >= 1
      /\ kernelpages \in SUBSET Nat /\ \A k \in kernelpages : k < firstpaddr
  BY Zenon DEF IInv, TypeInv
<1>2. firstpaddr' \in Nat /\ firstpaddr' >= 1 /\ firstpaddr' <= NFrames
  BY <1>1 DEF Grows
<1>3. kernelpages' \in SUBSET Nat /\ \A k \in kernelpages' : k < firstpaddr'
  BY <1>1 DEF Grows
<1>4. mem' = [w \in Words |-> mem'[w]]
  BY Zenon DEF Grows
<1>5. QED
  BY Zenon, <1>2, <1>3, <1>4 DEF TypeInv

\* A step that only hands frames out and changes no thread but t is local to t.
LEMMA Locally ==
  ASSUME Grows, NEW t \in Threads,
         \A u \in Threads : u # t =>
           /\ stage'[u] = stage[u] /\ fault'[u] = fault[u]
           /\ space'[u] = space[u] /\ expect'[u] = expect[u]
  PROVE  Local(t)
  BY Zenon DEF Grows, Local

\* An empty TLB and an empty address space are of their types.
LEMMA Stays == as_activate \in [Slots -> Entries \cup {None}] /\ as_create \in Spaces
  BY Zenon DEF as_activate, as_create, Spaces

\* thread_exit leaves a thread without memory or history.
LEMMA Exits ==
  ASSUME IInv, NEW t \in Threads, cur = t, cur' = cur, thread_exit(t), Grows,
         tlb' \in [Slots -> Entries \cup {None}]
  PROVE  IInv'
<1>1. /\ cur \in Threads /\ stage \in [Threads -> Stages]
      /\ fault \in [Threads -> Nat \cup {None}] /\ space \in [Threads -> Spaces \cup {None}]
      /\ expect = [u \in Threads |-> expect[u]]
      /\ \A u \in Threads : DOMAIN expect[u] \in SUBSET Nat
  BY Zenon DEF IInv, TypeInv
<1>2. At("dead") \in Stages
  BY Zenon DEF At, Stages
<1>3. stage' \in [Threads -> Stages] /\ stage'[t] = At("dead")
      /\ \A u \in Threads : u # t => stage'[u] = stage[u]
  BY Zenon, <1>1, <1>2 DEF thread_exit
<1>4. /\ fault' \in [Threads -> Nat \cup {None}] /\ fault'[t] = None
      /\ space' \in [Threads -> Spaces \cup {None}] /\ space'[t] = None
      /\ \A u \in Threads : u # t => fault'[u] = fault[u] /\ space'[u] = space[u]
  BY Zenon, <1>1 DEF thread_exit
<1>5. /\ expect' = [u \in Threads |-> expect'[u]] /\ expect'[t] = <<>>
      /\ \A u \in Threads : u # t => expect'[u] = expect[u]
  BY Zenon, <1>1 DEF thread_exit
<1>6. DOMAIN expect'[t] = {}
  BY <1>5
<1>7. TypeInv'
  BY <1>1, <1>3, <1>4, <1>5, <1>6, Typed
<1>8. Local(t)
  BY <1>3, <1>4, <1>5, Locally
<1>9. stage'[t].at = "dead"
  BY <1>3 DEF At
<1>10. StageTrue(t)' /\ ~Ready(t)'
  BY Zenon, <1>4, <1>6, <1>9 DEF StageTrue, Ready
<1>11. TlbTrue'
  BY Zenon, <1>4 DEF TlbTrue
<1>12. QED
  BY Zenon, <1>7, <1>8, <1>10, <1>11, Idle

\* A switch to t flushes the TLB, unless t has no address space.
LEMMA Switch == ASSUME IInv, NEW t \in Threads, mi_switch(t) PROVE IInv'
<1>1. /\ cur' = t /\ tlb' = (IF space[t] # None THEN as_activate ELSE tlb)
      /\ UNCHANGED <<stage, fault, space, firstpaddr, kernelpages, mem, expect>>
  BY Zenon DEF mi_switch
<1>2. tlb' \in [Slots -> Entries \cup {None}]
  BY Zenon, <1>1, Stays DEF IInv, TypeInv
<1>3. TypeInv'
  BY Zenon, <1>1, <1>2 DEF IInv, TypeInv
<1>4. TlbTrue'
  <2>1. SUFFICES ASSUME space[t] # None PROVE TlbTrue'
    BY Zenon, <1>1 DEF TlbTrue
  <2>2. \A i \in Slots : tlb'[i] = None
    BY Zenon, <1>1, <2>1 DEF as_activate
  <2>3. QED
    BY Zenon, <2>2 DEF TlbTrue, Hit
<1>5. \A u \in Threads : StageTrue(u)' /\ RowTrue(u)' /\ WordsTrue(u)'
  BY <1>1 DEF IInv, StageTrue, RowTrue, WordsTrue, Ready
<1>6. \A u, x \in Threads : u # x => Apart(u, x)'
  BY Zenon, <1>1 DEF IInv, Apart, Ready
<1>7. QED
  BY Zenon, <1>3, <1>4, <1>5, <1>6 DEF IInv

\* A new thread for a program.
LEMMA Starts == ASSUME IInv, NEW t \in Threads, cmd_prog(t) PROVE IInv'
<1>1. /\ stage[t].at = "none" /\ stage' = [stage EXCEPT ![t] = At("new")]
      /\ UNCHANGED <<cur, fault, space, tlb, firstpaddr, kernelpages, mem, expect>>
  BY Zenon DEF cmd_prog
<1>2. At("new") \in Stages /\ At("new").at = "new"
  BY Zenon DEF At, Stages
<1>3. stage \in [Threads -> Stages]
  BY Zenon DEF IInv, TypeInv
<1>4. stage' \in [Threads -> Stages] /\ stage'[t] = At("new")
      /\ \A u \in Threads : u # t => stage'[u] = stage[u]
  BY Zenon, <1>1, <1>2, <1>3
<1>5. TypeInv'
  BY Zenon, <1>1, <1>4 DEF IInv, TypeInv
<1>6. Local(t)
  BY Zenon, <1>1, <1>4, Still, Locally
<1>7. space[t] = None /\ fault[t] = None /\ DOMAIN expect[t] = {}
  BY Zenon, <1>1 DEF IInv, StageTrue, Ready
<1>8. StageTrue(t)' /\ ~Ready(t)'
  BY Zenon, <1>1, <1>2, <1>4, <1>7 DEF StageTrue, Ready
<1>9. TlbTrue'
  <2>1. CASE cur = t
    BY Zenon, <1>1, <1>7, <2>1 DEF TlbTrue
  <2>2. CASE cur # t
    <3>1. cur \in Threads => stage'[cur] = stage[cur]
      BY Zenon, <1>4, <2>2 DEF IInv, TypeInv
    <3>2. TlbTrue
      BY Zenon DEF IInv
    <3>3. QED
      BY Zenon, <1>1, <3>1, <3>2 DEF TlbTrue, Hit
  <2>3. QED
    BY Zenon, <2>1, <2>2
<1>10. QED
  BY Zenon, <1>5, <1>6, <1>8, <1>9, Idle
-----------------------------------------------------------------------------
\* While a program gets its memory the TLB is empty.
LEMMA Empty ==
  ASSUME \A i \in Slots : tlb'[i] = None
  PROVE  TlbTrue'
  BY Zenon DEF TlbTrue, Hit

\* runprogram makes an empty address space and activates it.
LEMMA Runs == ASSUME IInv, NEW t \in Threads, runprogram(t) PROVE IInv'
<1>1. cur = t /\ stage[t].at = "new" /\ fault[t] = None /\ cur' = cur
  BY Zenon DEF runprogram, Running
<1>2. PICK r \in Kmalloc :
        /\ firstpaddr' = r.next /\ kernelpages' = kernelpages \cup r.pages
        /\ mem' = KernelWrites(mem, r.pages)
        /\ IF r.ok
           THEN /\ space' = [space EXCEPT ![t] = as_create]
                /\ tlb' = as_activate
                /\ \E image \in Images :
                     stage' = [stage EXCEPT ![t] =
                                 [at |-> "define", image |-> image, seg |-> 1, off |-> 0]]
                /\ UNCHANGED <<fault, expect>>
           ELSE thread_exit(t) /\ UNCHANGED tlb
  BY Zenon DEF runprogram
<1>3. Grows
  BY Zenon, <1>2, KmallocGrows
<1>4. /\ cur \in Threads /\ stage \in [Threads -> Stages]
      /\ fault \in [Threads -> Nat \cup {None}] /\ space \in [Threads -> Spaces \cup {None}]
      /\ tlb \in [Slots -> Entries \cup {None}]
      /\ expect = [u \in Threads |-> expect[u]]
      /\ \A u \in Threads : DOMAIN expect[u] \in SUBSET Nat
  BY Zenon, <1>1 DEF IInv, TypeInv
<1>5. CASE ~r.ok
  <2>1. thread_exit(t) /\ tlb' = tlb
    BY Zenon, <1>2, <1>5
  <2>2. QED
    BY Zenon, <1>1, <1>3, <1>4, <2>1, Exits
<1>6. CASE r.ok
  <2>1. /\ space' = [space EXCEPT ![t] = as_create] /\ tlb' = as_activate
        /\ fault' = fault /\ expect' = expect
    BY Zenon, <1>2, <1>6
  <2>2. PICK image \in Images :
          stage' = [stage EXCEPT ![t] = [at |-> "define", image |-> image, seg |-> 1, off |-> 0]]
    BY Zenon, <1>2, <1>6
  <2>3. [at |-> "define", image |-> image, seg |-> 1, off |-> 0] \in Stages
    BY Zenon DEF Stages
  <2>4. /\ stage' \in [Threads -> Stages] /\ \A u \in Threads : u # t => stage'[u] = stage[u]
        /\ stage'[t] = [at |-> "define", image |-> image, seg |-> 1, off |-> 0]
    BY Zenon, <1>4, <2>2, <2>3
  <2>5. /\ space' \in [Threads -> Spaces \cup {None}] /\ space'[t] = as_create
        /\ \A u \in Threads : u # t => space'[u] = space[u]
    BY Zenon, <1>4, <2>1, Stays
  <2>6. TypeInv'
    BY Zenon, <1>1, <1>3, <1>4, <2>1, <2>4, <2>5, Stays, Typed
  <2>7. Local(t)
    BY Zenon, <1>3, <2>1, <2>4, <2>5, Locally
  <2>8. stage'[t].at = "define" /\ stage'[t].image \in Images /\ stage'[t].seg = 1
    BY <2>4
  <2>9. DOMAIN expect[t] = {}
    BY Zenon, <1>1 DEF IInv, StageTrue, Ready
  <2>10. as_create # None
    BY Zenon, Stays, AddrSpaceAssumption
  <2>11. StageTrue(t)' /\ ~Ready(t)'
    BY <1>1, <2>1, <2>5, <2>8, <2>9, <2>10 DEF StageTrue, Ready
  <2>12. TlbTrue'
    BY Zenon, <2>1, Empty DEF as_activate
  <2>13. QED
    BY Zenon, <2>6, <2>7, <2>11, <2>12, Idle
<1>7. QED
  BY Zenon, <1>5, <1>6

\* as_define_region keeps a space a space.
LEMMA Defines ==
  ASSUME NEW a \in Spaces, NEW vaddr \in Nat, NEW sz \in Nat
  PROVE  as_define_region(a, vaddr, sz).as \in Spaces
<1> DEFINE n == (sz + (vaddr % PageSize) + PageSize - 1) \div PageSize
<1>1. PageSize \in Nat \ {0}
  BY Zenon, AddrSpaceAssumption
<1>2. vaddr % PageSize \in Nat /\ Page(vaddr) \in Nat
  BY Zenon, <1>1, Paging
<1>3. sz + (vaddr % PageSize) + PageSize - 1 \in Nat
  BY <1>1, <1>2
<1>4. \A x \in Nat : x \div PageSize \in Nat
  BY <1>1
<1>5. n \in Nat
  BY Zenon, <1>3, <1>4
<1>6. as_define_region(a, vaddr, sz).as \in
        {a, [a EXCEPT !.vbase1 = Page(vaddr), !.npages1 = n],
            [a EXCEPT !.vbase2 = Page(vaddr), !.npages2 = n]}
  BY DEF as_define_region
<1> HIDE DEF n
<1>7. /\ [a EXCEPT !.vbase1 = Page(vaddr), !.npages1 = n] \in Spaces
      /\ [a EXCEPT !.vbase2 = Page(vaddr), !.npages2 = n] \in Spaces
  BY <1>2, <1>5, Zenon DEF Spaces
<1>8. QED
  BY Zenon, <1>6, <1>7

\* The stages load_elf goes through.
LEMMA StageEdit ==
  ASSUME NEW s \in Stages, NEW n \in Nat
  PROVE  /\ [s EXCEPT !.seg = n] \in Stages /\ [s EXCEPT !.off = n] \in Stages
         /\ [s EXCEPT !.at = "load"] \in Stages
<1> DEFINE S(a, k, o) == [at |-> a, image |-> s.image, seg |-> k, off |-> o]
<1>1. s = S(s.at, s.seg, s.off)
  BY Zenon DEF Stages
<1>2. /\ s.at \in {"none", "new", "define", "load", "user", "copy", "dead"}
      /\ s.image \in Images \cup {<<>>} /\ s.seg \in Nat /\ s.off \in Nat
  BY DEF Stages
<1>3. [s EXCEPT !.seg = n] = S(s.at, n, s.off)
  BY <1>1
<1>4. [s EXCEPT !.off = n] = S(s.at, s.seg, n)
  BY <1>1
<1>5. [s EXCEPT !.at = "load"] = S("load", s.seg, s.off)
  BY <1>1
<1>6. /\ S(s.at, n, s.off) \in Stages /\ S("load", s.seg, s.off) \in Stages
      /\ S(s.at, s.seg, n) \in Stages
  BY <1>2 DEF Stages
<1>7. QED
  BY <1>3, <1>4, <1>5, <1>6

\* The same for the two fields that as_prepare_load and load_segment change.
LEMMA StageEdits ==
  ASSUME NEW s \in Stages, NEW n \in Nat
  PROVE  /\ [s EXCEPT !.at = "load", !.seg = n] \in Stages
         /\ [s EXCEPT !.seg = n, !.off = 0] \in Stages
<1>1. PICK r \in Stages : r = [s EXCEPT !.at = "load"]
  BY StageEdit, Zenon
<1>2. PICK q \in Stages : q = [s EXCEPT !.seg = n]
  BY StageEdit, Zenon
<1>3. [r EXCEPT !.seg = n] \in Stages /\ [q EXCEPT !.off = 0] \in Stages
  BY StageEdit, Zenon
<1>4. QED
  BY Zenon, <1>1, <1>2, <1>3

\* load_elf defines a region, ...
LEMMA Reads == ASSUME IInv, NEW t \in Threads, DefineSegment(t) PROVE IInv'
<1> DEFINE g == stage[t].image[stage[t].seg]
           r == as_define_region(space[t], g.vaddr, g.memsz)
<1>1. /\ cur = t /\ stage[t].at = "define" /\ fault[t] = None /\ cur' = cur
      /\ stage[t].seg <= Len(stage[t].image)
      /\ UNCHANGED <<tlb, firstpaddr, kernelpages, mem>>
  BY Zenon DEF DefineSegment, Running
<1>2. IF r.err = "OK"
      THEN /\ space' = [space EXCEPT ![t] = r.as]
           /\ stage' = [stage EXCEPT ![t].seg = @ + 1]
           /\ UNCHANGED <<fault, expect>>
      ELSE thread_exit(t)
  BY Zenon DEF DefineSegment
<1>3. Grows
  BY Zenon, <1>1, Still
<1>4. /\ cur \in Threads /\ stage \in [Threads -> Stages]
      /\ fault \in [Threads -> Nat \cup {None}] /\ space \in [Threads -> Spaces \cup {None}]
      /\ tlb \in [Slots -> Entries \cup {None}]
      /\ expect = [u \in Threads |-> expect[u]]
      /\ \A u \in Threads : DOMAIN expect[u] \in SUBSET Nat
  BY Zenon, <1>1 DEF IInv, TypeInv
<1>5. CASE ~(r.err = "OK")
  BY Zenon, <1>1, <1>2, <1>3, <1>4, <1>5, Exits
<1>6. CASE r.err = "OK"
  <2>1. /\ space[t] # None /\ stage[t].image \in Images /\ stage[t].seg >= 1
        /\ stage[t].seg \in Nat /\ DOMAIN expect[t] = {}
    BY <1>1, <1>4, Zenon DEF IInv, StageTrue, Ready, Stages
  <2>2. stage[t].seg \in 1 .. Len(stage[t].image)
    BY <1>1, <2>1, AddrSpaceAssumption
  <2>3. g.vaddr \in Nat /\ g.memsz \in Nat
    BY Zenon, <2>1, <2>2, AddrSpaceAssumption
  <2>4. r.as \in Spaces /\ space[t] \in Spaces
    BY Zenon, <1>4, <2>1, <2>3, Defines
  <2>5. space' = [space EXCEPT ![t] = r.as] /\ fault' = fault /\ expect' = expect
        /\ stage' = [stage EXCEPT ![t].seg = @ + 1]
    BY <1>2, <1>6
  <2> HIDE DEF r, g
  <2>6. [stage[t] EXCEPT !.seg = @ + 1] \in Stages
    <3>1. stage[t] \in Stages /\ stage[t].seg + 1 \in Nat
      BY <1>4, <2>1
    <3>2. QED
      BY <3>1, StageEdit, Zenon
  <2>7. /\ stage' \in [Threads -> Stages] /\ \A u \in Threads : u # t => stage'[u] = stage[u]
        /\ stage'[t] = [stage[t] EXCEPT !.seg = @ + 1]
    BY Zenon, <1>4, <2>5, <2>6
  <2>8. stage'[t].at = "define" /\ stage'[t].image \in Images /\ stage'[t].seg >= 1
    BY <1>1, <1>4, <2>1, <2>7 DEF Stages
  <2>9. /\ space' \in [Threads -> Spaces \cup {None}] /\ space'[t] = r.as
        /\ \A u \in Threads : u # t => space'[u] = space[u]
    BY Zenon, <1>4, <2>4, <2>5
  <2>10. TypeInv'
    BY Zenon, <1>1, <1>3, <1>4, <2>5, <2>7, <2>9, Typed
  <2>11. Local(t)
    BY Zenon, <1>3, <2>5, <2>7, <2>9, Locally
  <2>12. r.as # None
    BY Zenon, <2>4, AddrSpaceAssumption
  <2>13. StageTrue(t)' /\ ~Ready(t)'
    BY Zenon, <1>1, <2>1, <2>5, <2>8, <2>9, <2>12 DEF StageTrue, Ready
  <2>14. \A i \in Slots : tlb'[i] = None
    BY Zenon, <1>1, <2>1 DEF IInv, TlbTrue
  <2>15. QED
    BY Zenon, <2>10, <2>11, <2>13, <2>14, Empty, Idle
<1>7. QED
  BY Zenon, <1>5, <1>6

\* ... and gets the frames for all of them, which nobody has had before.
LEMMA GetsFrames == ASSUME IInv, NEW t \in Threads, PrepareLoad(t) PROVE IInv'
<1> DEFINE r == as_prepare_load(space[t], firstpaddr)
<1>1. /\ cur = t /\ stage[t].at = "define" /\ fault[t] = None /\ cur' = cur
      /\ firstpaddr' = r.next /\ UNCHANGED <<tlb, kernelpages, mem>>
  BY DEF PrepareLoad, Running
<1>2. IF r.err = "OK"
      THEN /\ space' = [space EXCEPT ![t] = r.as]
           /\ stage' = [stage EXCEPT ![t].at = "load", ![t].seg = 1]
           /\ UNCHANGED <<fault, expect>>
      ELSE thread_exit(t)
  BY Zenon DEF PrepareLoad
<1>3. /\ cur \in Threads /\ stage \in [Threads -> Stages]
      /\ fault \in [Threads -> Nat \cup {None}] /\ space \in [Threads -> Spaces \cup {None}]
      /\ tlb \in [Slots -> Entries \cup {None}]
      /\ expect = [u \in Threads |-> expect[u]]
      /\ \A u \in Threads : DOMAIN expect[u] \in SUBSET Nat
      /\ firstpaddr \in Nat /\ firstpaddr >= 1 /\ firstpaddr <= NFrames
      /\ \A k \in kernelpages : k < firstpaddr
      /\ kernelpages \in SUBSET Nat /\ mem = [w \in Words |-> mem[w]]
  BY Zenon, <1>1 DEF IInv, TypeInv
<1>4. /\ space[t] # None /\ stage[t].image \in Images /\ DOMAIN expect[t] = {}
  BY Zenon, <1>1 DEF IInv, StageTrue, Ready
<1>5. space[t] \in Spaces
  BY Zenon, <1>3, <1>4
<1>6. /\ r.next \in Nat /\ r.next >= firstpaddr /\ r.next <= NFrames
      /\ r.err = "OK" =>
           /\ r.as \in Spaces /\ Prepared(r.as)
           /\ r.as.pbase1 = firstpaddr /\ End(r.as) = r.next
  BY Zenon, <1>3, <1>5, Prepares
<1> HIDE DEF r
<1>7. Grows
  BY Zenon, <1>1, <1>3, <1>6 DEF Grows
<1>8. CASE ~(r.err = "OK")
  BY Zenon, <1>1, <1>2, <1>3, <1>7, <1>8, Exits
<1>9. CASE r.err = "OK"
  <2>1. space' = [space EXCEPT ![t] = r.as] /\ fault' = fault /\ expect' = expect
        /\ stage' = [stage EXCEPT ![t].at = "load", ![t].seg = 1]
    BY Zenon, <1>2, <1>9
  <2>2. [stage[t] EXCEPT !.at = "load", !.seg = 1] \in Stages
    BY <1>3, StageEdits, Zenon
  <2>3. /\ stage' \in [Threads -> Stages] /\ \A u \in Threads : u # t => stage'[u] = stage[u]
        /\ stage'[t] = [stage[t] EXCEPT !.at = "load", !.seg = 1]
    BY Zenon, <1>3, <2>1, <2>2
  <2>4. stage'[t].at = "load" /\ stage'[t].image \in Images /\ stage'[t].seg = 1
        /\ stage'[t].image = stage[t].image
    BY <1>3, <1>4, <2>3 DEF Stages
  <2>5. 1 \in 1 .. Len(stage'[t].image)
    BY <2>4, AddrSpaceAssumption
  <2>6. /\ space' \in [Threads -> Spaces \cup {None}] /\ space'[t] = r.as
        /\ \A u \in Threads : u # t => space'[u] = space[u]
    BY Zenon, <1>3, <1>6, <1>9, <2>1
  <2>7. TypeInv'
    BY Zenon, <1>1, <1>3, <1>7, <2>1, <2>3, <2>6, Typed
  <2>8. Local(t)
    BY Zenon, <1>7, <2>1, <2>3, <2>6, Locally
  <2>9. r.as # None
    BY Zenon, <1>6, <1>9, AddrSpaceAssumption
  <2>10. StageTrue(t)' /\ Ready(t)'
    BY Zenon, <1>1, <2>1, <2>4, <2>5, <2>6, <2>9 DEF StageTrue, Ready
  <2>11. RowTrue(t)'
    BY <1>1, <1>3, <1>6, <1>9, <2>6 DEF RowTrue
  <2>12. WordsTrue(t)'
    BY Zenon, <1>4, <2>1 DEF WordsTrue
  <2>13. ASSUME NEW u \in Threads, u # t PROVE Apart(t, u)'
    <3>1. SUFFICES ASSUME Ready(u)' PROVE End(space'[u]) <= space'[t].pbase1
      BY Zenon DEF Apart
    <3>2. Ready(u) /\ space'[u] = space[u]
      BY Zenon, <2>3, <2>6, <2>13, <3>1 DEF Ready
    <3>3. QED
      BY Zenon, <1>6, <1>9, <2>6, <3>2, Rows
  <2>14. \A i \in Slots : tlb'[i] = None
    BY Zenon, <1>1, <1>4 DEF IInv, TlbTrue
  <2>15. QED
    BY Zenon, <2>7, <2>8, <2>10, <2>11, <2>12, <2>13, <2>14, Empty, Mine
<1>10. QED
  BY Zenon, <1>8, <1>9
-----------------------------------------------------------------------------
\* A reference that misses the TLB is remembered until its trap is handled.
LEMMA Misses ==
  ASSUME IInv, NEW t \in Threads, cur = t, Ready(t), NEW v \in Nat, Traps(t, v)
  PROVE  IInv'
<1>1. /\ ~Hit(v) /\ fault' = [fault EXCEPT ![t] = v]
      /\ UNCHANGED <<cur, stage, space, tlb, firstpaddr, kernelpages, mem, expect>>
  BY Zenon DEF Traps
<1>2. fault \in [Threads -> Nat \cup {None}]
  BY Zenon DEF IInv, TypeInv
<1>3. /\ fault' \in [Threads -> Nat \cup {None}] /\ fault'[t] = v
      /\ \A u \in Threads : u # t => fault'[u] = fault[u]
  BY Zenon, <1>1, <1>2
<1>4. TypeInv'
  BY Zenon, <1>1, <1>3 DEF IInv, TypeInv
<1>5. Local(t)
  BY Zenon, <1>1, <1>3, Still, Locally
<1>6. StageTrue(t)' /\ RowTrue(t)' /\ WordsTrue(t)'
  BY Zenon, <1>1 DEF IInv, StageTrue, RowTrue, WordsTrue, Ready
<1>7. \A u \in Threads : u # t => Apart(t, u)'
  BY Zenon, <1>1 DEF IInv, Apart, Ready
<1>8. TlbTrue'
  <2>1. TlbTrue /\ space[t] # None /\ stage[t].at # "define"
    BY Zenon DEF IInv, StageTrue, Ready
  <2>2. ~Hit(v)'
    BY Zenon, <1>1 DEF Hit
  <2>3. QED
    BY Zenon, <1>1, <1>3, <2>1, <2>2 DEF TlbTrue
<1>9. QED
  BY Zenon, <1>4, <1>5, <1>6, <1>7, <1>8, Mine

\* A reference that hits the TLB reaches the word the program's own space gives
\* for it.
LEMMA Hits ==
  ASSUME IInv, NEW t \in Threads, cur = t, Ready(t), NEW v \in Nat, Hit(v)
  PROVE  Physical(v) = Address(space[t], v) /\ Translate(space[t], Page(v)) # 0
<1> DEFINE i == CHOOSE i \in Slots : tlb[i] # None /\ tlb[i].v = Page(v)
<1>1. i \in Slots /\ tlb[i] # None /\ tlb[i].v = Page(v)
  BY Zenon DEF Hit
<1>2. Physical(v) = tlb[i].p * PageSize + (v % PageSize)
  BY Zenon DEF Physical
<1> HIDE DEF i
<1>3. space[t] # None
  BY Zenon DEF IInv, StageTrue
<1>4. Translate(space[t], tlb[i].v) = tlb[i].p /\ tlb[i].p # 0
  BY Zenon, <1>1, <1>3 DEF IInv, TlbTrue
<1>5. QED
  BY Zenon, <1>1, <1>2, <1>4 DEF Address

\* Two addresses of a program lead to two words.
LEMMA Distinct ==
  ASSUME IInv, NEW t \in Threads, Ready(t), NEW v \in Nat, NEW a \in Nat,
         Translate(space[t], Page(v)) # 0, Translate(space[t], Page(a)) # 0,
         Address(space[t], v) = Address(space[t], a)
  PROVE  v = a
<1>1. space[t] \in Spaces /\ Prepared(space[t])
  BY Zenon, Rows
<1>2. /\ Page(v) \in Nat /\ v % PageSize \in Nat /\ v % PageSize < PageSize
      /\ Page(a) \in Nat /\ a % PageSize \in Nat /\ a % PageSize < PageSize
  BY Zenon, Paging, AddrSpaceAssumption
<1>3. Translate(space[t], Page(v)) \in Nat /\ Translate(space[t], Page(a)) \in Nat
  BY Zenon, <1>1, <1>2, Translates
<1>4. Translate(space[t], Page(v)) = Translate(space[t], Page(a)) /\ v % PageSize = a % PageSize
  BY <1>2, <1>3, Paging DEF Address
<1>5. Page(v) = Page(a)
  BY Zenon, <1>1, <1>2, <1>4, Translates
<1>6. v = Page(v) * PageSize + (v % PageSize) /\ a = Page(a) * PageSize + (a % PageSize)
  BY Zenon, Paging
<1>7. QED
  BY Zenon, <1>4, <1>5, <1>6

\* The program, or the kernel on its behalf, writes x at address v.
LEMMA Writes ==
  ASSUME IInv, NEW t \in Threads, cur = t, Ready(t), fault[t] = None,
         NEW v \in Nat, Hit(v), NEW x,
         mem' = [mem EXCEPT ![Physical(v)] = x],
         expect' = [expect EXCEPT ![t] =
           [a \in DOMAIN @ \cup {v} |-> IF a = v THEN x ELSE @[a]]],
         NEW s \in Stages, stage' = [stage EXCEPT ![t] = s],
         s.at \in {"load", "user", "copy"},
         s.at = "load" => s.image \in Images /\ s.seg \in 1 .. Len(s.image),
         UNCHANGED <<cur, fault, space, tlb, firstpaddr, kernelpages>>
  PROVE  IInv'
<1>1. /\ stage \in [Threads -> Stages] /\ expect = [u \in Threads |-> expect[u]]
      /\ \A u \in Threads : DOMAIN expect[u] \in SUBSET Nat
      /\ mem = [w \in Words |-> mem[w]]
  BY Zenon DEF IInv, TypeInv
<1>2. space[t] \in Spaces /\ space[t] # None
  BY Zenon, Rows DEF IInv, StageTrue
<1>3. Physical(v) = Address(space[t], v) /\ Translate(space[t], Page(v)) # 0
  BY Zenon, Hits
<1>4. PICK w \in Words : w = Physical(v)
  BY Zenon, <1>3, Addresses
<1>5. Page(w) >= space[t].pbase1 /\ Page(w) < End(space[t])
  BY Zenon, <1>3, <1>4, Addresses
<1>6. /\ mem' = [y \in Words |-> mem'[y]] /\ mem'[w] = x
      /\ \A y \in Words : y # w => mem'[y] = mem[y]
  BY Zenon, <1>1, <1>4
<1>7. /\ stage' \in [Threads -> Stages] /\ stage'[t] = s
      /\ \A u \in Threads : u # t => stage'[u] = stage[u]
  BY <1>1
<1>8. /\ expect' = [u \in Threads |-> expect'[u]]
      /\ expect'[t] = [a \in DOMAIN expect[t] \cup {v} |-> IF a = v THEN x ELSE expect[t][a]]
      /\ \A u \in Threads : u # t => expect'[u] = expect[u]
  BY <1>1, Zenon
<1>9. DOMAIN expect'[t] = DOMAIN expect[t] \cup {v}
  BY <1>8
<1>10. \A u \in Threads : DOMAIN expect'[u] \in SUBSET Nat
  BY <1>1, <1>8, <1>9
<1>11. TypeInv'
  BY Zenon, <1>6, <1>7, <1>8, <1>10 DEF IInv, TypeInv
<1>12. Local(t)
  <2>1. firstpaddr' \in Nat /\ firstpaddr' >= firstpaddr /\ firstpaddr' <= NFrames
        /\ kernelpages' = kernelpages /\ kernelpages' \in SUBSET Nat
    BY DEF IInv, TypeInv
  <2>2. QED
    BY Zenon, <1>5, <1>6, <1>7, <1>8, <2>1 DEF Local
<1>13. StageTrue(t)' /\ Ready(t)'
  BY Zenon, <1>2, <1>7 DEF StageTrue, Ready
<1>14. RowTrue(t)' /\ \A u \in Threads : u # t => Apart(t, u)'
  <2>1. \A u \in Threads : Ready(u)' <=> Ready(u)
    BY Zenon, <1>7, <1>13 DEF Ready
  <2>2. QED
    BY Zenon, <2>1 DEF IInv, RowTrue, Apart
<1>15. WordsTrue(t)'
  <2>1. SUFFICES ASSUME NEW a \in DOMAIN expect[t] \cup {v}
                 PROVE  /\ Translate(space[t], Page(a)) # 0
                        /\ mem'[Address(space[t], a)] = expect'[t][a]
    BY <1>9, Zenon DEF WordsTrue
  <2>2. CASE a = v
    BY Zenon, <1>3, <1>4, <1>6, <1>8, <2>2
  <2>3. CASE a # v
    <3>1. a \in DOMAIN expect[t] /\ a \in Nat
      BY Zenon, <1>1, <2>3
    <3>2. Translate(space[t], Page(a)) # 0 /\ mem[Address(space[t], a)] = expect[t][a]
      BY Zenon, <3>1 DEF IInv, WordsTrue
    <3>3. Address(space[t], a) \in Words
      BY Zenon, <3>1, <3>2, Addresses
    <3>4. Address(space[t], a) # w
      BY Zenon, <1>3, <1>4, <2>3, <3>1, <3>2, Distinct
    <3>5. mem'[Address(space[t], a)] = mem[Address(space[t], a)]
      BY Zenon, <1>6, <3>3, <3>4
    <3>6. expect'[t][a] = expect[t][a]
      BY Zenon, <1>8, <2>3, <3>1
    <3>7. QED
      BY Zenon, <3>2, <3>5, <3>6
  <2>4. QED
    BY Zenon, <2>2, <2>3
<1>16. TlbTrue'
  <2>1. TlbTrue /\ s.at # "define"
    BY Zenon DEF IInv
  <2>2. QED
    BY <1>7, <2>1 DEF TlbTrue, Hit
<1>17. QED
  BY Zenon, <1>11, <1>12, <1>13, <1>14, <1>15, <1>16, Mine

\* load_segment copies out one word of a segment, ...
LEMMA Loads == ASSUME IInv, NEW t \in Threads, load_segment(t) PROVE IInv'
<1> DEFINE g == Segment(t)
           v == g.vaddr + stage[t].off
           x == Loaded(g, stage[t].off)
           s == IF stage[t].off + 1 < g.memsz THEN [stage[t] EXCEPT !.off = stage[t].off + 1]
                ELSE IF stage[t].seg < Len(stage[t].image)
                THEN [stage[t] EXCEPT !.seg = stage[t].seg + 1, !.off = 0]
                ELSE At("user")
<1>1. cur = t /\ stage[t].at = "load" /\ fault[t] = None
  BY Zenon DEF load_segment, Running
<1>2. stage[t] \in Stages /\ Ready(t)
  BY Zenon, <1>1 DEF IInv, TypeInv, Ready
<1>3. /\ stage[t].image \in Images /\ stage[t].seg \in 1 .. Len(stage[t].image)
      /\ stage[t].off \in Nat /\ stage[t].seg \in Nat /\ Len(stage[t].image) \in Nat
  BY Zenon, <1>1, <1>2, AddrSpaceAssumption DEF IInv, StageTrue, Stages
<1>4. g.vaddr \in Nat /\ g.memsz \in Nat
  BY Zenon, <1>3, AddrSpaceAssumption DEF Segment
<1>5. v \in Nat
  BY <1>3, <1>4
<1>6. CASE Traps(t, v)
  BY Zenon, <1>1, <1>2, <1>5, <1>6, Misses
<1>7. CASE ~Traps(t, v)
  <2>1. /\ Hit(v) /\ mem' = [mem EXCEPT ![Physical(v)] = x]
        /\ expect' = [expect EXCEPT ![t] =
             [a \in DOMAIN @ \cup {v} |-> IF a = v THEN x ELSE @[a]]]
        /\ UNCHANGED <<cur, fault, space, tlb, firstpaddr, kernelpages>>
    BY Zenon, <1>7 DEF load_segment
  <2>2. stage' = [stage EXCEPT ![t] = s]
    BY Zenon, <1>7 DEF load_segment
  <2>3. /\ s \in Stages /\ s.at \in {"load", "user", "copy"}
        /\ s.at = "load" => s.image \in Images /\ s.seg \in 1 .. Len(s.image)
    <3>1. CASE stage[t].off + 1 < g.memsz
      <4>1. s = [stage[t] EXCEPT !.off = @ + 1]
        BY Zenon, <3>1
      <4> HIDE DEF s
      <4>2. stage[t].off + 1 \in Nat
        BY <1>3
      <4>3. s \in Stages
        BY <1>2, <4>1, <4>2, StageEdit, Zenon
      <4>4. s.at = stage[t].at /\ s.image = stage[t].image /\ s.seg = stage[t].seg
        BY Zenon, <1>2, <4>1 DEF Stages
      <4>5. QED
        BY Zenon, <1>1, <1>3, <4>3, <4>4
    <3>2. CASE ~(stage[t].off + 1 < g.memsz) /\ stage[t].seg < Len(stage[t].image)
      <4>1. s = [stage[t] EXCEPT !.seg = @ + 1, !.off = 0]
        BY Zenon, <3>2
      <4> HIDE DEF s
      <4>2. stage[t].seg + 1 \in Nat /\ stage[t].seg + 1 \in 1 .. Len(stage[t].image)
        BY <1>3, <3>2
      <4>3. s \in Stages
        BY <1>2, <4>1, <4>2, StageEdits, Zenon
      <4>4. s.at = stage[t].at /\ s.image = stage[t].image /\ s.seg = stage[t].seg + 1
        BY Zenon, <1>2, <4>1 DEF Stages
      <4>5. QED
        BY <1>1, <1>3, <4>2, <4>3, <4>4
    <3>3. CASE ~(stage[t].off + 1 < g.memsz) /\ ~(stage[t].seg < Len(stage[t].image))
      <4>1. s = At("user")
        BY Zenon, <3>3
      <4> HIDE DEF s
      <4>2. At("user") \in Stages /\ At("user").at = "user"
        BY Zenon DEF At, Stages
      <4>3. QED
        BY <4>1, <4>2
    <3>4. QED
      BY Zenon, <3>1, <3>2, <3>3
  <2> HIDE DEF s, v, x, g
  <2>4. QED
    BY <1>1, <1>2, <1>5, <2>1, <2>2, <2>3, Writes, Zenon
<1>8. QED
  BY Zenon, <1>6, <1>7

\* ... the program stores one, ...
LEMMA Stores == ASSUME IInv, NEW t \in Threads, Store(t) PROVE IInv'
<1>1. cur = t /\ stage[t].at = "user" /\ fault[t] = None
  BY Zenon DEF Store, Running
<1>2. stage[t] \in Stages /\ Ready(t) /\ stage \in [Threads -> Stages]
  BY Zenon, <1>1 DEF IInv, TypeInv, Ready
<1>3. PICK v \in Touched :
       \/ Traps(t, v)
       \/ /\ Hit(v)
          /\ mem' = [mem EXCEPT ![Physical(v)] = t]
          /\ expect' = [expect EXCEPT ![t] =
               [a \in DOMAIN @ \cup {v} |-> IF a = v THEN t ELSE @[a]]]
          /\ UNCHANGED <<cur, stage, fault, space, tlb, firstpaddr, kernelpages>>
  BY Zenon DEF Store
<1>4. v \in Nat
  BY Zenon, AddrSpaceAssumption
<1>5. CASE Traps(t, v)
  BY Zenon, <1>1, <1>2, <1>4, <1>5, Misses
<1>6. CASE ~Traps(t, v)
  <2>1. /\ Hit(v) /\ mem' = [mem EXCEPT ![Physical(v)] = t]
        /\ expect' = [expect EXCEPT ![t] =
             [a \in DOMAIN @ \cup {v} |-> IF a = v THEN t ELSE @[a]]]
        /\ UNCHANGED <<cur, stage, fault, space, tlb, firstpaddr, kernelpages>>
    BY Zenon, <1>3, <1>6
  <2>2. stage' = [stage EXCEPT ![t] = stage[t]]
    BY Zenon, <1>2, <2>1
  <2>3. stage[t].at \in {"load", "user", "copy"} /\ stage[t].at # "load"
    BY Zenon, <1>1
  <2>4. QED
    BY <1>1, <1>2, <1>4, <2>1, <2>2, <2>3, Writes, Zenon
<1>7. QED
  BY Zenon, <1>5, <1>6

\* ... or the kernel copies one out to it.
LEMMA Copies == ASSUME IInv, NEW t \in Threads, copyout(t) PROVE IInv'
<1>1. cur = t /\ stage[t].at \in {"user", "copy"} /\ fault[t] = None
  BY Zenon DEF copyout, Running
<1>2. stage[t] \in Stages /\ Ready(t) /\ stage \in [Threads -> Stages] /\ stage[t].off \in Nat
  BY Zenon, <1>1 DEF IInv, TypeInv, Ready, Stages
<1>3. CASE /\ \E v \in Touched : stage' = [stage EXCEPT ![t] = [At("copy") EXCEPT !.off = v]]
           /\ UNCHANGED <<cur, fault, space, tlb, firstpaddr, kernelpages, mem, expect>>
  <2>1. PICK v \in Touched : stage' = [stage EXCEPT ![t] = [At("copy") EXCEPT !.off = v]]
    BY <1>3, Zenon
  <2>2. [At("copy") EXCEPT !.off = v] = [at |-> "copy", image |-> <<>>, seg |-> 0, off |-> v]
    BY DEF At
  <2>3. v \in Nat
    BY AddrSpaceAssumption
  <2>4. [At("copy") EXCEPT !.off = v] \in Stages /\ [At("copy") EXCEPT !.off = v].at = "copy"
    BY <2>2, <2>3 DEF Stages
  <2>5. /\ stage' \in [Threads -> Stages] /\ stage'[t].at = "copy"
        /\ \A u \in Threads : u # t => stage'[u] = stage[u]
    BY Zenon, <1>2, <2>1, <2>4
  <2>6. TypeInv'
    BY Zenon, <1>3, <2>5 DEF IInv, TypeInv
  <2>7. Local(t)
    BY Zenon, <1>3, <2>5, Still, Locally
  <2>8. \A u \in Threads : Ready(u)' <=> Ready(u)
    BY Zenon, <1>2, <2>5 DEF Ready
  <2>9. StageTrue(t)'
    BY Zenon, <1>2, <1>3, <2>5 DEF IInv, StageTrue, Ready
  <2>10. RowTrue(t)' /\ WordsTrue(t)' /\ \A u \in Threads : u # t => Apart(t, u)'
    BY Zenon, <1>3, <2>8 DEF IInv, RowTrue, WordsTrue, Apart
  <2>11. TlbTrue'
    <3>1. TlbTrue
      BY Zenon DEF IInv
    <3>2. QED
      BY <1>1, <1>3, <2>5, <3>1 DEF TlbTrue, Hit
  <2>12. QED
    BY Zenon, <2>6, <2>7, <2>9, <2>10, <2>11, Mine
<1>4. CASE Traps(t, stage[t].off)
  BY Zenon, <1>1, <1>2, <1>4, Misses
<1>5. CASE /\ Hit(stage[t].off)
           /\ mem' = [mem EXCEPT ![Physical(stage[t].off)] = KernelData]
           /\ expect' = [expect EXCEPT ![t] =
                [a \in DOMAIN @ \cup {stage[t].off} |->
                   IF a = stage[t].off THEN KernelData ELSE @[a]]]
           /\ stage' = [stage EXCEPT ![t] = At("user")]
           /\ UNCHANGED <<cur, fault, space, tlb, firstpaddr, kernelpages>>
  <2>1. At("user") \in Stages /\ At("user").at = "user"
    BY DEF At, Stages
  <2>2. PICK v \in Nat : v = stage[t].off
    BY Zenon, <1>2
  <2>3. QED
    BY <1>1, <1>2, <1>5, <2>1, <2>2, Writes, Zenon
<1>6. QED
  BY Zenon, <1>3, <1>4, <1>5 DEF copyout

\* The fault handler puts a translation of the program's own space into the
\* TLB, whose page had none; or the copy, or the program, is given up.
LEMMA Handles == ASSUME IInv, NEW t \in Threads, mips_trap(t) PROVE IInv'
<1> DEFINE p == Page(fault[t])
           frame == Translate(space[t], p)
           r == vm_fault(space[t], p)
<1>1. cur = t /\ fault[t] # None /\ UNCHANGED <<cur, firstpaddr, kernelpages, mem>>
  BY Zenon DEF mips_trap
<1>2. /\ tlb' = r.tlb
      /\ IF r.err = "OK"
         THEN fault' = [fault EXCEPT ![t] = None] /\ UNCHANGED <<stage, space, expect>>
         ELSE IF stage[t].at = "copy"
         THEN /\ fault' = [fault EXCEPT ![t] = None]
              /\ stage' = [stage EXCEPT ![t] = At("user")]
              /\ UNCHANGED <<space, expect>>
         ELSE thread_exit(t)
  BY Zenon DEF mips_trap
<1>3. /\ cur \in Threads /\ stage \in [Threads -> Stages]
      /\ fault \in [Threads -> Nat \cup {None}] /\ space \in [Threads -> Spaces \cup {None}]
      /\ tlb \in [Slots -> Entries \cup {None}]
  BY Zenon, <1>1 DEF IInv, TypeInv
<1>4. Ready(t) /\ fault[t] \in Nat
  BY Zenon, <1>1, <1>3 DEF IInv, StageTrue
<1>5. space[t] \in Spaces /\ space[t] # None
  BY Zenon, <1>4, Rows DEF IInv, StageTrue
<1>6. p \in Nat
  BY <1>4, Paging, Zenon
<1>7. frame \in Nat
  BY Zenon, <1>5, <1>6, Translates
<1>8. Grows
  BY Zenon, <1>1, Still
<1>9. /\ r.err # "OK" => r.tlb = tlb
      /\ r.err = "OK" =>
           /\ frame # 0
           /\ \E slot : r.tlb = [tlb EXCEPT ![slot] = [v |-> p, p |-> frame]]
  BY Zenon DEF vm_fault
<1>10. TlbTrue /\ \A i \in Slots : tlb[i] # None => tlb[i].v # p
  BY <1>1, <1>4, <1>5, Zenon DEF IInv, TlbTrue, Hit
<1> HIDE DEF r, p, frame
<1>11. CASE r.err = "OK"
  <2>1. fault' = [fault EXCEPT ![t] = None] /\ UNCHANGED <<stage, space, expect>>
    BY Zenon, <1>2, <1>11
  <2>2. PICK slot : tlb' = [tlb EXCEPT ![slot] = [v |-> p, p |-> frame]]
    BY <1>2, <1>9, <1>11, Zenon
  <2>3. [v |-> p, p |-> frame] \in Entries /\ [v |-> p, p |-> frame] # None
    BY <1>6, <1>7, AddrSpaceAssumption DEF Entries
  <2>4. PICK e \in Entries : e = [v |-> p, p |-> frame]
    BY Zenon, <2>3
  <2>5. e.v = p /\ e.p = frame /\ e # None
    BY Zenon, <2>3, <2>4
  <2>6. /\ tlb' \in [Slots -> Entries \cup {None}]
        /\ \A i \in Slots : tlb'[i] = IF i = slot THEN e ELSE tlb[i]
    BY <1>3, <2>2, <2>4, Zenon
  <2>7. /\ fault' \in [Threads -> Nat \cup {None}] /\ fault'[t] = None
        /\ \A u \in Threads : u # t => fault'[u] = fault[u]
    BY Zenon, <1>3, <2>1
  <2>8. TypeInv'
    BY Zenon, <1>1, <2>1, <2>6, <2>7 DEF IInv, TypeInv
  <2>9. Local(t)
    BY Zenon, <1>8, <2>1, <2>7, Locally
  <2>10. StageTrue(t)' /\ RowTrue(t)' /\ WordsTrue(t)'
    BY <1>1, <2>1, <2>7, Zenon DEF IInv, StageTrue, RowTrue, WordsTrue, Ready
  <2>11. \A u \in Threads : u # t => Apart(t, u)'
    BY <1>1, <2>1, Zenon DEF IInv, Apart, Ready
  <2>12. ASSUME NEW i \in Slots, tlb'[i] # None
         PROVE  /\ Translate(space[t], tlb'[i].v) = tlb'[i].p /\ tlb'[i].p # 0
                /\ \A j \in Slots \ {i} : tlb'[j] # None => tlb'[j].v # tlb'[i].v
    <3>1. CASE i = slot
      <4>1. Translate(space[t], e.v) = e.p /\ e.p # 0
        BY Zenon, <1>9, <1>11, <2>5 DEF frame
      <4>2. QED
        BY Zenon, <1>10, <2>5, <2>6, <2>12, <3>1, <4>1
    <3>2. CASE i # slot
      <4>1. tlb'[i] = tlb[i]
        BY Zenon, <2>6, <2>12, <3>2
      <4>2. /\ Translate(space[t], tlb[i].v) = tlb[i].p /\ tlb[i].p # 0
            /\ \A j \in Slots \ {i} : tlb[j] # None => tlb[j].v # tlb[i].v
            /\ tlb[i].v # p
        BY Zenon, <1>1, <1>5, <1>10, <2>12, <4>1 DEF TlbTrue
      <4>3. QED
        BY Zenon, <2>5, <2>6, <4>1, <4>2
    <3>3. QED
      BY Zenon, <3>1, <3>2
  <2>13. TlbTrue'
    <3>1. stage[t].at # "define"
      BY Zenon, <1>4 DEF Ready
    <3>2. QED
      BY Zenon, <1>1, <2>1, <2>7, <2>12, <3>1 DEF TlbTrue
  <2>14. QED
    BY Zenon, <2>8, <2>9, <2>10, <2>11, <2>13, Mine
<1>12. CASE r.err # "OK" /\ stage[t].at = "copy"
  <2>1. /\ fault' = [fault EXCEPT ![t] = None] /\ stage' = [stage EXCEPT ![t] = At("user")]
        /\ UNCHANGED <<space, expect>> /\ tlb' = tlb
    BY Zenon, <1>2, <1>9, <1>12
  <2>2. At("user") \in Stages /\ At("user").at = "user"
    BY DEF At, Stages
  <2>3. /\ fault' \in [Threads -> Nat \cup {None}] /\ fault'[t] = None
        /\ \A u \in Threads : u # t => fault'[u] = fault[u]
    BY Zenon, <1>3, <2>1
  <2>4. /\ stage' \in [Threads -> Stages] /\ stage'[t].at = "user"
        /\ \A u \in Threads : u # t => stage'[u] = stage[u]
    BY Zenon, <1>3, <2>1, <2>2
  <2>5. TypeInv'
    BY Zenon, <1>1, <2>1, <2>3, <2>4 DEF IInv, TypeInv
  <2>6. Local(t)
    BY Zenon, <1>8, <2>1, <2>3, <2>4, Locally
  <2>7. \A u \in Threads : Ready(u)' <=> Ready(u)
    BY <1>4, <2>4 DEF Ready
  <2>8. StageTrue(t)'
    BY <1>4, <1>5, <2>1, <2>3, <2>4, Zenon DEF IInv, StageTrue, Ready
  <2>9. RowTrue(t)' /\ WordsTrue(t)' /\ \A u \in Threads : u # t => Apart(t, u)'
    BY <1>1, <2>1, <2>7, Zenon DEF IInv, RowTrue, WordsTrue, Apart
  <2>10. TlbTrue'
    BY <1>1, <1>10, <2>1, <2>3, <2>4 DEF TlbTrue
  <2>11. QED
    BY Zenon, <2>5, <2>6, <2>8, <2>9, <2>10, Mine
<1>13. CASE r.err # "OK" /\ stage[t].at # "copy"
  BY <1>1, <1>2, <1>3, <1>8, <1>9, <1>13, Exits, Zenon
<1>14. QED
  BY Zenon, <1>11, <1>12, <1>13

\* The panic of an assertion of vm_fault stops every thread.
LEMMA Panics == ASSUME IInv, NEW t \in Threads, panic(t) PROVE IInv'
<1>1. /\ cur' = None
      /\ UNCHANGED <<stage, fault, space, tlb, firstpaddr, kernelpages, mem, expect>>
  BY Zenon DEF panic
<1>2. TypeInv'
  BY Zenon, <1>1 DEF IInv, TypeInv
<1>3. TlbTrue'
  BY Zenon, <1>1, AddrSpaceAssumption DEF TlbTrue
<1>4. \A u \in Threads : StageTrue(u)' /\ RowTrue(u)' /\ WordsTrue(u)'
  BY <1>1 DEF IInv, StageTrue, RowTrue, WordsTrue, Ready
<1>5. \A u, x \in Threads : u # x => Apart(u, x)'
  BY Zenon, <1>1 DEF IInv, Apart, Ready
<1>6. QED
  BY Zenon, <1>2, <1>3, <1>4, <1>5 DEF IInv

\* A program that ends.
LEMMA Ends == ASSUME IInv, NEW t \in Threads, sys_exit(t) PROVE IInv'
<1>1. /\ cur = t /\ thread_exit(t)
      /\ UNCHANGED <<cur, tlb, firstpaddr, kernelpages, mem>>
  BY Zenon DEF sys_exit, Running
<1>2. tlb \in [Slots -> Entries \cup {None}]
  BY DEF IInv, TypeInv
<1>3. QED
  BY Zenon, <1>1, <1>2, Still, Exits
-----------------------------------------------------------------------------
\* The words of RAM, all of them.
Memory(m) == m = [w \in Words |-> m[w]]

\* memmove copies n whole pages and leaves the rest of the memory alone.
Moved(r, m, dst, src, n) ==
  /\ Memory(r)
  /\ \A w \in Words : Page(w) < dst \/ Page(w) >= dst + n => r[w] = m[w]
  /\ \A f, o \in Nat :
       f >= dst /\ f < dst + n /\ f < NFrames /\ o < PageSize =>
         r[f * PageSize + o] = m[((f - dst) + src) * PageSize + o]

\* Move is that memmove.
LEMMA Moves ==
  ASSUME NEW m, Memory(m), NEW dst \in Nat, NEW src \in Nat, NEW n \in Nat
  PROVE  Moved(Move(m, dst, src, n), m, dst, src, n)
<1> DEFINE r == Move(m, dst, src, n)
<1>1. DOMAIN m = Words
  BY Zenon DEF Memory
<1>2. r = [w \in Words |-> IF Page(w) \in dst .. dst + n - 1
                           THEN m[w - dst * PageSize + src * PageSize] ELSE m[w]]
  BY Zenon, <1>1 DEF Move
<1>3. PageSize \in Nat /\ NFrames \in Nat
  BY Zenon, AddrSpaceAssumption
<1>4. \A w \in Words : w \in Nat /\ Page(w) \in Nat
  <2>1. Words \subseteq Nat
    BY <1>3 DEF Words
  <2>2. QED
    BY Zenon, <2>1, Paging
<1> HIDE DEF r
<1>5. ASSUME NEW w \in Words, Page(w) < dst \/ Page(w) >= dst + n PROVE r[w] = m[w]
  <2>1. Page(w) \notin dst .. dst + n - 1
    BY <1>4, <1>5
  <2>2. QED
    BY Zenon, <1>2, <2>1
<1>6. ASSUME NEW f \in Nat, NEW o \in Nat, f >= dst, f < dst + n, f < NFrames, o < PageSize
      PROVE  r[f * PageSize + o] = m[((f - dst) + src) * PageSize + o]
  <2>1. PICK w \in Words : w = f * PageSize + o
    BY Zenon, <1>6, Paging
  <2>2. Page(w) = f
    BY Zenon, <1>6, <2>1, Paging
  <2>3. Page(w) \in dst .. dst + n - 1
    BY <1>6, <2>2
  <2>4. w - dst * PageSize + src * PageSize = ((f - dst) + src) * PageSize + o
    BY <1>3, <2>1
  <2>5. QED
    BY Zenon, <1>2, <2>1, <2>3, <2>4
<1>7. QED
  BY <1>2, <1>5, <1>6, Zenon DEF r, Memory, Moved

\* Two spaces with the same regions translate an address to the same place of
\* their rows.
LEMMA Shifts ==
  ASSUME NEW a \in Spaces, NEW b \in Spaces, Prepared(a), Prepared(b),
         b.vbase1 = a.vbase1, b.npages1 = a.npages1,
         b.vbase2 = a.vbase2, b.npages2 = a.npages2,
         NEW p \in Nat, Translate(a, p) # 0
  PROVE  /\ Translate(b, p) = Translate(a, p) + (b.pbase1 - a.pbase1)
         /\ Translate(b, p) # 0
<1>1. /\ a.vbase1 \in Nat /\ a.npages1 \in Nat /\ a.pbase1 \in Nat
      /\ a.vbase2 \in Nat /\ a.npages2 \in Nat /\ a.pbase2 \in Nat
      /\ a.stackpbase \in Nat /\ StackPages \in Nat /\ UserStack \in Nat
      /\ b.pbase1 \in Nat /\ b.pbase2 \in Nat /\ b.stackpbase \in Nat
  BY Zenon, AddrSpaceAssumption DEF Spaces
<1>2. /\ a.pbase1 >= 1 /\ a.pbase2 = a.pbase1 + a.npages1
      /\ a.stackpbase = a.pbase2 + a.npages2
      /\ b.pbase1 >= 1 /\ b.pbase2 = b.pbase1 + a.npages1
      /\ b.stackpbase = b.pbase2 + a.npages2
  BY Zenon DEF Prepared
<1>3. CASE p >= a.vbase1 /\ p < a.vbase1 + a.npages1
  <2>1. Translate(a, p) = a.pbase1 + (p - a.vbase1) /\ Translate(b, p) = b.pbase1 + (p - a.vbase1)
    BY Zenon, <1>3 DEF Translate
  <2>2. QED
    BY <1>1, <1>2, <1>3, <2>1
<1>4. CASE /\ ~(p >= a.vbase1 /\ p < a.vbase1 + a.npages1)
           /\ p >= a.vbase2 /\ p < a.vbase2 + a.npages2
  <2>1. Translate(a, p) = a.pbase2 + (p - a.vbase2) /\ Translate(b, p) = b.pbase2 + (p - a.vbase2)
    BY Zenon, <1>4 DEF Translate
  <2>2. PICK x \in Nat : x = p - a.vbase2
    BY <1>1, <1>4
  <2>3. a.pbase2 = a.pbase1 + a.npages1 /\ b.pbase2 = b.pbase1 + a.npages1
    BY Zenon, <1>2
  <2>4. Translate(a, p) = a.pbase1 + a.npages1 + x /\ Translate(b, p) = b.pbase1 + a.npages1 + x
    BY Zenon, <2>1, <2>2, <2>3
  <2>5. QED
    BY <1>1, <1>2, <2>4
<1>5. CASE /\ ~(p >= a.vbase1 /\ p < a.vbase1 + a.npages1)
           /\ ~(p >= a.vbase2 /\ p < a.vbase2 + a.npages2)
  <2>1. p >= UserStack - StackPages /\ p < UserStack
    BY Zenon, <1>5 DEF Translate
  <2>2. /\ Translate(a, p) = a.stackpbase + (p - (UserStack - StackPages))
        /\ Translate(b, p) = b.stackpbase + (p - (UserStack - StackPages))
    BY Zenon, <1>5, <2>1 DEF Translate
  <2>3. QED
    BY <1>1, <1>2, <2>1, <2>2
<1>6. QED
  BY Zenon, <1>3, <1>4, <1>5

\* as_copy gives the copy a row of its own and the contents of the old one; it
\* writes to no frame that was handed out before.
LEMMA Copied ==
  ASSUME NEW old \in Spaces, Prepared(old), NEW first \in Nat, first >= 1,
         first <= NFrames, End(old) <= first, NEW m, Memory(m)
  PROVE  LET r == as_copy(old, m, first)
         IN /\ r.next \in Nat /\ r.next >= first /\ r.next <= NFrames
            /\ Memory(r.mem)
            /\ \A w \in Words : Page(w) < first => r.mem[w] = m[w]
            /\ r.err = "OK" =>
                 /\ r.as \in Spaces /\ Prepared(r.as)
                 /\ r.as.pbase1 = first /\ End(r.as) = r.next
                 /\ r.as.vbase1 = old.vbase1 /\ r.as.npages1 = old.npages1
                 /\ r.as.vbase2 = old.vbase2 /\ r.as.npages2 = old.npages2
                 /\ \A f, o \in Nat :
                      f >= old.pbase1 /\ f < End(old) /\ o < PageSize =>
                        r.mem[(f + (first - old.pbase1)) * PageSize + o]
                          = m[f * PageSize + o]
<1> DEFINE new == [as_create EXCEPT
                     !.vbase1 = old.vbase1, !.npages1 = old.npages1,
                     !.vbase2 = old.vbase2, !.npages2 = old.npages2]
           q == as_prepare_load(new, first)
           m1 == Move(m, q.as.pbase1, old.pbase1, old.npages1)
           m2 == Move(m1, q.as.pbase2, old.pbase2, old.npages2)
           m3 == Move(m2, q.as.stackpbase, old.stackpbase, StackPages)
           r == as_copy(old, m, first)
<1>1. /\ old.vbase1 \in Nat /\ old.npages1 \in Nat /\ old.pbase1 \in Nat
      /\ old.vbase2 \in Nat /\ old.npages2 \in Nat /\ old.pbase2 \in Nat
      /\ old.stackpbase \in Nat /\ StackPages \in Nat /\ NFrames \in Nat
      /\ PageSize \in Nat
  BY Zenon, AddrSpaceAssumption DEF Spaces
<1>2. /\ old.pbase1 >= 1 /\ old.pbase2 = old.pbase1 + old.npages1
      /\ old.stackpbase = old.pbase2 + old.npages2 /\ End(old) = old.stackpbase + StackPages
  BY Zenon DEF Prepared, End
<1>3. as_create \in Spaces
  BY Zenon, Stays
<1>4. /\ new \in Spaces /\ new.vbase1 = old.vbase1 /\ new.npages1 = old.npages1
      /\ new.vbase2 = old.vbase2 /\ new.npages2 = old.npages2
  <2>1. PICK v1 \in Nat, n1 \in Nat, v2 \in Nat, n2 \in Nat :
          v1 = old.vbase1 /\ n1 = old.npages1 /\ v2 = old.vbase2 /\ n2 = old.npages2
    BY Zenon, <1>1
  <2>2. new = [as_create EXCEPT !.vbase1 = v1, !.npages1 = n1, !.vbase2 = v2, !.npages2 = n2]
    BY <2>1
  <2> HIDE DEF new
  <2>3. /\ new \in Spaces /\ new.vbase1 = v1 /\ new.npages1 = n1
        /\ new.vbase2 = v2 /\ new.npages2 = n2
    BY <1>3, <2>2, Zenon DEF Spaces
  <2>4. QED
    BY Zenon, <2>1, <2>3
<1>5. r = [as |-> q.as, next |-> q.next, err |-> q.err,
           mem |-> IF q.err = "OK" THEN m3 ELSE m]
  BY Zenon DEF as_copy
<1>6. r.as = q.as /\ r.next = q.next /\ r.err = q.err
      /\ r.mem = IF q.err = "OK" THEN m3 ELSE m
  BY <1>5
<1> HIDE DEF new
<1>7. /\ q.next \in Nat /\ q.next >= first /\ q.next <= NFrames
      /\ q.err = "OK" =>
           /\ q.as \in Spaces /\ Prepared(q.as)
           /\ q.as.pbase1 = first /\ End(q.as) = q.next
           /\ q.as.vbase1 = old.vbase1 /\ q.as.npages1 = old.npages1
           /\ q.as.vbase2 = old.vbase2 /\ q.as.npages2 = old.npages2
  BY Zenon, <1>4, Prepares
<1> HIDE DEF q, r
<1>8. CASE ~(q.err = "OK")
  BY Zenon, <1>6, <1>7, <1>8 DEF r
<1>9. CASE q.err = "OK"
  <2>1. /\ q.as.pbase1 = first /\ q.as.pbase2 = first + old.npages1
        /\ q.as.stackpbase = first + old.npages1 + old.npages2
        /\ q.next = first + old.npages1 + old.npages2 + StackPages
    <3>1. /\ q.as.pbase2 = q.as.pbase1 + q.as.npages1
          /\ q.as.stackpbase = q.as.pbase2 + q.as.npages2
          /\ End(q.as) = q.as.stackpbase + StackPages
      BY Zenon, <1>7, <1>9 DEF Prepared, End
    <3>2. QED
      BY Zenon, <1>1, <1>7, <1>9, <3>1
  <2>2. PICK b2 \in Nat : b2 = first + old.npages1
    BY <1>1
  <2>3. PICK b3 \in Nat : b3 = first + old.npages1 + old.npages2
    BY <1>1
  <2>4. /\ Memory(m1)
        /\ \A w \in Words : Page(w) < first \/ Page(w) >= first + old.npages1 => m1[w] = m[w]
        /\ \A f, o \in Nat :
             f >= first /\ f < first + old.npages1 /\ f < NFrames /\ o < PageSize =>
               m1[f * PageSize + o] = m[((f - first) + old.pbase1) * PageSize + o]
    <3>1. m1 = Move(m, first, old.pbase1, old.npages1)
      BY Zenon, <2>1
    <3>2. Moved(m1, m, first, old.pbase1, old.npages1)
      BY Zenon, <1>1, <3>1, Moves
    <3> HIDE DEF m1
    <3>3. QED
      BY Zenon, <3>2 DEF Moved
  <2> HIDE DEF m1
  <2>5. /\ Memory(m2)
        /\ \A w \in Words : Page(w) < b2 \/ Page(w) >= b2 + old.npages2 => m2[w] = m1[w]
        /\ \A f, o \in Nat :
             f >= b2 /\ f < b2 + old.npages2 /\ f < NFrames /\ o < PageSize =>
               m2[f * PageSize + o] = m1[((f - b2) + old.pbase2) * PageSize + o]
    <3>1. m2 = Move(m1, b2, old.pbase2, old.npages2)
      BY Zenon, <2>1, <2>2
    <3>2. Moved(m2, m1, b2, old.pbase2, old.npages2)
      BY Zenon, <1>1, <2>4, <3>1, Moves
    <3> HIDE DEF m2
    <3>3. QED
      BY Zenon, <3>2 DEF Moved
  <2> HIDE DEF m2
  <2>6. /\ Memory(m3)
        /\ \A w \in Words : Page(w) < b3 \/ Page(w) >= b3 + StackPages => m3[w] = m2[w]
        /\ \A f, o \in Nat :
             f >= b3 /\ f < b3 + StackPages /\ f < NFrames /\ o < PageSize =>
               m3[f * PageSize + o] = m2[((f - b3) + old.stackpbase) * PageSize + o]
    <3>1. m3 = Move(m2, b3, old.stackpbase, StackPages)
      BY Zenon, <2>1, <2>3
    <3>2. Moved(m3, m2, b3, old.stackpbase, StackPages)
      BY Zenon, <1>1, <2>5, <3>1, Moves
    <3> HIDE DEF m3
    <3>3. QED
      BY Zenon, <3>2 DEF Moved
  <2> HIDE DEF m3
  <2>7. \A w \in Words : Page(w) \in Nat
    <3>1. Words \subseteq Nat
      BY <1>1 DEF Words
    <3>2. QED
      BY Zenon, <3>1, Paging
  <2>8. \A w \in Words : Page(w) < first => m1[w] = m[w] /\ m2[w] = m[w] /\ m3[w] = m[w]
    BY <1>1, <2>2, <2>3, <2>4, <2>5, <2>6, <2>7
  <2>9. ASSUME NEW f \in Nat, NEW o \in Nat, f >= old.pbase1, f < End(old), o < PageSize
        PROVE  m3[(f + (first - old.pbase1)) * PageSize + o] = m[f * PageSize + o]
    <3>1. PICK d \in Nat : d = first - old.pbase1
      BY <1>1, <1>2
    <3>2. PICK F \in Nat : F = f + d
      OBVIOUS
    <3>3. /\ F >= first /\ F < b3 + StackPages /\ F < NFrames /\ f < first /\ f < NFrames
          /\ F - first + old.pbase1 = f
          /\ F - b2 + old.pbase2 = f /\ F - b3 + old.stackpbase = f
      BY <1>1, <1>2, <1>7, <2>1, <2>2, <2>3, <2>9, <3>1, <3>2
    <3>4. PICK w \in Words : w = F * PageSize + o
      BY Zenon, <2>9, <3>3, Paging
    <3>5. PICK y \in Words : y = f * PageSize + o
      BY Zenon, <2>9, <3>3, Paging
    <3>6. Page(w) = F /\ Page(y) = f
      BY Zenon, <2>9, <3>4, <3>5, Paging
    <3>7. m1[y] = m[y] /\ m2[y] = m[y]
      BY Zenon, <2>8, <3>3, <3>6
    <3>8. CASE F >= b3
      <4>1. m3[w] = m2[y]
        BY <2>6, <2>9, <3>3, <3>4, <3>5, <3>8
      <4>2. QED
        BY Zenon, <3>1, <3>2, <3>4, <3>5, <3>7, <4>1
    <3>9. CASE F >= b2 /\ F < b3
      <4>1. m3[w] = m2[w]
        BY Zenon, <2>6, <3>6, <3>9
      <4>2. F < b2 + old.npages2
        BY Zenon, <1>1, <2>2, <2>3, <3>9
      <4>3. m2[w] = m1[y]
        BY <2>5, <2>9, <3>3, <3>4, <3>5, <3>9, <4>2
      <4>4. QED
        BY Zenon, <3>1, <3>2, <3>4, <3>5, <3>7, <4>1, <4>3
    <3>10. CASE F < b2
      <4>1. F < b3 /\ F < first + old.npages1
        BY <1>1, <2>2, <2>3, <3>10
      <4>2. m3[w] = m2[w] /\ m2[w] = m1[w]
        BY Zenon, <2>5, <2>6, <3>6, <3>10, <4>1
      <4>3. m1[w] = m[y]
        BY <2>4, <2>9, <3>3, <3>4, <3>5, <4>1
      <4>4. QED
        BY Zenon, <3>1, <3>2, <3>4, <3>5, <4>2, <4>3
    <3>11. QED
      BY <3>8, <3>9, <3>10
  <2>10. r.mem = m3
    BY Zenon, <1>6, <1>9
  <2>11. QED
    BY Zenon, <1>6, <1>7, <1>9, <2>6, <2>8, <2>9, <2>10 DEF r
<1>10. QED
  BY <1>8, <1>9, Zenon

\* fork hands frames out, and writes to new frames only, whether or not it works.
LEMMA ForkGrows ==
  ASSUME IInv, NEW t \in Threads, Ready(t), NEW k \in Kmalloc
  PROVE  LET m == KernelWrites(mem, k.pages)
             r == as_copy(space[t], m, k.next)
         IN /\ Memory(m) /\ Memory(r.mem)
            /\ \A w \in Words : Page(w) < firstpaddr => m[w] = mem[w] /\ r.mem[w] = mem[w]
            /\ k.next \in Nat /\ k.next >= firstpaddr /\ k.next <= NFrames
            /\ r.next \in Nat /\ r.next >= k.next /\ r.next <= NFrames
            /\ r.err = "OK" =>
                 /\ r.as \in Spaces /\ Prepared(r.as)
                 /\ r.as.pbase1 = k.next /\ End(r.as) = r.next
            /\ r.err = "OK" => \A v \in Nat :
                 Translate(space[t], Page(v)) # 0 =>
                   /\ Translate(r.as, Page(v)) # 0
                   /\ r.mem[Address(r.as, v)] = mem[Address(space[t], v)]
<1> DEFINE m == KernelWrites(mem, k.pages)
           r == as_copy(space[t], m, k.next)
<1>1. /\ space[t] \in Spaces /\ Prepared(space[t]) /\ space[t].pbase1 \in Nat
      /\ End(space[t]) \in Nat /\ End(space[t]) <= firstpaddr
  BY Zenon, Rows
<1>2. firstpaddr \in Nat /\ firstpaddr >= 1 /\ NFrames \in Nat
  BY Zenon, AddrSpaceAssumption DEF IInv, TypeInv
<1>3. /\ k.next \in Nat /\ k.next >= firstpaddr /\ k.next <= NFrames
      /\ m = [w \in Words |-> m[w]]
      /\ \A w \in Words : m[w] = mem[w] \/ Page(w) >= firstpaddr
  BY Zenon, Kmallocs
<1> HIDE DEF m
<1>4. Memory(m) /\ k.next >= 1 /\ End(space[t]) <= k.next
  BY <1>1, <1>2, <1>3 DEF Memory
<1>5. /\ r.next \in Nat /\ r.next >= k.next /\ r.next <= NFrames
      /\ Memory(r.mem)
      /\ \A w \in Words : Page(w) < k.next => r.mem[w] = m[w]
      /\ r.err = "OK" =>
           /\ r.as \in Spaces /\ Prepared(r.as)
           /\ r.as.pbase1 = k.next /\ End(r.as) = r.next
           /\ r.as.vbase1 = space[t].vbase1 /\ r.as.npages1 = space[t].npages1
           /\ r.as.vbase2 = space[t].vbase2 /\ r.as.npages2 = space[t].npages2
           /\ \A f, o \in Nat :
                f >= space[t].pbase1 /\ f < End(space[t]) /\ o < PageSize =>
                  r.mem[(f + (k.next - space[t].pbase1)) * PageSize + o]
                    = m[f * PageSize + o]
  BY <1>1, <1>3, <1>4, Copied
<1> HIDE DEF r
<1>6. ASSUME NEW w \in Words, Page(w) < firstpaddr PROVE m[w] = mem[w] /\ r.mem[w] = mem[w]
  <2>1. w \in Nat
    BY <1>2, AddrSpaceAssumption DEF Words
  <2>2. Page(w) \in Nat
    BY <2>1, Paging
  <2>3. ~(Page(w) >= firstpaddr) /\ Page(w) < k.next
    BY <1>2, <1>3, <1>6, <2>2
  <2>4. QED
    BY <1>3, <1>5, <2>3
<1>7. ASSUME r.err = "OK", NEW v \in Nat, Translate(space[t], Page(v)) # 0
      PROVE  /\ Translate(r.as, Page(v)) # 0
             /\ r.mem[Address(r.as, v)] = mem[Address(space[t], v)]
  <2>1. PICK f \in Nat : f = Translate(space[t], Page(v))
    BY Zenon, <1>7, Addresses
  <2>2. /\ f >= space[t].pbase1 /\ f < End(space[t]) /\ f < firstpaddr
        /\ Address(space[t], v) \in Words /\ Page(Address(space[t], v)) = f
    BY Zenon, <1>7, <2>1, Addresses
  <2>3. PICK o \in Nat : o = v % PageSize /\ o < PageSize
    <3>1. v % PageSize \in Nat /\ v % PageSize < PageSize
      BY Zenon, Paging, AddrSpaceAssumption
    <3>2. QED
      BY Zenon, <3>1
  <2>4. Page(v) \in Nat
    BY Paging
  <2>5. Translate(r.as, Page(v)) = f + (k.next - space[t].pbase1) /\ Translate(r.as, Page(v)) # 0
    BY <1>1, <1>5, <1>7, <2>1, <2>4, Shifts
  <2>6. Address(r.as, v) = (f + (k.next - space[t].pbase1)) * PageSize + o
        /\ Address(space[t], v) = f * PageSize + o
    BY Zenon, <2>1, <2>3, <2>5 DEF Address
  <2>7. r.mem[Address(r.as, v)] = m[Address(space[t], v)]
    BY <1>5, <1>7, <2>2, <2>3, <2>6
  <2>8. m[Address(space[t], v)] = mem[Address(space[t], v)]
    BY Zenon, <1>6, <2>2
  <2>9. QED
    BY Zenon, <2>5, <2>7, <2>8
<1>8. QED
  BY <1>3, <1>4, <1>5, <1>6, <1>7, Zenon DEF m, r

\* fork leaves the parent as it is, and the child, if there is one, with a copy
\* of its memory in frames nobody has had.
LEMMA Forks == ASSUME IInv, NEW t \in Threads, sys_fork(t) PROVE IInv'
<1>1. cur = t /\ stage[t].at = "user" /\ cur' = cur /\ fault' = fault
  BY Zenon DEF sys_fork, Running
<1>2. Ready(t)
  BY Zenon, <1>1 DEF Ready
<1>3. PICK c \in Threads, k \in Kmalloc, made \in BOOLEAN :
        /\ stage[c].at = "none"
        /\ kernelpages' = kernelpages \cup k.pages
        /\ LET m == KernelWrites(mem, k.pages)
               r == as_copy(space[t], m, k.next)
           IN /\ firstpaddr' = IF k.ok THEN r.next ELSE k.next
              /\ mem' = IF k.ok THEN r.mem ELSE m
              /\ IF k.ok /\ r.err = "OK" /\ made
                 THEN /\ space' = [space EXCEPT ![c] = r.as]
                      /\ stage' = [stage EXCEPT ![c] = At("user")]
                      /\ expect' = [expect EXCEPT ![c] = expect[t]]
                      /\ tlb' = as_activate
                 ELSE UNCHANGED <<space, stage, expect, tlb>>
  BY DEF sys_fork
<1> DEFINE m == KernelWrites(mem, k.pages)
           r == as_copy(space[t], m, k.next)
<1>4. /\ Memory(m) /\ Memory(r.mem)
      /\ \A w \in Words : Page(w) < firstpaddr => m[w] = mem[w] /\ r.mem[w] = mem[w]
      /\ k.next \in Nat /\ k.next >= firstpaddr /\ k.next <= NFrames
      /\ r.next \in Nat /\ r.next >= k.next /\ r.next <= NFrames
      /\ r.err = "OK" =>
           /\ r.as \in Spaces /\ Prepared(r.as)
           /\ r.as.pbase1 = k.next /\ End(r.as) = r.next
      /\ r.err = "OK" => \A v \in Nat :
           Translate(space[t], Page(v)) # 0 =>
             /\ Translate(r.as, Page(v)) # 0
             /\ r.mem[Address(r.as, v)] = mem[Address(space[t], v)]
  BY <1>2, ForkGrows, Zenon
<1>5. /\ firstpaddr' = IF k.ok THEN r.next ELSE k.next
      /\ mem' = IF k.ok THEN r.mem ELSE m
      /\ IF k.ok /\ r.err = "OK" /\ made
         THEN /\ space' = [space EXCEPT ![c] = r.as]
              /\ stage' = [stage EXCEPT ![c] = At("user")]
              /\ expect' = [expect EXCEPT ![c] = expect[t]]
              /\ tlb' = as_activate
         ELSE UNCHANGED <<space, stage, expect, tlb>>
  BY Zenon, <1>3
<1> HIDE DEF r, m
<1>6. \A x \in k.pages : x \in Nat /\ x >= firstpaddr /\ x < k.next
  BY Kmallocs, Zenon
<1>7. /\ cur \in Threads /\ stage \in [Threads -> Stages]
      /\ fault \in [Threads -> Nat \cup {None}] /\ space \in [Threads -> Spaces \cup {None}]
      /\ tlb \in [Slots -> Entries \cup {None}]
      /\ expect = [u \in Threads |-> expect[u]]
      /\ \A u \in Threads : DOMAIN expect[u] \in SUBSET Nat
      /\ firstpaddr \in Nat /\ firstpaddr >= 1 /\ firstpaddr <= NFrames
      /\ kernelpages \in SUBSET Nat /\ \A x \in kernelpages : x < firstpaddr
  BY Zenon, <1>1 DEF IInv, TypeInv
<1>8. Grows
  <2>1. Memory(mem') /\ \A w \in Words : Page(w) < firstpaddr => mem'[w] = mem[w]
    BY Zenon, <1>4, <1>5
  <2>2. \A w \in Words : Page(w) \in Nat
    <3>1. Words \subseteq Nat
      BY AddrSpaceAssumption DEF Words
    <3>2. QED
      BY Zenon, <3>1, Paging
  <2>3. \A w \in Words : mem'[w] = mem[w] \/ Page(w) >= firstpaddr
    BY <1>7, <2>1, <2>2
  <2>4. /\ firstpaddr' \in Nat /\ firstpaddr' >= k.next /\ firstpaddr' >= firstpaddr
        /\ firstpaddr' <= NFrames
    BY <1>4, <1>5, <1>7
  <2>5. /\ kernelpages' \in SUBSET Nat
        /\ \A x \in kernelpages' : x \in kernelpages \/ (x >= firstpaddr /\ x < firstpaddr')
    BY <1>3, <1>4, <1>6, <1>7, <2>4
  <2>6. QED
    BY Zenon, <2>1, <2>3, <2>4, <2>5 DEF Grows, Memory
<1>9. c # t /\ space[c] = None /\ fault[c] = None /\ DOMAIN expect[c] = {} /\ ~Ready(c)
  BY Zenon, <1>1, <1>3 DEF IInv, StageTrue, Ready
<1>10. CASE ~(k.ok /\ r.err = "OK" /\ made)
  <2>1. UNCHANGED <<space, stage, expect, tlb>>
    BY Zenon, <1>5, <1>10
  <2>2. TypeInv'
    BY Zenon, <1>1, <1>7, <1>8, <2>1, Typed
  <2>3. Local(c)
    BY Zenon, <1>1, <1>8, <2>1, Locally
  <2>4. StageTrue(c)' /\ ~Ready(c)'
    BY Zenon, <1>1, <1>9, <2>1 DEF IInv, StageTrue, Ready
  <2>5. TlbTrue'
    BY <1>1, <2>1, Zenon DEF IInv, TlbTrue, Hit
  <2>6. QED
    BY Zenon, <2>2, <2>3, <2>4, <2>5, Idle
<1>11. CASE k.ok /\ r.err = "OK" /\ made
  <2>1. /\ space' = [space EXCEPT ![c] = r.as] /\ stage' = [stage EXCEPT ![c] = At("user")]
        /\ expect' = [expect EXCEPT ![c] = expect[t]] /\ tlb' = as_activate
        /\ firstpaddr' = r.next /\ mem' = r.mem
    BY Zenon, <1>5, <1>11
  <2>2. At("user") \in Stages /\ At("user").at = "user"
    BY Zenon DEF At, Stages
  <2>3. r.as \in Spaces /\ r.as # None
    BY Zenon, <1>4, <1>11, AddrSpaceAssumption
  <2>4. /\ stage' \in [Threads -> Stages] /\ stage'[c].at = "user"
        /\ \A u \in Threads : u # c => stage'[u] = stage[u]
    BY Zenon, <1>7, <2>1, <2>2
  <2>5. /\ space' \in [Threads -> Spaces \cup {None}] /\ space'[c] = r.as
        /\ \A u \in Threads : u # c => space'[u] = space[u]
    BY Zenon, <1>7, <2>1, <2>3
  <2>6. /\ expect' = [u \in Threads |-> expect'[u]] /\ expect'[c] = expect[t]
        /\ \A u \in Threads : u # c => expect'[u] = expect[u]
    BY Zenon, <1>7, <2>1
  <2>7. TypeInv'
    BY Zenon, <1>1, <1>7, <1>8, <2>1, <2>4, <2>5, <2>6, Stays, Typed
  <2>8. Local(c)
    BY Zenon, <1>1, <1>8, <2>4, <2>5, <2>6, Locally
  <2>9. StageTrue(c)' /\ Ready(c)'
    BY Zenon, <1>1, <1>9, <2>3, <2>4, <2>5 DEF StageTrue, Ready
  <2>10. RowTrue(c)'
    <3>1. Prepared(r.as) /\ End(r.as) = firstpaddr' /\ r.as.pbase1 = k.next
      BY Zenon, <1>4, <1>11, <2>1
    <3>2. \A x \in kernelpages' : x < k.next
      BY <1>3, <1>4, <1>6, <1>7
    <3>3. firstpaddr' <= firstpaddr'
      BY <1>8 DEF Grows
    <3>4. QED
      BY Zenon, <2>5, <3>1, <3>2, <3>3 DEF RowTrue
  <2>11. WordsTrue(c)'
    <3>1. SUFFICES ASSUME NEW v \in DOMAIN expect[t]
                   PROVE  /\ Translate(r.as, Page(v)) # 0
                          /\ r.mem[Address(r.as, v)] = expect[t][v]
      BY Zenon, <2>1, <2>5, <2>6 DEF WordsTrue
    <3>2. Translate(space[t], Page(v)) # 0 /\ mem[Address(space[t], v)] = expect[t][v]
      BY Zenon, <3>1 DEF IInv, WordsTrue
    <3>3. v \in Nat
      BY Zenon, <1>7, <3>1
    <3>4. QED
      BY Zenon, <1>4, <1>11, <3>2, <3>3
  <2>12. ASSUME NEW u \in Threads, u # c PROVE Apart(c, u)'
    <3>1. SUFFICES ASSUME Ready(u)' PROVE End(space'[u]) <= space'[c].pbase1
      BY Zenon DEF Apart
    <3>2. Ready(u) /\ space'[u] = space[u]
      BY Zenon, <2>4, <2>5, <2>12, <3>1 DEF Ready
    <3>3. End(space[u]) \in Nat /\ End(space[u]) <= firstpaddr
      BY Zenon, <3>2, Rows
    <3>4. End(space[u]) <= k.next
      BY <1>4, <1>7, <3>3
    <3>5. QED
      BY <1>4, <1>11, <2>5, <3>2, <3>4, Zenon
  <2>13. TlbTrue'
    BY Zenon, <2>1, Empty DEF as_activate
  <2>14. QED
    BY Zenon, <2>7, <2>8, <2>9, <2>10, <2>11, <2>12, <2>13, Mine
<1>12. QED
  BY Zenon, <1>10, <1>11

\* The kernel starts with every frame but its own still free.
LEMMA Boots == Init => IInv
<1>1. SUFFICES ASSUME NEW t \in Threads, ram_bootstrap(t) PROVE IInv
  BY Zenon DEF Init
<1>2. /\ cur = t /\ stage = [u \in Threads |-> IF u = t THEN At("new") ELSE At("none")]
      /\ fault = [u \in Threads |-> None] /\ space = [u \in Threads |-> None]
      /\ tlb = as_activate /\ firstpaddr = 1 /\ kernelpages = {0}
      /\ mem = [w \in 0 .. NFrames * PageSize - 1 |-> None]
      /\ expect = [u \in Threads |-> <<>>]
  BY Zenon, <1>1 DEF ram_bootstrap
<1>3. /\ At("new") \in Stages /\ At("new").at = "new"
      /\ At("none") \in Stages /\ At("none").at = "none"
  BY Zenon DEF At, Stages
<1>4. stage \in [Threads -> Stages] /\ \A u \in Threads : stage[u].at \in {"new", "none"}
  BY Zenon, <1>2, <1>3
<1>5. \A u \in Threads : DOMAIN expect[u] = {}
  BY <1>2
<1>6. TypeInv
  <2>1. firstpaddr \in Nat /\ firstpaddr >= 1 /\ firstpaddr <= NFrames
        /\ kernelpages \in SUBSET Nat /\ \A k \in kernelpages : k < firstpaddr
    BY <1>2, AddrSpaceAssumption
  <2>2. mem = [w \in Words |-> mem[w]]
    BY Zenon, <1>2 DEF Words
  <2>3. QED
    BY Zenon, <1>2, <1>4, <1>5, <2>1, <2>2, Stays DEF TypeInv
<1>7. \A u \in Threads : StageTrue(u) /\ ~Ready(u)
  BY Zenon, <1>2, <1>4, <1>5 DEF StageTrue, Ready
<1>8. \A u \in Threads : RowTrue(u) /\ WordsTrue(u)
  BY Zenon, <1>5, <1>7 DEF RowTrue, WordsTrue
<1>9. \A u, x \in Threads : Apart(u, x)
  BY Zenon, <1>7 DEF Apart
<1>10. TlbTrue
  BY Zenon, <1>2 DEF TlbTrue
<1>11. QED
  BY Zenon, <1>6, <1>7, <1>8, <1>9, <1>10 DEF IInv

\* The invariant is inductive.
THEOREM SpacesStaySound == Spec => []IInv
<1>1. IInv /\ [Next]_vars => IInv'
  <2>1. SUFFICES ASSUME IInv, [Next]_vars PROVE IInv'
    BY Zenon
  <2>2. CASE UNCHANGED vars
    BY <2>1, <2>2, ZenonT(30) DEF vars, IInv, TypeInv, TlbTrue, StageTrue, RowTrue, WordsTrue, Apart, Ready, Hit
  <2>3. CASE Next
    BY <2>1, <2>3, Switch, Starts, Runs, Reads, GetsFrames, Loads, Stores, Copies,
       Handles, Panics, Forks, Ends DEF Next
  <2>4. QED
    BY Zenon, <2>1, <2>2, <2>3
<1>2. QED
  BY <1>1, Boots, PTL DEF Spec

\* TlbCurrent: every translation in the TLB is the running program's own.
THEOREM TlbStaysCurrent == Spec => []TlbCurrent
<1>1. IInv => TlbCurrent
  BY Zenon DEF IInv, TypeInv, TlbTrue, TlbCurrent
<1>2. QED
  BY <1>1, SpacesStaySound, PTL

\* MemoryPrivate: a program's words are what it, the loader, the kernel's
\* copyout, or its parent before the fork put there.
THEOREM MemoryStaysPrivate == Spec => []MemoryPrivate
<1>1. IInv => MemoryPrivate
  BY DEF IInv, WordsTrue, MemoryPrivate, Address
<1>2. QED
  BY <1>1, SpacesStaySound, PTL
=============================================================================
