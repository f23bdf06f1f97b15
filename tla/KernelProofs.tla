---------------------------- MODULE KernelProofs ----------------------------
(***************************************************************************)
(* Traps and interrupts, and the kernel heap: InterruptsSound of Traps and *)
(* HeapSound of KHeap, for every value of the constants.                   *)
(*                                                                         *)
(* For any number of threads, devices and nested traps, the interrupt      *)
(* level, the processor's enable bit and in_interrupt are what the code    *)
(* the CPU executes takes them for, and handlers are called only for lines *)
(* that are asserted.  InterruptsSound speaks of the innermost frame of    *)
(* the running thread only.  What makes it inductive (IInv) is what each   *)
(* frame has saved: the levels that the frame below it had, and whether a  *)
(* handler was below it; and for a thread that does not run, that it       *)
(* stands in a switch with its in_interrupt put away.                      *)
(*                                                                         *)
(* For any page size, block sizes, memory, number of pagerefs and          *)
(* requests, blocks of the heap do not overlap and are accounted for.      *)
(* HeapSound is not inductive: that a block comes off a free list apart    *)
(* from all others needs to know which blocks may be on the page it is on, *)
(* and that a freed block finds its page needs the pages of pagerefs in    *)
(* use to be different ones.  HeapInv says of each pageref in use what its *)
(* free list is, of each block held either which pageref it is of or that  *)
(* it is clear of the pages of all of them, and of the lists that they     *)
(* hold the pagerefs in use once.                                          *)
(***************************************************************************)
EXTENDS Traps, KHeap, TLAPS

Level == {0, 1}

Frame ==
  [pc : {"user", "lowering", "starting", "idle"}]
  \cup [pc : {"kernel"}, high : BOOLEAN]
  \cup [pc : {"switch"}, spl : Level]
  \cup [pc : {"trap"}, spl : Level, ie : Level]
  \cup [pc : {"bus", "reload"}, spl : Level, ie : Level, old_in : Level,
        slot : Nat, irqs : SUBSET Devices, duds : Nat]

\* The levels a frame executes with when it is the innermost.
Fits(f, spl, ie) ==
  /\ f.pc = "user" => spl = 0 /\ ie = 1
  /\ f.pc = "kernel" => spl = (IF f.high THEN 1 ELSE 0) /\ ie = 1 - spl
  /\ f.pc = "lowering" => ie = 1
  /\ f.pc = "idle" => spl = 1
  /\ f.pc \in {"switch", "starting", "bus", "reload"} => spl = 1 /\ ie = 0
  /\ f.pc # "trap"

HandlerIn(s) == \E i \in DOMAIN s : s[i].pc \in {"bus", "reload"}
SwitchIn(s) == \E i \in DOMAIN s : s[i].pc = "switch"
In(s) == IF HandlerIn(s) THEN 1 ELSE 0

\* What a frame needs of the frames s it lies on.
On(f, s) ==
  /\ f.pc \in {"user", "starting"} => s = <<>>
  /\ f.pc = "kernel" => s = <<>> \/ s[1].pc = "trap"
  /\ f.pc \notin {"user", "starting", "kernel"} => s # <<>>
  /\ f.pc = "lowering" => Fits(s[1], 0, 1)
  /\ f.pc = "idle" => s[1].pc = "switch"
  /\ f.pc = "switch" => Fits(s[1], f.spl, 1 - f.spl)
  /\ f.pc \in {"trap", "bus", "reload"} => Fits(s[1], f.spl, f.ie)
  /\ f.pc \in {"bus", "reload"} => f.old_in = In(s)
  /\ s # <<>> => s[1].pc # "bus"

Sound(s) ==
  /\ s \in Seq(Frame)
  /\ \A i \in 1 .. Len(s) : On(s[i], SubSeq(s, i + 1, Len(s)))

\* The thread whose stack the CPU is on.
RunningSound ==
  /\ stack[running] # <<>>
  /\ Fits(Top, curspl, iec)
  /\ in_interrupt = In(stack[running])
  /\ Top.pc = "bus" => Top.irqs \subseteq irq
  /\ curthread = None => SwitchIn(stack[running])

\* The others.
WaitingSound ==
  \A t \in Threads \ {running} :
    /\ pcb[t] = In(stack[t])
    /\ stack[t] # <<>> => stack[t][1].pc \in {"switch", "starting"}

TypeInv ==
  /\ running \in Threads /\ curthread \in {None, running}
  /\ iec \in Level /\ curspl \in Level
  /\ stack \in [Threads -> Seq(Frame)]
  /\ pcb \in [Threads -> Level]
  /\ ready \in SUBSET Threads /\ asleep \in SUBSET Threads
  /\ \A t \in ready \cup asleep : stack[t] # <<>>
  /\ irq \in SUBSET Devices
  /\ duds \in Nat

IInv ==
  /\ TypeInv
  /\ \A t \in Threads : Sound(stack[t])
  /\ RunningSound /\ WaitingSound
-----------------------------------------------------------------------------
\* Frames and stacks.

\* A set of naturals has a least element (MinFactHolds, at the end).
MinFact == \A S \in SUBSET Nat : S # {} => Min(S) \in S

\* What a frame pushed on a stack changes.
LEMMA Push ==
  ASSUME NEW f \in Frame, NEW s \in Seq(Frame), NEW c, c = <<f>> \o s
  PROVE  /\ c \in Seq(Frame) /\ c # <<>> /\ c[1] = f /\ Tail(c) = s
         /\ Len(c) = Len(s) + 1
         /\ HandlerIn(c) <=> (f.pc \in {"bus", "reload"} \/ HandlerIn(s))
         /\ SwitchIn(c) <=> (f.pc = "switch" \/ SwitchIn(s))
         /\ Sound(c) <=> (On(f, s) /\ Sound(s))
<1>1. /\ c \in Seq(Frame) /\ c # <<>> /\ c[1] = f /\ Tail(c) = s
      /\ Len(c) = Len(s) + 1 /\ Len(s) \in Nat
  OBVIOUS
<1>2. \A i \in 1 .. Len(s) : c[i + 1] = s[i]
  OBVIOUS
<1>3. /\ DOMAIN c = 1 .. Len(s) + 1 /\ DOMAIN s = 1 .. Len(s)
  BY <1>1
<1>4. \A i \in DOMAIN c : i = 1 \/ (i - 1 \in DOMAIN s /\ c[i] = s[i - 1])
  BY <1>1, <1>2, <1>3
<1>5. 1 \in DOMAIN c /\ \A i \in DOMAIN s : i + 1 \in DOMAIN c
  BY <1>1, <1>3
<1>6. HandlerIn(c) <=> (f.pc \in {"bus", "reload"} \/ HandlerIn(s))
  BY Zenon, <1>1, <1>2, <1>3, <1>4, <1>5 DEF HandlerIn
<1>7. SwitchIn(c) <=> (f.pc = "switch" \/ SwitchIn(s))
  BY ZenonT(30), <1>1, <1>2, <1>3, <1>4, <1>5 DEF SwitchIn
<1>8. SubSeq(c, 1 + 1, Len(c)) = s
  BY <1>1, <1>2
<1>9. \A i \in 1 .. Len(s) :
        SubSeq(c, i + 1 + 1, Len(c)) = SubSeq(s, i + 1, Len(s))
  BY <1>1, <1>2
<1>10. Sound(c) <=> (On(f, s) /\ Sound(s))
  <2>1. ASSUME Sound(c) PROVE On(f, s) /\ Sound(s)
    <3>1. On(c[1], SubSeq(c, 1 + 1, Len(c)))
      BY <1>1, <2>1 DEF Sound
    <3>2. ASSUME NEW i \in 1 .. Len(s) PROVE On(s[i], SubSeq(s, i + 1, Len(s)))
      <4>1. i + 1 \in 1 .. Len(c)
        BY <1>1
      <4>2. On(c[i + 1], SubSeq(c, i + 1 + 1, Len(c)))
        BY Zenon, <2>1, <4>1 DEF Sound
      <4>3. QED
        BY Zenon, <1>2, <1>9, <4>2
    <3>3. On(f, s)
      BY <1>1, <1>8, <3>1, Zenon
    <3>4. QED
      BY <3>2, <3>3 DEF Sound
  <2>2. ASSUME On(f, s), Sound(s) PROVE Sound(c)
    <3>1. SUFFICES ASSUME NEW i \in 1 .. Len(c)
                   PROVE  On(c[i], SubSeq(c, i + 1, Len(c)))
      BY Zenon, <1>1 DEF Sound
    <3>2. CASE i = 1
      BY <1>1, <1>8, <2>2, <3>2, Zenon
    <3>3. CASE i # 1
      <4>1. PICK j \in 1 .. Len(s) : i = j + 1
        BY <1>1, <1>3, <1>4, <3>3
      <4>2. On(s[j], SubSeq(s, j + 1, Len(s)))
        BY <2>2 DEF Sound
      <4>3. QED
        BY Zenon, <1>2, <1>9, <4>1, <4>2
    <3>4. QED
      BY <3>2, <3>3
  <2>3. QED
    BY <2>1, <2>2
<1>11. QED
  BY Zenon, <1>1, <1>6, <1>7, <1>10

\* A stack is its innermost frame and the rest.
LEMMA Split ==
  ASSUME NEW s \in Seq(Frame), s # <<>>
  PROVE  s[1] \in Frame /\ Tail(s) \in Seq(Frame) /\ s = <<s[1]>> \o Tail(s)
  OBVIOUS

\* The empty stack.
LEMMA Empty ==
  /\ <<>> \in Seq(Frame) /\ Sound(<<>>)
  /\ ~HandlerIn(<<>>) /\ ~SwitchIn(<<>>) /\ In(<<>>) = 0
  BY DEF Sound, HandlerIn, SwitchIn, In
-----------------------------------------------------------------------------
\* Steps.

\* A step that changes the stack of the running thread to c, with the levels c
\* takes them for, preserves the invariant.
LEMMA Replace ==
  ASSUME IInv, NEW c, Sound(c), c # <<>>,
         stack' = [stack EXCEPT ![running] = c],
         UNCHANGED <<running, pcb>>,
         curthread' \in {None, running},
         iec' \in Level, curspl' \in Level, Fits(c[1], curspl', iec'),
         ready' \in SUBSET (ready \cup asleep \cup {running}),
         asleep' \in SUBSET (asleep \cup {running}),
         irq' \in SUBSET Devices, duds' \in Nat,
         in_interrupt' = In(c),
         c[1].pc = "bus" => c[1].irqs \subseteq irq',
         curthread' = None => SwitchIn(c)
  PROVE  IInv'
<1>1. /\ running \in Threads /\ stack \in [Threads -> Seq(Frame)]
      /\ pcb \in [Threads -> Level]
      /\ ready \in SUBSET Threads /\ asleep \in SUBSET Threads
      /\ \A t \in ready \cup asleep : stack[t] # <<>>
      /\ \A t \in Threads : Sound(stack[t])
  BY DEF IInv, TypeInv
<1>2. c \in Seq(Frame)
  BY DEF Sound
<1>3. /\ stack' \in [Threads -> Seq(Frame)]
      /\ stack'[running] = c
      /\ \A t \in Threads \ {running} : stack'[t] = stack[t]
  BY <1>1, <1>2
<1>4. TypeInv'
  BY <1>1, <1>3 DEF TypeInv
<1>5. \A t \in Threads : Sound(stack'[t])
  BY <1>1, <1>3, Zenon
<1>6. RunningSound'
  BY Zenon, <1>3 DEF RunningSound, Top
<1>7. WaitingSound'
  BY <1>3 DEF IInv, WaitingSound
<1>8. QED
  BY <1>4, <1>5, <1>6, <1>7 DEF IInv

\* The innermost frame of the running thread and the rest.
LEMMA Innermost ==
  ASSUME IInv
  PROVE  /\ Top \in Frame /\ Rest \in Seq(Frame)
         /\ stack[running] \in Seq(Frame) /\ stack[running] # <<>>
         /\ stack[running] = <<Top>> \o Rest
         /\ On(Top, Rest) /\ Sound(Rest) /\ Sound(stack[running])
         /\ HandlerIn(stack[running]) <=> (Top.pc \in {"bus", "reload"} \/ HandlerIn(Rest))
         /\ SwitchIn(stack[running]) <=> (Top.pc = "switch" \/ SwitchIn(Rest))
         /\ Fits(Top, curspl, iec) /\ in_interrupt = In(stack[running])
<1>1. /\ stack[running] \in Seq(Frame) /\ stack[running] # <<>>
      /\ Sound(stack[running]) /\ Fits(Top, curspl, iec)
      /\ in_interrupt = In(stack[running])
  BY DEF IInv, TypeInv, RunningSound
<1>2. Top \in Frame /\ Rest \in Seq(Frame) /\ stack[running] = <<Top>> \o Rest
  BY <1>1, Split DEF Top, Rest
<1>3. QED
  BY ZenonT(30), <1>1, <1>2, Push

\* splx(spl, s) leaves the stack with the levels its frames take them for.
LEMMA SplxSound ==
  ASSUME IInv, NEW spl \in Level, NEW s \in Seq(Frame), Sound(s), s # <<>>,
         Fits(s[1], spl, 1 - spl), s[1].pc # "bus", splx(spl, s)
  PROVE  \E c : /\ Sound(c) /\ c # <<>> /\ stack' = [stack EXCEPT ![running] = c]
                /\ iec' \in Level /\ curspl' \in Level /\ Fits(c[1], curspl', iec')
                /\ In(c) = In(s) /\ (SwitchIn(c) <=> SwitchIn(s))
                /\ c[1].pc # "bus"
<1>0. curspl \in Level
  BY DEF IInv, TypeInv
<1>1. CASE spl = 0
  <2> DEFINE c == <<Lowering>> \o s
  <2>1. Lowering \in Frame /\ Lowering.pc = "lowering"
    BY DEF Lowering, Frame
  <2>2. On(Lowering, s)
    BY <1>1, <2>1 DEF On
  <2>3. /\ Sound(c) /\ c # <<>> /\ c[1] = Lowering
        /\ HandlerIn(c) <=> HandlerIn(s)
        /\ SwitchIn(c) <=> SwitchIn(s)
    BY Zenon, <2>1, <2>2, Push
  <2>4. Fits(Lowering, curspl, 1)
    BY <2>1 DEF Fits
  <2>5. stack' = [stack EXCEPT ![running] = c] /\ iec' = 1 /\ curspl' = curspl
    BY <1>1 DEF splx, SetStack
  <2> HIDE DEF c
  <2>6. Fits(c[1], curspl', iec') /\ In(c) = In(s) /\ c[1].pc # "bus"
    BY Zenon, <2>1, <2>3, <2>4, <2>5 DEF In
  <2>7. iec' \in Level /\ curspl' \in Level
    BY <1>0, <2>5 DEF Level
  <2>8. QED
    BY Zenon, <2>3, <2>5, <2>6, <2>7
<1>2. CASE spl = 1
  <2>1. stack' = [stack EXCEPT ![running] = s] /\ iec' = 0 /\ curspl' = 1
    BY <1>2 DEF splx, SetStack
  <2>2. Fits(s[1], curspl', iec') /\ iec' \in Level /\ curspl' \in Level
    BY <1>2, <2>1 DEF Level
  <2>3. QED
    BY Zenon, <2>1, <2>2
<1>3. QED
  BY <1>1, <1>2 DEF Level
\* The frames the steps make.
LEMMA Frames ==
  /\ \A h \in BOOLEAN : /\ Kernel(h) \in Frame /\ Kernel(h).pc = "kernel"
                        /\ Kernel(h).high = h
  /\ \A l \in Level : /\ Switching(l) \in Frame /\ Switching(l).pc = "switch"
                      /\ Switching(l).spl = l
  /\ Starting \in Frame /\ Starting.pc = "starting"
  /\ User \in Frame /\ User.pc = "user"
  /\ [pc |-> "idle"] \in Frame /\ [pc |-> "idle"].pc = "idle"
  BY DEF Frame, Kernel, Switching, Starting, User

\* A frame pushed on a stack that it may lie on.
LEMMA Pushed ==
  ASSUME NEW f \in Frame, NEW s \in Seq(Frame), Sound(s), On(f, s)
  PROVE  /\ <<f>> \o s \in Seq(Frame) /\ Sound(<<f>> \o s)
         /\ <<f>> \o s # <<>> /\ (<<f>> \o s)[1] = f
         /\ HandlerIn(<<f>> \o s) <=> (f.pc \in {"bus", "reload"} \/ HandlerIn(s))
         /\ SwitchIn(<<f>> \o s) <=> (f.pc = "switch" \/ SwitchIn(s))
  BY Push, Zenon

\* The second frame of a stack.
LEMMA Second ==
  ASSUME NEW s \in Seq(Frame), s # <<>>
  PROVE  /\ Len(s) > 1 => Tail(s) # <<>> /\ s[2] = Tail(s)[1]
         /\ Len(s) = 1 => Tail(s) = <<>>
<1>1. SUFFICES ASSUME NEW f \in Frame, NEW r \in Seq(Frame), s = <<f>> \o r, Tail(s) = r
               PROVE  /\ Len(s) > 1 => r # <<>> /\ s[2] = r[1]
                      /\ Len(s) = 1 => r = <<>>
  BY Zenon, Split
<1>2. Len(s) = Len(r) + 1 /\ Len(r) \in Nat
  BY <1>1
<1>3. Len(r) > 0 => s[2] = r[1]
  BY <1>1
<1>4. Len(r) > 0 => r # <<>>
  OBVIOUS
<1>5. Len(r) = 0 => r = <<>>
  OBVIOUS
<1>6. QED
  BY <1>2, <1>3, <1>4, <1>5

\* A frame alone on its stack.
LEMMA Alone ==
  ASSUME NEW f \in Frame, On(f, <<>>), f.pc \notin {"bus", "reload"}
  PROVE  /\ <<f>> \in Seq(Frame) /\ Sound(<<f>>) /\ <<f>> # <<>>
         /\ <<f>>[1] = f /\ ~HandlerIn(<<f>>)
<1> DEFINE s == <<f>>
<1>1. /\ s \in Seq(Frame) /\ s # <<>> /\ s[1] = f /\ Len(s) = 1 /\ DOMAIN s = {1}
      /\ SubSeq(s, 1 + 1, 1) = <<>>
  OBVIOUS
<1> HIDE DEF s
<1>2. \A i \in 1 .. 1 : i = 1
  OBVIOUS
<1>3. On(s[1], SubSeq(s, 1 + 1, Len(s)))
  BY <1>1, Zenon
<1>4. Sound(s)
  BY <1>1, <1>2, <1>3, Zenon DEF Sound
<1>5. ~HandlerIn(s)
  BY <1>1 DEF HandlerIn
<1>6. QED
  BY Zenon, <1>1, <1>4, <1>5 DEF s

\* A step that ends in splx(spl, s) preserves the invariant.
LEMMA SplxStep ==
  ASSUME IInv, NEW spl \in Level, NEW s \in Seq(Frame), Sound(s), s # <<>>,
         Fits(s[1], spl, 1 - spl), s[1].pc # "bus", splx(spl, s),
         UNCHANGED <<running, pcb, duds>>,
         curthread' \in {None, running},
         ready' \in SUBSET (ready \cup asleep \cup {running}),
         asleep' \in SUBSET asleep,
         irq' \in SUBSET Devices,
         in_interrupt' = In(s),
         curthread' = None => SwitchIn(s)
  PROVE  IInv'
<1>1. PICK c : /\ Sound(c) /\ c # <<>> /\ stack' = [stack EXCEPT ![running] = c]
               /\ iec' \in Level /\ curspl' \in Level /\ Fits(c[1], curspl', iec')
               /\ In(c) = In(s) /\ (SwitchIn(c) <=> SwitchIn(s))
               /\ c[1].pc # "bus"
  BY Zenon, SplxSound
<1>2. duds' \in Nat
  BY Zenon DEF IInv, TypeInv
<1>3. asleep' \in SUBSET (asleep \cup {running})
  BY Zenon
<1>4. QED
  BY Zenon, <1>1, <1>2, <1>3, Replace

\* What the steps find in the state.
LEMMA StackTypes ==
  ASSUME IInv
  PROVE  /\ running \in Threads /\ curthread \in {None, running} /\ running # None
         /\ iec \in Level /\ curspl \in Level
         /\ irq \in SUBSET Devices /\ duds \in Nat
         /\ curthread = None => SwitchIn(stack[running])
         /\ Top.pc = "bus" => Top.irqs \subseteq irq
  BY TrapsAssumption DEF IInv, TypeInv, RunningSound

\* splhigh and splx in a section, and the second half of splx.
LEMMA LevelSteps ==
  ASSUME IInv, SplxLowers \/ splhigh \/ EndSection
  PROVE  IInv'
<1>1. CASE SplxLowers
  <2>1. /\ Top.pc = "lowering" /\ curspl' = 0 /\ stack' = [stack EXCEPT ![running] = Rest]
        /\ UNCHANGED <<iec, in_interrupt, curthread, running, pcb, ready, asleep, irq, duds>>
    BY Zenon, <1>1 DEF SplxLowers, At, SetStack, threads, bus
  <2>2. /\ Rest # <<>> /\ Fits(Rest[1], 0, 1) /\ Rest[1].pc # "bus" /\ iec = 1
    BY Zenon, <2>1, Innermost DEF On, Fits
  <2>3. In(Rest) = In(stack[running]) /\ (SwitchIn(Rest) <=> SwitchIn(stack[running]))
    BY Zenon, <2>1, Innermost DEF In
  <2>4. iec' \in Level /\ curspl' \in Level /\ Fits(Rest[1], curspl', iec')
    BY Zenon, <2>1, <2>2 DEF Level
  <2>5. QED
    BY Zenon, <2>1, <2>2, <2>3, <2>4, Innermost, StackTypes, Replace
<1>2. CASE splhigh
  <2> DEFINE c == <<Kernel(TRUE)>> \o Rest
  <2>1. /\ Top.pc = "kernel" /\ iec' = 0 /\ curspl' = 1
        /\ stack' = [stack EXCEPT ![running] = c]
        /\ UNCHANGED <<in_interrupt, curthread, running, pcb, ready, asleep, irq, duds>>
    BY <1>2 DEF splhigh, At, SetStack, threads, bus
  <2>2. Kernel(TRUE) \in Frame /\ Kernel(TRUE).pc = "kernel" /\ On(Kernel(TRUE), Rest)
    BY Zenon, <2>1, Innermost, Frames DEF On
  <2>3. /\ Sound(c) /\ c # <<>> /\ c[1] = Kernel(TRUE)
        /\ HandlerIn(c) <=> HandlerIn(stack[running])
        /\ SwitchIn(c) <=> SwitchIn(stack[running])
    BY Zenon, <2>1, <2>2, Innermost, Pushed
  <2>4. Fits(Kernel(TRUE), 1, 0)
    BY DEF Fits, Kernel
  <2> HIDE DEF c
  <2>5. /\ In(c) = In(stack[running]) /\ c[1].pc # "bus"
        /\ iec' \in Level /\ curspl' \in Level /\ Fits(c[1], curspl', iec')
    BY Zenon, <2>1, <2>3, <2>4, Frames DEF In, Level
  <2>6. QED
    BY Zenon, <2>1, <2>3, <2>5, Innermost, StackTypes, Replace
<1>3. CASE EndSection
  <2> DEFINE s == <<Kernel(FALSE)>> \o Rest
  <2>1. /\ Top.pc = "kernel" /\ splx(0, s)
        /\ UNCHANGED <<in_interrupt, curthread, running, pcb, ready, asleep, irq, duds>>
    BY <1>3 DEF EndSection, At, threads, bus
  <2>2. Kernel(FALSE) \in Frame /\ Kernel(FALSE).pc = "kernel" /\ On(Kernel(FALSE), Rest)
    BY Zenon, <2>1, Innermost, Frames DEF On
  <2>3. /\ s \in Seq(Frame) /\ Sound(s) /\ s # <<>> /\ s[1] = Kernel(FALSE)
        /\ HandlerIn(s) <=> HandlerIn(stack[running])
        /\ SwitchIn(s) <=> SwitchIn(stack[running])
    BY Zenon, <2>1, <2>2, Innermost, Pushed
  <2>4. Fits(Kernel(FALSE), 0, 1 - 0)
    BY Zenon, Frames DEF Fits
  <2> HIDE DEF s
  <2>5. /\ In(s) = In(stack[running]) /\ s[1].pc # "bus" /\ Fits(s[1], 0, 1 - 0)
    BY Zenon, <2>3, <2>4, Frames DEF In
  <2>6. 0 \in Level
    BY DEF Level
  <2>7. QED
    BY Zenon, <2>1, <2>3, <2>5, <2>6, Innermost, StackTypes, SplxStep
<1>4. QED
  BY Zenon, <1>1, <1>2, <1>3

\* Giving up the processor: thread_yield in kernel code, and thread_sleep.
LEMMA YieldSteps ==
  ASSUME IInv, Yield \/ thread_sleep
  PROVE  IInv'
<1> DEFINE r == stack[running]
<1>1. ASSUME Top.pc = "kernel", NEW l \in Level, Fits(Top, l, 1 - l),
             stack' = [stack EXCEPT ![running] = <<Switching(l)>> \o r],
             iec' = 0, curspl' = 1, curthread' = None,
             UNCHANGED <<in_interrupt, running, pcb, irq, duds>>,
             ready' \in SUBSET (ready \cup {running}),
             asleep' \in SUBSET (asleep \cup {running})
      PROVE  IInv'
  <2> DEFINE c == <<Switching(l)>> \o r
  <2>1. r \in Seq(Frame) /\ r # <<>> /\ r[1] = Top /\ Sound(r)
    BY Zenon, Innermost DEF Top
  <2>2. Switching(l) \in Frame /\ Switching(l).pc = "switch" /\ On(Switching(l), r)
    BY Zenon, <1>1, <2>1, Frames DEF On
  <2>3. /\ Sound(c) /\ c # <<>> /\ c[1] = Switching(l)
        /\ HandlerIn(c) <=> HandlerIn(r)
        /\ SwitchIn(c)
    BY Zenon, <2>1, <2>2, Pushed
  <2>4. Fits(Switching(l), 1, 0)
    BY Zenon, Frames DEF Fits
  <2>5. stack' = [stack EXCEPT ![running] = c]
    BY Zenon, <1>1
  <2> HIDE DEF c
  <2>6. /\ In(c) = In(r) /\ c[1].pc # "bus"
        /\ iec' \in Level /\ curspl' \in Level /\ Fits(c[1], curspl', iec')
    BY <1>1, <2>3, <2>4, Frames DEF In, Level
  <2>7. QED
    BY Zenon, <1>1, <2>3, <2>5, <2>6, Innermost, StackTypes, Replace
<1>2. CASE Yield
  <2>1. /\ Top.pc = "kernel" /\ ~Top.high /\ thread_yield(r)
        /\ UNCHANGED <<in_interrupt, running, pcb, asleep, irq, duds>>
    BY Zenon, <1>2 DEF Yield, At, bus
  <2>2. curspl = 0 /\ Fits(Top, curspl, 1 - curspl)
    BY Zenon, <2>1, Innermost DEF Fits
  <2>3. CASE curthread = None
    <3>1. splx(curspl, r) /\ UNCHANGED <<curthread, ready>>
      BY Zenon, <2>1, <2>3 DEF thread_yield
    <3>2. /\ r \in Seq(Frame) /\ r # <<>> /\ r[1] = Top /\ Sound(r)
          /\ in_interrupt = In(r)
      BY Zenon, Innermost DEF Top
    <3> HIDE DEF r
    <3>3. SwitchIn(r)
      BY Zenon, <2>3, StackTypes DEF r
    <3>4. QED
      BY Zenon, <2>1, <2>2, <3>1, <3>2, <3>3, StackTypes, SplxStep
  <2>4. CASE curthread # None
    BY <1>1, <2>1, <2>2, <2>4, StackTypes DEF thread_yield, SetStack
  <2>5. QED
    BY Zenon, <2>3, <2>4
<1>3. CASE thread_sleep
  <2>1. /\ Top.pc = "kernel" /\ Top.high
        /\ stack' = [stack EXCEPT ![running] = <<Switching(1)>> \o r]
        /\ curthread' = None /\ asleep' = asleep \cup {running}
        /\ UNCHANGED <<iec, curspl, in_interrupt, running, pcb, ready, irq, duds>>
    BY Zenon, <1>3 DEF thread_sleep, At, SetStack, cpu, bus
  <2>2. curspl = 1 /\ iec = 0 /\ Fits(Top, 1, 1 - 1) /\ 1 \in Level
    BY <2>1, Innermost DEF Fits, Level
  <2>3. QED
    BY Zenon, <1>1, <2>1, <2>2
<1>4. QED
  BY <1>2, <1>3
\* The idle loop, and the way back from mi_switch.
LEMMA SwitchSteps ==
  ASSUME IInv, IdleOn \/ IdleOff \/ Resume \/ mi_threadstart
  PROVE  IInv'
<1>1. CASE IdleOn
  <2> DEFINE f == [pc |-> "idle"]
             c == <<f>> \o stack[running]
  <2>1. /\ Top.pc = "switch" /\ iec' = 1 /\ stack' = [stack EXCEPT ![running] = c]
        /\ UNCHANGED <<curspl, in_interrupt, curthread, running, pcb, ready, asleep,
                       irq, duds>>
    BY Zenon, <1>1 DEF IdleOn, At, SetStack, threads, bus
  <2>2. f \in Frame /\ f.pc = "idle"
    BY Frames
  <2> HIDE DEF f
  <2>3. stack[running][1] = Top
    BY Zenon DEF Top
  <2>4. On(f, stack[running]) /\ curspl = 1
    BY Zenon, <2>1, <2>2, <2>3, Innermost DEF On, Fits
  <2>5. /\ Sound(c) /\ c # <<>> /\ c[1] = f
        /\ HandlerIn(c) <=> HandlerIn(stack[running])
        /\ SwitchIn(c) <=> SwitchIn(stack[running])
    BY <2>2, <2>4, Innermost, Pushed
  <2> HIDE DEF c
  <2>6. Fits(f, 1, 1)
    BY Zenon, <2>2 DEF Fits
  <2>7. /\ In(c) = In(stack[running]) /\ c[1].pc # "bus"
        /\ iec' \in Level /\ curspl' \in Level /\ Fits(c[1], curspl', iec')
    BY Zenon, <2>1, <2>2, <2>4, <2>5, <2>6 DEF In, Level
  <2>8. QED
    BY Zenon, <2>1, <2>5, <2>7, Innermost, StackTypes, Replace
<1>2. CASE IdleOff
  <2>1. /\ Top.pc = "idle" /\ iec' = 0 /\ stack' = [stack EXCEPT ![running] = Rest]
        /\ UNCHANGED <<curspl, in_interrupt, curthread, running, pcb, ready, asleep,
                       irq, duds>>
    BY Zenon, <1>2 DEF IdleOff, At, SetStack, threads, bus
  <2>2. Rest # <<>> /\ Rest[1].pc = "switch" /\ curspl = 1
    BY Zenon, <2>1, Innermost DEF On, Fits
  <2>3. /\ In(Rest) = In(stack[running]) /\ (SwitchIn(Rest) <=> SwitchIn(stack[running]))
    BY Zenon, <2>1, Innermost DEF In
  <2>4. Fits(Rest[1], 1, 0)
    BY Zenon, <2>2 DEF Fits
  <2>5. iec' \in Level /\ curspl' \in Level /\ Fits(Rest[1], curspl', iec')
    BY Zenon, <2>1, <2>2, <2>4 DEF Level
  <2>6. QED
    BY Zenon, <2>1, <2>2, <2>3, <2>5, Innermost, StackTypes, Replace
<1>3. CASE Resume
  <2>1. /\ Top.pc = "switch" /\ curthread = running /\ splx(Top.spl, Rest)
        /\ UNCHANGED <<in_interrupt, curthread, running, pcb, ready, asleep, irq, duds>>
    BY Zenon, <1>3 DEF Resume, At, threads, bus
  <2>2. /\ Rest # <<>> /\ Fits(Rest[1], Top.spl, 1 - Top.spl) /\ Rest[1].pc # "bus"
    BY Zenon, <2>1, Innermost DEF On
  <2>3. Top.spl \in Level
    BY Zenon, <2>1, Innermost DEF Frame
  <2>4. In(Rest) = In(stack[running])
    BY Zenon, <2>1, Innermost DEF In
  <2>5. curthread' # None /\ curthread' \in {None, running}
    BY <2>1, StackTypes
  <2>6. QED
    BY Zenon, <2>1, <2>2, <2>3, <2>4, <2>5, Innermost, StackTypes, SplxStep
<1>4. CASE mi_threadstart
  <2> DEFINE s == <<Kernel(FALSE)>>
  <2>1. /\ Top.pc = "starting" /\ curthread = running /\ splx(0, s)
        /\ UNCHANGED <<in_interrupt, curthread, running, pcb, ready, asleep, irq, duds>>
    BY Zenon, <1>4 DEF mi_threadstart, At, threads, bus
  <2>2. Rest = <<>>
    BY Zenon, <2>1, Innermost DEF On
  <2>3. ~HandlerIn(stack[running]) /\ in_interrupt = 0
    BY Zenon, <2>1, <2>2, Innermost, Empty DEF In
  <2>4. Kernel(FALSE) \in Frame /\ Kernel(FALSE).pc = "kernel" /\ On(Kernel(FALSE), <<>>)
    BY Zenon, Frames DEF On
  <2>6. /\ s \in Seq(Frame) /\ Sound(s) /\ s # <<>> /\ s[1] = Kernel(FALSE) /\ ~HandlerIn(s)
    BY Zenon, <2>4, Alone
  <2>7. Fits(Kernel(FALSE), 0, 1 - 0)
    BY DEF Fits, Kernel
  <2> HIDE DEF s
  <2>8. /\ in_interrupt' = In(s) /\ s[1].pc # "bus" /\ Fits(s[1], 0, 1 - 0) /\ 0 \in Level
    BY Zenon, <2>1, <2>3, <2>4, <2>6, <2>7 DEF In, Level
  <2>9. curthread' # None /\ curthread' \in {None, running}
    BY Zenon, <2>1, StackTypes
  <2>10. QED
    BY Zenon, <2>1, <2>6, <2>8, <2>9, StackTypes, SplxStep
<1>5. QED
  BY <1>1, <1>2, <1>3, <1>4

\* scheduler and md_switch: the thread that is switched to stands in a switch
\* of its own, or has not started, and gets its in_interrupt back.
LEMMA DispatchStep ==
  ASSUME IInv, NEW next \in Threads, Dispatch(next)
  PROVE  IInv'
<1>1. /\ Top.pc = "switch" /\ next \in ready /\ ready' = ready \ {next}
      /\ curthread' = next /\ running' = next /\ md_switch(next)
      /\ UNCHANGED <<iec, curspl, stack, asleep, irq, duds>>
  BY Zenon DEF Dispatch, At, bus
<1>2. curspl = 1 /\ iec = 0
  BY Zenon, <1>1, Innermost DEF Fits
<1>3. /\ stack[next] # <<>>
      /\ \A t \in Threads \ {running} : pcb[t] = In(stack[t])
      /\ in_interrupt = In(stack[running]) /\ running \in Threads
      /\ pcb \in [Threads -> Level]
      /\ \A t \in Threads : In(stack[t]) \in Level
  BY Zenon, <1>1 DEF IInv, TypeInv, WaitingSound, RunningSound, In, Level
<1>4. stack[next][1].pc \in {"switch", "starting"}
  BY Zenon, <1>1, <1>3 DEF IInv, WaitingSound, Top
<1>5. /\ pcb' \in [Threads -> Level] /\ in_interrupt' = In(stack[next])
      /\ \A t \in Threads \ {next} : pcb'[t] = In(stack[t])
  BY <1>1, <1>3 DEF md_switch
<1>6. TypeInv'
  BY Zenon, <1>1, <1>5 DEF IInv, TypeInv
<1>7. WaitingSound'
  <2>1. SUFFICES ASSUME NEW t \in Threads \ {next}, stack[t] # <<>>
                 PROVE  stack[t][1].pc \in {"switch", "starting"}
    BY Zenon, <1>1, <1>5 DEF WaitingSound, In, HandlerIn
  <2>2. QED
    BY Zenon, <1>1, <2>1 DEF IInv, WaitingSound, Top
<1>8. RunningSound'
  <2>1. Fits(stack[next][1], 1, 0)
    BY Zenon, <1>4 DEF Fits
  <2>2. curthread' # None
    BY Zenon, <1>1, TrapsAssumption
  <2>3. QED
    BY Zenon, <1>1, <1>2, <1>3, <1>4, <1>5, <2>1, <2>2 DEF RunningSound, Top, In, HandlerIn
<1>9. \A t \in Threads : Sound(stack'[t])
  BY Zenon, <1>1 DEF IInv
<1>10. QED
  BY Zenon, <1>6, <1>7, <1>8, <1>9 DEF IInv

\* thread_fork gives a thread that has no stack one that has not started.
LEMMA ForkStep ==
  ASSUME IInv, NEW u \in Threads, thread_fork(u)
  PROVE  IInv'
<1> DEFINE c == <<Starting>>
<1>1. /\ stack[u] = <<>> /\ stack' = [stack EXCEPT ![u] = c]
      /\ ready' = ready \cup {u}
      /\ UNCHANGED <<iec, curspl, in_interrupt, curthread, running, pcb, asleep, irq, duds>>
  BY Zenon DEF thread_fork, cpu, bus
<1>2. Starting \in Frame /\ Starting.pc = "starting" /\ On(Starting, <<>>)
  BY Zenon, Frames DEF On
<1>4. c \in Seq(Frame) /\ Sound(c) /\ c # <<>> /\ c[1] = Starting /\ ~HandlerIn(c)
  BY Zenon, <1>2, Alone
<1> HIDE DEF c
<1>5. /\ u # running /\ stack \in [Threads -> Seq(Frame)] /\ running \in Threads
      /\ \A t \in Threads : Sound(stack[t])
      /\ pcb[u] = In(<<>>)
  BY Zenon, <1>1 DEF IInv, TypeInv, RunningSound, WaitingSound
<1>6. /\ stack' \in [Threads -> Seq(Frame)] /\ stack'[u] = c
      /\ \A t \in Threads \ {u} : stack'[t] = stack[t]
  BY Zenon, <1>1, <1>4, <1>5
<1>7. TypeInv'
  BY <1>1, <1>4, <1>6 DEF IInv, TypeInv
<1>8. \A t \in Threads : Sound(stack'[t])
  BY <1>4, <1>5, <1>6, Zenon
<1>9. RunningSound'
  <2>1. stack'[running] = stack[running]
    BY Zenon, <1>5, <1>6
  <2>2. QED
    BY Zenon, <1>1, <2>1 DEF IInv, RunningSound, Top
<1>10. WaitingSound'
  <2>1. In(c) = 0 /\ In(<<>>) = 0
    BY Zenon, <1>4, Empty DEF In
  <2>2. QED
    BY Zenon, <1>1, <1>2, <1>4, <1>5, <1>6, <2>1 DEF IInv, WaitingSound
<1>11. QED
  BY Zenon, <1>7, <1>8, <1>9, <1>10 DEF IInv
\* Traps other than interrupts: the trap frame keeps the levels that fit what
\* was executing, and TrapReturns finds that frame under the kernel's.
LEMMA TrapSteps ==
  ASSUME IInv, mips_trap \/ TrapReturns \/ mips_usermode
  PROVE  IInv'
<1> DEFINE r == stack[running]
<1>0. r \in Seq(Frame) /\ r # <<>> /\ r[1] = Top /\ Sound(r) /\ in_interrupt = In(r)
  BY Zenon, Innermost DEF Top
<1>1. CASE mips_trap
  <2> DEFINE f == Trap
             s == <<f>> \o r
             k == <<Kernel(FALSE)>> \o s
  <2>1. /\ Top.pc = "user" \/ (Top.pc = "kernel" /\ ~Top.high)
        /\ splx(Trap.spl, <<Kernel(FALSE)>> \o (<<Trap>> \o r))
        /\ UNCHANGED <<in_interrupt, curthread, running, pcb, ready, asleep, irq, duds>>
    BY Zenon, <1>1 DEF mips_trap, At, threads, bus
  <2>2. curspl = 0 /\ iec = 1
    BY <2>1, Innermost DEF Fits
  <2>3. f \in Frame /\ f.pc = "trap" /\ f.spl = 0 /\ f.ie = 1
    BY Zenon, <2>2 DEF Trap, Frame, Level
  <2>4. Fits(Top, 0, 1)
    BY <2>2, Innermost
  <2>5. Kernel(FALSE) \in Frame /\ Kernel(FALSE).pc = "kernel" /\ Fits(Kernel(FALSE), 0, 1 - 0)
    BY Zenon, Frames DEF Fits, Kernel
  <2>6. splx(0, k)
    BY Zenon, <2>1, <2>3
  <2> HIDE DEF f, r
  <2>7. On(f, r)
    BY Zenon, <1>0, <2>1, <2>3, <2>4 DEF On
  <2>8. /\ s \in Seq(Frame) /\ Sound(s) /\ s # <<>> /\ s[1] = f
        /\ HandlerIn(s) <=> HandlerIn(r)
        /\ SwitchIn(s) <=> SwitchIn(r)
    BY <1>0, <2>3, <2>7, Pushed
  <2> HIDE DEF s
  <2>9. On(Kernel(FALSE), s)
    BY Zenon, <2>3, <2>5, <2>8 DEF On
  <2>10. /\ k \in Seq(Frame) /\ Sound(k) /\ k # <<>> /\ k[1] = Kernel(FALSE)
         /\ HandlerIn(k) <=> HandlerIn(r)
         /\ SwitchIn(k) <=> SwitchIn(r)
    BY Zenon, <2>5, <2>8, <2>9, Pushed
  <2> HIDE DEF k
  <2>11. /\ in_interrupt' = In(k) /\ k[1].pc # "bus" /\ Fits(k[1], 0, 1 - 0) /\ 0 \in Level
    BY Zenon, <1>0, <2>1, <2>5, <2>10 DEF In, Level
  <2>12. curthread' = None => SwitchIn(k)
    BY Zenon, <2>1, <2>10, StackTypes DEF r
  <2>13. QED
    BY Zenon, <2>1, <2>6, <2>10, <2>11, <2>12, StackTypes, SplxStep
<1>2. CASE TrapReturns
  <2> DEFINE f == Rest[1]
             s == Tail(Rest)
  <2>1. /\ Top.pc = "kernel" /\ ~Top.high /\ Len(r) > 1
        /\ curspl' = r[2].spl /\ iec' = r[2].ie
        /\ stack' = [stack EXCEPT ![running] = s]
        /\ UNCHANGED <<in_interrupt, curthread, running, pcb, ready, asleep, irq, duds>>
    BY Zenon, <1>2 DEF TrapReturns, At, SetStack, threads, bus
  <2>2. Rest # <<>> /\ r[2] = f
    BY Zenon, <1>0, <2>1, Second DEF Rest
  <2>3. f.pc = "trap"
    BY Zenon, <2>1, <2>2, Innermost DEF On
  <2>4. f \in Frame /\ s \in Seq(Frame) /\ Rest = <<f>> \o s
    BY <2>2, Innermost, Split
  <2> HIDE DEF f, s
  <2>5. /\ On(f, s) /\ Sound(s)
        /\ HandlerIn(Rest) <=> HandlerIn(s)
        /\ SwitchIn(Rest) <=> SwitchIn(s)
    <3>1. Sound(Rest)
      BY Zenon, Innermost
    <3>2. QED
      BY Zenon, <2>3, <2>4, <3>1, Push
  <2>6. f.spl \in Level /\ f.ie \in Level
    BY Zenon, <2>3, <2>4 DEF Frame
  <2>7. s # <<>> /\ Fits(s[1], f.spl, f.ie) /\ s[1].pc # "bus"
    BY Zenon, <2>3, <2>5 DEF On
  <2>8. In(s) = In(r) /\ (SwitchIn(s) <=> SwitchIn(r))
    BY Zenon, <2>1, <2>5, Innermost DEF In
  <2>9. /\ iec' \in Level /\ curspl' \in Level /\ Fits(s[1], curspl', iec')
    BY <2>1, <2>2, <2>6, <2>7
  <2>10. QED
    BY Zenon, <1>0, <2>1, <2>5, <2>7, <2>8, <2>9, StackTypes, Replace
<1>3. CASE mips_usermode
  <2> DEFINE c == <<User>>
  <2>1. /\ Top.pc = "kernel" /\ Len(r) = 1 /\ curspl' = 0 /\ iec' = 1
        /\ stack' = [stack EXCEPT ![running] = c]
        /\ UNCHANGED <<in_interrupt, curthread, running, pcb, ready, asleep, irq, duds>>
    BY Zenon, <1>3 DEF mips_usermode, At, SetStack, threads, bus
  <2>2. Rest = <<>>
    BY Zenon, <1>0, <2>1, Second DEF Rest
  <2>3. ~HandlerIn(r) /\ ~SwitchIn(r) /\ in_interrupt = 0
    BY Zenon, <2>1, <2>2, Innermost, Empty DEF In
  <2>4. User \in Frame /\ User.pc = "user" /\ On(User, <<>>) /\ Fits(User, 0, 1)
    BY Zenon, Frames DEF On, Fits
  <2>5. c \in Seq(Frame) /\ Sound(c) /\ c # <<>> /\ c[1] = User /\ ~HandlerIn(c)
    BY Zenon, <2>4, Alone
  <2> HIDE DEF c
  <2>6. /\ in_interrupt' = In(c) /\ c[1].pc # "bus"
        /\ iec' \in Level /\ curspl' \in Level /\ Fits(c[1], curspl', iec')
    BY Zenon, <2>1, <2>3, <2>4, <2>5 DEF In, Level
  <2>7. curthread' # None
    BY Zenon, <2>1, <2>3, StackTypes
  <2>8. QED
    BY Zenon, <2>1, <2>5, <2>6, <2>7, StackTypes, Replace
<1>4. QED
  BY <1>1, <1>2, <1>3

\* An interrupt keeps the levels and in_interrupt of what it interrupts, and
\* its end puts them back.
LEMMA InterruptSteps ==
  ASSUME IInv, mips_interrupt \/ Reload \/ lamebus_interrupt
  PROVE  IInv'
<1> DEFINE r == stack[running]
<1>0. r \in Seq(Frame) /\ r # <<>> /\ r[1] = Top /\ Sound(r) /\ in_interrupt = In(r)
  BY Innermost DEF Top
<1>1. CASE mips_interrupt
  <2> DEFINE f == Interrupted(irq)
             c == <<f>> \o r
  <2>1. /\ iec = 1 /\ iec' = 0 /\ curspl' = 1 /\ in_interrupt' = 1
        /\ stack' = [stack EXCEPT ![running] = c]
        /\ UNCHANGED <<curthread, running, pcb, ready, asleep, irq, duds>>
    BY Zenon, <1>1 DEF mips_interrupt, SetStack, threads, bus
  <2>2. in_interrupt \in Level
    BY Zenon, <1>0 DEF In, Level
  <2>3. /\ f \in Frame /\ f.pc = "bus" /\ f.spl = curspl /\ f.ie = iec
        /\ f.old_in = in_interrupt /\ f.irqs = irq
    BY Zenon, <2>2, StackTypes DEF Interrupted, Frame
  <2> HIDE DEF f
  <2>4. Top.pc # "bus"
    BY <2>1, Innermost DEF Fits
  <2>5. On(f, r)
    BY Zenon, <1>0, <2>3, <2>4, Innermost DEF On
  <2>6. /\ Sound(c) /\ c # <<>> /\ c[1] = f /\ HandlerIn(c)
        /\ SwitchIn(c) <=> SwitchIn(r)
    BY Zenon, <1>0, <2>3, <2>5, Pushed
  <2> HIDE DEF c
  <2>7. Fits(f, 1, 0)
    BY Zenon, <2>3 DEF Fits
  <2>8. /\ in_interrupt' = In(c) /\ c[1].irqs \subseteq irq'
        /\ iec' \in Level /\ curspl' \in Level /\ Fits(c[1], curspl', iec')
    BY <2>1, <2>3, <2>6, <2>7 DEF In, Level
  <2>9. QED
    BY Zenon, <2>1, <2>6, <2>8, StackTypes, Replace
<1>2. CASE Reload
  <2> DEFINE f == [Top EXCEPT !.pc = "bus", !.irqs = irq]
             c == <<f>> \o Rest
  <2>1. /\ Top.pc = "reload" /\ stack' = [stack EXCEPT ![running] = c]
        /\ UNCHANGED <<iec, curspl, in_interrupt, curthread, running, pcb, ready, asleep,
                       irq, duds>>
    BY <1>2 DEF Reload, At, SetStack, cpu, threads, bus
  <2>2. /\ f \in Frame /\ f.pc = "bus" /\ f.spl = Top.spl /\ f.ie = Top.ie
        /\ f.old_in = Top.old_in /\ f.irqs = irq
    BY Zenon, <2>1, Innermost, StackTypes DEF Frame
  <2> HIDE DEF f
  <2>3. On(f, Rest) /\ curspl = 1 /\ iec = 0
    BY Zenon, <2>1, <2>2, Innermost DEF On, Fits
  <2>4. /\ Sound(c) /\ c # <<>> /\ c[1] = f /\ HandlerIn(c)
        /\ SwitchIn(c) <=> SwitchIn(r)
    BY Zenon, <2>1, <2>2, <2>3, Innermost, Pushed
  <2> HIDE DEF c
  <2>5. Fits(f, 1, 0) /\ in_interrupt = 1
    BY Zenon, <1>0, <2>1, <2>2, Innermost DEF Fits, In
  <2>6. /\ in_interrupt' = In(c) /\ c[1].irqs \subseteq irq'
        /\ iec' \in Level /\ curspl' \in Level /\ Fits(c[1], curspl', iec')
    BY Zenon, <2>1, <2>2, <2>3, <2>4, <2>5 DEF In, Level
  <2>7. QED
    BY Zenon, <2>1, <2>4, <2>6, StackTypes, Replace
<1>3. CASE lamebus_interrupt
  <2>1. /\ Top.pc = "bus" /\ duds' \in {0, duds}
        /\ in_interrupt' = Top.old_in /\ curspl' = Top.spl /\ iec' = Top.ie
        /\ stack' = [stack EXCEPT ![running] = Rest]
        /\ UNCHANGED <<curthread, running, pcb, ready, asleep, irq>>
    BY Zenon, <1>3 DEF lamebus_interrupt, At, SetStack, threads
  <2>2. /\ Rest # <<>> /\ Fits(Rest[1], Top.spl, Top.ie) /\ Rest[1].pc # "bus"
        /\ Top.old_in = In(Rest)
    BY Zenon, <2>1, Innermost DEF On
  <2>3. Top.spl \in Level /\ Top.ie \in Level
    BY Zenon, <2>1, Innermost DEF Frame
  <2>4. SwitchIn(Rest) <=> SwitchIn(r)
    BY Zenon, <2>1, Innermost
  <2>5. duds' \in Nat /\ Fits(Rest[1], curspl', iec') /\ iec' \in Level /\ curspl' \in Level
    BY <2>1, <2>2, <2>3, StackTypes
  <2>6. QED
    BY Zenon, <2>1, <2>2, <2>4, <2>5, Innermost, StackTypes, Replace
<1>4. QED
  BY <1>1, <1>2, <1>3
\* A dud moves on to the next slot; a handler makes its device release the
\* line and the frame a reload, so that what hardclock's switch leaves behind
\* believes nothing about the lines.
LEMMA BusSteps ==
  ASSUME MinFact, IInv, Dud \/ Handler
  PROVE  IInv'
<1> DEFINE slot == Min(Pending)
           r == stack[running]
<1>1. Top.pc = "bus" /\ Pending # {}
  BY Zenon DEF Dud, Handler, At
<1>2. /\ Top \in [pc : {"bus", "reload"}, spl : Level, ie : Level, old_in : Level,
                  slot : Nat, irqs : SUBSET Devices, duds : Nat]
      /\ Top.irqs \subseteq irq
  BY Zenon, <1>1, Innermost, StackTypes DEF Frame
<1>3. slot + 1 \in Nat
  <2>1. Pending \in SUBSET Nat
    BY Zenon, <1>2, TrapsAssumption DEF Pending
  <2>2. slot \in Nat
    BY Zenon, <1>1, <2>1 DEF MinFact
  <2>3. QED
    BY <2>2
<1> HIDE DEF slot
<1>4. /\ curspl = 1 /\ iec = 0 /\ in_interrupt = 1 /\ Rest \in Seq(Frame) /\ Sound(Rest)
      /\ SwitchIn(r) <=> SwitchIn(Rest)
      /\ On(Top, Rest)
  BY Zenon, <1>1, Innermost DEF Fits, In
<1>5. ASSUME NEW f \in Frame, f.pc \in {"bus", "reload"}, f.spl = Top.spl, f.ie = Top.ie,
             f.old_in = Top.old_in
      PROVE  /\ <<f>> \o Rest \in Seq(Frame) /\ Sound(<<f>> \o Rest)
             /\ <<f>> \o Rest # <<>> /\ (<<f>> \o Rest)[1] = f
             /\ In(<<f>> \o Rest) = 1 /\ HandlerIn(<<f>> \o Rest)
             /\ SwitchIn(<<f>> \o Rest) <=> SwitchIn(r)
             /\ Fits(f, 1, 0)
  <2>1. On(f, Rest)
    BY Zenon, <1>1, <1>4, <1>5 DEF On
  <2>2. Fits(f, 1, 0)
    BY <1>5 DEF Fits
  <2>3. QED
    BY Zenon, <1>4, <1>5, <2>1, <2>2, Pushed DEF In
<1>6. CASE Dud
  <2> DEFINE f == [Top EXCEPT !.slot = slot + 1, !.duds = @ + 1]
             c == <<f>> \o Rest
  <2>1. /\ duds' = duds + 1 /\ stack' = [stack EXCEPT ![running] = c]
        /\ UNCHANGED <<iec, curspl, in_interrupt, curthread, running, pcb, ready, asleep, irq>>
    BY <1>6 DEF Dud, SetStack, cpu, threads, slot
  <2>2. /\ f \in Frame /\ f.pc = "bus" /\ f.spl = Top.spl /\ f.ie = Top.ie
        /\ f.old_in = Top.old_in /\ f.irqs = Top.irqs
    <3>1. Top.duds + 1 \in Nat
      BY <1>2
    <3>2. QED
      BY Zenon, <1>1, <1>2, <1>3, <3>1 DEF Frame
  <2> HIDE DEF f
  <2>3. /\ Sound(c) /\ c # <<>> /\ c[1] = f /\ In(c) = 1 /\ Fits(f, 1, 0)
        /\ SwitchIn(c) <=> SwitchIn(r)
    BY Zenon, <1>5, <2>2
  <2> HIDE DEF c
  <2>4. duds' \in Nat
    BY <2>1, StackTypes
  <2>5. /\ iec' \in Level /\ curspl' \in Level /\ Fits(c[1], curspl', iec')
        /\ in_interrupt' = In(c) /\ c[1].irqs \subseteq irq'
    BY Zenon, <1>2, <1>4, <2>1, <2>2, <2>3, StackTypes
  <2>6. QED
    BY Zenon, <2>1, <2>3, <2>4, <2>5, StackTypes, Replace
<1>7. CASE Handler
  <2> DEFINE f == [Top EXCEPT !.slot = slot + 1, !.pc = "reload"]
             s == <<f>> \o Rest
  <2>1. /\ irq' = irq \ {slot} /\ UNCHANGED <<in_interrupt, running, pcb, duds>>
        /\ IF slot = Timer THEN hardclock(s)
           ELSE SetStack(s) /\ UNCHANGED <<iec, curspl, curthread, ready, asleep>>
    BY <1>7 DEF Handler, slot
  <2>2. /\ f \in Frame /\ f.pc = "reload" /\ f.spl = Top.spl /\ f.ie = Top.ie
        /\ f.old_in = Top.old_in
    BY Zenon, <1>1, <1>2, <1>3 DEF Frame
  <2> HIDE DEF f
  <2>3. /\ s \in Seq(Frame) /\ Sound(s) /\ s # <<>> /\ s[1] = f /\ In(s) = 1
        /\ HandlerIn(s) /\ Fits(f, 1, 0)
        /\ SwitchIn(s) <=> SwitchIn(r)
    BY Zenon, <1>5, <2>2
  <2> HIDE DEF s
  <2>4. irq' \in SUBSET Devices /\ duds' \in Nat /\ in_interrupt' = In(s) /\ 1 \in Level
    BY Zenon, <1>4, <2>1, <2>3, StackTypes DEF Level
  <2>5. CASE slot # Timer
    <3>1. /\ stack' = [stack EXCEPT ![running] = s]
          /\ UNCHANGED <<iec, curspl, curthread, ready, asleep>>
      BY Zenon, <2>1, <2>5 DEF SetStack
    <3>2. /\ iec' \in Level /\ curspl' \in Level /\ Fits(s[1], curspl', iec')
          /\ s[1].pc # "bus"
      BY Zenon, <1>4, <2>2, <2>3, <3>1, StackTypes
    <3>3. QED
      BY Zenon, <2>1, <2>3, <2>4, <3>1, <3>2, StackTypes, Replace
  <2>6. CASE slot = Timer
    <3>1. PICK woken \in {{}, asleep} :
            /\ asleep' = asleep \ woken
            /\ IF curthread = None
               THEN splx(curspl, s) /\ ready' = ready \cup woken /\ UNCHANGED curthread
               ELSE /\ SetStack(<<Switching(curspl)>> \o s)
                    /\ curthread' = None
                    /\ ready' = ready \cup woken \cup {running}
                    /\ UNCHANGED <<iec, curspl>>
      BY Zenon, <2>1, <2>6 DEF hardclock
    <3>2. CASE curthread = None
      <4>1. splx(1, s) /\ UNCHANGED curthread /\ ready' = ready \cup woken
        BY Zenon, <1>4, <3>1, <3>2
      <4>2. Fits(s[1], 1, 1 - 1) /\ s[1].pc # "bus" /\ SwitchIn(s)
        BY <2>2, <2>3, <3>2, StackTypes
      <4>3. QED
        BY Zenon, <2>1, <2>3, <2>4, <3>1, <4>1, <4>2, StackTypes, SplxStep
    <3>3. CASE curthread # None
      <4> DEFINE c == <<Switching(1)>> \o s
      <4>1. /\ stack' = [stack EXCEPT ![running] = c] /\ curthread' = None
            /\ ready' = ready \cup woken \cup {running} /\ iec' = 0 /\ curspl' = 1
        BY Zenon, <1>4, <3>1, <3>3 DEF SetStack
      <4>2. Switching(1) \in Frame /\ Switching(1).pc = "switch" /\ Switching(1).spl = 1
        BY Zenon, <2>4, Frames
      <4>3. On(Switching(1), s)
        BY <2>2, <2>3, <4>2 DEF On
      <4>4. /\ Sound(c) /\ c # <<>> /\ c[1] = Switching(1) /\ HandlerIn(c) /\ SwitchIn(c)
        BY Zenon, <2>3, <4>2, <4>3, Pushed
      <4> HIDE DEF c
      <4>5. Fits(Switching(1), 1, 0)
        BY Zenon, <4>2 DEF Fits
      <4>6. /\ iec' \in Level /\ curspl' \in Level /\ Fits(c[1], curspl', iec')
            /\ c[1].pc # "bus" /\ in_interrupt' = In(c)
        BY Zenon, <1>4, <2>1, <4>1, <4>2, <4>4, <4>5 DEF In, Level
      <4>7. QED
        BY Zenon, <2>1, <2>4, <3>1, <4>1, <4>4, <4>6, StackTypes, Replace
    <3>4. QED
      BY Zenon, <3>2, <3>3
  <2>7. QED
    BY Zenon, <2>5, <2>6
<1>8. QED
  BY Zenon, <1>6, <1>7

\* Autoconfiguration, stray interrupts and lines that are raised touch no
\* stack; more lines are asserted, never fewer.
LEMMA QuietSteps ==
  ASSUME MinFact, IInv,
         \/ \E s \in Drivers : lamebus_mark(s) \/ lamebus_attach_interrupt(s)
         \/ Stray \/ (\E s \in Devices : RaiseIrq(s)) \/ UNCHANGED vars
  PROVE  IInv'
<1>1. /\ UNCHANGED <<iec, curspl, in_interrupt, curthread, running, stack, pcb, ready, asleep>>
      /\ irq \subseteq irq' /\ irq' \in SUBSET Devices /\ duds' \in Nat
  <2>1. CASE \E s \in Drivers : lamebus_mark(s) \/ lamebus_attach_interrupt(s)
    BY Zenon, <2>1, StackTypes DEF lamebus_mark, lamebus_attach_interrupt, cpu, threads
  <2>2. CASE Stray
    <3>1. duds' = Min({duds + 1, MaxDuds}) /\ irq' = irq
      BY Zenon, <2>2 DEF Stray
    <3>2. {duds + 1, MaxDuds} \in SUBSET Nat
      BY StackTypes, TrapsAssumption
    <3>3. duds' \in Nat
      BY Zenon, <3>1, <3>2 DEF MinFact
    <3>4. QED
      BY Zenon, <2>2, <3>1, <3>3, StackTypes DEF Stray, cpu, threads
  <2>3. CASE \E s \in Devices : RaiseIrq(s)
    BY Zenon, <2>3, StackTypes DEF RaiseIrq, cpu, threads
  <2>4. CASE UNCHANGED vars
    BY Zenon, <2>4, StackTypes DEF vars
  <2>5. QED
    BY Zenon, <2>1, <2>2, <2>3, <2>4
<1>2. TypeInv' /\ WaitingSound'
  BY Zenon, <1>1 DEF IInv, TypeInv, WaitingSound
<1>3. RunningSound'
  BY Zenon, <1>1 DEF IInv, RunningSound, Top
<1>4. QED
  BY Zenon, <1>1, <1>2, <1>3 DEF IInv
-----------------------------------------------------------------------------
\* The kernel starts with the invariant: boot in a section, no other stacks.
LEMMA InitIInv ==
  ASSUME Init
  PROVE  IInv
<1> DEFINE c == <<Kernel(TRUE)>>
<1>1. /\ Kernel(TRUE) \in Frame /\ Kernel(TRUE).pc = "kernel"
      /\ On(Kernel(TRUE), <<>>) /\ Fits(Kernel(TRUE), 1, 0)
  <2>1. Fits(Kernel(TRUE), 1, 0)
    BY DEF Fits, Kernel
  <2>2. QED
    BY Zenon, <2>1, Frames DEF On
<1>2. c \in Seq(Frame) /\ Sound(c) /\ c # <<>> /\ c[1] = Kernel(TRUE) /\ ~HandlerIn(c)
  BY Zenon, <1>1, Alone
<1>3. /\ stack = [t \in Threads |-> IF t = Boot THEN c ELSE <<>>]
      /\ running = Boot /\ curthread = Boot /\ Boot \in Threads /\ Boot # None
      /\ iec = 0 /\ curspl = 1 /\ in_interrupt = 0 /\ irq = {} /\ duds = 0
      /\ ready = {} /\ asleep = {} /\ pcb = [t \in Threads |-> 0]
  BY Zenon, TrapsAssumption DEF Init
<1> HIDE DEF c
<1>4. TypeInv
  BY Zenon, <1>2, <1>3, Empty DEF TypeInv, Level
<1>5. \A t \in Threads : Sound(stack[t])
  BY Zenon, <1>2, <1>3, Empty
<1>6. RunningSound
  BY Zenon, <1>1, <1>2, <1>3 DEF RunningSound, Top, In
<1>7. WaitingSound
  BY Zenon, <1>3, Empty DEF WaitingSound
<1>8. QED
  BY Zenon, <1>4, <1>5, <1>6, <1>7 DEF IInv

\* Every step preserves the invariant.
LEMMA NextIInv ==
  ASSUME MinFact, IInv, [Next]_vars
  PROVE  IInv'
<1>1. CASE SplxLowers \/ splhigh \/ EndSection
  BY Zenon, <1>1, LevelSteps
<1>2. CASE Yield \/ thread_sleep
  BY Zenon, <1>2, YieldSteps
<1>3. CASE \E t \in Threads : Dispatch(t) \/ thread_fork(t)
  BY Zenon, <1>3, DispatchStep, ForkStep
<1>4. CASE IdleOn \/ IdleOff \/ Resume \/ mi_threadstart
  BY Zenon, <1>4, SwitchSteps
<1>5. CASE mips_trap \/ TrapReturns \/ mips_usermode
  BY <1>5, TrapSteps
<1>6. CASE mips_interrupt \/ Reload \/ lamebus_interrupt
  BY <1>6, InterruptSteps
<1>7. CASE Dud \/ Handler
  BY Zenon, <1>7, BusSteps
<1>8. CASE \/ \E s \in Drivers : lamebus_mark(s) \/ lamebus_attach_interrupt(s)
           \/ Stray \/ (\E s \in Devices : RaiseIrq(s)) \/ UNCHANGED vars
  BY Zenon, <1>8, QuietSteps
<1>9. QED
  BY Zenon, <1>1, <1>2, <1>3, <1>4, <1>5, <1>6, <1>7, <1>8 DEF Next, CpuStep

\* The invariant says of the running thread what InterruptsSound asks.
LEMMA IInvSound ==
  ASSUME IInv
  PROVE  InterruptsSound
<1>1. /\ Fits(Top, curspl, iec) /\ in_interrupt = In(stack[running])
      /\ Top \in Frame
      /\ Top.pc = "bus" => Top.irqs \subseteq irq
      /\ curthread = None => SwitchIn(stack[running])
  BY Zenon, Innermost, StackTypes
<1>2. in_interrupt = (IF InHandler(running) THEN 1 ELSE 0)
  BY Zenon, <1>1 DEF InHandler, In, HandlerIn
<1>3. curthread = None => \E i \in DOMAIN stack[running] : stack[running][i].pc = "switch"
  BY Zenon, <1>1 DEF SwitchIn
<1>4. Top.pc \in {"user", "kernel", "lowering", "idle", "switch", "starting", "bus",
                  "reload", "trap"}
  BY Zenon, <1>1 DEF Frame
<1>5. LevelsTrue
  BY Zenon, <1>1, <1>2, <1>3, <1>4 DEF Fits, LevelsTrue
<1>6. HandlersWanted
  BY Zenon, <1>1 DEF HandlersWanted, Pending
<1>7. QED
  BY Zenon, <1>5, <1>6 DEF InterruptsSound

-----------------------------------------------------------------------------
\* The kernel heap.

Pageref == [page : Nat, blocktype : Types, free : Seq(Nat), nfree : Nat]
Block == [addr : Nat, size : Nat]

HeapTypes ==
  /\ firstpaddr \in Nat \ {0}
  /\ pagerefs \in [Refs -> Pageref]
  /\ inuse \in SUBSET Refs
  /\ sizebases \in [Types -> Seq(Refs)]
  /\ allbase \in Seq(Refs)
  /\ held \in SUBSET Block

\* The list has each member of the set once.
Distinct(s) == \A j, k \in DOMAIN s : s[j] = s[k] => j = k
Lists(s, S) == Distinct(s) /\ Range(s) = S

\* The offsets of the blocks of a page.
Offsets(type) == {k * Sizes[type] : k \in 0 .. Blocks(type) - 1}

PageOf(b) == b.addr \div PageSize
OffsetOf(b) == b.addr % PageSize
End(b) == b.addr + b.size
Apart(b, c) == End(b) <= c.addr \/ End(c) <= b.addr

FreeTrue(pr) ==
  /\ Distinct(pr.free) /\ Range(pr.free) \subseteq Offsets(pr.blocktype)
  /\ pr.nfree = Len(pr.free)

\* A block of the page, and not a free one.
BlockOf(b, pr) ==
  /\ PageOf(b) = pr.page /\ b.size = Sizes[pr.blocktype]
  /\ OffsetOf(b) \in Offsets(pr.blocktype) /\ OffsetOf(b) \notin Range(pr.free)

\* No word of the page.
Clear(b, page) == End(b) <= page * PageSize \/ page * PageSize + PageSize <= b.addr

HeldTrue(b) ==
  /\ b.size > 0 /\ PageSize <= b.addr /\ End(b) <= firstpaddr * PageSize
  /\ \/ \E i \in inuse : BlockOf(b, pagerefs[i])
     \/ \A i \in inuse : Clear(b, pagerefs[i].page)

OfType(type) == {i \in inuse : pagerefs[i].blocktype = type}

ListsTrue ==
  /\ Lists(allbase, inuse)
  /\ \A type \in Types : Lists(sizebases[type], OfType(type))

Covered(i) ==
  \A off \in Offsets(pagerefs[i].blocktype) :
    \/ off \in Range(pagerefs[i].free)
    \/ \E b \in held : PageOf(b) = pagerefs[i].page /\ OffsetOf(b) = off

PagerefTrue(i) ==
  /\ 0 < pagerefs[i].page /\ pagerefs[i].page < firstpaddr
  /\ FreeTrue(pagerefs[i])

HeapInv ==
  /\ HeapTypes /\ ListsTrue
  /\ \A i \in inuse : PagerefTrue(i) /\ Covered(i)
  /\ \A i, j \in inuse : pagerefs[i].page = pagerefs[j].page => i = j
  /\ \A b \in held : HeldTrue(b)
  /\ \A b, c \in held : b # c => Apart(b, c)

\* A free list with as many elements as the page has blocks has all of them
\* (FullFactHolds, at the end).
FullFact ==
  \A type \in Types : \A s \in Seq(Nat) :
    Distinct(s) /\ Range(s) \subseteq Offsets(type) /\ Len(s) = Blocks(type) =>
      Range(s) = Offsets(type)

-----------------------------------------------------------------------------
\* Pages and the words in them.
LEMMA Paging ==
  /\ \A v \in Nat : /\ v \div PageSize \in Nat /\ v % PageSize \in Nat
                    /\ v % PageSize < PageSize
                    /\ v = (v \div PageSize) * PageSize + (v % PageSize)
  /\ \A p, o \in Nat : o < PageSize =>
       (p * PageSize + o) \div PageSize = p /\ (p * PageSize + o) % PageSize = o
  /\ \A p, q \in Nat : p < q => p * PageSize + PageSize <= q * PageSize
  /\ \A p \in Nat : p * PageSize \in Nat
  /\ \A p \in Nat : p > 0 => PageSize <= p * PageSize
<1>1. PageSize \in Nat /\ PageSize > 0
  BY HeapAssumption
<1>2. \A v \in Nat : /\ v \div PageSize \in Nat /\ v % PageSize \in Nat
                     /\ v % PageSize < PageSize
                     /\ v = (v \div PageSize) * PageSize + (v % PageSize)
  BY <1>1
<1>3. \A p, o \in Nat : o < PageSize => (p * PageSize + o) \div PageSize = p
  BY <1>1
<1>4. \A p, o \in Nat : o < PageSize => (p * PageSize + o) % PageSize = o
  BY <1>1
<1>5. \A p, q \in Nat : p < q => p * PageSize + PageSize <= q * PageSize
  <2>1. ASSUME NEW p \in Nat, NEW q \in Nat, p < q
        PROVE  p * PageSize + PageSize <= q * PageSize
    <3>1. PICK d \in Nat : q = p + 1 + d
      <4>1. q - p - 1 \in Nat /\ q = p + 1 + (q - p - 1)
        BY <2>1
      <4>2. QED
        BY <4>1
    <3>2. (p + 1 + d) * PageSize = p * PageSize + PageSize + d * PageSize
      BY <1>1, <3>1
    <3>3. d * PageSize \in Nat /\ p * PageSize \in Nat
      BY <1>1, <3>1
    <3>4. QED
      BY <1>1, <3>1, <3>2, <3>3
  <2>2. QED
    BY Zenon, <2>1
<1>6. \A p \in Nat : p * PageSize \in Nat
  BY <1>1
<1>7. \A p \in Nat : p > 0 => PageSize <= p * PageSize
  BY <1>1
<1>8. QED
  BY Zenon, <1>2, <1>3, <1>4, <1>5, <1>6, <1>7

\* Sizes and numbers of blocks.
LEMMA Counting ==
  ASSUME NEW type \in Types
  PROVE  /\ Sizes[type] \in Nat /\ Sizes[type] > 0
         /\ Blocks(type) \in Nat /\ Blocks(type) > 0
         /\ Blocks(type) * Sizes[type] <= PageSize
<1> DEFINE s == Sizes[type]
<1>1. s \in Nat /\ s > 0 /\ s <= PageSize /\ PageSize \in Nat
  BY HeapAssumption DEF Types
<1> HIDE DEF s
<1>2. /\ PageSize \div s \in Nat /\ PageSize % s \in Nat /\ PageSize % s < s
      /\ PageSize = (PageSize \div s) * s + (PageSize % s)
  BY <1>1
<1>3. PageSize \div s > 0
  BY <1>1, <1>2
<1>4. (PageSize \div s) * s \in Nat
  BY <1>1, <1>2
<1>5. (PageSize \div s) * s <= PageSize
  BY <1>1, <1>2, <1>4
<1>6. QED
  BY <1>1, <1>2, <1>3, <1>5 DEF Blocks, s

\* Blocks of a page lie in it, and do not overlap.
LEMMA OffsetFacts ==
  ASSUME NEW type \in Types
  PROVE  /\ \A o \in Offsets(type) :
              o \in Nat /\ o + Sizes[type] <= PageSize /\ o < PageSize /\ o % Sizes[type] = 0
         /\ \A o, q \in Offsets(type) :
              o # q => o + Sizes[type] <= q \/ q + Sizes[type] <= o
         /\ \A j, k \in 0 .. Blocks(type) - 1 : j * Sizes[type] = k * Sizes[type] => j = k
<1> DEFINE s == Sizes[type]
           n == Blocks(type)
<1>1. s \in Nat /\ s > 0 /\ n \in Nat /\ n > 0 /\ n * s <= PageSize
  BY Counting
<1>2. PageSize \in Nat
  BY HeapAssumption
<1>3. Offsets(type) = {k * s : k \in 0 .. n - 1}
  BY Zenon DEF Offsets
<1> HIDE DEF s, n
<1>4. ASSUME NEW j \in Nat, NEW k \in Nat, j < k
      PROVE  j * s + s <= k * s
  <2>1. PICK d \in Nat : k = j + 1 + d
    <3>1. k - j - 1 \in Nat /\ k = j + 1 + (k - j - 1)
      BY <1>4
    <3>2. QED
      BY <3>1
  <2>2. (j + 1 + d) * s = j * s + s + d * s
    BY <1>1, <2>1
  <2>3. d * s \in Nat /\ j * s \in Nat
    BY <1>1, <2>1
  <2>4. QED
    BY <1>1, <2>1, <2>2, <2>3
<1>5. \A k \in Nat : k * s \in Nat /\ (k * s) % s = 0
  BY <1>1
<1>6. ASSUME NEW k \in 0 .. n - 1
      PROVE  k * s \in Nat /\ k * s + s <= PageSize /\ k * s < PageSize /\ (k * s) % s = 0
  <2>1. k \in Nat /\ k < n
    BY <1>1
  <2>2. k * s + s <= n * s /\ k * s \in Nat /\ n * s \in Nat /\ (k * s) % s = 0
    BY <1>1, <1>4, <1>5, <2>1
  <2>3. QED
    BY <1>1, <1>2, <2>2
<1>7. ASSUME NEW j \in 0 .. n - 1, NEW k \in 0 .. n - 1, j # k
      PROVE  j * s + s <= k * s \/ k * s + s <= j * s
  <2>1. j \in Nat /\ k \in Nat /\ (j < k \/ k < j)
    BY <1>1, <1>7
  <2>2. QED
    BY Zenon, <1>4, <2>1
<1>8. ASSUME NEW j \in 0 .. n - 1, NEW k \in 0 .. n - 1, j * s = k * s
      PROVE  j = k
  BY <1>1, <1>5, <1>6, <1>7, <1>8
<1>9. /\ \A o \in Offsets(type) : o \in Nat /\ o + s <= PageSize /\ o < PageSize /\ o % s = 0
      /\ \A o, q \in Offsets(type) : o # q => o + s <= q \/ q + s <= o
  BY Zenon, <1>3, <1>6, <1>7
<1>10. QED
  BY Zenon, <1>8, <1>9 DEF s, n

-----------------------------------------------------------------------------
\* Lists.

\* A list with one more at the front.
LEMMA Linked ==
  ASSUME NEW T, NEW s \in Seq(T), NEW i \in T, NEW S, Lists(s, S), i \notin S
  PROVE  Lists(<<i>> \o s, S \cup {i}) /\ <<i>> \o s \in Seq(T)
<1> DEFINE c == <<i>> \o s
<1>1. /\ c \in Seq(T) /\ Len(c) = Len(s) + 1 /\ Len(s) \in Nat /\ c[1] = i
      /\ DOMAIN c = 1 .. Len(s) + 1 /\ DOMAIN s = 1 .. Len(s)
  OBVIOUS
<1>2. \A k \in DOMAIN s : k + 1 \in DOMAIN c /\ c[k + 1] = s[k]
  OBVIOUS
<1>3. \A k \in DOMAIN c : k = 1 \/ (k - 1 \in DOMAIN s /\ c[k] = s[k - 1])
  BY <1>1, <1>2
<1> HIDE DEF c
<1>4. 1 \in DOMAIN c
  BY <1>1
<1>5. Range(c) = S \cup {i}
  <2>1. S = Range(s)
    BY Zenon DEF Lists
  <2>2. ASSUME NEW k \in DOMAIN c PROVE c[k] \in Range(s) \cup {i}
    BY Zenon, <1>1, <1>3 DEF Range
  <2>3. ASSUME NEW k \in DOMAIN s PROVE s[k] \in Range(c)
    BY Zenon, <1>2 DEF Range
  <2>4. i \in Range(c)
    BY Zenon, <1>1, <1>4 DEF Range
  <2>5. QED
    BY Zenon, <2>1, <2>2, <2>3, <2>4 DEF Range
<1>6. \A k \in DOMAIN s : s[k] # i
  BY Zenon DEF Lists, Range
<1>7. ASSUME NEW j \in DOMAIN c, NEW k \in DOMAIN c, c[j] = c[k]
      PROVE  j = k
  <2>1. j \in Nat /\ k \in Nat
    BY <1>1
  <2>2. CASE j = 1 /\ k = 1
    BY <2>2
  <2>3. CASE j # 1 /\ k = 1
    BY Zenon, <1>1, <1>3, <1>6, <1>7, <2>3
  <2>4. CASE j = 1 /\ k # 1
    BY Zenon, <1>1, <1>3, <1>6, <1>7, <2>4
  <2>5. CASE j # 1 /\ k # 1
    <3>1. /\ j - 1 \in DOMAIN s /\ k - 1 \in DOMAIN s /\ s[j - 1] = s[k - 1]
      BY Zenon, <1>3, <1>7, <2>5
    <3>2. j - 1 = k - 1
      BY Zenon, <3>1 DEF Lists, Distinct
    <3>3. QED
      BY <2>1, <3>2
  <2>6. QED
    BY Zenon, <2>2, <2>3, <2>4, <2>5
<1>8. QED
  BY Zenon, <1>1, <1>5, <1>7 DEF c, Lists, Distinct

\* A list without its first.
LEMMA Popped ==
  ASSUME NEW T, NEW s \in Seq(T), Distinct(s), Len(s) > 0
  PROVE  /\ Tail(s) \in Seq(T) /\ Distinct(Tail(s)) /\ Len(Tail(s)) = Len(s) - 1
         /\ Head(s) \in Range(s) /\ Range(Tail(s)) = Range(s) \ {Head(s)}
<1> DEFINE c == Tail(s)
<1>1. /\ c \in Seq(T) /\ Len(c) = Len(s) - 1 /\ Len(s) \in Nat /\ Head(s) = s[1]
      /\ DOMAIN c = 1 .. Len(s) - 1 /\ DOMAIN s = 1 .. Len(s)
  OBVIOUS
<1>2. \A k \in DOMAIN c : k + 1 \in DOMAIN s /\ c[k] = s[k + 1] /\ k + 1 # 1
  BY <1>1
<1>3. \A k \in DOMAIN s : k = 1 \/ (k - 1 \in DOMAIN c /\ c[k - 1] = s[k])
  BY <1>1, <1>2
<1>4. 1 \in DOMAIN s
  BY <1>1
<1> HIDE DEF c
<1>5. Head(s) \in Range(s)
  BY Zenon, <1>1, <1>4 DEF Range
<1>6. ASSUME NEW k \in DOMAIN c PROVE c[k] \in Range(s) \ {Head(s)}
  BY Zenon, <1>1, <1>2, <1>4 DEF Range, Distinct
<1>7. ASSUME NEW x \in Range(s) \ {Head(s)} PROVE x \in Range(c)
  <2>1. PICK k \in DOMAIN s : x = s[k] /\ k # 1
    BY Zenon, <1>1 DEF Range
  <2>2. QED
    BY Zenon, <1>3, <2>1 DEF Range
<1>8. Range(c) = Range(s) \ {Head(s)}
  BY Zenon, <1>6, <1>7 DEF Range
<1>9. ASSUME NEW j \in DOMAIN c, NEW k \in DOMAIN c, c[j] = c[k]
      PROVE  j = k
  <2>1. j + 1 = k + 1
    BY Zenon, <1>2, <1>9 DEF Distinct
  <2>2. j \in Nat /\ k \in Nat
    BY <1>1
  <2>3. QED
    BY <2>1, <2>2
<1>10. QED
  BY Zenon, <1>1, <1>5, <1>8, <1>9 DEF c, Distinct

\* A list without one of its members.
LEMMA Unlinks ==
  ASSUME NEW T, NEW s \in Seq(T), NEW S, Lists(s, S), NEW i \in S
  PROVE  Lists(Unlinked(s, i), S \ {i}) /\ Unlinked(s, i) \in Seq(T)
<1> DEFINE at == {k \in DOMAIN s : s[k] = i}
           n == Len(s)
<1>1. n \in Nat /\ DOMAIN s = 1 .. n
  OBVIOUS
<1>2. PICK m \in DOMAIN s : s[m] = i
  BY Zenon DEF Lists, Range
<1>3. at = {m}
  BY Zenon, <1>2 DEF Lists, Distinct
<1>4. m \in Nat /\ m >= 1 /\ m <= n
  BY <1>1, <1>2
<1>5. m <= m
  BY <1>4
<1>6. Min(at) = m
  BY Zenon, <1>3, <1>5 DEF Min
<1> DEFINE c == SubSeq(s, 1, m - 1) \o SubSeq(s, m + 1, n)
<1>7. Unlinked(s, i) = c
  BY Zenon, <1>3, <1>6 DEF Unlinked
<1>8. /\ SubSeq(s, 1, m - 1) \in Seq(T) /\ Len(SubSeq(s, 1, m - 1)) = m - 1
      /\ SubSeq(s, m + 1, n) \in Seq(T) /\ Len(SubSeq(s, m + 1, n)) = n - m
  BY <1>1, <1>4
<1>9. \A k \in 1 .. m - 1 : SubSeq(s, 1, m - 1)[k] = s[k]
  BY <1>1, <1>4
<1>10. \A k \in 1 .. n - m : SubSeq(s, m + 1, n)[k] = s[m + k]
  BY <1>1, <1>4
<1>11. c \in Seq(T) /\ Len(c) = n - 1 /\ DOMAIN c = 1 .. n - 1
  <2>1. \A x, y \in Seq(T) : x \o y \in Seq(T) /\ Len(x \o y) = Len(x) + Len(y)
    OBVIOUS
  <2>2. c \in Seq(T) /\ Len(c) = (m - 1) + (n - m)
    BY Zenon, <1>8, <2>1
  <2> HIDE DEF c
  <2>3. QED
    BY <1>1, <1>4, <2>2
<1>12. ASSUME NEW k \in 1 .. n - 1 PROVE c[k] = IF k < m THEN s[k] ELSE s[k + 1]
  <2> DEFINE x == SubSeq(s, 1, m - 1)
             y == SubSeq(s, m + 1, n)
  <2>1. /\ x \in Seq(T) /\ Len(x) = m - 1 /\ y \in Seq(T) /\ Len(y) = n - m
    BY <1>8
  <2>2. k < m => x[k] = s[k]
    BY <1>1, <1>4, <1>9
  <2>3. k >= m => y[k - (m - 1)] = s[k + 1]
    <3>1. k >= m => k - (m - 1) \in 1 .. n - m /\ m + (k - (m - 1)) = k + 1
      BY <1>1, <1>4
    <3>2. QED
      BY Zenon, <1>10, <3>1
  <2> HIDE DEF x, y
  <2>4. (x \o y)[k] = IF k <= m - 1 THEN x[k] ELSE y[k - (m - 1)]
    BY <1>1, <1>4, <2>1
  <2>5. (k <= m - 1 <=> k < m) /\ (k >= m \/ k < m)
    BY <1>1, <1>4
  <2>6. QED
    BY Zenon, <1>1, <1>4, <2>2, <2>3, <2>4, <2>5 DEF x, y
<1> HIDE DEF c, n
<1> DEFINE f(k) == IF k < m THEN k ELSE k + 1
<1>13. \A k \in DOMAIN c : f(k) \in DOMAIN s /\ f(k) # m /\ c[k] = s[f(k)]
  BY <1>1, <1>4, <1>11, <1>12
<1>14. \A j, k \in DOMAIN c : f(j) = f(k) => j = k
  BY <1>1, <1>4, <1>11
<1>15. \A k \in DOMAIN s : k # m => \E j \in DOMAIN c : f(j) = k
  <2>1. ASSUME NEW k \in DOMAIN s, k # m PROVE \E j \in DOMAIN c : f(j) = k
    <3>1. CASE k < m
      <4>1. k \in DOMAIN c /\ f(k) = k
        BY <1>1, <1>4, <1>11, <3>1
      <4>2. QED
        BY <4>1
    <3>2. CASE k > m
      <4>1. k - 1 \in DOMAIN c /\ f(k - 1) = k
        BY <1>1, <1>4, <1>11, <3>2
      <4>2. QED
        BY <4>1
    <3>3. QED
      BY <1>1, <1>4, <2>1, <3>1, <3>2
  <2>2. QED
    BY Zenon, <2>1
<1> HIDE DEF f
<1>16. Distinct(c)
  BY Zenon, <1>13, <1>14 DEF Distinct, Lists
<1>17. ASSUME NEW x \in Range(c) PROVE x \in S \ {i}
  <2>1. PICK k \in DOMAIN c : x = c[k]
    BY Zenon DEF Range
  <2>2. x = s[f(k)] /\ f(k) \in DOMAIN s /\ f(k) # m
    BY Zenon, <1>13, <2>1
  <2>3. x \in S
    BY Zenon, <2>2 DEF Lists, Range
  <2>4. x # i
    BY Zenon, <1>2, <2>2 DEF Lists, Distinct
  <2>5. QED
    BY Zenon, <2>3, <2>4
<1>18. ASSUME NEW x \in S \ {i} PROVE x \in Range(c)
  <2>1. PICK k \in DOMAIN s : x = s[k]
    BY Zenon DEF Lists, Range
  <2>2. PICK j \in DOMAIN c : f(j) = k
    BY Zenon, <1>2, <1>15, <2>1
  <2>3. QED
    BY Zenon, <1>13, <2>1, <2>2 DEF Range
<1>19. QED
  BY Zenon, <1>7, <1>11, <1>16, <1>17, <1>18 DEF Lists

\* The free list of a fresh page has all its blocks.
LEMMA Fresh ==
  ASSUME NEW type \in Types, NEW page \in Nat
  PROVE  /\ NewPage(page, type) \in Pageref
         /\ NewPage(page, type).page = page /\ NewPage(page, type).blocktype = type
         /\ FreeTrue(NewPage(page, type)) /\ NewPage(page, type).nfree > 0
         /\ Range(NewPage(page, type).free) = Offsets(type)
<1> DEFINE n == Blocks(type)
           s == [k \in 1 .. n |-> (n - k) * Sizes[type]]
<1>1. n \in Nat /\ n > 0 /\ Sizes[type] \in Nat
  BY Counting
<1>2. NewPage(page, type) = [page |-> page, blocktype |-> type, nfree |-> n, free |-> s]
  BY Zenon DEF NewPage
<1> HIDE DEF n
<1>3. \A k \in 1 .. n : n - k \in 0 .. n - 1
  BY <1>1
<1>4. \A k \in 0 .. n - 1 : n - k \in 1 .. n /\ n - (n - k) = k
  BY <1>1
<1>5. \A k \in 1 .. n : (n - k) * Sizes[type] \in Nat
  BY <1>1
<1>6. s \in Seq(Nat) /\ Len(s) = n /\ DOMAIN s = 1 .. n
  BY <1>1, <1>5
<1>7. \A k \in 1 .. n : s[k] = (n - k) * Sizes[type]
  OBVIOUS
<1> HIDE DEF s
<1>8. Offsets(type) = {k * Sizes[type] : k \in 0 .. n - 1}
  BY Zenon DEF Offsets, n
<1>9. ASSUME NEW k \in 0 .. n - 1
      PROVE  \E j \in DOMAIN s : s[j] = k * Sizes[type]
  <2>1. n - k \in DOMAIN s /\ s[n - k] = (n - (n - k)) * Sizes[type] /\ n - (n - k) = k
    BY Zenon, <1>4, <1>6, <1>7
  <2>2. s[n - k] = k * Sizes[type]
    BY Zenon, <2>1
  <2>3. QED
    BY Zenon, <2>1, <2>2
<1>10. Range(s) = Offsets(type)
  <2>1. ASSUME NEW k \in DOMAIN s PROVE s[k] \in Offsets(type)
    BY Zenon, <1>3, <1>6, <1>7, <1>8
  <2>2. ASSUME NEW o \in Offsets(type) PROVE o \in Range(s)
    BY Zenon, <1>8, <1>9 DEF Range
  <2>3. QED
    BY Zenon, <2>1, <2>2 DEF Range
<1>11. \A j, k \in 0 .. n - 1 : j * Sizes[type] = k * Sizes[type] => j = k
  BY Zenon, OffsetFacts DEF n
<1>12. ASSUME NEW j \in DOMAIN s, NEW k \in DOMAIN s, s[j] = s[k]
       PROVE  j = k
  <2>1. n - j = n - k
    <3>1. s[j] = (n - j) * Sizes[type] /\ s[k] = (n - k) * Sizes[type]
      BY Zenon, <1>6, <1>7
    <3>2. n - j \in 0 .. n - 1 /\ n - k \in 0 .. n - 1
      BY Zenon, <1>3, <1>6
    <3>3. (n - j) * Sizes[type] = (n - k) * Sizes[type]
      BY Zenon, <1>12, <3>1
    <3>4. QED
      BY Zenon, <1>11, <3>2, <3>3
  <2>2. QED
    BY <1>1, <1>6, <2>1
<1>13. Distinct(s)
  BY Zenon, <1>12 DEF Distinct
<1>14. /\ NewPage(page, type) \in Pageref
       /\ NewPage(page, type).page = page /\ NewPage(page, type).blocktype = type
       /\ NewPage(page, type).nfree = n /\ NewPage(page, type).free = s
  BY <1>1, <1>2, <1>6 DEF Pageref
<1>15. QED
  BY Zenon, <1>1, <1>6, <1>10, <1>13, <1>14 DEF FreeTrue

-----------------------------------------------------------------------------
\* Blocks.

\* Where a block of a page is.
LEMMA Within ==
  ASSUME NEW b \in Block, NEW pr \in Pageref, BlockOf(b, pr)
  PROVE  /\ b.size > 0 /\ b.addr = pr.page * PageSize + OffsetOf(b)
         /\ pr.page * PageSize <= b.addr /\ End(b) <= pr.page * PageSize + PageSize
<1> DEFINE o == OffsetOf(b)
           p == pr.page * PageSize
           s == Sizes[pr.blocktype]
<1>1. b.addr \in Nat /\ b.size \in Nat /\ pr.page \in Nat /\ pr.blocktype \in Types
  BY Zenon DEF Block, Pageref
<1>2. b.addr = p + o
  BY Zenon, <1>1, Paging DEF BlockOf, PageOf, OffsetOf
<1>3. o \in Nat /\ o + s <= PageSize
  BY Zenon, <1>1, OffsetFacts DEF BlockOf
<1>4. b.size = s /\ s \in Nat /\ s > 0 /\ p \in Nat /\ PageSize \in Nat
  BY Zenon, <1>1, Counting, Paging, HeapAssumption DEF BlockOf
<1> HIDE DEF o, p, s
<1>5. b.size > 0 /\ p <= b.addr /\ b.addr + b.size <= p + PageSize
  BY <1>2, <1>3, <1>4
<1>6. QED
  BY Zenon, <1>2, <1>5 DEF End, o, p

\* Two blocks of a page at different offsets do not overlap.
LEMMA SamePage ==
  ASSUME NEW b \in Block, NEW c \in Block, NEW pr \in Pageref,
         BlockOf(b, pr), BlockOf(c, pr), OffsetOf(b) # OffsetOf(c)
  PROVE  Apart(b, c) /\ Apart(c, b)
<1> DEFINE p == pr.page * PageSize
           s == Sizes[pr.blocktype]
           x == OffsetOf(b)
           y == OffsetOf(c)
<1>1. pr.page \in Nat /\ pr.blocktype \in Types
  BY Zenon DEF Pageref
<1>2. /\ b.addr = p + x /\ c.addr = p + y /\ b.size = s /\ c.size = s
  BY Zenon, Within DEF BlockOf
<1>3. x \in Nat /\ y \in Nat /\ (x + s <= y \/ y + s <= x)
  BY Zenon, <1>1, OffsetFacts DEF BlockOf
<1>4. p \in Nat /\ s \in Nat
  BY Zenon, <1>1, Paging, Counting
<1> HIDE DEF p, s, x, y
<1>5. QED
  BY <1>2, <1>3, <1>4 DEF Apart, End

\* A block of one page is clear of the others.
LEMMA OtherPage ==
  ASSUME NEW c \in Block, NEW pr \in Pageref, BlockOf(c, pr), NEW page \in Nat,
         page # pr.page
  PROVE  Clear(c, page)
<1> DEFINE p == pr.page * PageSize
           g == page * PageSize
<1>1. pr.page \in Nat /\ PageSize \in Nat /\ c.addr \in Nat /\ c.size \in Nat
  BY Zenon, HeapAssumption DEF Pageref, Block
<1>2. p <= c.addr /\ End(c) <= p + PageSize
  BY Zenon, Within
<1>3. page < pr.page \/ pr.page < page
  BY <1>1
<1>4. g + PageSize <= p \/ p + PageSize <= g
  BY Zenon, <1>1, <1>3, Paging
<1>5. p \in Nat /\ g \in Nat
  BY Zenon, <1>1, Paging
<1> HIDE DEF p, g
<1>6. End(c) <= g \/ g + PageSize <= c.addr
  BY <1>1, <1>2, <1>4, <1>5 DEF End
<1>7. QED
  BY Zenon, <1>6 DEF Clear, g

\* What is clear of a page does not overlap a block of it.
LEMMA ClearApart ==
  ASSUME NEW b \in Block, NEW c \in Block, NEW pr \in Pageref, BlockOf(b, pr),
         Clear(c, pr.page)
  PROVE  Apart(b, c) /\ Apart(c, b)
<1> DEFINE p == pr.page * PageSize
<1>1. pr.page \in Nat
  BY Zenon DEF Pageref
<1>2. /\ PageSize \in Nat /\ b.addr \in Nat /\ b.size \in Nat
      /\ c.addr \in Nat /\ c.size \in Nat /\ p \in Nat
  BY Zenon, <1>1, Paging, HeapAssumption DEF Block
<1>3. p <= b.addr /\ End(b) <= p + PageSize
  BY Zenon, Within
<1>4. End(c) <= p \/ p + PageSize <= c.addr
  BY Zenon DEF Clear
<1> HIDE DEF p
<1>5. QED
  BY <1>2, <1>3, <1>4 DEF Apart, End

\* What starts on a page is not clear of it.
LEMMA NotClear ==
  ASSUME NEW b \in Block, b.size > 0
  PROVE  ~ Clear(b, PageOf(b))
<1> DEFINE p == PageOf(b) * PageSize
           o == OffsetOf(b)
<1>1. b.addr \in Nat /\ b.size \in Nat /\ PageSize \in Nat
  BY Zenon, HeapAssumption DEF Block
<1>2. b.addr = p + o /\ o \in Nat /\ o < PageSize /\ p \in Nat
  BY Zenon, <1>1, Paging DEF PageOf, OffsetOf
<1> HIDE DEF p, o
<1>3. ~ (b.addr + b.size <= p \/ p + PageSize <= b.addr)
  BY <1>1, <1>2
<1>4. QED
  BY Zenon, <1>3 DEF Clear, End, p

\* What ends before the first free page is clear of it.
LEMMA BeforeFree ==
  ASSUME HeapTypes, NEW c \in held, HeldTrue(c)
  PROVE  Clear(c, firstpaddr)
BY Zenon DEF HeldTrue, Clear

\* What doalloc leaves of a pageref, and the block it takes.
LEMMA Takes ==
  ASSUME NEW pr \in Pageref, FreeTrue(pr), pr.nfree > 0,
         NEW q, q = [pr EXCEPT !.free = Tail(@), !.nfree = @ - 1],
         NEW b, b = [addr |-> pr.page * PageSize + Head(pr.free), size |-> Sizes[pr.blocktype]]
  PROVE  /\ q \in Pageref /\ q.page = pr.page /\ q.blocktype = pr.blocktype /\ FreeTrue(q)
         /\ b \in Block /\ BlockOf(b, q) /\ OffsetOf(b) \in Range(pr.free)
         /\ Range(q.free) = Range(pr.free) \ {OffsetOf(b)}
<1> DEFINE o == Head(pr.free)
           s == Tail(pr.free)
<1>1. /\ pr.page \in Nat /\ pr.blocktype \in Types /\ pr.free \in Seq(Nat) /\ pr.nfree \in Nat
      /\ Distinct(pr.free) /\ pr.nfree = Len(pr.free)
      /\ Range(pr.free) \subseteq Offsets(pr.blocktype)
  BY Zenon DEF Pageref, FreeTrue
<1>2. Len(pr.free) > 0
  BY Zenon, <1>1
<1>3. /\ s \in Seq(Nat) /\ Distinct(s) /\ Len(s) = Len(pr.free) - 1
      /\ o \in Range(pr.free) /\ Range(s) = Range(pr.free) \ {o}
  BY Zenon, <1>1, <1>2, Popped
<1>4. pr.nfree - 1 \in Nat /\ pr.nfree - 1 = Len(s)
  BY <1>1, <1>2, <1>3
<1>5. o \in Nat /\ o < PageSize /\ o \in Offsets(pr.blocktype)
  BY Zenon, <1>1, <1>3, OffsetFacts
<1> HIDE DEF o, s
<1>6. /\ q.page = pr.page /\ q.blocktype = pr.blocktype /\ q.free = s
      /\ q.nfree = pr.nfree - 1 /\ q \in Pageref
  BY Zenon, <1>1, <1>3, <1>4 DEF Pageref, s
<1>7. b.addr = pr.page * PageSize + o /\ b.size = Sizes[pr.blocktype]
  BY DEF o
<1>8. PageOf(b) = pr.page /\ OffsetOf(b) = o
  <2>1. /\ (pr.page * PageSize + o) \div PageSize = pr.page
        /\ (pr.page * PageSize + o) % PageSize = o
    BY Zenon, <1>1, <1>5, Paging
  <2>2. QED
    BY Zenon, <1>7, <2>1 DEF PageOf, OffsetOf
<1>9. b \in Block
  <2>1. pr.page * PageSize \in Nat /\ Sizes[pr.blocktype] \in Nat
    BY Zenon, <1>1, Paging, Counting
  <2>2. pr.page * PageSize + o \in Nat
    BY <1>5, <2>1
  <2>3. QED
    BY <2>1, <2>2 DEF Block, o
<1>10. FreeTrue(q)
  BY Zenon, <1>1, <1>3, <1>4, <1>6 DEF FreeTrue
<1>11. QED
  BY Zenon, <1>1, <1>3, <1>5, <1>6, <1>7, <1>8, <1>9, <1>10 DEF BlockOf

\* What subpage_kfree makes of a pageref.
WithBlock(pr, b) == [pr EXCEPT !.free = <<b.addr % PageSize>> \o @, !.nfree = @ + 1]

\* The block is on the free list, and the rest of the pageref is as it was.
LEMMA Gives ==
  ASSUME NEW pr \in Pageref, FreeTrue(pr), NEW b \in Block, BlockOf(b, pr),
         NEW q, q = WithBlock(pr, b)
  PROVE  /\ q \in Pageref /\ q.page = pr.page /\ q.blocktype = pr.blocktype /\ FreeTrue(q)
         /\ Range(q.free) = Range(pr.free) \cup {OffsetOf(b)}
<1> DEFINE o == b.addr % PageSize
           s == <<o>> \o pr.free
<1>1. /\ pr.page \in Nat /\ pr.blocktype \in Types /\ pr.free \in Seq(Nat) /\ pr.nfree \in Nat
      /\ Distinct(pr.free) /\ pr.nfree = Len(pr.free)
      /\ Range(pr.free) \subseteq Offsets(pr.blocktype)
  BY Zenon DEF Pageref, FreeTrue
<1>2. o = OffsetOf(b) /\ o \in Offsets(pr.blocktype) /\ o \notin Range(pr.free)
  BY Zenon DEF BlockOf, OffsetOf
<1>3. o \in Nat
  BY Zenon, <1>1, <1>2, OffsetFacts
<1> HIDE DEF o
<1>4. Lists(pr.free, Range(pr.free))
  BY Zenon, <1>1 DEF Lists
<1>5. s \in Seq(Nat) /\ Lists(s, Range(pr.free) \cup {o})
  BY Zenon, <1>1, <1>2, <1>3, <1>4, Linked
<1>6. pr.nfree + 1 \in Nat /\ pr.nfree + 1 = Len(s)
  BY <1>1, <1>3
<1> HIDE DEF s
<1>7. /\ q.page = pr.page /\ q.blocktype = pr.blocktype /\ q.free = s
      /\ q.nfree = pr.nfree + 1 /\ q \in Pageref
  BY Zenon, <1>1, <1>5, <1>6 DEF Pageref, WithBlock, s, o
<1>8. QED
  BY Zenon, <1>1, <1>2, <1>5, <1>6, <1>7 DEF FreeTrue, Lists

-----------------------------------------------------------------------------
\* Steps.

\* What the invariant says of the memory, without the lists.
MemInv ==
  /\ \A i \in inuse : PagerefTrue(i) /\ Covered(i)
  /\ \A i, j \in inuse : pagerefs[i].page = pagerefs[j].page => i = j
  /\ \A b \in held : HeldTrue(b)
  /\ \A b, c \in held : b # c => Apart(b, c)

\* A block taken off a free list keeps the memory sound: the pageref is in use
\* with its page to itself, and what was held before is of the same page and
\* elsewhere on it, or clear of the page.
LEMMA Allocated ==
  ASSUME HeapTypes, MemInv, NEW i \in Refs, NEW q \in Pageref, NEW b \in Block,
         pagerefs' = [pagerefs EXCEPT ![i] = q], held' = held \cup {b},
         inuse' = inuse \cup {i}, firstpaddr' \in Nat, firstpaddr <= firstpaddr',
         0 < q.page, q.page < firstpaddr', FreeTrue(q), BlockOf(b, q),
         \A j \in inuse \ {i} : pagerefs[j].page # q.page,
         \A c \in held :
           \/ BlockOf(c, q) /\ OffsetOf(c) # OffsetOf(b)
           \/ /\ Clear(c, q.page)
              /\ \/ \E j \in inuse \ {i} : BlockOf(c, pagerefs[j])
                 \/ \A j \in inuse \ {i} : Clear(c, pagerefs[j].page),
         \A off \in Offsets(q.blocktype) :
           \/ off \in Range(q.free) \/ off = OffsetOf(b)
           \/ \E c \in held : PageOf(c) = q.page /\ OffsetOf(c) = off
  PROVE  MemInv'
<1>1. /\ pagerefs'[i] = q /\ \A j \in Refs \ {i} : pagerefs'[j] = pagerefs[j]
      /\ inuse \subseteq Refs /\ held \subseteq Block /\ firstpaddr \in Nat
      /\ pagerefs \in [Refs -> Pageref]
  BY Zenon DEF HeapTypes
<1>2. \A j \in Refs : pagerefs[j] \in Pageref /\ pagerefs[j].page \in Nat
  BY Zenon, <1>1 DEF Pageref
<1>3. q.page \in Nat /\ PageSize \in Nat
  BY Zenon, HeapAssumption DEF Pageref
<1>4. PageOf(b) = q.page
  BY Zenon DEF BlockOf
<1>5. firstpaddr * PageSize <= firstpaddr' * PageSize
  <2>1. firstpaddr = firstpaddr' \/ firstpaddr < firstpaddr'
    BY <1>1
  <2>2. firstpaddr < firstpaddr' => firstpaddr * PageSize + PageSize <= firstpaddr' * PageSize
    BY Zenon, <1>1, Paging
  <2>3. firstpaddr * PageSize \in Nat /\ firstpaddr' * PageSize \in Nat
    BY Zenon, <1>1, Paging
  <2>4. QED
    BY <1>3, <2>1, <2>2, <2>3
<1>6. ASSUME NEW j \in inuse' PROVE PagerefTrue(j)'
  <2>1. CASE j = i
    BY Zenon, <1>1, <2>1 DEF PagerefTrue
  <2>2. CASE j # i
    <3>1. j \in inuse /\ pagerefs'[j] = pagerefs[j] /\ PagerefTrue(j) /\ pagerefs[j].page \in Nat
      BY Zenon, <1>1, <1>2, <2>2 DEF MemInv
    <3>2. pagerefs[j].page < firstpaddr'
      BY <1>1, <3>1 DEF PagerefTrue
    <3>3. QED
      BY Zenon, <3>1, <3>2 DEF PagerefTrue
  <2>3. QED
    BY Zenon, <2>1, <2>2
<1>7. ASSUME NEW j \in inuse' PROVE Covered(j)'
  <2>1. CASE j = i
    BY Zenon, <1>1, <1>4, <2>1 DEF Covered
  <2>2. CASE j # i
    <3>1. j \in inuse /\ pagerefs'[j] = pagerefs[j] /\ Covered(j)
      BY Zenon, <1>1, <2>2 DEF MemInv
    <3>2. QED
      BY Zenon, <3>1 DEF Covered
  <2>3. QED
    BY Zenon, <2>1, <2>2
<1>8. ASSUME NEW j \in inuse', NEW k \in inuse', pagerefs'[j].page = pagerefs'[k].page
      PROVE  j = k
  BY Zenon, <1>1, <1>8 DEF MemInv
<1>9. HeldTrue(b)'
  <2>1. /\ b.size > 0 /\ q.page * PageSize <= b.addr
        /\ End(b) <= q.page * PageSize + PageSize
    BY Zenon, Within
  <2>2. PageSize <= q.page * PageSize /\ q.page * PageSize + PageSize <= firstpaddr' * PageSize
    BY Zenon, <1>3, Paging
  <2>3. /\ q.page * PageSize \in Nat /\ firstpaddr' * PageSize \in Nat
        /\ b.addr \in Nat /\ b.size \in Nat
    BY Zenon, <1>3, Paging DEF Block
  <2>4. PageSize <= b.addr /\ End(b) <= firstpaddr' * PageSize
    BY <1>3, <2>1, <2>2, <2>3 DEF End
  <2>5. \E j \in inuse' : BlockOf(b, pagerefs'[j])
    BY Zenon, <1>1
  <2>6. QED
    BY Zenon, <2>1, <2>4, <2>5 DEF HeldTrue
<1>10. ASSUME NEW c \in held PROVE HeldTrue(c)'
  <2>1. /\ c.size > 0 /\ PageSize <= c.addr /\ End(c) <= firstpaddr * PageSize
        /\ c.addr \in Nat /\ c.size \in Nat
    BY Zenon, <1>1 DEF MemInv, HeldTrue, Block
  <2>2. End(c) <= firstpaddr' * PageSize
    <3>1. firstpaddr * PageSize \in Nat /\ firstpaddr' * PageSize \in Nat
      BY Zenon, <1>1, Paging
    <3>2. QED
      BY <1>5, <2>1, <3>1 DEF End
  <2>3. CASE BlockOf(c, q)
    BY Zenon, <1>1, <2>1, <2>2, <2>3 DEF HeldTrue
  <2>4. ASSUME NEW j \in inuse \ {i}, BlockOf(c, pagerefs[j])
        PROVE  HeldTrue(c)'
    <3>1. j \in inuse' /\ pagerefs'[j] = pagerefs[j]
      BY Zenon, <1>1
    <3>2. QED
      BY Zenon, <2>1, <2>2, <2>4, <3>1 DEF HeldTrue
  <2>5. CASE Clear(c, q.page) /\ \A j \in inuse \ {i} : Clear(c, pagerefs[j].page)
    <3>1. \A j \in inuse' : Clear(c, pagerefs'[j].page)
      BY Zenon, <1>1, <2>5
    <3>2. QED
      BY Zenon, <2>1, <2>2, <3>1 DEF HeldTrue
  <2>6. QED
    BY Zenon, <2>3, <2>4, <2>5
<1>11. \A c \in held : Apart(b, c) /\ Apart(c, b)
  <2>1. ASSUME NEW c \in held PROVE Apart(b, c) /\ Apart(c, b)
    <3>1. CASE BlockOf(c, q) /\ OffsetOf(c) # OffsetOf(b)
      BY Zenon, <1>1, <3>1, SamePage
    <3>2. CASE Clear(c, q.page)
      BY Zenon, <1>1, <3>2, ClearApart
    <3>3. QED
      BY Zenon, <3>1, <3>2
  <2>2. QED
    BY Zenon, <2>1
<1>12. \A c, d \in held' : c # d => Apart(c, d)
  BY Zenon, <1>11 DEF MemInv
<1>13. QED
  BY Zenon, <1>6, <1>7, <1>8, <1>9, <1>10, <1>12 DEF MemInv

\* A pageref and its list change, and nothing is listed elsewhere.
LEMMA ListsSame ==
  ASSUME HeapTypes, ListsTrue, NEW i \in inuse, NEW q,
         pagerefs' = [pagerefs EXCEPT ![i] = q], q.blocktype = pagerefs[i].blocktype,
         UNCHANGED <<inuse, sizebases, allbase>>
  PROVE  ListsTrue'
<1>1. \A j \in inuse : pagerefs'[j].blocktype = pagerefs[j].blocktype
  BY Zenon DEF HeapTypes
<1>2. \A type \in Types : OfType(type)' = OfType(type)
  BY Zenon, <1>1 DEF OfType
<1>3. QED
  BY Zenon, <1>2 DEF ListsTrue

\* A block off the free list of a page in use (subpage_kmalloc).
LEMMA OldPage ==
  ASSUME HeapInv, NEW i \in inuse, pagerefs[i].nfree > 0, doalloc(i, pagerefs[i]),
         UNCHANGED <<firstpaddr, inuse, sizebases, allbase>>
  PROVE  HeapInv'
<1> DEFINE pr == pagerefs[i]
           q == [pr EXCEPT !.free = Tail(@), !.nfree = @ - 1]
           b == [addr |-> pr.page * PageSize + Head(pr.free), size |-> Sizes[pr.blocktype]]
<1>1. pagerefs' = [pagerefs EXCEPT ![i] = q] /\ held' = held \cup {b}
  BY Zenon DEF doalloc
<1>2. /\ HeapTypes /\ ListsTrue /\ MemInv /\ i \in Refs /\ pr \in Pageref /\ PagerefTrue(i)
      /\ Covered(i)
  BY Zenon DEF HeapInv, HeapTypes, MemInv
<1>3. FreeTrue(pr) /\ 0 < pr.page /\ pr.page < firstpaddr
  BY Zenon, <1>2 DEF PagerefTrue
<1>4. /\ q \in Pageref /\ q.page = pr.page /\ q.blocktype = pr.blocktype /\ FreeTrue(q)
      /\ b \in Block /\ BlockOf(b, q) /\ OffsetOf(b) \in Range(pr.free)
      /\ Range(q.free) = Range(pr.free) \ {OffsetOf(b)}
  <2>1. pr.nfree > 0
    OBVIOUS
  <2> HIDE DEF pr
  <2>2. QED
    BY Zenon, <1>2, <1>3, <2>1, Takes
<1> HIDE DEF q, b
<1>5. inuse' = inuse \cup {i} /\ firstpaddr' \in Nat /\ firstpaddr <= firstpaddr'
  BY <1>2 DEF HeapTypes
<1>6. \A j \in inuse \ {i} : pagerefs[j].page # q.page
  BY Zenon, <1>2, <1>4 DEF MemInv
<1>7. ASSUME NEW c \in held
      PROVE  \/ BlockOf(c, q) /\ OffsetOf(c) # OffsetOf(b)
             \/ /\ Clear(c, q.page)
                /\ \/ \E j \in inuse \ {i} : BlockOf(c, pagerefs[j])
                   \/ \A j \in inuse \ {i} : Clear(c, pagerefs[j].page)
  <2>1. HeldTrue(c) /\ c \in Block
    BY Zenon, <1>2 DEF MemInv, HeapTypes
  <2>2. CASE BlockOf(c, pr)
    BY Zenon, <1>4, <2>2 DEF BlockOf
  <2>3. ASSUME NEW j \in inuse \ {i}, BlockOf(c, pagerefs[j]) PROVE Clear(c, q.page)
    <3>1. pagerefs[j] \in Pageref /\ q.page \in Nat
      BY Zenon, <1>2, <1>4 DEF HeapTypes, Pageref
    <3>2. QED
      BY Zenon, <1>6, <2>1, <2>3, <3>1, OtherPage
  <2>4. QED
    BY Zenon, <1>4, <2>1, <2>2, <2>3 DEF HeldTrue
<1>8. ASSUME NEW off \in Offsets(q.blocktype)
      PROVE  \/ off \in Range(q.free) \/ off = OffsetOf(b)
             \/ \E c \in held : PageOf(c) = q.page /\ OffsetOf(c) = off
  BY Zenon, <1>2, <1>4 DEF Covered
<1>9. q.page < firstpaddr' /\ 0 < q.page
  BY Zenon, <1>3, <1>4
<1>10. MemInv'
  BY Zenon, <1>1, <1>2, <1>4, <1>5, <1>6, <1>7, <1>8, <1>9, Allocated
<1>11. ListsTrue'
  BY Zenon, <1>1, <1>2, <1>4, ListsSame
<1>12. HeapTypes'
  BY Zenon, <1>1, <1>2, <1>4 DEF HeapTypes
<1>13. QED
  BY Zenon, <1>10, <1>11, <1>12 DEF HeapInv, MemInv

\* A block of a fresh page (subpage_kmalloc).
LEMMA FreshPage ==
  ASSUME HeapInv, NEW type \in Types, NEW i \in Refs \ inuse,
         doalloc(i, NewPage(firstpaddr, type)), inuse' = inuse \cup {i},
         sizebases' = [sizebases EXCEPT ![type] = <<i>> \o @],
         allbase' = <<i>> \o allbase, firstpaddr' = firstpaddr + 1
  PROVE  HeapInv'
<1> DEFINE pr == NewPage(firstpaddr, type)
           q == [pr EXCEPT !.free = Tail(@), !.nfree = @ - 1]
           b == [addr |-> pr.page * PageSize + Head(pr.free), size |-> Sizes[pr.blocktype]]
<1>1. pagerefs' = [pagerefs EXCEPT ![i] = q] /\ held' = held \cup {b}
  BY Zenon DEF doalloc
<1>2. HeapTypes /\ ListsTrue /\ MemInv /\ firstpaddr \in Nat
  BY Zenon DEF HeapInv, HeapTypes, MemInv
<1>3. /\ pr \in Pageref /\ pr.page = firstpaddr /\ pr.blocktype = type /\ FreeTrue(pr)
      /\ pr.nfree > 0 /\ Range(pr.free) = Offsets(type)
  BY Zenon, <1>2, Fresh
<1>4. /\ q \in Pageref /\ q.page = pr.page /\ q.blocktype = pr.blocktype /\ FreeTrue(q)
      /\ b \in Block /\ BlockOf(b, q) /\ OffsetOf(b) \in Range(pr.free)
      /\ Range(q.free) = Range(pr.free) \ {OffsetOf(b)}
  BY Zenon, <1>3, Takes
<1> HIDE DEF pr, q, b
<1>5. /\ firstpaddr' \in Nat \ {0} /\ firstpaddr <= firstpaddr' /\ firstpaddr < firstpaddr'
      /\ 0 < firstpaddr
  BY <1>2 DEF HeapTypes
<1>6. \A j \in inuse \ {i} : pagerefs[j].page # q.page
  <2>1. ASSUME NEW j \in inuse PROVE pagerefs[j].page # firstpaddr
    <3>1. pagerefs[j].page < firstpaddr /\ pagerefs[j].page \in Nat
      BY Zenon, <1>2 DEF MemInv, PagerefTrue, HeapTypes, Pageref
    <3>2. QED
      BY <1>2, <3>1
  <2>2. QED
    BY Zenon, <1>3, <1>4, <2>1
<1>7. ASSUME NEW c \in held
      PROVE  \/ BlockOf(c, q) /\ OffsetOf(c) # OffsetOf(b)
             \/ /\ Clear(c, q.page)
                /\ \/ \E j \in inuse \ {i} : BlockOf(c, pagerefs[j])
                   \/ \A j \in inuse \ {i} : Clear(c, pagerefs[j].page)
  <2>1. HeldTrue(c)
    BY Zenon, <1>2 DEF MemInv
  <2>2. Clear(c, q.page)
    BY Zenon, <1>2, <1>3, <1>4, <2>1, BeforeFree
  <2>3. QED
    BY Zenon, <2>1, <2>2 DEF HeldTrue
<1>8. ASSUME NEW off \in Offsets(q.blocktype)
      PROVE  \/ off \in Range(q.free) \/ off = OffsetOf(b)
             \/ \E c \in held : PageOf(c) = q.page /\ OffsetOf(c) = off
  BY Zenon, <1>3, <1>4
<1>9. 0 < q.page /\ q.page < firstpaddr'
  BY Zenon, <1>3, <1>4, <1>5
<1>10. MemInv'
  BY Zenon, <1>1, <1>2, <1>4, <1>5, <1>6, <1>7, <1>8, <1>9, Allocated
<1>11. Lists(allbase', inuse') /\ allbase' \in Seq(Refs)
  BY Zenon, <1>2, Linked DEF ListsTrue, HeapTypes
<1>12. ASSUME NEW ty \in Types
       PROVE  Lists(sizebases'[ty], OfType(ty)') /\ sizebases'[ty] \in Seq(Refs)
  <2>1. Lists(sizebases[ty], OfType(ty)) /\ sizebases[ty] \in Seq(Refs)
    BY Zenon, <1>2 DEF ListsTrue, HeapTypes
  <2>2. i \notin OfType(ty)
    BY Zenon DEF OfType
  <2>3. \A j \in inuse : pagerefs'[j] = pagerefs[j]
    BY Zenon, <1>1, <1>2 DEF HeapTypes
  <2>4. pagerefs'[i].blocktype = type
    BY Zenon, <1>1, <1>2, <1>3, <1>4 DEF HeapTypes
  <2>5. CASE ty = type
    <3>1. OfType(ty)' = OfType(ty) \cup {i}
      BY Zenon, <2>3, <2>4, <2>5 DEF OfType
    <3>2. sizebases'[ty] = <<i>> \o sizebases[ty]
      BY Zenon, <1>2, <2>5 DEF HeapTypes
    <3>3. i \in Refs
      OBVIOUS
    <3>4. /\ Lists(<<i>> \o sizebases[ty], OfType(ty) \cup {i})
          /\ <<i>> \o sizebases[ty] \in Seq(Refs)
      BY Zenon, <2>1, <2>2, <3>3, Linked
    <3>5. QED
      BY Zenon, <3>1, <3>2, <3>4
  <2>6. CASE ty # type
    <3>1. OfType(ty)' = OfType(ty)
      BY Zenon, <2>3, <2>4, <2>6 DEF OfType
    <3>2. sizebases'[ty] = sizebases[ty]
      BY Zenon, <1>2, <2>6 DEF HeapTypes
    <3>3. QED
      BY Zenon, <2>1, <3>1, <3>2
  <2>7. QED
    BY Zenon, <2>5, <2>6
<1>13. ListsTrue'
  BY Zenon, <1>11, <1>12 DEF ListsTrue
<1>14. sizebases' \in [Types -> Seq(Refs)]
  <2>1. sizebases' = [ty \in Types |-> sizebases'[ty]]
    BY Zenon, <1>2 DEF HeapTypes
  <2>2. QED
    BY Zenon, <1>12, <2>1
<1>15. HeapTypes'
  BY Zenon, <1>1, <1>2, <1>4, <1>5, <1>11, <1>14 DEF HeapTypes
<1>16. QED
  BY Zenon, <1>10, <1>13, <1>15 DEF HeapInv, MemInv

\* Whole pages (kmalloc, alloc_kpages).
LEMMA WholePages ==
  ASSUME HeapInv, NEW sz \in Nat, sz > 0, alloc_kpages(sz)
  PROVE  HeapInv'
<1> DEFINE n == (sz + PageSize - 1) \div PageSize
<1> PICK b : b = [addr |-> firstpaddr * PageSize, size |-> n * PageSize]
  BY Zenon
<1>1. HeapTypes /\ ListsTrue /\ MemInv /\ firstpaddr \in Nat /\ firstpaddr > 0
  <2>1. HeapTypes /\ ListsTrue /\ MemInv
    BY Zenon DEF HeapInv, MemInv
  <2>2. QED
    BY <2>1 DEF HeapTypes
<1>2. PageSize \in Nat /\ PageSize > 0
  BY HeapAssumption
<1>3. n \in Nat /\ n > 0
  BY <1>2
<1>4. ram_stealmem(n) # 0 => ram_stealmem(n) = firstpaddr
  BY Zenon DEF ram_stealmem
<1>5. /\ firstpaddr' = firstpaddr + n /\ held' = held \cup {b}
      /\ UNCHANGED <<pagerefs, inuse, sizebases, allbase>>
  BY Zenon, <1>4 DEF alloc_kpages
<1>6. /\ firstpaddr * PageSize \in Nat /\ n * PageSize \in Nat /\ n * PageSize > 0
      /\ firstpaddr' * PageSize = firstpaddr * PageSize + n * PageSize
      /\ PageSize <= firstpaddr * PageSize
  <2>1. firstpaddr * PageSize \in Nat /\ n * PageSize \in Nat
    BY Zenon, <1>1, <1>3, Paging
  <2>2. PageSize <= n * PageSize /\ PageSize <= firstpaddr * PageSize
    BY Zenon, <1>1, <1>3, Paging
  <2>3. (firstpaddr + n) * PageSize = firstpaddr * PageSize + n * PageSize
    BY <1>1, <1>2, <1>3
  <2>4. n * PageSize > 0
    BY <1>2, <2>1, <2>2
  <2>5. QED
    BY Zenon, <1>5, <2>1, <2>2, <2>3, <2>4
<1>7. firstpaddr' \in Nat \ {0} /\ firstpaddr < firstpaddr'
  BY <1>1, <1>3, <1>5
<1> HIDE DEF n
<1>8. b.addr = firstpaddr * PageSize /\ b.size = n * PageSize /\ b \in Block
  BY <1>6 DEF Block
<1>9. End(b) = firstpaddr' * PageSize
  BY Zenon, <1>6, <1>8 DEF End
<1>10. ASSUME NEW i \in inuse PROVE Clear(b, pagerefs[i].page)
  <2>1. pagerefs[i].page \in Nat /\ pagerefs[i].page < firstpaddr
    BY Zenon, <1>1 DEF MemInv, PagerefTrue, HeapTypes, Pageref
  <2>2. pagerefs[i].page * PageSize + PageSize <= firstpaddr * PageSize
    BY Zenon, <1>1, <2>1, Paging
  <2>3. QED
    BY Zenon, <1>8, <2>2 DEF Clear
<1>11. HeldTrue(b)'
  <2>1. b.size > 0 /\ PageSize <= b.addr
    BY Zenon, <1>6, <1>8
  <2>2. End(b) <= firstpaddr' * PageSize
    BY <1>6, <1>9
  <2>3. \A i \in inuse' : Clear(b, pagerefs'[i].page)
    BY Zenon, <1>5, <1>10
  <2>4. QED
    BY Zenon, <2>1, <2>2, <2>3 DEF HeldTrue
<1>12. ASSUME NEW c \in held PROVE HeldTrue(c)' /\ Apart(b, c) /\ Apart(c, b)
  <2>1. HeldTrue(c) /\ c.addr \in Nat /\ c.size \in Nat
    BY Zenon, <1>1 DEF MemInv, HeapTypes, Block
  <2>2. End(c) <= b.addr
    BY Zenon, <1>8, <2>1 DEF HeldTrue
  <2>3. End(c) <= firstpaddr' * PageSize
    BY <1>6, <1>8, <2>1, <2>2 DEF End
  <2>4. QED
    BY Zenon, <1>5, <2>1, <2>2, <2>3 DEF HeldTrue, Apart
<1>13. ASSUME NEW i \in inuse PROVE PagerefTrue(i)' /\ Covered(i)'
  <2>1. PagerefTrue(i) /\ Covered(i) /\ pagerefs[i].page \in Nat
    BY Zenon, <1>1 DEF MemInv, HeapTypes, Pageref
  <2>2. pagerefs[i].page < firstpaddr'
    BY <1>1, <1>7, <2>1 DEF PagerefTrue
  <2>3. PagerefTrue(i)'
    BY Zenon, <1>5, <2>1, <2>2 DEF PagerefTrue
  <2>4. Covered(i)'
    BY Zenon, <1>5, <2>1 DEF Covered
  <2>5. QED
    BY Zenon, <2>3, <2>4
<1>14. MemInv'
  <2>1. \A c, d \in held' : c # d => Apart(c, d)
    <3>1. ASSUME NEW c \in held', NEW d \in held', c # d PROVE Apart(c, d)
      <4>1. CASE c \in held /\ d \in held
        BY Zenon, <1>1, <3>1, <4>1 DEF MemInv
      <4>2. CASE c = b /\ d \in held
        BY Zenon, <1>12, <4>2
      <4>3. CASE c \in held /\ d = b
        BY Zenon, <1>12, <4>3
      <4>4. QED
        BY Zenon, <1>5, <3>1, <4>1, <4>2, <4>3
    <3>2. QED
      BY Zenon, <3>1
  <2>2. \A i, j \in inuse' : pagerefs'[i].page = pagerefs'[j].page => i = j
    BY Zenon, <1>1, <1>5 DEF MemInv
  <2>3. QED
    BY Zenon, <1>5, <1>11, <1>12, <1>13, <2>1, <2>2 DEF MemInv
<1>15. ListsTrue'
  BY Zenon, <1>1, <1>5 DEF ListsTrue, OfType
<1>16. HeapTypes'
  BY Zenon, <1>1, <1>5, <1>7, <1>8 DEF HeapTypes
<1>17. QED
  BY Zenon, <1>14, <1>15, <1>16 DEF HeapInv, MemInv

\* The smallest size that fits is one of the sizes (blocktype).
LEMMA Fitting ==
  ASSUME MinFact, NEW sz \in Nat, ~ (sz >= Largest)
  PROVE  blocktype(sz) \in Types
<1> DEFINE S == {i \in Types : sz <= Sizes[i]}
<1>1. Types \subseteq Nat /\ Len(Sizes) \in Types /\ Sizes[Len(Sizes)] \in Nat
  BY HeapAssumption DEF Types
<1>2. Len(Sizes) \in S
  BY <1>1 DEF Largest
<1>3. S \in SUBSET Nat /\ S # {}
  BY Zenon, <1>1, <1>2
<1>4. Min(S) \in S
  BY Zenon, <1>3 DEF MinFact
<1>5. QED
  BY Zenon, <1>4 DEF blocktype

\* kmalloc.
LEMMA Kmalloc ==
  ASSUME MinFact, HeapInv, kmalloc
  PROVE  HeapInv'
<1>1. PICK sz \in HeapRequests : IF sz >= Largest THEN alloc_kpages(sz) ELSE subpage_kmalloc(sz)
  BY Zenon DEF kmalloc
<1>2. sz \in Nat
  BY Zenon, HeapAssumption
<1>3. Largest \in Nat /\ Largest > 0
  BY HeapAssumption DEF Largest
<1>4. HeapTypes /\ ListsTrue
  BY Zenon DEF HeapInv
<1>5. CASE sz >= Largest
  <2>1. sz > 0
    BY <1>2, <1>3, <1>5
  <2>2. QED
    BY Zenon, <1>1, <1>2, <1>5, <2>1, WholePages
<1>6. CASE ~ (sz >= Largest)
  <2> DEFINE type == blocktype(sz)
             fit == {k \in DOMAIN sizebases[type] : pagerefs[sizebases[type][k]].nfree > 0}
  <2>1. type \in Types
    BY Zenon, <1>2, <1>6, Fitting
  <2>2. subpage_kmalloc(sz)
    BY Zenon, <1>1, <1>6
  <2>3. CASE fit # {}
    <3> DEFINE i == sizebases[type][Min(fit)]
    <3>1. DOMAIN sizebases[type] \subseteq Nat
      <4>1. sizebases[type] \in Seq(Refs)
        BY Zenon, <1>4, <2>1 DEF HeapTypes
      <4>2. QED
        BY <4>1
    <3>2. Min(fit) \in fit
      BY Zenon, <2>3, <3>1 DEF MinFact
    <3>3. doalloc(i, pagerefs[i]) /\ UNCHANGED <<firstpaddr, inuse, sizebases, allbase>>
      BY Zenon, <2>2, <2>3 DEF subpage_kmalloc
    <3>4. i \in Range(sizebases[type]) /\ pagerefs[i].nfree > 0
      BY Zenon, <3>2 DEF Range
    <3> HIDE DEF i
    <3>5. i \in inuse
      BY Zenon, <1>4, <2>1, <3>4 DEF ListsTrue, Lists, OfType
    <3>6. QED
      BY Zenon, <3>3, <3>4, <3>5, OldPage
  <2>4. CASE fit = {}
    <3> DEFINE i == allocpageref
    <3>1. /\ Refs \ inuse # {} /\ ram_stealmem(1) # 0
          /\ doalloc(i, NewPage(ram_stealmem(1), type)) /\ inuse' = inuse \cup {i}
          /\ sizebases' = [sizebases EXCEPT ![type] = <<i>> \o @]
          /\ allbase' = <<i>> \o allbase /\ firstpaddr' = firstpaddr + 1
      BY Zenon, <2>2, <2>4 DEF subpage_kmalloc
    <3>2. ram_stealmem(1) = firstpaddr
      BY Zenon, <3>1 DEF ram_stealmem
    <3>3. Refs \subseteq Nat
      BY HeapAssumption DEF Refs
    <3>4. Refs \ inuse \in SUBSET Nat
      BY Zenon, <3>3
    <3>5. i \in Refs \ inuse
      BY Zenon, <3>1, <3>4 DEF MinFact, allocpageref
    <3> HIDE DEF i, type
    <3>6. QED
      BY Zenon, <2>1, <3>1, <3>2, <3>5, FreshPage
  <2>5. QED
    BY Zenon, <2>3, <2>4
<1>7. QED
  BY Zenon, <1>5, <1>6

\* A block back on the free list of its page (subpage_kfree): what else is
\* held of the page is elsewhere on it.
BackOn(i, b, q) ==
  /\ q \in Pageref /\ q.page = pagerefs[i].page /\ FreeTrue(q)
  /\ q.blocktype = pagerefs[i].blocktype
  /\ Range(q.free) = Range(pagerefs[i].free) \cup {OffsetOf(b)}
  /\ \A c \in held \ {b} : BlockOf(c, pagerefs[i]) => BlockOf(c, q)

\* So it is with a block of the page that was held.
LEMMA Freed ==
  ASSUME HeapInv, NEW i \in inuse, NEW b \in held, BlockOf(b, pagerefs[i]), NEW q,
         q = WithBlock(pagerefs[i], b)
  PROVE  BackOn(i, b, q)
<1> DEFINE pr == pagerefs[i]
<1>1. /\ b \in Block /\ pr \in Pageref /\ FreeTrue(pr) /\ held \subseteq Block
  BY Zenon DEF HeapInv, HeapTypes, PagerefTrue
<1>2. /\ q \in Pageref /\ q.page = pr.page /\ q.blocktype = pr.blocktype /\ FreeTrue(q)
      /\ Range(q.free) = Range(pr.free) \cup {OffsetOf(b)}
  BY Zenon, <1>1, Gives
<1>3. ASSUME NEW c \in held \ {b}, BlockOf(c, pr) PROVE BlockOf(c, q)
  <2>1. /\ c.addr \in Nat /\ c.size \in Nat /\ b.addr \in Nat /\ b.size \in Nat
        /\ Apart(b, c)
    BY Zenon, <1>1 DEF Block, HeapInv
  <2>2. b.addr = pr.page * PageSize + OffsetOf(b) /\ b.size > 0
    BY Zenon, <1>1, Within
  <2>3. c.addr = pr.page * PageSize + OffsetOf(c) /\ c.size > 0
    BY Zenon, <1>1, <1>3, Within
  <2>4. b.addr # c.addr
    BY <2>1, <2>2, <2>3 DEF Apart, End
  <2>5. OffsetOf(c) # OffsetOf(b)
    BY Zenon, <2>2, <2>3, <2>4
  <2>6. QED
    BY Zenon, <1>2, <1>3, <2>5 DEF BlockOf
<1>4. QED
  BY Zenon, <1>2, <1>3 DEF BackOn

\* The page keeps other blocks that are held.
LEMMA FreedBlock ==
  ASSUME HeapInv, NEW i \in inuse, NEW b \in held, BlockOf(b, pagerefs[i]), NEW q,
         q = WithBlock(pagerefs[i], b),
         pagerefs' = [pagerefs EXCEPT ![i] = q], held' = held \ {b},
         UNCHANGED <<firstpaddr, inuse, sizebases, allbase>>
  PROVE  HeapInv'
<1>1. HeapTypes /\ ListsTrue /\ MemInv
  BY Zenon DEF HeapInv, MemInv
<1>2. /\ q \in Pageref /\ q.page = pagerefs[i].page /\ FreeTrue(q)
      /\ q.blocktype = pagerefs[i].blocktype
      /\ Range(q.free) = Range(pagerefs[i].free) \cup {OffsetOf(b)}
      /\ \A c \in held \ {b} : BlockOf(c, pagerefs[i]) => BlockOf(c, q)
  <2>1. BackOn(i, b, q)
    BY Zenon, Freed
  <2>2. QED
    BY Zenon, <2>1 DEF BackOn
<1>3. pagerefs'[i] = q /\ \A j \in inuse \ {i} : pagerefs'[j] = pagerefs[j]
  BY Zenon, <1>1 DEF HeapTypes
<1>4. \A j \in inuse : pagerefs'[j].page = pagerefs[j].page
  BY Zenon, <1>2, <1>3
<1>5. PageOf(b) = pagerefs[i].page
  BY Zenon DEF BlockOf
<1>6. ASSUME NEW j \in inuse PROVE PagerefTrue(j)'
  <2>1. PagerefTrue(j) /\ PagerefTrue(i)
    BY Zenon, <1>1 DEF MemInv
  <2>2. CASE j = i
    BY Zenon, <1>2, <1>3, <2>1, <2>2 DEF PagerefTrue
  <2>3. CASE j # i
    <3>1. pagerefs'[j] = pagerefs[j]
      BY Zenon, <1>3, <2>3
    <3>2. QED
      BY Zenon, <2>1, <3>1 DEF PagerefTrue
  <2>4. QED
    BY Zenon, <2>2, <2>3
<1>7. ASSUME NEW j \in inuse PROVE Covered(j)'
  <2>1. Covered(j)
    BY Zenon, <1>1 DEF MemInv
  <2>2. CASE j = i
    <3>1. ASSUME NEW off \in Offsets(q.blocktype)
          PROVE  \/ off \in Range(q.free)
                 \/ \E c \in held \ {b} : PageOf(c) = q.page /\ OffsetOf(c) = off
      BY Zenon, <1>2, <2>1, <2>2 DEF Covered
    <3>2. QED
      BY Zenon, <1>3, <2>2, <3>1 DEF Covered
  <2>3. CASE j # i
    <3>1. PageOf(b) # pagerefs[j].page
      BY Zenon, <1>1, <1>5, <2>3 DEF MemInv
    <3>2. QED
      BY Zenon, <1>3, <2>1, <2>3, <3>1 DEF Covered
  <2>4. QED
    BY Zenon, <2>2, <2>3
<1>8. ASSUME NEW c \in held' PROVE HeldTrue(c)'
  <2>1. HeldTrue(c) /\ c \in held \ {b}
    BY Zenon, <1>1 DEF MemInv
  <2>2. ASSUME NEW j \in inuse, BlockOf(c, pagerefs[j]) PROVE BlockOf(c, pagerefs'[j])
    BY Zenon, <1>2, <1>3, <2>1, <2>2
  <2>3. QED
    BY Zenon, <1>4, <2>1, <2>2 DEF HeldTrue
<1>9. MemInv'
  <2>1. \A c, d \in held' : c # d => Apart(c, d)
    BY Zenon, <1>1 DEF MemInv
  <2>2. ASSUME NEW j \in inuse', NEW k \in inuse', pagerefs'[j].page = pagerefs'[k].page
        PROVE  j = k
    <3>1. /\ j \in inuse /\ k \in inuse
          /\ pagerefs'[j].page = pagerefs[j].page /\ pagerefs'[k].page = pagerefs[k].page
      BY Zenon, <1>4
    <3>2. pagerefs[j].page = pagerefs[k].page
      BY Zenon, <2>2, <3>1
    <3>3. QED
      BY Zenon, <1>1, <3>1, <3>2 DEF MemInv
  <2>3. QED
    BY Zenon, <1>6, <1>7, <1>8, <2>1, <2>2 DEF MemInv
<1>10. ListsTrue'
  BY Zenon, <1>1, <1>2, ListsSame
<1>11. HeapTypes'
  BY Zenon, <1>1, <1>2 DEF HeapTypes
<1>12. QED
  BY Zenon, <1>9, <1>10, <1>11 DEF HeapInv, MemInv

\* The page goes with its last block: nothing else is held of it, since its
\* free list has all its blocks.
LEMMA FreedPage ==
  ASSUME FullFact, HeapInv, NEW i \in inuse, NEW b \in held, BlockOf(b, pagerefs[i]), NEW q,
         q = WithBlock(pagerefs[i], b),
         q.nfree = Blocks(pagerefs[i].blocktype),
         pagerefs' = [pagerefs EXCEPT ![i] = q], held' = held \ {b},
         remove_lists(i, pagerefs[i].blocktype), inuse' = inuse \ {i},
         UNCHANGED firstpaddr
  PROVE  HeapInv'
<1> DEFINE type == pagerefs[i].blocktype
<1>1. HeapTypes /\ ListsTrue /\ MemInv
  BY Zenon DEF HeapInv, MemInv
<1>2. /\ q \in Pageref /\ q.page = pagerefs[i].page /\ FreeTrue(q)
      /\ q.blocktype = pagerefs[i].blocktype
      /\ Range(q.free) = Range(pagerefs[i].free) \cup {OffsetOf(b)}
      /\ \A c \in held \ {b} : BlockOf(c, pagerefs[i]) => BlockOf(c, q)
  <2>1. BackOn(i, b, q)
    BY Zenon, Freed
  <2>2. QED
    BY Zenon, <2>1 DEF BackOn
<1>3. /\ type \in Types /\ \A j \in inuse' : pagerefs'[j] = pagerefs[j]
  BY Zenon, <1>1 DEF HeapTypes, Pageref
<1>4. Range(q.free) = Offsets(type)
  BY Zenon, <1>2, <1>3 DEF FullFact, FreeTrue, Pageref
<1>5. \A c \in held' : ~ BlockOf(c, pagerefs[i])
  BY Zenon, <1>2, <1>4 DEF BlockOf
<1>6. PageOf(b) = pagerefs[i].page
  BY Zenon DEF BlockOf
<1>7. ASSUME NEW j \in inuse' PROVE PagerefTrue(j)' /\ Covered(j)'
  <2>1. /\ PagerefTrue(j) /\ Covered(j) /\ PageOf(b) # pagerefs[j].page
        /\ pagerefs'[j] = pagerefs[j]
    BY Zenon, <1>1, <1>3, <1>6 DEF MemInv
  <2>2. PagerefTrue(j)'
    BY Zenon, <2>1 DEF PagerefTrue
  <2>3. Covered(j)'
    BY Zenon, <2>1 DEF Covered
  <2>4. QED
    BY Zenon, <2>2, <2>3
<1>8. ASSUME NEW c \in held' PROVE HeldTrue(c)'
  <2>1. HeldTrue(c)
    BY Zenon, <1>1 DEF MemInv
  <2>2. QED
    BY Zenon, <1>3, <1>5, <2>1 DEF HeldTrue
<1>9. MemInv'
  <2>1. \A c, d \in held' : c # d => Apart(c, d)
    BY Zenon, <1>1 DEF MemInv
  <2>2. ASSUME NEW j \in inuse', NEW k \in inuse', pagerefs'[j].page = pagerefs'[k].page
        PROVE  j = k
    <3>1. /\ j \in inuse /\ k \in inuse
          /\ pagerefs'[j].page = pagerefs[j].page /\ pagerefs'[k].page = pagerefs[k].page
      BY Zenon, <1>3
    <3>2. pagerefs[j].page = pagerefs[k].page
      BY Zenon, <2>2, <3>1
    <3>3. QED
      BY Zenon, <1>1, <3>1, <3>2 DEF MemInv
  <2>3. QED
    BY Zenon, <1>7, <1>8, <2>1, <2>2 DEF MemInv
<1>10. Lists(allbase', inuse') /\ allbase' \in Seq(Refs)
  BY Zenon, <1>1, Unlinks DEF ListsTrue, HeapTypes, remove_lists
<1>11. ASSUME NEW ty \in Types
       PROVE  Lists(sizebases'[ty], OfType(ty)') /\ sizebases'[ty] \in Seq(Refs)
  <2>1. Lists(sizebases[ty], OfType(ty)) /\ sizebases[ty] \in Seq(Refs)
    BY Zenon, <1>1 DEF ListsTrue, HeapTypes
  <2>2. OfType(ty)' = OfType(ty) \ {i}
    BY Zenon, <1>3 DEF OfType
  <2>3. CASE ty = type
    <3>1. i \in OfType(ty)
      BY Zenon, <2>3 DEF OfType
    <3>2. sizebases'[ty] = Unlinked(sizebases[ty], i)
      BY Zenon, <1>1, <2>3 DEF HeapTypes, remove_lists
    <3>3. /\ Lists(Unlinked(sizebases[ty], i), OfType(ty) \ {i})
          /\ Unlinked(sizebases[ty], i) \in Seq(Refs)
      BY Zenon, <2>1, <3>1, Unlinks
    <3>4. QED
      BY Zenon, <2>2, <3>2, <3>3
  <2>4. CASE ty # type
    <3>1. OfType(ty)' = OfType(ty)
      BY Zenon, <2>2, <2>4 DEF OfType
    <3>2. sizebases'[ty] = sizebases[ty]
      BY Zenon, <1>1, <2>4 DEF HeapTypes, remove_lists
    <3>3. QED
      BY Zenon, <2>1, <3>1, <3>2
  <2>5. QED
    BY Zenon, <2>3, <2>4
<1>12. ListsTrue'
  BY Zenon, <1>10, <1>11 DEF ListsTrue
<1>13. sizebases' \in [Types -> Seq(Refs)]
  <2>1. sizebases' = [ty \in Types |-> sizebases'[ty]]
    BY Zenon, <1>1 DEF HeapTypes, remove_lists
  <2>2. QED
    BY Zenon, <1>11, <2>1
<1>14. HeapTypes'
  BY Zenon, <1>1, <1>2, <1>10, <1>13 DEF HeapTypes
<1>15. QED
  BY Zenon, <1>9, <1>12, <1>14 DEF HeapInv, MemInv

\* Whole pages are given up, and stay as they are (kfree, free_kpages).
LEMMA FreedPages ==
  ASSUME HeapInv, NEW b \in held, \A i \in inuse : pagerefs[i].page # PageOf(b),
         held' = held \ {b}, UNCHANGED <<firstpaddr, pagerefs, inuse, sizebases, allbase>>
  PROVE  HeapInv'
<1>1. HeapTypes /\ ListsTrue /\ MemInv
  BY Zenon DEF HeapInv, MemInv
<1>2. ASSUME NEW j \in inuse PROVE PagerefTrue(j)' /\ Covered(j)'
  <2>1. PagerefTrue(j) /\ Covered(j)
    BY Zenon, <1>1 DEF MemInv
  <2>2. PagerefTrue(j)'
    BY Zenon, <2>1 DEF PagerefTrue
  <2>3. Covered(j)'
    BY Zenon, <2>1 DEF Covered
  <2>4. QED
    BY Zenon, <2>2, <2>3
<1>3. ASSUME NEW c \in held' PROVE HeldTrue(c)'
  BY Zenon, <1>1 DEF MemInv, HeldTrue
<1>4. MemInv'
  BY Zenon, <1>1, <1>2, <1>3 DEF MemInv
<1>5. HeapTypes' /\ ListsTrue'
  BY Zenon, <1>1 DEF HeapTypes, ListsTrue, OfType
<1>6. QED
  BY Zenon, <1>4, <1>5 DEF HeapInv, MemInv

\* kfree.
LEMMA Kfree ==
  ASSUME MinFact, FullFact, HeapInv, kfree
  PROVE  HeapInv'
<1>1. HeapTypes /\ ListsTrue /\ MemInv
  BY Zenon DEF HeapInv, MemInv
<1>2. PICK b \in held :
        LET on == {k \in DOMAIN allbase : pagerefs[allbase[k]].page = b.addr \div PageSize}
        IN /\ held' = held \ {b}
           /\ IF on # {} THEN subpage_kfree(b, allbase[Min(on)])
              ELSE UNCHANGED <<pagerefs, inuse, sizebases, allbase>>
  BY Zenon DEF kfree
<1>3. UNCHANGED firstpaddr
  BY Zenon DEF kfree
<1> DEFINE on == {k \in DOMAIN allbase : pagerefs[allbase[k]].page = b.addr \div PageSize}
<1>4. HeldTrue(b) /\ b \in Block
  BY Zenon, <1>1 DEF MemInv, HeapTypes
<1>5. CASE on = {}
  <2>1. \A i \in inuse : pagerefs[i].page # PageOf(b)
    BY Zenon, <1>1, <1>5 DEF ListsTrue, Lists, Range, PageOf
  <2>2. QED
    BY Zenon, <1>2, <1>3, <1>5, <2>1, FreedPages
<1>6. CASE on # {}
  <2> DEFINE i == allbase[Min(on)]
  <2>1. DOMAIN allbase \subseteq Nat
    <3>1. allbase \in Seq(Refs)
      BY Zenon, <1>1 DEF HeapTypes
    <3>2. QED
      BY <3>1
  <2>2. Min(on) \in on
    BY Zenon, <1>6, <2>1 DEF MinFact
  <2>3. i \in inuse /\ pagerefs[i].page = PageOf(b)
    BY Zenon, <1>1, <2>2 DEF ListsTrue, Lists, Range, PageOf
  <2>4. subpage_kfree(b, i) /\ held' = held \ {b}
    BY Zenon, <1>2, <1>6
  <2> HIDE DEF i, on
  <2>5. ~ Clear(b, pagerefs[i].page)
    BY Zenon, <1>4, <2>3, NotClear DEF HeldTrue
  <2>6. PICK j \in inuse : BlockOf(b, pagerefs[j])
    BY Zenon, <1>4, <2>3, <2>5 DEF HeldTrue
  <2>7. BlockOf(b, pagerefs[i])
    <3>1. pagerefs[j].page = pagerefs[i].page
      BY Zenon, <2>3, <2>6 DEF BlockOf
    <3>2. QED
      BY Zenon, <1>1, <2>3, <2>6, <3>1 DEF MemInv
  <2> DEFINE q == WithBlock(pagerefs[i], b)
  <2>8. /\ pagerefs' = [pagerefs EXCEPT ![i] = q]
        /\ IF q.nfree = Blocks(pagerefs[i].blocktype)
           THEN remove_lists(i, pagerefs[i].blocktype) /\ inuse' = inuse \ {i}
           ELSE UNCHANGED <<sizebases, allbase, inuse>>
    BY Zenon, <2>4 DEF subpage_kfree, WithBlock
  <2> HIDE DEF q
  <2>9. q = WithBlock(pagerefs[i], b)
    BY Zenon DEF q
  <2>10. CASE q.nfree = Blocks(pagerefs[i].blocktype)
    BY Zenon, <1>3, <2>3, <2>4, <2>7, <2>8, <2>9, <2>10, FreedPage
  <2>11. CASE q.nfree # Blocks(pagerefs[i].blocktype)
    BY Zenon, <1>3, <2>3, <2>4, <2>7, <2>8, <2>9, <2>11, FreedBlock
  <2>12. QED
    BY Zenon, <2>10, <2>11
<1>7. QED
  BY Zenon, <1>5, <1>6

\* The heap starts empty.
LEMMA InitHeapInv == HeapInit => HeapInv
<1> SUFFICES ASSUME HeapInit PROVE HeapInv
  OBVIOUS
<1>1. HeapTypes
  <2>1. 1 \in Types
    BY HeapAssumption DEF Types
  <2>2. [page |-> 0, blocktype |-> 1, free |-> <<>>, nfree |-> 0] \in Pageref
    BY <2>1 DEF Pageref
  <2>3. <<>> \in Seq(Refs) /\ 1 \in Nat \ {0}
    OBVIOUS
  <2>4. QED
    BY Zenon, <2>2, <2>3 DEF HeapInit, HeapTypes
<1>2. Lists(<<>>, {})
  BY DEF Lists, Distinct, Range
<1>3. ListsTrue
  <2>1. \A type \in Types : OfType(type) = {}
    BY Zenon DEF HeapInit, OfType
  <2>2. QED
    BY Zenon, <1>2, <2>1 DEF HeapInit, ListsTrue
<1>4. QED
  BY Zenon, <1>1, <1>3 DEF HeapInit, HeapInv

\* Steps keep the invariant.
LEMMA NextHeapInv ==
  ASSUME MinFact, FullFact, HeapInv, [HeapNext]_heap_vars
  PROVE  HeapInv'
<1>1. CASE HeapNext
  BY Zenon, <1>1, Kmalloc, Kfree DEF HeapNext
<1>2. CASE UNCHANGED heap_vars
  <2>1. UNCHANGED <<firstpaddr, pagerefs, inuse, sizebases, allbase, held>>
    BY Zenon, <1>2 DEF heap_vars
  <2>2. HeapTypes' /\ ListsTrue'
    BY Zenon, <2>1 DEF HeapInv, HeapTypes, ListsTrue, OfType
  <2>3. MemInv'
    <3>1. MemInv
      BY Zenon DEF HeapInv, MemInv
    <3>2. \A i \in inuse : PagerefTrue(i)' /\ Covered(i)'
      BY Zenon, <2>1, <3>1 DEF MemInv, PagerefTrue, Covered
    <3>3. \A b \in held : HeldTrue(b)'
      BY Zenon, <2>1, <3>1 DEF MemInv, HeldTrue
    <3>4. QED
      BY Zenon, <2>1, <3>1, <3>2, <3>3 DEF MemInv
  <2>4. QED
    BY Zenon, <2>2, <2>3 DEF HeapInv, MemInv
<1>3. QED
  BY Zenon, <1>1, <1>2

-----------------------------------------------------------------------------
F == INSTANCE FiniteSetTheorems

\* The library's finite sets are those of the model.
LEMMA SameSets ==
  \A S : F!Cardinality(S) = Cardinality(S) /\ (F!IsFiniteSet(S) <=> IsFiniteSet(S))
BY Zenon DEF F!Cardinality, Cardinality, F!IsFiniteSet, IsFiniteSet

\* The naturals are well ordered.
LEMMA MinFactHolds == MinFact
<1>1. SUFFICES ASSUME NEW S \in SUBSET Nat, S # {} PROVE Min(S) \in S
  BY Zenon DEF MinFact
<1>2. PICK x \in S : \A y \in S : ~ (<<y, x>> \in F!OpToRel(<, Nat))
  BY Zenon, <1>1, F!NatLessThanWellFounded, F!WFMin
<1>3. \A y \in S : ~ (y < x)
  BY Zenon, <1>2 DEF F!OpToRel
<1>4. \A y \in S : x <= y
  BY <1>3
<1>5. QED
  BY Zenon, <1>1, <1>4 DEF Min

\* A list without repetitions has as many members as elements.
LEMMA Counted ==
  ASSUME NEW T, NEW s \in Seq(T), Distinct(s)
  PROVE  IsFiniteSet(Range(s)) /\ Cardinality(Range(s)) = Len(s)
<1> DEFINE n == Len(s)
<1>1. n \in Nat /\ DOMAIN s = 1 .. n
  OBVIOUS
<1>2. s \in [1 .. n -> Range(s)]
  BY <1>1 DEF Range
<1>3. s \in F!Bijection(1 .. n, Range(s))
  BY Zenon, <1>1, <1>2 DEF F!Bijection, F!Injection, F!Surjection, F!IsInjective, Distinct, Range
<1>4. F!ExistsBijection(1 .. n, Range(s))
  BY Zenon, <1>3 DEF F!ExistsBijection
<1>5. F!IsFiniteSet(1 .. n) /\ F!Cardinality(1 .. n) = n
  BY <1>1, F!FS_Interval
<1>6. QED
  BY Zenon, <1>4, <1>5, SameSets, F!FS_Bijection

\* As many different offsets as a page has are all of them.
LEMMA FullFactHolds == FullFact
<1>1. SUFFICES ASSUME NEW type \in Types, NEW s \in Seq(Nat), Distinct(s),
                      Range(s) \subseteq Offsets(type), Len(s) = Blocks(type)
               PROVE  Range(s) = Offsets(type)
  BY Zenon DEF FullFact
<1> DEFINE free == NewPage(0, type).free
<1>2. /\ free \in Seq(Nat) /\ Distinct(free) /\ Len(free) = Blocks(type)
      /\ Range(free) = Offsets(type)
  <2>1. /\ NewPage(0, type) \in Pageref /\ FreeTrue(NewPage(0, type))
        /\ Range(free) = Offsets(type)
    BY Fresh
  <2>2. NewPage(0, type).nfree = Blocks(type)
    BY Zenon DEF NewPage
  <2>3. QED
    BY Zenon, <2>1, <2>2 DEF Pageref, FreeTrue
<1> HIDE DEF free
<1>3. IsFiniteSet(Offsets(type)) /\ Cardinality(Offsets(type)) = Blocks(type)
  BY Zenon, <1>2, Counted
<1>4. Cardinality(Range(s)) = Blocks(type)
  BY Zenon, <1>1, Counted
<1>5. Range(s) \in SUBSET Offsets(type)
  BY Zenon, <1>1
<1>6. QED
  BY Zenon, <1>3, <1>4, <1>5, SameSets, F!FS_Subset

\* Both kinds of lists have as many pagerefs as are in use (checksubpages).
LEMMA ListsCounted ==
  ASSUME HeapInv
  PROVE  /\ Cardinality(inuse) = Len(allbase) /\ Len(allbase) <= NPageRefs
         /\ Cardinality(UNION {{type} \X DOMAIN sizebases[type] : type \in Types})
              = Len(allbase)
<1>1. HeapTypes /\ ListsTrue
  BY Zenon DEF HeapInv
<1>2. IsFiniteSet(inuse) /\ Cardinality(inuse) = Len(allbase)
  BY Zenon, <1>1, Counted DEF ListsTrue, Lists, HeapTypes
<1>3. Len(allbase) <= NPageRefs
  <2>1. NPageRefs \in Nat
    BY HeapAssumption
  <2>2. F!IsFiniteSet(Refs) /\ F!Cardinality(Refs) = NPageRefs
    BY <2>1, F!FS_Interval DEF Refs
  <2>3. inuse \in SUBSET Refs
    BY Zenon, <1>1 DEF HeapTypes
  <2>4. F!Cardinality(inuse) <= F!Cardinality(Refs)
    BY Zenon, <2>2, <2>3, F!FS_Subset
  <2>5. QED
    BY Zenon, <1>2, <2>2, <2>4, SameSets
<1> DEFINE P == UNION {{type} \X DOMAIN sizebases[type] : type \in Types}
           f == [x \in P |-> sizebases[x[1]][x[2]]]
<1>4. ASSUME NEW x \in P
      PROVE  x[1] \in Types /\ x[2] \in DOMAIN sizebases[x[1]] /\ x = <<x[1], x[2]>>
  OBVIOUS
<1>5. \A type \in Types : \A k \in DOMAIN sizebases[type] : <<type, k>> \in P
  OBVIOUS
<1> HIDE DEF P
<1>6. \A type \in Types : Lists(sizebases[type], OfType(type))
  BY Zenon, <1>1 DEF ListsTrue
<1>7. ASSUME NEW x \in P PROVE f[x] \in inuse /\ pagerefs[f[x]].blocktype = x[1]
  <2>1. f[x] = sizebases[x[1]][x[2]]
    BY Zenon
  <2>2. f[x] \in OfType(x[1])
    BY Zenon, <1>4, <1>6, <2>1 DEF Lists, Range
  <2>3. QED
    BY Zenon, <2>2 DEF OfType
<1>8. ASSUME NEW x \in P, NEW y \in P, f[x] = f[y] PROVE x = y
  <2>1. x[1] = y[1]
    <3>1. pagerefs[f[x]].blocktype = x[1] /\ pagerefs[f[y]].blocktype = y[1]
      BY <1>7
    <3>2. QED
      BY <1>8, <3>1
  <2>2. sizebases[x[1]][x[2]] = sizebases[x[1]][y[2]]
    BY Zenon, <1>8, <2>1
  <2>3. x[2] = y[2]
    BY Zenon, <1>4, <1>6, <2>1, <2>2 DEF Lists, Distinct
  <2>4. QED
    BY ZenonT(30), <1>4, <2>1, <2>3
<1>9. ASSUME NEW i \in inuse PROVE \E x \in P : f[x] = i
  <2>1. pagerefs[i].blocktype \in Types
    BY Zenon, <1>1 DEF HeapTypes, Pageref
  <2>2. i \in OfType(pagerefs[i].blocktype)
    BY Zenon DEF OfType
  <2>3. PICK k \in DOMAIN sizebases[pagerefs[i].blocktype] :
               sizebases[pagerefs[i].blocktype][k] = i
    BY Zenon, <1>6, <2>1, <2>2 DEF Lists, Range
  <2>4. <<pagerefs[i].blocktype, k>> \in P
    BY Zenon, <1>5, <2>1, <2>3
  <2>5. f[<<pagerefs[i].blocktype, k>>] = i
    BY <2>3, <2>4
  <2>6. QED
    BY Zenon, <2>4, <2>5
<1>10. f \in [P -> inuse]
  BY Zenon, <1>7
<1> HIDE DEF f
<1>11. f \in F!Injection(P, inuse) /\ f \in F!Surjection(P, inuse)
  BY Zenon, <1>8, <1>9, <1>10 DEF F!Injection, F!Surjection, F!IsInjective
<1>12. Cardinality(P) = Cardinality(inuse)
  BY ZenonT(30), <1>2, <1>11, SameSets, F!FS_Injection
<1>13. QED
  BY Zenon, <1>2, <1>3, <1>12 DEF P

\* The invariant says that the heap is sound.
LEMMA HeapInvSound ==
  ASSUME HeapInv
  PROVE  HeapSound
<1>1. HeapTypes /\ ListsTrue /\ MemInv
  BY Zenon DEF HeapInv, MemInv
<1>2. ASSUME NEW b \in held, NEW c \in held, b # c
      PROVE  Extent(b) \cap Extent(c) = {}
  <2>1. Apart(b, c) /\ b \in Block /\ c \in Block
    BY Zenon, <1>1, <1>2 DEF MemInv, HeapTypes
  <2>2. b.addr \in Nat /\ b.size \in Nat /\ c.addr \in Nat /\ c.size \in Nat
    BY Zenon, <2>1 DEF Block
  <2>3. QED
    BY <2>1, <2>2 DEF Apart, End, Extent
<1>3. ASSUME NEW b \in held PROVE Extent(b) \subseteq PageSize .. firstpaddr * PageSize - 1
  <2>1. /\ PageSize <= b.addr /\ End(b) <= firstpaddr * PageSize
        /\ b.addr \in Nat /\ b.size \in Nat /\ firstpaddr \in Nat
    BY Zenon, <1>1 DEF MemInv, HeldTrue, HeapTypes, Block
  <2>2. firstpaddr * PageSize \in Nat /\ PageSize \in Nat
    BY Zenon, <2>1, Paging, HeapAssumption
  <2>3. QED
    BY <2>1, <2>2 DEF End, Extent
<1>4. ASSUME NEW i \in inuse
      PROVE  LET pr == pagerefs[i]
                 taken == {b.addr % PageSize : b \in {c \in held : c.addr \div PageSize = pr.page}}
             IN /\ Cardinality(Range(pr.free)) = Len(pr.free)
                /\ Range(pr.free) \cap taken = {}
                /\ Range(pr.free) \cup taken =
                     {k * Sizes[pr.blocktype] : k \in 0 .. Blocks(pr.blocktype) - 1}
                /\ i \in Range(sizebases[pr.blocktype]) /\ i \in Range(allbase)
  <2> DEFINE pr == pagerefs[i]
             taken == {b.addr % PageSize : b \in {c \in held : c.addr \div PageSize = pr.page}}
  <2>1. /\ pr \in Pageref /\ FreeTrue(pr) /\ Covered(i) /\ pr.free \in Seq(Nat)
        /\ pr.blocktype \in Types
    BY Zenon, <1>1 DEF HeapTypes, MemInv, PagerefTrue, Pageref
  <2>2. Cardinality(Range(pr.free)) = Len(pr.free)
    BY Zenon, <2>1, Counted DEF FreeTrue
  <2>3. ASSUME NEW b \in held, PageOf(b) = pr.page PROVE BlockOf(b, pr)
    <3>1. HeldTrue(b) /\ b \in Block
      BY Zenon, <1>1 DEF MemInv, HeapTypes
    <3>2. ~ Clear(b, pr.page)
      BY Zenon, <2>3, <3>1, NotClear DEF HeldTrue
    <3>3. PICK j \in inuse : BlockOf(b, pagerefs[j])
      BY Zenon, <3>1, <3>2 DEF HeldTrue
    <3>4. i = j
      BY Zenon, <1>1, <2>3, <3>3 DEF MemInv, BlockOf
    <3>5. QED
      BY Zenon, <3>3, <3>4
  <2>4. \A o \in taken : o \in Offsets(pr.blocktype) /\ o \notin Range(pr.free)
    BY Zenon, <2>3 DEF BlockOf, PageOf, OffsetOf
  <2>5. \A o \in Offsets(pr.blocktype) : o \in Range(pr.free) \/ o \in taken
    BY Zenon, <2>1 DEF Covered, PageOf, OffsetOf
  <2>6. Range(pr.free) \subseteq Offsets(pr.blocktype)
    BY Zenon, <2>1 DEF FreeTrue
  <2> HIDE DEF taken
  <2>7. Range(pr.free) \cap taken = {} /\ Range(pr.free) \cup taken = Offsets(pr.blocktype)
    BY Zenon, <2>4, <2>5, <2>6
  <2>8. i \in Range(sizebases[pr.blocktype]) /\ i \in Range(allbase)
    BY Zenon, <1>1, <2>1 DEF ListsTrue, Lists, OfType
  <2>9. QED
    BY Zenon, <2>2, <2>7, <2>8 DEF taken, Offsets
<1>5. ASSUME NEW i \in inuse PROVE checksubpage(i)
  <2>1. FreeTrue(pagerefs[i]) /\ pagerefs[i].blocktype \in Types
    BY Zenon, <1>1 DEF MemInv, PagerefTrue, HeapTypes, Pageref
  <2>2. QED
    BY Zenon, <2>1, OffsetFacts DEF FreeTrue, checksubpage
<1>6. checksubpages
  <2>1. \A type \in Types : \A i \in Range(sizebases[type]) : i \in inuse
    BY Zenon, <1>1 DEF ListsTrue, Lists, OfType
  <2>2. \A i \in Range(allbase) : i \in inuse
    BY Zenon, <1>1 DEF ListsTrue, Lists
  <2>3. QED
    BY Zenon, <1>5, <2>1, <2>2, ListsCounted DEF checksubpages
<1>7. QED
  BY ZenonT(30), <1>2, <1>3, <1>4, <1>6, ListsCounted DEF HeapSound

\* HeapInv holds in every state of every behaviour (kmalloc and kfree).
THEOREM HeapInductive == HeapSpec => []HeapInv
<1>1. HeapInit => HeapInv
  BY Zenon, InitHeapInv
<1>2. HeapInv /\ [HeapNext]_heap_vars => HeapInv'
  BY Zenon, NextHeapInv, MinFactHolds, FullFactHolds
<1>3. QED
  BY <1>1, <1>2, PTL DEF HeapSpec

\* No two callers of kmalloc hold the same word, every block of a page is held
\* or free, once, and the checks of checksubpages would pass, in every state of
\* every behaviour.
THEOREM HeapStaysSound == HeapSpec => []HeapSound
<1>1. HeapInv => HeapSound
  BY Zenon, HeapInvSound
<1>2. QED
  BY <1>1, HeapInductive, PTL

\* The interrupt level is what the code believes it to be, and handlers are
\* called for lines that are asserted, in every state of every behaviour
\* (splx, mips_trap, mips_interrupt, lamebus_interrupt and md_switch).
THEOREM AlwaysInterruptsSound == Spec => []InterruptsSound
<1>1. Init => IInv
  BY Zenon, InitIInv
<1>2. IInv /\ [Next]_vars => IInv'
  BY NextIInv, MinFactHolds
<1>3. IInv => InterruptsSound
  BY IInvSound
<1>4. QED
  BY <1>1, <1>2, <1>3, PTL DEF Spec
=============================================================================
