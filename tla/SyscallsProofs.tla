--------------------------- MODULE SyscallsProofs ---------------------------
(***************************************************************************)
(* Proofs about Syscalls, for any programs, addresses and lengths.         *)
(***************************************************************************)
EXTENDS Syscalls, TLAPS

Where == {"none", "new", "user", "getch", "copy", "copied", "dead"}
Words == {"text", Nul, "key", "secs", "nsecs", NULL}

SysType ==
  /\ s_pc \in [Programs -> Where]
  /\ tf \in [Programs -> Frames]
  /\ call \in [Programs -> Calls \cup {NoCall}]
  /\ copy \in [Programs -> [addr : Nat, done : Nat, kbuf : Seq(Words)]]
  /\ badfault \in [Programs -> BOOLEAN]
  /\ childtf \in [Programs -> Frames \cup {NULL}]
  /\ s_mem \in [Programs -> [Mapped -> Words]]
  /\ shown = [t \in Programs |-> shown[t]]
  /\ made \in [Programs -> Nat]

\* A thread that waits for a key is in a read of one character.
Getting(t) ==
  call[t] \in Calls /\ call[t].no = "read" /\ call[t].ptr # 0 /\ call[t].len = 1

\* What a copy has done so far: the words of a write have been fetched, the
\* word of a read or of __time has been stored, and of the two words of __time
\* the seconds went first.
WriteTrue(t) ==
  /\ copy[t].addr = call[t].ptr /\ Len(copy[t].kbuf) = call[t].len
  /\ \A i \in 1 .. copy[t].done :
       copy[t].addr + i - 1 \in Mapped /\ copy[t].kbuf[i] = s_mem[t][copy[t].addr + i - 1]
Stored(t, word) ==
  /\ copy[t].kbuf = <<word>>
  /\ copy[t].done = 1 => copy[t].addr \in Mapped /\ s_mem[t][copy[t].addr] = word
ReadTrue(t) == copy[t].addr = call[t].ptr /\ Stored(t, "key")
TimeTrue(t) ==
  \/ copy[t].addr = call[t].ptr /\ call[t].ptr # 0 /\ Stored(t, "secs")
  \/ /\ copy[t].addr = call[t].ptr2 /\ call[t].ptr2 # 0 /\ Stored(t, "nsecs")
     /\ call[t].ptr # 0 /\ call[t].ptr # call[t].ptr2
          => call[t].ptr \in Mapped /\ s_mem[t][call[t].ptr] = "secs"

CopyTrue(t) ==
  /\ call[t] \in Calls
  /\ copy[t].done <= Len(copy[t].kbuf)
  /\ s_pc[t] = "copied" => copy[t].done = Len(copy[t].kbuf)
  /\ Region(copy[t].addr, Len(copy[t].kbuf)) \subseteq 0 .. (UserTop - 1)
  /\ \/ call[t].no = "write" /\ WriteTrue(t)
     \/ call[t].no = "read" /\ ReadTrue(t)
     \/ call[t].no = "__time" /\ TimeTrue(t)

\* The state of one thread, by its place.
Sound(t) ==
  /\ badfault[t] <=> s_pc[t] = "copy"
  /\ childtf[t] # NULL <=> s_pc[t] = "new"
  /\ s_pc[t] \in {"none", "new"} => call[t] = NoCall
  /\ s_pc[t] = "new" => childtf[t].epc + 1 = made[t]
  /\ s_pc[t] \in {"getch", "copy", "copied"} => tf[t].epc + 1 = made[t]
  /\ s_pc[t] = "user" =>
       /\ tf[t].epc = made[t]
       /\ call[t] = NoCall => tf[t].v0 = 0 /\ tf[t].a3 = 0
       /\ Honest(t)
  /\ s_pc[t] = "getch" => Getting(t)
  /\ s_pc[t] \in {"copy", "copied"} => CopyTrue(t)

\* The inductive invariant.
SysInv == SysType /\ \A t \in Programs : Sound(t)

Same(u) ==
  /\ s_pc'[u] = s_pc[u] /\ tf'[u] = tf[u] /\ call'[u] = call[u] /\ copy'[u] = copy[u]
  /\ badfault'[u] = badfault[u] /\ childtf'[u] = childtf[u] /\ s_mem'[u] = s_mem[u]
  /\ shown'[u] = shown[u] /\ made'[u] = made[u]
-----------------------------------------------------------------------------
\* A thread whose state does not change stays sound.
LEMMA SameSound == ASSUME NEW u, Sound(u), Same(u) PROVE Sound(u)'
<1>1. Honest(u) <=> Honest(u)'
  BY DEF Same, Honest
<1>2. Getting(u) <=> Getting(u)'
  BY DEF Same, Getting
<1>3. CopyTrue(u) <=> CopyTrue(u)'
  BY DEF Same, CopyTrue, WriteTrue, ReadTrue, TimeTrue, Stored
<1>4. QED
  BY <1>1, <1>2, <1>3 DEF Same, Sound

\* So that a step of one thread is sound when it leaves that thread sound.
LEMMA OneThread ==
  ASSUME SysInv, NEW t \in Programs, \A u \in Programs \ {t} : Same(u), SysType', Sound(t)'
  PROVE  SysInv'
  BY SameSound DEF SysInv

\* Calls have the arguments of their kind.
LEMMA Arguments ==
  ASSUME NEW c \in Calls
  PROVE  /\ c # NoCall
         /\ c.no \in {"write", "read"} => c.ptr \in Ptrs /\ c.len \in Sizes
         /\ c.no = "__time" => c.ptr \in Ptrs /\ c.ptr2 \in Ptrs
<1>1. c.no # NULL
  BY SysAssumption DEF Calls
<1>2. QED
  BY <1>1 DEF Calls, NoCall

\* copycheck admits what is all below UserTop, and refuses nothing that is all
\* mapped but for a length of 0.
LEMMA Checks ==
  ASSUME NEW ptr \in Ptrs \ {0}, NEW len \in 0 .. (AddrSize - 1)
  PROVE  /\ copycheck(ptr, len) = len =>
              len # 0 /\ Region(ptr, len) \subseteq 0 .. (UserTop - 1)
         /\ copycheck(ptr, len) # len => len = 0 \/ ~(Region(ptr, len) \subseteq Mapped)
<1> DEFINE n == ptr + len - 1
           top == n % AddrSize
<1>1. /\ ptr \in 1 .. (AddrSize - 1) /\ len \in 0 .. (AddrSize - 1)
      /\ AddrSize \in Nat /\ UserTop \in 1 .. AddrSize
  BY SysAssumption
<1>2. n \in 0 .. (AddrSize - 1) => top = n
  BY <1>1
<1>3. n \in AddrSize .. (AddrSize + AddrSize - 1) => top = n - AddrSize
  BY <1>1
<1>4. n \in 0 .. (AddrSize + AddrSize - 1) /\ n = ptr + len - 1
  BY <1>1
<1> HIDE DEF n, top
<1>5. copycheck(ptr, len) = IF top < ptr \/ ptr >= UserTop THEN NULL
                            ELSE IF top >= UserTop THEN UserTop - ptr ELSE len
  BY DEF copycheck, n, top
<1>6. CASE top < ptr \/ ptr >= UserTop
  <2>1. copycheck(ptr, len) # len
    BY <1>1, <1>5, <1>6, SysAssumption
  <2>2. len # 0 => n >= UserTop /\ n \in Region(ptr, len)
    BY <1>1, <1>2, <1>3, <1>4, <1>6 DEF Region
  <2>3. QED
    BY <1>1, <1>4, <2>1, <2>2, SysAssumption
<1>7. CASE ~(top < ptr \/ ptr >= UserTop)
  <2>1. top = n /\ len # 0
    BY <1>1, <1>2, <1>3, <1>4, <1>7
  <2>2. CASE n >= UserTop
    <3>1. copycheck(ptr, len) # len
      BY <1>1, <1>4, <1>5, <1>7, <2>1, <2>2
    <3>2. n \in Region(ptr, len)
      BY <1>1, <1>4, <2>1 DEF Region
    <3>3. QED
      BY <1>1, <1>4, <2>2, <3>1, <3>2, SysAssumption
  <2>3. CASE n < UserTop
    <3>1. copycheck(ptr, len) = len
      BY <1>1, <1>4, <1>5, <1>7, <2>1, <2>3
    <3>2. QED
      BY <1>1, <1>4, <2>1, <2>3, <3>1 DEF Region
  <2>4. QED
    BY <1>1, <1>4, <2>2, <2>3
<1>8. QED
  BY <1>6, <1>7
-----------------------------------------------------------------------------
\* What a step that changes one thread's place, or one thread's frame, does.
LEMMA Places ==
  ASSUME SysType, NEW t \in Programs, NEW where \in Where, Goes(t, where)
  PROVE  /\ s_pc' \in [Programs -> Where] /\ s_pc'[t] = where
         /\ \A u \in Programs \ {t} : s_pc'[u] = s_pc[u]
  BY DEF SysType, Goes

LEMMA Registered ==
  ASSUME SysType, NEW t \in Programs, NEW err \in Errors \cup {"OK"}, NEW retval \in Values,
         Registers(t, err, retval)
  PROVE  /\ tf' \in [Programs -> Frames] /\ tf'[t].epc = tf[t].epc + 1
         /\ err = "OK" => tf'[t].v0 = retval /\ tf'[t].a3 = 0
         /\ err # "OK" => tf'[t].v0 = err /\ tf'[t].a3 = 1
         /\ \A u \in Programs \ {t} : tf'[u] = tf[u]
<1> DEFINE f == [v0 |-> IF err = "OK" THEN retval ELSE err,
                 a3 |-> IF err = "OK" THEN 0 ELSE 1, epc |-> tf[t].epc + 1]
<1>1. tf' = [tf EXCEPT ![t] = f] /\ tf \in [Programs -> Frames]
  BY DEF Registers, SysType
<1>2. tf[t].epc + 1 \in Nat
  BY <1>1 DEF Frames
<1>3. f \in Frames
  BY <1>2 DEF Frames, Values
<1>4. tf'[t] = f /\ tf' \in [Programs -> Frames] /\ \A u \in Programs \ {t} : tf'[u] = tf[u]
  BY <1>1, <1>3
<1>5. QED
  BY <1>4

\* A call that has answered is sound when its answer is honest.
LEMMA Answered ==
  ASSUME NEW t \in Programs, s_pc'[t] = "user", tf'[t].epc = made'[t],
         call'[t] # NoCall, badfault'[t] = FALSE, childtf'[t] = NULL, Honest(t)'
  PROVE  Sound(t)'
  BY DEF Sound

\* So it is after an error that is not EFAULT, and for the calls that do not
\* touch memory.
LEMMA OtherHonest ==
  ASSUME NEW t \in Programs,
         \/ tf'[t].a3 = 1 /\ tf'[t].v0 # "EFAULT"
         \/ call'[t].no \notin {"write", "read", "__time"}
  PROVE  Honest(t)'
  BY DEF Honest

\* The start of a copy changes four variables, for its thread only, and ends in
\* one of two ways.
Elsewhere(t) ==
  /\ s_pc' \in [Programs -> Where] /\ tf' \in [Programs -> Frames]
  /\ copy' \in [Programs -> [addr : Nat, done : Nat, kbuf : Seq(Words)]]
  /\ badfault' \in [Programs -> BOOLEAN]
  /\ \A u \in Programs \ {t} : /\ s_pc'[u] = s_pc[u] /\ tf'[u] = tf[u]
                               /\ copy'[u] = copy[u] /\ badfault'[u] = badfault[u]
Refused(t, ptr, len) ==
  /\ s_pc'[t] = "user" /\ badfault'[t] = badfault[t]
  /\ tf'[t].epc = tf[t].epc + 1 /\ tf'[t].v0 = "EFAULT" /\ tf'[t].a3 = 1
  /\ len = 0 \/ ~(Region(ptr, len) \subseteq Mapped)
Begun(t, ptr, kbuf) ==
  /\ s_pc'[t] = "copy" /\ badfault'[t] = TRUE /\ tf'[t] = tf[t]
  /\ copy'[t] = [addr |-> ptr, done |-> 0, kbuf |-> kbuf]
  /\ Len(kbuf) # 0 /\ Region(ptr, Len(kbuf)) \subseteq 0 .. (UserTop - 1)

\* A copy begins, in the program's half, or the call fails and the region is
\* not all mapped.
LEMMA Started ==
  ASSUME SysType, NEW t \in Programs, NEW ptr \in Ptrs \ {0}, NEW kbuf \in Seq(Words),
         Len(kbuf) \in 0 .. (AddrSize - 1), StartCopy(t, ptr, kbuf)
  PROVE  Elsewhere(t) /\ (Refused(t, ptr, Len(kbuf)) \/ Begun(t, ptr, kbuf))
<1>1. CASE copycheck(ptr, Len(kbuf)) # Len(kbuf) /\ Answers(t, "EFAULT", 0)
  <2>1. Registers(t, "EFAULT", 0) /\ Goes(t, "user") /\ copy' = copy /\ badfault' = badfault
    BY Zenon, <1>1 DEF Answers
  <2>2. Len(kbuf) = 0 \/ ~(Region(ptr, Len(kbuf)) \subseteq Mapped)
    BY Zenon, <1>1, Checks
  <2>3. "EFAULT" \in Errors /\ 0 \in Values /\ "user" \in Where
    BY DEF Errors, Values, Where
  <2>4. /\ tf' \in [Programs -> Frames] /\ tf'[t].epc = tf[t].epc + 1
        /\ tf'[t].v0 = "EFAULT" /\ tf'[t].a3 = 1
        /\ \A u \in Programs \ {t} : tf'[u] = tf[u]
    BY Zenon, <2>1, <2>3, Registered
  <2>5. /\ s_pc' \in [Programs -> Where] /\ s_pc'[t] = "user"
        /\ \A u \in Programs \ {t} : s_pc'[u] = s_pc[u]
    BY Zenon, <2>1, <2>3, Places
  <2>6. QED
    BY Zenon, <2>1, <2>2, <2>4, <2>5 DEF SysType, Elsewhere, Refused
<1>2. CASE /\ copycheck(ptr, Len(kbuf)) = Len(kbuf)
           /\ Goes(t, "copy")
           /\ copy' = [copy EXCEPT ![t] = [addr |-> ptr, done |-> 0, kbuf |-> kbuf]]
           /\ badfault' = [badfault EXCEPT ![t] = TRUE]
           /\ UNCHANGED tf
  <2>1. Len(kbuf) # 0 /\ Region(ptr, Len(kbuf)) \subseteq 0 .. (UserTop - 1)
    BY Zenon, <1>2, Checks
  <2>2. "copy" \in Where /\ ptr \in Nat
    BY SysAssumption DEF Where
  <2>3. /\ s_pc' \in [Programs -> Where] /\ s_pc'[t] = "copy"
        /\ \A u \in Programs \ {t} : s_pc'[u] = s_pc[u]
    BY Zenon, <1>2, <2>2, Places
  <2>4. [addr |-> ptr, done |-> 0, kbuf |-> kbuf] \in [addr : Nat, done : Nat, kbuf : Seq(Words)]
    BY <2>2
  <2>5. QED
    BY Zenon, <1>2, <2>1, <2>3, <2>4 DEF SysType, Elsewhere, Begun
<1>3. QED
  BY Zenon, <1>1, <1>2 DEF StartCopy

\* What is copied for a call: the buffer of a write, the key of a read, and for
\* __time the seconds and then the nanoseconds.
CopyFor(t, ptr, kbuf) ==
  \/ call[t].no = "write" /\ ptr = call[t].ptr /\ Len(kbuf) = call[t].len
  \/ call[t].no = "read" /\ ptr = call[t].ptr /\ kbuf = <<"key">>
  \/ call[t].no = "__time" /\ ptr = call[t].ptr /\ kbuf = <<"secs">>
  \/ /\ call[t].no = "__time" /\ ptr = call[t].ptr2 /\ kbuf = <<"nsecs">>
     /\ call[t].ptr # 0 /\ call[t].ptr # call[t].ptr2
          => call[t].ptr \in Mapped /\ s_mem[t][call[t].ptr] = "secs"

\* The start of a copy for a call leaves its thread sound.
LEMMA StartSound ==
  ASSUME SysType, NEW t \in Programs, NEW ptr \in Ptrs \ {0}, NEW kbuf \in Seq(Words),
         Len(kbuf) \in 0 .. (AddrSize - 1), StartCopy(t, ptr, kbuf),
         call'[t] \in Calls, badfault[t] = FALSE, childtf'[t] = NULL,
         tf[t].epc + 1 = made'[t], CopyFor(t, ptr, kbuf)'
  PROVE  Sound(t)'
<1>1. call'[t] # NoCall /\ ptr \in Nat
  BY Arguments, SysAssumption
<1>2. CASE Refused(t, ptr, Len(kbuf))
  <2>1. \A w : Len(<<w>>) = 1
    OBVIOUS
  <2>2. call'[t].no \in {"read", "__time"} => Len(kbuf) = 1
    BY Zenon, <2>1 DEF CopyFor
  <2>3. Len(kbuf) = 1 => Region(ptr, Len(kbuf)) = {ptr}
    BY <1>1 DEF Region
  <2>4. call'[t].no \in {"read", "__time"} => ptr \notin Mapped
    <3>1. Len(kbuf) # 0 => ~(Region(ptr, Len(kbuf)) \subseteq Mapped)
      BY <1>2 DEF Refused
    <3>2. Len(kbuf) = 1 => ~({ptr} \subseteq Mapped)
      BY <2>3, <3>1
    <3>3. QED
      BY Zenon, <2>2, <3>2
  <2>5. call'[t].no = "write" =>
          call'[t].len = 0 \/ ~(Region(call'[t].ptr, call'[t].len) \subseteq Mapped)
    BY Zenon, <1>2 DEF CopyFor, Refused
  <2>6. call'[t].no = "read" => call'[t].ptr \notin Mapped
    BY Zenon, <2>4 DEF CopyFor
  <2>7. call'[t].no = "__time" => ~({call'[t].ptr, call'[t].ptr2} \ {0} \subseteq Mapped)
    BY Zenon, <2>4 DEF CopyFor
  <2>8. Honest(t)'
    BY <1>2, <2>5, <2>6, <2>7 DEF Honest, Refused
  <2>9. QED
    BY Zenon, <1>1, <1>2, <2>8, Answered DEF Refused
<1>3. CASE Begun(t, ptr, kbuf)
  <2>1. copy'[t].addr = ptr /\ copy'[t].done = 0 /\ copy'[t].kbuf = kbuf
    BY <1>3 DEF Begun
  <2>2. \/ call'[t].no = "write" /\ WriteTrue(t)'
        \/ call'[t].no = "read" /\ ReadTrue(t)'
        \/ call'[t].no = "__time" /\ TimeTrue(t)'
    BY <2>1 DEF CopyFor, WriteTrue, ReadTrue, TimeTrue, Stored
  <2>3. 0 <= Len(kbuf)
    OBVIOUS
  <2>4. CopyTrue(t)'
    BY Zenon, <1>3, <2>1, <2>2, <2>3 DEF CopyTrue, Begun
  <2>5. QED
    BY Zenon, <1>3, <2>4 DEF Sound, Begun
<1>4. QED
  BY Zenon, <1>2, <1>3, Started

\* getch keeps the invariant.
LEMMA GetchInv == ASSUME SysInv, NEW t \in Programs, getch(t) PROVE SysInv'
<1>1. /\ s_pc[t] = "getch" /\ StartCopy(t, call[t].ptr, <<"key">>)
      /\ UNCHANGED <<call, childtf, s_mem, shown, made>>
  BY DEF getch
<1>2. /\ SysType /\ Getting(t) /\ tf[t].epc + 1 = made[t]
      /\ badfault[t] = FALSE /\ childtf[t] = NULL
  BY <1>1 DEF SysInv, Sound, SysType
<1>3. /\ call[t].ptr \in Ptrs \ {0} /\ <<"key">> \in Seq(Words)
      /\ Len(<<"key">>) \in 0 .. (AddrSize - 1)
  BY <1>2, Arguments, SysAssumption DEF Getting, Words
<1>4. CopyFor(t, call[t].ptr, <<"key">>)'
  BY <1>1, <1>2 DEF CopyFor, Getting
<1>5. call'[t] \in Calls /\ childtf'[t] = NULL /\ tf[t].epc + 1 = made'[t]
  BY Zenon, <1>1, <1>2 DEF Getting
<1>6. Sound(t)'
  BY Zenon, <1>1, <1>2, <1>3, <1>4, <1>5, StartSound
<1>7. Elsewhere(t)
  BY Zenon, <1>1, <1>2, <1>3, Started
<1>8. SysType' /\ \A u \in Programs \ {t} : Same(u)
  BY Zenon, <1>1, <1>2, <1>7 DEF SysType, Same, Elsewhere
<1>9. QED
  BY Zenon, <1>6, <1>8, OneThread

\* The record of a copy after word w has become the n-th of the kernel's buffer.
Put(c, n, w) == [c EXCEPT !.done = n, !.kbuf[n] = w]
Got(c, n, w) == [addr |-> c.addr, done |-> n, kbuf |-> [c.kbuf EXCEPT ![n] = w]]
LEMMA WordPut ==
  ASSUME NEW c, NEW n, NEW w, c = [addr |-> c.addr, done |-> c.done, kbuf |-> c.kbuf]
  PROVE  Put(c, n, w) = Got(c, n, w)
<1> DEFINE r == [addr |-> c.addr, done |-> n, kbuf |-> c.kbuf]
<1>1. [c EXCEPT !.done = n] = r
  OBVIOUS
<1>2. [r EXCEPT !.kbuf[n] = w] = [r EXCEPT !.kbuf = [c.kbuf EXCEPT ![n] = w]]
  OBVIOUS
<1>3. [r EXCEPT !.kbuf = [c.kbuf EXCEPT ![n] = w]] = Got(c, n, w)
  BY DEF Got
<1> HIDE DEF r
<1>4. Put(c, n, w) = [r EXCEPT !.kbuf[n] = w]
  BY Zenon, <1>1 DEF Put
<1>5. QED
  BY Zenon, <1>2, <1>3, <1>4

\* A word is copied: what was copied so far stays true, with one word more.
LEMMA MemcpyInv == ASSUME SysInv, NEW t \in Programs, memcpy(t) PROVE SysInv'
<1> DEFINE i == copy[t].done + 1
           a == copy[t].addr + copy[t].done
<1>1. /\ s_pc[t] = "copy" /\ copy[t].done < Len(copy[t].kbuf) /\ a \in Mapped
      /\ UNCHANGED <<s_pc, tf, call, badfault, childtf, shown, made>>
  BY Zenon DEF memcpy, Copying, Address
<1>2. SysType /\ CopyTrue(t) /\ Sound(t)
  BY Zenon, <1>1 DEF SysInv, Sound
<1>3. /\ copy[t] \in [addr : Nat, done : Nat, kbuf : Seq(Words)] /\ copy[t].addr \in Nat
      /\ copy[t].done \in Nat /\ copy[t].kbuf \in Seq(Words) /\ Len(copy[t].kbuf) \in Nat
      /\ i \in 1 .. Len(copy[t].kbuf) /\ s_mem[t] \in [Mapped -> Words]
  BY <1>1, <1>2 DEF SysType
<1>4. CASE /\ call[t].no = "write" /\ UNCHANGED s_mem
           /\ copy' = [copy EXCEPT ![t].done = i, ![t].kbuf[i] = s_mem[t][a]]
  <2>1. s_mem[t][a] \in Words
    BY Zenon, <1>1, <1>3
  <2> DEFINE k == [copy[t].kbuf EXCEPT ![i] = s_mem[t][a]]
             r == [addr |-> copy[t].addr, done |-> i, kbuf |-> k]
  <2>2. /\ k \in Seq(Words) /\ Len(k) = Len(copy[t].kbuf) /\ k[i] = s_mem[t][a]
        /\ \A j \in 1 .. copy[t].done : k[j] = copy[t].kbuf[j]
    BY <1>3, <2>1
  <2>3. copy' = [copy EXCEPT ![t] = r]
    <3>1. copy[t] = [addr |-> copy[t].addr, done |-> copy[t].done, kbuf |-> copy[t].kbuf]
      BY <1>3
    <3>2. Put(copy[t], i, s_mem[t][a]) = Got(copy[t], i, s_mem[t][a])
      BY <3>1, WordPut
    <3>3. copy' = [copy EXCEPT ![t] = Put(copy[t], i, s_mem[t][a])]
      BY Zenon, <1>2, <1>4 DEF SysType, Put
    <3>4. copy' = [copy EXCEPT ![t] = Got(copy[t], i, s_mem[t][a])]
      BY Zenon, <3>2, <3>3
    <3>5. QED
      BY Zenon, <3>4 DEF Got
  <2>4. r \in [addr : Nat, done : Nat, kbuf : Seq(Words)]
    BY <1>3, <2>2
  <2> HIDE DEF k
  <2>5. /\ copy'[t] = r /\ copy' \in [Programs -> [addr : Nat, done : Nat, kbuf : Seq(Words)]]
        /\ \A u \in Programs \ {t} : copy'[u] = copy[u]
    BY Zenon, <1>2, <2>3, <2>4 DEF SysType
  <2>6. copy'[t].addr = copy[t].addr /\ copy'[t].done = i /\ copy'[t].kbuf = k
    BY <2>5
  <2>7. WriteTrue(t) /\ call[t] \in Calls
        /\ Region(copy[t].addr, Len(copy[t].kbuf)) \subseteq 0 .. (UserTop - 1)
    BY Zenon, <1>2, <1>4 DEF CopyTrue
  <2>8. WriteTrue(t)'
    <3>1. ASSUME NEW j \in 1 .. i
          PROVE  copy[t].addr + j - 1 \in Mapped /\ k[j] = s_mem[t][copy[t].addr + j - 1]
      <4>1. CASE j = i
        <5>1. copy[t].addr + j - 1 = a
          BY <1>3, <4>1
        <5>2. QED
          BY Zenon, <1>1, <2>2, <4>1, <5>1
      <4>2. CASE j # i
        <5>1. j \in 1 .. copy[t].done
          BY <1>3, <4>2
        <5>2. QED
          BY Zenon, <2>2, <2>7, <5>1 DEF WriteTrue
      <4>3. QED
        BY Zenon, <4>1, <4>2
    <3>2. QED
      BY Zenon, <1>1, <1>4, <2>2, <2>6, <2>7, <3>1 DEF WriteTrue
  <2>9. i <= Len(k)
    BY <1>3, <2>2
  <2>10. CopyTrue(t)'
    BY Zenon, <1>1, <1>4, <2>2, <2>6, <2>7, <2>8, <2>9 DEF CopyTrue
  <2>11. Sound(t)'
    BY Zenon, <1>1, <1>2, <2>10 DEF Sound
  <2>12. SysType' /\ \A u \in Programs \ {t} : Same(u)
    BY Zenon, <1>1, <1>2, <1>4, <2>5 DEF SysType, Same
  <2>13. QED
    BY Zenon, <2>11, <2>12, OneThread
<1>5. CASE /\ call[t].no # "write"
           /\ copy' = [copy EXCEPT ![t].done = i]
           /\ s_mem' = [s_mem EXCEPT ![t][a] = copy[t].kbuf[i]]
  <2> DEFINE w == copy[t].kbuf[i]
             r == [addr |-> copy[t].addr, done |-> i, kbuf |-> copy[t].kbuf]
             m == [s_mem[t] EXCEPT ![a] = w]
  <2>1. w \in Words
    BY <1>3
  <2>2. copy' = [copy EXCEPT ![t] = r] /\ s_mem' = [s_mem EXCEPT ![t] = m]
    <3>1. copy[t] = [addr |-> copy[t].addr, done |-> copy[t].done, kbuf |-> copy[t].kbuf]
      BY <1>3
    <3>2. [copy[t] EXCEPT !.done = i] = r
      BY <3>1
    <3>3. copy' = [copy EXCEPT ![t] = [copy[t] EXCEPT !.done = i]]
      BY Zenon, <1>2, <1>5 DEF SysType
    <3>4. QED
      BY Zenon, <1>5, <3>2, <3>3
  <2>3. r \in [addr : Nat, done : Nat, kbuf : Seq(Words)]
    BY <1>3
  <2>4. m \in [Mapped -> Words] /\ m[a] = w /\ \A b \in Mapped \ {a} : m[b] = s_mem[t][b]
    BY Zenon, <1>1, <1>3, <2>1
  <2> HIDE DEF m
  <2>5. /\ copy'[t] = r /\ copy' \in [Programs -> [addr : Nat, done : Nat, kbuf : Seq(Words)]]
        /\ s_mem'[t] = m /\ s_mem' \in [Programs -> [Mapped -> Words]]
        /\ \A u \in Programs \ {t} : copy'[u] = copy[u] /\ s_mem'[u] = s_mem[u]
    BY Zenon, <1>2, <2>2, <2>3, <2>4 DEF SysType
  <2>6. copy'[t].addr = copy[t].addr /\ copy'[t].done = i /\ copy'[t].kbuf = copy[t].kbuf
    BY <2>5
  <2>7. ASSUME NEW word, copy[t].kbuf = <<word>>
        PROVE  i = 1 /\ a = copy[t].addr /\ w = word
    BY <1>3, <2>7
  <2>8. ASSUME NEW word, Stored(t, word) PROVE Stored(t, word)' /\ a = copy[t].addr
    BY ZenonT(30), <1>1, <2>4, <2>5, <2>6, <2>7, <2>8 DEF Stored
  <2>9. call[t].no = "read" /\ ReadTrue(t) => ReadTrue(t)'
    BY Zenon, <1>1, <2>6, <2>8 DEF ReadTrue
  <2>10. call[t].no = "__time" /\ TimeTrue(t) => TimeTrue(t)'
    BY Zenon, <1>1, <2>4, <2>5, <2>6, <2>8 DEF TimeTrue
  <2>11. i <= Len(copy[t].kbuf)
    BY <1>3
  <2>12. CopyTrue(t)'
    BY Zenon, <1>1, <1>2, <1>5, <2>6, <2>9, <2>10, <2>11 DEF CopyTrue
  <2>13. Sound(t)'
    BY Zenon, <1>1, <1>2, <2>12 DEF Sound
  <2>14. SysType' /\ \A u \in Programs \ {t} : Same(u)
    BY Zenon, <1>1, <1>2, <2>5 DEF SysType, Same
  <2>15. QED
    BY Zenon, <2>13, <2>14, OneThread
<1>6. QED
  BY Zenon, <1>4, <1>5 DEF memcpy, Address

\* A word faults: some address of the region is not mapped.
LEMMA FailInv == ASSUME SysInv, NEW t \in Programs, copyfail(t) PROVE SysInv'
<1>1. /\ s_pc[t] = "copy" /\ copy[t].done < Len(copy[t].kbuf)
      /\ copy[t].addr + copy[t].done \notin Mapped
      /\ badfault' = [badfault EXCEPT ![t] = FALSE]
      /\ Registers(t, "EFAULT", 0) /\ Goes(t, "user")
      /\ UNCHANGED <<call, copy, childtf, s_mem, shown, made>>
  BY Zenon DEF copyfail, Copying, Address
<1>2. SysType /\ CopyTrue(t) /\ tf[t].epc + 1 = made[t] /\ childtf[t] = NULL
  BY Zenon, <1>1 DEF SysInv, Sound
<1>3. "EFAULT" \in Errors /\ 0 \in Values /\ "user" \in Where
  BY DEF Errors, Values, Where
<1>4. /\ tf' \in [Programs -> Frames] /\ tf'[t].epc = tf[t].epc + 1
      /\ tf'[t].v0 = "EFAULT" /\ tf'[t].a3 = 1
      /\ \A u \in Programs \ {t} : tf'[u] = tf[u]
  BY ZenonT(30), <1>1, <1>2, <1>3, Registered
<1>5. /\ s_pc' \in [Programs -> Where] /\ s_pc'[t] = "user"
      /\ \A u \in Programs \ {t} : s_pc'[u] = s_pc[u]
  BY Zenon, <1>1, <1>2, <1>3, Places
<1>6. /\ badfault' \in [Programs -> BOOLEAN] /\ badfault'[t] = FALSE
      /\ \A u \in Programs \ {t} : badfault'[u] = badfault[u]
  BY Zenon, <1>1, <1>2 DEF SysType
<1>7. copy[t].addr \in Nat /\ copy[t].done \in Nat /\ copy[t].kbuf \in Seq(Words)
  BY <1>2 DEF SysType
<1>8. call[t].no = "write" => ~(Region(call[t].ptr, call[t].len) \subseteq Mapped)
  <2>1. copy[t].addr + copy[t].done \in Region(copy[t].addr, Len(copy[t].kbuf))
    BY <1>1, <1>7 DEF Region
  <2>2. QED
    BY Zenon, <1>1, <1>2, <2>1 DEF CopyTrue, WriteTrue
<1>9. \A w : copy[t].kbuf = <<w>> => copy[t].addr \notin Mapped
  <2>1. TAKE w
  <2>2. HAVE copy[t].kbuf = <<w>>
  <2>3. Len(copy[t].kbuf) = 1
    BY <2>2
  <2>4. copy[t].addr + copy[t].done = copy[t].addr
    BY <1>1, <1>7, <2>3
  <2>5. QED
    BY <1>1, <2>4
<1>10. call[t].no = "read" => call[t].ptr \notin Mapped
  BY Zenon, <1>2, <1>9 DEF CopyTrue, ReadTrue, Stored
<1>11. call[t].no = "__time" => ~({call[t].ptr, call[t].ptr2} \ {0} \subseteq Mapped)
  <2>1. SUFFICES ASSUME call[t].no = "__time"
                 PROVE  ~({call[t].ptr, call[t].ptr2} \ {0} \subseteq Mapped)
    OBVIOUS
  <2>2. TimeTrue(t)
    BY <1>2, <2>1 DEF CopyTrue
  <2>3. copy[t].addr \notin Mapped
    BY <1>9, <2>2 DEF TimeTrue, Stored
  <2>4. copy[t].addr # 0 /\ copy[t].addr \in {call[t].ptr, call[t].ptr2}
    BY Zenon, <2>2 DEF TimeTrue
  <2>5. QED
    BY Zenon, <2>3, <2>4
<1>12. Honest(t)'
  BY <1>1, <1>4, <1>8, <1>10, <1>11 DEF Honest
<1>13. call'[t] # NoCall
  BY Zenon, <1>1, <1>2, Arguments DEF CopyTrue
<1>14. Sound(t)'
  BY Zenon, <1>1, <1>2, <1>4, <1>5, <1>6, <1>12, <1>13, Answered
<1>15. SysType' /\ \A u \in Programs \ {t} : Same(u)
  BY Zenon, <1>1, <1>2, <1>4, <1>5, <1>6 DEF SysType, Same
<1>16. QED
  BY Zenon, <1>14, <1>15, OneThread

\* The end of a copy: every word has been copied.
LEMMA DoneInv == ASSUME SysInv, NEW t \in Programs, CopyDone(t) PROVE SysInv'
<1>1. /\ s_pc[t] = "copy" /\ ~(copy[t].done < Len(copy[t].kbuf))
      /\ badfault' = [badfault EXCEPT ![t] = FALSE]
      /\ Goes(t, "copied")
      /\ UNCHANGED <<tf, call, copy, childtf, s_mem, shown, made>>
  BY Zenon DEF CopyDone, Copying
<1>2. SysType /\ CopyTrue(t) /\ tf[t].epc + 1 = made[t] /\ childtf[t] = NULL
  BY Zenon, <1>1 DEF SysInv, Sound
<1>3. /\ s_pc' \in [Programs -> Where] /\ s_pc'[t] = "copied"
      /\ \A u \in Programs \ {t} : s_pc'[u] = s_pc[u]
  <2>1. "copied" \in Where
    BY DEF Where
  <2>2. QED
    BY Zenon, <1>1, <1>2, <2>1, Places
<1>4. /\ badfault' \in [Programs -> BOOLEAN] /\ badfault'[t] = FALSE
      /\ \A u \in Programs \ {t} : badfault'[u] = badfault[u]
  BY Zenon, <1>1, <1>2 DEF SysType
<1>5. copy[t].done = Len(copy[t].kbuf)
  <2>1. copy[t].done \in Nat /\ copy[t].kbuf \in Seq(Words)
    BY <1>2 DEF SysType
  <2>2. copy[t].done <= Len(copy[t].kbuf)
    BY ZenonT(30), <1>2 DEF CopyTrue
  <2>3. QED
    BY <1>1, <2>1, <2>2
<1>6. CopyTrue(t)'
  BY <1>1, <1>2, <1>5 DEF CopyTrue, WriteTrue, ReadTrue, TimeTrue, Stored
<1>7. Sound(t)'
  BY Zenon, <1>1, <1>2, <1>3, <1>4, <1>6 DEF Sound
<1>8. SysType' /\ \A u \in Programs \ {t} : Same(u)
  BY Zenon, <1>1, <1>2, <1>3, <1>4 DEF SysType, Same
<1>9. QED
  BY Zenon, <1>7, <1>8, OneThread

\* What a call that only answers does.
LEMMA Answering ==
  ASSUME SysType, NEW t \in Programs, NEW err \in Errors \cup {"OK"}, NEW retval \in Values,
         Answers(t, err, retval)
  PROVE  /\ Elsewhere(t) /\ s_pc'[t] = "user" /\ badfault'[t] = badfault[t]
         /\ tf'[t].epc = tf[t].epc + 1
         /\ err = "OK" => tf'[t].v0 = retval /\ tf'[t].a3 = 0
         /\ err # "OK" => tf'[t].v0 = err /\ tf'[t].a3 = 1
<1>1. /\ Registers(t, err, retval) /\ Goes(t, "user") /\ "user" \in Where
      /\ copy' = copy /\ badfault' = badfault
  BY DEF Answers, Where
<1>2. /\ s_pc' \in [Programs -> Where] /\ s_pc'[t] = "user"
      /\ \A u \in Programs \ {t} : s_pc'[u] = s_pc[u]
  BY Zenon, <1>1, Places
<1>3. /\ tf' \in [Programs -> Frames] /\ tf'[t].epc = tf[t].epc + 1
      /\ err = "OK" => tf'[t].v0 = retval /\ tf'[t].a3 = 0
      /\ err # "OK" => tf'[t].v0 = err /\ tf'[t].a3 = 1
      /\ \A u \in Programs \ {t} : tf'[u] = tf[u]
  BY Zenon, <1>1, Registered
<1>4. QED
  BY Zenon, <1>1, <1>2, <1>3 DEF SysType, Elsewhere

\* After the seconds, or without them, __time goes on soundly.
LEMMA NanosecondsSound ==
  ASSUME SysType, NEW t \in Programs, Nanoseconds(t, call'[t]),
         call'[t] \in Calls, call'[t].no = "__time",
         badfault[t] = FALSE, childtf'[t] = NULL, tf[t].epc + 1 = made'[t],
         call'[t].ptr # 0 => call'[t].ptr \in Mapped /\ s_mem'[t][call'[t].ptr] = "secs"
  PROVE  Sound(t)' /\ Elsewhere(t)
<1>1. call'[t] # NoCall /\ call'[t].ptr2 \in Ptrs
  BY Zenon, Arguments
<1>2. CASE call'[t].ptr2 = 0 /\ Answers(t, "OK", "secs")
  <2>1. "secs" \in Values /\ "OK" \in Errors \cup {"OK"}
    BY DEF Values
  <2>2. /\ Elsewhere(t) /\ s_pc'[t] = "user" /\ badfault'[t] = FALSE
        /\ tf'[t].epc = made'[t] /\ tf'[t].a3 = 0
    BY Zenon, <1>2, <2>1, Answering
  <2>3. Honest(t)'
    BY <1>2, <2>2 DEF Honest
  <2>4. QED
    BY Zenon, <1>1, <2>2, <2>3, Answered
<1>3. CASE call'[t].ptr2 # 0 /\ StartCopy(t, call'[t].ptr2, <<"nsecs">>)
  <2>1. /\ call'[t].ptr2 \in Ptrs \ {0} /\ <<"nsecs">> \in Seq(Words)
        /\ Len(<<"nsecs">>) \in 0 .. (AddrSize - 1)
    BY <1>1, <1>3, SysAssumption DEF Words
  <2>2. CopyFor(t, call[t].ptr2, <<"nsecs">>)'
    BY Zenon DEF CopyFor
  <2>3. Elsewhere(t)
    BY Zenon, <1>3, <2>1, Started
  <2>4. Sound(t)'
    BY Zenon, <1>3, <2>1, <2>2, StartSound
  <2>5. QED
    BY <2>3, <2>4
<1>4. QED
  BY Zenon, <1>2, <1>3 DEF Nanoseconds

\* After a copy: a write prints the program's words, the others have stored
\* theirs, and __time goes on to the nanoseconds.
LEMMA AfterCopyInv == ASSUME SysInv, NEW t \in Programs, AfterCopy(t) PROVE SysInv'
<1>1. s_pc[t] = "copied" /\ UNCHANGED <<call, childtf, s_mem, made>>
  BY Zenon DEF AfterCopy
<1>2. /\ SysType /\ CopyTrue(t) /\ tf[t].epc + 1 = made[t] /\ badfault[t] = FALSE
      /\ childtf[t] = NULL /\ call[t] \in Calls /\ call[t] # NoCall
      /\ copy[t].done = Len(copy[t].kbuf)
  <2>1. Sound(t) /\ SysType /\ badfault[t] \in BOOLEAN
    BY Zenon DEF SysInv, SysType
  <2>2. badfault[t] = FALSE /\ CopyTrue(t) /\ tf[t].epc + 1 = made[t] /\ childtf[t] = NULL
    BY <1>1, <2>1 DEF Sound
  <2>3. QED
    BY Zenon, <1>1, <2>1, <2>2, Arguments DEF CopyTrue
<1>3. copy[t].addr \in Nat /\ copy[t].kbuf \in Seq(Words)
  BY <1>2 DEF SysType
<1>4. ASSUME Elsewhere(t), Sound(t)', shown' = [u \in Programs |-> shown'[u]],
             \A u \in Programs \ {t} : shown'[u] = shown[u]
      PROVE  SysInv'
  <2>1. SysType' /\ \A u \in Programs \ {t} : Same(u)
    BY Zenon, <1>1, <1>2, <1>4 DEF SysType, Same, Elsewhere
  <2>2. QED
    BY Zenon, <1>4, <2>1, OneThread
<1>5. shown = [u \in Programs |-> shown[u]]
  BY Zenon, <1>2 DEF SysType
<1>6. CASE /\ call[t].no = "write" /\ Answers(t, "OK", call[t].len)
           /\ shown' = [shown EXCEPT ![t] = Printed(copy[t].kbuf)]
  <2>1. call[t].len \in Values /\ "OK" \in Errors \cup {"OK"}
    BY <1>2, <1>6, Arguments, SysAssumption DEF Values
  <2>2. /\ Elsewhere(t) /\ s_pc'[t] = "user" /\ badfault'[t] = FALSE
        /\ tf'[t].epc = made'[t] /\ tf'[t].v0 = call[t].len /\ tf'[t].a3 = 0
    BY Zenon, <1>1, <1>2, <1>6, <2>1, Answering
  <2>3. /\ shown'[t] = Printed(copy[t].kbuf) /\ shown' = [u \in Programs |-> shown'[u]]
        /\ \A u \in Programs \ {t} : shown'[u] = shown[u]
    BY <1>5, <1>6
  <2>4. WriteTrue(t)
    BY <1>2, <1>6 DEF CopyTrue
  <2>5. /\ copy[t].addr = call[t].ptr /\ Len(copy[t].kbuf) = call[t].len
        /\ \A i \in 1 .. call[t].len :
             call[t].ptr + i - 1 \in Mapped /\ copy[t].kbuf[i] = s_mem[t][call[t].ptr + i - 1]
    BY Zenon, <1>2, <2>4 DEF WriteTrue
  <2>6. copy[t].kbuf = [i \in 1 .. call[t].len |-> s_mem[t][call[t].ptr + i - 1]]
    <3>1. copy[t].kbuf = [i \in 1 .. Len(copy[t].kbuf) |-> copy[t].kbuf[i]]
      BY <1>3
    <3>2. copy[t].kbuf = [i \in 1 .. call[t].len |-> copy[t].kbuf[i]]
      BY <2>5, <3>1
    <3>3. [i \in 1 .. call[t].len |-> copy[t].kbuf[i]]
            = [i \in 1 .. call[t].len |-> s_mem[t][call[t].ptr + i - 1]]
      BY Zenon, <2>5
    <3>4. QED
      BY Zenon, <3>2, <3>3
  <2>7. Region(call[t].ptr, call[t].len) \subseteq Mapped
    <3>1. ASSUME NEW x \in Region(call[t].ptr, call[t].len) PROVE x \in Mapped
      <4>1. x \in call[t].ptr .. (call[t].ptr + call[t].len - 1)
        BY <3>1 DEF Region
      <4>2. call[t].ptr \in Nat /\ call[t].len \in Nat
        BY <1>2, <1>6, Arguments, SysAssumption
      <4> DEFINE i == x - call[t].ptr + 1
      <4>3. i \in 1 .. call[t].len /\ call[t].ptr + i - 1 = x
        BY <4>1, <4>2
      <4>4. QED
        BY Zenon, <2>5, <4>3
    <3>2. QED
      BY Zenon, <3>1
  <2>8. shown'[t] = Printed([i \in 1 .. call[t].len |-> s_mem[t][call[t].ptr + i - 1]])
    BY Zenon, <2>3, <2>6
  <2>9. Honest(t)'
    BY <1>1, <1>6, <2>2, <2>7, <2>8 DEF Honest
  <2>10. QED
    BY Zenon, <1>1, <1>2, <1>4, <2>2, <2>3, <2>9, Answered
<1>7. CASE call[t].no = "read" /\ Answers(t, "OK", 1) /\ UNCHANGED shown
  <2>1. 1 \in Values /\ "OK" \in Errors \cup {"OK"}
    BY DEF Values
  <2>2. /\ Elsewhere(t) /\ s_pc'[t] = "user" /\ badfault'[t] = FALSE
        /\ tf'[t].epc = made'[t] /\ tf'[t].a3 = 0
    BY Zenon, <1>1, <1>2, <1>7, <2>1, Answering
  <2>3. copy[t].addr = call[t].ptr /\ Stored(t, "key")
    BY <1>2, <1>7 DEF CopyTrue, ReadTrue
  <2>4. call[t].ptr \in Mapped /\ s_mem[t][call[t].ptr] = "key"
    BY <1>2, <2>3 DEF Stored
  <2>5. Honest(t)'
    BY <1>1, <1>7, <2>2, <2>4 DEF Honest
  <2>6. QED
    BY Zenon, <1>1, <1>2, <1>4, <1>5, <1>7, <2>2, <2>5, Answered
<1>8. CASE /\ call[t].no = "__time" /\ copy[t].kbuf = <<"secs">>
           /\ Nanoseconds(t, call[t]) /\ UNCHANGED shown
  <2>1. TimeTrue(t)
    BY <1>2, <1>8 DEF CopyTrue
  <2>2. <<"secs">> # <<"nsecs">> /\ copy[t].done = 1
    BY <1>2, <1>8
  <2>3. call[t].ptr \in Mapped /\ s_mem[t][call[t].ptr] = "secs"
    BY <1>8, <2>1, <2>2 DEF TimeTrue, Stored
  <2>4. Sound(t)' /\ Elsewhere(t)
    BY Zenon, <1>1, <1>2, <1>8, <2>3, NanosecondsSound
  <2>5. QED
    BY Zenon, <1>4, <1>5, <1>8, <2>4
<1>9. CASE /\ call[t].no = "__time" /\ copy[t].kbuf = <<"nsecs">>
           /\ Answers(t, "OK", "secs") /\ UNCHANGED shown
  <2>1. "secs" \in Values /\ "OK" \in Errors \cup {"OK"}
    BY DEF Values
  <2>2. /\ Elsewhere(t) /\ s_pc'[t] = "user" /\ badfault'[t] = FALSE
        /\ tf'[t].epc = made'[t] /\ tf'[t].a3 = 0
    BY Zenon, <1>1, <1>2, <1>9, <2>1, Answering
  <2>3. TimeTrue(t)
    BY <1>2, <1>9 DEF CopyTrue
  <2>4. <<"secs">> # <<"nsecs">> /\ copy[t].done = 1
    BY <1>2, <1>9
  <2>5. /\ call[t].ptr2 \in Mapped /\ s_mem[t][call[t].ptr2] = "nsecs"
        /\ call[t].ptr # 0 /\ call[t].ptr # call[t].ptr2
             => call[t].ptr \in Mapped /\ s_mem[t][call[t].ptr] = "secs"
    BY <1>9, <2>3, <2>4 DEF TimeTrue, Stored
  <2>6. Honest(t)'
    BY <1>1, <1>9, <2>2, <2>5 DEF Honest
  <2>7. QED
    BY Zenon, <1>1, <1>2, <1>4, <1>5, <1>9, <2>2, <2>6, Answered
<1>10. QED
  BY Zenon, <1>6, <1>7, <1>8, <1>9 DEF AfterCopy

\* A child starts with the frame that its parent left.
LEMMA ChildInv == ASSUME SysInv, NEW t \in Programs, childProcstub(t) PROVE SysInv'
<1> DEFINE f == [v0 |-> 0, a3 |-> 0, epc |-> childtf[t].epc + 1]
<1>1. /\ s_pc[t] = "new" /\ tf' = [tf EXCEPT ![t] = f] /\ Goes(t, "user")
      /\ childtf' = [childtf EXCEPT ![t] = NULL]
      /\ UNCHANGED <<call, copy, badfault, s_mem, shown, made>>
  BY Zenon DEF childProcstub
<1>2. /\ SysType /\ childtf[t] # NULL /\ childtf[t].epc + 1 = made[t]
      /\ call[t] = NoCall /\ ~badfault[t]
  BY <1>1 DEF SysInv, Sound
<1>3. childtf[t].epc + 1 \in Nat
  BY <1>2 DEF SysType
<1>4. f \in Frames
  BY <1>3 DEF Frames, Values
<1>5. f.v0 = 0 /\ f.a3 = 0 /\ f.epc = made[t]
  BY <1>2
<1> HIDE DEF f
<1>6. /\ tf' \in [Programs -> Frames] /\ tf'[t] = f
      /\ \A u \in Programs \ {t} : tf'[u] = tf[u]
  BY Zenon, <1>1, <1>2, <1>4 DEF SysType
<1>7. /\ childtf' \in [Programs -> Frames \cup {NULL}] /\ childtf'[t] = NULL
      /\ \A u \in Programs \ {t} : childtf'[u] = childtf[u]
  BY Zenon, <1>1, <1>2 DEF SysType
<1>8. /\ s_pc' \in [Programs -> Where] /\ s_pc'[t] = "user"
      /\ \A u \in Programs \ {t} : s_pc'[u] = s_pc[u]
  <2>1. "user" \in Where
    BY DEF Where
  <2>2. QED
    BY Zenon, <1>1, <1>2, <2>1, Places
<1>9. Honest(t)'
  BY <1>1, <1>2, OtherHonest, SysAssumption DEF NoCall
<1>10. Sound(t)'
  BY <1>1, <1>2, <1>5, <1>6, <1>7, <1>8, <1>9 DEF Sound
<1>11. SysType' /\ \A u \in Programs \ {t} : Same(u)
  BY Zenon, <1>1, <1>2, <1>6, <1>7, <1>8 DEF SysType, Same
<1>12. QED
  BY Zenon, <1>10, <1>11, OneThread

\* A fork that succeeds changes two threads: the parent has an answer, and the
\* child a frame that is one call behind what both have made.
LEMMA ForkInv == ASSUME SysInv, NEW t \in Programs, sys_fork_frame(t) PROVE SysInv'
<1>1. PICK c \in Programs :
        /\ s_pc[c] = "none" /\ Registers(t, "OK", c)
        /\ s_pc' = [s_pc EXCEPT ![c] = "new"]
        /\ childtf' = [childtf EXCEPT ![c] = tf[t]]
        /\ s_mem' = [s_mem EXCEPT ![c] = s_mem[t]]
        /\ made' = [made EXCEPT ![t] = @ + 1, ![c] = made[t] + 1]
  BY Zenon DEF sys_fork_frame
<1> DEFINE fork == [no |-> "fork"]
<1>2. /\ s_pc[t] = "user" /\ call' = [call EXCEPT ![t] = fork]
      /\ UNCHANGED <<copy, badfault, shown>>
  BY Zenon DEF sys_fork_frame
<1>3. /\ SysType /\ c # t /\ Sound(c) /\ Sound(t) /\ tf[t] \in Frames
      /\ tf[t].epc = made[t] /\ childtf[t] = NULL /\ badfault[t] = FALSE
      /\ call[c] = NoCall /\ badfault[c] = FALSE
  <2>1. SysType /\ c # t /\ Sound(c) /\ Sound(t)
    BY <1>1, <1>2 DEF SysInv
  <2>2. badfault[t] \in BOOLEAN /\ badfault[c] \in BOOLEAN /\ tf[t] \in Frames
    BY Zenon, <2>1 DEF SysType
  <2>3. QED
    BY <1>1, <1>2, <2>1, <2>2 DEF Sound
<1>4. fork \in Calls /\ fork.no = "fork" /\ fork # NoCall
  BY SysAssumption DEF Calls, NoCall
<1>5. /\ tf' \in [Programs -> Frames] /\ tf'[t].epc = tf[t].epc + 1
      /\ \A u \in Programs \ {t} : tf'[u] = tf[u]
  <2>1. c \in Values /\ "OK" \in Errors \cup {"OK"}
    BY DEF Values
  <2>2. QED
    BY Zenon, <1>1, <1>3, <2>1, Registered
<1>6. /\ s_pc' \in [Programs -> Where] /\ s_pc'[c] = "new"
      /\ \A u \in Programs \ {c} : s_pc'[u] = s_pc[u]
  <2>1. "new" \in Where
    BY DEF Where
  <2>2. QED
    BY Zenon, <1>1, <1>3, <2>1 DEF SysType
<1>7. /\ childtf' \in [Programs -> Frames \cup {NULL}] /\ childtf'[c] = tf[t]
      /\ \A u \in Programs \ {c} : childtf'[u] = childtf[u]
  BY Zenon, <1>1, <1>3 DEF SysType
<1>8. /\ s_mem' \in [Programs -> [Mapped -> Words]]
      /\ \A u \in Programs \ {c} : s_mem'[u] = s_mem[u]
  BY Zenon, <1>1, <1>3 DEF SysType
<1>9. /\ made' \in [Programs -> Nat] /\ made'[t] = made[t] + 1 /\ made'[c] = made[t] + 1
      /\ \A u \in Programs \ {t, c} : made'[u] = made[u]
  BY <1>1, <1>3 DEF SysType
<1> HIDE DEF fork
<1>10. /\ call' \in [Programs -> Calls \cup {NoCall}] /\ call'[t] = fork
       /\ \A u \in Programs \ {t} : call'[u] = call[u]
  BY Zenon, <1>2, <1>3, <1>4 DEF SysType
<1>11. SysType'
  BY Zenon, <1>2, <1>3, <1>5, <1>6, <1>7, <1>8, <1>9, <1>10 DEF SysType
<1>12. Honest(t)'
  BY <1>4, <1>10, OtherHonest
<1>13. Sound(t)'
  BY ZenonT(30), <1>2, <1>3, <1>4, <1>5, <1>6, <1>7, <1>9, <1>10, <1>12, Answered
<1>14. Sound(c)'
  <2>1. /\ s_pc'[c] = "new" /\ childtf'[c] # NULL /\ call'[c] = NoCall
        /\ badfault'[c] = FALSE /\ childtf'[c].epc + 1 = made'[c]
    BY <1>2, <1>3, <1>6, <1>7, <1>9, <1>10, SysAssumption
  <2>2. QED
    BY <2>1 DEF Sound
<1>15. ASSUME NEW u \in Programs \ {t, c} PROVE Sound(u)'
  <2>1. Same(u)
    BY Zenon, <1>2, <1>5, <1>6, <1>7, <1>8, <1>9, <1>10 DEF Same
  <2>2. QED
    BY Zenon, <2>1, SameSound DEF SysInv
<1>16. QED
  BY Zenon, <1>11, <1>13, <1>14, <1>15 DEF SysInv

\* The write, read and __time calls are sound up to where they wait or copy.
LEMMA WriteSound ==
  ASSUME SysType, NEW t \in Programs, call'[t] \in Calls, call'[t].no = "write",
         sys_write(t, call'[t]), badfault[t] = FALSE, childtf'[t] = NULL,
         tf[t].epc + 1 = made'[t]
  PROVE  Sound(t)' /\ Elsewhere(t)
<1> DEFINE c == call'[t]
           kbuf == [i \in 1 .. c.len |-> NULL]
<1>1. c # NoCall /\ c.ptr \in Ptrs /\ c.len \in Sizes
  BY Zenon, Arguments
<1>2. ASSUME NEW err \in Errors, Answers(t, err, 0), err = "EFAULT" => c.ptr = 0
      PROVE  Sound(t)' /\ Elsewhere(t)
  <2>1. 0 \in Values /\ err \in Errors \cup {"OK"} /\ err # "OK"
    BY DEF Values, Errors
  <2>2. /\ Elsewhere(t) /\ s_pc'[t] = "user" /\ badfault'[t] = FALSE
        /\ tf'[t].epc = made'[t] /\ tf'[t].v0 = err /\ tf'[t].a3 = 1
    BY Zenon, <1>2, <2>1, Answering
  <2>3. Honest(t)'
    BY <1>2, <2>2 DEF Honest
  <2>4. QED
    BY Zenon, <1>1, <2>2, <2>3, Answered
<1>3. CASE c.ptr # 0 /\ StartCopy(t, c.ptr, kbuf)
  <2>1. /\ c.ptr \in Ptrs \ {0} /\ kbuf \in Seq(Words) /\ Len(kbuf) = c.len
        /\ c.len \in 0 .. (AddrSize - 1)
    BY <1>1, <1>3, SysAssumption DEF Words
  <2>2. CopyFor(t, call[t].ptr, [i \in 1 .. call[t].len |-> NULL])'
    BY Zenon, <2>1 DEF CopyFor
  <2>3. Sound(t)'
    BY Zenon, <1>3, <2>1, <2>2, StartSound
  <2>4. Elsewhere(t)
    BY Zenon, <1>3, <2>1, Started
  <2>5. QED
    BY <2>3, <2>4
<1>4. "EBADF" \in Errors /\ "EFAULT" \in Errors /\ "ENOSPC" \in Errors
  BY DEF Errors
<1>5. QED
  BY <1>2, <1>3, <1>4 DEF sys_write

LEMMA ReadSound ==
  ASSUME SysType, NEW t \in Programs, call'[t] \in Calls, call'[t].no = "read",
         sys_read(t, call'[t]), badfault[t] = FALSE, childtf'[t] = NULL,
         tf[t].epc + 1 = made'[t]
  PROVE  Sound(t)' /\ Elsewhere(t)
<1> DEFINE c == call'[t]
<1>1. c # NoCall
  BY Zenon, Arguments
<1>2. ASSUME NEW err \in Errors, Answers(t, err, 0), err = "EFAULT" => c.ptr = 0
      PROVE  Sound(t)' /\ Elsewhere(t)
  <2>1. 0 \in Values /\ err \in Errors \cup {"OK"} /\ err # "OK"
    BY DEF Values, Errors
  <2>2. /\ Elsewhere(t) /\ s_pc'[t] = "user" /\ badfault'[t] = FALSE
        /\ tf'[t].epc = made'[t] /\ tf'[t].v0 = err /\ tf'[t].a3 = 1
    BY Zenon, <1>2, <2>1, Answering
  <2>3. Honest(t)'
    BY <1>2, <2>2 DEF Honest
  <2>4. QED
    BY Zenon, <1>1, <2>2, <2>3, Answered
<1>3. CASE c.ptr # 0 /\ c.len = 1 /\ Goes(t, "getch") /\ UNCHANGED <<tf, copy, badfault>>
  <2>1. "getch" \in Where
    BY DEF Where
  <2>2. /\ s_pc' \in [Programs -> Where] /\ s_pc'[t] = "getch"
        /\ \A u \in Programs \ {t} : s_pc'[u] = s_pc[u]
    BY Zenon, <1>3, <2>1, Places
  <2>3. Getting(t)'
    BY Zenon, <1>3 DEF Getting
  <2>4. Sound(t)'
    BY <1>3, <2>2, <2>3 DEF Sound
  <2>5. Elsewhere(t)
    BY Zenon, <1>3, <2>2 DEF SysType, Elsewhere
  <2>6. QED
    BY <2>4, <2>5
<1>4. "EBADF" \in Errors /\ "EFAULT" \in Errors /\ "EUNIMP" \in Errors
  BY DEF Errors
<1>5. QED
  BY <1>2, <1>3, <1>4 DEF sys_read

LEMMA TimeSound ==
  ASSUME SysType, NEW t \in Programs, call'[t] \in Calls, call'[t].no = "__time",
         sys__time(t, call'[t]), badfault[t] = FALSE, childtf'[t] = NULL,
         tf[t].epc + 1 = made'[t]
  PROVE  Sound(t)' /\ Elsewhere(t)
<1>1. CASE call'[t].ptr = 0 /\ Nanoseconds(t, call'[t])
  BY Zenon, <1>1, NanosecondsSound
<1>2. CASE call'[t].ptr # 0 /\ StartCopy(t, call'[t].ptr, <<"secs">>)
  <2>1. call'[t].ptr \in Ptrs
    BY Zenon, Arguments
  <2>2. /\ call'[t].ptr \in Ptrs \ {0} /\ <<"secs">> \in Seq(Words)
        /\ Len(<<"secs">>) \in 0 .. (AddrSize - 1)
    BY <1>2, <2>1, SysAssumption DEF Words
  <2>3. CopyFor(t, call[t].ptr, <<"secs">>)'
    BY Zenon DEF CopyFor
  <2>4. Sound(t)'
    BY Zenon, <1>2, <2>2, <2>3, StartSound
  <2>5. Elsewhere(t)
    BY Zenon, <1>2, <2>2, Started
  <2>6. QED
    BY <2>4, <2>5
<1>3. QED
  BY Zenon, <1>1, <1>2 DEF sys__time

\* A call that does not touch memory, or that fails for want of memory.
LEMMA OtherSound ==
  ASSUME SysType, NEW t \in Programs, call'[t] \in Calls,
         \/ Immediate(t, call'[t])
         \/ call'[t].no = "fork" /\ Answers(t, "ENOMEM", 0),
         badfault[t] = FALSE, childtf'[t] = NULL, tf[t].epc + 1 = made'[t]
  PROVE  Sound(t)' /\ Elsewhere(t)
<1> DEFINE c == call'[t]
<1>1. c # NoCall
  BY Zenon, Arguments
<1>2. ASSUME NEW err \in Errors \cup {"OK"}, NEW retval \in Values, Answers(t, err, retval),
             c.no \notin {"write", "read", "__time"}
      PROVE  Sound(t)' /\ Elsewhere(t)
  <2>1. /\ Elsewhere(t) /\ s_pc'[t] = "user" /\ badfault'[t] = FALSE
        /\ tf'[t].epc = made'[t]
    BY Zenon, <1>2, Answering
  <2>2. Honest(t)'
    BY Zenon, <1>2, OtherHonest
  <2>3. QED
    BY Zenon, <1>1, <2>1, <2>2, Answered
<1>3. CASE c.no = "_exit" /\ Goes(t, "dead") /\ UNCHANGED <<tf, copy, badfault>>
  <2>1. "dead" \in Where
    BY DEF Where
  <2>2. /\ s_pc' \in [Programs -> Where] /\ s_pc'[t] = "dead"
        /\ \A u \in Programs \ {t} : s_pc'[u] = s_pc[u]
    BY Zenon, <1>3, <2>1, Places
  <2>3. Sound(t)'
    BY <1>3, <2>2 DEF Sound
  <2>4. Elsewhere(t)
    BY Zenon, <1>3, <2>2 DEF SysType, Elsewhere
  <2>5. QED
    BY <2>3, <2>4
<1>4. t \in Values /\ 0 \in Values /\ {"OK", "ENOSYS", "ENOMEM"} \subseteq Errors \cup {"OK"}
  BY DEF Values, Errors
<1>5. CASE c.no = "getpid" /\ Answers(t, "OK", t)
  BY <1>2, <1>4, <1>5
<1>6. CASE c.no = "sleep" /\ Answers(t, "OK", 0)
  BY <1>2, <1>4, <1>6
<1>7. CASE c.no = "other" /\ Answers(t, "ENOSYS", 0)
  BY <1>2, <1>4, <1>7
<1>8. CASE c.no = "fork" /\ Answers(t, "ENOMEM", 0)
  BY <1>2, <1>4, <1>8
<1>9. QED
  BY Zenon, <1>3, <1>5, <1>6, <1>7, <1>8 DEF Immediate

\* mips_syscall keeps the invariant.
LEMMA SyscallInv == ASSUME SysInv, NEW t \in Programs, mips_syscall(t) PROVE SysInv'
<1>1. PICK c \in Calls :
        /\ call' = [call EXCEPT ![t] = c]
        /\ \/ c.no = "write" /\ sys_write(t, c)
           \/ c.no = "read" /\ sys_read(t, c)
           \/ c.no = "__time" /\ sys__time(t, c)
           \/ Immediate(t, c)
           \/ c.no = "fork" /\ Answers(t, "ENOMEM", 0)
  BY Zenon DEF mips_syscall
<1>2. /\ s_pc[t] = "user" /\ made' = [made EXCEPT ![t] = @ + 1]
      /\ UNCHANGED <<childtf, s_mem, shown>>
  BY Zenon DEF mips_syscall
<1>3. SysType /\ tf[t].epc = made[t] /\ childtf[t] = NULL /\ badfault[t] = FALSE
  <2>1. SysType /\ Sound(t) /\ badfault[t] \in BOOLEAN
    BY Zenon DEF SysInv, SysType
  <2>2. QED
    BY <1>2, <2>1 DEF Sound
<1>4. /\ call' \in [Programs -> Calls \cup {NoCall}] /\ call'[t] = c
      /\ \A u \in Programs \ {t} : call'[u] = call[u]
  BY Zenon, <1>1, <1>3 DEF SysType
<1>5. /\ made' \in [Programs -> Nat] /\ made'[t] = made[t] + 1
      /\ \A u \in Programs \ {t} : made'[u] = made[u]
  BY <1>2, <1>3 DEF SysType
<1>6. tf[t].epc + 1 = made'[t] /\ childtf'[t] = NULL /\ call'[t] \in Calls
  BY Zenon, <1>1, <1>2, <1>3, <1>4, <1>5
<1>7. Sound(t)' /\ Elsewhere(t)
  <2>1. CASE c.no = "write" /\ sys_write(t, c)
    BY Zenon, <1>3, <1>4, <1>6, <2>1, WriteSound
  <2>2. CASE c.no = "read" /\ sys_read(t, c)
    BY Zenon, <1>3, <1>4, <1>6, <2>2, ReadSound
  <2>3. CASE c.no = "__time" /\ sys__time(t, c)
    BY Zenon, <1>3, <1>4, <1>6, <2>3, TimeSound
  <2>4. CASE Immediate(t, c) \/ (c.no = "fork" /\ Answers(t, "ENOMEM", 0))
    BY Zenon, <1>3, <1>4, <1>6, <2>4, OtherSound
  <2>5. QED
    BY Zenon, <1>1, <2>1, <2>2, <2>3, <2>4
<1>8. SysType' /\ \A u \in Programs \ {t} : Same(u)
  BY Zenon, <1>2, <1>3, <1>4, <1>5, <1>7 DEF SysType, Same, Elsewhere
<1>9. QED
  BY Zenon, <1>7, <1>8, OneThread

\* The first states satisfy the invariant.
LEMMA InitInv == ASSUME SysInit PROVE SysInv
<1>1. SysType
  <2>1. s_pc \in [Programs -> Where] /\ badfault \in [Programs -> BOOLEAN]
    BY DEF SysInit, Where
  <2>2. tf \in [Programs -> Frames] /\ made \in [Programs -> Nat]
    BY DEF SysInit, Frames, Values
  <2>3. copy \in [Programs -> [addr : Nat, done : Nat, kbuf : Seq(Words)]]
    BY DEF SysInit
  <2>4. s_mem \in [Programs -> [Mapped -> Words]]
    BY DEF SysInit, Words
  <2>5. /\ call \in [Programs -> Calls \cup {NoCall}]
        /\ childtf \in [Programs -> Frames \cup {NULL}]
    BY Zenon DEF SysInit
  <2>6. shown = [t \in Programs |-> shown[t]]
    BY DEF SysInit
  <2>7. QED
    BY Zenon, <2>1, <2>2, <2>3, <2>4, <2>5, <2>6 DEF SysType
<1>2. ASSUME NEW t \in Programs PROVE Sound(t)
  <2>1. /\ s_pc[t] \in {"user", "none"} /\ badfault[t] = FALSE /\ childtf[t] = NULL
        /\ call[t] = NoCall /\ tf[t] = [v0 |-> 0, a3 |-> 0, epc |-> 0] /\ made[t] = 0
    BY DEF SysInit
  <2>2. tf[t].v0 = 0 /\ tf[t].a3 = 0 /\ tf[t].epc = 0 /\ call[t].no = NULL
    BY <2>1 DEF NoCall
  <2>3. Honest(t)
    BY <2>2, SysAssumption DEF Honest
  <2>4. QED
    BY <2>1, <2>2, <2>3 DEF Sound
<1>3. QED
  BY Zenon, <1>1, <1>2 DEF SysInv
-----------------------------------------------------------------------------
\* The invariant is inductive: every step of every program keeps it, whatever
\* the others do and wherever a copy faults.
THEOREM SyscallsInductive == SysSpec => []SysInv
<1>1. ASSUME SysInv, SysNext PROVE SysInv'
  BY Zenon, <1>1, SyscallInv, ForkInv, ChildInv, GetchInv, MemcpyInv, FailInv, DoneInv,
     AfterCopyInv DEF SysNext
<1>2. ASSUME SysInv, UNCHANGED s_vars PROVE SysInv'
  <2>1. SysType' /\ \A u \in Programs : Same(u)
    BY Zenon, <1>2 DEF SysInv, SysType, Same, s_vars
  <2>2. QED
    BY Zenon, <1>2, <2>1, SameSound DEF SysInv
<1>3. QED
  BY <1>1, <1>2, InitInv, PTL DEF SysSpec

\* System calls are sound (mips_syscall, copyin, copyout, sys_fork and
\* childProcstub): for any number of programs and calls, any address space and
\* any mapped part of it, a recovery function is set exactly during a copy, a
\* copy stays in the program's half, a program is past exactly the calls that
\* were made, and the answer of each call says what happened.
THEOREM SyscallsStaySound == SysSpec => []SyscallsSound
<1>1. SysInv => SyscallsSound
  BY Zenon DEF SysInv, Sound, CopyTrue, SyscallsSound
<1>2. QED
  BY <1>1, SyscallsInductive, PTL
=============================================================================
