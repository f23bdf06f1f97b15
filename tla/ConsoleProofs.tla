---------------------------- MODULE ConsoleProofs ----------------------------
(***************************************************************************)
(* Proofs about Console, for any threads, lines, keys and bounds.          *)
(***************************************************************************)
EXTENDS Console, TLAPS

PcValues == {"idle", "lock", "loop", "putch", "send", "getch", "got", "unlock"}

\* The right to give the port a character is in one place: the semaphore, a
\* thread between P and lser_write, or the port itself, which returns it by the
\* interrupt.  Polled output leaves it where it is.
IInv ==
    /\ pc \in [Threads -> PcValues]
    /\ wsem \in {0, 1} /\ ls_wbusy \in {0, 1}
    /\ wsem = 1 => ls_wbusy = 0 /\ \A t \in Threads : pc[t] # "send"
    /\ \A t \in Threads : pc[t] = "send" => ls_wbusy = 0
    /\ \A t, u \in Threads : pc[t] = "send" /\ pc[u] = "send" => t = u
    /\ wirq => ls_wbusy = 1 /\ tx = NULL
    /\ tx # NULL => ls_wbusy = 1

\* config_con and config_lser establish the invariant.
LEMMA InitIInv == Init => IInv
  BY DEF Init, config_con, config_lser, IInv, PcValues

\* Steps that leave the port and the semaphore alone, and do not make a thread
\* ready to send.
LEMMA QuietIInv ==
  ASSUME IInv, UNCHANGED <<wsem, ls_wbusy, wirq, tx>>,
         NEW t \in Threads, NEW v \in PcValues \ {"send"}, pc' = [pc EXCEPT ![t] = v]
  PROVE  IInv'
  BY DEF IInv, PcValues

\* The steps of a thread keep the invariant.
LEMMA StepIInv == ASSUME IInv, NEW t \in Threads, Step(t) PROVE IInv'
  <1>1. CASE Acquire(t)
    BY <1>1, QuietIInv, Zenon DEF Acquire, port, PcValues
  <1>2. CASE Release(t)
    BY <1>2, QuietIInv, Zenon DEF Release, port, PcValues
  <1>3. CASE Loop(t)
    <2>1. UNCHANGED <<wsem, ls_wbusy, wirq, tx>>
      BY <1>3, Zenon DEF Loop, port
    <2>2. \E v \in {"unlock", "getch", "putch"} : pc' = [pc EXCEPT ![t] = v]
      BY <1>3, Zenon DEF Loop
    <2>. QED
      BY Zenon, <2>1, <2>2, QuietIInv DEF PcValues
  <1>4. CASE putch_intr(t)
    BY <1>4 DEF putch_intr, port, IInv, PcValues
  <1>5. CASE lser_write(t)
    <2>1. /\ pc[t] = "send" /\ ls_wbusy' = 1 /\ UNCHANGED <<wsem, wirq>>
          /\ \E v \in {"putch", "loop"} : pc' = [pc EXCEPT ![t] = v]
      BY Zenon, <1>5 DEF lser_write
    <2>. QED
      BY <2>1 DEF IInv, PcValues
  <1>6. CASE getch_intr(t)
    BY <1>6, QuietIInv, Zenon DEF getch_intr, port, PcValues
  <1>7. CASE getch_return(t)
    BY <1>7, QuietIInv, Zenon DEF getch_return, port, PcValues
  <1>. QED
    BY <1>1, <1>2, <1>3, <1>4, <1>5, <1>6, <1>7 DEF Step

\* The interrupt hands the right back to the semaphore.
LEMMA IrqIInv == ASSUME IInv, lser_irq PROVE IInv'
  <1>1. UNCHANGED <<pc, tx>>
    BY Zenon DEF lser_irq
  <1>2. CASE wirq /\ ls_wbusy' = 0 /\ wirq' = FALSE /\ wsem' = wsem + 1
    BY <1>1, <1>2 DEF IInv
  <1>3. CASE UNCHANGED <<ls_wbusy, wirq, wsem>>
    BY <1>1, <1>3 DEF IInv
  <1>. QED
    BY <1>2, <1>3, Zenon DEF lser_irq

\* Polled output keeps the invariant.
LEMMA PolledIInv == ASSUME IInv, lser_writepolled PROVE IInv'
  <1>1. UNCHANGED <<pc, wsem, ls_wbusy>> /\ tx' = NULL /\ wirq' = (ls_wbusy = 1)
    BY Zenon DEF lser_writepolled
  <1>. QED
    BY Zenon, <1>1 DEF IInv

\* Every step keeps the invariant.
LEMMA NextIInv == IInv /\ [Next]_vars => IInv'
  <1>. SUFFICES ASSUME IInv, [Next]_vars PROVE IInv'
    OBVIOUS
  <1>1. CASE UNCHANGED vars
    BY <1>1 DEF vars, IInv
  <1>2. ASSUME NEW t \in Threads, NEW kind \in Locks, NEW line \in Lines,
               Call(t, kind, line)
        PROVE  IInv'
    BY <1>2, QuietIInv, Zenon DEF Call, port, PcValues
  <1>3. CASE Sent
    <2>1. UNCHANGED <<pc, wsem, ls_wbusy>> /\ tx # NULL /\ tx' = NULL
      BY <1>3, Zenon DEF Sent
    <2>. QED
      BY <2>1 DEF IInv
  <1>4. CASE Key
    <2>1. UNCHANGED <<pc, wsem, ls_wbusy, tx, wirq>>
      BY <1>4, Zenon DEF Key, port
    <2>. QED
      BY <2>1 DEF IInv
  <1>. QED
    BY <1>1, <1>2, <1>3, <1>4, StepIInv, IrqIInv, PolledIInv, Zenon DEF Next

\* The right to write is never lost and never doubled.
THEOREM Inductive == Spec => []IInv
  BY InitIInv, NextIInv, PTL DEF Spec

\* lser_write never panics with "Not clear to write" and never overwrites a
\* character that is being sent.
THEOREM AlwaysClearToWrite == Spec => []ClearToWrite
  <1>1. IInv => ClearToWrite
    BY DEF IInv, ClearToWrite
  <1>. QED
    BY <1>1, Inductive, PTL

------------------------------------------------------------------------------
(***************************************************************************)
(* What has been sent.  s is what the other end has, or will have once the *)
(* port is done with tx.                                                   *)
(***************************************************************************)

Chars == [id : Nat, ch : {"x", "cr", "nl"}]
Last(s, id, i) == \A j \in Places(s, id) : j <= i

\* The first n characters of a line have been sent for call id, and nothing
\* else; a newline is owed when a return has been sent for it.
Carries(s, id, kind, line, n, owed) ==
    /\ Cardinality(Asked(s, id)) = n
    /\ \A i \in Asked(s, id) : s[i].ch = line[Rank(s, id, i)]
    /\ \A i \in Places(s, id) : s[i].ch = "cr" =>
          /\ kind = "write"
          /\ \/ \E k \in Places(s, id) : Follows(s, id, i, k) /\ s[k].ch = "nl"
             \/ Last(s, id, i) /\ owed
    /\ \A k \in Places(s, id) : kind = "write" /\ s[k].ch = "nl" =>
          \E i \in Places(s, id) : Follows(s, id, i, k) /\ s[i].ch = "cr"
    /\ owed => \E i \in Places(s, id) : Last(s, id, i) /\ s[i].ch = "cr"

\* Sequences that grow by a character.
LEMMA Appended ==
  ASSUME NEW s \in Seq(Chars), NEW c \in Chars
  PROVE  /\ Append(s, c) \in Seq(Chars)
         /\ Len(Append(s, c)) = Len(s) + 1 /\ Len(s) \in Nat
         /\ DOMAIN Append(s, c) = DOMAIN s \cup {Len(s) + 1}
         /\ \A i \in DOMAIN s : i \in Nat /\ i >= 1 /\ i <= Len(s) /\ Append(s, c)[i] = s[i]
         /\ Append(s, c)[Len(s) + 1] = c
  OBVIOUS

\* What the proofs use of cardinalities.  It is proved last: what comes after
\* the library's theorems on finite sets carries them all along.
CountFacts ==
    /\ Cardinality({}) = 0
    /\ \A n \in Nat : \A S \in SUBSET (1 .. n) :
          Cardinality(S \cup {n + 1}) = Cardinality(S) + 1

\* Characters of other calls do not matter to a call.
LEMMA OtherCarries ==
  ASSUME NEW s \in Seq(Chars), NEW c \in Chars, NEW id, c.id # id,
         NEW kind, NEW line, NEW n, NEW owed \in BOOLEAN,
         Carries(s, id, kind, line, n, owed)
  PROVE  Carries(Append(s, c), id, kind, line, n, owed)
  <1>. DEFINE r == Append(s, c)
  <1>1. Places(r, id) = Places(s, id) /\ \A i \in Places(s, id) : r[i] = s[i]
    BY Appended DEF Places
  <1>2. Asked(r, id) = Asked(s, id)
    BY Zenon, <1>1 DEF Asked
  <1>3. \A i : Rank(r, id, i) = Rank(s, id, i) /\ Last(r, id, i) = Last(s, id, i)
    BY <1>1, <1>2 DEF Rank, Last
  <1>4. \A i, k : Follows(r, id, i, k) = Follows(s, id, i, k)
    BY <1>1 DEF Follows
  <1>5. \A i \in Asked(s, id) : i \in Places(s, id)
    BY DEF Asked
  <1>. SUFFICES Carries(r, id, kind, line, n, owed)
    OBVIOUS
  <1>. HIDE DEF r
  <1>. QED
    BY <1>1, <1>2, <1>3, <1>4, <1>5 DEF Carries

\* A call that has sent nothing.
LEMMA NothingCarries ==
  ASSUME CountFacts, NEW s, NEW id, Places(s, id) = {}, NEW kind, NEW line
  PROVE  Carries(s, id, kind, line, 0, FALSE)
  <1>1. Asked(s, id) = {}
    BY DEF Asked
  <1>2. Cardinality(Asked(s, id)) = 0
    BY <1>1 DEF CountFacts
  <1>. QED
    BY <1>1, <1>2 DEF Carries

\* What the next character of a call does to its places.
LEMMA OwnPlaces ==
  ASSUME NEW s \in Seq(Chars), NEW c \in Chars
  PROVE  LET r == Append(s, c)
             id == c.id
             n == Len(s) + 1
         IN  /\ Places(r, id) = Places(s, id) \cup {n} /\ n \notin Places(s, id)
             /\ r[n] = c /\ \A i \in Places(s, id) : r[i] = s[i] /\ i < n
             /\ Last(r, id, n)
             /\ \A i \in Places(s, id) : Last(s, id, i) => Follows(r, id, i, n)
             /\ \A i, k \in Places(s, id) : Follows(s, id, i, k) => Follows(r, id, i, k)
  <1>. DEFINE r == Append(s, c)  id == c.id  n == Len(s) + 1
  <1>1. /\ Places(r, id) = Places(s, id) \cup {n} /\ n \notin Places(s, id)
        /\ r[n] = c /\ \A i \in Places(s, id) : r[i] = s[i] /\ i < n /\ i \in Nat
        /\ n \in Nat
    BY Appended DEF Places
  <1>. HIDE DEF r, n
  <1>2. Last(r, id, n)
    BY <1>1 DEF Last
  <1>3. \A i \in Places(s, id) : Last(s, id, i) => Follows(r, id, i, n)
    BY <1>1 DEF Last, Follows
  <1>4. \A i, k \in Places(s, id) : Follows(s, id, i, k) => Follows(r, id, i, k)
    BY <1>1 DEF Follows
  <1>. QED
    BY Zenon, <1>1, <1>2, <1>3, <1>4 DEF r, n

\* The return before a newline of con_io.
LEMMA ReturnCarries ==
  ASSUME NEW s \in Seq(Chars), NEW id \in Nat, NEW line, NEW n,
         Carries(s, id, "write", line, n, FALSE)
  PROVE  Carries(Append(s, Char(id, "cr")), id, "write", line, n, TRUE)
  <1>. DEFINE c == Char(id, "cr")  r == Append(s, c)  m == Len(s) + 1
  <1>1. c \in Chars /\ c.id = id /\ c.ch = "cr"
    BY DEF Chars, Char
  <1>. HIDE DEF c
  <1>2. /\ Places(r, id) = Places(s, id) \cup {m} /\ m \notin Places(s, id)
        /\ r[m] = c /\ \A i \in Places(s, id) : r[i] = s[i] /\ i < m
        /\ Last(r, id, m)
        /\ \A i, k \in Places(s, id) : Follows(s, id, i, k) => Follows(r, id, i, k)
    BY Zenon, <1>1, OwnPlaces
  <1>. HIDE DEF r, m
  <1>3. Asked(r, id) = Asked(s, id)
    BY <1>1, <1>2 DEF Asked
  <1>4. \A i : Rank(r, id, i) = Rank(s, id, i)
    BY <1>3 DEF Rank
  <1>5. \A i \in Asked(s, id) : i \in Places(s, id)
    BY Zenon DEF Asked
  <1>6. Carries(r, id, "write", line, n, TRUE)
    BY <1>1, <1>2, <1>3, <1>4, <1>5 DEF Carries
  <1>. QED
    BY Zenon, <1>6 DEF r, c

\* The next character asked for.
LEMMA CharCarries ==
  ASSUME NEW s \in Seq(Chars), NEW id \in Nat, NEW ch \in {"x", "nl"}, NEW kind,
         NEW line, NEW n \in Nat, ch = line[n + 1], CountFacts,
         Carries(s, id, kind, line, n, kind = "write" /\ ch = "nl")
  PROVE  Carries(Append(s, Char(id, ch)), id, kind, line, n + 1, FALSE)
  <1>. DEFINE c == Char(id, ch)  r == Append(s, c)  m == Len(s) + 1
  <1>1. c \in Chars /\ c.id = id /\ c.ch = ch /\ c.ch # "cr"
    BY DEF Chars, Char
  <1>. HIDE DEF c
  <1>2. /\ Places(r, id) = Places(s, id) \cup {m} /\ m \notin Places(s, id)
        /\ r[m] = c /\ \A i \in Places(s, id) : r[i] = s[i] /\ i < m
        /\ Last(r, id, m)
        /\ \A i \in Places(s, id) : Last(s, id, i) => Follows(r, id, i, m)
        /\ \A i, k \in Places(s, id) : Follows(s, id, i, k) => Follows(r, id, i, k)
    BY Zenon, <1>1, OwnPlaces
  <1>3. /\ Len(s) \in Nat /\ m \in Nat
        /\ Asked(s, id) \in SUBSET (1 .. Len(s)) /\ Asked(s, id) \subseteq Nat
    BY DEF Asked, Places
  <1>12. Cardinality(Asked(s, id) \cup {m}) = n + 1
    BY Zenon, <1>3 DEF CountFacts, Carries
  <1>0. Asked(s, id) \subseteq Places(s, id)
    BY DEF Asked
  <1>. HIDE DEF r, m
  <1>4. Asked(r, id) = Asked(s, id) \cup {m} /\ m \notin Asked(s, id)
    BY <1>1, <1>2 DEF Asked
  <1>5. Cardinality(Asked(r, id)) = n + 1
    BY <1>4, <1>12
  <1>6. ASSUME NEW i \in Asked(s, id) PROVE Rank(r, id, i) = Rank(s, id, i)
    <2>1. {j \in Asked(r, id) : j <= i} = {j \in Asked(s, id) : j <= i}
      BY <1>2, <1>3, <1>0, <1>4
    <2>. QED
      BY Zenon, <2>1 DEF Rank
  <1>7. Rank(r, id, m) = n + 1
    <2>1. {j \in Asked(r, id) : j <= m} = Asked(r, id)
      BY <1>2, <1>3, <1>0, <1>4
    <2>. QED
      BY Zenon, <2>1, <1>5 DEF Rank
  <1>8. \A i \in Asked(r, id) : r[i].ch = line[Rank(r, id, i)]
    BY <1>1, <1>2, <1>0, <1>4, <1>6, <1>7 DEF Carries
  <1>9. \A i \in Places(r, id) : r[i].ch = "cr" =>
          /\ kind = "write"
          /\ \E k \in Places(r, id) : Follows(r, id, i, k) /\ r[k].ch = "nl"
    BY <1>1, <1>2 DEF Carries
  <1>10. \A k \in Places(r, id) : kind = "write" /\ r[k].ch = "nl" =>
          \E i \in Places(r, id) : Follows(r, id, i, k) /\ r[i].ch = "cr"
    BY <1>1, <1>2 DEF Carries
  <1>11. Carries(r, id, kind, line, n + 1, FALSE)
    BY <1>5, <1>8, <1>9, <1>10 DEF Carries
  <1>. QED
    BY Zenon, <1>11 DEF r, c

------------------------------------------------------------------------------
(***************************************************************************)
(* Calls.  A job j of a thread at p is right about what s holds of it: the *)
(* characters left are the rest of the line, those to putch are the last   *)
(* one taken from it, cooked, and the others have been sent.               *)
(***************************************************************************)

Job == [id : Nat, kind : Locks, line : Seq({"x", "nl"}), left : Seq({"x", "nl"}),
        putch : Seq({"x", "cr", "nl"})]
Taken(j) == j.line[Len(j.line) - Len(j.left)]
Owes(j) == j.kind = "write" /\ j.putch = <<"nl">>
SentOf(j) == Len(j.line) - Len(j.left) - (IF j.putch = <<>> THEN 0 ELSE 1)

\* What is left is the rest of the line.
Rest(left, line) ==
    /\ Len(left) <= Len(line)
    /\ \A i \in 1 .. Len(left) : left[i] = line[Len(line) - Len(left) + i]

JobSound(j, p, s) ==
    /\ j.kind # "read" => Rest(j.left, j.line)
    /\ p \in {"putch", "send"} <=> j.putch # <<>>
    /\ j.putch # <<>> =>
         /\ j.kind # "read" /\ Len(j.left) < Len(j.line)
         /\ j.putch \in {<<Taken(j)>>, Cooked(j.kind, Taken(j))}
    /\ p = "lock" => j.left = j.line /\ Places(s, j.id) = {}
    /\ p \in {"idle", "unlock"} /\ j.kind # "read" => j.left = <<>>
    /\ j.kind # "read" /\ j.line # <<>> =>
         Carries(s, j.id, j.kind, j.line, SentOf(j), Owes(j))

\* A job stays right when others send.
LEMMA OtherSound ==
  ASSUME NEW j \in Job, NEW p, NEW s \in Seq(Chars), NEW c \in Chars, c.id # j.id,
         JobSound(j, p, s)
  PROVE  JobSound(j, p, Append(s, c))
  <1>1. Places(s, j.id) = {} => Places(Append(s, c), j.id) = {}
    BY Appended DEF Places
  <1>2. j.kind # "read" /\ j.line # <<>> =>
          Carries(Append(s, c), j.id, j.kind, j.line, SentOf(j), Owes(j))
    <2>1. Owes(j) \in BOOLEAN
      BY DEF Owes
    <2>. QED
      BY <2>1, OtherCarries DEF JobSound
  <1>. QED
    BY <1>1, <1>2 DEF JobSound

\* A call starts.
LEMMA CallSound ==
  ASSUME NEW id \in Nat, NEW kind \in Locks, NEW line \in Seq({"x", "nl"}),
         NEW s, Places(s, id) = {}, CountFacts
  PROVE  LET j == [id |-> id, kind |-> kind, line |-> line, left |-> line, putch |-> <<>>]
         IN  j \in Job /\ JobSound(j, "lock", s)
  <1>. DEFINE j == [id |-> id, kind |-> kind, line |-> line, left |-> line, putch |-> <<>>]
  <1>1. j \in Job /\ j.id = id /\ j.line = line /\ j.left = line /\ j.putch = <<>>
    BY DEF Job
  <1>2. SentOf(j) = 0 /\ Owes(j) = FALSE
    BY <1>1 DEF SentOf, Owes
  <1>3. Carries(s, id, j.kind, line, 0, FALSE)
    BY Zenon, NothingCarries
  <1>4. Rest(line, line)
    BY DEF Rest
  <1>. HIDE DEF j
  <1>5. JobSound(j, "lock", s)
    BY Zenon, <1>1, <1>2, <1>3, <1>4 DEF JobSound
  <1>. QED
    BY <1>1, <1>5 DEF j

\* Taking the first of the rest of a line.
LEMMA TailRest ==
  ASSUME NEW left \in Seq({"x", "nl"}), NEW line \in Seq({"x", "nl"}), left # <<>>,
         Rest(left, line)
  PROVE  /\ Tail(left) \in Seq({"x", "nl"}) /\ Head(left) \in {"x", "nl"}
         /\ Len(Tail(left)) \in Nat /\ Len(Tail(left)) + 1 = Len(left)
         /\ Rest(Tail(left), line) /\ Len(Tail(left)) < Len(line)
         /\ line[Len(line) - Len(Tail(left))] = Head(left)
  <1>1. /\ Tail(left) \in Seq({"x", "nl"}) /\ Head(left) \in {"x", "nl"}
        /\ Len(Tail(left)) = Len(left) - 1 /\ Len(left) \in Nat /\ Len(left) > 0
        /\ Head(left) = left[1] /\ Len(line) \in Nat
        /\ \A i \in 1 .. Len(left) - 1 : Tail(left)[i] = left[i + 1]
    OBVIOUS
  <1>2. Len(line) - Len(Tail(left)) = Len(line) - Len(left) + 1
    BY <1>1
  <1>3. left[1] = line[Len(line) - Len(left) + 1]
    BY <1>1 DEF Rest
  <1>4. ASSUME NEW i \in 1 .. Len(Tail(left))
        PROVE  Tail(left)[i] = line[Len(line) - Len(Tail(left)) + i]
    <2>1. i + 1 \in 1 .. Len(left) /\ Tail(left)[i] = left[i + 1]
      BY <1>1
    <2>2. left[i + 1] = line[Len(line) - Len(left) + (i + 1)]
      BY <2>1 DEF Rest
    <2>3. Len(line) - Len(left) + (i + 1) = Len(line) - Len(Tail(left)) + i
      BY <1>1
    <2>. QED
      BY Zenon, <2>1, <2>2, <2>3
  <1>. QED
    BY <1>1, <1>2, <1>3, <1>4 DEF Rest

\* The loop takes a character off the line.
LEMMA TakeSound ==
  ASSUME NEW j \in Job, NEW s, JobSound(j, "loop", s), j.left # <<>>, j.kind # "read"
  PROVE  LET k == [j EXCEPT !.left = Tail(j.left), !.putch = Cooked(j.kind, Head(j.left))]
         IN  k \in Job /\ JobSound(k, "putch", s)
  <1>. DEFINE rest == Tail(j.left)
              ch == Head(j.left)
              k == [j EXCEPT !.left = rest, !.putch = Cooked(j.kind, ch)]
  <1>1. /\ j.line \in Seq({"x", "nl"}) /\ j.left \in Seq({"x", "nl"})
        /\ Len(j.left) \in Nat /\ Len(j.line) \in Nat
    BY DEF Job
  <1>2. Rest(j.left, j.line) /\ j.putch = <<>>
    BY Zenon DEF JobSound
  <1>3. /\ rest \in Seq({"x", "nl"}) /\ ch \in {"x", "nl"}
        /\ Len(rest) \in Nat /\ Len(rest) + 1 = Len(j.left)
        /\ Rest(rest, j.line) /\ Len(rest) < Len(j.line)
        /\ j.line[Len(j.line) - Len(rest)] = ch
    BY Zenon, <1>1, <1>2, TailRest
  <1>. HIDE DEF rest, ch
  <1>4. Cooked(j.kind, ch) \in Seq({"x", "cr", "nl"}) \ {<<>>, <<"nl">>} \/ j.kind # "write"
    BY <1>3 DEF Cooked
  <1>5. Cooked(j.kind, ch) \in Seq({"x", "cr", "nl"}) \ {<<>>}
    BY <1>3 DEF Cooked
  <1>6. /\ k \in Job /\ k.id = j.id /\ k.kind = j.kind /\ k.line = j.line
        /\ k.left = rest /\ k.putch = Cooked(j.kind, ch)
    BY Zenon, <1>3, <1>5 DEF Job
  <1>. HIDE DEF k
  <1>7. Taken(k) = ch
    BY <1>3, <1>6 DEF Taken
  <1>8. SentOf(k) = SentOf(j)
    <2>1. SentOf(k) = Len(j.line) - Len(rest) - 1
      BY Zenon, <1>5, <1>6 DEF SentOf
    <2>2. SentOf(j) = Len(j.line) - Len(j.left) - 0
      BY <1>2 DEF SentOf
    <2>3. \A a, b, c \in Nat : b + 1 = c => a - b - 1 = a - c - 0
      OBVIOUS
    <2>. QED
      BY Zenon, <1>1, <1>3, <2>1, <2>2, <2>3
  <1>9. Owes(k) = FALSE /\ Owes(j) = FALSE
    BY <1>2, <1>4, <1>6 DEF Owes
  <1>10. k.line # <<>> => Carries(s, k.id, k.kind, k.line, SentOf(k), Owes(k))
    BY Zenon, <1>6, <1>8, <1>9 DEF JobSound
  <1>11. JobSound(k, "putch", s)
    BY Zenon, <1>3, <1>5, <1>6, <1>7, <1>10 DEF JobSound
  <1>. QED
    BY <1>6, <1>11 DEF k, rest, ch

\* A character of the call is sent.
LEMMA SendSound ==
  ASSUME CountFacts, NEW j \in Job, NEW s \in Seq(Chars), JobSound(j, "send", s)
  PROVE  LET k == [j EXCEPT !.putch = Tail(j.putch)]
             p == IF Len(j.putch) > 1 THEN "putch" ELSE "loop"
         IN  /\ k \in Job /\ Char(j.id, Head(j.putch)) \in Chars
             /\ JobSound(k, p, Append(s, Char(j.id, Head(j.putch))))
  <1>. DEFINE k == [j EXCEPT !.putch = Tail(j.putch)]
              ch == Head(j.putch)
              r == Append(s, Char(j.id, ch))
              p == IF Len(j.putch) > 1 THEN "putch" ELSE "loop"
  <1>1. /\ j.line \in Seq({"x", "nl"}) /\ j.left \in Seq({"x", "nl"}) /\ j.id \in Nat
        /\ j.putch \in Seq({"x", "cr", "nl"})
        /\ Len(j.left) \in Nat /\ Len(j.line) \in Nat
    BY DEF Job
  <1>2. /\ j.putch # <<>> /\ j.kind # "read" /\ Len(j.left) < Len(j.line)
        /\ j.putch \in {<<Taken(j)>>, Cooked(j.kind, Taken(j))}
        /\ Rest(j.left, j.line)
    BY Zenon DEF JobSound
  <1>3. j.line # <<>> /\ Carries(s, j.id, j.kind, j.line, SentOf(j), Owes(j))
    BY <1>1, <1>2 DEF JobSound
  <1>0. Tail(j.putch) \in Seq({"x", "cr", "nl"}) /\ ch \in {"x", "cr", "nl"}
    BY <1>1, <1>2
  <1>4. /\ k \in Job /\ k.id = j.id /\ k.kind = j.kind /\ k.line = j.line
        /\ k.left = j.left /\ k.putch = Tail(j.putch) /\ ch \in {"x", "cr", "nl"}
    BY Zenon, <1>0 DEF Job
  <1>5. Char(j.id, ch) \in Chars
    BY Zenon, <1>1, <1>4 DEF Char, Chars
  <1>6. Taken(j) \in {"x", "nl"} /\ Taken(k) = Taken(j)
    BY <1>1, <1>2, <1>4 DEF Taken
  <1>. HIDE DEF k
  <1>7. CASE j.putch = <<Taken(j)>>
    <2>1. ch = Taken(j) /\ k.putch = <<>> /\ p = "loop"
      BY <1>4, <1>7
    <2>2. SentOf(j) \in Nat /\ SentOf(k) = SentOf(j) + 1 /\ Taken(j) = j.line[SentOf(j) + 1]
      BY <1>1, <1>2, <1>4, <1>7, <2>1 DEF SentOf, Taken
    <2>3. Owes(j) = (j.kind = "write" /\ ch = "nl") /\ Owes(k) = FALSE
      BY <1>7, <2>1 DEF Owes
    <2>4. Carries(r, j.id, j.kind, j.line, SentOf(j) + 1, FALSE)
      BY Zenon, <1>1, <1>3, <1>6, <2>1, <2>2, <2>3, CharCarries
    <2>. HIDE DEF r, p, ch
    <2>5. JobSound(k, "loop", r)
      BY Zenon, <1>2, <1>4, <2>1, <2>2, <2>3, <2>4 DEF JobSound
    <2>. QED
      BY <1>4, <1>5, <2>1, <2>5 DEF k, r, p, ch
  <1>8. CASE j.putch # <<Taken(j)>>
    <2>1. j.kind = "write" /\ Taken(j) = "nl" /\ j.putch = <<"cr", "nl">>
      BY Zenon, <1>2, <1>8 DEF Cooked
    <2>2. ch = "cr" /\ k.putch = <<"nl">> /\ p = "putch"
      BY <1>4, <2>1
    <2>3. SentOf(k) = SentOf(j) /\ Owes(j) = FALSE /\ Owes(k) = TRUE
      BY <1>4, <2>1, <2>2 DEF SentOf, Owes
    <2>4. Carries(r, j.id, "write", j.line, SentOf(j), TRUE)
      BY Zenon, <1>1, <1>3, <2>1, <2>2, <2>3, ReturnCarries
    <2>. HIDE DEF r, p, ch
    <2>5. k.putch # <<>> /\ k.putch = <<Taken(k)>>
      BY <1>6, <2>1, <2>2
    <2>6. JobSound(k, "putch", r)
      BY Zenon, <1>2, <1>4, <2>1, <2>3, <2>4, <2>5 DEF JobSound
    <2>. QED
      BY Zenon, <1>4, <1>5, <2>2, <2>6 DEF k, r, p, ch
  <1>. QED
    BY <1>7, <1>8

\* Only the place of the thread in its call changes.
LEMMA MovedSound ==
  ASSUME NEW j, NEW p, NEW q, NEW s, JobSound(j, p, s),
         \/ <<p, q>> \in {<<"lock", "loop">>, <<"unlock", "idle">>, <<"putch", "send">>}
         \/ <<p, q>> \in {<<"loop", "getch">>, <<"getch", "got">>} /\ j.kind = "read"
         \/ <<p, q>> = <<"loop", "unlock">> /\ j.left = <<>>
  PROVE  JobSound(j, q, s)
  BY DEF JobSound

\* A fault in the caller's memory leaves nothing to say of a write.
LEMMA FaultSound ==
  ASSUME NEW j \in Job, NEW s, JobSound(j, "loop", s), j.kind = "write"
  PROVE  LET k == [j EXCEPT !.left = <<>>, !.line = <<>>]
         IN  k \in Job /\ JobSound(k, "unlock", s)
  <1>. DEFINE k == [j EXCEPT !.left = <<>>, !.line = <<>>]
  <1>0. <<>> \in Seq({"x", "nl"})
    OBVIOUS
  <1>1. /\ k \in Job /\ k.id = j.id /\ k.kind = j.kind /\ k.line = <<>>
        /\ k.left = <<>> /\ k.putch = j.putch
    BY Zenon, <1>0 DEF Job
  <1>2. j.putch = <<>>
    BY DEF JobSound
  <1>3. Rest(<<>>, <<>>)
    BY DEF Rest
  <1>. HIDE DEF k
  <1>4. JobSound(k, "unlock", s)
    BY Zenon, <1>1, <1>2, <1>3 DEF JobSound
  <1>. QED
    BY <1>1, <1>4 DEF k

\* A key has been read.
LEMMA ReadSound ==
  ASSUME NEW j \in Job, NEW s, JobSound(j, "got", s), j.kind = "read",
         NEW left \in Seq({"x", "nl"})
  PROVE  LET k == [j EXCEPT !.left = left]
         IN  k \in Job /\ JobSound(k, "loop", s)
  <1>. DEFINE k == [j EXCEPT !.left = left]
  <1>1. k \in Job /\ k.kind = "read" /\ k.putch = j.putch
    BY Zenon DEF Job
  <1>2. j.putch = <<>>
    BY DEF JobSound
  <1>. HIDE DEF k
  <1>3. JobSound(k, "loop", s)
    BY Zenon, <1>1, <1>2 DEF JobSound
  <1>. QED
    BY <1>1, <1>3 DEF k

------------------------------------------------------------------------------
(***************************************************************************)
(* The jobs of all threads are right, their numbers differ, and whoever is *)
(* inside a call holds the lock of its kind.                               *)
(***************************************************************************)

InCall == {"loop", "putch", "send", "getch", "got", "unlock"}

CInv ==
    /\ job \in [Threads -> Job] /\ holder \in [Locks -> Threads \cup {NULL}]
    /\ tx \in Chars \cup {NULL} /\ out \in Seq(Chars) /\ calls \in Nat
    /\ \A t \in Threads :
         /\ JobSound(job[t], pc[t], Flushed)
         /\ job[t].id <= calls
         /\ pc[t] # "idle" \/ job[t].kind # "read" => job[t].id > 0
         /\ pc[t] \in InCall => holder[job[t].kind] = t
         /\ pc[t] \in {"getch", "got"} => job[t].kind = "read" /\ job[t].left # <<>>
    /\ \A t, u \in Threads : job[t].id = job[u].id /\ job[t].id > 0 => t = u
    /\ \A i \in DOMAIN Flushed : Flushed[i].id <= calls

\* What the port has and will have sent is a sequence of characters.
LEMMA FlushedType ==
  ASSUME CInv
  PROVE  Flushed \in Seq(Chars) /\ \A i \in DOMAIN Flushed : Flushed[i].id \in Nat
  <1>1. Flushed \in Seq(Chars)
    BY Appended DEF CInv, Flushed
  <1>2. \A i \in DOMAIN Flushed : Flushed[i] \in Chars
    BY <1>1
  <1>. QED
    BY Zenon, <1>1, <1>2 DEF Chars

\* Before the first call nothing has been sent.
LEMMA InitCInv == Init => CInv
  <1>. SUFFICES ASSUME Init PROVE CInv
    BY Zenon
  <1>1. NoJob \in Job /\ NoJob.kind = "read" /\ NoJob.id = 0 /\ NoJob.putch = <<>>
    BY DEF NoJob, Job, Locks
  <1>2. Flushed = <<>> /\ DOMAIN Flushed = {}
    BY DEF Init, config_lser, Flushed
  <1>3. JobSound(NoJob, "idle", <<>>)
    BY Zenon, <1>1 DEF JobSound
  <1>. QED
    BY <1>1, <1>2, <1>3, ConsoleAssumption
    DEF Init, config_con, config_lser, CInv, InCall

\* A thread inside a call goes on to q with its job j; what is sent stays.
LEMMA JobStep ==
  ASSUME IInv, CInv, NEW t \in Threads, NEW j \in Job, NEW q \in PcValues \ {"lock"},
         job' = [job EXCEPT ![t] = j], pc' = [pc EXCEPT ![t] = q],
         j.id = job[t].id, j.kind = job[t].kind, pc[t] # "idle",
         UNCHANGED <<calls, port>>, JobSound(j, q, Flushed),
         holder' \in [Locks -> Threads \cup {NULL}],
         \A u \in Threads \ {t} :
            pc[u] \in InCall => holder'[job[u].kind] = holder[job[u].kind],
         q \in InCall => holder'[j.kind] = t,
         q \in {"getch", "got"} => j.kind = "read" /\ j.left # <<>>
  PROVE  CInv'
  <1>1. Flushed' = Flushed /\ UNCHANGED <<tx, out>>
    BY Zenon DEF port, Flushed
  <1>2. \A u \in Threads : /\ job'[u] = (IF u = t THEN j ELSE job[u])
                           /\ pc'[u] = (IF u = t THEN q ELSE pc[u])
    BY Zenon DEF CInv, IInv
  <1>3. job' \in [Threads -> Job]
    BY Zenon DEF CInv
  <1>4. \A u \in Threads : job'[u].id = job[u].id /\ job'[u].kind = job[u].kind
    BY Zenon, <1>2
  <1>5. ASSUME NEW u \in Threads
        PROVE  /\ JobSound(job'[u], pc'[u], Flushed')
               /\ job'[u].id <= calls'
               /\ pc'[u] # "idle" \/ job'[u].kind # "read" => job'[u].id > 0
               /\ pc'[u] \in InCall => holder'[job'[u].kind] = u
               /\ pc'[u] \in {"getch", "got"} => job'[u].kind = "read" /\ job'[u].left # <<>>
    <2>1. CASE u = t
      BY <1>1, <1>2, <1>4, <2>1 DEF CInv
    <2>2. CASE u # t
      BY <1>1, <1>2, <1>4, <2>2 DEF CInv
    <2>. QED
      BY Zenon, <2>1, <2>2
  <1>. QED
    BY <1>1, <1>3, <1>4, <1>5 DEF CInv

\* The steps of calls that send nothing.
LEMMA QuietCInv ==
  ASSUME IInv, CInv, NEW t \in Threads,
         Acquire(t) \/ Release(t) \/ Loop(t) \/ putch_intr(t) \/ getch_intr(t)
           \/ getch_return(t)
  PROVE  CInv'
  <1>0. /\ job[t] \in Job /\ job = [job EXCEPT ![t] = job[t]] /\ job[t].kind \in Locks
        /\ JobSound(job[t], pc[t], Flushed)
    BY DEF CInv, Job
  <1>1. CASE Acquire(t)
    <2>1. JobSound(job[t], "loop", Flushed)
      BY Zenon, <1>0, <1>1, MovedSound DEF Acquire
    <2>2. /\ holder' \in [Locks -> Threads \cup {NULL}] /\ holder'[job[t].kind] = t
          /\ \A u \in Threads \ {t} :
               pc[u] \in InCall => holder'[job[u].kind] = holder[job[u].kind]
      BY <1>0, <1>1, ConsoleAssumption DEF Acquire, CInv, Job
    <2>. QED
      BY Zenon, <1>0, <1>1, <2>1, <2>2, JobStep DEF Acquire, count, PcValues
  <1>2. CASE Release(t)
    <2>1. JobSound(job[t], "idle", Flushed)
      BY Zenon, <1>0, <1>2, MovedSound DEF Release
    <2>2. holder[job[t].kind] = t
      BY Zenon, <1>2 DEF Release, CInv, InCall
    <2>3. /\ holder' \in [Locks -> Threads \cup {NULL}]
          /\ \A u \in Threads \ {t} :
               pc[u] \in InCall => holder'[job[u].kind] = holder[job[u].kind]
      BY Zenon, <1>0, <1>2, <2>2 DEF Release, CInv, Job
    <2>. QED
      BY Zenon, <1>0, <1>2, <2>1, <2>3, JobStep DEF Release, count, PcValues, InCall
  <1>3. CASE Loop(t) \/ putch_intr(t) \/ getch_intr(t) \/ getch_return(t)
    <2>1. /\ pc[t] \in InCall /\ UNCHANGED <<holder, calls, port>>
      BY Zenon, <1>3 DEF Loop, putch_intr, getch_intr, getch_return, InCall, count
    <2>2. holder[job[t].kind] = t /\ holder' \in [Locks -> Threads \cup {NULL}]
      BY <2>1 DEF CInv
    <2>3. SUFFICES \E j \in Job, q \in InCall :
            /\ job' = [job EXCEPT ![t] = j] /\ pc' = [pc EXCEPT ![t] = q]
            /\ j.id = job[t].id /\ j.kind = job[t].kind
            /\ JobSound(j, q, Flushed)
            /\ q \in {"getch", "got"} => j.kind = "read" /\ j.left # <<>>
      BY Zenon, <2>1, <2>2, JobStep DEF InCall, PcValues
    <2>4. CASE Loop(t)
      <3>1. pc[t] = "loop" /\ JobSound(job[t], "loop", Flushed)
        BY <1>0, <2>4 DEF Loop
      <3>2. CASE job[t].left = <<>> /\ pc' = [pc EXCEPT ![t] = "unlock"] /\ UNCHANGED job
        BY <1>0, <3>1, <3>2, MovedSound DEF InCall
      <3>3. CASE job[t].left # <<>> /\ job[t].kind = "read" /\ pc' = [pc EXCEPT ![t] = "getch"] /\ UNCHANGED job
        BY Zenon, <1>0, <3>1, <3>3, MovedSound DEF InCall
      <3>4. CASE /\ job[t].left # <<>> /\ job[t].kind # "read"
                 /\ job' = [job EXCEPT ![t].left = Tail(job[t].left),
                                   ![t].putch = Cooked(job[t].kind, Head(job[t].left))]
                 /\ pc' = [pc EXCEPT ![t] = "putch"]
        <4>. DEFINE j == [job[t] EXCEPT !.left = Tail(job[t].left),
                                        !.putch = Cooked(job[t].kind, Head(job[t].left))]
        <4>1. j \in Job /\ JobSound(j, "putch", Flushed)
          BY Zenon, <1>0, <3>1, <3>4, TakeSound
        <4>2. j.id = job[t].id /\ j.kind = job[t].kind
          BY <1>0 DEF Job
        <4>3. job' = [job EXCEPT ![t] = j]
          BY Zenon, <1>0, <3>4 DEF CInv
        <4>. QED
          BY Zenon, <3>4, <4>1, <4>2, <4>3 DEF InCall
      <3>5. CASE /\ job[t].kind = "write"
                 /\ job' = [job EXCEPT ![t].left = <<>>, ![t].line = <<>>]
                 /\ pc' = [pc EXCEPT ![t] = "unlock"]
        <4>. DEFINE j == [job[t] EXCEPT !.left = <<>>, !.line = <<>>]
        <4>1. j \in Job /\ JobSound(j, "unlock", Flushed)
          BY Zenon, <1>0, <3>1, <3>5, FaultSound
        <4>2. j.id = job[t].id /\ j.kind = job[t].kind
          BY <1>0 DEF Job
        <4>3. job' = [job EXCEPT ![t] = j]
          BY Zenon, <1>0, <3>5 DEF CInv
        <4>. QED
          BY Zenon, <3>5, <4>1, <4>2, <4>3 DEF InCall
      <3>. QED
        BY Zenon, <2>4, <3>2, <3>3, <3>4, <3>5 DEF Loop
    <2>5. CASE putch_intr(t)
      BY Zenon, <1>0, <2>5, MovedSound DEF putch_intr, InCall
    <2>6. CASE getch_intr(t)
      <3>1. job[t].kind = "read" /\ job[t].left # <<>>
        BY <2>6 DEF getch_intr, CInv
      <3>. QED
        BY Zenon, <1>0, <2>6, <3>1, MovedSound DEF getch_intr, InCall
    <2>7. CASE getch_return(t)
      <3>1. pc[t] = "got" /\ job[t].kind = "read" /\ pc' = [pc EXCEPT ![t] = "loop"]
        BY <2>7 DEF getch_return, CInv
      <3>2. PICK left \in Seq({"x", "nl"}) : job' = [job EXCEPT ![t] = [job[t] EXCEPT !.left = left]]
        <4>1. PICK left \in {<<>>, Tail(job[t].left)} : job' = [job EXCEPT ![t].left = left]
          BY Zenon, <2>7 DEF getch_return
        <4>2. job[t].left # <<>> /\ job[t].left \in Seq({"x", "nl"})
          BY Zenon, <1>0, <2>7 DEF getch_return, CInv, Job
        <4>3. <<>> \in Seq({"x", "nl"}) /\ Tail(job[t].left) \in Seq({"x", "nl"})
          BY <4>2
        <4>4. job' = [job EXCEPT ![t] = [job[t] EXCEPT !.left = left]]
          BY <1>0, <4>1 DEF CInv
        <4>. QED
          BY Zenon, <4>1, <4>3, <4>4
      <3>. DEFINE j == [job[t] EXCEPT !.left = left]
      <3>3. j \in Job /\ JobSound(j, "loop", Flushed)
        BY Zenon, <1>0, <3>1, ReadSound
      <3>4. j.id = job[t].id /\ j.kind = job[t].kind
        BY Zenon, <1>0 DEF Job
      <3>. QED
        BY Zenon, <3>1, <3>2, <3>3, <3>4 DEF InCall
    <2>. QED
      BY Zenon, <1>3, <2>4, <2>5, <2>6, <2>7
  <1>. QED
    BY Zenon, <1>1, <1>2, <1>3

\* The start of a call: nothing has its number yet.
LEMMA CallCInv ==
  ASSUME CountFacts, IInv, CInv, NEW t \in Threads, NEW kind \in Locks, NEW line \in Lines,
         Call(t, kind, line)
  PROVE  CInv'
  <1>. DEFINE j == [id |-> calls + 1, kind |-> kind, line |-> line,
                    left |-> line, putch |-> <<>>]
  <1>1. /\ calls \in Nat /\ calls' = calls + 1 /\ job' = [job EXCEPT ![t] = j]
        /\ pc' = [pc EXCEPT ![t] = "lock"] /\ UNCHANGED <<holder, tx, out>>
        /\ line \in Seq({"x", "nl"})
    BY Zenon, ConsoleAssumption DEF Call, port, CInv
  <1>2. Flushed' = Flushed
    BY Zenon, <1>1 DEF Flushed
  <1>3. Places(Flushed, calls + 1) = {}
    <2>1. \A i \in DOMAIN Flushed : Flushed[i].id \in Nat /\ Flushed[i].id <= calls
      BY Zenon, FlushedType DEF CInv
    <2>. QED
      BY <1>1, <2>1 DEF Places
  <1>4. j \in Job /\ JobSound(j, "lock", Flushed) /\ j.id = calls + 1 /\ j.kind = kind
    <2>1. calls + 1 \in Nat
      BY <1>1
    <2>2. j \in Job /\ JobSound(j, "lock", Flushed)
      BY Zenon, <1>1, <1>3, <2>1, CallSound
    <2>. QED
      BY Zenon, <2>2
  <1>. HIDE DEF j
  <1>5. \A u \in Threads : /\ job'[u] = (IF u = t THEN j ELSE job[u])
                           /\ pc'[u] = (IF u = t THEN "lock" ELSE pc[u])
    BY Zenon, <1>1 DEF CInv, IInv
  <1>6. job' \in [Threads -> Job]
    BY Zenon, <1>1, <1>4 DEF CInv
  <1>7. \A u \in Threads : job[u].id \in Nat /\ job[u].id <= calls
    BY Zenon DEF CInv, Job
  <1>8. ASSUME NEW u \in Threads
        PROVE  /\ JobSound(job'[u], pc'[u], Flushed')
               /\ job'[u].id <= calls'
               /\ pc'[u] # "idle" \/ job'[u].kind # "read" => job'[u].id > 0
               /\ pc'[u] \in InCall => holder'[job'[u].kind] = u
               /\ pc'[u] \in {"getch", "got"} => job'[u].kind = "read" /\ job'[u].left # <<>>
    <2>1. CASE u = t
      BY <1>1, <1>2, <1>4, <1>5, <2>1 DEF InCall
    <2>2. CASE u # t
      BY <1>1, <1>2, <1>5, <1>7, <2>2 DEF CInv
    <2>. QED
      BY Zenon, <2>1, <2>2
  <1>9. \A u, v \in Threads : job'[u].id = job'[v].id /\ job'[u].id > 0 => u = v
    BY <1>1, <1>4, <1>5, <1>7 DEF CInv
  <1>10. \A i \in DOMAIN Flushed' : Flushed'[i].id <= calls'
    <2>1. \A i \in DOMAIN Flushed : Flushed[i].id \in Nat /\ Flushed[i].id <= calls
      BY FlushedType DEF CInv
    <2>. QED
      BY <1>1, <1>2, <2>1
  <1>11. /\ holder' \in [Locks -> Threads \cup {NULL}]
         /\ tx' \in Chars \cup {NULL} /\ out' \in Seq(Chars) /\ calls' \in Nat
    BY <1>1 DEF CInv
  <1>. QED
    BY Zenon, <1>6, <1>8, <1>9, <1>10, <1>11 DEF CInv

\* A thread sends a character of its call.
LEMMA WriteCInv ==
  ASSUME CountFacts, IInv, CInv, NEW t \in Threads, lser_write(t)
  PROVE  /\ CInv' /\ Flushed' = Append(Flushed, tx')
         /\ tx' \in Chars /\ tx'.id = job[t].id
  <1>. DEFINE j == [job[t] EXCEPT !.putch = Tail(job[t].putch)]
              c == Char(job[t].id, Head(job[t].putch))
              q == IF Len(job[t].putch) > 1 THEN "putch" ELSE "loop"
  <1>1. /\ pc[t] = "send" /\ tx' = c /\ UNCHANGED <<holder, out, calls>>
        /\ pc' = [pc EXCEPT ![t] = q]
    BY Zenon DEF lser_write, count
  <1>2. job[t] \in Job /\ JobSound(job[t], "send", Flushed) /\ Flushed \in Seq(Chars)
    BY <1>1, FlushedType DEF CInv
  <1>3. j \in Job /\ c \in Chars /\ JobSound(j, q, Append(Flushed, c))
    BY Zenon, <1>2, SendSound
  <1>4. j.id = job[t].id /\ j.kind = job[t].kind /\ q \in {"putch", "loop"} /\ c.id = job[t].id
    BY Zenon, <1>2 DEF Job, Char
  <1>5. job' = [job EXCEPT ![t] = j]
    BY Zenon DEF lser_write, CInv
  <1>. HIDE DEF j, c, q
  <1>6. Flushed' = Append(Flushed, c)
    <2>1. tx = NULL
      BY Zenon, <1>1 DEF IInv, lser_write
    <2>2. c # NULL
      BY Zenon, <1>3, ConsoleAssumption DEF Chars
    <2>. QED
      BY Zenon, <1>1, <2>1, <2>2 DEF Flushed
  <1>7. \A u \in Threads : /\ job'[u] = (IF u = t THEN j ELSE job[u])
                           /\ pc'[u] = (IF u = t THEN q ELSE pc[u])
    BY Zenon, <1>1, <1>5 DEF CInv, IInv
  <1>8. \A u \in Threads : job'[u].id = job[u].id /\ job'[u].kind = job[u].kind
    BY Zenon, <1>4, <1>7
  <1>9. holder[job[t].kind] = t /\ job[t].id > 0
    BY Zenon, <1>1 DEF CInv, InCall
  <1>10. ASSUME NEW u \in Threads
         PROVE  /\ JobSound(job'[u], pc'[u], Flushed')
                /\ job'[u].id <= calls'
                /\ pc'[u] # "idle" \/ job'[u].kind # "read" => job'[u].id > 0
                /\ pc'[u] \in InCall => holder'[job'[u].kind] = u
                /\ pc'[u] \in {"getch", "got"} => job'[u].kind = "read" /\ job'[u].left # <<>>
    <2>1. CASE u = t
      <3>1. JobSound(job'[u], pc'[u], Flushed')
        BY Zenon, <1>3, <1>6, <1>7, <2>1
      <3>. QED
        BY Zenon, <1>1, <1>4, <1>7, <1>9, <2>1, <3>1 DEF CInv
    <2>2. CASE u # t
      <3>1. job[u] \in Job /\ JobSound(job[u], pc[u], Flushed) /\ c.id # job[u].id
        BY <1>4, <1>9, <2>2 DEF CInv
      <3>2. JobSound(job[u], pc[u], Append(Flushed, c))
        BY Zenon, <1>2, <1>3, <3>1, OtherSound
      <3>. QED
        BY <1>1, <1>6, <1>7, <2>2, <3>2 DEF CInv
    <2>. QED
      BY Zenon, <2>1, <2>2
  <1>11. \A i \in DOMAIN Flushed' : Flushed'[i].id <= calls'
    BY <1>1, <1>2, <1>3, <1>4, <1>6, Appended DEF CInv
  <1>12. job' \in [Threads -> Job]
    BY Zenon, <1>3, <1>5 DEF CInv
  <1>13. CInv'
    BY <1>1, <1>3, <1>8, <1>10, <1>11, <1>12 DEF CInv
  <1>. QED
    BY Zenon, <1>1, <1>3, <1>4, <1>6, <1>13

\* Polled output is no call's.
LEMMA PolledCInv ==
  ASSUME IInv, CInv, lser_writepolled
  PROVE  CInv' /\ Flushed' = Append(Flushed, Char(0, "x")) /\ Char(0, "x") \in Chars
  <1>. DEFINE c == Char(0, "x")
  <1>1. /\ UNCHANGED <<pc, job, holder, calls>>
        /\ tx' = NULL /\ out' = Append(Flushed, c)
    BY Zenon DEF lser_writepolled
  <1>2. c \in Chars /\ c.id = 0 /\ Flushed \in Seq(Chars)
    BY Zenon, FlushedType DEF Char, Chars
  <1>. HIDE DEF c
  <1>3. Flushed' = Append(Flushed, c) /\ Append(Flushed, c) \in Seq(Chars)
    BY Zenon, <1>1, <1>2, Appended DEF Flushed
  <1>4. \A i \in DOMAIN Flushed' : Flushed'[i].id <= calls'
    BY <1>1, <1>2, <1>3, Appended DEF CInv
  <1>5. ASSUME NEW u \in Threads PROVE JobSound(job'[u], pc'[u], Flushed')
    <2>1. CASE job[u].id # 0
      BY Zenon, <1>1, <1>2, <1>3, <2>1, OtherSound DEF CInv
    <2>2. CASE job[u].id = 0
      <3>1. pc[u] = "idle" /\ job[u].kind = "read" /\ JobSound(job[u], pc[u], Flushed)
        BY <2>2 DEF CInv, Job
      <3>. QED
        BY Zenon, <1>1, <3>1 DEF JobSound
    <2>. QED
      BY Zenon, <2>1, <2>2
  <1>6. CInv'
    BY Zenon, <1>1, <1>3, <1>4, <1>5 DEF CInv
  <1>. QED
    BY Zenon, <1>2, <1>3, <1>6 DEF c

\* The interrupt, the port and the keyboard change nothing of what is sent.
LEMMA DeviceCInv ==
  ASSUME IInv, CInv, lser_irq \/ Sent \/ Key \/ UNCHANGED vars
  PROVE  CInv' /\ Flushed' = Flushed /\ UNCHANGED <<pc, job>>
  <1>1. UNCHANGED <<pc, job, holder, calls>>
    BY Zenon DEF lser_irq, Sent, Key, vars, count
  <1>2. Flushed' = Flushed /\ tx' \in Chars \cup {NULL} /\ out' \in Seq(Chars)
    <2>1. CASE Sent
      BY Zenon, <2>1, FlushedType DEF Sent, Flushed
    <2>2. CASE UNCHANGED <<tx, out>>
      BY <2>2 DEF CInv, Flushed
    <2>. QED
      BY <2>1, <2>2, Zenon DEF lser_irq, Key, vars, port
  <1>. QED
    BY <1>1, <1>2 DEF CInv

\* Every step keeps the invariant.
LEMMA NextCInv == CountFacts /\ IInv /\ CInv /\ [Next]_vars => CInv'
  BY QuietCInv, CallCInv, WriteCInv, PolledCInv, DeviceCInv, Zenon DEF Next, Step

------------------------------------------------------------------------------
(***************************************************************************)
(* con_io's output in one piece.  W are the numbers of the calls that count *)
(* as con_io's.                                                            *)
(***************************************************************************)

Unbroken(s, W) ==
    \A i, k \in DOMAIN s : s[i].id = s[k].id /\ s[i].id \in W =>
        \A j \in i .. k : s[j].id \in W => s[j].id = s[i].id

\* Since a call began to write, no other call of W has.
Ahead(s, W, id) ==
    \A i, k \in DOMAIN s : s[i].id = id /\ i <= k /\ s[k].id \in W => s[k].id = id

Writes == {job[t].id : t \in {u \in Threads : job[u].kind = "write"}} \ {0}

AInv ==
    /\ Unbroken(Flushed, Writes)
    /\ \A t \in Threads : job[t].kind = "write" /\ pc[t] \in InCall =>
          Ahead(Flushed, Writes, job[t].id)

\* Numbers that are not in s make no difference.
LEMMA Antitone ==
  ASSUME NEW s \in Seq(Chars), NEW V, NEW W, NEW id,
         \A i \in DOMAIN s : s[i].id \in W => s[i].id \in V
  PROVE  /\ Unbroken(s, V) => Unbroken(s, W)
         /\ Ahead(s, V, id) => Ahead(s, W, id)
  <1>1. \A i, k \in DOMAIN s : i .. k \subseteq DOMAIN s
    BY DEF Chars
  <1>. QED
    BY Zenon, <1>1 DEF Unbroken, Ahead

\* A character of another kind of output breaks nothing.
LEMMA Foreign ==
  ASSUME NEW s \in Seq(Chars), NEW c \in Chars, NEW W, NEW id, c.id \notin W, id \in W
  PROVE  /\ Unbroken(s, W) => Unbroken(Append(s, c), W)
         /\ Ahead(s, W, id) => Ahead(Append(s, c), W, id)
  BY Appended DEF Unbroken, Ahead

\* Nor does one of the call that is ahead.
LEMMA Own ==
  ASSUME NEW s \in Seq(Chars), NEW c \in Chars, NEW W,
         Unbroken(s, W), Ahead(s, W, c.id)
  PROVE  Unbroken(Append(s, c), W) /\ Ahead(Append(s, c), W, c.id)
  BY Appended DEF Unbroken, Ahead

\* Steps that send nothing: the numbers of con_io's calls in s stay con_io's,
\* and a call that gets its lock has not sent anything.
LEMMA QuietAInv ==
  ASSUME CInv, AInv, Flushed' = Flushed,
         \A i \in DOMAIN Flushed : Flushed[i].id \in Writes' => Flushed[i].id \in Writes,
         \A t \in Threads : pc'[t] \in InCall =>
            UNCHANGED <<job[t].id, job[t].kind>> /\ pc[t] \in InCall \cup {"lock"}
  PROVE  AInv'
  <1>1. Flushed \in Seq(Chars)
    BY Zenon, FlushedType
  <1>2. Unbroken(Flushed', Writes')
    BY Zenon, <1>1, Antitone DEF AInv
  <1>3. ASSUME NEW t \in Threads, job'[t].kind = "write", pc'[t] \in InCall
        PROVE  Ahead(Flushed', Writes', job'[t].id)
    <2>1. CASE pc[t] \in InCall
      <3>1. Ahead(Flushed, Writes, job[t].id)
        BY Zenon, <1>3, <2>1 DEF AInv
      <3>2. Ahead(Flushed, Writes', job[t].id)
        BY Zenon, <1>1, <3>1, Antitone
      <3>. QED
        BY Zenon, <1>3, <3>2
    <2>2. CASE pc[t] = "lock"
      <3>1. Places(Flushed, job[t].id) = {}
        BY Zenon, <2>2 DEF CInv, JobSound
      <3>. QED
        BY <1>3, <3>1 DEF Ahead, Places
    <2>. QED
      BY Zenon, <1>3, <2>1, <2>2
  <1>. QED
    BY Zenon, <1>2, <1>3 DEF AInv

\* The jobs that keep number and kind keep the set of con_io's numbers.
LEMMA SameWrites ==
  ASSUME \A t \in Threads : UNCHANGED <<job[t].id, job[t].kind>>
  PROVE  Writes' = Writes
  BY DEF Writes

\* The steps of calls that send nothing.
LEMMA StepAInv ==
  ASSUME IInv, CInv, AInv, NEW t \in Threads,
         Acquire(t) \/ Release(t) \/ Loop(t) \/ putch_intr(t) \/ getch_intr(t)
           \/ getch_return(t)
  PROVE  AInv'
  <1>1. Flushed' = Flushed
    <2>1. UNCHANGED <<tx, out>>
      BY Zenon DEF Acquire, Release, Loop, putch_intr, getch_intr, getch_return, port
    <2>. QED
      BY <2>1 DEF Flushed
  <1>2. \A u \in Threads : UNCHANGED <<job[u].id, job[u].kind>>
    <2>1. job \in [Threads -> Job] /\ job[t] \in Job
      BY Zenon DEF CInv
    <2>2. CASE UNCHANGED job
      BY Zenon, <2>2
    <2>3. ASSUME NEW j, job' = [job EXCEPT ![t] = j], j.id = job[t].id, j.kind = job[t].kind
          PROVE  \A u \in Threads : UNCHANGED <<job[u].id, job[u].kind>>
      BY <2>1, <2>3
    <2>4. CASE Loop(t)
      <3>1. CASE job' = [job EXCEPT ![t].left = <<>>, ![t].line = <<>>]
        <4>1. /\ job' = [job EXCEPT ![t] = [job[t] EXCEPT !.left = <<>>, !.line = <<>>]]
          BY Zenon, <2>1, <3>1
        <4>. QED
          BY Zenon, <2>1, <2>3, <4>1 DEF Job
      <3>2. ASSUME NEW a, NEW b, job' = [job EXCEPT ![t].left = a, ![t].putch = b]
            PROVE  \A u \in Threads : UNCHANGED <<job[u].id, job[u].kind>>
        <4>1. /\ job' = [job EXCEPT ![t] = [job[t] EXCEPT !.left = a, !.putch = b]]
          BY Zenon, <2>1, <3>2
        <4>. QED
          BY Zenon, <2>1, <2>3, <4>1 DEF Job
      <3>. QED
        BY ZenonT(30), <2>2, <2>4, <3>1, <3>2 DEF Loop
    <2>5. CASE getch_return(t)
      <3>1. PICK a : job' = [job EXCEPT ![t].left = a]
        BY Zenon, <2>5 DEF getch_return
      <3>2. job' = [job EXCEPT ![t] = [job[t] EXCEPT !.left = a]]
        BY <2>1, <3>1
      <3>. QED
        BY Zenon, <2>1, <2>3, <3>2 DEF Job
    <2>. QED
      BY <2>2, <2>4, <2>5, Zenon DEF Acquire, Release, putch_intr, getch_intr
  <1>3. \A u \in Threads : pc'[u] \in InCall => pc[u] \in InCall \cup {"lock"}
    <2>1. /\ pc[t] \in InCall \cup {"lock"}
          /\ \E q \in PcValues : pc' = [pc EXCEPT ![t] = q]
      BY Zenon DEF Acquire, Release, Loop, putch_intr, getch_intr, getch_return, InCall, PcValues
    <2>. QED
      BY <2>1 DEF IInv
  <1>. QED
    BY Zenon, <1>1, <1>2, <1>3, SameWrites, QuietAInv

\* A new call's number is new.
LEMMA CallAInv ==
  ASSUME IInv, CInv, AInv, NEW t \in Threads, NEW kind \in Locks, NEW line \in Lines,
         Call(t, kind, line)
  PROVE  AInv'
  <1>. DEFINE j == [id |-> calls + 1, kind |-> kind, line |-> line,
                    left |-> line, putch |-> <<>>]
  <1>1. /\ job' = [job EXCEPT ![t] = j] /\ pc' = [pc EXCEPT ![t] = "lock"]
        /\ UNCHANGED <<tx, out>> /\ j.id = calls + 1
    BY Zenon DEF Call, port
  <1>. HIDE DEF j
  <1>2. Flushed' = Flushed
    BY Zenon, <1>1 DEF Flushed
  <1>3. \A u \in Threads : u # t => job'[u] = job[u] /\ pc'[u] = pc[u]
    BY Zenon, <1>1 DEF CInv, IInv
  <1>4. job'[t].id = calls + 1 /\ pc'[t] = "lock"
    BY Zenon, <1>1 DEF CInv, IInv
  <1>5. ASSUME NEW i \in DOMAIN Flushed, Flushed[i].id \in Writes'
        PROVE  Flushed[i].id \in Writes
    <2>1. PICK u \in Threads : job'[u].kind = "write" /\ Flushed[i].id = job'[u].id
      BY Zenon, <1>5 DEF Writes
    <2>2. Flushed[i].id \in Nat /\ Flushed[i].id <= calls /\ calls \in Nat
      BY Zenon, FlushedType DEF CInv
    <2>3. u # t
      BY <1>4, <2>1, <2>2
    <2>. QED
      BY <1>3, <1>5, <2>1, <2>3 DEF Writes
  <1>. QED
    BY Zenon, <1>2, <1>3, <1>4, <1>5, QuietAInv DEF InCall

\* A character of con_io is sent by the holder of con_io's lock, one of kprintf
\* does not count.
LEMMA WriteAInv ==
  ASSUME CountFacts, IInv, CInv, AInv, NEW t \in Threads, lser_write(t)
  PROVE  AInv'
  <1>1. /\ CInv' /\ Flushed' = Append(Flushed, tx') /\ Flushed \in Seq(Chars)
        /\ tx' \in Chars /\ tx'.id = job[t].id
    BY Zenon, WriteCInv, FlushedType
  <1>2. pc[t] = "send" /\ \E q \in {"putch", "loop"} : pc' = [pc EXCEPT ![t] = q]
    BY Zenon DEF lser_write
  <1>3. \A u \in Threads : pc'[u] \in InCall => pc[u] \in InCall
    BY Zenon, <1>2 DEF IInv, InCall
  <1>4. \A u \in Threads : UNCHANGED <<job[u].id, job[u].kind>>
    <2>1. job' = [job EXCEPT ![t] = [job[t] EXCEPT !.putch = Tail(job[t].putch)]]
      BY Zenon DEF lser_write, CInv
    <2>2. job \in [Threads -> Job] /\ job[t] \in Job
      BY Zenon DEF CInv
    <2>. QED
      BY Zenon, <2>1, <2>2 DEF Job
  <1>5. Writes' = Writes
    BY Zenon, <1>4, SameWrites
  <1>6. CASE job[t].kind = "write"
    <2>1. Ahead(Flushed, Writes, tx'.id) /\ Unbroken(Flushed, Writes)
      BY Zenon, <1>1, <1>2, <1>6 DEF AInv, InCall
    <2>2. Unbroken(Flushed', Writes') /\ Ahead(Flushed', Writes', job[t].id)
      BY Zenon, <1>1, <1>5, <2>1, Own
    <2>3. \A u \in Threads : job'[u].kind = "write" /\ pc'[u] \in InCall => u = t
      BY <1>2, <1>3, <1>4, <1>6 DEF CInv, InCall
    <2>. QED
      BY Zenon, <1>4, <2>2, <2>3 DEF AInv
  <1>7. CASE job[t].kind # "write"
    <2>1. tx'.id \notin Writes
      <3>1. ASSUME NEW u \in Threads, job[u].kind = "write", tx'.id = job[u].id
            PROVE  FALSE
        <4>1. job[t].id > 0
          BY Zenon, <1>2 DEF CInv
        <4>2. job[t].id = job[u].id
          BY Zenon, <1>1, <3>1
        <4>3. u = t
          BY Zenon, <4>1, <4>2 DEF CInv
        <4>. QED
          BY Zenon, <1>7, <3>1, <4>3
      <3>. QED
        BY Zenon, <3>1 DEF Writes
    <2>2. \A u \in Threads : job[u].kind = "write" /\ pc[u] \in InCall =>
             job[u].id \in Writes
      BY DEF CInv, Writes
    <2>3. Unbroken(Flushed', Writes')
      <3>1. CASE Writes = {}
        BY Zenon, <1>5, <3>1 DEF Unbroken
      <3>2. CASE Writes # {}
        BY Zenon, <1>1, <1>5, <2>1, <3>2, Foreign DEF AInv
      <3>. QED
        BY Zenon, <3>1, <3>2
    <2>4. ASSUME NEW u \in Threads, job'[u].kind = "write", pc'[u] \in InCall
          PROVE  Ahead(Flushed', Writes', job'[u].id)
      <3>1. job[u].kind = "write" /\ pc[u] \in InCall
        BY Zenon, <1>3, <1>4, <2>4
      <3>2. Ahead(Flushed, Writes, job[u].id) /\ job[u].id \in Writes
        BY Zenon, <2>2, <3>1 DEF AInv
      <3>. QED
        BY Zenon, <1>1, <1>4, <1>5, <2>1, <3>2, Foreign
    <2>. QED
      BY Zenon, <2>3, <2>4 DEF AInv
  <1>. QED
    BY Zenon, <1>6, <1>7

\* Polled output does not count either.
LEMMA PolledAInv == ASSUME IInv, CInv, AInv, lser_writepolled PROVE AInv'
  <1>. DEFINE c == Char(0, "x")
  <1>1. /\ Flushed' = Append(Flushed, c) /\ c \in Chars /\ Flushed \in Seq(Chars)
        /\ c.id = 0
    BY Zenon, PolledCInv, FlushedType DEF Char
  <1>. HIDE DEF c
  <1>2. UNCHANGED <<pc, job>> /\ Writes' = Writes
    BY Zenon DEF lser_writepolled, Writes
  <1>3. c.id \notin Writes
    BY Zenon, <1>1 DEF Writes
  <1>4. Unbroken(Flushed', Writes')
    <2>1. CASE Writes = {}
      BY Zenon, <1>2, <2>1 DEF Unbroken
    <2>2. CASE Writes # {}
      BY Zenon, <1>1, <1>2, <1>3, <2>2, Foreign DEF AInv
    <2>. QED
      BY Zenon, <2>1, <2>2
  <1>5. ASSUME NEW u \in Threads, job'[u].kind = "write", pc'[u] \in InCall
        PROVE  Ahead(Flushed', Writes', job'[u].id)
    <2>1. Ahead(Flushed, Writes, job[u].id)
      BY Zenon, <1>2, <1>5 DEF AInv
    <2>2. job[u].id > 0 /\ job[u].id # 0
      BY <1>2, <1>5 DEF CInv
    <2>3. job[u].id \in Writes
      BY Zenon, <1>2, <1>5, <2>2 DEF Writes
    <2>. QED
      BY Zenon, <1>1, <1>2, <1>3, <2>1, <2>3, Foreign
  <1>. QED
    BY Zenon, <1>4, <1>5 DEF AInv

\* Every step keeps the invariant.
LEMMA NextAInv == CountFacts /\ IInv /\ CInv /\ AInv /\ [Next]_vars => AInv'
  <1>. SUFFICES ASSUME CountFacts, IInv, CInv, AInv, [Next]_vars PROVE AInv'
    OBVIOUS
  <1>1. CASE lser_irq \/ Sent \/ Key \/ UNCHANGED vars
    <2>1. Flushed' = Flushed /\ UNCHANGED <<pc, job>>
      BY Zenon, <1>1, DeviceCInv
    <2>. QED
      BY Zenon, <2>1 DEF AInv, Writes
  <1>. QED
    BY <1>1, StepAInv, CallAInv, WriteAInv, PolledAInv, Zenon DEF Next, Step

------------------------------------------------------------------------------
F == INSTANCE FiniteSetTheorems

\* The facts about cardinalities.
LEMMA CountFactsHold == CountFacts
  <1>1. \A S : F!Cardinality(S) = Cardinality(S) /\ (F!IsFiniteSet(S) <=> IsFiniteSet(S))
    BY Zenon DEF F!Cardinality, Cardinality, F!IsFiniteSet, IsFiniteSet
  <1>2. ASSUME NEW n \in Nat, NEW S \in SUBSET (1 .. n)
        PROVE  Cardinality(S \cup {n + 1}) = Cardinality(S) + 1
    <2>3. F!IsFiniteSet(1 .. n)
      BY F!FS_Interval
    <2>1. F!IsFiniteSet(S)
      BY Zenon, <2>3, F!FS_Subset
    <2>2. n + 1 \notin S
      OBVIOUS
    <2>. QED
      BY Zenon, <1>1, <2>1, <2>2, F!FS_AddElement
  <1>3. Cardinality({}) = 0
    BY Zenon, <1>1, F!FS_EmptySet
  <1>. QED
    BY Zenon, <1>2, <1>3 DEF CountFacts

\* What every call sends is right at each step.
THEOREM CallsInductive == Spec => [](IInv /\ CInv)
  BY CountFactsHold, InitIInv, NextIInv, InitCInv, NextCInv, PTL DEF Spec

\* Every call of con_io and kprintf that returned got each of its characters
\* out once and in order, con_io's newlines after a return.
THEOREM AlwaysDelivered == Spec => []Delivered
  <1>1. CInv => Delivered
    <2>. SUFFICES ASSUME CInv, NEW t \in Threads,
                         pc[t] = "idle", job[t].kind # "read", job[t].line # <<>>
                  PROVE  Carries(Flushed, job[t].id, job[t].kind, job[t].line,
                                 Len(job[t].line), FALSE)
      BY Zenon DEF Delivered, Carries
    <2>1. /\ JobSound(job[t], "idle", Flushed) /\ job[t] \in Job
      BY Zenon DEF CInv
    <2>2. job[t].left = <<>> /\ job[t].putch = <<>> /\ Len(job[t].line) \in Nat
      BY <2>1 DEF JobSound, Job
    <2>3. SentOf(job[t]) = Len(job[t].line) /\ Owes(job[t]) = FALSE
      BY <2>2 DEF SentOf, Owes
    <2>. QED
      BY Zenon, <2>1, <2>3 DEF JobSound
  <1>. QED
    BY <1>1, CallsInductive, PTL

\* The output of a con_io call is not broken by that of another con_io call.
THEOREM AlwaysUserWritesAtomic == Spec => []UserWritesAtomic
  <1>1. Init => AInv
    <2>. SUFFICES ASSUME Init PROVE AInv
      OBVIOUS
    <2>1. DOMAIN Flushed = {}
      BY DEF Init, config_lser, Flushed
    <2>. QED
      BY Zenon, <2>1 DEF AInv, Unbroken, Init, InCall
  <1>2. CInv /\ AInv => UserWritesAtomic
    <2>. SUFFICES ASSUME CInv, AInv PROVE Unbroken(out, Writes)
      BY Zenon DEF UserWritesAtomic, Unbroken, Writes
    <2>1. /\ out \in Seq(Chars) /\ \A i, k \in DOMAIN out : i .. k \subseteq DOMAIN out
      BY DEF CInv
    <2>2. /\ DOMAIN out \subseteq DOMAIN Flushed
          /\ \A i \in DOMAIN out : Flushed[i] = out[i]
      BY Appended DEF CInv, Flushed
    <2>. QED
      BY <2>1, <2>2 DEF AInv, Unbroken
  <1>3. Spec => []AInv
    BY CountFactsHold, <1>1, CallsInductive, NextAInv, PTL DEF Spec
  <1>. QED
    BY <1>2, <1>3, CallsInductive, PTL
==============================================================================
