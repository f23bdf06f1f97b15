------------------------------- MODULE Random -------------------------------
(***************************************************************************)
(* The pseudo-random numbers of the C library, lib/libc/random.c: an       *)
(* additive feedback generator over a table that two pointers go round,    *)
(* and the calls that put one table away and resume with another.          *)
(*                                                                         *)
(* A table is an array the program owns: its word 0 says the type of the   *)
(* generator and where its rear pointer is, the rest is the state.  Words  *)
(* have W values, and generators smaller degrees than the real ones.       *)
(***************************************************************************)
EXTENDS Integers, SequencesExt, FiniteSetsExt

CONSTANTS
  W,                \* values of a word
  degrees, seps,    \* for each type from 1 on; type 0 is linear congruential
  Tables, randtbl,  \* state arrays, and the one the library starts with
  Room,             \* the largest type an array has room for
  Seeds

VARIABLES
  table,        \* the contents: [hdr, state]
  state,        \* the array in use
  rand_type,
  rptr, fptr,   \* indices into the state
  ready,        \* history: the arrays initstate was called for
  past,         \* history: the last values of each generator, oldest first
  lost          \* history: arrays set again, while in use, to an old position

vars == <<table, state, rand_type, rptr, fptr, ready, past, lost>>

MAX_TYPES == Len(degrees) + 1
MaxDegree == Max({degrees[k] : k \in DOMAIN degrees} \cup {1})

Lcg(x) == ((1103515245 % W) * x + (12345 % W)) % W
-----------------------------------------------------------------------------
\* A generator of a type that is not 0: its table and its two pointers.
Generators == [s : [0 .. MaxDegree - 1 -> 0 .. W - 1],
               f : 0 .. MaxDegree - 1, r : 0 .. MaxDegree - 1]
Advance(type, g) ==
  LET deg == degrees[type]
      s == [g.s EXCEPT ![g.f] = (@ + g.s[g.r]) % W]
  IN IF g.f + 1 >= deg THEN [s |-> s, f |-> 0, r |-> g.r + 1]
     ELSE [s |-> s, f |-> g.f + 1, r |-> IF g.r + 1 >= deg THEN 0 ELSE g.r + 1]

\* The table filled from a seed, and turned ten times round.
srandom_unlocked(type, x) ==
  LET deg == degrees[type]
      fill[i \in 0 .. MaxDegree - 1] == IF i = 0 THEN x % W
                                        ELSE IF i < deg THEN Lcg(fill[i - 1]) ELSE 0
      round[g \in Generators] ==
        LET turn[n \in 0 .. deg] == IF n = 0 THEN g ELSE Advance(type, turn[n - 1])
        IN turn[deg]
      turned[k \in 0 .. 10] ==
        IF k = 0 THEN [s |-> [i \in 0 .. MaxDegree - 1 |-> fill[i]], f |-> seps[type], r |-> 0]
        ELSE round[turned[k - 1]]
  IN turned[10]

\* The same numbers from the recurrence: each is the one a degree ago plus the
\* one a separation ago.
Recur(type, h) == Append(Tail(h), (Head(h) + h[Len(h) - seps[type] + 1]) % W)
Seeded(type, x) ==
  LET deg == degrees[type]
      lcg[i \in 0 .. deg - 1] == IF i = 0 THEN x % W ELSE Lcg(lcg[i - 1])
      round[h \in [1 .. deg -> 0 .. W - 1]] ==
        LET recur[n \in 0 .. deg] == IF n = 0 THEN h ELSE Recur(type, recur[n - 1])
        IN recur[deg]
      recurred[k \in 0 .. 10] ==
        IF k = 0 THEN [i \in 1 .. deg |-> lcg[(seps[type] + i - 1) % deg]]
        ELSE round[recurred[k - 1]]
  IN recurred[10]
-----------------------------------------------------------------------------
\* The array in use as it is put away.
Saved == [table EXCEPT ![state].hdr =
            IF rand_type = 0 THEN 0 ELSE MAX_TYPES * rptr + rand_type]

\* Words beyond the degree are never read.
Zeros == [i \in 0 .. MaxDegree - 1 |-> 0]

\* An array, and the pointers, for a seed.
Start(tables, t, type, seed) ==
  LET g == IF type = 0 THEN [s |-> [Zeros EXCEPT ![0] = seed], f |-> fptr, r |-> rptr]
           ELSE srandom_unlocked(type, seed)
  IN /\ table' = [tables EXCEPT ![t] =
                    [hdr |-> IF type = 0 THEN 0 ELSE MAX_TYPES * g.r + type, state |-> g.s]]
     /\ fptr' = g.f /\ rptr' = g.r
     /\ past' = [past EXCEPT ![t] = IF type = 0 THEN <<seed>> ELSE Seeded(type, seed)]
     /\ lost' = lost \ {t}

\* The size of the array decides on the type; one too small only saves.
initstate(t) ==
  \/ /\ table' = Saved
     /\ UNCHANGED <<state, rand_type, rptr, fptr, ready, past, lost>>
  \/ \E type \in 0 .. Room[t], seed \in Seeds :
       /\ Start(Saved, t, type, seed)
       /\ state' = t /\ rand_type' = type
       /\ ready' = ready \cup {t}

\* The header of the array in use is left alone.
srandom ==
  \E seed \in Seeds :
    LET g == IF rand_type = 0 THEN [s |-> [table[state].state EXCEPT ![0] = seed], f |-> fptr, r |-> rptr]
             ELSE srandom_unlocked(rand_type, seed)
    IN /\ table' = [table EXCEPT ![state].state = g.s]
       /\ fptr' = g.f /\ rptr' = g.r
       /\ past' = [past EXCEPT ![state] = IF rand_type = 0 THEN <<seed>> ELSE Seeded(rand_type, seed)]
       /\ lost' = lost \ {state}
       /\ UNCHANGED <<state, rand_type, ready>>

\* (Mutant: the array in use is not put away.)
setstate_unsaved(t) ==
  LET type == table[t].hdr % MAX_TYPES
      rear == table[t].hdr \div MAX_TYPES
  IN /\ t \in ready
     /\ state' = t /\ rand_type' = type
     /\ IF type = 0 THEN UNCHANGED <<rptr, fptr>>
        ELSE rptr' = rear /\ fptr' = (rear + seps[type]) % degrees[type]
     /\ lost' = IF t = state /\ type # 0 /\ rear # rptr THEN lost \cup {t} ELSE lost
     /\ UNCHANGED <<table, ready, past>>

\* The header is read before the array in use is put away.
setstate(t) ==
  LET type == table[t].hdr % MAX_TYPES
      rear == table[t].hdr \div MAX_TYPES
  IN /\ t \in ready
     /\ table' = Saved
     /\ state' = t /\ rand_type' = type
     /\ IF type = 0 THEN UNCHANGED <<rptr, fptr>>
        ELSE rptr' = rear /\ fptr' = (rear + seps[type]) % degrees[type]
     /\ lost' = IF t = state /\ type # 0 /\ rear # rptr THEN lost \cup {t} ELSE lost
     /\ UNCHANGED <<ready, past>>

random_unlocked ==
  LET g == IF rand_type = 0
           THEN [s |-> [table[state].state EXCEPT ![0] = Lcg(@) % (W \div 2)], f |-> fptr, r |-> rptr]
           ELSE Advance(rand_type, [s |-> table[state].state, f |-> fptr, r |-> rptr])
  IN /\ table' = [table EXCEPT ![state].state = g.s]
     /\ fptr' = g.f /\ rptr' = g.r
     /\ past' = [past EXCEPT ![state] = IF state \in lost THEN <<>>
                                        ELSE IF rand_type = 0 THEN <<Lcg(@[1]) % (W \div 2)>>
                                        ELSE Recur(rand_type, @)]
     /\ UNCHANGED <<state, rand_type, ready, lost>>

\* As after initstate(1, randtbl, 128).
Init ==
  LET type == Room[randtbl]
      g == srandom_unlocked(type, 1)
  IN /\ table = [t \in Tables |-> IF t = randtbl THEN [hdr |-> type, state |-> g.s]
                                                 ELSE [hdr |-> 0, state |-> Zeros]]
     /\ state = randtbl /\ rand_type = type
     /\ rptr = 0 /\ fptr = seps[type]
     /\ ready = {randtbl} /\ lost = {}
     /\ past = [t \in Tables |-> IF t = randtbl THEN Seeded(type, 1) ELSE <<0>>]

Next == random_unlocked \/ srandom \/ \E t \in Tables : initstate(t) \/ setstate(t)

Spec == Init /\ [][Next]_vars
-----------------------------------------------------------------------------
\* Where the generator of an array is.
Type(t) == IF t = state THEN rand_type ELSE table[t].hdr % MAX_TYPES
Front0(t) == IF t = state THEN fptr
             ELSE (table[t].hdr \div MAX_TYPES + seps[Type(t)]) % degrees[Type(t)]

\* Every generator goes on where it was left, however the program switches
\* between arrays: an array holds the last values of its sequence, in order
\* from its front pointer on, whether it is in use or put away, and the two
\* pointers stay their separation apart without ever leaving the table though
\* random_unlocked tests only one of them for the end.  An array that is set
\* while it is in use is the exception: setstate reads its header before it
\* brings it up to date, and goes back to an old position (initstate,
\* setstate, random_unlocked).
GeneratorsResume ==
  /\ rand_type # 0 => /\ rptr \in 0 .. degrees[rand_type] - 1
                      /\ fptr = (rptr + seps[rand_type]) % degrees[rand_type]
  /\ \A t \in ready \ lost :
       IF Type(t) = 0 THEN past[t] = <<table[t].state[0]>>
       ELSE past[t] = [i \in 1 .. degrees[Type(t)] |->
                         table[t].state[(Front0(t) + i - 1) % degrees[Type(t)]]]
=============================================================================
