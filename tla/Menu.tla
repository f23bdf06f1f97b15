-------------------------------- MODULE Menu --------------------------------
(***************************************************************************)
(* The kernel menu, kern/main/menu.c: kgets edits a line in a buffer of    *)
(* fixed size (lib/kgets.c), menu_execute and cmd_dispatch cut the line in *)
(* place into commands and words with two nested uses of strtok_r          *)
(* (lib/libc/strtok_r.c), and the commands change the debug flags.         *)
(*                                                                         *)
(* A character stands for what the menu tells apart: "df", the digits and  *)
(* "on", "off" are single characters here, "p" is the name of any command  *)
(* that is not about the flags, and "NUL" ends a string.  What those other *)
(* commands do is in Process, Vfs, Fstest and CatMouse.                    *)
(***************************************************************************)
EXTENDS Integers, SequencesExt, FiniteSetsExt

CONSTANTS
  Letters,     \* the characters that are typed
  BufSize,     \* sizeof(buf), the NUL included
  MaxArgs,     \* MAXMENUARGS
  Flags,       \* digits, in the order of their bits
  Modulus,     \* dbflags is a word of so many values
  BootLines,   \* command lines the bootloader may pass
  None

VARIABLES
  buf,         \* the characters of the line, cut up as it is executed
  mode,        \* "keys": kgets; "runs": menu_execute; "off": panic or halt
  context,     \* menu_execute's context for strtok_r
  isargs,      \* the line came from the bootloader
  dbflags,
  line,        \* history: the line as it was entered
  ran,         \* history: the commands of the line that were called
  on, doubled  \* history: flags switched on; a switch that was no change

vars == <<buf, mode, context, isargs, dbflags, line, ran, on, doubled>>

Space == {" "}
Semicolon == {";"}
-----------------------------------------------------------------------------
\* kgets.

Line(b) == /\ buf' = b
           /\ UNCHANGED <<mode, context, isargs, dbflags, line, ran, on, doubled>>

\* A typed line that starts with "df" is not parsed but compared as a whole, by
\* db_proc; the string that is executed instead is one word.
IsDf(b) == b # <<>> /\ b[1] = "df"
DfLine(n, sw) == <<"df", " ", n, " ", sw>>
DfCommand(n, sw) == <<"df", n, sw>>
db_proc(b) ==
  IF \E n \in ToSet(Flags), sw \in {"on", "off"} : b = DfLine(n, sw)
  THEN DfCommand(b[3], b[5]) ELSE <<"df", "inval">>

\* A character that fits is added; others only beep.
Typed(ch) == Len(buf) < BufSize - 1 /\ Line(Append(buf, ch))

Backspace == buf # <<>> /\ Line(Front(buf))

\* ^U, and ^W: spaces, then what is before them up to a space.
EraseLine == buf # <<>> /\ Line(<<>>)
EraseWord ==
  LET words == {i \in DOMAIN buf : buf[i] # " "}
      last == CHOOSE i \in words : \A j \in words : j <= i
      spaces == {i \in DOMAIN buf : buf[i] = " " /\ i < last}
      keep == CHOOSE i \in spaces : \A j \in spaces : j <= i
  IN /\ buf # <<>>
     /\ Line(IF words = {} \/ spaces = {} THEN <<>> ELSE SubSeq(buf, 1, keep))

\* The line ends; ^C ends it empty.
Enter ==
  /\ \E b \in {buf, <<>>} :
       /\ buf' = IF IsDf(b) THEN db_proc(b) ELSE b
       /\ line' = b
  /\ mode' = "runs" /\ context' = 1 /\ isargs' = FALSE
  /\ UNCHANGED <<dbflags, ran, on, doubled>>

kgets == /\ mode = "keys"
         /\ \/ \E ch \in Letters : Typed(ch)
            \/ Backspace \/ EraseLine \/ EraseWord \/ Enter
-----------------------------------------------------------------------------
\* strtok_r, on the buffer b from position c: where the word starts (None: there
\* is none), the buffer with a NUL behind the word, and the new context.

At(b, i) == IF i > Len(b) THEN "NUL" ELSE b[i]
\* The first position from i on with a character that is (not) one of chars.
First(b, i, chars, is) ==
  CHOOSE j \in i .. Len(b) + 1 : /\ (At(b, j) \in chars) = is
                                 /\ \A k \in i .. j - 1 : (At(b, k) \in chars) # is
StringAt(b, i) == SubSeq(b, i, First(b, i, {"NUL"}, TRUE) - 1)

\* (Mutant: the next call starts at the NUL.)
strtok_r_stuck(b, c, seps) ==
  LET head == First(b, c, seps, FALSE)
      tail == First(b, head, seps \cup {"NUL"}, TRUE)
  IN IF c = None \/ At(b, head) = "NUL" THEN [word |-> None, b |-> b, c |-> None]
     ELSE IF At(b, tail) = "NUL" THEN [word |-> head, b |-> b, c |-> None]
     ELSE [word |-> head, b |-> [b EXCEPT ![tail] = "NUL"], c |-> tail]

strtok_r(b, c, seps) ==
  LET head == First(b, c, seps, FALSE)
      tail == First(b, head, seps \cup {"NUL"}, TRUE)
  IN IF c = None \/ At(b, head) = "NUL" THEN [word |-> None, b |-> b, c |-> None]
     ELSE IF At(b, tail) = "NUL" THEN [word |-> head, b |-> b, c |-> None]
     ELSE [word |-> head, b |-> [b EXCEPT ![tail] = "NUL"], c |-> tail + 1]

\* The loop of cmd_dispatch: the words from c on, one more than MaxArgs at most.
RECURSIVE Args(_, _, _)
Args(b, c, args) ==
  LET r == strtok_r(b, c, Space)
  IN IF r.word = None \/ Len(args) > MaxArgs THEN [args |-> args, b |-> b]
     ELSE Args(r.b, r.c, Append(args, r.word))
-----------------------------------------------------------------------------
\* cmdtable.

Bit(n) == 2 ^ (CHOOSE i \in DOMAIN Flags : Flags[i] = n) \div 2

\* dbflags = DB_x + dbflags and dbflags - DB_x, in unsigned arithmetic.
cmd_dfon(n) == /\ dbflags' = (dbflags + Bit(n)) % Modulus
               /\ doubled' = (doubled \/ n \in on)
               /\ on' = on \cup {n}
cmd_dfoff(n) == /\ dbflags' = (dbflags - Bit(n)) % Modulus
                /\ doubled' = (doubled \/ n \notin on)
                /\ on' = on \ {n}
NoFlags == UNCHANGED <<dbflags, on, doubled>>

FlagCommand(w) == \E n \in ToSet(Flags), sw \in {"on", "off"} : w = DfCommand(n, sw)
cmdtable == {<<"p">>, <<"df", "inval">>} \cup
            {DfCommand(n, sw) : n \in ToSet(Flags), sw \in {"on", "off"}}

\* A command that fails ends the boot, and nothing else.
Result(err) == mode' = IF err /\ isargs THEN "off" ELSE "runs"

cmd_dispatch(b, cmd) ==
  LET r == Args(b, cmd, <<>>)
      words == [i \in DOMAIN r.args |-> StringAt(r.b, r.args[i])]
  IN /\ buf' = r.b
     /\ IF words = <<>> THEN Result(FALSE) /\ NoFlags /\ UNCHANGED ran
        ELSE IF Len(words) > MaxArgs \/ words[1] \notin cmdtable
        THEN Result(TRUE) /\ NoFlags /\ UNCHANGED ran
        ELSE /\ ran' = Append(ran, words)
             /\ \/ /\ FlagCommand(words[1]) /\ Result(FALSE)
                   /\ IF words[1][3] = "on" THEN cmd_dfon(words[1][2])
                                            ELSE cmd_dfoff(words[1][2])
                \/ /\ words[1] = <<"df", "inval">> /\ Result(FALSE) /\ NoFlags
                \/ /\ words[1] = <<"p">> /\ NoFlags
                   /\ Result(FALSE) \/ Result(TRUE) \/ mode' = "off"

menu_execute ==
  /\ mode = "runs" /\ context # None
  /\ LET r == strtok_r(buf, context, Semicolon)
     IN /\ context' = r.c
        /\ IF r.word = None THEN /\ buf' = r.b /\ UNCHANGED <<mode, ran>> /\ NoFlags
           ELSE cmd_dispatch(r.b, r.word)
  /\ UNCHANGED <<isargs, line>>

\* The loop of menu: back to the prompt.
menu ==
  /\ mode = "runs" /\ context = None
  /\ mode' = "keys" /\ buf' = <<>> /\ line' = <<>> /\ ran' = <<>>
  /\ isargs' = FALSE
  /\ UNCHANGED <<context, dbflags, on, doubled>>

Init ==
  /\ line \in BootLines /\ buf = line
  /\ mode = "runs" /\ context = 1 /\ isargs = TRUE
  /\ dbflags = 0 /\ ran = <<>> /\ on = {} /\ doubled = FALSE

Next == kgets \/ menu_execute \/ menu

Spec == Init /\ [][Next]_vars
-----------------------------------------------------------------------------
\* The commands in a line: between semicolons, the words between spaces.
Split(s, seps) ==
  LET ends == {i \in 1 .. Len(s) + 1 : i = Len(s) + 1 \/ s[i] \in seps}
      starts == {i \in DOMAIN s : s[i] \notin seps /\ (i = 1 \/ s[i - 1] \in seps)}
      End(i) == CHOOSE e \in ends : e > i /\ \A f \in ends : f > i => e <= f
  IN [k \in 1 .. Cardinality(starts) |->
        LET i == CHOOSE j \in starts : Cardinality({h \in starts : h < j}) = k - 1
        IN SubSeq(s, i, End(i) - 1)]

\* What the words of one command stand for: "df n on" and "df n off" switch a
\* flag.
Meaning(w) ==
  IF \E n \in ToSet(Flags), sw \in {"on", "off"} : w = <<<<"df">>, <<n>>, <<sw>>>>
  THEN <<DfCommand(w[2][1], w[3][1])>> ELSE w

\* "Semicolons separate commands; spaces and tabs separate words", whether the
\* line was typed or passed by the bootloader.
Commands ==
  LET parts == Split(line, Semicolon)
  IN SelectSeq([k \in DOMAIN parts |-> Split(parts[k], Space)], LAMBDA w : w # <<>>)
Meant ==
  SelectSeq([k \in DOMAIN Commands |-> Meaning(Commands[k])],
            LAMBDA w : Len(w) <= MaxArgs /\ w[1] \in cmdtable)

\* Lines the code does not read that way: a typed line that starts with "df" is
\* compared as a whole, and "df" as a word of its own is no command.
OneFlag == ~isargs /\ \E n \in ToSet(Flags), sw \in {"on", "off"} : line = DfLine(n, sw)
Misread ==
  /\ ~OneFlag
  /\ \/ ~isargs /\ IsDf(line)
     \/ \E k \in DOMAIN Commands : Commands[k][1] = <<"df">>

\* What was entered is what is executed: a line and its NUL fit the buffer; the
\* commands of the line are called in order, with their words, each once, and
\* all of them unless the machine stops, though the line is cut up in place by
\* two tokenisers at a time and cmd_dispatch gives up in the middle of a command
\* with too many words; a line about flags that is not exactly one typed "df n
\* on" or "df n off" may lose commands, but calls none that it does not contain;
\* and as long as no flag is switched on or off twice in a row, dbflags has
\* exactly the flags that are on (kgets, strtok_r, menu_execute, cmd_dispatch,
\* db_proc, cmd_df1on and its like).
MenuFaithful ==
  /\ ~isargs => Len(buf) < BufSize
  /\ ToSet(ran) \subseteq ToSet(Meant) \cup {<<<<"df", "inval">>>>}
  /\ ~Misread => /\ IsPrefix(ran, Meant)
                 /\ mode = "runs" /\ context = None => ran = Meant
  /\ ~doubled => dbflags = MapThenSumSet(Bit, on)
=============================================================================
