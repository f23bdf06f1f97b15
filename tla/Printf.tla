------------------------------- MODULE Printf -------------------------------
(***************************************************************************)
(* Formatted output, shared by the kernel and the C library: __vprintf     *)
(* (lib/libc/__printf.c) sends the characters of a format one by one       *)
(* through __pf_send, snprintf (lib/libc/snprintf.c) keeps what fits its   *)
(* buffer, and atoi (lib/libc/atoi.c) reads numbers back.                  *)
(*                                                                         *)
(* Text is a sequence of characters.  An integer argument is a word of     *)
(* Bits bits; int and long have the same width, so that the modifiers l    *)
(* and q (without USE_LONGLONG the same) change nothing.                   *)
(***************************************************************************)
EXTENDS Integers, SequencesExt, FiniteSetsExt

CONSTANTS
  Bits,        \* width of an integer
  Chars,       \* the characters of fields
  Plain,       \* the characters between fields
  Nums,        \* integer arguments
  Text,        \* the string argument
  Lens,        \* sizes of snprintf's buffer
  MaxFormat,   \* bound: the length of a format
  None

VARIABLES
  pf,          \* the state of the current field
  buf, len,    \* snprintf's buffer without its NUL, and its size
  done,        \* the format has ended
  out,         \* history: everything that was sent
  seen,        \* history: how much of the format was sent, ...
  spec,        \* ... the modifiers of the current field, ...
  last         \* ... and the last field: modifiers, type, argument, text

vars == <<pf, buf, len, done, out, seen, spec, last>>

Words == 2 ^ Bits
Digits == <<"0", "1", "2", "3", "4", "5", "6", "7", "8", "9",
            "a", "b", "c", "d", "e", "f">>
DigitValue(ch) == (CHOOSE i \in DOMAIN Digits : Digits[i] = ch) - 1
IsDigit(ch) == \E i \in 1 .. 10 : Digits[i] = ch

\* A two's complement word as a signed number.
Signed(w) == IF w < Words \div 2 THEN w ELSE w - Words
-----------------------------------------------------------------------------
\* __printf.c.

__pf_endfield == [in_pct |-> FALSE, spacing |-> 0, rightspc |-> FALSE,
                  fillchar |-> " ", altformat |-> FALSE]

__pf_modifier(ch) ==
  CASE ch = "#" -> [pf EXCEPT !.altformat = TRUE]
    [] ch = "-" -> [pf EXCEPT !.rightspc = TRUE]
    [] ch \in {"l", "q"} -> pf
    [] ch = "0" /\ pf.spacing = 0 -> [pf EXCEPT !.fillchar = "0"]
    [] OTHER -> [pf EXCEPT !.spacing = @ * 10 + DigitValue(ch)]

Negative(ch, arg) == ch = "d" /\ Signed(arg) < 0

\* The magnitude: the negation wraps.
__pf_getnum(ch, arg) == IF Negative(ch, arg) THEN (-arg) % Words ELSE arg

__pf_setbase(ch) ==
  CASE ch \in {"d", "u"} -> 10 [] ch \in {"x", "p"} -> 16 [] ch = "o" -> 8

__pf_fill(spc) == [i \in 1 .. spc |-> pf.fillchar]

\* Spaces go before the prefixes and zeros after them.
__pf_printstuff(prefix, prefix2, stuff) ==
  LET all == Len(prefix) + Len(prefix2) + Len(stuff)
      spc == IF pf.spacing > all THEN pf.spacing - all ELSE 0
  IN IF pf.rightspc THEN prefix \o prefix2 \o stuff \o __pf_fill(spc)
     ELSE IF pf.fillchar = "0" THEN prefix \o prefix2 \o __pf_fill(spc) \o stuff
     ELSE __pf_fill(spc) \o prefix \o prefix2 \o stuff

\* The digits, made from the right in a buffer of this size.
NUMBER_BUF_SIZE == Bits \div 3 + 2
Numeral(n, base) ==
  LET numeral[x \in 0 .. Words] ==
        IF x < base THEN <<Digits[x + 1]>>
        ELSE Append(numeral[x \div base], Digits[(x % base) + 1])
  IN numeral[n]

__pf_printnum(ch, arg) ==
  LET base == __pf_setbase(ch)
      baseprefix == pf.altformat \/ ch = "p"
  IN __pf_printstuff(IF Negative(ch, arg) THEN <<"-">> ELSE <<>>,
                     IF baseprefix /\ base = 16 THEN <<"0", "x">>
                     ELSE IF baseprefix /\ base = 8 THEN <<"0">> ELSE <<>>,
                     Numeral(__pf_getnum(ch, arg), base))
-----------------------------------------------------------------------------
\* snprintf.c: the room in the buffer, and what is stored of some text.
buflen == IF len = 0 THEN 0 ELSE len - 1

__snprintf_send(text) == buf \o SubSeq(text, 1, Min({Len(text), buflen - Len(buf)}))

__pf_print(text) == out' = out \o text /\ buf' = __snprintf_send(text)

\* A field of type ch is printed.
Field(ch, arg, text) ==
  /\ __pf_print(text)
  /\ pf' = __pf_endfield
  /\ last' = [spec |-> spec, type |-> ch, arg |-> arg, text |-> text]
  /\ spec' = <<>>

Modifiers == {"#", "-", "q", "l"}
Integral == {"d", "o", "u", "p", "x"}

\* One character of the format.  What is no modifier and no type is printed as it
\* is, in the width asked for: "%", and also "X", which man/libc/printf.html
\* lists as a type.
__pf_send(ch) ==
  \/ /\ ~pf.in_pct /\ ch # "%"
     /\ __pf_print(<<ch>>)
     /\ UNCHANGED <<pf, spec, last>>
  \/ /\ ~pf.in_pct /\ ch = "%"
     /\ pf' = [pf EXCEPT !.in_pct = TRUE]
     /\ UNCHANGED <<buf, out, spec, last>>
  \/ /\ pf.in_pct /\ (ch \in Modifiers \/ IsDigit(ch))
     /\ pf' = __pf_modifier(ch)
     /\ spec' = Append(spec, ch)
     /\ UNCHANGED <<buf, out, last>>
  \/ /\ pf.in_pct /\ ch \in Integral
     /\ \E arg \in Nums : Field(ch, arg, __pf_printnum(ch, arg))
  \/ /\ pf.in_pct /\ ch = "s"
     /\ Field(ch, 0, __pf_printstuff(<<>>, <<>>, Text))
  \/ /\ pf.in_pct /\ ch \notin Modifiers \cup Integral \cup {"s"} /\ ~IsDigit(ch)
     /\ Field(ch, 0, __pf_printstuff(<<>>, <<>>, IF ch = "c" THEN <<Head(Text)>> ELSE <<ch>>))

__vprintf ==
  /\ ~done /\ seen < MaxFormat /\ seen' = seen + 1
  /\ \E ch \in IF pf.in_pct THEN Chars ELSE Plain \cup {"%"} : __pf_send(ch)
  /\ UNCHANGED <<len, done>>

\* The format ends; vsnprintf adds the NUL.
vsnprintf ==
  /\ ~done /\ done' = TRUE
  /\ buf' = IF len > 0 THEN Append(buf, "NUL") ELSE buf
  /\ UNCHANGED <<pf, len, out, seen, spec, last>>

Init ==
  /\ pf = __pf_endfield
  /\ buf = <<>> /\ len \in Lens /\ done = FALSE
  /\ out = <<>> /\ seen = 0 /\ spec = <<>> /\ last = None

Next == __vprintf \/ vsnprintf

Spec == Init /\ [][Next]_vars
-----------------------------------------------------------------------------
\* atoi.c: blanks, a sign, and digits up to the first other character.
Prefix(s, test(_)) ==
  SubSeq(s, 1, Max({i \in 0 .. Len(s) : \A j \in 1 .. i : test(s[j])}))
Value(s, base) == FoldLeft(LAMBDA v, ch : v * base + DigitValue(ch), 0, s)

atoi(s) ==
  LET unblanked == SubSeq(s, Len(Prefix(s, LAMBDA ch : ch = " ")) + 1, Len(s))
      neg == unblanked # <<>> /\ unblanked[1] = "-"
      val == Value(Prefix(IF neg THEN Tail(unblanked) ELSE unblanked, IsDigit), 10)
  IN Signed((IF neg THEN -val ELSE val) % Words)

\* What was asked for in a field, from its text.
Width(f) == Value(SelectSeq(f.spec, IsDigit), 10)
Zeros(f) == LET d == SelectSeq(f.spec, IsDigit) IN d # <<>> /\ d[1] = "0"
Asked(f, ch) == Contains(f.spec, ch)
Shown(f) == SelectSeq(f.text, LAMBDA ch : ch \notin {" ", "x"})

\* A printed field says what it was given, whatever its modifiers and their
\* order: it has the width asked for and is no wider than its text needs; atoi
\* reads the argument of %d back, the most negative number included, and the
\* digits of the other types have the argument's value; the prefix asked for is
\* there; text stands at the side asked for; the digits fit __pf_printnum's
\* buffer.  The exception is a field padded with zeros on its right ("%-05d"),
\* which reads as another number; and "%X" shows no number.  What snprintf keeps is the longest part of
\* the output that fits, and its NUL is inside the buffer (__pf_printstuff,
\* __pf_printnum, __snprintf_send, vsnprintf).
PrintfFaithful ==
  /\ last # None =>
       LET left == Asked(last, "-")
           padded == last.type \in Integral /\ ~(left /\ Zeros(last))
       IN /\ Len(last.text) >= Width(last)
          /\ padded /\ Len(last.text) > Width(last) => ~Contains(last.text, " ")
          /\ padded /\ last.type = "d" => atoi(last.text) = Signed(last.arg)
          /\ padded /\ last.type # "d" =>
               Value(Shown(last), __pf_setbase(last.type)) = last.arg
          /\ last.type = "x" => (Contains(last.text, "x") <=> Asked(last, "#"))
          /\ last.type = "s" => IF left THEN IsPrefix(Text, last.text)
                                        ELSE IsSuffix(Text, last.text)
          /\ last.type \in {"d", "o", "x"} =>
               Len(Numeral(__pf_getnum(last.type, last.arg), __pf_setbase(last.type)))
                 < NUMBER_BUF_SIZE
  /\ Len(buf) <= len
  /\ LET kept == IF done /\ len > 0 THEN Front(buf) ELSE buf
     IN kept = SubSeq(out, 1, Min({Len(out), buflen}))
=============================================================================
