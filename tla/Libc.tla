--------------------------------- MODULE Libc ---------------------------------
(***************************************************************************)
(* The string and number functions of libc.c and libc_strtol.c: comparing  *)
(* and searching strings, printing integers (itoa, dprintf) and converting *)
(* them back (strtol).  A character is its code, a string the sequence of  *)
(* its characters before the NUL.  Machine words have 2^BITS values.       *)
(***************************************************************************)
EXTENDS Integers, Sequences, FiniteSets, SequencesExt

CONSTANT BITS     \* the width of an int and of a long, 32

ASSUME BitsAssumption == BITS \in Nat /\ BITS > 1

WORD == 2 ^ BITS
LONG_MAX == WORD \div 2 - 1
LONG_MIN == -(WORD \div 2)
Unsigned(d) == d % WORD

NUL == 0
Space == 32
Plus == 43
Minus == 45
Zero == 48
LowerA == 97
LowerX == 120

isspace(c) == c \in {Space, 9, 10}
IsDigit(c) == c \in Zero .. Zero + 9

(* The character at an index, the NUL just after the last.                 *)
At(s, i) == IF i <= Len(s) THEN s[i] ELSE NUL

-----------------------------------------------------------------------------
(* Comparing and searching.                                                *)

(* Where the loop over two strings stops: at the end of one, where they    *)
(* differ, or after `size` characters.                                     *)
Stop(s1, s2, size) ==
  LET stops == {i \in 1 .. size + 1 : i = size + 1 \/ At(s1, i) = NUL \/ At(s2, i) = NUL \/ At(s1, i) # At(s2, i)}
  IN  CHOOSE i \in stops : \A j \in stops : i <= j

Both(s1, s2) == Len(s1) + Len(s2)

(* Mutant: the end of the first string alone decides.                      *)
strcmp_first(s1, s2) ==
  LET i == Stop(s1, s2, Both(s1, s2)) IN
  IF At(s1, i) = At(s2, i) THEN 0
  ELSE IF At(s1, i) # NUL THEN At(s2, i) - At(s1, i)
  ELSE 1

(* strcmp: a longer string is greater, otherwise the greater character is  *)
(* the lesser string.                                                      *)
strcmp(s1, s2) ==
  LET i == Stop(s1, s2, Both(s1, s2)) IN
  IF At(s1, i) = At(s2, i) THEN 0
  ELSE IF At(s1, i) # NUL /\ At(s2, i) # NUL THEN At(s2, i) - At(s1, i)
  ELSE IF At(s1, i) # NUL THEN 1 ELSE -1

(* strncmp: running out of `size` leaves it at -1, not 0, unless one of    *)
(* the strings ends there, so the next character is looked at too.         *)
strncmp(s1, s2, size) ==
  LET i == Stop(s1, s2, size)
      ended == At(s1, i) = NUL \/ At(s2, i) = NUL
  IN  IF At(s1, i) = At(s2, i) \/ (ended /\ i = size + 1) THEN 0
      ELSE IF ~ended /\ i <= size THEN At(s2, i) - At(s1, i)
      ELSE IF At(s1, i) # NUL THEN 1 ELSE -1

From(s, i) == SubSeq(s, i, Len(s))

(* Mutant: the last positions are not tried.                               *)
strstr_short(haystack, needle) ==
  LET found == {i \in 1 .. Len(haystack) - Len(needle) : strncmp(From(haystack, i), needle, Len(needle)) = 0}
  IN  IF found = {} THEN 0 ELSE CHOOSE i \in found : \A j \in found : i <= j

(* strstr: the index of the first place the needle is found at, 0 for none.*)
strstr(haystack, needle) ==
  LET found == {i \in 1 .. Len(haystack) : strncmp(From(haystack, i), needle, Len(needle)) = 0}
  IN  IF found = {} THEN 0 ELSE CHOOSE i \in found : \A j \in found : i <= j

-----------------------------------------------------------------------------
(* Printing.                                                               *)

DigitChar(d) == IF d < 10 THEN Zero + d ELSE LowerA + d - 10

RECURSIVE Digits(_, _)
Digits(ud, divisor) ==
  IF ud < divisor THEN <<DigitChar(ud)>>
  ELSE Append(Digits(ud \div divisor, divisor), DigitChar(ud % divisor))

(* Mutant: the sign is printed and the number not negated.                 *)
itoa_signed(base, d) ==
  (IF base = "d" /\ d < 0 THEN <<Minus>> ELSE <<>>) \o Digits(Unsigned(d), IF base = "x" THEN 16 ELSE 10)

(* itoa: only "d" prints a sign, only "x" is not decimal.                  *)
itoa(base, d) ==
  LET minus == base = "d" /\ d < 0
      ud == Unsigned(IF minus THEN -d ELSE d)
  IN  (IF minus THEN <<Minus>> ELSE <<>>) \o Digits(ud, IF base = "x" THEN 16 ELSE 10)

(* A directive of a format: what it converts, its width in digits (0 for   *)
(* none), whether a 0 precedes the width, whether it is suppressed, its    *)
(* literal character, its set of characters.                               *)
Directive(conv) == [conv |-> conv, width |-> 0, zero |-> FALSE, suppress |-> FALSE, c |-> NUL, set |-> <<>>]
Literal(c) == [Directive("literal") EXCEPT !.c = c]
Wide(conv, width) == [Directive(conv) EXCEPT !.width = width]

(* dprintf, one directive: the padding comes before the sign, and a        *)
(* character keeps the padding asked for so far for what comes next.       *)
Converted(s, f) ==
  LET pad == s.pad * 10 + f.width
      zero == s.zero \/ (f.zero /\ s.pad = 0)
      number == itoa(IF f.conv = "p" THEN "x" ELSE f.conv, Head(s.args))
      padding == [i \in 1 .. pad - Len(number) |-> IF zero THEN Zero ELSE Space]
  IN  CASE f.conv = "literal" -> [s EXCEPT !.out = Append(@, f.c), !.pad = 0, !.zero = FALSE]
        [] f.conv = "c" -> [s EXCEPT !.out = Append(@, Head(s.args)), !.args = Tail(@), !.pad = pad, !.zero = zero]
        [] OTHER -> [s EXCEPT !.out = @ \o (IF f.conv = "p" THEN <<Zero, LowerX>> ELSE <<>>) \o padding \o number,
                              !.args = Tail(@), !.pad = 0, !.zero = FALSE]

dprintf(format, args) ==
  FoldLeft(Converted, [out |-> <<>>, args |-> args, pad |-> 0, zero |-> FALSE], format).out

-----------------------------------------------------------------------------
(* Converting back.                                                        *)

(* The value of a character as a digit, 40 for none.                       *)
DigitOf(c) ==
  IF IsDigit(c) THEN c - Zero ELSE IF c >= LowerA THEN c - LowerA + 10
  ELSE IF c >= 65 THEN c - 65 + 10 ELSE 40

(* One more digit: a number past the largest word stays the largest.       *)
Accumulated(number, digit, base) ==
  LET cutoff == (WORD - 1) \div base IN
  IF number > cutoff \/ (number = cutoff /\ digit > WORD - 1 - cutoff * base)
  THEN WORD - 1 ELSE number * base + digit

(* The digits at the start of a string.                                    *)
DigitRun(s, base) ==
  LET stops == {i \in 1 .. Len(s) + 1 : DigitOf(At(s, i)) >= base}
  IN  SubSeq(s, 1, (CHOOSE i \in stops : \A j \in stops : i <= j) - 1)

Prefixed(s) == At(s, 1) = Zero /\ At(s, 2) \in {LowerX, 88}

(* _strto_l: the value as an unsigned long.  Leading spaces do not reach   *)
(* it from the scanner and are left out.                                   *)
strto_l(str, base0, uflag) ==
  LET negative == At(str, 1) = Minus
      number == IF At(str, 1) \in {Plus, Minus} THEN Tail(str) ELSE str
      base == IF base0 # 0 THEN base0 ELSE IF Prefixed(number) THEN 16 ELSE IF At(number, 1) = Zero THEN 8 ELSE 10
      digits == DigitRun(IF base = 16 /\ Prefixed(number) THEN From(number, 3) ELSE number, base)
      u == FoldLeft(LAMBDA n, c : Accumulated(n, DigitOf(c), base), 0, digits)
      over == \E i \in 1 .. Len(digits) :
                LET n == FoldLeft(LAMBDA m, c : Accumulated(m, DigitOf(c), base), 0, SubSeq(digits, 1, i - 1))
                    cutoff == (WORD - 1) \div base
                IN  n > cutoff \/ (n = cutoff /\ DigitOf(digits[i]) > WORD - 1 - cutoff * base)
      minus == negative /\ ~(uflag /\ over)
  IN  IF minus THEN (IF ~uflag /\ u > LONG_MAX + 1 THEN Unsigned(LONG_MIN) ELSE Unsigned(-u))
      ELSE IF ~uflag /\ u > LONG_MAX THEN LONG_MAX ELSE u
===============================================================================
