-------------------------------- MODULE Scanf --------------------------------
(***************************************************************************)
(* std_vxscanf and std_sccl of libc.c as sscanf calls them: a scan is a    *)
(* sequence of directives, each one step on the string, with one           *)
(* character of lookahead that is pushed back at the end.                  *)
(***************************************************************************)
EXTENDS Libc

CONSTANTS
  Formats,    \* the formats scanned with, sequences of directives
  Texts,      \* the strings scanned
  Arguments,  \* the numbers printed, each printed text is scanned as well
  BUF         \* the longest number, 39 characters

VARIABLES
  args,       \* the numbers the string was printed from
  format,     \* the format
  text,       \* the string
  fmt,        \* the next directive
  str,        \* the next character sscanf_fgetc gives
  cin,        \* the lookahead
  values,     \* the values assigned
  done,       \* std_vxscanf has returned
  odd         \* a conversion that is known to be wrong was met

vars == <<args, format, text, fmt, str, cin, values, done, odd>>

(* What sscanf_fgetc gives at an index: past the NUL, what is in memory    *)
(* there, taken for one more NUL.                                          *)
CharAt(i) == At(text, i)

Numbers(f) == SelectSeq(f, LAMBDA d : d.conv # "literal")
Unpadded(f) == [i \in DOMAIN f |-> [f[i] EXCEPT !.width = 0]]
(* Formats that read what they print: a literal between two numbers.       *)
Printable(f) ==
  /\ \A i \in DOMAIN f : f[i].conv \in {"d", "u", "x", "p", "literal"} /\ ~f[i].suppress
  /\ \A i \in 2 .. Len(f) : "literal" \in {f[i - 1].conv, f[i].conv}

(* A format scans a string of its own or one dprintf printed; printed      *)
(* numbers may be padded, which the scan then does not limit itself to.    *)
Init ==
  /\ \E f \in Formats :
       \/ format = f /\ text \in Texts /\ args = <<>>
       \/ /\ Printable(f) /\ format = Unpadded(f)
          /\ args \in [1 .. Len(Numbers(f)) -> Arguments]
          /\ text = dprintf(f, args)
  /\ fmt = 1 /\ values = <<>> /\ done = FALSE /\ odd = FALSE
  /\ str = 2 /\ cin = CharAt(1)

-----------------------------------------------------------------------------
(* Numbers.                                                                *)

basefix(base) == IF base = 0 THEN 10 ELSE base
IsX(c) == c \in {LowerX, 88}
IsLetter(c) == c \in LowerA .. LowerA + 5 \/ c \in 65 .. 70

(* Mutant: a sign is taken anywhere in a number.                           *)
Legal_sign(n, c) ==
  \/ c \in Zero .. Zero + 7
  \/ c \in {Zero + 8, Zero + 9} /\ basefix(n.base) > 8
  \/ IsLetter(c) /\ n.base > 10
  \/ c \in {Plus, Minus}
  \/ IsX(c) /\ n.pfxok /\ Len(n.buf) = 1

(* The switch on the lookahead: is it a part of the number read so far.    *)
Legal(n, c) ==
  \/ c \in Zero .. Zero + 7
  \/ c \in {Zero + 8, Zero + 9} /\ basefix(n.base) > 8
  \/ IsLetter(c) /\ n.base > 10
  \/ c \in {Plus, Minus} /\ n.signok
  \/ IsX(c) /\ n.pfxok /\ Len(n.buf) = 1

Noted(n, c) ==
  CASE c \in {Plus, Minus} -> [n EXCEPT !.signok = FALSE]
    [] IsX(c) -> [n EXCEPT !.base = 16, !.pfxok = FALSE]
    [] c = Zero -> [n EXCEPT !.base = IF @ = 0 THEN 8 ELSE @,
                             !.pfxok = n.nzdigits /\ (@ \/ n.base = 0),
                             !.nzdigits = FALSE, !.signok = FALSE, !.ndigits = FALSE]
    [] IsLetter(c) -> [n EXCEPT !.pfxok = FALSE, !.signok = FALSE, !.ndigits = FALSE]
    [] OTHER -> [n EXCEPT !.base = basefix(@), !.pfxok = FALSE, !.signok = FALSE, !.ndigits = FALSE]

RECURSIVE Scanned(_, _, _)
Scanned(n, at, width) ==
  LET c == CharAt(at) IN
  IF width = 0 \/ ~Legal(n, c) THEN n
  ELSE Scanned([Noted(n, c) EXCEPT !.buf = Append(@, c)], at + 1, width - 1)

Base(conv) == CASE conv \in {"d", "u"} -> 10 [] conv = "i" -> 0 [] conv \in {"x", "p"} -> 16

-----------------------------------------------------------------------------
(* The scanset of a %[...] directive, from the characters after the [.     *)

Caret == 94
Close == 93
Characters == 1 .. 127

(* The loop of std_sccl after character c is stored: a range holds at      *)
(* least the character after c.                                            *)
RECURSIVE Filled(_, _, _)
Filled(tab, c, set) ==
  LET n == Head(set)
      next == set[2]
      last == IF next > c THEN next ELSE c + 1
  IN  IF n = Close THEN tab
      ELSE IF n = Minus /\ next # Close /\ next >= c
           THEN Filled(tab \cup (c + 1 .. last), last, From(set, 3))
           ELSE Filled(tab \cup {n}, n, Tail(set))

(* std_sccl: the characters a set accepts, the NUL among them when it is   *)
(* negated.                                                                *)
std_sccl(set) ==
  IF Head(set) = Caret THEN (Characters \cup {NUL}) \ Filled({set[2]}, set[2], From(set, 3))
  ELSE Filled({Head(set)}, Head(set), Tail(set))

-----------------------------------------------------------------------------
(* Scanning.                                                               *)

(* The first index from i on that is no space.                             *)
Skipped(i) ==
  CHOOSE j \in i .. Len(text) + 1 : ~isspace(CharAt(j)) /\ \A k \in i .. j - 1 : isspace(CharAt(k))

Directed(conv) == ~done /\ ~odd /\ fmt <= Len(format) /\ format[fmt].conv = conv
d == format[fmt]

(* The lookahead is the character at i.                                    *)
Ahead(i) == str' = i + 1 /\ cin' = CharAt(i)
Assign(value) == values' = IF d.suppress THEN values ELSE Append(values, value)
Continue == fmt' = fmt + 1 /\ UNCHANGED <<args, format, text, done>>

(* The lookahead at i is pushed back: sscanf_ungetc steps back.            *)
Return(i) ==
  /\ str' = i /\ cin' = CharAt(i) /\ done' = TRUE
  /\ UNCHANGED <<args, format, text, fmt, values>>

End == ~done /\ ~odd /\ fmt > Len(format) /\ Return(str - 1) /\ UNCHANGED odd

Blank ==
  /\ Directed("space")
  /\ Ahead(Skipped(str - 1)) /\ Continue /\ UNCHANGED <<values, odd>>

Match ==
  /\ Directed("literal")
  /\ IF cin = d.c THEN Ahead(str) /\ Continue /\ UNCHANGED values ELSE Return(str - 1)
  /\ UNCHANGED odd

(* A conversion to an integer.  An x that nothing follows is pushed back   *)
(* behind the lookahead, which the next directive then sees twice; a sign  *)
(* before 0x is known to be wrong both ways.                               *)
Integer(conv) ==
  LET i == Skipped(str - 1)
      n == Scanned([buf |-> <<>>, base |-> Base(conv), signok |-> TRUE, ndigits |-> TRUE,
                    nzdigits |-> TRUE, pfxok |-> conv \in {"x", "p"}], i, IF d.width = 0 THEN BUF ELSE d.width)
      end == i + Len(n.buf)
      x == IsX(Last(n.buf))
      number == IF x THEN Front(n.buf) ELSE n.buf
      sign == At(n.buf, 1) \in {Plus, Minus}
  IN  /\ Directed(conv)
      /\ IF n.ndigits
         THEN Return(IF n.buf = <<>> THEN i ELSE end - 1) /\ odd' = (Len(n.buf) > 1)
         ELSE /\ str' = (IF x THEN end ELSE end + 1) /\ cin' = CharAt(end)
              /\ Assign(<<strto_l(number, n.base, conv \in {"u", "x", "p"})>>)
              /\ odd' = (\/ x /\ fmt < Len(format)
                         \/ sign /\ IsX(At(n.buf, 2))
                         \/ sign /\ conv \in {"x", "p", "i"} /\ At(n.buf, 2) = Zero /\ IsX(CharAt(i + 2)))
              /\ Continue

(* A nonempty run of the characters of a set.  A set that accepts the NUL  *)
(* reads past the end of the string.                                       *)
Class ==
  LET i == str - 1
      tab == std_sccl(d.set)
      width == IF d.width = 0 THEN Len(text) + 1 ELSE d.width
      runs == {k \in 0 .. width : \A j \in i .. i + k - 1 : CharAt(j) \in tab /\ j <= Len(text) + 1}
      n == CHOOSE k \in runs : \A k2 \in runs : k2 <= k
  IN  /\ Directed("class")
      /\ odd' = (i + n > Len(text) + 1)
      /\ IF n = 0 THEN Return(i)
         ELSE Ahead(i + n) /\ Assign([k \in 1 .. n |-> CharAt(i + k - 1)]) /\ Continue

(* The lookahead is dropped and the next character is taken, which stays   *)
(* the lookahead.                                                          *)
Char ==
  /\ Directed("c")
  /\ odd' = TRUE
  /\ Ahead(str) /\ Assign(<<CharAt(str)>>) /\ Continue

(* A stray semicolon ends the word after one character.                    *)
String ==
  LET i == Skipped(str - 1) IN
  /\ Directed("s")
  /\ odd' = TRUE
  /\ Ahead(i + 1) /\ Assign(<<CharAt(i)>>) /\ Continue

Next ==
  \/ End \/ Blank \/ Match \/ Class \/ Char \/ String
  \/ \E conv \in {"d", "u", "i", "x", "p"} : Integer(conv)

Spec == Init /\ [][Next]_vars

-----------------------------------------------------------------------------
(* What the directives are defined to do.                                  *)

Decimal == Zero .. Zero + 9
Octal == Zero .. Zero + 7
Hexadecimal == Decimal \cup (LowerA .. LowerA + 5) \cup (65 .. 70)
AllIn(s, chars) == s # <<>> /\ ToSet(s) \subseteq chars
Unsign(s) == IF At(s, 1) \in {Plus, Minus} THEN Tail(s) ELSE s

(* A number of a conversion, without its sign, and its base.               *)
Hex(s) == AllIn(IF Prefixed(s) THEN From(s, 3) ELSE s, Hexadecimal)
IsNumber(s, conv) ==
  CASE conv \in {"d", "u"} -> AllIn(s, Decimal)
    [] conv \in {"x", "p"} -> Hex(s)
    [] conv = "i" -> IF Prefixed(s) THEN Hex(s) ELSE AllIn(s, IF At(s, 1) = Zero THEN Octal ELSE Decimal)
NumberBase(s, conv) ==
  IF conv = "i" THEN IF Prefixed(s) THEN 16 ELSE IF At(s, 1) = Zero THEN 8 ELSE 10 ELSE Base(conv)

Sum(s, base) == FoldLeft(LAMBDA n, c : n * base + DigitOf(c), 0, s)
Clipped(v, low, high) == IF v < low THEN low ELSE IF v > high THEN high ELSE v

(* The value of a number as a word: out of range, the nearest in range.    *)
Value(s, conv) ==
  LET digits == IF Prefixed(Unsign(s)) THEN From(Unsign(s), 3) ELSE Unsign(s)
      v == Sum(digits, NumberBase(Unsign(s), conv))
      signed == IF At(s, 1) = Minus THEN -v ELSE v
  IN  IF conv \in {"d", "i"} THEN Unsigned(Clipped(signed, LONG_MIN, LONG_MAX))
      ELSE IF v > WORD - 1 THEN WORD - 1 ELSE Unsigned(signed)

(* The characters of a set: those that stand for themselves and those of   *)
(* the ranges.                                                             *)
Members(set) ==
  LET body == Front(IF Head(set) = Caret THEN Tail(set) ELSE set)
      ranges == {i \in 2 .. Len(body) - 1 : body[i] = Minus /\ body[i - 1] <= body[i + 1]}
      members == ToSet(body) \cup UNION {body[i - 1] .. body[i + 1] : i \in ranges}
      dashes == {i \in DOMAIN body : body[i] = Minus} \ ranges
      plain == IF dashes = {} /\ ~\E i \in ranges : Minus \in body[i - 1] .. body[i + 1]
               THEN members \ {Minus} ELSE members
  IN  IF Head(set) = Caret THEN Characters \ plain ELSE plain

(* One directive on what is left from index r.at: the longest match.       *)
Defined(r, f) ==
  LET i == IF f.conv \in {"literal", "class"} THEN r.at ELSE Skipped(r.at)
      width == IF f.width = 0 THEN Len(text) ELSE f.width
      part(k) == SubSeq(text, i, i + k - 1)
      matches == {k \in 0 .. width :
                    /\ i + k - 1 <= Len(text)
                    /\ CASE f.conv = "space" -> k = 0
                         [] f.conv = "literal" -> part(k) = <<f.c>>
                         [] f.conv = "class" -> k > 0 /\ ToSet(part(k)) \subseteq Members(f.set)
                         [] OTHER -> IsNumber(Unsign(part(k)), f.conv)}
      k == CHOOSE n \in matches : \A m \in matches : m <= n
  IN  IF r.failed THEN r
      ELSE IF matches = {} THEN [r EXCEPT !.failed = TRUE, !.at = i]
      ELSE [r EXCEPT !.at = i + k,
             !.values = IF f.conv \in {"space", "literal"} \/ f.suppress THEN @
                        ELSE Append(@, IF f.conv = "class" THEN part(k) ELSE <<Value(part(k), f.conv)>>)]

Definition == FoldLeft(Defined, [at |-> 1, values |-> <<>>, failed |-> FALSE], format)

-----------------------------------------------------------------------------
(* Properties.                                                             *)

(* A scan assigns what the directives are defined to, stops where they do  *)
(* and leaves the string after the last character it used: the lookahead   *)
(* is pushed back once, also on a failure in the middle of a number        *)
(* (libc.c:699), with the prefix, octal and width rules of one loop        *)
(* (libc.c:604) and saturation at the width of a word (libc_strtol.c:129). *)
ScanAsDefined ==
  done /\ ~odd => values = Definition.values /\ str = Definition.at

(* Numbers that were printed are read back as they were, unless zeros were *)
(* put before a sign (libc.c:191), whatever they were padded with.         *)
ReadBack ==
  args # <<>> /\ done /\ ~(\E i \in DOMAIN text : text[i] = Minus /\ At(<<NUL>> \o text, i) = Zero) =>
    values = [i \in DOMAIN args |-> <<Unsigned(args[i])>>]

Rank(c) == IF c = NUL THEN 0 ELSE 128 - c
Before(s, t) ==
  \E i \in 1 .. Len(t) : Rank(At(s, i)) < Rank(At(t, i)) /\ \A j \in 1 .. i - 1 : At(s, j) = At(t, j)
Places(s) == {i \in 1 .. Len(text) - Len(s) + 1 : SubSeq(text, i, i + Len(s) - 1) = s}

(* strcmp orders strings as sequences whose end comes before every         *)
(* character and whose characters come in descending order: one order for  *)
(* all, which the trees of the kernel rely on (avl.h:73, libc.c:1014).     *)
(* And strstr finds the first place where the needle is, the last possible *)
(* one included, although strncmp may look past its size (libc.c:1052).    *)
StringsCompared ==
  fmt = 1 => \A w \in Arguments :
    LET s == itoa("d", w) IN
    /\ strcmp(text, s) = 0 <=> text = s
    /\ strcmp(text, s) < 0 <=> Before(text, s)
    /\ strstr(text, s) = IF Places(s) = {} THEN 0
                         ELSE CHOOSE i \in Places(s) : \A j \in Places(s) : i <= j
=============================================================================
