------------------------------- MODULE Terminal -------------------------------
(***************************************************************************)
(* The shell on the console: shell.c and shell_builtins.c read lines       *)
(* through the streams of stdio.c, from what is typed (the line mode of    *)
(* the console) or from a script, cut them into words and run them.        *)
(* Shells nest: the one that runs is the last of shells.  All of it is one *)
(* thread; the keyboard gives it the next key when it asks.                *)
(***************************************************************************)
EXTENDS Console, FiniteSets

CONSTANTS
  Glyphs,     \* the characters that are written, and read
  BUFSIZE,    \* the size of the buffers of a stream and of a line
  MAX_ARGC,   \* how many words the shell takes
  Prompt,     \* what an interactive shell prints, without its colours
  Scripts,    \* the files of the startup directory: a function from names
  Startup,    \* the name of systartup.com
  Greeting,   \* what cat prints
  Keys,       \* the keys that are typed
  Fds,        \* how many descriptors may be free at first
  MaxKeys     \* bound: how many keys are typed

ASSUME TerminalAssumption ==
  /\ BUFSIZE \in Nat \ {0, 1} /\ MAX_ARGC \in Nat \ {0} /\ Fds \subseteq Nat
  /\ MaxKeys \in Nat
  /\ {"ESC", "[", "2", "J", "A", SPACE, "NL", "!"} \subseteq Glyphs
  /\ Keys \subseteq Glyphs \cup {"CR", "DEL", "UP"} /\ Keys \cap {"ESC", "NL"} = {}
  /\ Prompt \in Seq(Glyphs) /\ Greeting \in Seq(Glyphs)
  /\ <<>> \notin DOMAIN Scripts /\ \A name \in DOMAIN Scripts : Scripts[name] \in Seq(Glyphs)
  /\ Startup \in DOMAIN Scripts

VARIABLES
  vc,
  out,         \* what is still to be written
  shells,
  stdin,       \* the buffer of the stream that all interactive shells share
  pc,          \* "prompt", "fgets", "read", "run" or "ended"
  buffer,      \* the line that fgets is filling, then what is not yet cut
  argv,        \* its words
  free_fds,
  keys,        \* how many keys have been typed
  typed,       \* what has been typed of this line, and
  line,        \* the last line typed
  start,       \* where on the screen it starts
  odd          \* whether it was too long for the window or the buffer

typedVars == <<keys, typed, line, start, odd>>
vars == <<vc, out, shells, stdin, pc, buffer, argv, free_fds, typedVars>>

NoText == [buf |-> <<>>, bm |-> 0]
Stdin == <<>>
Interactive == [input |-> Stdin, file |-> NoText, off |-> 0, ready |-> FALSE, lines |-> 0]
Reads(name) == [Interactive EXCEPT !.input = name]

Current == Last(shells)
Stream == IF Current.input = Stdin THEN stdin ELSE Current.file
Say(s) == out' = s
Outer == Front(shells)

-----------------------------------------------------------------------------
(* printf and cat write one character after the other.                     *)
console_putchar ==
  /\ out # <<>>
  /\ vc' = Put(vc, Head(out)) /\ out' = Tail(out)
  /\ UNCHANGED <<shells, stdin, pc, buffer, argv, free_fds, typedVars>>

(* The head of the loop of shell_main.                                     *)
shell_print_prompt ==
  /\ pc = "prompt" /\ ~Current.ready
  /\ IF Current.input = Stdin THEN Say(Prompt) ELSE Say(<<>>)
  /\ buffer' = <<>> /\ argv' = <<>> /\ pc' = "fgets"
  /\ UNCHANGED <<vc, shells, stdin, free_fds, typedVars>>

(* A shell ends; the one that ran it goes on.                              *)
Leave == shells' = Outer /\ pc' = IF Outer = <<>> THEN "ended" ELSE "prompt"

Exit ==
  /\ pc = "prompt" /\ Current.ready /\ Leave
  /\ UNCHANGED <<vc, out, stdin, buffer, argv, free_fds, typedVars>>

(* fgets takes the characters that the stream has.                         *)
fgetc ==
  /\ pc = "fgets" /\ Stream.bm < Len(Stream.buf)
  /\ LET s == [Stream EXCEPT !.bm = @ + 1] IN
     IF Current.input = Stdin THEN stdin' = s /\ UNCHANGED shells
     ELSE shells' = [shells EXCEPT ![Len(shells)].file = s] /\ UNCHANGED stdin
  /\ buffer' = Append(buffer, Stream.buf[Stream.bm + 1])
  /\ pc' = IF Last(buffer') = "NL" \/ Len(buffer') = BUFSIZE - 1 THEN "run" ELSE "fgets"
  /\ UNCHANGED <<vc, out, argv, free_fds, typedVars>>

(* When it has no more, stdin waits for a line to be typed.                *)
ReadStdin ==
  /\ pc = "fgets" /\ Stream.bm >= Len(Stream.buf) /\ Current.input = Stdin
  /\ vc' = StartLine(vc) /\ pc' = "read"
  /\ start' = Cell(vc.cur_row, vc.cur_col)
  /\ odd' = (odd /\ (buffer # <<>> \/ typed # <<>>))
  /\ UNCHANGED <<out, shells, stdin, buffer, argv, free_fds, keys, typed, line>>


(* A script is read on.  At its end the file system fails the read, and so *)
(* does fgets, even when it has taken characters: a last line that does    *)
(* not end is lost, and the shell ends.                                    *)
ReadScript ==
  /\ pc = "fgets" /\ Stream.bm >= Len(Stream.buf) /\ Current.input # Stdin
  /\ LET text == Scripts[Current.input]
         end == Clamped(Current.off + BUFSIZE, Len(text))
         more == SubSeq(text, Current.off + 1, end)
     IN  IF more = <<>>
         THEN Leave
         ELSE /\ shells' = [shells EXCEPT ![Len(shells)].file = [buf |-> more, bm |-> 0],
                                          ![Len(shells)].off = end]
              /\ pc' = pc
  /\ UNCHANGED <<vc, out, stdin, buffer, argv, free_fds, typedVars>>

-----------------------------------------------------------------------------
(* The console reads what a key sends; it ends no line but for return.     *)
Reading(k) == IF k = "UP" THEN TakeKey(TakeKey(TakeKey(vc, "ESC"), "["), "A") ELSE TakeKey(vc, k)

TypeKey(k) ==
  /\ pc = "read" /\ keys < MaxKeys
  /\ keys' = keys + 1
  /\ vc' = Reading(k)
  /\ IF LineEnds(vc', k, BUFSIZE)
     THEN stdin' = [buf |-> Line(vc', BUFSIZE), bm |-> 0] /\ pc' = "fgets"
     ELSE UNCHANGED <<stdin, pc>>
  /\ typed' = CASE k = "CR" -> <<>>
                [] k = "DEL" -> IF typed = <<>> THEN typed ELSE Front(typed)
                [] k = "UP" -> typed
                [] OTHER -> Append(typed, k)
  /\ line' = IF k = "CR" THEN typed ELSE line
  /\ odd' = \/ odd
             \/ (Len(typed') >= BUFSIZE - 1)
             \/ (k # "CR" /\ vc'.line_buffer # <<>> /\ Last(vc'.line_buffer) = "NL")
  /\ UNCHANGED <<out, shells, buffer, argv, free_fds, start>>

-----------------------------------------------------------------------------
(* The loop of shell_main that cuts a line into words.  The first starts   *)
(* at once, so that a line that starts with a space has an empty one.      *)
More == buffer # <<>> /\ buffer[1] # "NL" /\ Len(argv) < MAX_ARGC

(* Mutant: only one space is skipped.                                      *)
CutWordOneSpace ==
  /\ pc = "run" /\ More
  /\ LET ends == {i \in DOMAIN buffer : buffer[i] \in {SPACE, "NL"}} \cup {Len(buffer) + 1}
         n == Min(ends)
     IN  /\ argv' = Append(argv, SubSeq(buffer, 1, n - 1))
         /\ buffer' = SubSeq(buffer, n + 1, Len(buffer))
  /\ UNCHANGED <<vc, out, shells, stdin, pc, free_fds, typedVars>>

CutWord ==
  /\ pc = "run" /\ More
  /\ LET ends == {i \in DOMAIN buffer : buffer[i] \in {SPACE, "NL"}} \cup {Len(buffer) + 1}
         n == Min(ends)
         next == {i \in n .. Len(buffer) : buffer[i] # SPACE}
     IN  /\ argv' = Append(argv, SubSeq(buffer, 1, n - 1))
         /\ buffer' = IF next = {} THEN <<>> ELSE SubSeq(buffer, Min(next), Len(buffer))
  /\ UNCHANGED <<vc, out, shells, stdin, pc, free_fds, typedVars>>

-----------------------------------------------------------------------------
(* What the words of the line do.                                          *)
Command == IF argv = <<>> THEN <<>> ELSE argv[1]
Ran == [shells EXCEPT ![Len(shells)].lines = @ + 1]

(* The streams a shell with these arguments opens: the last one counts,    *)
(* none is ever closed, and the first that cannot be opened ends it.       *)
Openable(args) ==
  LET bad == {i \in DOMAIN args : args[i] \notin DOMAIN Scripts \/ i > free_fds}
  IN  IF bad = {} THEN Len(args) ELSE Min(bad) - 1

builtin_shell ==
  /\ Command = <<"s">>
  /\ LET args == Tail(argv)
         opened == Openable(args)
     IN  /\ free_fds' = free_fds - opened
         /\ IF opened < Len(args)
            THEN Say(<<"!", "NL">>) /\ shells' = Ran /\ pc' = "prompt"
            ELSE /\ shells' = Append(Ran, IF args = <<>> THEN Interactive ELSE Reads(Last(args)))
                 /\ pc' = "prompt" /\ Say(<<>>)
  /\ UNCHANGED <<vc, stdin, buffer, argv, typedVars>>

builtin_exit ==
  /\ Command = <<"q">>
  /\ shells' = [Ran EXCEPT ![Len(shells)].ready = TRUE] /\ pc' = "prompt"
  /\ UNCHANGED <<vc, out, stdin, buffer, argv, free_fds, typedVars>>

(* What echo prints: words with a space between them.                      *)
Joined(words) ==
  LET text[n \in 0 .. Len(words)] ==
        IF n = 0 THEN <<>>
        ELSE IF text[n - 1] = <<>> THEN words[n] ELSE text[n - 1] \o <<SPACE>> \o words[n]
  IN  text[Len(words)]

(* The commands that only print: echo, cat, and those that are not found.  *)
Prints ==
  /\ Command \notin {<<"s">>, <<"q">>}
  /\ Say(IF argv = <<>> THEN <<>>
         ELSE IF Command = <<"e">> THEN Joined(Tail(argv)) \o <<"NL">>
         ELSE IF Command = <<"c">> /\ free_fds > 0 THEN Greeting
         ELSE Command \o <<"!", "NL">>)
  /\ shells' = Ran /\ pc' = "prompt"
  /\ UNCHANGED <<vc, stdin, buffer, argv, free_fds, typedVars>>

Run == pc = "run" /\ ~More /\ (builtin_shell \/ builtin_exit \/ Prints)

-----------------------------------------------------------------------------
(* shell_run, with or without a startup script.                            *)
Init ==
  /\ vc = NewConsole /\ out = <<"ESC", "[", "2", "J">>
  /\ free_fds \in Fds
  /\ shells \in IF free_fds > 0 THEN {<<Interactive>>, <<Reads(Startup)>>} ELSE {<<Interactive>>}
  /\ stdin = NoText /\ pc = "prompt" /\ buffer = <<>> /\ argv = <<>>
  /\ keys = 0 /\ typed = <<>> /\ line = <<>> /\ start = 0 /\ odd = FALSE

Work ==
  \/ console_putchar
  \/ out = <<>> /\ (shell_print_prompt \/ Exit \/ fgetc \/ ReadStdin \/ ReadScript \/ CutWord \/ Run)

Next == Work \/ \E k \in Keys : TypeKey(k)

Spec == Init /\ [][Next]_vars

(* The thread of the shell runs in its turn; nobody has to type.           *)
FairSpec == Spec /\ WF_vars(Work)

-----------------------------------------------------------------------------
(* The cursor is always in the window, so that nothing is drawn below it;  *)
(* so the rows that a scroll brings in are blank.                          *)
WindowKept ==
  /\ vc.cur_row \in 0 .. H - 1 /\ vc.cur_col \in 0 .. W - 1
  /\ \A c \in Cells : c >= H * W => vc.fb[c] = BLANK

(* While a line is typed the buffer holds what has been typed and not been *)
(* erased, and so does the screen, from the end of the prompt to the       *)
(* cursor; unless the line was too long for the window.                    *)
EchoIsLine ==
  pc = "read" /\ ~odd =>
    /\ vc.line_buffer = typed
    /\ Cell(vc.cur_row, vc.cur_col) = start + Len(typed)
    /\ \A i \in DOMAIN typed : vc.fb[start + i - 1] = typed[i]

(* Where the words of a text start: the first at once, the others behind a *)
(* space; and the word that starts at i.                                   *)
Starts(s) == {i \in DOMAIN s : i = 1 \/ (s[i] # SPACE /\ s[i - 1] = SPACE)}
WordAt(s, i) == SubSeq(s, i, Min({j \in i .. Len(s) : s[j] = SPACE} \cup {Len(s) + 1}) - 1)

(* These are the words of the text, in order, all or the first MAX_ARGC.   *)
AreWords(words, s) ==
  \E at \in [DOMAIN words -> DOMAIN s] :
    /\ Len(words) <= MAX_ARGC
    /\ \A n \in DOMAIN words : at[n] \in Starts(s) /\ words[n] = WordAt(s, at[n])
    /\ \A m, n \in DOMAIN words : m < n => at[m] < at[n]
    /\ \A i \in Starts(s) : \/ \E n \in DOMAIN words : at[n] = i
                            \/ Len(words) = MAX_ARGC /\ \A n \in DOMAIN words : at[n] < i

(* The lines of a script: where the n-th ends, and what it is.             *)
NextEnd(text, i) == Min({j \in i + 1 .. Len(text) : text[j] = "NL"} \cup {Len(text) + 1})
LineEnd(text, n) ==
  LET end[k \in 0 .. n] == IF k = 0 THEN 0 ELSE NextEnd(text, end[k - 1]) IN end[n]
NthLine(text, n) == SubSeq(text, LineEnd(text, n - 1) + 1, LineEnd(text, n) - 1)

(* No line is too long for the buffer of the shell, and what follows the   *)
(* last one does not fill it.                                              *)
LinesFit(text) ==
  \A i \in 0 .. Len(text) : i = 0 \/ text[i] = "NL" =>
    i + BUFSIZE - 1 > Len(text) \/ \E j \in i + 1 .. i + BUFSIZE - 1 : text[j] = "NL"

(* What a shell runs is the line that was last typed, or the next line of  *)
(* its script, and that one ends, whatever shells and scripts have run in  *)
(* between; unless the line was too long: then it is run in pieces.        *)
CommandsAreLines ==
  pc = "run" /\ ~More =>
    IF Current.input = Stdin THEN ~odd => AreWords(argv, line)
    ELSE LET text == Scripts[Current.input]
         IN  LinesFit(text) => /\ LineEnd(text, Current.lines + 1) <= Len(text)
                               /\ AreWords(argv, NthLine(text, Current.lines + 1))

===============================================================================
