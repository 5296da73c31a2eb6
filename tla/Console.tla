-------------------------------- MODULE Console -------------------------------
(***************************************************************************)
(* The virtual console: the cursor and the window of virtual_console.c,    *)
(* the escape sequences of virtual_console_ansi.c, the line buffer of      *)
(* virtual_console_line_mode.c and the memory of video.c.  A console is a  *)
(* record and each function one operator on it.  Two state machines, "ansi"*)
(* for what is written and "line" for what is typed, share the cursor.     *)
(* Colours are left out.                                                   *)
(***************************************************************************)
EXTENDS Integers, Sequences, SequencesExt

CONSTANTS
  H, W     \* win_height and win_width

ASSUME ConsoleAssumption == H \in Nat \ {0} /\ W \in Nat \ {0}

ANSI_NUMERIC_PREFIX_DEPTH == 4
Machines == {"ansi", "line"}
BLANK == ""
SPACE == " "

(* The video memory goes on below the window.                              *)
Cells == 0 .. 2 * H * W - 1
Cell(row, col) == row * W + col

Clamped(n, max) == IF n < 0 THEN 0 ELSE IF n > max THEN max ELSE n

(* virtual_console_device_init, over a memory the firmware has cleared.    *)
NewConsole ==
  [cur_row |-> 0, cur_col |-> 0,
   fb |-> [c \in Cells |-> BLANK],
   state |-> [sm \in Machines |-> "normal"],
   prefixes |-> [sm \in Machines |-> <<0>>],
   line_buffer |-> <<>>]

-----------------------------------------------------------------------------
(* video_scroll over the rows of the window, up: the rows below it come in *)
(* and are cleared.                                                        *)
video_scroll(vc, lines) ==
  [vc EXCEPT !.fb = [c \in Cells |->
     IF c < H * W THEN vc.fb[c + lines * W] ELSE IF c < (H + lines) * W THEN BLANK ELSE vc.fb[c]]]

cls(vc) == [video_scroll(vc, H) EXCEPT !.cur_row = 0, !.cur_col = 0]

(* virtual_console_reset                                                   *)
reset(vc) == cls([vc EXCEPT !.state["ansi"] = "normal"])

new_line(vc) ==
  LET left == [vc EXCEPT !.cur_col = 0]
  IN  IF vc.cur_row >= H - 1 THEN video_scroll(left, 1) ELSE [left EXCEPT !.cur_row = @ + 1]

draw_char(vc, ch, row, col) == [vc EXCEPT !.fb[Cell(row, col)] = ch]

(* Mutant: the cursor stops behind the last column.                        *)
move_cursor_far(vc, rrow, rcol) ==
  [vc EXCEPT !.cur_row = Clamped(@ + rrow, H), !.cur_col = Clamped(@ + rcol, W)]

move_cursor(vc, rrow, rcol) ==
  [vc EXCEPT !.cur_row = Clamped(@ + rrow, H - 1), !.cur_col = Clamped(@ + rcol, W - 1)]

add_to_buffer(vc, ch) == [vc EXCEPT !.line_buffer = Append(@, ch)]

-----------------------------------------------------------------------------
(* The operations of the two machines, where they differ.                  *)
NewLine(vc, sm) ==
  IF sm = "line" THEN add_to_buffer(new_line(vc), "NL") ELSE new_line(vc)

(* Mutant: the prompt can be erased.                                       *)
BackspaceAll(vc, sm) ==
  IF sm = "line"
  THEN LET back == move_cursor([vc EXCEPT !.line_buffer = SubSeq(@, 1, Len(@) - 1)], 0, -1)
       IN  draw_char(back, SPACE, back.cur_row, back.cur_col)
  ELSE vc

Backspace(vc, sm) ==
  IF sm = "line" /\ vc.line_buffer # <<>>
  THEN LET back == move_cursor([vc EXCEPT !.line_buffer = SubSeq(@, 1, Len(@) - 1)], 0, -1)
       IN  draw_char(back, SPACE, back.cur_row, back.cur_col)
  ELSE vc

DrawChar(vc, ch, sm) ==
  draw_char(IF sm = "line" THEN add_to_buffer(vc, ch) ELSE vc, ch, vc.cur_row, vc.cur_col)

(* In line mode the cursor keys and an erased screen only make a noise.    *)
MoveCursor(vc, rrow, rcol, sm) == IF sm = "line" THEN vc ELSE move_cursor(vc, rrow, rcol)
Cls(vc, sm) == IF sm = "line" THEN vc ELSE cls(vc)

-----------------------------------------------------------------------------
state_normal(vc, ch, sm) ==
  CASE ch = "ESC" -> [vc EXCEPT !.state[sm] = "escaped"]
    [] ch \in {"NL", "CR"} -> NewLine(vc, sm)
    [] ch = "DEL" -> Backspace(vc, sm)
    [] OTHER -> LET drawn == [DrawChar(vc, ch, sm) EXCEPT !.cur_col = @ + 1]
                IN  IF drawn.cur_col >= W THEN NewLine(drawn, sm) ELSE drawn

Normal(vc, sm) == [vc EXCEPT !.state[sm] = "normal"]

(* ESC c resets, and is then an unknown escape.                            *)
state_escaped(vc, ch, sm) ==
  CASE ch = "[" -> [vc EXCEPT !.state[sm] = "escbracket", !.prefixes[sm] = <<0>>]
    [] ch = "c" -> Normal(reset(vc), sm)
    [] OTHER -> Normal(vc, sm)

Digit == [d \in {"0", "1", "2", "9"} |->
            CASE d = "0" -> 0 [] d = "1" -> 1 [] d = "2" -> 2 [] d = "9" -> 9]

(* The last parameter is the one that counts; m takes them all, from the   *)
(* last on.                                                                *)
state_escbracket(vc, ch, sm) ==
  LET p == vc.prefixes[sm]
      n == IF Last(p) = 0 THEN 1 ELSE Last(p)
  IN  CASE ch \in DOMAIN Digit -> [vc EXCEPT !.prefixes[sm][Len(p)] = @ * 10 + Digit[ch]]
        [] ch = ";" -> IF Len(p) < ANSI_NUMERIC_PREFIX_DEPTH
                       THEN [vc EXCEPT !.prefixes[sm] = Append(p, 0)] ELSE Normal(vc, sm)
        [] ch = "A" -> Normal(MoveCursor(vc, -n, 0, sm), sm)
        [] ch = "B" -> Normal(MoveCursor(vc, n, 0, sm), sm)
        [] ch = "C" -> Normal(MoveCursor(vc, 0, n, sm), sm)
        [] ch = "D" -> Normal(MoveCursor(vc, 0, -n, sm), sm)
        [] ch = "J" -> Normal(IF Last(p) = 2 THEN Cls(vc, sm) ELSE vc, sm)
        [] OTHER -> Normal(vc, sm)

virtual_console_putchar_sm(vc, ch, sm) ==
  CASE vc.state[sm] = "normal" -> state_normal(vc, ch, sm)
    [] vc.state[sm] = "escaped" -> state_escaped(vc, ch, sm)
    [] vc.state[sm] = "escbracket" -> state_escbracket(vc, ch, sm)

(* The prefixes mean something only inside a sequence.                     *)
Settled(vc, sm) == IF vc.state[sm] = "escbracket" THEN vc ELSE [vc EXCEPT !.prefixes[sm] = <<0>>]

(* virtual_console_write of one character, as printf writes them.          *)
Put(vc, ch) == Settled(virtual_console_putchar_sm(vc, ch, "ansi"), "ansi")

(* virtual_console_read in line mode: how it starts,                       *)
StartLine(vc) == [vc EXCEPT !.state["line"] = "normal", !.prefixes["line"] = <<0>>, !.line_buffer = <<>>]

(* what it does with a character,                                          *)
TakeKey(vc, ch) == Settled(virtual_console_putchar_sm(vc, ch, "line"), "line")

(* when it returns,                                                        *)
LineEnds(vc, ch, len) == ch = "CR" \/ Len(vc.line_buffer) >= len

(* and what it returns.                                                    *)
Line(vc, len) == SubSeq(vc.line_buffer, 1, IF Len(vc.line_buffer) < len THEN Len(vc.line_buffer) ELSE len)
===============================================================================
