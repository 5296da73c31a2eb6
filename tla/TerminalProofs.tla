----------------------------- MODULE TerminalProofs ----------------------------
(***************************************************************************)
(* Whatever is printed and typed, the cursor stays in the window; the      *)
(* screen shows the line that is being typed; and what the shells run are  *)
(* the lines that were typed and those of their scripts.                   *)
(***************************************************************************)
EXTENDS Terminal, SequenceTheorems, TLAPS, WellFoundedInduction

-----------------------------------------------------------------------------
(* The console.                                                            *)
Shown == Glyphs \cup {BLANK}
States == {"normal", "escaped", "escbracket"}

Consoles ==
  [cur_row : 0 .. H - 1, cur_col : 0 .. W - 1, fb : [Cells -> Shown],
   state : [Machines -> States], prefixes : [Machines -> Seq(Nat) \ {<<>>}],
   line_buffer : Seq(Glyphs)]

Below(fb) == \A c \in Cells : c >= H * W => fb[c] = BLANK

Screens == {v \in Consoles : Below(v.fb)}

LEMMA Sizes == H \in Nat /\ W \in Nat /\ H >= 1 /\ W >= 1
BY ConsoleAssumption

LEMMA Product ==
  ASSUME NEW a \in Nat, NEW b \in Nat, NEW m \in Nat, a <= b
  PROVE  a * m \in Nat /\ a * m <= b * m
<1>1. PICK d \in Nat : b = a + d
  <2>1. b - a \in Nat /\ b = a + (b - a)
    OBVIOUS
  <2>2. QED
    BY <2>1
<1>2. b * m = a * m + d * m /\ a * m \in Nat /\ d * m \in Nat
  BY <1>1
<1>3. QED
  BY <1>2

(* The numbers of the cells.                                               *)
LEMMA Areas ==
  /\ H * W \in Nat /\ Cells = 0 .. H * W + H * W - 1
  /\ \A lines \in {1, H} : lines * W \in Nat /\ lines * W <= H * W /\ (H + lines) * W = H * W + lines * W
<1>1. H * W \in Nat /\ 2 * H * W = H * W + H * W
  BY Sizes
<1>2. ASSUME NEW lines \in {1, H}
      PROVE  lines * W \in Nat /\ lines * W <= H * W /\ (H + lines) * W = H * W + lines * W
  <2>1. lines \in Nat /\ lines <= H
    BY Sizes
  <2>2. QED
    BY <2>1, Sizes, Product
<1>3. QED
  BY <1>1, <1>2 DEF Cells

LEMMA CellInside ==
  ASSUME NEW row \in 0 .. H - 1, NEW col \in 0 .. W - 1
  PROVE  Cell(row, col) \in Cells /\ Cell(row, col) \in Nat /\ Cell(row, col) < H * W
<1>1. row \in Nat /\ row + 1 \in Nat /\ row + 1 <= H /\ H \in Nat /\ W \in Nat
  BY Sizes
<1>2. (row + 1) * W <= H * W /\ (row + 1) * W = row * W + W /\ row * W \in Nat
  BY <1>1, Product
<1>3. H * W \in Nat
  BY Areas
<1>4. Cell(row, col) \in Nat /\ Cell(row, col) < H * W
  BY <1>2, <1>3, Sizes DEF Cell
<1>5. QED
  BY <1>3, <1>4, Areas

LEMMA ClampedIn ==
  ASSUME NEW n \in Int, NEW m \in Nat
  PROVE  Clamped(n, m) \in 0 .. m
BY DEF Clamped

LEMMA Scrolled ==
  ASSUME NEW v \in Screens, NEW lines \in {1, H}
  PROVE  video_scroll(v, lines) \in Screens
<1> DEFINE F == [c \in Cells |-> IF c < H * W THEN v.fb[c + lines * W]
                                 ELSE IF c < (H + lines) * W THEN BLANK ELSE v.fb[c]]
<1>1. v \in Consoles /\ v.fb \in [Cells -> Shown] /\ Below(v.fb)
  BY DEF Screens, Consoles
<1>2. BLANK \in Shown
  BY DEF Shown
<1>3. \A c \in Cells : c < H * W => c + lines * W \in Cells
  BY Areas
<1>4. F \in [Cells -> Shown]
  BY <1>1, <1>2, <1>3
<1>5. Below(F)
  <2> SUFFICES ASSUME NEW c \in Cells, c >= H * W
               PROVE  F[c] = BLANK
    BY DEF Below
  <2>1. ~(c < H * W)
    BY Areas
  <2>2. QED
    BY <1>1, <2>1 DEF Below
<1>6. video_scroll(v, lines) = [v EXCEPT !.fb = F]
  BY DEF video_scroll
<1> HIDE DEF F
<1>7. video_scroll(v, lines) \in Consoles /\ video_scroll(v, lines).fb = F
  BY <1>1, <1>4, <1>6 DEF Consoles
<1>8. QED
  BY <1>5, <1>7 DEF Screens

(* Where the cursor may be put.                                            *)
LEMMA Moved ==
  ASSUME NEW v \in Screens, NEW row \in 0 .. H - 1, NEW col \in 0 .. W - 1
  PROVE  [v EXCEPT !.cur_row = row, !.cur_col = col] \in Screens
<1>1. v \in Consoles /\ Below(v.fb)
  BY DEF Screens
<1>2. PICK u : u = [v EXCEPT !.cur_row = row, !.cur_col = col]
  OBVIOUS
<1>3. u \in Consoles /\ u.fb = v.fb
  BY <1>1, <1>2 DEF Consoles
<1>4. QED
  BY <1>1, <1>2, <1>3 DEF Screens

IsDrawn(w, v, ch, row, col) ==
  /\ w \in Screens
  /\ w.fb = [v.fb EXCEPT ![Cell(row, col)] = ch]
  /\ w.cur_row = v.cur_row /\ w.cur_col = v.cur_col
  /\ w.state = v.state /\ w.line_buffer = v.line_buffer

LEMMA Drawn ==
  ASSUME NEW v \in Screens, NEW ch \in Shown, NEW row \in 0 .. H - 1, NEW col \in 0 .. W - 1
  PROVE  IsDrawn(draw_char(v, ch, row, col), v, ch, row, col)
<1>1. v \in Consoles /\ Below(v.fb) /\ v.fb \in [Cells -> Shown]
  BY DEF Screens, Consoles
<1>2. PICK c \in Cells : c = Cell(row, col) /\ c \in Nat /\ c < H * W
  BY CellInside
<1>3. PICK f : f = [v.fb EXCEPT ![c] = ch]
  OBVIOUS
<1>4. f \in [Cells -> Shown] /\ Below(f)
  <2>1. f \in [Cells -> Shown] /\ \A d \in Cells : d # c => f[d] = v.fb[d]
    BY <1>1, <1>2, <1>3
  <2>2. ASSUME NEW d \in Cells, d >= H * W
        PROVE  f[d] = BLANK
    <3>1. d # c
      BY <1>2, <2>2, Areas
    <3>2. QED
      BY <1>1, <2>1, <2>2, <3>1 DEF Below
  <2>3. QED
    BY <2>1, <2>2 DEF Below
<1>5. draw_char(v, ch, row, col) = [v EXCEPT !.fb = f]
  BY <1>1, <1>2, <1>3 DEF draw_char, Consoles
<1>6. PICK w : w = [v EXCEPT !.fb = f]
  OBVIOUS
<1>7. /\ w \in Consoles /\ w.fb = f /\ w.cur_row = v.cur_row /\ w.cur_col = v.cur_col
      /\ w.state = v.state /\ w.line_buffer = v.line_buffer
  BY <1>1, <1>4, <1>6 DEF Consoles
<1>8. w \in Screens
  BY <1>4, <1>7 DEF Screens
<1>9. draw_char(v, ch, row, col) = w
  BY <1>5, <1>6
<1>10. QED
  BY <1>2, <1>3, <1>7, <1>8, <1>9 DEF IsDrawn

(* What the machines keep beside the screen.                               *)
LEMMA Remembered ==
  ASSUME NEW v \in Screens, NEW st \in [Machines -> States],
         NEW p \in [Machines -> Seq(Nat) \ {<<>>}], NEW lb \in Seq(Glyphs)
  PROVE  [v EXCEPT !.state = st, !.prefixes = p, !.line_buffer = lb] \in Screens
<1>1. v \in Consoles /\ Below(v.fb)
  BY DEF Screens
<1>2. PICK u : u = [v EXCEPT !.state = st, !.prefixes = p, !.line_buffer = lb]
  OBVIOUS
<1>3. u \in Consoles /\ u.fb = v.fb
  BY <1>1, <1>2 DEF Consoles
<1>4. QED
  BY <1>1, <1>2, <1>3 DEF Screens

(* A new line, from the window or from just behind its last column.        *)
LEMMA NewLined ==
  ASSUME NEW v \in Screens, NEW n
  PROVE  /\ new_line([v EXCEPT !.cur_col = n]) \in Screens
         /\ new_line([v EXCEPT !.cur_col = n]).line_buffer = v.line_buffer
<1>0. v \in Consoles /\ v.cur_row \in 0 .. H - 1 /\ 0 \in 0 .. W - 1
  BY Sizes DEF Screens, Consoles
<1>1. PICK u : u = [v EXCEPT !.cur_row = v.cur_row, !.cur_col = 0]
  OBVIOUS
<1>2. u \in Screens /\ u.line_buffer = v.line_buffer /\ u.cur_row = v.cur_row
  BY <1>0, <1>1, Moved DEF Consoles
<1>3. u = [v EXCEPT !.cur_col = 0]
  BY <1>0, <1>1 DEF Consoles
<1>4. PICK a : a = [v EXCEPT !.cur_col = n]
  OBVIOUS
<1>5. [a EXCEPT !.cur_col = 0] = u /\ a.cur_row = v.cur_row
  BY <1>0, <1>3, <1>4 DEF Consoles
<1>6. CASE v.cur_row >= H - 1
  <2>1. new_line(a) = video_scroll(u, 1)
    BY <1>5, <1>6 DEF new_line
  <2>2. video_scroll(u, 1) \in Screens
    BY <1>2, Scrolled
  <2>3. video_scroll(u, 1).line_buffer = u.line_buffer
    BY <1>2 DEF video_scroll, Screens, Consoles
  <2>4. QED
    BY <1>2, <1>4, <2>1, <2>2, <2>3
<1>7. CASE ~(v.cur_row >= H - 1)
  <2>1. v.cur_row + 1 \in 0 .. H - 1
    BY <1>0, <1>7, Sizes
  <2>2. PICK w : w = [u EXCEPT !.cur_row = v.cur_row + 1, !.cur_col = 0]
    OBVIOUS
  <2>3. w \in Screens /\ w.line_buffer = u.line_buffer
    BY <1>0, <1>2, <2>1, <2>2, Moved DEF Screens, Consoles
  <2>4. w = [u EXCEPT !.cur_row = @ + 1]
    BY <1>0, <1>1, <2>2 DEF Consoles
  <2>5. new_line(a) = w
    BY <1>5, <1>7, <2>4 DEF new_line
  <2>6. QED
    BY <1>2, <1>4, <2>3, <2>5
<1>8. QED
  BY <1>6, <1>7

LEMMA SameColumn ==
  ASSUME NEW v \in Screens
  PROVE  [v EXCEPT !.cur_col = v.cur_col] = v
BY DEF Screens, Consoles

LEMMA NewLineIn ==
  ASSUME NEW v \in Screens
  PROVE  new_line(v) \in Screens /\ new_line(v).line_buffer = v.line_buffer
<1>1. PICK n : n = v.cur_col
  OBVIOUS
<1>2. [v EXCEPT !.cur_col = n] = v
  BY <1>1, SameColumn
<1>3. QED
  BY <1>2, NewLined

LEMMA ClsIn ==
  ASSUME NEW v \in Screens
  PROVE  cls(v) \in Screens
<1>1. PICK u \in Screens : u = video_scroll(v, H)
  BY Scrolled
<1>2. cls(v) = [u EXCEPT !.cur_row = 0, !.cur_col = 0]
  BY <1>1 DEF cls
<1>3. 0 \in 0 .. H - 1 /\ 0 \in 0 .. W - 1
  BY Sizes
<1>4. QED
  BY <1>2, <1>3, Moved

LEMMA CursorMoved ==
  ASSUME NEW v \in Screens, NEW r \in Int, NEW c \in Int
  PROVE  /\ move_cursor(v, r, c) \in Screens
         /\ move_cursor(v, r, c).cur_row = Clamped(v.cur_row + r, H - 1)
         /\ move_cursor(v, r, c).cur_col = Clamped(v.cur_col + c, W - 1)
         /\ move_cursor(v, r, c).fb = v.fb /\ move_cursor(v, r, c).state = v.state
         /\ move_cursor(v, r, c).line_buffer = v.line_buffer
<1>1. v.cur_row \in Int /\ v.cur_col \in Int /\ H - 1 \in Nat /\ W - 1 \in Nat /\ v \in Consoles
  BY Sizes DEF Screens, Consoles
<1>2. PICK n \in Int : n = v.cur_row + r
  BY <1>1
<1>3. PICK m \in Int : m = v.cur_col + c
  BY <1>1
<1>4. PICK row : row = Clamped(n, H - 1)
  OBVIOUS
<1>5. PICK col : col = Clamped(m, W - 1)
  OBVIOUS
<1>6. row \in 0 .. H - 1 /\ col \in 0 .. W - 1
  BY <1>1, <1>4, <1>5, ClampedIn
<1>7. move_cursor(v, r, c) = [v EXCEPT !.cur_row = Clamped(n, H - 1), !.cur_col = Clamped(m, W - 1)]
  BY <1>1, <1>2, <1>3 DEF move_cursor, Consoles
<1>8. [v EXCEPT !.cur_row = row, !.cur_col = col] \in Screens
  BY <1>6, Moved
<1>9. move_cursor(v, r, c) = [v EXCEPT !.cur_row = row, !.cur_col = col]
  BY <1>4, <1>5, <1>7, Zenon
<1>10. PICK w \in Screens : w = [v EXCEPT !.cur_row = row, !.cur_col = col]
  BY <1>8
<1>11. w.cur_row = row /\ w.cur_col = col /\ w.fb = v.fb /\ w.state = v.state /\ w.line_buffer = v.line_buffer
  BY <1>1, <1>10 DEF Consoles
<1>12. move_cursor(v, r, c) = w
  BY <1>9, <1>10
<1>13. QED
  BY <1>2, <1>3, <1>4, <1>5, <1>10, <1>11, <1>12, Zenon

(* Only the buffer of the line changes.                                    *)
LEMMA Buffered ==
  ASSUME NEW v \in Screens, NEW lb \in Seq(Glyphs)
  PROVE  [v EXCEPT !.line_buffer = lb] \in Screens
<1>1. PICK st \in [Machines -> States] : st = v.state
  BY DEF Screens, Consoles
<1>2. PICK p \in [Machines -> Seq(Nat) \ {<<>>}] : p = v.prefixes
  BY DEF Screens, Consoles
<1>3. [v EXCEPT !.line_buffer = lb] = [v EXCEPT !.state = st, !.prefixes = p, !.line_buffer = lb]
  BY <1>1, <1>2 DEF Screens, Consoles
<1>4. QED
  BY <1>3, Remembered

(* Only the state of one machine and its prefixes change.                  *)
LEMMA Stated ==
  ASSUME NEW v \in Screens, NEW sm \in Machines, NEW s \in States, NEW q \in Seq(Nat) \ {<<>>}
  PROVE  /\ [v EXCEPT !.state[sm] = s] \in Screens
         /\ [v EXCEPT !.prefixes[sm] = q] \in Screens
         /\ [v EXCEPT !.state[sm] = s, !.prefixes[sm] = q] \in Screens
<1>0. v \in Consoles
  BY DEF Screens
<1>1. PICK st \in [Machines -> States] : st = [v.state EXCEPT ![sm] = s]
  BY <1>0 DEF Consoles
<1>2. PICK p \in [Machines -> Seq(Nat) \ {<<>>}] : p = [v.prefixes EXCEPT ![sm] = q]
  BY <1>0 DEF Consoles
<1>3. PICK os \in [Machines -> States] : os = v.state
  BY <1>0 DEF Consoles
<1>4. PICK op \in [Machines -> Seq(Nat) \ {<<>>}] : op = v.prefixes
  BY <1>0 DEF Consoles
<1>5. PICK lb \in Seq(Glyphs) : lb = v.line_buffer
  BY <1>0 DEF Consoles
<1>6. [v EXCEPT !.state[sm] = s] = [v EXCEPT !.state = st, !.prefixes = op, !.line_buffer = lb]
  BY <1>0, <1>1, <1>4, <1>5 DEF Consoles
<1>7. [v EXCEPT !.prefixes[sm] = q] = [v EXCEPT !.state = os, !.prefixes = p, !.line_buffer = lb]
  BY <1>0, <1>2, <1>3, <1>5 DEF Consoles
<1>8. [v EXCEPT !.state[sm] = s, !.prefixes[sm] = q] = [v EXCEPT !.state = st, !.prefixes = p, !.line_buffer = lb]
  BY <1>0, <1>1, <1>2, <1>5 DEF Consoles
<1>9. [v EXCEPT !.state[sm] = s] \in Screens
  <2>1. [v EXCEPT !.state = st, !.prefixes = op, !.line_buffer = lb] \in Screens
    BY Remembered
  <2>2. QED
    BY <1>6, <2>1, Zenon
<1>10. [v EXCEPT !.prefixes[sm] = q] \in Screens
  <2>1. [v EXCEPT !.state = os, !.prefixes = p, !.line_buffer = lb] \in Screens
    BY Remembered
  <2>2. QED
    BY <1>7, <2>1, Zenon
<1>11. [v EXCEPT !.state[sm] = s, !.prefixes[sm] = q] \in Screens
  <2>1. [v EXCEPT !.state = st, !.prefixes = p, !.line_buffer = lb] \in Screens
    BY Remembered
  <2>2. QED
    BY <1>8, <2>1, Zenon
<1>12. QED
  BY <1>9, <1>10, <1>11

LEMMA NormalIn ==
  ASSUME NEW v \in Screens, NEW sm \in Machines
  PROVE  Normal(v, sm) \in Screens
<1>1. "normal" \in States /\ <<0>> \in Seq(Nat) \ {<<>>}
  BY DEF States
<1>2. QED
  BY <1>1, Stated DEF Normal

LEMMA SettledIn ==
  ASSUME NEW v \in Screens, NEW sm \in Machines
  PROVE  Settled(v, sm) \in Screens
<1>1. "normal" \in States /\ <<0>> \in Seq(Nat) \ {<<>>}
  BY DEF States
<1>2. QED
  BY <1>1, Stated DEF Settled

-----------------------------------------------------------------------------
(* The two machines: what is written and what is typed.                    *)
Input == Glyphs \cup {"CR", "DEL"}

LEMMA GlyphsKnown ==
  {"ESC", "[", "2", "J", "A", SPACE, "NL", "!"} \subseteq Glyphs /\ Glyphs \subseteq Shown /\ Glyphs \subseteq Input
BY TerminalAssumption DEF Shown, Input

LEMMA AddedToBuffer ==
  ASSUME NEW v \in Screens, NEW ch \in Glyphs
  PROVE  add_to_buffer(v, ch) \in Screens /\ add_to_buffer(v, ch).line_buffer = Append(v.line_buffer, ch)
<1>1. v.line_buffer \in Seq(Glyphs) /\ v \in Consoles
  BY DEF Screens, Consoles
<1>2. PICK lb \in Seq(Glyphs) : lb = Append(v.line_buffer, ch)
  <2>1. Append(v.line_buffer, ch) \in Seq(Glyphs)
    BY <1>1
  <2>2. QED
    BY <2>1
<1>3. add_to_buffer(v, ch) = [v EXCEPT !.line_buffer = lb]
  BY <1>1, <1>2 DEF add_to_buffer, Consoles
<1>4. [v EXCEPT !.line_buffer = lb] \in Screens
  BY Buffered
<1>5. [v EXCEPT !.line_buffer = lb].line_buffer = lb
  BY <1>1 DEF Consoles
<1>6. QED
  BY <1>2, <1>3, <1>4, <1>5, Zenon

(* A new line from column n, and that of the line mode.                    *)
LEMMA NewLineOK ==
  ASSUME NEW v \in Screens, NEW n, NEW sm \in Machines
  PROVE  /\ NewLine([v EXCEPT !.cur_col = n], sm) \in Screens
         /\ sm = "line" => NewLine([v EXCEPT !.cur_col = n], sm).line_buffer = Append(v.line_buffer, "NL")
<1>1. PICK w : w = new_line([v EXCEPT !.cur_col = n])
  OBVIOUS
<1>2. w \in Screens /\ w.line_buffer = v.line_buffer
  BY <1>1, NewLined
<1>3. add_to_buffer(w, "NL") \in Screens /\ add_to_buffer(w, "NL").line_buffer = Append(w.line_buffer, "NL")
  BY <1>2, AddedToBuffer, GlyphsKnown
<1>4. NewLine([v EXCEPT !.cur_col = n], sm) = IF sm = "line" THEN add_to_buffer(w, "NL") ELSE w
  BY <1>1 DEF NewLine
<1>5. QED
  BY <1>2, <1>3, <1>4

LEMMA NewLineHere ==
  ASSUME NEW v \in Screens, NEW sm \in Machines
  PROVE  NewLine(v, sm) \in Screens /\ (sm = "line" => NewLine(v, sm).line_buffer = Append(v.line_buffer, "NL"))
<1>1. PICK n : n = v.cur_col
  OBVIOUS
<1>2. [v EXCEPT !.cur_col = n] = v
  BY <1>1, SameColumn
<1>3. QED
  BY <1>2, NewLineOK

(* A character drawn where the cursor is.                                  *)
LEMMA DrawCharOK ==
  ASSUME NEW v \in Screens, NEW ch \in Glyphs, NEW sm \in Machines
  PROVE  LET w == DrawChar(v, ch, sm)
         IN  /\ w \in Screens
             /\ w.cur_row = v.cur_row /\ w.cur_col = v.cur_col /\ w.state = v.state
             /\ w.fb = [v.fb EXCEPT ![Cell(v.cur_row, v.cur_col)] = ch]
             /\ w.line_buffer = IF sm = "line" THEN Append(v.line_buffer, ch) ELSE v.line_buffer
<1>1. PICK u : u = IF sm = "line" THEN add_to_buffer(v, ch) ELSE v
  OBVIOUS
<1>2. u \in Screens /\ u.line_buffer = IF sm = "line" THEN Append(v.line_buffer, ch) ELSE v.line_buffer
  BY <1>1, AddedToBuffer
<1>3. u.cur_row = v.cur_row /\ u.cur_col = v.cur_col /\ u.state = v.state /\ u.fb = v.fb
  BY <1>1 DEF add_to_buffer, Screens, Consoles
<1>4. v.cur_row \in 0 .. H - 1 /\ v.cur_col \in 0 .. W - 1 /\ ch \in Shown
  BY GlyphsKnown DEF Screens, Consoles
<1>5. PICK w : w = draw_char(u, ch, v.cur_row, v.cur_col)
  OBVIOUS
<1>7. IsDrawn(w, u, ch, v.cur_row, v.cur_col)
  BY <1>2, <1>4, <1>5, Drawn
<1>8. DrawChar(v, ch, sm) = w
  BY <1>1, <1>5 DEF DrawChar
<1>9. QED
  BY <1>2, <1>3, <1>7, <1>8 DEF IsDrawn

(* A character that stands for itself.                                     *)
Plain == Glyphs \ {"ESC", "NL", "CR", "DEL"}

LEMMA PlainOK ==
  ASSUME NEW v \in Screens, NEW ch \in Plain, NEW sm \in Machines
  PROVE  LET w == state_normal(v, ch, sm)
         IN  /\ w \in Screens
             /\ sm = "line" /\ v.cur_col + 1 < W =>
                  /\ w.cur_row = v.cur_row /\ w.cur_col = v.cur_col + 1 /\ w.state = v.state
                  /\ w.fb = [v.fb EXCEPT ![Cell(v.cur_row, v.cur_col)] = ch]
                  /\ w.line_buffer = Append(v.line_buffer, ch)
             /\ sm = "line" /\ ~(v.cur_col + 1 < W) =>
                  w.line_buffer = Append(Append(v.line_buffer, ch), "NL")
<1>0. ch \in Glyphs /\ v.cur_col \in 0 .. W - 1 /\ v.cur_row \in 0 .. H - 1
  BY DEF Plain, Screens, Consoles
<1>1. PICK d : d = DrawChar(v, ch, sm)
  OBVIOUS
<1>2. /\ d \in Screens
      /\ d.cur_row = v.cur_row /\ d.cur_col = v.cur_col /\ d.state = v.state
      /\ d.fb = [v.fb EXCEPT ![Cell(v.cur_row, v.cur_col)] = ch]
      /\ d.line_buffer = IF sm = "line" THEN Append(v.line_buffer, ch) ELSE v.line_buffer
  BY <1>0, <1>1, DrawCharOK
<1>3. PICK n : n = v.cur_col + 1
  OBVIOUS
<1>4. PICK a : a = [d EXCEPT !.cur_col = n]
  OBVIOUS
<1>5. a.cur_col = n /\ a = [d EXCEPT !.cur_col = @ + 1]
  BY <1>2, <1>3, <1>4 DEF Screens, Consoles
<1>6. state_normal(v, ch, sm) = IF n >= W THEN NewLine(a, sm) ELSE a
  BY <1>1, <1>5 DEF state_normal, Plain
<1>7. CASE n >= W
  <2>1. NewLine(a, sm) \in Screens /\ (sm = "line" => NewLine(a, sm).line_buffer = Append(d.line_buffer, "NL"))
    BY <1>2, <1>4, NewLineOK
  <2>2. ~(v.cur_col + 1 < W)
    BY <1>0, <1>3, <1>7, Sizes
  <2>3. QED
    BY <1>2, <1>6, <1>7, <2>1, <2>2
<1>8. CASE ~(n >= W)
  <2>1. n \in 0 .. W - 1 /\ v.cur_col + 1 < W
    BY <1>0, <1>3, <1>8, Sizes
  <2>2. [d EXCEPT !.cur_row = v.cur_row, !.cur_col = n] \in Screens
    BY <1>0, <1>2, <2>1, Moved
  <2>3. [d EXCEPT !.cur_row = v.cur_row, !.cur_col = n] = a
    BY <1>2, <1>4 DEF Screens, Consoles
  <2>4. /\ a.cur_row = d.cur_row /\ a.state = d.state /\ a.fb = d.fb /\ a.line_buffer = d.line_buffer
    BY <1>2, <1>4 DEF Screens, Consoles
  <2>5. QED
    BY <1>2, <1>3, <1>5, <1>6, <1>8, <2>1, <2>2, <2>3, <2>4
<1>9. QED
  BY <1>7, <1>8

(* Erasing: the buffer and the cursor go back by one, unless the line is   *)
(* empty.                                                                  *)
LEMMA FrontOf ==
  ASSUME NEW S, NEW s \in Seq(S), s # <<>>
  PROVE  /\ SubSeq(s, 1, Len(s) - 1) \in Seq(S)
         /\ Len(SubSeq(s, 1, Len(s) - 1)) = Len(s) - 1 /\ Len(s) - 1 \in Nat
         /\ \A i \in 1 .. Len(s) - 1 : SubSeq(s, 1, Len(s) - 1)[i] = s[i]
<1>1. Len(s) \in Nat /\ Len(s) >= 1
  BY EmptySeq, LenProperties
<1>2. PICK n \in Nat : n = Len(s) - 1 /\ n <= Len(s)
  <2>1. Len(s) - 1 \in Nat /\ Len(s) - 1 <= Len(s)
    BY <1>1
  <2>2. QED
    BY <2>1
<1>3. \A i \in 1 .. n : s[i] \in S
  BY <1>2, ElementOfSeq
<1>4. SubSeq(s, 1, n) \in Seq(S) /\ Len(SubSeq(s, 1, n)) = n /\ \A i \in 1 .. n : SubSeq(s, 1, n)[i] = s[i]
  BY <1>2, <1>3, SubSeqProperties
<1>5. QED
  BY <1>2, <1>4

LEMMA BackspaceOK ==
  ASSUME NEW v \in Screens, NEW sm \in Machines
  PROVE  LET w == Backspace(v, sm)
         IN  /\ w \in Screens
             /\ sm = "line" /\ v.line_buffer = <<>> => w = v
             /\ sm = "line" /\ v.line_buffer # <<>> /\ v.cur_col >= 1 =>
                  /\ w.cur_row = v.cur_row /\ w.cur_col = v.cur_col - 1 /\ w.state = v.state
                  /\ w.fb = [v.fb EXCEPT ![Cell(v.cur_row, v.cur_col - 1)] = SPACE]
                  /\ w.line_buffer = SubSeq(v.line_buffer, 1, Len(v.line_buffer) - 1)
<1>1. CASE ~(sm = "line" /\ v.line_buffer # <<>>)
  BY <1>1 DEF Backspace
<1>2. CASE sm = "line" /\ v.line_buffer # <<>>
  <2>1. PICK lb \in Seq(Glyphs) : lb = SubSeq(v.line_buffer, 1, Len(v.line_buffer) - 1)
    <3>1. v.line_buffer \in Seq(Glyphs)
      BY DEF Screens, Consoles
    <3>2. SubSeq(v.line_buffer, 1, Len(v.line_buffer) - 1) \in Seq(Glyphs)
      BY <1>2, <3>1, FrontOf
    <3>3. QED
      BY <3>2
  <2>2. PICK u \in Screens : u = [v EXCEPT !.line_buffer = lb]
    BY Buffered
  <2>3. /\ u.line_buffer = lb /\ u.cur_row = v.cur_row /\ u.cur_col = v.cur_col /\ u.state = v.state
        /\ u.fb = v.fb /\ v.cur_row \in 0 .. H - 1 /\ v.cur_col \in 0 .. W - 1
    BY <2>2 DEF Screens, Consoles
  <2>4. PICK b : b = move_cursor(u, 0, -1)
    OBVIOUS
  <2>5. b \in Screens
    <3>1. -1 \in Int /\ 0 \in Int
      OBVIOUS
    <3>2. QED
      BY <2>2, <2>4, <3>1, CursorMoved
  <2>6. b.line_buffer = lb /\ b.fb = v.fb /\ b.state = v.state /\ b.cur_row = Clamped(u.cur_row + 0, H - 1)
        /\ b.cur_col = Clamped(u.cur_col + (-1), W - 1)
    <3>1. -1 \in Int /\ 0 \in Int
      OBVIOUS
    <3>2. /\ move_cursor(u, 0, -1).cur_row = Clamped(u.cur_row + 0, H - 1)
          /\ move_cursor(u, 0, -1).cur_col = Clamped(u.cur_col + (-1), W - 1)
          /\ move_cursor(u, 0, -1).fb = u.fb /\ move_cursor(u, 0, -1).state = u.state
          /\ move_cursor(u, 0, -1).line_buffer = u.line_buffer
      BY <3>1, CursorMoved, Zenon
    <3>3. QED
      BY <2>3, <2>4, <3>2, Zenon
  <2>7. b.cur_row \in 0 .. H - 1 /\ b.cur_col \in 0 .. W - 1
    BY <2>5 DEF Screens, Consoles
  <2>8. PICK w : w = draw_char(b, SPACE, b.cur_row, b.cur_col)
    OBVIOUS
  <2>9. IsDrawn(w, b, SPACE, b.cur_row, b.cur_col)
    <3>1. SPACE \in Shown
      BY GlyphsKnown
    <3>2. QED
      BY <2>5, <2>7, <2>8, <3>1, Drawn
  <2>10. Backspace(v, sm) = w
    <3>1. [v EXCEPT !.line_buffer = SubSeq(@, 1, Len(@) - 1)] = u
      BY <2>1, <2>2 DEF Screens, Consoles
    <3>2. QED
      BY <1>2, <2>4, <2>8, <3>1 DEF Backspace
  <2>11. b.cur_row = v.cur_row /\ (v.cur_col >= 1 => b.cur_col = v.cur_col - 1)
    BY <2>3, <2>6, Sizes DEF Clamped
  <2>12. QED
    BY <1>2, <2>1, <2>6, <2>9, <2>10, <2>11 DEF IsDrawn
<1>3. QED
  BY <1>1, <1>2

-----------------------------------------------------------------------------
LEMMA NormalState ==
  ASSUME NEW v \in Screens, NEW sm \in Machines, NEW ch \in Input
  PROVE  state_normal(v, ch, sm) \in Screens
<1>1. CASE ch = "ESC"
  <2>1. "escaped" \in States /\ <<0>> \in Seq(Nat) \ {<<>>}
    BY DEF States
  <2>2. [v EXCEPT !.state[sm] = "escaped"] \in Screens
    BY <2>1, Stated
  <2>3. QED
    BY <1>1, <2>2 DEF state_normal
<1>2. CASE ch \in {"NL", "CR"}
  <2>1. state_normal(v, ch, sm) = NewLine(v, sm)
    BY <1>2 DEF state_normal
  <2>2. QED
    BY <2>1, NewLineHere
<1>3. CASE ch = "DEL"
  <2>1. state_normal(v, ch, sm) = Backspace(v, sm)
    BY <1>3 DEF state_normal
  <2>2. QED
    BY <2>1, BackspaceOK
<1>4. CASE ch \in Plain
  BY <1>4, PlainOK
<1>5. QED
  BY <1>1, <1>2, <1>3, <1>4 DEF Input, Plain

LEMMA EscapedState ==
  ASSUME NEW v \in Screens, NEW sm \in Machines, NEW ch \in Input
  PROVE  state_escaped(v, ch, sm) \in Screens
<1>1. CASE ch = "["
  <2>1. "escbracket" \in States /\ <<0>> \in Seq(Nat) \ {<<>>}
    BY DEF States
  <2>2. [v EXCEPT !.state[sm] = "escbracket", !.prefixes[sm] = <<0>>] \in Screens
    BY <2>1, Stated
  <2>3. QED
    BY <1>1, <2>2 DEF state_escaped
<1>2. CASE ch = "c"
  <2>1. PICK a \in Screens : a = [v EXCEPT !.state["ansi"] = "normal"]
    <3>1. "normal" \in States /\ "ansi" \in Machines /\ <<0>> \in Seq(Nat) \ {<<>>}
      BY DEF States, Machines
    <3>2. [v EXCEPT !.state["ansi"] = "normal"] \in Screens
      BY <3>1, Stated
    <3>3. QED
      BY <3>2
  <2>2. PICK b \in Screens : b = reset(v)
    BY <2>1, ClsIn DEF reset
  <2>3. state_escaped(v, ch, sm) = Normal(b, sm)
    BY <1>2, <2>2 DEF state_escaped
  <2>4. QED
    BY <2>3, NormalIn
<1>3. CASE ch \notin {"[", "c"}
  <2>1. state_escaped(v, ch, sm) = Normal(v, sm)
    BY <1>3 DEF state_escaped
  <2>2. QED
    BY <2>1, NormalIn
<1>4. QED
  BY <1>1, <1>2, <1>3

LEMMA MoveIn ==
  ASSUME NEW v \in Screens, NEW sm \in Machines, NEW r \in Int, NEW c \in Int
  PROVE  Normal(MoveCursor(v, r, c, sm), sm) \in Screens
<1>1. PICK u \in Screens : u = MoveCursor(v, r, c, sm)
  BY CursorMoved DEF MoveCursor
<1>2. QED
  BY <1>1, NormalIn

LEMMA BracketState ==
  ASSUME NEW v \in Screens, NEW sm \in Machines, NEW ch \in Input
  PROVE  state_escbracket(v, ch, sm) \in Screens
<1>1. PICK p \in Seq(Nat) \ {<<>>} : p = v.prefixes[sm]
  BY DEF Screens, Consoles
<1>2. PICK last \in Nat : last = Last(p)
  <2>1. Len(p) \in 1 .. Len(p) /\ Last(p) = p[Len(p)]
    BY <1>1, EmptySeq, LenProperties DEF Last
  <2>2. QED
    BY <1>1, <2>1, ElementOfSeq
<1>3. PICK n \in Nat : n = IF last = 0 THEN 1 ELSE last
  OBVIOUS
<1>4. CASE ch \in DOMAIN Digit
  <2>1. PICK d \in Nat : d = Digit[ch]
    BY <1>4 DEF Digit
  <2>2. PICK q \in Seq(Nat) \ {<<>>} : q = [p EXCEPT ![Len(p)] = @ * 10 + d]
    <3>1. Len(p) \in 1 .. Len(p) /\ p[Len(p)] = last
      BY <1>1, <1>2, EmptySeq, LenProperties DEF Last
    <3>2. last * 10 + d \in Nat
      OBVIOUS
    <3>3. [p EXCEPT ![Len(p)] = last * 10 + d] \in Seq(Nat)
      BY <1>1, <3>1, <3>2, ExceptSeq
    <3>4. [p EXCEPT ![Len(p)] = last * 10 + d] # <<>>
      BY <1>1, <3>1, <3>2, ExceptSeq
    <3>5. QED
      BY <3>1, <3>3, <3>4
  <2>3. state_escbracket(v, ch, sm) = [v EXCEPT !.prefixes[sm] = q]
    <3>1. state_escbracket(v, ch, sm) = [v EXCEPT !.prefixes[sm][Len(v.prefixes[sm])] = @ * 10 + Digit[ch]]
      <4>1. ch \in {"0", "1", "2", "9"}
        BY <1>4 DEF Digit
      <4>2. QED
        BY <1>4, <4>1 DEF state_escbracket
    <3>2. [v EXCEPT !.prefixes[sm][Len(p)] = @ * 10 + d] = [v EXCEPT !.prefixes[sm] = [p EXCEPT ![Len(p)] = @ * 10 + d]]
      BY <1>1 DEF Screens, Consoles
    <3>3. QED
      BY <1>1, <2>1, <2>2, <3>1, <3>2
  <2>4. "normal" \in States
    BY DEF States
  <2>5. [v EXCEPT !.prefixes[sm] = q] \in Screens
    BY <2>4, Stated
  <2>6. QED
    BY <2>3, <2>5
<1>5. CASE ch \notin DOMAIN Digit
  <2>0. ch \notin {"0", "1", "2", "9"}
    BY <1>5 DEF Digit
  <2>1. CASE ch = ";"
    <3>1. PICK q \in Seq(Nat) \ {<<>>} : q = Append(p, 0)
      <4>1. Append(p, 0) \in Seq(Nat) /\ Append(p, 0) # <<>>
        BY <1>1
      <4>2. QED
        BY <4>1
    <3>2. state_escbracket(v, ch, sm) = IF Len(p) < ANSI_NUMERIC_PREFIX_DEPTH
                                        THEN [v EXCEPT !.prefixes[sm] = q] ELSE Normal(v, sm)
      BY <1>1, <1>5, <2>1, <3>1 DEF state_escbracket
    <3>3. "normal" \in States
      BY DEF States
    <3>4. [v EXCEPT !.prefixes[sm] = q] \in Screens
      BY <3>3, Stated
    <3>5. QED
      BY <3>2, <3>4, NormalIn
  <2>2. CASE ch \in {"A", "B", "C", "D"}
    <3>1. \/ state_escbracket(v, ch, sm) = Normal(MoveCursor(v, -n, 0, sm), sm)
          \/ state_escbracket(v, ch, sm) = Normal(MoveCursor(v, n, 0, sm), sm)
          \/ state_escbracket(v, ch, sm) = Normal(MoveCursor(v, 0, n, sm), sm)
          \/ state_escbracket(v, ch, sm) = Normal(MoveCursor(v, 0, -n, sm), sm)
      BY <1>1, <1>2, <1>3, <1>5, <2>2 DEF state_escbracket
    <3>2. -n \in Int /\ n \in Int /\ 0 \in Int
      OBVIOUS
    <3>3. QED
      BY <3>1, <3>2, MoveIn
  <2>3. CASE ch = "J"
    <3>1. PICK u \in Screens : u = IF last = 2 THEN Cls(v, sm) ELSE v
      BY ClsIn DEF Cls
    <3>2. state_escbracket(v, ch, sm) = Normal(u, sm)
      BY <1>1, <1>2, <1>5, <2>3, <3>1 DEF state_escbracket
    <3>3. QED
      BY <3>2, NormalIn
  <2>4. CASE ch \notin {";", "A", "B", "C", "D", "J"}
    <3>1. state_escbracket(v, ch, sm) = Normal(v, sm)
      BY <1>5, <2>4 DEF state_escbracket
    <3>2. QED
      BY <3>1, NormalIn
  <2>5. QED
    BY <2>1, <2>2, <2>3, <2>4
<1>6. QED
  BY <1>4, <1>5

LEMMA CharacterIn ==
  ASSUME NEW v \in Screens, NEW sm \in Machines, NEW ch \in Input
  PROVE  Settled(virtual_console_putchar_sm(v, ch, sm), sm) \in Screens
<1>1. v.state[sm] \in States
  BY DEF Screens, Consoles
<1>2. virtual_console_putchar_sm(v, ch, sm) \in Screens
  BY <1>1, NormalState, EscapedState, BracketState DEF virtual_console_putchar_sm, States
<1>3. QED
  BY <1>2, SettledIn

-----------------------------------------------------------------------------
(* What each key does to the line, between two sequences.                  *)
SameScreen(w, v) ==
  /\ w \in Screens /\ w.cur_row = v.cur_row /\ w.cur_col = v.cur_col /\ w.fb = v.fb
  /\ w.line_buffer = v.line_buffer

LEMMA SettledSame ==
  ASSUME NEW v \in Screens, NEW sm \in Machines
  PROVE  SameScreen(Settled(v, sm), v) /\ Settled(v, sm).state = v.state
<1>1. Settled(v, sm) \in Screens
  BY SettledIn
<1>2. CASE v.state[sm] = "escbracket"
  BY <1>2 DEF Settled, SameScreen
<1>3. CASE v.state[sm] # "escbracket"
  <2>1. PICK w : w = [v EXCEPT !.prefixes[sm] = <<0>>]
    OBVIOUS
  <2>2. Settled(v, sm) = w
    BY <1>3, <2>1 DEF Settled
  <2>3. /\ w.cur_row = v.cur_row /\ w.cur_col = v.cur_col /\ w.fb = v.fb
        /\ w.line_buffer = v.line_buffer /\ w.state = v.state
    BY <2>1 DEF Screens, Consoles
  <2>4. QED
    BY <1>1, <2>2, <2>3 DEF SameScreen
<1>4. QED
  BY <1>2, <1>3

Ready(v) == v \in Screens /\ v.state["line"] = "normal"

LEMMA TakeReady ==
  ASSUME NEW v, Ready(v), NEW ch \in Input
  PROVE  LET w == state_normal(v, ch, "line")
         IN  w \in Screens /\ SameScreen(TakeKey(v, ch), w) /\ TakeKey(v, ch).state = w.state
<1>1. v \in Screens /\ "line" \in Machines
  BY DEF Ready, Machines
<1>2. PICK w : w = state_normal(v, ch, "line")
  OBVIOUS
<1>3. w \in Screens
  BY <1>1, <1>2, NormalState
<1>4. TakeKey(v, ch) = Settled(w, "line")
  BY <1>2 DEF TakeKey, virtual_console_putchar_sm, Ready
<1>5. QED
  BY <1>1, <1>2, <1>3, <1>4, SettledSame

(* A character is drawn and stored; at the edge a new line is stored too.  *)
KeyDrawn(w, v, ch) ==
  /\ w.cur_row = v.cur_row /\ w.cur_col = v.cur_col + 1 /\ w.state = v.state
  /\ w.fb = [v.fb EXCEPT ![Cell(v.cur_row, v.cur_col)] = ch]
  /\ w.line_buffer = Append(v.line_buffer, ch)

LEMMA TakePlain ==
  ASSUME NEW v, Ready(v), NEW ch \in Plain
  PROVE  /\ v.cur_col + 1 < W => KeyDrawn(TakeKey(v, ch), v, ch)
         /\ ~(v.cur_col + 1 < W) => TakeKey(v, ch).line_buffer = Append(Append(v.line_buffer, ch), "NL")
<1>1. v \in Screens /\ "line" \in Machines /\ ch \in Input
  BY DEF Ready, Machines, Plain, Input
<1>2. PICK w : w = state_normal(v, ch, "line")
  OBVIOUS
<1>3. SameScreen(TakeKey(v, ch), w) /\ TakeKey(v, ch).state = w.state
  BY <1>1, <1>2, TakeReady
<1>4. v.cur_col + 1 < W => KeyDrawn(w, v, ch)
  BY <1>1, <1>2, PlainOK DEF KeyDrawn
<1>5. ~(v.cur_col + 1 < W) => w.line_buffer = Append(Append(v.line_buffer, ch), "NL")
  BY <1>1, <1>2, PlainOK
<1>6. QED
  BY <1>3, <1>4, <1>5 DEF SameScreen, KeyDrawn

LEMMA TakeReturn ==
  ASSUME NEW v, Ready(v)
  PROVE  TakeKey(v, "CR").line_buffer = Append(v.line_buffer, "NL")
<1>1. v \in Screens /\ "line" \in Machines /\ "CR" \in Input
  BY DEF Ready, Machines, Input
<1>2. PICK w : w = state_normal(v, "CR", "line")
  OBVIOUS
<1>3. SameScreen(TakeKey(v, "CR"), w)
  BY <1>1, <1>2, TakeReady
<1>4. w = NewLine(v, "line")
  BY <1>2 DEF state_normal
<1>5. QED
  BY <1>1, <1>3, <1>4, NewLineHere DEF SameScreen

KeyErased(w, v) ==
  /\ w.cur_row = v.cur_row /\ w.cur_col = v.cur_col - 1 /\ w.state = v.state
  /\ w.fb = [v.fb EXCEPT ![Cell(v.cur_row, v.cur_col - 1)] = SPACE]
  /\ w.line_buffer = SubSeq(v.line_buffer, 1, Len(v.line_buffer) - 1)

LEMMA TakeDelete ==
  ASSUME NEW v, Ready(v)
  PROVE  /\ v.line_buffer = <<>> => SameScreen(TakeKey(v, "DEL"), v) /\ TakeKey(v, "DEL").state = v.state
         /\ v.line_buffer # <<>> /\ v.cur_col >= 1 => KeyErased(TakeKey(v, "DEL"), v)
<1>1. v \in Screens /\ "line" \in Machines /\ "DEL" \in Input
  BY DEF Ready, Machines, Input
<1>2. PICK w : w = state_normal(v, "DEL", "line")
  OBVIOUS
<1>3. SameScreen(TakeKey(v, "DEL"), w) /\ TakeKey(v, "DEL").state = w.state
  BY <1>1, <1>2, TakeReady
<1>4. w = Backspace(v, "line")
  BY <1>2 DEF state_normal
<1>5. v.line_buffer = <<>> => w = v
  BY <1>1, <1>4, BackspaceOK
<1>6. v.line_buffer # <<>> /\ v.cur_col >= 1 => KeyErased(w, v)
  BY <1>1, <1>4, BackspaceOK DEF KeyErased
<1>7. QED
  BY <1>3, <1>5, <1>6 DEF SameScreen, KeyErased

(* The cursor keys only make a noise.                                      *)
LEMMA TakeUp ==
  ASSUME NEW v, Ready(v)
  PROVE  LET w == TakeKey(TakeKey(TakeKey(v, "ESC"), "["), "A")
         IN  SameScreen(w, v) /\ w.state["line"] = "normal"
<1>0. v \in Screens /\ "line" \in Machines /\ v.state \in [Machines -> States]
  BY DEF Ready, Machines, Screens, Consoles
<1>1. PICK a : a = [v EXCEPT !.state["line"] = "escaped"]
  OBVIOUS
<1>2. a \in Screens
  <2>1. "escaped" \in States /\ <<0>> \in Seq(Nat) \ {<<>>}
    BY DEF States
  <2>2. QED
    BY <1>0, <1>1, <2>1, Stated
<1>3. SameScreen(a, v) /\ a.state = [v.state EXCEPT !["line"] = "escaped"]
  BY <1>0, <1>1, <1>2 DEF SameScreen, Screens, Consoles
<1>4. PICK b : b = TakeKey(v, "ESC")
  OBVIOUS
<1>5. b = Settled(a, "line")
  BY <1>1, <1>4 DEF TakeKey, virtual_console_putchar_sm, state_normal, Ready
<1>6. SameScreen(b, a) /\ b.state = a.state
  BY <1>0, <1>2, <1>5, SettledSame
<1>7. b \in Screens /\ b.state["line"] = "escaped" /\ b.state \in [Machines -> States]
      /\ b.prefixes \in [Machines -> Seq(Nat) \ {<<>>}]
  BY <1>0, <1>3, <1>6 DEF SameScreen, Screens, Consoles
<1>8. PICK c : c = [b EXCEPT !.state["line"] = "escbracket", !.prefixes["line"] = <<0>>]
  OBVIOUS
<1>9. c \in Screens
  <2>1. "escbracket" \in States /\ <<0>> \in Seq(Nat) \ {<<>>}
    BY DEF States
  <2>2. QED
    BY <1>0, <1>7, <1>8, <2>1, Stated
<1>10. SameScreen(c, b) /\ c.state["line"] = "escbracket" /\ c.prefixes["line"] = <<0>>
  BY <1>0, <1>7, <1>8, <1>9 DEF SameScreen, Screens, Consoles
<1>11. TakeKey(b, "[") = c
  BY <1>7, <1>8, <1>10 DEF TakeKey, virtual_console_putchar_sm, state_escaped, Settled
<1>12. PICK d : d = Normal(c, "line")
  OBVIOUS
<1>13. d \in Screens
  BY <1>0, <1>9, <1>12, NormalIn
<1>14. SameScreen(d, c) /\ d.state["line"] = "normal"
  BY <1>0, <1>9, <1>12, <1>13 DEF Normal, SameScreen, Screens, Consoles
<1>15. state_escbracket(c, "A", "line") = d
  <2>1. "A" \notin DOMAIN Digit
    BY DEF Digit
  <2>2. QED
    BY <1>12, <2>1 DEF state_escbracket, MoveCursor
<1>16. TakeKey(c, "A") = Settled(d, "line")
  BY <1>10, <1>15 DEF TakeKey, virtual_console_putchar_sm
<1>17. SameScreen(TakeKey(c, "A"), d) /\ TakeKey(c, "A").state = d.state
  BY <1>0, <1>13, <1>16, SettledSame
<1>18. QED
  BY <1>3, <1>4, <1>6, <1>10, <1>11, <1>14, <1>17 DEF SameScreen

-----------------------------------------------------------------------------
(* Texts and their lines.                                                  *)
LEMMA NatInduct ==
  ASSUME NEW S, 0 \in S, \A n \in Nat : n \in S => n + 1 \in S
  PROVE  \A n \in Nat : n \in S
<1> SUFFICES ASSUME Nat \ S # {}
             PROVE  FALSE
  OBVIOUS
<1>1. PICK R : R = {ss \in Nat \X Nat : ss[1] < ss[2]}
  OBVIOUS
<1>2. IsWellFoundedOn(R, Nat)
  BY <1>1, NatLessThanWellFounded DEF OpToRel
<1>3. PICK x \in Nat \ S : \A y \in Nat \ S : ~(<<y, x>> \in R)
  BY <1>2, WFMin
<1>4. x \in Nat /\ x # 0 /\ x - 1 \in Nat /\ x - 1 < x /\ (x - 1) + 1 = x
  OBVIOUS
<1>5. x - 1 \in S
  <2>1. <<x - 1, x>> \in R
    BY <1>1, <1>4
  <2>2. QED
    BY <1>3, <1>4, <2>1
<1>6. QED
  BY <1>3, <1>4, <1>5

LEMMA MinOf ==
  ASSUME NEW T, T \subseteq Nat, T # {}
  PROVE  Min(T) \in T /\ \A y \in T : Min(T) <= y
<1>1. PICK R : R = {ss \in Nat \X Nat : ss[1] < ss[2]}
  OBVIOUS
<1>2. IsWellFoundedOn(R, Nat)
  BY <1>1, NatLessThanWellFounded DEF OpToRel
<1>3. PICK x \in T : \A y \in T : ~(<<y, x>> \in R)
  BY <1>2, WFMin
<1>4. \A y \in T : x <= y
  <2> TAKE y \in T
  <2>1. x \in Nat /\ y \in Nat /\ ~(<<y, x>> \in R)
    BY <1>3
  <2>2. ~(y < x)
    BY <1>1, <2>1
  <2>3. QED
    BY <2>1, <2>2
<1>5. QED
  BY <1>4 DEF Min

(* A function that is defined by what it is at n - 1.                      *)
Steps(f, step, d, k) == f = [n \in 0 .. k |-> IF n = 0 THEN d ELSE step[n][f[n - 1]]]

LEMMA StepsExist ==
  ASSUME NEW step, NEW d, NEW k \in Nat
  PROVE  \E f : Steps(f, step, d, k)
<1> DEFINE S == {n \in Nat : \E f : Steps(f, step, d, n)}
<1>1. 0 \in S
  <2>1. Steps([n \in 0 .. 0 |-> d], step, d, 0)
    BY DEF Steps
  <2>2. QED
    BY <2>1
<1>2. ASSUME NEW j \in Nat, j \in S
      PROVE  j + 1 \in S
  <2>1. PICK f : Steps(f, step, d, j)
    BY <1>2
  <2>2. PICK e : e = [n \in 0 .. j + 1 |-> IF n = j + 1 THEN step[j + 1][f[j]] ELSE f[n]]
    OBVIOUS
  <2>3. \A n \in 0 .. j + 1 : n = j + 1 \/ (n \in 0 .. j /\ n # j + 1)
    OBVIOUS
  <2>4. \A n \in 0 .. j + 1 : n # 0 => n - 1 \in 0 .. j /\ n - 1 # j + 1 /\ n - 1 \in 0 .. j + 1
    OBVIOUS
  <2>5. \A n \in 0 .. j + 1 : e[n] = IF n = 0 THEN d ELSE step[n][e[n - 1]]
    <3> TAKE n \in 0 .. j + 1
    <3>1. n # 0 => e[n - 1] = f[n - 1]
      BY <2>2, <2>4
    <3>2. CASE n = j + 1
      <4>1. e[n] = step[j + 1][f[j]] /\ n - 1 = j /\ n # 0
        BY <2>2, <3>2
      <4>2. QED
        BY <3>1, <3>2, <4>1
    <3>3. CASE n \in 0 .. j /\ n # j + 1
      <4>1. e[n] = f[n]
        BY <2>2, <3>3
      <4>2. f[n] = IF n = 0 THEN d ELSE step[n][f[n - 1]]
        BY <2>1, <3>3 DEF Steps
      <4>3. QED
        BY <3>1, <4>1, <4>2
    <3>4. QED
      BY <2>3, <3>2, <3>3
  <2>6. Steps(e, step, d, j + 1)
    BY <2>2, <2>5 DEF Steps
  <2>7. QED
    BY <2>6
<1>3. \A n \in Nat : n \in S
  <2> HIDE DEF S
  <2>1. QED
    BY <1>1, <1>2, NatInduct
<1>4. QED
  BY <1>3

(* Where a line ends.                                                      *)
LEMMA NextEndOK ==
  ASSUME NEW t \in Seq(Glyphs), NEW i \in Nat
  PROVE  LET e == NextEnd(t, i)
         IN  /\ e \in Nat /\ e <= Len(t) + 1 /\ Len(t) \in Nat
             /\ e > i \/ (i > Len(t) /\ e = Len(t) + 1)
             /\ e <= Len(t) => t[e] = "NL"
             /\ \A j \in i + 1 .. Len(t) : j < e => t[j] # "NL"
<1> DEFINE T == {j \in i + 1 .. Len(t) : t[j] = "NL"} \cup {Len(t) + 1}
<1>1. Len(t) \in Nat
  BY LenProperties
<1>2. T \subseteq Nat /\ Len(t) + 1 \in T /\ T # {}
  BY <1>1
<1>3. PICK e : e = Min(T)
  OBVIOUS
<1>4. e \in T /\ \A j \in T : e <= j
  BY <1>2, <1>3, MinOf
<1>5. NextEnd(t, i) = e
  BY <1>3 DEF NextEnd
<1>6. e \in Nat /\ e <= Len(t) + 1
  BY <1>2, <1>4
<1>7. e > i \/ (i > Len(t) /\ e = Len(t) + 1)
  BY <1>1, <1>4
<1>8. e <= Len(t) => t[e] = "NL"
  BY <1>1, <1>4
<1>9. \A j \in i + 1 .. Len(t) : j < e => t[j] # "NL"
  BY <1>1, <1>4, <1>6
<1>10. QED
  BY <1>1, <1>5, <1>6, <1>7, <1>8, <1>9

Ends(f, t, n) == f = [k \in 0 .. n |-> IF k = 0 THEN 0 ELSE NextEnd(t, f[k - 1])]

LEMMA EndsKnown ==
  ASSUME NEW t \in Seq(Glyphs), NEW n \in Nat
  PROVE  \E f : Ends(f, t, n) /\ LineEnd(t, n) = f[n] /\ \A k \in 0 .. n : f[k] \in Nat
<1> DEFINE step == [k \in Nat |-> [e \in Nat |-> NextEnd(t, e)]]
           F == CHOOSE f : Ends(f, t, n)
<1>1. PICK f : Steps(f, step, 0, n)
  <2> HIDE DEF step
  <2>1. QED
    BY StepsExist
<1>2. f = [k \in 0 .. n |-> IF k = 0 THEN 0 ELSE step[k][f[k - 1]]]
  BY <1>1 DEF Steps
<1>3. \A k \in 0 .. n : f[k] = IF k = 0 THEN 0 ELSE step[k][f[k - 1]]
  <2> HIDE DEF step
  <2>1. QED
    BY <1>2
<1>4. \A k \in 0 .. n : f[k] \in Nat
  <2> DEFINE S == {k \in Nat : k <= n => f[k] \in Nat}
  <2>1. 0 \in S
    <3>1. 0 \in 0 .. n
      OBVIOUS
    <3>2. f[0] = 0
      <4> HIDE DEF step
      <4>1. QED
        BY <1>3, <3>1
    <3>3. QED
      BY <3>2
  <2>2. ASSUME NEW k \in Nat, k \in S
        PROVE  k + 1 \in S
    <3>1. CASE k + 1 <= n
      <4>1. k + 1 \in 0 .. n /\ k + 1 # 0 /\ (k + 1) - 1 = k /\ f[k] \in Nat
        BY <2>2, <3>1
      <4>2. f[k + 1] = step[k + 1][f[k]]
        BY <1>3, <4>1
      <4>3. f[k + 1] = NextEnd(t, f[k])
        BY <4>1, <4>2
      <4>4. f[k + 1] \in Nat
        BY <4>1, <4>3, NextEndOK
      <4>5. QED
        BY <4>4
    <3>2. QED
      BY <3>1
  <2>3. \A k \in Nat : k \in S
    <3> HIDE DEF S
    <3>1. QED
      BY <2>1, <2>2, NatInduct
  <2>4. QED
    BY <2>3
<1>5. \A k \in 0 .. n : f[k] = IF k = 0 THEN 0 ELSE NextEnd(t, f[k - 1])
  <2> TAKE k \in 0 .. n
  <2>1. CASE k = 0
    BY <1>3, <2>1
  <2>2. CASE k # 0
    <3>1. k - 1 \in 0 .. n /\ k \in Nat
      BY <2>2
    <3>2. f[k - 1] \in Nat
      BY <1>4, <3>1
    <3>3. f[k] = step[k][f[k - 1]]
      BY <1>3, <2>2
    <3>4. QED
      BY <2>2, <3>1, <3>2, <3>3
  <2>3. QED
    BY <2>1, <2>2
<1>6. Ends(f, t, n)
  BY <1>2, <1>5 DEF Ends
<1>7. Ends(F, t, n)
  BY <1>6
<1>8. LineEnd(t, n) = F[n]
  BY <1>7 DEF LineEnd, Ends
<1> HIDE DEF F
<1>9. \A k \in 0 .. n : F[k] = f[k]
  <2> DEFINE S == {k \in Nat : k <= n => F[k] = f[k]}
  <2>0. \A k \in 0 .. n : F[k] = IF k = 0 THEN 0 ELSE NextEnd(t, F[k - 1])
    BY <1>7 DEF Ends
  <2>1. 0 \in S
    BY <1>5, <2>0
  <2>2. ASSUME NEW k \in Nat, k \in S
        PROVE  k + 1 \in S
    <3>1. CASE k + 1 <= n
      <4>1. k + 1 \in 0 .. n /\ k + 1 # 0 /\ (k + 1) - 1 = k /\ F[k] = f[k]
        BY <2>2, <3>1
      <4>2. F[k + 1] = NextEnd(t, F[k]) /\ f[k + 1] = NextEnd(t, f[k])
        BY <1>5, <2>0, <4>1
      <4>3. QED
        BY <4>1, <4>2
    <3>2. QED
      BY <3>1
  <2>3. \A k \in Nat : k \in S
    <3> HIDE DEF S
    <3>1. QED
      BY <2>1, <2>2, NatInduct
  <2>4. QED
    BY <2>3
<1>10. QED
  BY <1>4, <1>7, <1>8, <1>9

LEMMA EndsAgree ==
  ASSUME NEW t, NEW n \in Nat, NEW f, NEW g, Ends(f, t, n), Ends(g, t, n + 1)
  PROVE  f[n] = g[n] /\ g[n + 1] = NextEnd(t, g[n])
<1> DEFINE S == {k \in Nat : k <= n => f[k] = g[k]}
<1>1. \A k \in 0 .. n : f[k] = IF k = 0 THEN 0 ELSE NextEnd(t, f[k - 1])
  BY DEF Ends
<1>2. \A k \in 0 .. n + 1 : g[k] = IF k = 0 THEN 0 ELSE NextEnd(t, g[k - 1])
  BY DEF Ends
<1>3. 0 \in S
  BY <1>1, <1>2
<1>4. ASSUME NEW k \in Nat, k \in S
      PROVE  k + 1 \in S
  <2>1. CASE k + 1 <= n
    <3>1. k + 1 \in 0 .. n /\ k + 1 \in 0 .. n + 1 /\ k + 1 # 0 /\ (k + 1) - 1 = k /\ f[k] = g[k]
      BY <1>4, <2>1
    <3>2. f[k + 1] = NextEnd(t, f[k]) /\ g[k + 1] = NextEnd(t, g[k])
      BY <1>1, <1>2, <3>1
    <3>3. QED
      BY <3>1, <3>2
  <2>2. QED
    BY <2>1
<1>5. \A k \in Nat : k \in S
  <2> HIDE DEF S
  <2>1. QED
    BY <1>3, <1>4, NatInduct
<1>6. n + 1 \in 0 .. n + 1 /\ n + 1 # 0 /\ (n + 1) - 1 = n
  OBVIOUS
<1>7. g[n + 1] = NextEnd(t, g[n])
  BY <1>2, <1>6
<1>8. QED
  BY <1>5, <1>7

(* The first line starts at once and each one behind the end of another.   *)
LEMMA LineEndOK ==
  ASSUME NEW t \in Seq(Glyphs), NEW n \in Nat
  PROVE  /\ LineEnd(t, n) \in Nat /\ LineEnd(t, 0) = 0
         /\ LineEnd(t, n + 1) = NextEnd(t, LineEnd(t, n))
<1>1. 0 \in Nat /\ n + 1 \in Nat /\ n \in 0 .. n /\ 0 \in 0 .. 0
  OBVIOUS
<1>2. PICK f : Ends(f, t, n) /\ LineEnd(t, n) = f[n] /\ \A k \in 0 .. n : f[k] \in Nat
  BY EndsKnown
<1>3. PICK g : Ends(g, t, n + 1) /\ LineEnd(t, n + 1) = g[n + 1]
  BY <1>1, EndsKnown
<1>4. PICK h : Ends(h, t, 0) /\ LineEnd(t, 0) = h[0]
  BY <1>1, EndsKnown
<1>5. h[0] = 0
  BY <1>1, <1>4 DEF Ends
<1>6. f[n] = g[n] /\ g[n + 1] = NextEnd(t, g[n])
  BY <1>2, <1>3, EndsAgree
<1>7. QED
  BY <1>1, <1>2, <1>3, <1>4, <1>5, <1>6

LEMMA Limits ==
  /\ BUFSIZE \in Nat \ {0, 1} /\ BUFSIZE \in Nat /\ BUFSIZE >= 2
  /\ MAX_ARGC \in Nat \ {0} /\ MAX_ARGC \in Nat /\ MAX_ARGC >= 1
<1>1. BUFSIZE \in Nat \ {0, 1} /\ MAX_ARGC \in Nat \ {0}
  BY TerminalAssumption, Zenon
<1>2. QED
  BY <1>1

-----------------------------------------------------------------------------
(* Cutting a text: words is what has been cut off it, and rest what has    *)
(* not, which starts at q and may have the end of the line behind it.      *)
NoLine(s) == \A i \in 1 .. Len(s) : s[i] # "NL"

Rest(rest, s, q) ==
  /\ Len(rest) \in {Len(s) + 1 - q, Len(s) + 2 - q}
  /\ \A i \in 1 .. Len(rest) : rest[i] = IF q + i - 1 <= Len(s) THEN s[q + i - 1] ELSE "NL"

CutAt(words, rest, s, at, q) ==
  /\ at \in [DOMAIN words -> DOMAIN s] /\ q \in 1 .. Len(s) + 1
  /\ Len(words) <= MAX_ARGC /\ NoLine(s)
  /\ q \in Starts(s) \cup {Len(s) + 1}
  /\ Rest(rest, s, q)
  /\ \A n \in DOMAIN words : at[n] \in Starts(s) /\ words[n] = WordAt(s, at[n]) /\ at[n] < q
  /\ \A m, n \in DOMAIN words : m < n => at[m] < at[n]
  /\ \A i \in Starts(s) : i < q => \E n \in DOMAIN words : at[n] = i

Cut(words, rest, s) == \E at, q : CutAt(words, rest, s, at, q)

LEMMA CutBegins ==
  ASSUME NEW s \in Seq(Glyphs), NEW rest \in Seq(Glyphs), NoLine(s), Rest(rest, s, 1)
  PROVE  Cut(<<>>, rest, s)
<1>1. Len(s) \in Nat /\ DOMAIN s = 1 .. Len(s)
  BY LenProperties
<1>2. DOMAIN <<>> = {} /\ Len(<<>>) = 0
  OBVIOUS
<1>3. PICK at : at \in [{} -> DOMAIN s]
  <2>1. [x \in {} |-> 1] \in [{} -> DOMAIN s]
    OBVIOUS
  <2>2. QED
    BY <2>1
<1>4. 1 \in 1 .. Len(s) + 1 /\ 1 \in Starts(s) \cup {Len(s) + 1}
  BY <1>1 DEF Starts
<1>5. \A i \in Starts(s) : ~(i < 1)
  BY <1>1 DEF Starts
<1>6. 0 <= MAX_ARGC
  BY Limits
<1>7. CutAt(<<>>, rest, s, at, 1)
  BY <1>2, <1>3, <1>4, <1>5, <1>6 DEF CutAt
<1>8. QED
  BY <1>7 DEF Cut

LEMMA CutEnds ==
  ASSUME NEW s \in Seq(Glyphs), NEW rest \in Seq(Glyphs), NEW words \in Seq(Seq(Glyphs)),
         Cut(words, rest, s), ~(rest # <<>> /\ rest[1] # "NL" /\ Len(words) < MAX_ARGC)
  PROVE  AreWords(words, s)
<1>1. Len(s) \in Nat /\ DOMAIN s = 1 .. Len(s) /\ Len(words) \in Nat /\ Len(rest) \in Nat
  BY LenProperties
<1>2. PICK at, q : CutAt(words, rest, s, at, q)
  BY DEF Cut
<1>3. q \in 1 .. Len(s) + 1 /\ MAX_ARGC \in Nat
  BY <1>2, Limits DEF CutAt
<1>4. q = Len(s) + 1 \/ Len(words) = MAX_ARGC
  <2> SUFFICES ASSUME q # Len(s) + 1, Len(words) < MAX_ARGC
               PROVE  FALSE
    BY <1>1, <1>2, <1>3 DEF CutAt
  <2>1. q <= Len(s) /\ Len(rest) >= 1
    <3>1. Rest(rest, s, q)
      BY <1>2 DEF CutAt
    <3>2. Len(rest) = Len(s) + 1 - q \/ Len(rest) = Len(s) + 2 - q
      BY <3>1 DEF Rest
    <3>3. QED
      BY <1>1, <1>3, <3>2
  <2>2. rest[1] = s[q]
    BY <1>1, <1>2, <1>3, <2>1 DEF CutAt, Rest
  <2>3. rest[1] # "NL"
    BY <1>1, <1>2, <1>3, <2>1, <2>2 DEF CutAt, NoLine
  <2>4. rest # <<>>
    BY <2>1
  <2>5. QED
    BY <2>3, <2>4
<1>5. ASSUME NEW i \in Starts(s)
      PROVE  \/ \E n \in DOMAIN words : at[n] = i
             \/ Len(words) = MAX_ARGC /\ \A n \in DOMAIN words : at[n] < i
  <2>1. i \in 1 .. Len(s)
    BY <1>1 DEF Starts
  <2>2. CASE i < q
    BY <1>2, <2>2 DEF CutAt
  <2>3. CASE ~(i < q)
    <3>1. Len(words) = MAX_ARGC
      BY <1>1, <1>3, <1>4, <2>1, <2>3
    <3>2. ASSUME NEW n \in DOMAIN words
          PROVE  at[n] < i
      <4>1. at[n] < q /\ at[n] \in DOMAIN s
        BY <1>2 DEF CutAt
      <4>2. QED
        BY <1>1, <1>3, <2>1, <2>3, <4>1
    <3>3. QED
      BY <3>1, <3>2
  <2>4. QED
    BY <2>2, <2>3
<1>6. QED
  BY <1>2, <1>5 DEF CutAt, AreWords

(* The end of the next word, in the rest and in the text.                  *)
Breaks(rest) == {i \in DOMAIN rest : rest[i] \in {SPACE, "NL"}} \cup {Len(rest) + 1}

LEMMA WordEnds ==
  ASSUME NEW s \in Seq(Glyphs), NEW rest \in Seq(Glyphs), NEW q \in 1 .. Len(s),
         NoLine(s), Rest(rest, s, q)
  PROVE  LET n == Min(Breaks(rest))
         IN  /\ n \in 1 .. Len(rest) + 1
             /\ n = Len(rest) + 1 \/ rest[n] \in {SPACE, "NL"}
             /\ \A i \in 1 .. n - 1 : rest[i] # SPACE
             /\ q + n - 1 <= Len(s) + 1
             /\ SubSeq(rest, 1, n - 1) = WordAt(s, q)
             /\ \A j \in q .. q + n - 2 : s[j] # SPACE
<1>1. Len(s) \in Nat /\ DOMAIN s = 1 .. Len(s) /\ Len(rest) \in Nat /\ DOMAIN rest = 1 .. Len(rest)
  BY LenProperties
<1>2. PICK n : n = Min(Breaks(rest))
  OBVIOUS
<1>3. n \in Breaks(rest) /\ \A i \in Breaks(rest) : n <= i
  <2>1. Breaks(rest) \subseteq Nat /\ Breaks(rest) # {}
    BY <1>1 DEF Breaks
  <2>2. QED
    BY <1>2, <2>1, MinOf
<1>4. n \in 1 .. Len(rest) + 1 /\ (n = Len(rest) + 1 \/ rest[n] \in {SPACE, "NL"})
  BY <1>1, <1>3 DEF Breaks
<1> DEFINE T == {j \in q .. Len(s) : s[j] = SPACE} \cup {Len(s) + 1}
<1>5. PICK e : e = Min(T)
  OBVIOUS
<1>6. e \in T /\ \A j \in T : e <= j
  <2>1. T \subseteq Nat /\ Len(s) + 1 \in T
    BY <1>1
  <2>2. QED
    BY <1>5, <2>1, MinOf
<1>7. e \in q .. Len(s) + 1
  BY <1>1, <1>6
<1>8. \A i \in 1 .. Len(rest) : rest[i] = IF q + i - 1 <= Len(s) THEN s[q + i - 1] ELSE "NL"
  BY DEF Rest
<1>9. Len(rest) = Len(s) + 1 - q \/ Len(rest) = Len(s) + 2 - q
  BY DEF Rest
<1>10. n <= e - q + 1
  <2>1. e - q + 1 \in Breaks(rest)
    <3>1. CASE e <= Len(s)
      <4>1. s[e] = SPACE /\ e - q + 1 \in 1 .. Len(rest) /\ q + (e - q + 1) - 1 = e
        BY <1>1, <1>6, <1>7, <1>9, <3>1
      <4>2. rest[e - q + 1] = SPACE
        BY <1>8, <3>1, <4>1
      <4>3. QED
        BY <1>1, <4>1, <4>2 DEF Breaks
    <3>2. CASE e = Len(s) + 1
      <4>1. CASE e - q + 1 = Len(rest) + 1
        BY <4>1 DEF Breaks
      <4>2. CASE e - q + 1 = Len(rest)
        <5>1. Len(rest) \in 1 .. Len(rest) /\ ~(q + Len(rest) - 1 <= Len(s))
          BY <1>1, <1>7, <3>2, <4>2
        <5>2. rest[Len(rest)] = "NL"
          BY <1>8, <5>1
        <5>3. QED
          BY <1>1, <4>2, <5>1, <5>2 DEF Breaks
      <4>3. QED
        BY <1>1, <1>9, <3>2, <4>1, <4>2
    <3>3. QED
      BY <1>1, <1>7, <3>1, <3>2
  <2>2. QED
    BY <1>3, <2>1
<1>11. e <= q + n - 1
  <2>1. CASE n = Len(rest) + 1
    BY <1>1, <1>7, <1>9, <2>1
  <2>2. CASE n \in 1 .. Len(rest)
    <3>1. rest[n] \in {SPACE, "NL"} /\ q + n - 1 \in Nat
      BY <1>1, <1>4, <2>2
    <3>2. CASE q + n - 1 <= Len(s)
      <4>1. rest[n] = s[q + n - 1] /\ q + n - 1 \in q .. Len(s) /\ q + n - 1 \in 1 .. Len(s)
        BY <1>1, <1>8, <2>2, <3>2
      <4>2. s[q + n - 1] = SPACE
        BY <3>1, <4>1 DEF NoLine
      <4>3. QED
        BY <1>6, <4>1, <4>2
    <3>3. CASE ~(q + n - 1 <= Len(s))
      BY <1>1, <1>7, <3>1, <3>3
    <3>4. QED
      BY <3>2, <3>3
  <2>3. QED
    BY <1>1, <1>4, <2>1, <2>2
<1>12. n = e - q + 1 /\ e = q + n - 1
  BY <1>1, <1>4, <1>7, <1>10, <1>11
<1>13. WordAt(s, q) = SubSeq(s, q, e - 1)
  BY <1>5 DEF WordAt
<1>14. SubSeq(rest, 1, n - 1) = SubSeq(s, q, e - 1)
  <2>1. \A i \in 1 .. n - 1 : i \in 1 .. Len(rest) /\ rest[i] \in Glyphs
    <3> TAKE i \in 1 .. n - 1
    <3>1. i \in 1 .. Len(rest)
      BY <1>1, <1>4
    <3>2. QED
      BY <3>1, ElementOfSeq
  <2>2. \A i \in q .. e - 1 : s[i] \in Glyphs
    <3> TAKE i \in q .. e - 1
    <3>1. i \in 1 .. Len(s)
      BY <1>1, <1>7
    <3>2. QED
      BY <3>1, ElementOfSeq
  <2>3. PICK a : a = SubSeq(rest, 1, n - 1)
    OBVIOUS
  <2>4. PICK b : b = SubSeq(s, q, e - 1)
    OBVIOUS
  <2>5. 1 \in Int /\ n - 1 \in Int /\ q \in Int /\ e - 1 \in Int
    BY <1>1, <1>4, <1>7
  <2>6. /\ a \in Seq(Glyphs) /\ Len(a) = IF 1 <= n - 1 THEN (n - 1) - 1 + 1 ELSE 0
        /\ \A i \in 1 .. (n - 1) - 1 + 1 : a[i] = rest[1 + i - 1]
    BY <2>1, <2>3, <2>5, SubSeqProperties
  <2>7. /\ b \in Seq(Glyphs) /\ Len(b) = IF q <= e - 1 THEN (e - 1) - q + 1 ELSE 0
        /\ \A i \in 1 .. (e - 1) - q + 1 : b[i] = s[q + i - 1]
    BY <2>2, <2>4, <2>5, SubSeqProperties
  <2>8. Len(a) = n - 1 /\ Len(b) = n - 1
    BY <1>1, <1>4, <1>7, <1>12, <2>6, <2>7
  <2>9. \A i \in 1 .. n - 1 : a[i] = b[i]
    <3> TAKE i \in 1 .. n - 1
    <3>1. i \in 1 .. (n - 1) - 1 + 1 /\ i \in 1 .. (e - 1) - q + 1 /\ 1 + i - 1 = i
      BY <1>1, <1>4, <1>7, <1>12
    <3>2. a[i] = rest[i] /\ b[i] = s[q + i - 1]
      BY <2>6, <2>7, <3>1
    <3>3. q + i - 1 <= Len(s)
      BY <1>1, <1>4, <1>7, <1>12
    <3>4. QED
      BY <1>8, <2>1, <3>2, <3>3
  <2>10. QED
    BY <2>3, <2>4, <2>6, <2>7, <2>8, <2>9, SeqEqual
<1>15. \A j \in q .. q + n - 2 : s[j] # SPACE
  BY <1>1, <1>4, <1>6, <1>7, <1>12
<1>16. \A i \in 1 .. n - 1 : rest[i] # SPACE
  <2> TAKE i \in 1 .. n - 1
  <2>1. i \in 1 .. Len(rest) /\ i \in Nat /\ ~(n <= i)
    BY <1>1, <1>4
  <2>2. i \notin Breaks(rest)
    BY <1>3, <2>1
  <2>3. QED
    BY <1>1, <2>1, <2>2 DEF Breaks
<1>17. QED
  BY <1>1, <1>2, <1>4, <1>7, <1>12, <1>13, <1>14, <1>15, <1>16

(* What is skipped behind it, and where the rest goes on.                  *)
Follows(rest, n) == {i \in n .. Len(rest) : rest[i] # SPACE}
RestBehind(rest, n) ==
  IF Follows(rest, n) = {} THEN <<>> ELSE SubSeq(rest, Min(Follows(rest, n)), Len(rest))

GoesOn(rest, s, q, r) ==
  /\ q < r /\ r \in 1 .. Len(s) + 1 /\ r \in Starts(s) \cup {Len(s) + 1}
  /\ rest \in Seq(Glyphs) /\ Rest(rest, s, r)
  /\ \A i \in Starts(s) : ~(q < i /\ i < r)

LEMMA LeftOver ==
  ASSUME NEW l \in Nat, NEW k \in Nat, NEW q \in Nat, NEW m \in Nat, l = k + 1 - q \/ l = k + 2 - q
  PROVE  l - m + 1 = k + 1 - (q + m - 1) \/ l - m + 1 = k + 2 - (q + m - 1)
OBVIOUS

LEMMA NextWord ==
  ASSUME NEW s \in Seq(Glyphs), NEW rest \in Seq(Glyphs), NEW q \in 1 .. Len(s), NoLine(s),
         Rest(rest, s, q), NEW n \in 1 .. Len(rest) + 1, rest[1] # "NL",
         n = Len(rest) + 1 \/ rest[n] \in {SPACE, "NL"}, \A j \in q .. q + n - 2 : s[j] # SPACE,
         q + n - 1 <= Len(s) + 1
  PROVE  \E r : GoesOn(RestBehind(rest, n), s, q, r)
<1>1. Len(s) \in Nat /\ DOMAIN s = 1 .. Len(s) /\ Len(rest) \in Nat
  BY LenProperties
<1>2. \A i \in 1 .. Len(rest) : rest[i] = IF q + i - 1 <= Len(s) THEN s[q + i - 1] ELSE "NL"
  BY DEF Rest
<1>3. Len(rest) = Len(s) + 1 - q \/ Len(rest) = Len(s) + 2 - q
  BY DEF Rest
<1>4. \A j \in q .. Len(s) : j - q + 1 \in 1 .. Len(rest) /\ rest[j - q + 1] = s[j]
  <2> TAKE j \in q .. Len(s)
  <2>1. j - q + 1 \in 1 .. Len(rest) /\ q + (j - q + 1) - 1 = j /\ j <= Len(s)
    BY <1>1, <1>3
  <2>2. QED
    BY <1>2, <2>1
<1>5. CASE Follows(rest, n) = {}
  <2>1. Len(s) + 1 \in 1 .. Len(s) + 1 /\ q < Len(s) + 1
    BY <1>1
  <2>2. RestBehind(rest, n) = <<>> /\ Len(<<>>) = 0 /\ <<>> \in Seq(Glyphs)
    BY <1>5 DEF RestBehind
  <2>3. Rest(<<>>, s, Len(s) + 1)
    BY <1>1, <2>2 DEF Rest
  <2>4. ASSUME NEW i \in Starts(s), q < i
        PROVE  FALSE
    <3>1. i \in 1 .. Len(s) /\ (i = 1 \/ (s[i] # SPACE /\ s[i - 1] = SPACE))
      BY <1>1 DEF Starts
    <3>2. i # 1 /\ i \in q .. Len(s) /\ i - 1 \in q .. Len(s)
      BY <1>1, <2>4, <3>1
    <3>3. ~(i - 1 <= q + n - 2)
      BY <1>1, <3>1, <3>2
    <3>4. i - q + 1 \in n .. Len(rest) /\ rest[i - q + 1] = s[i]
      BY <1>1, <1>4, <3>2, <3>3
    <3>5. i - q + 1 \in Follows(rest, n)
      BY <3>1, <3>2, <3>4 DEF Follows
    <3>6. QED
      BY <1>5, <3>5
  <2>5. QED
    BY <2>1, <2>2, <2>3, <2>4 DEF GoesOn
<1>6. CASE Follows(rest, n) # {}
  <2>1. PICK m : m = Min(Follows(rest, n))
    OBVIOUS
  <2>2. m \in Follows(rest, n) /\ \A i \in Follows(rest, n) : m <= i
    <3>1. Follows(rest, n) \subseteq Nat
      BY <1>1 DEF Follows
    <3>2. QED
      BY <1>6, <2>1, <3>1, MinOf
  <2>3. m \in n .. Len(rest) /\ m \in 1 .. Len(rest) /\ rest[m] # SPACE /\ rest[n] \in {SPACE, "NL"}
    BY <1>1, <2>2 DEF Follows
  <2>4. PICK r : r = q + m - 1
    OBVIOUS
  <2>5. r \in 1 .. Len(s) + 1
    BY <1>1, <1>3, <2>3, <2>4
  <2>6. q < r
    <3>1. m # 1
      <4> SUFFICES ASSUME m = 1
                   PROVE  FALSE
        OBVIOUS
      <4>1. n = 1
        BY <1>1, <2>3
      <4>2. QED
        BY <2>3, <4>1
    <3>2. QED
      BY <1>1, <2>3, <2>4, <3>1
  <2>7. r \in Starts(s) \cup {Len(s) + 1}
    <3> SUFFICES ASSUME r <= Len(s)
                 PROVE  r \in Starts(s)
      BY <1>1, <2>5
    <3>1. rest[m] = s[r]
      BY <1>2, <2>3, <2>4
    <3>2. rest[n] # "NL"
      <4>1. n \in 1 .. Len(rest) /\ q + n - 1 <= Len(s) /\ q + n - 1 \in 1 .. Len(s)
        BY <1>1, <2>3, <2>4
      <4>2. rest[n] = s[q + n - 1]
        BY <1>2, <4>1
      <4>3. QED
        BY <4>1, <4>2 DEF NoLine
    <3>3. rest[n] = SPACE /\ m # n
      BY <2>3, <3>2
    <3>4. m - 1 \in n .. Len(rest) /\ ~(m <= m - 1) /\ m - 1 \in 1 .. Len(rest)
      BY <1>1, <2>3, <3>3
    <3>5. rest[m - 1] = SPACE
      BY <2>2, <3>4 DEF Follows
    <3>6. q + (m - 1) - 1 <= Len(s) /\ q + (m - 1) - 1 = r - 1
      BY <1>1, <2>3, <2>4
    <3>7. s[r - 1] = SPACE
      BY <1>2, <3>4, <3>5, <3>6
    <3>8. QED
      BY <1>1, <2>3, <2>5, <3>1, <3>7 DEF Starts
  <2>8. PICK t : t = SubSeq(rest, m, Len(rest))
    OBVIOUS
  <2>9. /\ t \in Seq(Glyphs) /\ Len(t) = Len(rest) - m + 1
        /\ \A i \in 1 .. Len(rest) - m + 1 : t[i] = rest[m + i - 1]
    <3>1. m \in Int /\ Len(rest) \in Int /\ m <= Len(rest)
      BY <1>1, <2>3
    <3>2. \A i \in m .. Len(rest) : rest[i] \in Glyphs
      <4> TAKE i \in m .. Len(rest)
      <4>1. i \in 1 .. Len(rest)
        BY <1>1, <2>3
      <4>2. QED
        BY <4>1, ElementOfSeq
    <3>3. QED
      BY <2>8, <3>1, <3>2, SubSeqProperties
  <2>10. RestBehind(rest, n) = t
    BY <1>6, <2>1, <2>8 DEF RestBehind
  <2>11. Len(t) = Len(s) + 1 - r \/ Len(t) = Len(s) + 2 - r
    <3>1. Len(t) = Len(rest) - m + 1 /\ q \in Nat /\ m \in Nat
      BY <1>1, <2>3, <2>9
    <3>2. PICK l \in Nat : l = Len(rest)
      BY <1>1
    <3>3. PICK k \in Nat : k = Len(s)
      BY <1>1
    <3>4. l = k + 1 - q \/ l = k + 2 - q
      BY <1>3, <3>2, <3>3, Zenon
    <3>5. l - m + 1 = k + 1 - (q + m - 1) \/ l - m + 1 = k + 2 - (q + m - 1)
      BY <3>1, <3>4, LeftOver
    <3>6. QED
      BY <2>4, <3>1, <3>2, <3>3, <3>5, Zenon
  <2>12. \A i \in 1 .. Len(t) : t[i] = IF r + i - 1 <= Len(s) THEN s[r + i - 1] ELSE "NL"
    <3> TAKE i \in 1 .. Len(t)
    <3>1. t[i] = rest[m + i - 1] /\ m + i - 1 \in 1 .. Len(rest)
      BY <1>1, <2>3, <2>9
    <3>2. q + (m + i - 1) - 1 = r + i - 1
      BY <1>1, <2>3, <2>4, <2>9
    <3>3. QED
      BY <1>2, <3>1, <3>2
  <2>13. Rest(t, s, r)
    BY <2>11, <2>12 DEF Rest
  <2>14. ASSUME NEW i \in Starts(s), q < i, i < r
         PROVE  FALSE
    <3>1. i \in 1 .. Len(s) /\ (i = 1 \/ (s[i] # SPACE /\ s[i - 1] = SPACE))
      BY <1>1 DEF Starts
    <3>2. i # 1 /\ i \in q .. Len(s) /\ i - 1 \in q .. Len(s)
      BY <1>1, <2>14, <3>1
    <3>3. ~(i - 1 <= q + n - 2)
      BY <1>1, <3>1, <3>2
    <3>4. i - q + 1 \in n .. Len(rest) /\ rest[i - q + 1] = s[i]
      BY <1>1, <1>4, <3>2, <3>3
    <3>5. i - q + 1 \in Follows(rest, n)
      BY <3>1, <3>2, <3>4 DEF Follows
    <3>6. ~(m <= i - q + 1)
      BY <1>1, <2>3, <2>4, <2>14, <3>1
    <3>7. QED
      BY <2>2, <3>5, <3>6
  <2>15. QED
    BY <2>5, <2>6, <2>7, <2>9, <2>10, <2>13, <2>14 DEF GoesOn
<1>7. QED
  BY <1>5, <1>6

(* One word more has been cut.                                             *)
LEMMA CutGoesOn ==
  ASSUME NEW s \in Seq(Glyphs), NEW rest \in Seq(Glyphs), NEW words \in Seq(Seq(Glyphs)),
         Cut(words, rest, s), rest # <<>>, rest[1] # "NL", Len(words) < MAX_ARGC
  PROVE  LET n == Min(Breaks(rest))
         IN  /\ Cut(Append(words, SubSeq(rest, 1, n - 1)), RestBehind(rest, n), s)
             /\ RestBehind(rest, n) \in Seq(Glyphs)
<1>1. Len(s) \in Nat /\ DOMAIN s = 1 .. Len(s) /\ Len(rest) \in Nat /\ Len(words) \in Nat
      /\ DOMAIN words = 1 .. Len(words) /\ Len(rest) >= 1
  <2>1. Len(rest) >= 1
    BY EmptySeq
  <2>2. QED
    BY <2>1, LenProperties
<1>2. PICK at, q : CutAt(words, rest, s, at, q)
  BY DEF Cut
<1>3. NoLine(s) /\ Rest(rest, s, q) /\ q \in 1 .. Len(s) + 1
  BY <1>2 DEF CutAt
<1>4. q \in 1 .. Len(s) /\ q \in Starts(s)
  <2>1. q # Len(s) + 1
    <3> SUFFICES ASSUME q = Len(s) + 1
                 PROVE  FALSE
      OBVIOUS
    <3>1. 1 \in 1 .. Len(rest) /\ ~(q + 1 - 1 <= Len(s))
      BY <1>1
    <3>2. rest[1] = "NL"
      BY <1>3, <3>1 DEF Rest
    <3>3. QED
      BY <3>2
  <2>2. q \in Starts(s)
    BY <1>2, <2>1 DEF CutAt
  <2>3. QED
    BY <1>1, <1>3, <2>1, <2>2
<1>5. PICK n : n = Min(Breaks(rest))
  OBVIOUS
<1>6. /\ n \in 1 .. Len(rest) + 1 /\ (n = Len(rest) + 1 \/ rest[n] \in {SPACE, "NL"})
      /\ q + n - 1 <= Len(s) + 1 /\ SubSeq(rest, 1, n - 1) = WordAt(s, q)
      /\ \A j \in q .. q + n - 2 : s[j] # SPACE
  BY <1>3, <1>4, <1>5, WordEnds
<1>7. PICK r : GoesOn(RestBehind(rest, n), s, q, r)
  BY <1>3, <1>4, <1>6, NextWord
<1>7a. /\ q < r /\ r \in 1 .. Len(s) + 1 /\ r \in Starts(s) \cup {Len(s) + 1}
       /\ RestBehind(rest, n) \in Seq(Glyphs) /\ Rest(RestBehind(rest, n), s, r)
       /\ \A i \in Starts(s) : ~(q < i /\ i < r)
  BY <1>7 DEF GoesOn
<1>8. PICK word : word = WordAt(s, q)
  OBVIOUS
<1>9. PICK more : more = Append(words, word)
  OBVIOUS
<1>10. PICK to : to = [k \in 1 .. Len(words) + 1 |-> IF k = Len(words) + 1 THEN q ELSE at[k]]
  OBVIOUS
<1>11. /\ Len(more) = Len(words) + 1 /\ DOMAIN more = 1 .. Len(words) + 1
       /\ more[Len(words) + 1] = word /\ \A k \in 1 .. Len(words) : more[k] = words[k]
  BY <1>1, <1>9
<1>12. \A k \in 1 .. Len(words) + 1 : k = Len(words) + 1 \/ (k \in 1 .. Len(words) /\ k # Len(words) + 1)
  BY <1>1
<1>13. /\ at \in [1 .. Len(words) -> 1 .. Len(s)]
       /\ \A k \in 1 .. Len(words) : at[k] \in Starts(s) /\ words[k] = WordAt(s, at[k]) /\ at[k] < q
       /\ \A m, k \in 1 .. Len(words) : m < k => at[m] < at[k]
       /\ \A i \in Starts(s) : i < q => \E k \in 1 .. Len(words) : at[k] = i
  BY <1>1, <1>2 DEF CutAt
<1>14. to[Len(words) + 1] = q /\ \A k \in 1 .. Len(words) : to[k] = at[k]
  <2>1. Len(words) + 1 \in 1 .. Len(words) + 1
    BY <1>1
  <2>2. \A k \in 1 .. Len(words) : k \in 1 .. Len(words) + 1 /\ k # Len(words) + 1
    BY <1>1
  <2>3. QED
    BY <1>10, <2>1, <2>2
<1>15. to \in [1 .. Len(words) + 1 -> 1 .. Len(s)]
  BY <1>4, <1>10, <1>12, <1>13
<1>16. ASSUME NEW k \in 1 .. Len(words) + 1
       PROVE  to[k] \in Starts(s) /\ more[k] = WordAt(s, to[k]) /\ to[k] < r
  <2>1. CASE k = Len(words) + 1
    BY <1>4, <1>7a, <1>8, <1>11, <1>14, <2>1
  <2>2. CASE k \in 1 .. Len(words)
    <3>1. to[k] \in Starts(s) /\ more[k] = WordAt(s, to[k]) /\ to[k] < q /\ to[k] \in 1 .. Len(s)
      BY <1>11, <1>13, <1>14, <2>2
    <3>2. to[k] < r
      BY <1>1, <1>3, <1>7a, <3>1
    <3>3. QED
      BY <3>1, <3>2
  <2>3. QED
    BY <1>12, <2>1, <2>2
<1>17. ASSUME NEW m \in 1 .. Len(words) + 1, NEW k \in 1 .. Len(words) + 1, m < k
       PROVE  to[m] < to[k]
  <2>1. m \in 1 .. Len(words)
    BY <1>1, <1>17
  <2>2. CASE k = Len(words) + 1
    BY <1>13, <1>14, <2>1, <2>2
  <2>3. CASE k \in 1 .. Len(words)
    BY <1>13, <1>14, <1>17, <2>1, <2>3
  <2>4. QED
    BY <1>12, <2>2, <2>3
<1>18. ASSUME NEW i \in Starts(s), i < r
       PROVE  \E k \in 1 .. Len(words) + 1 : to[k] = i
  <2>0. i \in 1 .. Len(s)
    BY <1>1 DEF Starts
  <2>1. CASE i < q
    <3>1. PICK k \in 1 .. Len(words) : at[k] = i
      BY <1>13, <2>1
    <3>2. k \in 1 .. Len(words) + 1 /\ to[k] = i
      BY <1>1, <1>14, <3>1
    <3>3. QED
      BY <3>2
  <2>2. CASE ~(i < q)
    <3>1. i = q
      BY <1>1, <1>3, <1>7a, <1>18, <2>0, <2>2
    <3>2. Len(words) + 1 \in 1 .. Len(words) + 1 /\ to[Len(words) + 1] = i
      BY <1>1, <1>14, <3>1
    <3>3. QED
      BY <3>2
  <2>3. QED
    BY <2>1, <2>2
<1>19. Len(more) <= MAX_ARGC
  BY <1>1, <1>11, Limits
<1>20. CutAt(more, RestBehind(rest, n), s, to, r)
  BY <1>1, <1>3, <1>7a, <1>11, <1>15, <1>16, <1>17, <1>18, <1>19 DEF CutAt
<1>21. QED
  BY <1>5, <1>6, <1>7a, <1>8, <1>9, <1>20 DEF Cut

-----------------------------------------------------------------------------
(* What echo prints.                                                       *)
Joins(f, words) ==
  f = [n \in 0 .. Len(words) |->
         IF n = 0 THEN <<>>
         ELSE IF f[n - 1] = <<>> THEN words[n] ELSE f[n - 1] \o <<SPACE>> \o words[n]]

LEMMA JoinedIn ==
  ASSUME NEW words \in Seq(Seq(Glyphs))
  PROVE  Joined(words) \in Seq(Glyphs)
<1> DEFINE With(s, word) == IF s = <<>> THEN word ELSE s \o <<SPACE>> \o word
           step == [n \in 1 .. Len(words) |-> [s \in Seq(Glyphs) |-> With(s, words[n])]]
           F == CHOOSE f : Joins(f, words)
<1>0. Len(words) \in Nat /\ <<>> \in Seq(Glyphs) /\ <<SPACE>> \in Seq(Glyphs)
  <2>1. SPACE \in Glyphs
    BY GlyphsKnown, Zenon
  <2>2. QED
    BY <2>1, LenProperties
<1>1. PICK f : Steps(f, step, <<>>, Len(words))
  <2> HIDE DEF step
  <2>1. QED
    BY <1>0, StepsExist
<1>2. f = [n \in 0 .. Len(words) |-> IF n = 0 THEN <<>> ELSE step[n][f[n - 1]]]
  BY <1>1 DEF Steps
<1>3. \A n \in 0 .. Len(words) : f[n] = IF n = 0 THEN <<>> ELSE step[n][f[n - 1]]
  <2> HIDE DEF step
  <2>1. QED
    BY <1>2
<1>4. \A n \in 1 .. Len(words), s \in Seq(Glyphs) : With(s, words[n]) \in Seq(Glyphs)
  <2> TAKE n \in 1 .. Len(words), s \in Seq(Glyphs)
  <2>1. PICK word \in Seq(Glyphs) : word = words[n]
    BY ElementOfSeq
  <2>2. s \o <<SPACE>> \in Seq(Glyphs)
    BY <1>0, ConcatProperties
  <2>3. s \o <<SPACE>> \o word \in Seq(Glyphs)
    BY <2>2, ConcatProperties
  <2>4. QED
    BY <2>1, <2>3
<1> HIDE DEF With
<1>5. \A n \in 1 .. Len(words), s \in Seq(Glyphs) : step[n][s] = With(s, words[n])
  OBVIOUS
<1> HIDE DEF step
<1>6. \A n \in 0 .. Len(words) : f[n] \in Seq(Glyphs)
  <2> DEFINE S == {n \in Nat : n <= Len(words) => f[n] \in Seq(Glyphs)}
  <2>1. 0 \in S
    <3>1. 0 \in 0 .. Len(words)
      BY <1>0
    <3>2. f[0] = <<>>
      BY <1>3, <3>1
    <3>3. QED
      BY <1>0, <3>2
  <2>2. ASSUME NEW n \in Nat, n \in S
        PROVE  n + 1 \in S
    <3>1. CASE n + 1 <= Len(words)
      <4>1. n + 1 \in 0 .. Len(words) /\ n + 1 \in 1 .. Len(words) /\ n + 1 # 0 /\ (n + 1) - 1 = n /\ f[n] \in Seq(Glyphs)
        BY <1>0, <2>2, <3>1
      <4>2. f[n + 1] = step[n + 1][f[n]]
        BY <1>3, <4>1
      <4>3. f[n + 1] = With(f[n], words[n + 1])
        BY <1>5, <4>1, <4>2
      <4>4. f[n + 1] \in Seq(Glyphs)
        BY <1>4, <4>1, <4>3
      <4>5. QED
        BY <4>4
    <3>2. QED
      BY <3>1
  <2>3. \A n \in Nat : n \in S
    <3> HIDE DEF S
    <3>1. QED
      BY <2>1, <2>2, NatInduct
  <2>4. QED
    BY <2>3
<1>7. Joins(f, words)
  <2>1. \A n \in 0 .. Len(words) : f[n] = IF n = 0 THEN <<>> ELSE With(f[n - 1], words[n])
    <3> TAKE n \in 0 .. Len(words)
    <3>1. CASE n = 0
      BY <1>3, <3>1
    <3>2. CASE n # 0
      <4>1. n - 1 \in 0 .. Len(words) /\ n \in 1 .. Len(words)
        BY <1>0, <3>2
      <4>2. f[n] = step[n][f[n - 1]] /\ f[n - 1] \in Seq(Glyphs)
        BY <1>3, <1>6, <3>2, <4>1
      <4>3. QED
        BY <1>5, <3>2, <4>1, <4>2
    <3>3. QED
      BY <3>1, <3>2
  <2>2. f = [n \in 0 .. Len(words) |-> IF n = 0 THEN <<>> ELSE With(f[n - 1], words[n])]
    BY <1>2, <2>1
  <2>3. QED
    BY <2>2, Zenon DEF Joins, With
<1>8. Joins(F, words)
  BY <1>7
<1>9. Joined(words) = F[Len(words)]
  BY <1>8 DEF Joined, Joins
<1> HIDE DEF F
<1>10. F[0] = <<>> /\ \A n \in 1 .. Len(words) : F[n] = With(F[n - 1], words[n])
  <2>1. F = [n \in 0 .. Len(words) |-> IF n = 0 THEN <<>> ELSE With(F[n - 1], words[n])]
    BY <1>8, Zenon DEF Joins, With
  <2>2. \A n \in 0 .. Len(words) : F[n] = IF n = 0 THEN <<>> ELSE With(F[n - 1], words[n])
    BY <2>1
  <2>3. 0 \in 0 .. Len(words) /\ \A n \in 1 .. Len(words) : n \in 0 .. Len(words) /\ n # 0
    BY <1>0
  <2>4. QED
    BY <2>2, <2>3
<1>11. \A n \in 0 .. Len(words) : F[n] \in Seq(Glyphs)
  <2> DEFINE S == {n \in Nat : n <= Len(words) => F[n] \in Seq(Glyphs)}
  <2>1. 0 \in S
    BY <1>0, <1>10
  <2>2. ASSUME NEW n \in Nat, n \in S
        PROVE  n + 1 \in S
    <3>1. CASE n + 1 <= Len(words)
      <4>1. n + 1 \in 1 .. Len(words) /\ (n + 1) - 1 = n /\ F[n] \in Seq(Glyphs)
        BY <1>0, <2>2, <3>1
      <4>2. F[n + 1] = With(F[n], words[n + 1])
        BY <1>10, <4>1
      <4>3. F[n + 1] \in Seq(Glyphs)
        BY <1>4, <4>1, <4>2
      <4>4. QED
        BY <4>3
    <3>2. QED
      BY <3>1
  <2>3. \A n \in Nat : n \in S
    <3> HIDE DEF S
    <3>1. QED
      BY <2>1, <2>2, NatInduct
  <2>4. QED
    BY <2>3
<1>12. QED
  BY <1>0, <1>9, <1>11

-----------------------------------------------------------------------------
(* Reading a text line by line: p characters have been read, the line      *)
(* starts behind b, and what has been read of it is in buf.                *)
Least(a, b) == IF a <= b THEN a ELSE b

Filling(t, b, p, buf) ==
  /\ p >= Least(b, Len(t)) /\ p < NextEnd(t, b)
  /\ Len(buf) = p - Least(b, Len(t)) /\ Len(buf) < BUFSIZE - 1
  /\ \A i \in 1 .. Len(buf) : buf[i] = t[b + i]

(* The line behind b.                                                      *)
Behind(t, b) == SubSeq(t, b + 1, NextEnd(t, b) - 1)

Starting(t, b) == b \in Nat /\ (b = 0 \/ b = Len(t) + 1 \/ (b <= Len(t) /\ t[b] = "NL"))

LEMMA LineStarts ==
  ASSUME NEW t \in Seq(Glyphs), NEW n \in Nat
  PROVE  /\ Starting(t, LineEnd(t, n)) /\ LineEnd(t, n + 1) = NextEnd(t, LineEnd(t, n))
         /\ NthLine(t, n + 1) = Behind(t, LineEnd(t, n))
<1>1. LineEnd(t, n) \in Nat /\ LineEnd(t, 0) = 0 /\ LineEnd(t, n + 1) = NextEnd(t, LineEnd(t, n))
  BY LineEndOK
<1>2. CASE n = 0
  <2>1. Starting(t, LineEnd(t, n))
    BY <1>1, <1>2 DEF Starting
  <2>2. (n + 1) - 1 = n
    OBVIOUS
  <2>3. QED
    BY <1>1, <2>1, <2>2 DEF NthLine, Behind
<1>3. CASE n # 0
  <2>1. PICK m \in Nat : m + 1 = n
    <3>1. n - 1 \in Nat /\ (n - 1) + 1 = n
      BY <1>3
    <3>2. QED
      BY <3>1
  <2>2. PICK b \in Nat : b = LineEnd(t, m) /\ LineEnd(t, n) = NextEnd(t, b)
    BY <2>1, LineEndOK
  <2>3. PICK e \in Nat : e = NextEnd(t, b) /\ e <= Len(t) + 1 /\ (e <= Len(t) => t[e] = "NL") /\ Len(t) \in Nat
    BY NextEndOK
  <2>4. Starting(t, e)
    BY <2>3 DEF Starting
  <2>5. (n + 1) - 1 = n
    OBVIOUS
  <2>6. QED
    BY <1>1, <2>2, <2>3, <2>4, <2>5 DEF NthLine, Behind
<1>4. QED
  BY <1>2, <1>3

LEMMA EndBehind ==
  ASSUME NEW t \in Seq(Glyphs), NEW b \in Nat, b <= Len(t)
  PROVE  LET e == NextEnd(t, b)
         IN  /\ e \in Nat /\ e <= Len(t) + 1 /\ Len(t) \in Nat /\ e > b
             /\ e <= Len(t) => t[e] = "NL"
             /\ \A j \in b + 1 .. Len(t) : j < e => t[j] # "NL"
<1>1. PICK e : e = NextEnd(t, b)
  OBVIOUS
<1>2. /\ e \in Nat /\ e <= Len(t) + 1 /\ Len(t) \in Nat
      /\ e > b \/ (b > Len(t) /\ e = Len(t) + 1)
      /\ e <= Len(t) => t[e] = "NL"
      /\ \A j \in b + 1 .. Len(t) : j < e => t[j] # "NL"
  BY <1>1, NextEndOK
<1>3. e > b
  BY <1>2
<1>4. QED
  BY <1>1, <1>2, <1>3

LEMMA BehindIs ==
  ASSUME NEW t \in Seq(Glyphs), NEW b \in Nat, b <= Len(t)
  PROVE  LET s == Behind(t, b)
         IN  /\ s \in Seq(Glyphs) /\ Len(s) = NextEnd(t, b) - 1 - b /\ NoLine(s)
             /\ \A i \in 1 .. Len(s) : s[i] = t[b + i]
<1>1. PICK e \in Nat : /\ e = NextEnd(t, b) /\ e <= Len(t) + 1 /\ Len(t) \in Nat /\ e > b
                       /\ \A j \in b + 1 .. Len(t) : j < e => t[j] # "NL"
  BY EndBehind
<1>2. PICK s : s = SubSeq(t, b + 1, e - 1)
  OBVIOUS
<1>3. b + 1 \in Int /\ e - 1 \in Int
  BY <1>1
<1>4. \A i \in b + 1 .. e - 1 : t[i] \in Glyphs
  <2> TAKE i \in b + 1 .. e - 1
  <2>1. i \in 1 .. Len(t)
    BY <1>1
  <2>2. QED
    BY <2>1, ElementOfSeq
<1>5. /\ s \in Seq(Glyphs) /\ Len(s) = IF b + 1 <= e - 1 THEN (e - 1) - (b + 1) + 1 ELSE 0
      /\ \A i \in 1 .. (e - 1) - (b + 1) + 1 : s[i] = t[(b + 1) + i - 1]
  BY <1>2, <1>3, <1>4, SubSeqProperties
<1>6. Len(s) = e - 1 - b
  BY <1>1, <1>5
<1>7. \A i \in 1 .. Len(s) : s[i] = t[b + i] /\ b + i \in b + 1 .. Len(t) /\ b + i < e
  <2> TAKE i \in 1 .. Len(s)
  <2>1. i \in 1 .. (e - 1) - (b + 1) + 1 /\ (b + 1) + i - 1 = b + i
    BY <1>1, <1>6
  <2>2. b + i \in b + 1 .. Len(t) /\ b + i < e
    BY <1>1, <1>6
  <2>3. QED
    BY <1>5, <2>1, <2>2
<1>8. NoLine(s)
  BY <1>1, <1>7 DEF NoLine
<1>9. Behind(t, b) = s
  BY <1>1, <1>2 DEF Behind
<1>10. QED
  BY <1>1, <1>5, <1>6, <1>7, <1>8, <1>9

(* A line that ends has been read.                                         *)
Given(t, b, p, buf) ==
  /\ p = Least(NextEnd(t, b), Len(t)) /\ NextEnd(t, b) <= Len(t) /\ Behind(t, b) \in Seq(Glyphs)
  /\ NoLine(Behind(t, b)) /\ Rest(buf, Behind(t, b), 1)

LEMMA FillOne ==
  ASSUME NEW t \in Seq(Glyphs), LinesFit(t), NEW b, Starting(t, b), NEW p \in Nat, p < Len(t),
         NEW buf \in Seq(Glyphs), Filling(t, b, p, buf)
  PROVE  LET more == Append(buf, t[p + 1])
         IN  IF Last(more) = "NL" \/ Len(more) = BUFSIZE - 1
             THEN Given(t, b, p + 1, more) ELSE Filling(t, b, p + 1, more)
<1>1. b \in Nat /\ Len(t) \in Nat /\ Len(buf) \in Nat /\ BUFSIZE \in Nat
  BY LenProperties, Limits DEF Starting
<1>2. b <= p /\ b < Len(t) /\ Least(b, Len(t)) = b
  BY <1>1 DEF Filling, Least
<1>3. /\ p < NextEnd(t, b) /\ Len(buf) = p - b /\ Len(buf) < BUFSIZE - 1
      /\ \A i \in 1 .. Len(buf) : buf[i] = t[b + i]
  BY <1>2 DEF Filling
<1>4. PICK e \in Nat : /\ e = NextEnd(t, b) /\ e <= Len(t) + 1 /\ e > b
                       /\ (e <= Len(t) => t[e] = "NL")
                       /\ \A j \in b + 1 .. Len(t) : j < e => t[j] # "NL"
  <2>1. b <= Len(t)
    BY <1>1, <1>2
  <2>2. QED
    BY <1>1, <2>1, EndBehind
<1>5. p + 1 \in 1 .. Len(t) /\ p + 1 \in Nat /\ p + 1 \in b + 1 .. Len(t) /\ t[p + 1] \in Glyphs
  <2>1. p + 1 \in 1 .. Len(t) /\ p + 1 \in Nat /\ p + 1 \in b + 1 .. Len(t)
    BY <1>1, <1>2
  <2>2. QED
    BY <2>1, ElementOfSeq
<1>6. PICK more \in Seq(Glyphs) : more = Append(buf, t[p + 1])
  <2>1. PICK x \in Glyphs : x = t[p + 1]
    BY <1>5
  <2>2. Append(buf, x) \in Seq(Glyphs)
    OBVIOUS
  <2>3. QED
    BY <2>1, <2>2
<1>7. Len(more) = p + 1 - b /\ \A i \in 1 .. Len(more) : more[i] = t[b + i]
  <2>1. Len(more) = Len(buf) + 1
    BY <1>6
  <2>2. \A i \in 1 .. Len(buf) : more[i] = buf[i]
    BY <1>1, <1>6
  <2>3. more[Len(buf) + 1] = t[p + 1]
    BY <1>1, <1>6
  <2>4. Len(buf) + 1 = p + 1 - b /\ b + (Len(buf) + 1) = p + 1
    BY <1>1, <1>2, <1>3
  <2>5. ASSUME NEW i \in 1 .. Len(more)
        PROVE  more[i] = t[b + i]
    <3>1. CASE i = Len(buf) + 1
      BY <2>3, <2>4, <3>1
    <3>2. CASE i # Len(buf) + 1
      <4>1. i \in 1 .. Len(buf)
        BY <1>1, <2>1, <3>2
      <4>2. QED
        BY <1>3, <2>2, <4>1
    <3>3. QED
      BY <3>1, <3>2
  <2>6. QED
    BY <2>1, <2>4, <2>5
<1>8. Last(more) = t[p + 1]
  <2>1. Len(more) \in 1 .. Len(more) /\ b + Len(more) = p + 1
    BY <1>1, <1>2, <1>7
  <2>2. QED
    BY <1>7, <2>1 DEF Last
<1>9. /\ Behind(t, b) \in Seq(Glyphs) /\ Len(Behind(t, b)) = e - 1 - b /\ NoLine(Behind(t, b))
      /\ \A i \in 1 .. Len(Behind(t, b)) : Behind(t, b)[i] = t[b + i]
  BY <1>1, <1>2, <1>4, BehindIs
<1>10. CASE t[p + 1] = "NL"
  <2>1. e = p + 1
    BY <1>3, <1>4, <1>5, <1>10
  <2>2. p + 1 = Least(e, Len(t)) /\ e <= Len(t)
    BY <1>1, <1>5, <2>1 DEF Least
  <2>3. Len(more) = Len(Behind(t, b)) + 2 - 1
    BY <1>1, <1>7, <1>9, <2>1
  <2>4. ASSUME NEW i \in 1 .. Len(more)
        PROVE  more[i] = IF 1 + i - 1 <= Len(Behind(t, b)) THEN Behind(t, b)[1 + i - 1] ELSE "NL"
    <3>1. 1 + i - 1 = i /\ i \in Nat /\ i >= 1
      BY <1>1, <1>2, <1>7
    <3>2. CASE i <= Len(Behind(t, b))
      <4>1. i \in 1 .. Len(Behind(t, b))
        BY <1>1, <1>2, <1>4, <1>9, <3>1, <3>2
      <4>2. QED
        BY <1>7, <1>9, <3>1, <3>2, <4>1
    <3>3. CASE ~(i <= Len(Behind(t, b)))
      <4>1. b + i = p + 1
        BY <1>1, <1>2, <1>7, <1>9, <2>1, <3>1, <3>3
      <4>2. QED
        BY <1>7, <1>10, <3>1, <3>3, <4>1
    <3>4. QED
      BY <3>2, <3>3
  <2>5. Rest(more, Behind(t, b), 1)
    BY <2>3, <2>4 DEF Rest
  <2>6. QED
    BY <1>4, <1>6, <1>8, <1>9, <1>10, <2>2, <2>5 DEF Given
<1>11. CASE t[p + 1] # "NL"
  <2>1. p + 1 < e
    BY <1>3, <1>4, <1>5, <1>11
  <2>2. CASE Len(more) = BUFSIZE - 1
    <3>1. ~\E j \in b + 1 .. b + BUFSIZE - 1 : t[j] = "NL"
      <4> SUFFICES ASSUME NEW j \in b + 1 .. b + BUFSIZE - 1, t[j] = "NL"
                   PROVE  FALSE
        OBVIOUS
      <4>1. j \in b + 1 .. Len(t) /\ j < e
        BY <1>1, <1>2, <1>4, <1>5, <1>7, <2>1, <2>2
      <4>2. QED
        BY <1>4, <4>1
    <3>2. b \in 0 .. Len(t) /\ (b = 0 \/ t[b] = "NL")
      BY <1>1, <1>2 DEF Starting
    <3>3. b + BUFSIZE - 1 > Len(t)
      BY <3>1, <3>2 DEF LinesFit
    <3>4. b + BUFSIZE - 1 = p + 1 /\ p + 1 <= Len(t)
      BY <1>1, <1>5, <1>7, <2>2
    <3>5. QED
      BY <1>1, <3>3, <3>4
  <2>3. CASE Len(more) # BUFSIZE - 1
    <3>1. Len(more) < BUFSIZE - 1
      BY <1>1, <1>2, <1>3, <1>7, <2>3
    <3>2. Filling(t, b, p + 1, more)
      BY <1>1, <1>2, <1>4, <1>7, <2>1, <3>1 DEF Filling
    <3>3. QED
      BY <1>6, <1>8, <1>11, <2>3, <3>2
  <2>4. QED
    BY <2>2, <2>3
<1>12. QED
  BY <1>10, <1>11

-----------------------------------------------------------------------------
(* The shells, and the files that they read.                               *)
Texts == [buf : Seq(Glyphs), bm : Nat]
Shells == [input : {Stdin} \cup DOMAIN Scripts, file : Texts, off : Nat, ready : BOOLEAN, lines : Nat]

(* The stream of a script holds a part of it.                              *)
Text(s) == Scripts[s.input]
StreamInv(s) ==
  s.input # Stdin =>
    /\ s.file.bm <= Len(s.file.buf) /\ Len(s.file.buf) <= s.off /\ s.off <= Len(Text(s))
    /\ \A i \in 1 .. Len(s.file.buf) : s.file.buf[i] = Text(s)[s.off - Len(s.file.buf) + i]

(* How much of the script fgets has taken; between two lines, in one, and  *)
(* when one has been read.                                                 *)
Taken(s) == s.off - Len(s.file.buf) + s.file.bm
Begin(s) == LineEnd(Text(s), s.lines)
Fits(s) == s.input # Stdin /\ LinesFit(Text(s))
Waits(s) == Fits(s) => Taken(s) = Least(Begin(s), Len(Text(s)))
Fills(s, buf) == Fits(s) => Filling(Text(s), Begin(s), Taken(s), buf)
Runs(s, words, rest) ==
  Fits(s) => /\ Taken(s) = Least(NextEnd(Text(s), Begin(s)), Len(Text(s)))
             /\ NextEnd(Text(s), Begin(s)) <= Len(Text(s))
             /\ Behind(Text(s), Begin(s)) \in Seq(Glyphs)
             /\ Cut(words, rest, Behind(Text(s), Begin(s)))

Stack(st) == \A j \in 1 .. Len(st) : StreamInv(st[j]) /\ (j < Len(st) => Waits(st[j]))

LEMMA ShellIs ==
  ASSUME NEW s \in Shells
  PROVE  /\ s.file.buf \in Seq(Glyphs) /\ s.file.bm \in Nat /\ Len(s.file.buf) \in Nat /\ s.off \in Nat
         /\ s.lines \in Nat /\ s.file \in Texts
         /\ s.input # Stdin => Text(s) \in Seq(Glyphs) /\ Len(Text(s)) \in Nat
<1>1. s.input \in {Stdin} \cup DOMAIN Scripts /\ s.file \in Texts /\ s.off \in Nat /\ s.lines \in Nat
  BY DEF Shells
<1>2. s.file.buf \in Seq(Glyphs) /\ s.file.bm \in Nat
  BY <1>1 DEF Texts
<1>3. s.input # Stdin => Text(s) \in Seq(Glyphs)
  BY <1>1, TerminalAssumption, Zenon DEF Text
<1>4. QED
  BY <1>1, <1>2, <1>3, LenProperties

ReplacedLast(t, s, x) ==
  /\ t \in Seq(Shells) /\ t # <<>> /\ Len(t) = Len(s) /\ Len(s) \in Nat /\ Len(s) >= 1
  /\ Last(t) = x /\ \A j \in 1 .. Len(s) : t[j] = IF j < Len(s) THEN s[j] ELSE x

LEMMA Replaced ==
  ASSUME NEW s \in Seq(Shells), s # <<>>, NEW x \in Shells
  PROVE  ReplacedLast([s EXCEPT ![Len(s)] = x], s, x)
<1>1. Len(s) \in Nat /\ Len(s) >= 1 /\ Len(s) \in 1 .. Len(s)
  BY EmptySeq, LenProperties
<1>2. PICK t : t = [s EXCEPT ![Len(s)] = x]
  OBVIOUS
<1>3. /\ t \in Seq(Shells) /\ Len(t) = Len(s)
      /\ \A j \in 1 .. Len(s) : t[j] = IF j = Len(s) THEN x ELSE s[j]
  BY <1>1, <1>2, ExceptSeq
<1>4. t # <<>>
  BY <1>1, <1>3
<1>5. Last(t) = x
  BY <1>1, <1>3 DEF Last
<1>6. \A j \in 1 .. Len(s) : t[j] = IF j < Len(s) THEN s[j] ELSE x
  <2> TAKE j \in 1 .. Len(s)
  <2>1. j < Len(s) <=> j # Len(s)
    BY <1>1
  <2>2. QED
    BY <1>3, <2>1
<1>7. QED
  BY <1>1, <1>2, <1>3, <1>4, <1>5, <1>6 DEF ReplacedLast

LEMMA LastIs ==
  ASSUME NEW s \in Seq(Shells), s # <<>>
  PROVE  /\ Len(s) \in Nat /\ Len(s) >= 1 /\ Len(s) \in 1 .. Len(s)
         /\ Last(s) \in Shells /\ Last(s) = s[Len(s)]
<1>1. Len(s) \in Nat /\ Len(s) >= 1 /\ Len(s) \in 1 .. Len(s)
  BY EmptySeq, LenProperties
<1>2. Last(s) = s[Len(s)]
  BY DEF Last
<1>3. QED
  BY <1>1, <1>2, ElementOfSeq

LEMMA StackReplaced ==
  ASSUME NEW s, NEW t, NEW x, ReplacedLast(t, s, x), Stack(s), StreamInv(x)
  PROVE  Stack(t)
<1> SUFFICES ASSUME NEW j \in 1 .. Len(t)
             PROVE  StreamInv(t[j]) /\ (j < Len(t) => Waits(t[j]))
  BY DEF Stack
<1>1. j \in 1 .. Len(s) /\ Len(t) = Len(s)
  BY DEF ReplacedLast
<1>2. CASE j < Len(s)
  <2>1. t[j] = s[j]
    BY <1>1, <1>2 DEF ReplacedLast
  <2>2. QED
    BY <1>1, <1>2, <2>1 DEF Stack
<1>3. CASE ~(j < Len(s))
  <2>1. t[j] = x
    BY <1>1, <1>3 DEF ReplacedLast
  <2>2. QED
    BY <1>1, <1>3, <2>1
<1>4. QED
  BY <1>2, <1>3

LEMMA StackLeft ==
  ASSUME NEW s \in Seq(Shells), s # <<>>, Stack(s)
  PROVE  /\ Front(s) \in Seq(Shells) /\ Stack(Front(s))
         /\ Front(s) # <<>> => Waits(Last(Front(s)))
<1>1. Len(s) \in Nat /\ Len(s) >= 1
  BY LastIs
<1>2. PICK f : f = Front(s)
  OBVIOUS
<1>3. /\ f \in Seq(Shells) /\ Len(f) = Len(s) - 1
      /\ \A i \in 1 .. Len(s) - 1 : f[i] = s[i]
  BY <1>2, FrontOf DEF Front
<1>4. \A j \in 1 .. Len(f) : j \in 1 .. Len(s) /\ j < Len(s) /\ f[j] = s[j]
  BY <1>1, <1>3
<1>5. \A j \in 1 .. Len(f) : StreamInv(f[j]) /\ Waits(f[j])
  <2> TAKE j \in 1 .. Len(f)
  <2>1. StreamInv(s[j]) /\ Waits(s[j])
    BY <1>4 DEF Stack
  <2>2. QED
    BY <1>4, <2>1
<1>6. f # <<>> => Waits(Last(f))
  <2> SUFFICES ASSUME f # <<>>
               PROVE  Waits(Last(f))
    OBVIOUS
  <2>1. Last(f) = f[Len(f)] /\ Len(f) \in 1 .. Len(f)
    BY <1>3, LastIs
  <2>2. QED
    BY <1>5, <2>1
<1>7. Stack(f)
  BY <1>5 DEF Stack
<1>8. QED
  BY <1>2, <1>3, <1>6, <1>7

LEMMA StackGrown ==
  ASSUME NEW s \in Seq(Shells), s # <<>>, Stack(s), Waits(Last(s)), NEW x \in Shells, StreamInv(x)
  PROVE  /\ Append(s, x) \in Seq(Shells) /\ Append(s, x) # <<>> /\ Last(Append(s, x)) = x
         /\ Stack(Append(s, x))
<1>1. Len(s) \in Nat /\ Len(s) >= 1 /\ Last(s) = s[Len(s)]
  BY LastIs
<1>2. PICK t : t = Append(s, x)
  OBVIOUS
<1>3. t \in Seq(Shells) /\ Len(t) = Len(s) + 1 /\ t[Len(s) + 1] = x /\ \A j \in 1 .. Len(s) : t[j] = s[j]
  BY <1>1, <1>2
<1>4. t # <<>> /\ Last(t) = x
  <2>1. t # <<>>
    BY <1>1, <1>3
  <2>2. QED
    BY <1>3, <2>1 DEF Last
<1>5. ASSUME NEW j \in 1 .. Len(t)
      PROVE  StreamInv(t[j]) /\ (j < Len(t) => Waits(t[j]))
  <2>1. CASE j \in 1 .. Len(s)
    <3>1. t[j] = s[j] /\ StreamInv(s[j])
      BY <1>3, <2>1 DEF Stack
    <3>2. Waits(s[j])
      <4>1. CASE j < Len(s)
        BY <2>1, <4>1 DEF Stack
      <4>2. CASE ~(j < Len(s))
        <5>1. j = Len(s)
          BY <1>1, <2>1, <4>2
        <5>2. QED
          BY <1>1, <5>1
      <4>3. QED
        BY <4>1, <4>2
    <3>3. QED
      BY <3>1, <3>2
  <2>2. CASE j \notin 1 .. Len(s)
    <3>1. j = Len(s) + 1 /\ ~(j < Len(t))
      BY <1>1, <1>3, <2>2
    <3>2. QED
      BY <1>3, <3>1
  <2>3. QED
    BY <2>1, <2>2
<1>6. Stack(t)
  BY <1>5 DEF Stack
<1>7. QED
  BY <1>2, <1>3, <1>4, <1>6

(* A shell that starts has read nothing.                                   *)
LEMMA ShellStarts ==
  /\ Interactive \in Shells /\ StreamInv(Interactive) /\ Waits(Interactive) /\ Interactive.input = Stdin
  /\ \A name \in DOMAIN Scripts : Reads(name) \in Shells /\ StreamInv(Reads(name)) /\ Waits(Reads(name))
<1>1. NoText \in Texts /\ Len(NoText.buf) = 0 /\ NoText.bm = 0
  BY DEF NoText, Texts
<1>2. Interactive \in Shells /\ Interactive.input = Stdin
  BY <1>1 DEF Interactive, Shells
<1>3. ASSUME NEW name \in DOMAIN Scripts
      PROVE  Reads(name) \in Shells /\ StreamInv(Reads(name)) /\ Waits(Reads(name))
  <2>1. PICK s : s = Reads(name)
    OBVIOUS
  <2>2. s.input = name /\ s.file = NoText /\ s.off = 0 /\ s.lines = 0 /\ s \in Shells
    BY <1>1, <1>2, <2>1 DEF Reads, Interactive, Shells
  <2>3. Scripts[name] \in Seq(Glyphs)
    BY TerminalAssumption, Zenon
  <2>4. Text(s) = Scripts[name] /\ Len(Text(s)) \in Nat
    BY <2>2, <2>3, LenProperties DEF Text
  <2>5. StreamInv(s)
    BY <1>1, <2>2, <2>4 DEF StreamInv
  <2>6. Begin(s) = 0
    BY <2>2, <2>3, <2>4, LineEndOK DEF Begin
  <2>7. Taken(s) = 0
    BY <1>1, <2>2 DEF Taken
  <2>8. Least(0, Len(Text(s))) = 0
    BY <2>4 DEF Least
  <2>9. Waits(s)
    BY <2>6, <2>7, <2>8 DEF Waits
  <2>10. QED
    BY <2>1, <2>2, <2>5, <2>9
<1>4. QED
  BY <1>2, <1>3 DEF StreamInv, Waits, Fits

(* A line has been run: the shell waits behind it.                         *)
SameStream(z, s) == z.input = s.input /\ z.file = s.file /\ z.off = s.off

LEMMA RanWaits ==
  ASSUME NEW s \in Shells, NEW z \in Shells, SameStream(z, s), z.lines = s.lines + 1,
         NEW words, NEW rest, Runs(s, words, rest), StreamInv(s)
  PROVE  Waits(z) /\ StreamInv(z)
<1>1. Text(z) = Text(s) /\ Taken(z) = Taken(s) /\ (Fits(z) <=> Fits(s)) /\ StreamInv(z)
  BY DEF SameStream, Text, Taken, Fits, StreamInv
<1>2. ASSUME Fits(z)
      PROVE  Taken(z) = Least(Begin(z), Len(Text(z)))
  <2>1. Text(s) \in Seq(Glyphs) /\ s.lines \in Nat
    BY <1>1, <1>2, ShellIs DEF Fits
  <2>2. Begin(z) = NextEnd(Text(s), Begin(s))
    BY <1>1, <2>1, LineEndOK DEF Begin
  <2>3. QED
    BY <1>1, <1>2, <2>2 DEF Runs
<1>3. QED
  BY <1>1, <1>2 DEF Waits

(* The next line starts to be read.                                        *)
LEMMA WaitsFills ==
  ASSUME NEW s \in Shells, Waits(s)
  PROVE  Fills(s, <<>>)
<1> SUFFICES ASSUME Fits(s)
             PROVE  Filling(Text(s), Begin(s), Taken(s), <<>>)
  BY DEF Fills
<1>1. PICK t \in Seq(Glyphs) : t = Text(s) /\ Len(t) \in Nat
  BY ShellIs DEF Fits
<1>2. PICK b \in Nat : b = Begin(s)
  BY <1>1, ShellIs, LineEndOK DEF Begin
<1>3. PICK e \in Nat : e = NextEnd(t, b) /\ e <= Len(t) + 1 /\ (e > b \/ (b > Len(t) /\ e = Len(t) + 1))
  BY NextEndOK
<1>4. PICK p \in Nat : p = Least(b, Len(t)) /\ p < e
  BY <1>1, <1>3 DEF Least
<1>5. Taken(s) = p
  BY <1>1, <1>2, <1>4 DEF Waits
<1>6. Len(<<>>) = 0 /\ 0 < BUFSIZE - 1 /\ p - p = 0
  BY Limits
<1>7. Filling(t, b, p, <<>>)
  BY <1>3, <1>4, <1>6 DEF Filling
<1>8. QED
  BY <1>1, <1>2, <1>5, <1>7

LEMMA Position ==
  ASSUME NEW len \in Nat, NEW n \in Nat, NEW off \in Nat, NEW m \in Nat, m < n, n <= off, off <= len
  PROVE  /\ off - n + m \in Nat /\ off - n + m < len
         /\ off - n + (m + 1) = off - n + m + 1
OBVIOUS

(* fgets takes one character of the script.                                *)
TookOne(z, s, more) ==
  /\ z \in Shells /\ z.input = s.input /\ StreamInv(z) /\ more \in Seq(Glyphs)
  /\ IF Last(more) = "NL" \/ Len(more) = BUFSIZE - 1 THEN Runs(z, <<>>, more) ELSE Fills(z, more)

LEMMA TakesOne ==
  ASSUME NEW s \in Shells, s.input # Stdin, StreamInv(s), s.file.bm < Len(s.file.buf),
         NEW buf \in Seq(Glyphs), Fills(s, buf),
         NEW z, z = [s EXCEPT !.file = [s.file EXCEPT !.bm = @ + 1]],
         NEW more, more = Append(buf, s.file.buf[s.file.bm + 1])
  PROVE  TookOne(z, s, more)
<1>1. PICK t \in Seq(Glyphs) : t = Text(s) /\ Len(t) \in Nat
  BY ShellIs
<1>2. PICK part \in Seq(Glyphs) : part = s.file.buf /\ Len(part) \in Nat
  BY ShellIs
<1>3. PICK m \in Nat : m = s.file.bm /\ m < Len(part)
  BY <1>2, ShellIs
<1>4. PICK off \in Nat : off = s.off /\ Len(part) <= off /\ off <= Len(t)
  BY <1>1, <1>2, ShellIs DEF StreamInv
<1>5. \A i \in 1 .. Len(part) : part[i] = t[off - Len(part) + i]
  BY <1>1, <1>2, <1>4 DEF StreamInv
<1>6. m + 1 \in 1 .. Len(part) /\ m + 1 \in Nat
  <2>1. PICK n \in Nat : n = Len(part)
    BY <1>2
  <2>2. m < n
    BY <1>3, <2>1
  <2>3. m + 1 \in 1 .. n /\ m + 1 \in Nat
    BY <2>2
  <2>4. QED
    BY <2>1, <2>3
<1>7. PICK p \in Nat : p = off - Len(part) + m /\ p < Len(t) /\ off - Len(part) + (m + 1) = p + 1
  <2>1. off - Len(part) + m \in Nat /\ off - Len(part) + m < Len(t) /\ off - Len(part) + (m + 1) = off - Len(part) + m + 1
    <3>1. PICK n \in Nat : n = Len(part)
      BY <1>2
    <3>2. PICK len \in Nat : len = Len(t)
      BY <1>1
    <3>3. m < n /\ n <= off /\ off <= len
      BY <1>3, <1>4, <3>1, <3>2
    <3>4. off - n + m \in Nat /\ off - n + m < len /\ off - n + (m + 1) = off - n + m + 1
      BY <3>3, Position
    <3>5. QED
      BY <3>1, <3>2, <3>4
  <2>2. QED
    BY <2>1
<1>8. part[m + 1] = t[p + 1]
  BY <1>5, <1>6, <1>7
<1>9. more \in Seq(Glyphs) /\ more = Append(buf, t[p + 1])
  <2>1. PICK x \in Glyphs : x = part[m + 1]
    BY <1>6, ElementOfSeq
  <2>2. more = Append(buf, x)
    BY <1>2, <1>3, <2>1
  <2>3. QED
    BY <1>8, <2>1, <2>2
<1>10. z.input = s.input /\ z.file.buf = part /\ z.file.bm = m + 1 /\ z.off = off /\ z.lines = s.lines /\ z \in Shells
  <2>1. s.file \in Texts /\ s.file.bm + 1 \in Nat
    BY <1>3, ShellIs
  <2>2. PICK f : f = [s.file EXCEPT !.bm = @ + 1]
    OBVIOUS
  <2>3. f \in Texts /\ f.buf = part /\ f.bm = m + 1
    BY <1>2, <1>3, <2>1, <2>2 DEF Texts
  <2>4. z = [s EXCEPT !.file = f]
    BY <2>2
  <2>5. QED
    BY <1>4, <2>3, <2>4 DEF Shells
<1>11. Text(z) = t /\ Begin(z) = Begin(s) /\ Taken(z) = p + 1 /\ Taken(s) = p /\ (Fits(z) <=> Fits(s))
  BY <1>1, <1>2, <1>3, <1>4, <1>7, <1>10 DEF Text, Begin, Taken, Fits
<1>12. StreamInv(z)
  <2>1. z.file.bm <= Len(z.file.buf) /\ Len(z.file.buf) <= z.off /\ z.off <= Len(Text(z))
    BY <1>2, <1>3, <1>4, <1>10, <1>11
  <2>2. \A i \in 1 .. Len(z.file.buf) : z.file.buf[i] = Text(z)[z.off - Len(z.file.buf) + i]
    BY <1>5, <1>10, <1>11
  <2>3. QED
    BY <2>1, <2>2 DEF StreamInv
<1>13. ASSUME Fits(s)
       PROVE  IF Last(more) = "NL" \/ Len(more) = BUFSIZE - 1
              THEN Given(t, Begin(s), p + 1, more) ELSE Filling(t, Begin(s), p + 1, more)
  <2>1. Starting(t, Begin(s))
    BY <1>1, ShellIs, LineStarts DEF Begin
  <2>2. LinesFit(t) /\ Filling(t, Begin(s), p, buf)
    BY <1>1, <1>11, <1>13 DEF Fits, Fills
  <2>3. QED
    BY <1>7, <1>9, <2>1, <2>2, FillOne
<1>14. ASSUME Fits(s), Given(t, Begin(s), p + 1, more)
       PROVE  Runs(z, <<>>, more)
  <2>1. Cut(<<>>, more, Behind(t, Begin(s)))
    BY <1>9, <1>14, CutBegins DEF Given
  <2>2. QED
    BY <1>11, <1>14, <2>1 DEF Given, Runs
<1>15. IF Last(more) = "NL" \/ Len(more) = BUFSIZE - 1 THEN Runs(z, <<>>, more) ELSE Fills(z, more)
  <2>1. CASE Fits(s)
    BY <1>11, <1>13, <1>14, <2>1 DEF Fills
  <2>2. CASE ~Fits(s)
    BY <1>11, <2>2 DEF Fills, Runs
  <2>3. QED
    BY <2>1, <2>2
<1>16. QED
  BY <1>9, <1>10, <1>12, <1>15 DEF TookOne

(* A script is read on.                                                    *)
ReadMore(z, s, buf) ==
  /\ z \in Shells /\ z.input = s.input /\ StreamInv(z) /\ Fills(z, buf)

LEMMA ReadsOn ==
  ASSUME NEW s \in Shells, s.input # Stdin, StreamInv(s), s.file.bm >= Len(s.file.buf),
         NEW buf \in Seq(Glyphs), Fills(s, buf),
         NEW end, end = Clamped(s.off + BUFSIZE, Len(Text(s))),
         NEW more, more = SubSeq(Text(s), s.off + 1, end),
         NEW z, z = [s EXCEPT !.file = [buf |-> more, bm |-> 0], !.off = end]
  PROVE  ReadMore(z, s, buf)
<1>1. PICK t \in Seq(Glyphs) : t = Text(s) /\ Len(t) \in Nat
  BY ShellIs
<1>2. PICK part \in Seq(Glyphs) : part = s.file.buf /\ Len(part) \in Nat
  BY ShellIs
<1>3. PICK off \in Nat : off = s.off /\ Len(part) <= off /\ off <= Len(t)
  BY <1>1, <1>2, ShellIs DEF StreamInv
<1>4. s.file.bm = Len(part)
  <2>1. s.file.bm \in Nat /\ s.file.bm <= Len(part)
    BY <1>2, ShellIs DEF StreamInv
  <2>2. QED
    BY <1>2, <2>1
<1>5. end \in Nat /\ end >= off /\ end <= Len(t) /\ (end = off => off = Len(t))
  <2>1. end = Clamped(off + BUFSIZE, Len(t))
    BY <1>1, <1>3
  <2>2. QED
    <3>1. PICK b \in Nat : b = BUFSIZE /\ b >= 2
      BY Limits
    <3>2. PICK k \in Nat : k = Len(t)
      BY <1>1
    <3>3. end = IF off + b < 0 THEN 0 ELSE IF off + b > k THEN k ELSE off + b
      BY <2>1, <3>1, <3>2, Zenon DEF Clamped
    <3>4. off <= k
      BY <1>3, <3>2
    <3>5. end \in Nat /\ end >= off /\ end <= k /\ (end = off => off = k)
      BY <3>1, <3>3, <3>4
    <3>6. QED
      BY <3>2, <3>5
<1>6. /\ more \in Seq(Glyphs) /\ Len(more) = end - off
      /\ \A i \in 1 .. Len(more) : more[i] = t[off + i]
  <2>1. more = SubSeq(t, off + 1, end) /\ off + 1 \in Int /\ end \in Int
    BY <1>1, <1>3, <1>5
  <2>2. \A i \in off + 1 .. end : t[i] \in Glyphs
    <3> TAKE i \in off + 1 .. end
    <3>1. i \in 1 .. Len(t)
      BY <1>1, <1>3, <1>5
    <3>2. QED
      BY <3>1, ElementOfSeq
  <2>3. /\ more \in Seq(Glyphs) /\ Len(more) = IF off + 1 <= end THEN end - (off + 1) + 1 ELSE 0
        /\ \A i \in 1 .. end - (off + 1) + 1 : more[i] = t[(off + 1) + i - 1]
    <3>1. PICK w : w = SubSeq(t, off + 1, end)
      OBVIOUS
    <3>2. /\ w \in Seq(Glyphs) /\ Len(w) = IF off + 1 <= end THEN end - (off + 1) + 1 ELSE 0
          /\ \A i \in 1 .. end - (off + 1) + 1 : w[i] = t[(off + 1) + i - 1]
      <4>1. PICK a \in Int : a = off + 1
        BY <2>1
      <4>2. \A i \in a .. end : t[i] \in Glyphs
        BY <2>2, <4>1, Zenon
      <4>3. w = SubSeq(t, a, end) /\ end \in Int
        BY <2>1, <3>1, <4>1
      <4>4. /\ w \in Seq(Glyphs) /\ Len(w) = IF a <= end THEN end - a + 1 ELSE 0
            /\ \A i \in 1 .. end - a + 1 : w[i] = t[a + i - 1]
        BY <4>2, <4>3, SubSeqProperties
      <4>5. QED
        BY <4>1, <4>4, Zenon
    <3>3. more = w
      BY <2>1, <3>1, Zenon
    <3>4. QED
      BY <3>2, <3>3, Zenon
  <2>4. Len(more) = end - off
    BY <1>3, <1>5, <2>3
  <2>5. \A i \in 1 .. Len(more) : i \in 1 .. end - (off + 1) + 1 /\ (off + 1) + i - 1 = off + i
    BY <1>3, <1>5, <2>4
  <2>6. QED
    BY <2>3, <2>4, <2>5
<1>7. z.input = s.input /\ z.file.buf = more /\ z.file.bm = 0 /\ z.off = end /\ z.lines = s.lines /\ z \in Shells
  <2>1. PICK f : f = [buf |-> more, bm |-> 0]
    OBVIOUS
  <2>2. f \in Texts /\ f.buf = more /\ f.bm = 0
    BY <1>6, <2>1 DEF Texts
  <2>3. z = [s EXCEPT !.file = f, !.off = end]
    BY <2>1
  <2>4. QED
    BY <1>5, <2>2, <2>3 DEF Shells
<1>8. Text(z) = t /\ Begin(z) = Begin(s) /\ (Fits(z) <=> Fits(s))
  BY <1>1, <1>7 DEF Text, Begin, Fits
<1>9. Taken(s) = off /\ Taken(z) = off
  <2>1. Taken(s) = off - Len(part) + Len(part)
    BY <1>2, <1>3, <1>4 DEF Taken
  <2>2. Taken(z) = end - (end - off) + 0
    BY <1>6, <1>7 DEF Taken
  <2>3. QED
    BY <1>2, <1>3, <1>5, <2>1, <2>2
<1>10. StreamInv(z)
  <2>1. z.file.bm <= Len(z.file.buf) /\ Len(z.file.buf) <= z.off /\ z.off <= Len(Text(z))
    <3>1. 0 <= end - off /\ end - off <= end
      BY <1>3, <1>5
    <3>2. QED
      BY <1>5, <1>6, <1>7, <1>8, <3>1
  <2>2. ASSUME NEW i \in 1 .. Len(more)
        PROVE  more[i] = t[end - Len(more) + i]
    <3>1. end - Len(more) = off
      BY <1>3, <1>5, <1>6
    <3>2. QED
      BY <1>6, <3>1
  <2>3. \A i \in 1 .. Len(z.file.buf) : z.file.buf[i] = Text(z)[z.off - Len(z.file.buf) + i]
    BY <1>7, <1>8, <2>2, Zenon
  <2>4. QED
    BY <2>1, <2>3, Zenon DEF StreamInv
<1>11. Fills(z, buf)
  BY <1>1, <1>8, <1>9 DEF Fills
<1>12. QED
  BY <1>7, <1>10, <1>11 DEF ReadMore

-----------------------------------------------------------------------------
(* The inductive invariant: what the variables are,                        *)
StateInv ==
  /\ vc \in Screens /\ out \in Seq(Glyphs) /\ shells \in Seq(Shells) /\ stdin \in Texts
  /\ pc \in {"prompt", "fgets", "read", "run", "ended"}
  /\ buffer \in Seq(Glyphs) /\ argv \in Seq(Seq(Glyphs))
  /\ typed \in Seq(Glyphs) /\ line \in Seq(Glyphs) /\ start \in Nat /\ odd \in BOOLEAN
  /\ pc # "ended" => shells # <<>>
  /\ pc \in {"fgets", "read"} => argv = <<>>
  /\ pc = "read" => out = <<>> /\ Current.input = Stdin

(* how far the shells are in their scripts,                                *)
ScriptInv ==
  /\ Stack(shells)
  /\ pc = "prompt" => Waits(Current)
  /\ pc = "fgets" => Fills(Current, buffer)
  /\ pc = "run" => Runs(Current, argv, buffer)

(* how much of the line that was typed has been read,                      *)
Unread == pc = "fgets" /\ Current.input = Stdin /\ stdin.bm < Len(stdin.buf)

Passing(text, taken, s) ==
  /\ text.buf = Append(s, "NL") /\ Len(s) + 2 <= BUFSIZE /\ NoLine(s)
  /\ Len(taken) = text.bm /\ \A i \in 1 .. Len(taken) : taken[i] = text.buf[i]

LineInv ==
  ~odd =>
    /\ NoLine(typed) /\ Len(typed) < BUFSIZE - 1
    /\ pc # "read" => typed = <<>>
    /\ Unread => Passing(stdin, buffer, line)
    /\ ~Unread => stdin.bm >= Len(stdin.buf)
    /\ ~Unread /\ (pc = "read" \/ (pc = "fgets" /\ Current.input = Stdin)) => buffer = <<>>
    /\ pc = "run" /\ Current.input = Stdin => Cut(argv, buffer, line)

(* and what is on the screen of the line that is typed.                    *)
Echoed(v, s, from) ==
  /\ v.state["line"] = "normal" /\ v.line_buffer = s
  /\ Len(s) <= v.cur_col
  /\ Cell(v.cur_row, v.cur_col) = from + Len(s)
  /\ \A i \in 1 .. Len(s) : v.fb[from + i - 1] = s[i]

EchoInv == pc = "read" /\ ~odd => Echoed(vc, typed, start)

TerminalInv == StateInv /\ ScriptInv /\ LineInv /\ EchoInv

LEMMA CurrentIs ==
  ASSUME StateInv, pc # "ended"
  PROVE  /\ shells \in Seq(Shells) /\ shells # <<>> /\ Current \in Shells
         /\ Len(shells) \in Nat /\ Len(shells) >= 1 /\ Len(shells) \in 1 .. Len(shells)
         /\ Current = shells[Len(shells)]
<1>1. shells \in Seq(Shells) /\ shells # <<>>
  BY DEF StateInv
<1>2. QED
  BY <1>1, LastIs DEF Current

LEMMA CurrentStream ==
  ASSUME StateInv, ScriptInv, pc # "ended"
  PROVE  StreamInv(Current)
<1>1. Len(shells) \in 1 .. Len(shells) /\ Current = shells[Len(shells)]
  BY CurrentIs
<1>2. QED
  BY <1>1 DEF ScriptInv, Stack

LEMMA StdinIs ==
  ASSUME StateInv
  PROVE  /\ stdin.buf \in Seq(Glyphs) /\ stdin.bm \in Nat /\ Len(stdin.buf) \in Nat
         /\ stdin.bm >= Len(stdin.buf) <=> ~(stdin.bm < Len(stdin.buf))
<1>1. stdin.buf \in Seq(Glyphs) /\ stdin.bm \in Nat
  BY DEF StateInv, Texts
<1>2. Len(stdin.buf) \in Nat
  BY <1>1, LenProperties
<1>3. QED
  BY <1>1, <1>2

LEMMA Whole ==
  ASSUME NEW v \in Screens
  PROVE  v.cur_row \in 0 .. H - 1 /\ v.cur_col \in 0 .. W - 1 /\ v.line_buffer \in Seq(Glyphs)
BY DEF Screens, Consoles

(* A line starts where the cursor is.                                      *)
SameCursor(w, v) == w.cur_row = v.cur_row /\ w.cur_col = v.cur_col

LEMMA LineStarted ==
  ASSUME NEW v \in Screens
  PROVE  LET w == StartLine(v)
         IN  w \in Screens /\ SameCursor(w, v) /\ w.state["line"] = "normal" /\ w.line_buffer = <<>>
<1>1. v \in Consoles /\ Below(v.fb) /\ v.state \in [Machines -> States]
      /\ v.prefixes \in [Machines -> Seq(Nat) \ {<<>>}] /\ "line" \in Machines
  BY DEF Screens, Consoles, Machines
<1>2. "normal" \in States /\ <<0>> \in Seq(Nat) \ {<<>>} /\ <<>> \in Seq(Glyphs)
  BY DEF States
<1>3. PICK st : st = [v.state EXCEPT !["line"] = "normal"]
  OBVIOUS
<1>4. PICK pr : pr = [v.prefixes EXCEPT !["line"] = <<0>>]
  OBVIOUS
<1>5. st \in [Machines -> States] /\ pr \in [Machines -> Seq(Nat) \ {<<>>}] /\ st["line"] = "normal"
  BY <1>1, <1>2, <1>3, <1>4
<1>6. PICK w : w = [v EXCEPT !.state = st, !.prefixes = pr, !.line_buffer = <<>>]
  OBVIOUS
<1>7. w = StartLine(v)
  BY <1>1, <1>3, <1>4, <1>6 DEF StartLine, Consoles
<1>8. w \in Screens
  BY <1>2, <1>5, <1>6, Remembered
<1>9. SameCursor(w, v) /\ w.state = st /\ w.line_buffer = <<>>
  BY <1>1, <1>6 DEF SameCursor, Consoles
<1>10. QED
  BY <1>5, <1>7, <1>8, <1>9

-----------------------------------------------------------------------------
(* The actions, one after the other.                                       *)
LEMMA PutcharKeeps ==
  ASSUME TerminalInv, console_putchar
  PROVE  TerminalInv'
<1>1. out \in Seq(Glyphs) /\ out # <<>> /\ vc \in Screens /\ pc # "read"
  BY DEF TerminalInv, StateInv, console_putchar
<1>2. UNCHANGED <<shells, stdin, pc, buffer, argv, keys, typed, line, start, odd>>
  BY DEF console_putchar, typedVars
<1>3. Head(out) \in Glyphs /\ Tail(out) \in Seq(Glyphs)
  BY <1>1, HeadTailProperties
<1>4. vc' \in Screens
  <2>1. vc' = Settled(virtual_console_putchar_sm(vc, Head(out), "ansi"), "ansi")
    BY DEF console_putchar, Put
  <2>2. "ansi" \in Machines
    BY DEF Machines
  <2>3. Head(out) \in Input
    BY <1>3 DEF Input
  <2>4. QED
    BY <1>1, <2>1, <2>2, <2>3, CharacterIn
<1>5. out' \in Seq(Glyphs)
  BY <1>3 DEF console_putchar
<1>6. StateInv'
  BY <1>1, <1>2, <1>4, <1>5 DEF TerminalInv, StateInv, Current
<1>7. ScriptInv'
  BY <1>2 DEF TerminalInv, ScriptInv, Current
<1>8. LineInv'
  BY <1>2 DEF TerminalInv, LineInv, Unread, Current
<1>9. EchoInv'
  BY <1>1, <1>2 DEF EchoInv
<1>10. QED
  BY <1>6, <1>7, <1>8, <1>9 DEF TerminalInv

LEMMA PromptKeeps ==
  ASSUME TerminalInv, shell_print_prompt
  PROVE  TerminalInv'
<1>1. pc = "prompt" /\ pc' = "fgets" /\ buffer' = <<>> /\ argv' = <<>>
      /\ UNCHANGED <<vc, shells, stdin, keys, typed, line, start, odd>>
  BY DEF shell_print_prompt, typedVars
<1>2. StateInv /\ Current \in Shells /\ Current' = Current
  BY <1>1, CurrentIs DEF TerminalInv, Current
<1>3. out' \in Seq(Glyphs)
  <2>1. Prompt \in Seq(Glyphs) /\ <<>> \in Seq(Glyphs)
    <3>1. Prompt \in Seq(Glyphs)
      BY TerminalAssumption, Zenon
    <3>2. QED
      BY <3>1
  <2>2. QED
    BY <2>1 DEF shell_print_prompt, Say
<1>4. StateInv'
  BY <1>1, <1>2, <1>3 DEF StateInv
<1>5. Fills(Current, <<>>)
  BY <1>1, <1>2, WaitsFills DEF TerminalInv, ScriptInv
<1>6. ScriptInv'
  BY <1>1, <1>2, <1>5 DEF TerminalInv, ScriptInv
<1>7. LineInv'
  <2> SUFFICES ASSUME ~odd'
               PROVE  LineInv'
    BY DEF LineInv
  <2>1. ~odd /\ ~Unread
    BY <1>1 DEF Unread
  <2>2. /\ NoLine(typed) /\ Len(typed) < BUFSIZE - 1 /\ typed = <<>>
        /\ stdin.bm >= Len(stdin.buf)
    BY <1>1, <2>1 DEF TerminalInv, LineInv
  <2>3. ~(stdin.bm < Len(stdin.buf))
    BY <1>2, <2>2, StdinIs
  <2>4. ~Unread'
    BY <1>1, <2>3 DEF Unread
  <2>5. QED
    BY <1>1, <2>2, <2>4 DEF LineInv
<1>8. EchoInv'
  BY <1>1 DEF EchoInv
<1>9. QED
  BY <1>4, <1>6, <1>7, <1>8 DEF TerminalInv

(* A shell ends.                                                           *)
LEMMA LeaveKeeps ==
  ASSUME TerminalInv, pc # "ended", pc # "read", ~Unread, Leave,
         UNCHANGED <<vc, out, stdin, buffer, argv, typedVars>>
  PROVE  TerminalInv'
<1>1. StateInv /\ shells \in Seq(Shells) /\ shells # <<>> /\ Stack(shells)
  BY CurrentIs DEF TerminalInv, ScriptInv
<1>2. shells' = Front(shells) /\ pc' = IF Front(shells) = <<>> THEN "ended" ELSE "prompt"
  BY DEF Leave, Outer
<1>3. UNCHANGED <<vc, out, stdin, buffer, argv, keys, typed, line, start, odd>>
  BY DEF typedVars
<1>4. /\ Front(shells) \in Seq(Shells) /\ Stack(Front(shells))
      /\ Front(shells) # <<>> => Waits(Last(Front(shells)))
  BY <1>1, StackLeft
<1>5. pc' \in {"ended", "prompt"} /\ (pc' # "ended" => shells' # <<>>)
  BY <1>2
<1>6. StateInv'
  BY <1>1, <1>2, <1>3, <1>4, <1>5 DEF StateInv
<1>7. ScriptInv'
  BY <1>2, <1>4, <1>5 DEF ScriptInv, Current
<1>8. LineInv'
  BY <1>3, <1>5 DEF TerminalInv, LineInv, Unread
<1>9. EchoInv'
  BY <1>5 DEF EchoInv
<1>10. QED
  BY <1>6, <1>7, <1>8, <1>9 DEF TerminalInv

LEMMA ExitKeeps ==
  ASSUME TerminalInv, Exit
  PROVE  TerminalInv'
<1>1. pc = "prompt" /\ Leave /\ UNCHANGED <<vc, out, stdin, buffer, argv, typedVars>>
  BY DEF Exit
<1>2. ~Unread
  BY <1>1 DEF Unread
<1>3. QED
  BY <1>1, <1>2, LeaveKeeps

LEMMA ReadStdinKeeps ==
  ASSUME TerminalInv, out = <<>>, ReadStdin
  PROVE  TerminalInv'
<1>1. pc = "fgets" /\ pc' = "read" /\ Current.input = Stdin /\ vc' = StartLine(vc)
      /\ start' = Cell(vc.cur_row, vc.cur_col) /\ odd' = (odd /\ (buffer # <<>> \/ typed # <<>>))
      /\ UNCHANGED <<out, shells, stdin, buffer, argv, keys, typed, line>>
  BY DEF ReadStdin
<1>2. Current' = Current /\ vc \in Screens /\ StateInv
  BY <1>1 DEF Current, TerminalInv, StateInv
<1>3. stdin.bm >= Len(stdin.buf) /\ stdin.bm \in Nat /\ Len(stdin.buf) \in Nat
  <2>1. stdin.bm >= Len(stdin.buf)
    BY <1>1 DEF ReadStdin, Stream
  <2>2. stdin.buf \in Seq(Glyphs) /\ stdin.bm \in Nat
    BY <1>2 DEF StateInv, Texts
  <2>3. QED
    BY <2>1, <2>2, LenProperties
<1>4. ~Unread
  BY <1>3 DEF Unread
<1>5. vc' \in Screens /\ SameCursor(vc', vc) /\ vc'.state["line"] = "normal" /\ vc'.line_buffer = <<>>
  BY <1>1, <1>2, LineStarted
<1>6. start' \in Nat
  BY <1>1, <1>2, Whole, CellInside
<1>7. odd' \in BOOLEAN
  BY <1>1
<1>8. StateInv'
  BY <1>1, <1>2, <1>5, <1>6, <1>7 DEF StateInv
<1>9. ScriptInv'
  BY <1>1 DEF TerminalInv, ScriptInv
<1>10. ~odd' => buffer = <<>> /\ typed = <<>>
  <2>1. ~odd => buffer = <<>> /\ typed = <<>>
    BY <1>1, <1>4 DEF TerminalInv, LineInv
  <2>2. QED
    BY <1>1, <2>1
<1>11. LineInv'
  <2>1. Len(<<>>) = 0 /\ 0 < BUFSIZE - 1
    BY Limits
  <2>2. NoLine(<<>>)
    BY <2>1 DEF NoLine
  <2>3. QED
    BY <1>1, <1>3, <1>10, <2>1, <2>2 DEF LineInv, Unread
<1>12. EchoInv'
  <2> SUFFICES ASSUME ~odd'
               PROVE  Echoed(vc', typed', start')
    BY DEF EchoInv
  <2>1. typed' = <<>>
    BY <1>1, <1>10
  <2>2. Len(<<>>) = 0 /\ 0 <= vc'.cur_col /\ start' = start' + 0
    <3>1. vc'.cur_col \in 0 .. W - 1
      BY <1>5 DEF Screens, Consoles
    <3>2. 0 <= vc'.cur_col
      BY <3>1, Sizes
    <3>3. start' = start' + 0
      <4>1. PICK n \in Nat : n = start'
        BY <1>6
      <4>2. n = n + 0
        OBVIOUS
      <4>3. QED
        BY <4>1, <4>2
    <3>4. QED
      BY <3>2, <3>3
  <2>3. Cell(vc'.cur_row, vc'.cur_col) = start'
    BY <1>1, <1>5 DEF SameCursor
  <2>4. QED
    BY <1>5, <2>1, <2>2, <2>3 DEF Echoed
<1>13. QED
  BY <1>8, <1>9, <1>11, <1>12 DEF TerminalInv

(* One more character of the line that was typed.                          *)
LEMMA PassOne ==
  ASSUME NEW text \in Texts, NEW taken \in Seq(Glyphs), NEW s \in Seq(Glyphs),
         Passing(text, taken, s), text.bm < Len(text.buf),
         NEW z, z = [text EXCEPT !.bm = @ + 1],
         NEW more, more = Append(taken, text.buf[text.bm + 1])
  PROVE  IF Last(more) = "NL" \/ Len(more) = BUFSIZE - 1
         THEN z.bm >= Len(z.buf) /\ Cut(<<>>, more, s)
         ELSE z.bm < Len(z.buf) /\ Passing(z, more, s)
<1>1. PICK k \in Nat : k = Len(s)
  BY LenProperties
<1>2. PICK b \in Nat : b = BUFSIZE /\ k + 2 <= b
  BY <1>1, Limits DEF Passing
<1>3. PICK buf \in Seq(Glyphs) : buf = text.buf
  BY DEF Texts
<1>4. Len(buf) = k + 1 /\ buf[k + 1] = "NL" /\ \A i \in 1 .. k : buf[i] = s[i]
  <2>1. PICK nl \in Glyphs : nl = "NL"
    BY GlyphsKnown, Zenon
  <2>2. buf = Append(s, nl)
    BY <1>3, <2>1 DEF Passing
  <2>3. QED
    BY <1>1, <2>1, <2>2
<1>5. PICK m \in Nat : m = text.bm /\ m < k + 1
  BY <1>3, <1>4 DEF Texts
<1>6. z.bm = m + 1 /\ z.buf = buf
  BY <1>3, <1>5 DEF Texts
<1>7. Len(taken) = m /\ \A i \in 1 .. m : taken[i] = buf[i]
  BY <1>3, <1>5 DEF Passing
<1>8. PICK c \in Glyphs : c = buf[m + 1]
  <2>1. m + 1 \in 1 .. Len(buf)
    BY <1>4, <1>5
  <2>2. QED
    BY <2>1, ElementOfSeq
<1>9. more = Append(taken, c)
  BY <1>3, <1>5, <1>8
<1>10. more \in Seq(Glyphs) /\ Len(more) = m + 1 /\ Last(more) = c
  <2>1. more \in Seq(Glyphs) /\ Len(more) = m + 1 /\ more[m + 1] = c
    BY <1>7, <1>9
  <2>2. QED
    BY <2>1 DEF Last
<1>11. \A i \in 1 .. m + 1 : more[i] = buf[i]
  <2> TAKE i \in 1 .. m + 1
  <2>1. CASE i = m + 1
    BY <1>7, <1>8, <1>9, <2>1
  <2>2. CASE i # m + 1
    <3>1. i \in 1 .. m
      BY <2>2
    <3>2. more[i] = taken[i]
      BY <1>7, <1>9, <3>1
    <3>3. QED
      BY <1>7, <3>1, <3>2
  <2>3. QED
    BY <2>1, <2>2
<1>12. CASE m + 1 <= k
  <2>1. m + 1 \in 1 .. k /\ m + 1 < b - 1
    BY <1>2, <1>12
  <2>2. c # "NL"
    BY <1>1, <1>4, <1>8, <2>1 DEF Passing, NoLine
  <2>3. Len(more) # BUFSIZE - 1
    BY <1>2, <1>10, <2>1
  <2>4. z.bm < Len(z.buf)
    BY <1>4, <1>6, <1>12
  <2>5. Passing(z, more, s)
    <3>1. z.buf = Append(s, "NL") /\ Len(s) + 2 <= BUFSIZE /\ NoLine(s)
      BY <1>3, <1>6 DEF Passing
    <3>2. Len(more) = z.bm /\ \A i \in 1 .. Len(more) : more[i] = z.buf[i]
      BY <1>6, <1>10, <1>11
    <3>3. QED
      BY <3>1, <3>2 DEF Passing
  <2>6. QED
    BY <1>10, <2>2, <2>3, <2>4, <2>5
<1>13. CASE ~(m + 1 <= k)
  <2>1. m = k
    BY <1>5, <1>13
  <2>2. c = "NL"
    BY <1>4, <1>8, <2>1
  <2>3. z.bm >= Len(z.buf)
    BY <1>4, <1>6, <2>1
  <2>4. Len(more) = Len(s) + 2 - 1
    BY <1>1, <1>10, <2>1
  <2>5. \A i \in 1 .. Len(more) : more[i] = IF 1 + i - 1 <= Len(s) THEN s[1 + i - 1] ELSE "NL"
    <3> TAKE i \in 1 .. Len(more)
    <3>1. 1 + i - 1 = i /\ i \in 1 .. k + 1 /\ more[i] = buf[i]
      BY <1>10, <1>11, <2>1
    <3>2. CASE i <= k
      <4>1. i \in 1 .. k
        BY <3>1, <3>2
      <4>2. QED
        BY <1>1, <1>4, <3>1, <3>2, <4>1
    <3>3. CASE ~(i <= k)
      <4>1. i = k + 1
        BY <3>1, <3>3
      <4>2. QED
        BY <1>1, <1>4, <3>1, <3>3, <4>1
    <3>4. QED
      BY <3>2, <3>3
  <2>6. Rest(more, s, 1)
    BY <2>4, <2>5 DEF Rest
  <2>7. Cut(<<>>, more, s)
    BY <1>10, <2>6, CutBegins DEF Passing
  <2>8. QED
    BY <1>10, <2>2, <2>3, <2>7
<1>14. QED
  BY <1>12, <1>13

LEMMA FgetcStdinKeeps ==
  ASSUME TerminalInv, fgetc, Current.input = Stdin
  PROVE  TerminalInv'
<1>1. pc = "fgets" /\ stdin.bm < Len(stdin.buf) /\ stdin' = [stdin EXCEPT !.bm = @ + 1]
      /\ UNCHANGED <<vc, out, shells, argv, keys, typed, line, start, odd>>
      /\ buffer' = Append(buffer, stdin.buf[stdin.bm + 1])
      /\ pc' = IF Last(buffer') = "NL" \/ Len(buffer') = BUFSIZE - 1 THEN "run" ELSE "fgets"
  BY DEF fgetc, Stream, typedVars
<1>2. StateInv /\ stdin \in Texts /\ buffer \in Seq(Glyphs) /\ line \in Seq(Glyphs) /\ argv = <<>> /\ Current' = Current
  BY <1>1 DEF TerminalInv, StateInv, Current
<1>3. stdin' \in Texts
  <2>1. stdin.bm + 1 \in Nat
    BY <1>2, StdinIs
  <2>2. QED
    BY <1>1, <1>2, <2>1 DEF Texts
<1>4. buffer' \in Seq(Glyphs)
  <2>1. stdin.bm + 1 \in 1 .. Len(stdin.buf)
    BY <1>1, <1>2, StdinIs
  <2>2. PICK c \in Glyphs : c = stdin.buf[stdin.bm + 1]
    BY <1>2, <2>1, StdinIs, ElementOfSeq
  <2>3. QED
    BY <1>1, <1>2, <2>2
<1>5. pc' \in {"run", "fgets"}
  BY <1>1
<1>6. StateInv'
  BY <1>1, <1>2, <1>3, <1>4, <1>5 DEF StateInv
<1>7. ScriptInv'
  BY <1>1, <1>2, <1>5 DEF TerminalInv, ScriptInv, Fills, Runs, Fits
<1>8. LineInv'
  <2> SUFFICES ASSUME ~odd
               PROVE  LineInv'
    BY <1>1 DEF LineInv
  <2>1. Unread
    BY <1>1 DEF Unread
  <2>2. Passing(stdin, buffer, line) /\ NoLine(typed) /\ Len(typed) < BUFSIZE - 1 /\ typed = <<>>
    BY <1>1, <2>1 DEF TerminalInv, LineInv
  <2>3. IF Last(buffer') = "NL" \/ Len(buffer') = BUFSIZE - 1
        THEN stdin'.bm >= Len(stdin'.buf) /\ Cut(<<>>, buffer', line)
        ELSE stdin'.bm < Len(stdin'.buf) /\ Passing(stdin', buffer', line)
    BY <1>1, <1>2, <2>2, PassOne
  <2>4. CASE pc' = "run"
    <3>1. stdin'.bm >= Len(stdin'.buf) /\ Cut(<<>>, buffer', line)
      BY <1>1, <2>3, <2>4
    <3>2. QED
      BY <1>1, <1>2, <2>2, <2>4, <3>1 DEF LineInv, Unread
  <2>5. CASE pc' = "fgets"
    <3>1. stdin'.bm < Len(stdin'.buf) /\ Passing(stdin', buffer', line)
      BY <1>1, <2>3, <2>5
    <3>2. QED
      BY <1>1, <1>2, <2>2, <2>5, <3>1 DEF LineInv, Unread
  <2>6. QED
    BY <1>5, <2>4, <2>5
<1>9. EchoInv'
  BY <1>5 DEF EchoInv
<1>10. QED
  BY <1>6, <1>7, <1>8, <1>9 DEF TerminalInv

LEMMA FgetcScriptKeeps ==
  ASSUME TerminalInv, fgetc, Current.input # Stdin
  PROVE  TerminalInv'
<1>1. pc = "fgets" /\ Current.file.bm < Len(Current.file.buf)
      /\ shells' = [shells EXCEPT ![Len(shells)].file = [Current.file EXCEPT !.bm = @ + 1]]
      /\ UNCHANGED <<vc, out, stdin, argv, keys, typed, line, start, odd>>
      /\ buffer' = Append(buffer, Current.file.buf[Current.file.bm + 1])
      /\ pc' = IF Last(buffer') = "NL" \/ Len(buffer') = BUFSIZE - 1 THEN "run" ELSE "fgets"
  BY DEF fgetc, Stream, typedVars
<1>2. StateInv /\ buffer \in Seq(Glyphs) /\ argv = <<>> /\ Current \in Shells /\ StreamInv(Current)
      /\ shells \in Seq(Shells) /\ shells # <<>> /\ Current = shells[Len(shells)] /\ Len(shells) \in 1 .. Len(shells)
  BY <1>1, CurrentIs, CurrentStream DEF TerminalInv, StateInv
<1>3. Fills(Current, buffer) /\ Stack(shells)
  BY <1>1 DEF TerminalInv, ScriptInv
<1>4. PICK z : z = [Current EXCEPT !.file = [Current.file EXCEPT !.bm = @ + 1]]
  OBVIOUS
<1>5. /\ z \in Shells /\ z.input = Current.input /\ StreamInv(z) /\ buffer' \in Seq(Glyphs)
      /\ IF Last(buffer') = "NL" \/ Len(buffer') = BUFSIZE - 1 THEN Runs(z, <<>>, buffer') ELSE Fills(z, buffer')
  <2>1. PICK s \in Shells : s = Current
    BY <1>2
  <2>2. PICK more : more = Append(buffer, s.file.buf[s.file.bm + 1])
    OBVIOUS
  <2>3. s.input # Stdin /\ StreamInv(s) /\ s.file.bm < Len(s.file.buf) /\ Fills(s, buffer)
        /\ z = [s EXCEPT !.file = [s.file EXCEPT !.bm = @ + 1]]
    BY <1>1, <1>2, <1>3, <1>4, <2>1
  <2>4. TookOne(z, s, more)
    BY <1>2, <2>2, <2>3, TakesOne
  <2>5. buffer' = more
    BY <1>1, <2>1, <2>2
  <2>6. QED
    BY <2>1, <2>4, <2>5 DEF TookOne
<1>6. shells' = [shells EXCEPT ![Len(shells)] = z]
  BY <1>1, <1>2, <1>4
<1>7. ReplacedLast(shells', shells, z)
  BY <1>2, <1>5, <1>6, Replaced
<1>8. Current' = z /\ Stack(shells') /\ shells' \in Seq(Shells) /\ shells' # <<>>
  BY <1>3, <1>5, <1>7, StackReplaced DEF ReplacedLast, Current
<1>9. pc' \in {"run", "fgets"}
  BY <1>1
<1>10. StateInv'
  BY <1>1, <1>2, <1>5, <1>8, <1>9 DEF StateInv
<1>11. ScriptInv'
  <2>1. CASE pc' = "run"
    BY <1>1, <1>2, <1>5, <1>8, <2>1 DEF ScriptInv
  <2>2. CASE pc' = "fgets"
    BY <1>1, <1>5, <1>8, <2>2 DEF ScriptInv
  <2>3. QED
    BY <1>9, <2>1, <2>2
<1>12. LineInv'
  <2>1. ~Unread /\ ~Unread' /\ Current'.input # Stdin
    BY <1>5, <1>8 DEF Unread
  <2>2. QED
    BY <1>1, <1>9, <2>1 DEF TerminalInv, LineInv
<1>13. EchoInv'
  BY <1>9 DEF EchoInv
<1>14. QED
  BY <1>10, <1>11, <1>12, <1>13 DEF TerminalInv

LEMMA ReadScriptKeeps ==
  ASSUME TerminalInv, ReadScript
  PROVE  TerminalInv'
<1>1. pc = "fgets" /\ Current.input # Stdin /\ Current.file.bm >= Len(Current.file.buf)
      /\ UNCHANGED <<vc, out, stdin, buffer, argv, typedVars>>
  BY DEF ReadScript, Stream
<1>2. StateInv /\ buffer \in Seq(Glyphs) /\ argv = <<>> /\ Current \in Shells /\ StreamInv(Current)
      /\ shells \in Seq(Shells) /\ shells # <<>> /\ Current = shells[Len(shells)] /\ Len(shells) \in 1 .. Len(shells)
  BY <1>1, CurrentIs, CurrentStream DEF TerminalInv, StateInv
<1>3. Fills(Current, buffer) /\ Stack(shells)
  BY <1>1 DEF TerminalInv, ScriptInv
<1>4. PICK end : end = Clamped(Current.off + BUFSIZE, Len(Text(Current)))
  OBVIOUS
<1>5. PICK more : more = SubSeq(Text(Current), Current.off + 1, end)
  OBVIOUS
<1>6. PICK z : z = [Current EXCEPT !.file = [buf |-> more, bm |-> 0], !.off = end]
  OBVIOUS
<1>7. z \in Shells /\ z.input = Current.input /\ StreamInv(z) /\ Fills(z, buffer)
  <2>1. PICK s \in Shells : s = Current
    BY <1>2
  <2>2. s.input # Stdin /\ StreamInv(s) /\ s.file.bm >= Len(s.file.buf) /\ Fills(s, buffer)
    BY <1>1, <1>2, <1>3, <2>1
  <2>3. /\ end = Clamped(s.off + BUFSIZE, Len(Text(s))) /\ more = SubSeq(Text(s), s.off + 1, end)
        /\ z = [s EXCEPT !.file = [buf |-> more, bm |-> 0], !.off = end]
    BY <1>4, <1>5, <1>6, <2>1
  <2>4. ReadMore(z, s, buffer)
    BY <1>2, <2>2, <2>3, ReadsOn
  <2>5. QED
    BY <2>1, <2>4 DEF ReadMore
<1>8. \/ more # <<>> /\ pc' = pc
         /\ shells' = [shells EXCEPT ![Len(shells)].file = [buf |-> more, bm |-> 0], ![Len(shells)].off = end]
      \/ Leave
  BY <1>4, <1>5, Zenon DEF ReadScript, Text
<1>9. ~Unread
  BY <1>1 DEF Unread
<1>10. UNCHANGED <<vc, out, stdin, buffer, argv, keys, typed, line, start, odd>>
  BY <1>1 DEF typedVars
<1>11. CASE /\ more # <<>> /\ pc' = pc
            /\ shells' = [shells EXCEPT ![Len(shells)].file = [buf |-> more, bm |-> 0], ![Len(shells)].off = end]
  <2>1. shells' = [shells EXCEPT ![Len(shells)] = z]
    BY <1>2, <1>6, <1>11
  <2>2. ReplacedLast(shells', shells, z)
    BY <1>2, <1>7, <2>1, Replaced
  <2>3. Current' = z /\ Stack(shells') /\ shells' \in Seq(Shells) /\ shells' # <<>>
    BY <1>3, <1>7, <2>2, StackReplaced DEF ReplacedLast, Current
  <2>4. StateInv'
    BY <1>1, <1>2, <1>10, <1>11, <2>3 DEF StateInv
  <2>5. ScriptInv'
    BY <1>1, <1>7, <1>10, <1>11, <2>3 DEF ScriptInv
  <2>6. LineInv'
    BY <1>1, <1>7, <1>9, <1>10, <1>11, <2>3 DEF TerminalInv, LineInv, Unread
  <2>7. EchoInv'
    BY <1>1, <1>11 DEF EchoInv
  <2>8. QED
    BY <2>4, <2>5, <2>6, <2>7 DEF TerminalInv
<1>12. CASE Leave
  BY <1>1, <1>9, <1>12, LeaveKeeps
<1>13. QED
  BY <1>8, <1>11, <1>12

LEMMA CutWordKeeps ==
  ASSUME TerminalInv, CutWord
  PROVE  TerminalInv'
<1>1. pc = "run" /\ buffer # <<>> /\ buffer[1] # "NL" /\ Len(argv) < MAX_ARGC
      /\ UNCHANGED <<vc, out, shells, stdin, pc, keys, typed, line, start, odd>>
  BY DEF CutWord, More, typedVars
<1>2. PICK n : n = Min(Breaks(buffer))
  OBVIOUS
<1>3. argv' = Append(argv, SubSeq(buffer, 1, n - 1)) /\ buffer' = RestBehind(buffer, n)
  BY <1>2, Zenon DEF CutWord, Breaks, RestBehind, Follows
<1>4. StateInv /\ buffer \in Seq(Glyphs) /\ argv \in Seq(Seq(Glyphs)) /\ Current' = Current
  BY <1>1 DEF TerminalInv, StateInv, Current
<1>5. Len(buffer) \in Nat /\ Len(buffer) >= 1
  BY <1>1, <1>4, EmptySeq, LenProperties
<1>6. n \in 1 .. Len(buffer) + 1
  <2>1. Breaks(buffer) \subseteq 1 .. Len(buffer) + 1 /\ Breaks(buffer) # {}
    BY <1>4, <1>5, LenProperties DEF Breaks
  <2>2. Breaks(buffer) \subseteq Nat
    BY <1>5, <2>1
  <2>3. QED
    BY <1>2, <2>1, <2>2, MinOf
<1>7. SubSeq(buffer, 1, n - 1) \in Seq(Glyphs)
  <2>1. \A i \in 1 .. n - 1 : buffer[i] \in Glyphs
    <3> TAKE i \in 1 .. n - 1
    <3>1. i \in 1 .. Len(buffer)
      BY <1>5, <1>6
    <3>2. QED
      BY <1>4, <3>1, ElementOfSeq
  <2>2. 1 \in Int /\ n - 1 \in Int
    BY <1>5, <1>6
  <2>3. QED
    BY <2>1, <2>2, SubSeqProperties
<1>8. argv' \in Seq(Seq(Glyphs))
  <2>1. PICK word \in Seq(Glyphs) : word = SubSeq(buffer, 1, n - 1)
    BY <1>7
  <2>2. QED
    BY <1>3, <1>4, <2>1
<1>9. buffer' \in Seq(Glyphs)
  <2>1. CASE Follows(buffer, n) = {}
    <3>1. buffer' = <<>>
      BY <1>3, <2>1, Zenon DEF RestBehind
    <3>2. QED
      BY <3>1
  <2>2. CASE Follows(buffer, n) # {}
    <3>1. PICK m : m = Min(Follows(buffer, n))
      OBVIOUS
    <3>2. m \in 1 .. Len(buffer)
      <4>1. Follows(buffer, n) \subseteq 1 .. Len(buffer) /\ Follows(buffer, n) \subseteq Nat
        BY <1>5, <1>6 DEF Follows
      <4>2. QED
        BY <2>2, <3>1, <4>1, MinOf
    <3>3. \A i \in m .. Len(buffer) : buffer[i] \in Glyphs
      <4> TAKE i \in m .. Len(buffer)
      <4>1. i \in 1 .. Len(buffer)
        BY <1>5, <3>2
      <4>2. QED
        BY <1>4, <4>1, ElementOfSeq
    <3>4. m \in Int /\ Len(buffer) \in Int
      BY <1>5, <3>2
    <3>5. SubSeq(buffer, m, Len(buffer)) \in Seq(Glyphs)
      BY <3>3, <3>4, SubSeqProperties
    <3>6. ~(Follows(buffer, n) = {})
      BY <2>2
    <3>7. buffer' = SubSeq(buffer, m, Len(buffer))
      BY <1>3, <3>1, <3>6, Zenon DEF RestBehind
    <3>8. QED
      BY <3>5, <3>7
  <2>3. QED
    BY <2>1, <2>2
<1>10. \A s \in Seq(Glyphs) : Cut(argv, buffer, s) => Cut(argv', buffer', s)
  BY <1>1, <1>2, <1>3, <1>4, CutGoesOn
<1>11. StateInv'
  BY <1>1, <1>4, <1>8, <1>9 DEF StateInv
<1>12. ScriptInv'
  <2>1. Runs(Current, argv, buffer) /\ Stack(shells)
    BY <1>1 DEF TerminalInv, ScriptInv
  <2>2. Runs(Current, argv', buffer')
    BY <1>10, <2>1 DEF Runs
  <2>3. QED
    BY <1>1, <1>4, <2>1, <2>2 DEF ScriptInv
<1>13. LineInv'
  <2>1. line \in Seq(Glyphs) /\ ~Unread /\ ~Unread'
    BY <1>1, <1>4 DEF StateInv, Unread
  <2>2. QED
    BY <1>1, <1>4, <1>10, <2>1 DEF TerminalInv, LineInv
<1>14. EchoInv'
  BY <1>1 DEF EchoInv
<1>15. QED
  BY <1>11, <1>12, <1>13, <1>14 DEF TerminalInv

(* The words of a line have been run.                                      *)
LEMMA RunFacts ==
  ASSUME TerminalInv, pc = "run", NEW z \in Shells, SameStream(z, Current), z.lines = Current.lines + 1
  PROVE  LET st == [shells EXCEPT ![Len(shells)] = z]
         IN  st \in Seq(Shells) /\ st # <<>> /\ Last(st) = z /\ Stack(st) /\ Waits(z)
<1>1. /\ shells \in Seq(Shells) /\ shells # <<>> /\ Current \in Shells /\ StreamInv(Current)
      /\ Runs(Current, argv, buffer) /\ Stack(shells)
  BY CurrentIs, CurrentStream DEF TerminalInv, ScriptInv
<1>2. Waits(z) /\ StreamInv(z)
  BY <1>1, RanWaits
<1>3. PICK st : st = [shells EXCEPT ![Len(shells)] = z]
  OBVIOUS
<1>4. ReplacedLast(st, shells, z)
  BY <1>1, <1>3, Replaced
<1>5. Stack(st)
  BY <1>1, <1>2, <1>4, StackReplaced
<1>6. QED
  BY <1>2, <1>3, <1>4, <1>5 DEF ReplacedLast

LEMMA BackToPrompt ==
  ASSUME TerminalInv, pc = "run", pc' = "prompt", out' \in Seq(Glyphs),
         UNCHANGED <<vc, stdin, buffer, argv, typedVars>>,
         shells' \in Seq(Shells), shells' # <<>>, Stack(shells'), Waits(Last(shells'))
  PROVE  TerminalInv'
<1>1. UNCHANGED <<vc, stdin, buffer, argv, keys, typed, line, start, odd>>
  BY DEF typedVars
<1>2. StateInv'
  BY <1>1 DEF TerminalInv, StateInv
<1>3. ScriptInv'
  BY DEF ScriptInv, Current
<1>4. LineInv'
  BY <1>1 DEF TerminalInv, LineInv, Unread
<1>5. EchoInv'
  BY DEF EchoInv
<1>6. QED
  BY <1>2, <1>3, <1>4, <1>5 DEF TerminalInv

LEMMA RanIs ==
  ASSUME TerminalInv, pc = "run"
  PROVE  Ran \in Seq(Shells) /\ Ran # <<>> /\ Stack(Ran) /\ Waits(Last(Ran))
<1>1. /\ shells \in Seq(Shells) /\ shells # <<>> /\ Current \in Shells /\ Len(shells) \in 1 .. Len(shells)
      /\ Current = shells[Len(shells)] /\ Current.lines + 1 \in Nat
  BY CurrentIs, ShellIs DEF TerminalInv
<1>2. PICK z : z = [Current EXCEPT !.lines = @ + 1]
  OBVIOUS
<1>3. z \in Shells /\ SameStream(z, Current) /\ z.lines = Current.lines + 1
  BY <1>1, <1>2 DEF Shells, SameStream
<1>4. Ran = [shells EXCEPT ![Len(shells)] = z]
  BY <1>1, <1>2 DEF Ran
<1>5. QED
  BY <1>3, <1>4, RunFacts

LEMMA Messages == <<"NL">> \in Seq(Glyphs) /\ <<"!", "NL">> \in Seq(Glyphs) /\ Greeting \in Seq(Glyphs)
<1>1. PICK nl \in Glyphs : nl = "NL"
  BY GlyphsKnown, Zenon
<1>2. PICK bang \in Glyphs : bang = "!"
  BY GlyphsKnown, Zenon
<1>3. <<nl>> \in Seq(Glyphs) /\ <<bang, nl>> \in Seq(Glyphs)
  OBVIOUS
<1>4. Greeting \in Seq(Glyphs)
  BY TerminalAssumption, Zenon
<1>5. QED
  BY <1>1, <1>2, <1>3, <1>4, Zenon

LEMMA PrintsKeeps ==
  ASSUME TerminalInv, pc = "run", Prints
  PROVE  TerminalInv'
<1>1. argv \in Seq(Seq(Glyphs))
  BY DEF TerminalInv, StateInv
<1>2. argv # <<>> => Joined(Tail(argv)) \o <<"NL">> \in Seq(Glyphs)
  <2> SUFFICES ASSUME argv # <<>>
               PROVE  Joined(Tail(argv)) \o <<"NL">> \in Seq(Glyphs)
    OBVIOUS
  <2>1. PICK rest \in Seq(Seq(Glyphs)) : rest = Tail(argv)
    BY <1>1, HeadTailProperties
  <2>2. PICK text \in Seq(Glyphs) : text = Joined(rest)
    BY JoinedIn
  <2>3. text \o <<"NL">> \in Seq(Glyphs)
    BY Messages, ConcatProperties
  <2>4. QED
    BY <2>1, <2>2, <2>3
<1>3. argv # <<>> => Command \o <<"!", "NL">> \in Seq(Glyphs)
  <2> SUFFICES ASSUME argv # <<>>
               PROVE  Command \o <<"!", "NL">> \in Seq(Glyphs)
    OBVIOUS
  <2>1. 1 \in 1 .. Len(argv)
    BY <1>1, EmptySeq
  <2>2. PICK word \in Seq(Glyphs) : word = argv[1]
    BY <1>1, <2>1, ElementOfSeq
  <2>3. Command = word
    BY <2>2 DEF Command
  <2>4. PICK message \in Seq(Glyphs) : message = <<"!", "NL">>
    BY Messages, Zenon
  <2>5. word \o message \in Seq(Glyphs)
    BY ConcatProperties
  <2>6. QED
    BY <2>3, <2>4, <2>5, Zenon
<1>4. out' \in Seq(Glyphs)
  <2>1. \/ argv = <<>> /\ out' = <<>>
        \/ argv # <<>> /\ out' = Joined(Tail(argv)) \o <<"NL">>
        \/ out' = Greeting
        \/ argv # <<>> /\ out' = Command \o <<"!", "NL">>
    BY Zenon DEF Prints, Say
  <2>2. <<>> \in Seq(Glyphs)
    OBVIOUS
  <2>3. QED
    BY <1>2, <1>3, <2>1, <2>2, Messages, Zenon
<1>5. shells' = Ran /\ pc' = "prompt" /\ UNCHANGED <<vc, stdin, buffer, argv, typedVars>>
  BY Zenon DEF Prints
<1>6. shells' \in Seq(Shells) /\ shells' # <<>> /\ Stack(shells') /\ Waits(Last(shells'))
  BY <1>5, RanIs
<1>7. QED
  BY <1>4, <1>5, <1>6, BackToPrompt

LEMMA ExitCommandKeeps ==
  ASSUME TerminalInv, pc = "run", builtin_exit
  PROVE  TerminalInv'
<1>1. /\ shells \in Seq(Shells) /\ shells # <<>> /\ Current \in Shells /\ Len(shells) \in 1 .. Len(shells)
      /\ Current = shells[Len(shells)] /\ Current.lines + 1 \in Nat /\ out \in Seq(Glyphs)
  BY CurrentIs, ShellIs DEF TerminalInv, StateInv
<1>2. PICK z : z = [Current EXCEPT !.lines = @ + 1, !.ready = TRUE]
  OBVIOUS
<1>3. z \in Shells /\ SameStream(z, Current) /\ z.lines = Current.lines + 1
  BY <1>1, <1>2 DEF Shells, SameStream
<1>4. /\ shells' = [Ran EXCEPT ![Len(shells)].ready = TRUE] /\ pc' = "prompt"
      /\ UNCHANGED <<vc, out, stdin, buffer, argv, typedVars>>
  BY DEF builtin_exit
<1>5. shells' = [shells EXCEPT ![Len(shells)] = z]
  BY <1>1, <1>2, <1>4 DEF Ran
<1>6. shells' \in Seq(Shells) /\ shells' # <<>> /\ Last(shells') = z /\ Stack(shells') /\ Waits(z)
  BY <1>3, <1>5, RunFacts
<1>7. QED
  BY <1>1, <1>4, <1>6, BackToPrompt

LEMMA ShellCommandKeeps ==
  ASSUME TerminalInv, pc = "run", builtin_shell
  PROVE  TerminalInv'
<1>1. argv \in Seq(Seq(Glyphs)) /\ argv # <<>>
  <2>1. argv # <<>>
    BY DEF builtin_shell, Command
  <2>2. QED
    BY <2>1 DEF TerminalInv, StateInv
<1>2. PICK args \in Seq(Seq(Glyphs)) : args = Tail(argv)
  BY <1>1, HeadTailProperties
<1>3. Len(args) \in Nat /\ DOMAIN args = 1 .. Len(args)
  BY LenProperties
<1>4. PICK opened : opened = Openable(args)
  OBVIOUS
<1>5. /\ UNCHANGED <<vc, stdin, buffer, argv, typedVars>> /\ pc' = "prompt"
      /\ IF opened < Len(args) THEN out' = <<"!", "NL">> /\ shells' = Ran
         ELSE out' = <<>> /\ shells' = Append(Ran, IF args = <<>> THEN Interactive ELSE Reads(Last(args)))
  BY <1>2, <1>4, Zenon DEF builtin_shell, Say
<1>6. Ran \in Seq(Shells) /\ Ran # <<>> /\ Stack(Ran) /\ Waits(Last(Ran))
  BY RanIs
<1>7. out' \in Seq(Glyphs)
  <2>1. <<>> \in Seq(Glyphs)
    OBVIOUS
  <2>2. QED
    BY <1>5, <2>1, Messages, Zenon
<1>8. CASE opened < Len(args)
  <2>1. shells' = Ran
    BY <1>5, <1>8, Zenon
  <2>2. QED
    BY <1>5, <1>6, <1>7, <2>1, BackToPrompt
<1>9. CASE ~(opened < Len(args))
  <2>1. args # <<>> => Last(args) \in DOMAIN Scripts
    <3> SUFFICES ASSUME args # <<>>
                 PROVE  Last(args) \in DOMAIN Scripts
      OBVIOUS
    <3>1. PICK bad : bad = {i \in DOMAIN args : args[i] \notin DOMAIN Scripts \/ i > free_fds}
      OBVIOUS
    <3>2. opened = IF bad = {} THEN Len(args) ELSE Min(bad) - 1
      BY <1>4, <3>1, Zenon DEF Openable
    <3>3. bad = {}
      <4> SUFFICES ASSUME bad # {}
                   PROVE  FALSE
        OBVIOUS
      <4>1. bad \subseteq 1 .. Len(args)
        BY <1>3, <3>1
      <4>2. bad \subseteq Nat
        BY <1>3, <4>1
      <4>3. PICK m : m = Min(bad)
        OBVIOUS
      <4>4. m \in bad
        BY <4>2, <4>3, MinOf
      <4>5. m \in 1 .. Len(args)
        BY <4>1, <4>4
      <4>6. opened = m - 1
        BY <3>2, <4>3
      <4>7. QED
        BY <1>3, <1>9, <4>5, <4>6
    <3>4. Last(args) = args[Len(args)] /\ Len(args) \in DOMAIN args
      <4>1. Len(args) >= 1
        BY EmptySeq
      <4>2. Len(args) \in 1 .. Len(args)
        BY <1>3, <4>1
      <4>3. QED
        BY <1>3, <4>2 DEF Last
    <3>5. QED
      BY <3>1, <3>3, <3>4, Zenon
  <2>2. PICK x : x = IF args = <<>> THEN Interactive ELSE Reads(Last(args))
    OBVIOUS
  <2>3. x \in Shells /\ StreamInv(x) /\ Waits(x)
    BY <2>1, <2>2, ShellStarts, Zenon
  <2>4. shells' = Append(Ran, x)
    BY <1>5, <1>9, <2>2, Zenon
  <2>5. shells' \in Seq(Shells) /\ shells' # <<>> /\ Last(shells') = x /\ Stack(shells')
    BY <1>6, <2>3, <2>4, StackGrown
  <2>6. QED
    BY <1>5, <1>7, <2>3, <2>5, BackToPrompt
<1>10. QED
  BY <1>8, <1>9

-----------------------------------------------------------------------------
(* A key: what is on the screen stays what has been typed.                 *)
LEMMA CellNext ==
  ASSUME NEW row \in 0 .. H - 1, NEW col \in 0 .. W - 1
  PROVE  /\ Cell(row, col + 1) = Cell(row, col) + 1
         /\ Cell(row, col - 1) = Cell(row, col) - 1
<1>1. row \in Nat /\ W \in Nat /\ col \in Nat
  BY Sizes
<1>2. PICK n \in Nat : n = row * W
  BY <1>1
<1>3. QED
  BY <1>1, <1>2 DEF Cell

LEMMA EchoSame ==
  ASSUME NEW v, NEW w, NEW s, NEW from, Echoed(v, s, from), SameScreen(w, v), w.state["line"] = "normal"
  PROVE  Echoed(w, s, from)
BY DEF Echoed, SameScreen

LEMMA EchoPlain ==
  ASSUME NEW v \in Screens, NEW s \in Seq(Glyphs), NEW from \in Nat, Echoed(v, s, from),
         NEW ch \in Plain, v.cur_col + 1 < W
  PROVE  Echoed(TakeKey(v, ch), Append(s, ch), from)
<1>1. PICK w : w = TakeKey(v, ch)
  OBVIOUS
<1>2. Ready(v)
  BY DEF Ready, Echoed
<1>3. KeyDrawn(w, v, ch)
  BY <1>1, <1>2, TakePlain
<1>4. PICK k \in Nat : k = Len(s)
  BY LenProperties
<1>5. /\ v.cur_row \in 0 .. H - 1 /\ v.cur_col \in 0 .. W - 1 /\ v.cur_col \in Nat
      /\ v.fb \in [Cells -> Shown]
  BY Sizes DEF Screens, Consoles
<1>6. PICK c \in Cells : c = Cell(v.cur_row, v.cur_col) /\ c \in Nat /\ c < H * W
  BY <1>5, CellInside
<1>7. c = from + k /\ k <= v.cur_col
  BY <1>4, <1>6 DEF Echoed
<1>8. Cell(w.cur_row, w.cur_col) = from + (k + 1)
  <2>1. Cell(w.cur_row, w.cur_col) = c + 1
    BY <1>3, <1>5, <1>6, CellNext DEF KeyDrawn
  <2>2. QED
    BY <1>7, <2>1
<1>9. PICK t : t = Append(s, ch)
  OBVIOUS
<1>10. Len(t) = k + 1 /\ t[k + 1] = ch /\ \A i \in 1 .. k : t[i] = s[i]
  BY <1>4, <1>9
<1>11. \A i \in 1 .. k + 1 : w.fb[from + i - 1] = t[i]
  <2> TAKE i \in 1 .. k + 1
  <2>1. w.fb = [v.fb EXCEPT ![c] = ch]
    BY <1>3, <1>6 DEF KeyDrawn
  <2>2. from + i - 1 \in Cells
    <3>1. from + i - 1 \in Nat /\ from + i - 1 <= c
      BY <1>7
    <3>2. QED
      BY <1>6, <3>1, Areas
  <2>3. CASE i = k + 1
    <3>1. from + i - 1 = c
      BY <1>7, <2>3
    <3>2. QED
      BY <1>5, <1>10, <2>1, <2>3, <3>1
  <2>4. CASE i # k + 1
    <3>1. i \in 1 .. k /\ from + i - 1 # c
      BY <1>7, <2>4
    <3>2. w.fb[from + i - 1] = v.fb[from + i - 1]
      BY <1>5, <2>1, <2>2, <3>1
    <3>3. v.fb[from + i - 1] = s[i]
      BY <1>4, <3>1 DEF Echoed
    <3>4. QED
      BY <1>10, <3>1, <3>2, <3>3
  <2>5. QED
    BY <2>3, <2>4
<1>12. k + 1 <= w.cur_col
  BY <1>3, <1>5, <1>7 DEF KeyDrawn
<1>13. w.state["line"] = "normal" /\ w.line_buffer = t
  BY <1>3, <1>9 DEF KeyDrawn, Echoed
<1>14. QED
  BY <1>1, <1>8, <1>9, <1>10, <1>11, <1>12, <1>13 DEF Echoed

LEMMA EchoDelete ==
  ASSUME NEW v \in Screens, NEW s \in Seq(Glyphs), s # <<>>, NEW from \in Nat, Echoed(v, s, from)
  PROVE  Echoed(TakeKey(v, "DEL"), Front(s), from)
<1>1. PICK w : w = TakeKey(v, "DEL")
  OBVIOUS
<1>2. Ready(v) /\ v.line_buffer = s
  BY DEF Ready, Echoed
<1>3. PICK k \in Nat : k = Len(s) /\ k >= 1
  BY EmptySeq, LenProperties
<1>4. /\ v.cur_row \in 0 .. H - 1 /\ v.cur_col \in 0 .. W - 1 /\ v.cur_col \in Nat
      /\ v.fb \in [Cells -> Shown]
  BY Sizes DEF Screens, Consoles
<1>5. PICK c \in Cells : c = Cell(v.cur_row, v.cur_col) /\ c \in Nat /\ c < H * W
  BY <1>4, CellInside
<1>6. c = from + k /\ k <= v.cur_col /\ v.cur_col >= 1
  BY <1>3, <1>4, <1>5 DEF Echoed
<1>7. KeyErased(w, v)
  BY <1>1, <1>2, <1>6, TakeDelete
<1>8. Cell(w.cur_row, w.cur_col) = c - 1 /\ Cell(v.cur_row, v.cur_col - 1) = c - 1
  BY <1>4, <1>5, <1>7, CellNext DEF KeyErased
<1>9. PICK t : t = Front(s)
  OBVIOUS
<1>10. Len(t) = k - 1 /\ (\A i \in 1 .. k - 1 : t[i] = s[i]) /\ t = SubSeq(s, 1, Len(s) - 1)
  BY <1>3, <1>9, FrontOf DEF Front
<1>11. \A i \in 1 .. k - 1 : w.fb[from + i - 1] = t[i]
  <2> TAKE i \in 1 .. k - 1
  <2>1. w.fb = [v.fb EXCEPT ![c - 1] = SPACE]
    BY <1>7, <1>8 DEF KeyErased
  <2>2. from + i - 1 \in Cells /\ from + i - 1 # c - 1 /\ i \in 1 .. k
    <3>1. from + i - 1 \in Nat /\ from + i - 1 <= c /\ from + i - 1 # c - 1 /\ i \in 1 .. k
      BY <1>3, <1>6
    <3>2. QED
      BY <1>5, <3>1, Areas
  <2>3. w.fb[from + i - 1] = v.fb[from + i - 1]
    BY <1>4, <2>1, <2>2
  <2>4. v.fb[from + i - 1] = s[i]
    BY <1>3, <2>2 DEF Echoed
  <2>5. QED
    BY <1>10, <2>3, <2>4
<1>12. k - 1 <= w.cur_col /\ c - 1 = from + (k - 1)
  BY <1>3, <1>4, <1>6, <1>7 DEF KeyErased
<1>13. w.state["line"] = "normal" /\ w.line_buffer = t
  BY <1>2, <1>7, <1>10 DEF KeyErased, Echoed
<1>14. QED
  BY <1>1, <1>8, <1>9, <1>10, <1>11, <1>12, <1>13 DEF Echoed

LEMMA KeyIs ==
  ASSUME NEW k \in Keys
  PROVE  k \in {"CR", "DEL", "UP"} \/ (k \notin {"CR", "DEL", "UP"} /\ k \in Plain)
<1>1. k \in Glyphs \cup {"CR", "DEL", "UP"} /\ k \notin {"ESC", "NL"}
  <2>1. Keys \subseteq Glyphs \cup {"CR", "DEL", "UP"} /\ Keys \cap {"ESC", "NL"} = {}
    BY TerminalAssumption, Zenon
  <2>2. QED
    BY <2>1
<1>2. QED
  BY <1>1 DEF Plain

LEMMA TakenIn ==
  ASSUME NEW v \in Screens, NEW ch \in Input
  PROVE  TakeKey(v, ch) \in Screens
<1>1. "line" \in Machines
  BY DEF Machines
<1>2. QED
  BY <1>1, CharacterIn DEF TakeKey

LEMMA ReadingIn ==
  ASSUME vc \in Screens, NEW k \in Keys
  PROVE  Reading(k) \in Screens
<1>1. CASE k = "UP"
  <2>1. PICK a \in Input : a = "ESC"
    BY GlyphsKnown, Zenon
  <2>2. PICK b \in Input : b = "["
    BY GlyphsKnown, Zenon
  <2>3. PICK c \in Input : c = "A"
    BY GlyphsKnown, Zenon
  <2>4. TakeKey(TakeKey(TakeKey(vc, a), b), c) \in Screens
    BY TakenIn
  <2>5. QED
    BY <1>1, <2>1, <2>2, <2>3, <2>4, Zenon DEF Reading
<1>2. CASE k # "UP"
  <2>1. k \in Input
    BY <1>2, KeyIs DEF Input, Plain
  <2>2. Reading(k) = TakeKey(vc, k)
    BY <1>2 DEF Reading
  <2>3. QED
    BY <2>1, <2>2, TakenIn
<1>3. QED
  BY <1>1, <1>2

(* A key that ends no line.                                                *)
TypedBy(k) ==
  CASE k = "CR" -> <<>>
    [] k = "DEL" -> IF typed = <<>> THEN typed ELSE Front(typed)
    [] k = "UP" -> typed
    [] OTHER -> Append(typed, k)

LEMMA TypedIn ==
  ASSUME StateInv, NEW k \in Keys
  PROVE  TypedBy(k) \in Seq(Glyphs) /\ (NoLine(typed) => NoLine(TypedBy(k)))
<1>1. typed \in Seq(Glyphs) /\ Len(typed) \in Nat
  BY LenProperties DEF StateInv
<1>2. CASE k = "CR"
  <2>1. TypedBy(k) = <<>> /\ Len(<<>>) = 0 /\ <<>> \in Seq(Glyphs)
    BY <1>2 DEF TypedBy
  <2>2. QED
    BY <2>1 DEF NoLine
<1>3. CASE k = "DEL"
  <2>1. TypedBy(k) = IF typed = <<>> THEN typed ELSE Front(typed)
    BY <1>3 DEF TypedBy
  <2>2. CASE typed = <<>>
    BY <1>1, <2>1, <2>2
  <2>3. CASE typed # <<>>
    <3>1. PICK t : t = Front(typed)
      OBVIOUS
    <3>2. t \in Seq(Glyphs) /\ Len(t) = Len(typed) - 1 /\ \A i \in 1 .. Len(typed) - 1 : t[i] = typed[i]
      BY <1>1, <2>3, <3>1, FrontOf DEF Front
    <3>3. NoLine(typed) => NoLine(t)
      BY <1>1, <3>2 DEF NoLine
    <3>4. QED
      BY <2>1, <2>3, <3>1, <3>2, <3>3
  <2>4. QED
    BY <2>2, <2>3
<1>4. CASE k = "UP"
  <2>1. TypedBy(k) = typed
    BY <1>4 DEF TypedBy
  <2>2. QED
    BY <1>1, <2>1
<1>5. CASE k \notin {"CR", "DEL", "UP"}
  <2>1. PICK c \in Glyphs : c = k /\ c # "NL"
    BY <1>5, KeyIs DEF Plain
  <2>2. PICK t : t = Append(typed, c)
    OBVIOUS
  <2>3. TypedBy(k) = t
    BY <1>5, <2>1, <2>2 DEF TypedBy
  <2>4. /\ t \in Seq(Glyphs) /\ Len(t) = Len(typed) + 1 /\ t[Len(typed) + 1] = c
        /\ \A i \in 1 .. Len(typed) : t[i] = typed[i]
    BY <1>1, <2>2
  <2>5. ASSUME NoLine(typed), NEW i \in 1 .. Len(t)
        PROVE  t[i] # "NL"
    <3>1. CASE i = Len(typed) + 1
      BY <2>1, <2>4, <3>1
    <3>2. CASE i # Len(typed) + 1
      <4>1. i \in 1 .. Len(typed)
        BY <1>1, <2>4, <3>2
      <4>2. QED
        BY <2>4, <2>5, <4>1 DEF NoLine
    <3>3. QED
      BY <3>1, <3>2
  <2>6. QED
    BY <2>3, <2>4, <2>5 DEF NoLine
<1>6. QED
  BY <1>2, <1>3, <1>4, <1>5

LEMMA KeyEchoed ==
  ASSUME vc \in Screens, typed \in Seq(Glyphs), start \in Nat, Echoed(vc, typed, start),
         NEW k \in Keys, k # "CR", Reading(k).line_buffer # <<>> => Last(Reading(k).line_buffer) # "NL"
  PROVE  Echoed(Reading(k), TypedBy(k), start)
<1>1. Ready(vc) /\ vc.line_buffer = typed
  BY DEF Ready, Echoed
<1>2. CASE k = "UP"
  <2>1. PICK w : w = TakeKey(TakeKey(TakeKey(vc, "ESC"), "["), "A")
    OBVIOUS
  <2>2. SameScreen(w, vc) /\ w.state["line"] = "normal"
    BY <1>1, <2>1, TakeUp
  <2>3. Reading(k) = w
    BY <1>2, <2>1, Zenon DEF Reading
  <2>4. TypedBy(k) = typed
    BY <1>2 DEF TypedBy
  <2>5. Echoed(w, typed, start)
    BY <2>2, EchoSame
  <2>6. QED
    BY <2>3, <2>4, <2>5
<1>3. CASE k = "DEL"
  <2>1. Reading(k) = TakeKey(vc, "DEL")
    BY <1>3 DEF Reading
  <2>2. TypedBy(k) = IF typed = <<>> THEN typed ELSE Front(typed)
    BY <1>3 DEF TypedBy
  <2>3. CASE typed = <<>>
    <3>1. PICK w : w = TakeKey(vc, "DEL")
      OBVIOUS
    <3>2. SameScreen(w, vc) /\ w.state = vc.state
      BY <1>1, <2>3, <3>1, TakeDelete
    <3>3. w.state["line"] = "normal"
      BY <1>1, <3>2 DEF Ready
    <3>4. Echoed(w, typed, start)
      BY <3>2, <3>3, EchoSame
    <3>5. QED
      BY <2>1, <2>2, <2>3, <3>1, <3>4
  <2>4. CASE typed # <<>>
    BY <2>1, <2>2, <2>4, EchoDelete
  <2>5. QED
    BY <2>3, <2>4
<1>4. CASE k \notin {"CR", "DEL", "UP"}
  <2>1. k \in Plain
    BY <1>4, KeyIs
  <2>2. Reading(k) = TakeKey(vc, k) /\ TypedBy(k) = Append(typed, k)
    BY <1>4 DEF Reading, TypedBy
  <2>3. vc.cur_col + 1 < W
    <3> SUFFICES ASSUME ~(vc.cur_col + 1 < W)
                 PROVE  FALSE
      OBVIOUS
    <3>1. PICK nl \in Glyphs : nl = "NL"
      BY GlyphsKnown, Zenon
    <3>2. Reading(k).line_buffer = Append(Append(typed, k), nl)
      BY <1>1, <2>1, <2>2, <3>1, TakePlain
    <3>3. PICK one \in Seq(Glyphs) : one = Append(typed, k)
      <4>1. Append(typed, k) \in Seq(Glyphs)
        BY <2>1 DEF Plain
      <4>2. QED
        BY <4>1
    <3>4. PICK two : two = Append(one, nl)
      OBVIOUS
    <3>5. two # <<>> /\ Last(two) = nl
      <4>1. PICK n \in Nat : n = Len(one)
        BY LenProperties
      <4>2. Len(two) = n + 1 /\ two[n + 1] = nl
        BY <3>4, <4>1
      <4>3. n + 1 # 0
        OBVIOUS
      <4>4. two # <<>>
        BY <4>2, <4>3
      <4>5. QED
        BY <4>2, <4>4, Zenon DEF Last
    <3>6. QED
      BY <3>1, <3>2, <3>3, <3>4, <3>5
  <2>4. QED
    BY <2>1, <2>2, <2>3, EchoPlain
<1>5. QED
  BY <1>2, <1>3, <1>4

LEMMA LineRead ==
  ASSUME NEW v \in Screens
  PROVE  /\ Line(v, BUFSIZE) \in Seq(Glyphs)
         /\ Len(v.line_buffer) <= BUFSIZE => Line(v, BUFSIZE) = v.line_buffer
<1>1. PICK lb \in Seq(Glyphs) : lb = v.line_buffer /\ Len(lb) \in Nat
  BY Whole, LenProperties
<1>2. PICK n \in Nat : n = (IF Len(lb) < BUFSIZE THEN Len(lb) ELSE BUFSIZE) /\ n <= Len(lb)
  BY <1>1, Limits
<1>3. Line(v, BUFSIZE) = SubSeq(lb, 1, n)
  BY <1>1, <1>2 DEF Line
<1>4. \A i \in 1 .. n : lb[i] \in Glyphs
  <2> TAKE i \in 1 .. n
  <2>1. i \in 1 .. Len(lb)
    BY <1>1, <1>2
  <2>2. QED
    BY <2>1, ElementOfSeq
<1>5. 1 \in Int /\ n \in Int
  OBVIOUS
<1>6. SubSeq(lb, 1, n) \in Seq(Glyphs)
  BY <1>4, <1>5, SubSeqProperties
<1>7. ASSUME Len(lb) <= BUFSIZE
      PROVE  SubSeq(lb, 1, n) = lb
  <2>1. n = Len(lb)
    BY <1>1, <1>2, <1>7, Limits
  <2>2. QED
    BY <2>1, SubSeqFull
<1>8. QED
  BY <1>1, <1>3, <1>6, <1>7

LEMMA TypeKeyKeeps ==
  ASSUME TerminalInv, NEW k \in Keys, TypeKey(k)
  PROVE  TerminalInv'
<1>1. /\ pc = "read" /\ vc' = Reading(k) /\ typed' = TypedBy(k)
      /\ line' = IF k = "CR" THEN typed ELSE line
      /\ UNCHANGED <<out, shells, buffer, argv, start>>
  BY Zenon DEF TypeKey, TypedBy
<1>2. \/ LineEnds(vc', k, BUFSIZE) /\ stdin' = [buf |-> Line(vc', BUFSIZE), bm |-> 0] /\ pc' = "fgets"
      \/ ~LineEnds(vc', k, BUFSIZE) /\ stdin' = stdin /\ pc' = pc
  BY DEF TypeKey
<1>3. odd' = \/ odd
             \/ (Len(typed') >= BUFSIZE - 1)
             \/ (k # "CR" /\ vc'.line_buffer # <<>> /\ Last(vc'.line_buffer) = "NL")
  BY DEF TypeKey
<1>4. /\ StateInv /\ vc \in Screens /\ typed \in Seq(Glyphs) /\ start \in Nat /\ odd \in BOOLEAN
      /\ out = <<>> /\ argv = <<>> /\ Current.input = Stdin /\ Current' = Current /\ line \in Seq(Glyphs)
      /\ stdin \in Texts
  BY <1>1 DEF TerminalInv, StateInv, Current
<1>5. vc' \in Screens /\ typed' \in Seq(Glyphs) /\ (NoLine(typed) => NoLine(typed')) /\ line' \in Seq(Glyphs)
  BY <1>1, <1>4, ReadingIn, TypedIn
<1>6. stdin' \in Texts
  <2>1. PICK t \in Seq(Glyphs) : t = Line(vc', BUFSIZE)
    BY <1>5, LineRead
  <2>2. [buf |-> t, bm |-> 0] \in Texts
    BY DEF Texts
  <2>3. QED
    BY <1>2, <1>4, <2>1, <2>2
<1>7. pc' \in {"fgets", "read"} /\ odd' \in BOOLEAN
  BY <1>1, <1>2, <1>3
<1>8. StateInv'
  BY <1>1, <1>4, <1>5, <1>6, <1>7 DEF StateInv
<1>9. ScriptInv'
  BY <1>1, <1>4, <1>7 DEF TerminalInv, ScriptInv, Fills, Fits
<1>10. ASSUME ~odd'
       PROVE  /\ ~odd /\ Len(typed') < BUFSIZE - 1
              /\ k # "CR" /\ vc'.line_buffer # <<>> => Last(vc'.line_buffer) # "NL"
  <2>1. Len(typed') \in Nat /\ BUFSIZE \in Nat
    BY <1>5, Limits, LenProperties
  <2>2. ~odd /\ ~(Len(typed') >= BUFSIZE - 1)
    BY <1>3, <1>10
  <2>3. Len(typed') < BUFSIZE - 1
    BY <2>1, <2>2
  <2>4. QED
    BY <1>3, <1>10, <2>2, <2>3
<1>11. ASSUME ~odd'
       PROVE  /\ Echoed(vc, typed, start) /\ NoLine(typed) /\ Len(typed) < BUFSIZE - 1 /\ buffer = <<>>
              /\ ~(stdin.bm < Len(stdin.buf)) /\ stdin.bm >= Len(stdin.buf)
  <2>1. ~odd /\ ~Unread
    BY <1>1, <1>10, <1>11 DEF Unread
  <2>2. stdin.bm >= Len(stdin.buf) /\ buffer = <<>> /\ NoLine(typed) /\ Len(typed) < BUFSIZE - 1
    BY <1>1, <2>1 DEF TerminalInv, LineInv
  <2>3. ~(stdin.bm < Len(stdin.buf))
    BY <1>4, <2>2, StdinIs
  <2>4. QED
    BY <1>1, <2>1, <2>2, <2>3 DEF TerminalInv, EchoInv
<1>12. ASSUME ~odd', k # "CR"
       PROVE  Echoed(vc', typed', start) /\ pc' = "read" /\ stdin' = stdin
  <2>1. Echoed(vc', typed', start)
    BY <1>1, <1>4, <1>10, <1>11, <1>12, KeyEchoed
  <2>2. vc'.line_buffer = typed'
    BY <2>1 DEF Echoed
  <2>3. ~(Len(typed') >= BUFSIZE)
    <3>1. Len(typed') \in Nat /\ BUFSIZE \in Nat /\ Len(typed') < BUFSIZE - 1
      BY <1>5, <1>10, <1>12, Limits, LenProperties
    <3>2. QED
      BY <3>1
  <2>4. ~LineEnds(vc', k, BUFSIZE)
    BY <1>12, <2>2, <2>3 DEF LineEnds
  <2>5. QED
    BY <1>1, <1>2, <2>1, <2>4
<1>13. ASSUME ~odd', k = "CR"
       PROVE  /\ pc' = "fgets" /\ typed' = <<>> /\ line' = typed
              /\ stdin'.bm < Len(stdin'.buf) /\ Passing(stdin', buffer, typed)
  <2>1. Ready(vc) /\ vc.line_buffer = typed
    BY <1>4, <1>11, <1>13 DEF Ready, Echoed
  <2>2. vc' = TakeKey(vc, "CR")
    BY <1>1, <1>13 DEF Reading
  <2>3. vc'.line_buffer = Append(typed, "NL")
    BY <2>1, <2>2, TakeReturn
  <2>4. PICK n \in Nat : n = Len(typed) /\ n + 2 <= BUFSIZE
    <3>1. Len(typed) \in Nat /\ BUFSIZE \in Nat /\ Len(typed) < BUFSIZE - 1
      BY <1>4, <1>11, <1>13, Limits, LenProperties
    <3>2. Len(typed) + 2 <= BUFSIZE
      BY <3>1
    <3>3. QED
      BY <3>1, <3>2
  <2>5. PICK nl \in Glyphs : nl = "NL"
    BY GlyphsKnown, Zenon
  <2>6. Len(Append(typed, nl)) = n + 1
    BY <1>4, <2>4
  <2>7. Len(vc'.line_buffer) <= BUFSIZE /\ Len(vc'.line_buffer) = n + 1
    BY <2>3, <2>4, <2>5, <2>6, Limits
  <2>8. Line(vc', BUFSIZE) = Append(typed, "NL")
    BY <1>5, <2>3, <2>7, LineRead
  <2>9. LineEnds(vc', k, BUFSIZE)
    BY <1>13 DEF LineEnds
  <2>10. pc' = "fgets" /\ stdin'.buf = Append(typed, "NL") /\ stdin'.bm = 0
    BY <1>2, <2>8, <2>9
  <2>11. Len(stdin'.buf) = n + 1
    BY <2>5, <2>6, <2>10
  <2>12. Len(<<>>) = 0 /\ 0 < n + 1
    OBVIOUS
  <2>13. Passing(stdin', buffer, typed)
    BY <1>11, <1>13, <2>4, <2>10, <2>12 DEF Passing
  <2>14. typed' = <<>> /\ line' = typed
    BY <1>1, <1>13 DEF TypedBy
  <2>15. QED
    BY <2>10, <2>11, <2>12, <2>13, <2>14
<1>14. LineInv'
  <2> SUFFICES ASSUME ~odd'
               PROVE  LineInv'
    BY DEF LineInv
  <2>1. NoLine(typed') /\ Len(typed') < BUFSIZE - 1
    BY <1>5, <1>10, <1>11
  <2>2. CASE k = "CR"
    <3>1. /\ pc' = "fgets" /\ typed' = <<>> /\ line' = typed
          /\ stdin'.bm < Len(stdin'.buf) /\ Passing(stdin', buffer, typed)
      BY <1>13, <2>2
    <3>2. Unread'
      BY <1>4, <3>1 DEF Unread
    <3>3. QED
      BY <1>1, <2>1, <3>1, <3>2 DEF LineInv
  <2>3. CASE k # "CR"
    <3>1. pc' = "read" /\ stdin' = stdin
      BY <1>12, <2>3
    <3>2. ~Unread'
      BY <3>1 DEF Unread
    <3>3. buffer' = <<>> /\ stdin.bm >= Len(stdin.buf)
      BY <1>1, <1>11
    <3>4. QED
      BY <2>1, <3>1, <3>2, <3>3 DEF LineInv
  <2>4. QED
    BY <2>2, <2>3
<1>15. EchoInv'
  <2> SUFFICES ASSUME pc' = "read", ~odd'
               PROVE  Echoed(vc', typed', start')
    BY DEF EchoInv
  <2>1. k # "CR"
    BY <1>13
  <2>2. QED
    BY <1>1, <1>12, <2>1
<1>16. QED
  BY <1>8, <1>9, <1>14, <1>15 DEF TerminalInv

-----------------------------------------------------------------------------
LEMMA InitHolds ==
  ASSUME Init
  PROVE  TerminalInv
<1>1. /\ vc = NewConsole /\ out = <<"ESC", "[", "2", "J">>
      /\ stdin = NoText /\ pc = "prompt" /\ buffer = <<>> /\ argv = <<>>
      /\ typed = <<>> /\ line = <<>> /\ start = 0 /\ odd = FALSE
  BY Zenon DEF Init
<1>2. shells = <<Interactive>> \/ shells = <<Reads(Startup)>>
  BY DEF Init
<1>3. vc \in Screens
  <2>1. PICK fb : fb = [c \in Cells |-> BLANK]
    OBVIOUS
  <2>2. fb \in [Cells -> Shown] /\ Below(fb)
    BY <2>1 DEF Shown, Below
  <2>3. PICK st : st = [sm \in Machines |-> "normal"]
    OBVIOUS
  <2>4. PICK pr : pr = [sm \in Machines |-> <<0>>]
    OBVIOUS
  <2>5. <<0>> \in Seq(Nat) \ {<<>>} /\ "normal" \in States
    BY DEF States
  <2>6. st \in [Machines -> States] /\ pr \in [Machines -> Seq(Nat) \ {<<>>}]
    BY <2>3, <2>4, <2>5
  <2>7. 0 \in 0 .. H - 1 /\ 0 \in 0 .. W - 1 /\ <<>> \in Seq(Glyphs)
    BY Sizes
  <2>8. vc = [cur_row |-> 0, cur_col |-> 0, fb |-> fb, state |-> st, prefixes |-> pr, line_buffer |-> <<>>]
    BY <1>1, <2>1, <2>3, <2>4, Zenon DEF NewConsole
  <2>9. vc \in Consoles /\ vc.fb = fb
    BY <2>2, <2>6, <2>7, <2>8 DEF Consoles
  <2>10. QED
    BY <2>2, <2>9 DEF Screens
<1>4. out \in Seq(Glyphs)
  <2>1. PICK a \in Glyphs : a = "ESC"
    BY GlyphsKnown, Zenon
  <2>2. PICK b \in Glyphs : b = "["
    BY GlyphsKnown, Zenon
  <2>3. PICK c \in Glyphs : c = "2"
    BY GlyphsKnown, Zenon
  <2>4. PICK d \in Glyphs : d = "J"
    BY GlyphsKnown, Zenon
  <2>5. <<a, b, c, d>> \in Seq(Glyphs)
    OBVIOUS
  <2>6. QED
    BY <1>1, <2>1, <2>2, <2>3, <2>4, <2>5, Zenon
<1>5. PICK x \in Shells : shells = <<x>> /\ StreamInv(x) /\ Waits(x)
  <2>1. Startup \in DOMAIN Scripts
    BY TerminalAssumption, Zenon
  <2>2. QED
    BY <1>2, <2>1, ShellStarts
<1>6. shells \in Seq(Shells) /\ shells # <<>> /\ Len(shells) = 1 /\ Last(shells) = x /\ shells[1] = x
  <2>1. shells \in Seq(Shells) /\ Len(shells) = 1 /\ shells[1] = x
    BY <1>5
  <2>2. QED
    BY <2>1 DEF Last
<1>7. NoText \in Texts /\ Len(NoText.buf) = 0 /\ NoText.bm = 0
  BY DEF NoText, Texts
<1>8. StateInv
  <2>1. /\ stdin = NoText /\ pc = "prompt" /\ buffer = <<>> /\ argv = <<>>
        /\ typed = <<>> /\ line = <<>> /\ start = 0 /\ odd = FALSE
    BY <1>1, Zenon
  <2>2. <<>> \in Seq(Glyphs) /\ <<>> \in Seq(Seq(Glyphs)) /\ 0 \in Nat /\ FALSE \in BOOLEAN
    OBVIOUS
  <2>3. stdin \in Texts
    BY <1>7, <2>1, Zenon
  <2>4. buffer \in Seq(Glyphs) /\ argv \in Seq(Seq(Glyphs))
    BY <2>1, <2>2, Zenon
  <2>5. typed \in Seq(Glyphs) /\ line \in Seq(Glyphs) /\ start \in Nat /\ odd \in BOOLEAN
    BY <2>1, <2>2, Zenon
  <2>6. shells \in Seq(Shells) /\ shells # <<>>
    BY <1>6, Zenon
  <2>7. pc = "prompt" /\ pc # "fgets" /\ pc # "read"
    BY <2>1
  <2>8. pc \in {"prompt", "fgets", "read", "run", "ended"}
    BY <2>7
  <2>9. QED
    BY <1>3, <1>4, <2>3, <2>4, <2>5, <2>6, <2>7, <2>8, Zenon DEF StateInv
<1>9. ScriptInv
  <2>1. Stack(shells)
    <3> SUFFICES ASSUME NEW j \in 1 .. Len(shells)
                 PROVE  StreamInv(shells[j]) /\ (j < Len(shells) => Waits(shells[j]))
      BY DEF Stack
    <3>1. j = 1
      BY <1>6
    <3>2. QED
      BY <1>5, <1>6, <3>1
  <2>2. QED
    BY <1>1, <1>5, <1>6, <2>1 DEF ScriptInv, Current
<1>10. LineInv
  <2>1. Len(<<>>) = 0 /\ 0 < BUFSIZE - 1
    BY Limits
  <2>2. NoLine(<<>>)
    BY <2>1 DEF NoLine
  <2>3. ~Unread
    BY <1>1 DEF Unread
  <2>4. stdin.bm >= Len(stdin.buf)
    BY <1>1, <1>7
  <2>5. QED
    BY <1>1, <2>1, <2>2, <2>3, <2>4 DEF LineInv
<1>11. EchoInv
  BY <1>1 DEF EchoInv
<1>12. QED
  BY <1>8, <1>9, <1>10, <1>11 DEF TerminalInv

LEMMA NextKeeps ==
  ASSUME TerminalInv, [Next]_vars
  PROVE  TerminalInv'
<1>1. CASE console_putchar
  BY <1>1, PutcharKeeps
<1>2. CASE out = <<>> /\ shell_print_prompt
  BY <1>2, PromptKeeps
<1>3. CASE out = <<>> /\ Exit
  BY <1>3, ExitKeeps
<1>4. CASE out = <<>> /\ fgetc
  BY <1>4, FgetcStdinKeeps, FgetcScriptKeeps
<1>5. CASE out = <<>> /\ ReadStdin
  BY <1>5, ReadStdinKeeps
<1>6. CASE out = <<>> /\ ReadScript
  BY <1>6, ReadScriptKeeps
<1>7. CASE out = <<>> /\ CutWord
  BY <1>7, CutWordKeeps
<1>8. CASE out = <<>> /\ Run
  <2>1. pc = "run"
    BY <1>8 DEF Run
  <2>2. builtin_shell \/ builtin_exit \/ Prints
    BY <1>8 DEF Run
  <2>3. QED
    BY <2>1, <2>2, ShellCommandKeeps, ExitCommandKeeps, PrintsKeeps
<1>9. CASE \E k \in Keys : TypeKey(k)
  BY <1>9, TypeKeyKeeps
<1>10. CASE UNCHANGED vars
  <2>1. UNCHANGED <<vc, out, shells, stdin, pc, buffer, argv, typed, line, start, odd>>
    BY <1>10 DEF vars, typedVars
  <2>2. StateInv' /\ ScriptInv'
    BY <2>1 DEF TerminalInv, StateInv, ScriptInv, Current
  <2>3. LineInv'
    BY <2>1 DEF TerminalInv, LineInv, Unread, Current
  <2>4. EchoInv'
    BY <2>1 DEF TerminalInv, EchoInv
  <2>5. QED
    BY <2>2, <2>3, <2>4 DEF TerminalInv
<1>11. QED
  BY <1>1, <1>2, <1>3, <1>4, <1>5, <1>6, <1>7, <1>8, <1>9, <1>10 DEF Next, Work

(* The invariant holds in every state: the console, the streams of the     *)
(* shells, the buffer of fgets and the words of shell_main fit together    *)
(* before and after every operation, whatever is typed.                    *)
THEOREM TerminalHolds == Spec => []TerminalInv
<1>1. Init => TerminalInv
  BY InitHolds
<1>2. TerminalInv /\ [Next]_vars => TerminalInv'
  BY NextKeeps
<1>3. QED
  BY <1>1, <1>2, PTL DEF Spec

(* Whatever the shells print, whatever escape sequences are in it and      *)
(* whatever is typed, the cursor of the console stays in the window and    *)
(* nothing is drawn below it, so that video_scroll brings in blank rows.   *)
THEOREM TheWindowIsKept == Spec => []WindowKept
<1>1. TerminalInv => WindowKept
  BY DEF TerminalInv, StateInv, Screens, Consoles, Below, WindowKept
<1>2. QED
  BY <1>1, TerminalHolds, PTL

(* While virtual_console_read waits for a line, its buffer and the screen, *)
(* from the prompt to the cursor, are what has been typed and not erased,  *)
(* scrolls and cursor keys included, until a line is too long.             *)
THEOREM TheEchoIsTheLine == Spec => []EchoIsLine
<1>1. TerminalInv => EchoIsLine
  <2> SUFFICES ASSUME TerminalInv, pc = "read", ~odd
               PROVE  /\ vc.line_buffer = typed
                      /\ Cell(vc.cur_row, vc.cur_col) = start + Len(typed)
                      /\ \A i \in DOMAIN typed : vc.fb[start + i - 1] = typed[i]
    BY DEF EchoIsLine
  <2>1. DOMAIN typed = 1 .. Len(typed)
    BY LenProperties DEF TerminalInv, StateInv
  <2>2. Echoed(vc, typed, start)
    BY DEF TerminalInv, EchoInv
  <2>3. QED
    BY <2>1, <2>2 DEF Echoed
<1>2. QED
  BY <1>1, TerminalHolds, PTL

(* What shell_main runs are the words of the line that was typed last, or  *)
(* of the next line of its script that ends: reading it in blocks, one     *)
(* character at a time, and cutting it into words loses, repeats and       *)
(* reorders none of these lines, whatever shells and scripts have run in   *)
(* between.  A last line that does not end is never run.                   *)
THEOREM TheCommandsAreTheLines == Spec => []CommandsAreLines
<1>1. TerminalInv => CommandsAreLines
  <2> SUFFICES ASSUME TerminalInv, pc = "run", ~More
               PROVE  IF Current.input = Stdin THEN ~odd => AreWords(argv, line)
                      ELSE LinesFit(Text(Current)) =>
                             /\ LineEnd(Text(Current), Current.lines + 1) <= Len(Text(Current))
                             /\ AreWords(argv, NthLine(Text(Current), Current.lines + 1))
    BY DEF CommandsAreLines, Text
  <2>1. /\ argv \in Seq(Seq(Glyphs)) /\ buffer \in Seq(Glyphs) /\ line \in Seq(Glyphs) /\ Current \in Shells
        /\ ~(buffer # <<>> /\ buffer[1] # "NL" /\ Len(argv) < MAX_ARGC)
    BY CurrentIs DEF TerminalInv, StateInv, More
  <2>2. \A s \in Seq(Glyphs) : Cut(argv, buffer, s) => AreWords(argv, s)
    BY <2>1, CutEnds
  <2>3. ASSUME Current.input = Stdin, ~odd
        PROVE  AreWords(argv, line)
    <3>1. Cut(argv, buffer, line)
      BY <2>3 DEF TerminalInv, LineInv
    <3>2. QED
      BY <2>1, <2>2, <3>1
  <2>4. ASSUME Current.input # Stdin, LinesFit(Text(Current))
        PROVE  /\ LineEnd(Text(Current), Current.lines + 1) <= Len(Text(Current))
               /\ AreWords(argv, NthLine(Text(Current), Current.lines + 1))
    <3>1. Fits(Current) /\ Runs(Current, argv, buffer)
      BY <2>4 DEF TerminalInv, ScriptInv, Fits
    <3>2. PICK s \in Seq(Glyphs) : s = Behind(Text(Current), Begin(Current)) /\ Cut(argv, buffer, s)
      BY <3>1 DEF Runs
    <3>3. /\ NthLine(Text(Current), Current.lines + 1) = s
          /\ LineEnd(Text(Current), Current.lines + 1) = NextEnd(Text(Current), Begin(Current))
      BY <2>1, <2>4, <3>2, ShellIs, LineStarts DEF Begin
    <3>4. NextEnd(Text(Current), Begin(Current)) <= Len(Text(Current))
      BY <3>1 DEF Runs
    <3>5. QED
      BY <2>2, <3>2, <3>3, <3>4
  <2>5. QED
    BY <2>3, <2>4
<1>2. QED
  BY <1>1, TerminalHolds, PTL
===============================================================================
