------------------------------ MODULE MCKeyboard ------------------------------
(* A few keys that share prefixes and modifiers, for TLC.                  *)
EXTENDS Keyboard
MCMaxPresses == [ansi |-> 3, keycode |-> 2, scancode |-> 2]
MCNul == Raw(0)
MCChars == {Raw(n) : n \in 1 .. 255}
             \cup [map : 0 .. 15, key : 28 .. 128]
===============================================================================
