------------------------------ MODULE MCTerminal ------------------------------
(* A narrow window and two short scripts, for TLC.                         *)
EXTENDS Terminal
MCGlyphs == {"ESC", "[", "1", "2", "9", "J", "A", "C", "D", ";", " ", "NL", "!", "$", "x", "y", "z", "s", "u", "q", "c", "e"}
MCPrompt == <<"$">>
MCScripts == (<<"t">> :> <<"c", "NL", "NL", "s", " ", "u", "NL", "s", "NL">>)
          @@ (<<"u">> :> <<"e", " ", " ", "x", "NL", "x">>)
MCStartup == <<"t">>
MCGreeting == <<"x", "ESC", "[", "2", "J", "y", "ESC", "[", "1", ";", "9", "C", "z", "ESC", "[", "A", "ESC", "[", "D", "NL">>
===============================================================================
