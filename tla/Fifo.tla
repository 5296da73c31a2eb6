-------------------------------- MODULE Fifo ---------------------------------
(***************************************************************************)
(* What a line with a queue in front of it promises: characters leave in   *)
(* the order they came, none is lost, none is sent over another, and never *)
(* more than Capacity wait.                                                *)
(***************************************************************************)
EXTENDS Integers, Sequences

CONSTANTS Capacity, NUL

VARIABLES
  contents,  \* the characters that wait
  line       \* the character on its way out, or NUL

vars == <<contents, line>>

Init == contents = <<>> /\ line = NUL

Put ==
  /\ Len(contents') \in Len(contents) .. Capacity
  /\ SubSeq(contents', 1, Len(contents)) = contents
  /\ UNCHANGED line

Get ==
  /\ contents # <<>>
  /\ line = NUL
  /\ line' = Head(contents)
  /\ contents' = Tail(contents)

Sent == line # NUL /\ line' = NUL /\ UNCHANGED contents

Next == Put \/ Get \/ Sent

Spec == Init /\ [][Next]_vars
=============================================================================
