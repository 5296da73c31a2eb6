------------------------------- MODULE Keyboard -------------------------------
(***************************************************************************)
(* The keyboard: keyboard.c over i8255.c.  The handler translates one scan *)
(* code and enqueues what it means under a mutex that the reader takes     *)
(* too.  It runs with interrupts enabled on the stack of the thread it     *)
(* interrupts, its host: when it must wait for the mutex, the host waits,  *)
(* whoever that is.  Until it returns no other scan code is delivered.     *)
(***************************************************************************)
EXTENDS CharQueue

CONSTANTS
  Keys,        \* the keys of the keyboard that are pressed
  Modes,       \* what the "translation" option may have been set to
  MaxPresses,  \* bound: how often keys are pressed, by mode
  MaxPort      \* bound: scan codes in the controller when a key is moved

VARIABLES
  port,           \* what the controller has for port 0x60
  held, presses,  \* the keys that are down; how often one went down
  mode,
  prev_scancode,
  modifiers,
  isr, host,      \* what the handler does next, and on which thread it runs
  todo,           \* what it has still to enqueue
  reader,         \* what keyboard_read does next, in the thread of the shell
  owner,          \* who has keyboard_wait_lock
  keyboard_queue,
  read,           \* the characters read so far
  meant,          \* what the keys pressed so far mean
  odd,            \* whether keys were held that the driver mistakes
  down            \* whether the system has stopped

keyVars == <<port, held, presses, meant, odd>>
codeVars == <<mode, prev_scancode, modifiers>>
isrVars == <<isr, host, todo>>
readVars == <<reader, read>>
vars == <<keyVars, codeVars, isrVars, readVars, owner, keyboard_queue, down>>

(* Characters: those that are one number, and those of a map.              *)
Raw(n) == [map |-> -1, key |-> n]
ESC == 27
BRACKET == 91
CR == 13

(* key_maps has no map for the other sums of modifiers.                    *)
Maps == {0, 1, 2, 4, 5, 8, 12}

ASSUME KeyboardAssumption ==
  /\ Keys \subseteq {"lshift", "rshift", "lctrl", "rctrl", "alt", "altgr", "a", "space", "return", "up", "pause"}
  /\ Modes \subseteq {"scancode", "keycode", "ansi"}
  /\ MaxPresses \in [Modes -> Nat] /\ MaxPort \in Nat
  /\ NUL = Raw(0)
  /\ {Raw(n) : n \in 1 .. 255} \cup [map : Maps, key : {30, 57}] \subseteq Chars

-----------------------------------------------------------------------------
(* The keyboard itself: what each key sends when it goes down and up.  A   *)
(* grey key first lifts the shift that num lock pretends to hold.          *)
Prefixed(code) == IF code = 72 THEN <<224, 42, 224, code>> ELSE <<224, code>>

Make(k) ==
  CASE k = "lshift" -> <<42>> [] k = "rshift" -> <<54>> [] k = "lctrl" -> <<29>>
    [] k = "rctrl" -> Prefixed(29) [] k = "alt" -> <<56>> [] k = "altgr" -> Prefixed(56)
    [] k = "a" -> <<30>> [] k = "space" -> <<57>> [] k = "return" -> <<28>>
    [] k = "up" -> Prefixed(72) [] k = "pause" -> <<225, 29, 69, 225, 157, 197>>

Break(k) ==
  CASE k = "pause" -> <<>>
    [] k = "up" -> <<224, 200, 224, 170>>
    [] OTHER -> LET s == Make(k) IN [s EXCEPT ![Len(s)] = @ + 128]

-----------------------------------------------------------------------------
(* The tables: defkeymap.map and e0_keys, for these keys.                  *)
e0_keys(code) == CASE code = 29 -> 97 [] code = 56 -> 100 [] code = 72 -> 103 [] OTHER -> 0
E1_PAUSE == 119

Shifting(keycode) ==
  CASE keycode \in {42, 54} -> {"shift"} [] keycode \in {29, 97} -> {"ctrl"}
    [] keycode = 56 -> {"alt"} [] keycode = 100 -> {"altgr"} [] OTHER -> {}

Kid(mods) ==
  LET bit(m, n) == IF m \in mods THEN n ELSE 0
  IN  bit("shift", 1) + bit("altgr", 2) + bit("ctrl", 4) + bit("alt", 8)

(* What a key stands for in a map: a letter, NUL, return or a cursor key;  *)
(* the other symbols are only logged.                                      *)
Keysym(kid, keycode) ==
  CASE keycode = 30 /\ kid \in {0, 1, 4, 5} -> <<[map |-> kid, key |-> 30]>>
    [] keycode = 57 /\ kid \in {0, 1} -> <<[map |-> kid, key |-> 57]>>
    [] keycode = 57 /\ kid = 4 -> <<Raw(0)>>
    [] keycode = 28 /\ kid # 8 -> <<Raw(CR)>>
    [] keycode = 103 -> <<Raw(ESC), Raw(BRACKET), Raw(65)>>
    [] OTHER -> <<>>

-----------------------------------------------------------------------------
(* Mutant: the release of a prefixed key looks like another press.         *)
scancode_to_keycode_no_release(prev, scancode) ==
  LET code == scancode % 128
      released == IF scancode >= 128 /\ prev = 0 THEN 128 ELSE 0
      Is(keycode, p) == [keycode |-> keycode, prev |-> p]
  IN  CASE scancode \in {224, 225} -> Is(0, scancode)
        [] scancode \notin {224, 225} /\ prev = 0 -> Is(code + released, 0)
        [] scancode \notin {224, 225} /\ prev = 225 -> IF code = 29 THEN Is(0, 256) ELSE Is(-1, 0)
        [] scancode \notin {224, 225} /\ prev = 256 -> IF code = 69 THEN Is(E1_PAUSE + released, 0) ELSE Is(-1, 0)
        [] scancode \notin {224, 225} /\ prev = 224 ->
             IF code \in {42, 54} \/ e0_keys(code) = 0 THEN Is(-1, 0) ELSE Is(e0_keys(code) + released, 0)

(* The keycode of a scan code, 0 for a part of one and -1 for none, and    *)
(* the prefix that is remembered.                                          *)
scancode_to_keycode(prev, scancode) ==
  LET code == scancode % 128
      released == IF scancode >= 128 THEN 128 ELSE 0
      Is(keycode, p) == [keycode |-> keycode, prev |-> p]
  IN  CASE scancode \in {224, 225} -> Is(0, scancode)
        [] scancode \notin {224, 225} /\ prev = 0 -> Is(code + released, 0)
        [] scancode \notin {224, 225} /\ prev = 225 -> IF code = 29 THEN Is(0, 256) ELSE Is(-1, 0)
        [] scancode \notin {224, 225} /\ prev = 256 -> IF code = 69 THEN Is(E1_PAUSE + released, 0) ELSE Is(-1, 0)
        [] scancode \notin {224, 225} /\ prev = 224 ->
             IF code \in {42, 54} \/ e0_keys(code) = 0 THEN Is(-1, 0) ELSE Is(e0_keys(code) + released, 0)

sync_modifiers(mods, keycode) ==
  LET mod == Shifting(keycode % 128)
  IN  IF keycode < 0 \/ keycode >= 128 THEN mods \ mod ELSE mods \cup mod

(* keycode_to_ansi: without a map the symbol is read at address 0: nothing *)
(* sensible.                                                               *)
keycode_to_ansi(mods, keycode) ==
  IF keycode > 128 THEN {<<>>}
  ELSE IF Kid(mods) \in Maps THEN {Keysym(Kid(mods), keycode)}
  ELSE {<<>>, <<[map |-> Kid(mods), key |-> keycode]>>}

(* keyboard_isr: what is to be enqueued.                                   *)
Translated(scancode, keycode, mods) ==
  CASE mode = "scancode" -> {<<Raw(scancode)>>}
    [] mode # "scancode" /\ keycode <= 0 -> {<<>>}
    [] mode = "keycode" /\ keycode > 0 -> {<<Raw(keycode)>>}
    [] mode = "ansi" /\ keycode > 0 -> keycode_to_ansi(mods, keycode)

-----------------------------------------------------------------------------
(* Somebody presses or releases a key.                                     *)
KindsOf(k) ==
  CASE k \in {"lshift", "rshift"} -> {"shift"} [] k \in {"lctrl", "rctrl"} -> {"ctrl"}
    [] k \in {"alt", "altgr"} -> {k} [] OTHER -> {}

Kinds(keys) == UNION {KindsOf(k) : k \in keys}

Code(k) == CASE k = "a" -> 30 [] k = "space" -> 57 [] k = "return" -> 28 [] k = "up" -> 103
             [] k = "pause" -> E1_PAUSE [] k = "lshift" -> 42 [] k = "rshift" -> 54
             [] k = "lctrl" -> 29 [] k = "rctrl" -> 97 [] k = "alt" -> 56 [] k = "altgr" -> 100

Raws(s) == [i \in DOMAIN s |-> Raw(s[i])]

Meaning(k, keys) ==
  CASE mode = "scancode" -> Raws(Make(k))
    [] mode = "keycode" -> Raws(IF k = "pause" THEN <<E1_PAUSE, E1_PAUSE + 128>> ELSE <<Code(k)>>)
    [] mode = "ansi" -> LET s == Keysym(Kid(Kinds(keys)), Code(k)) IN IF s = <<NUL>> THEN <<>> ELSE s

MeaningOfRelease(k) ==
  CASE mode = "scancode" -> Raws(Break(k)) [] mode = "keycode" -> <<Raw(Code(k) + 128)>> [] mode = "ansi" -> <<>>

Press(k) ==
  /\ ~down /\ k \notin held /\ presses < MaxPresses[mode] /\ Len(port) <= MaxPort
  /\ port' = port \o Make(k)
  /\ held' = IF k = "pause" THEN held ELSE held \cup {k}
  /\ presses' = presses + 1
  /\ meant' = meant \o Meaning(k, held \cup {k})
  /\ odd' = (odd \/ Kid(Kinds(held \cup {k})) \notin Maps)
  /\ UNCHANGED <<codeVars, isrVars, readVars, owner, keyboard_queue, down>>

Release(k) ==
  /\ ~down /\ k \in held /\ Len(port) <= MaxPort
  /\ port' = port \o Break(k)
  /\ held' = held \ {k}
  /\ meant' = meant \o MeaningOfRelease(k)
  /\ odd' = (odd \/ Kinds({k}) \cap Kinds(held') # {})
  /\ UNCHANGED <<presses, codeVars, isrVars, readVars, owner, keyboard_queue, down>>

-----------------------------------------------------------------------------
(* The run queue: "shell" reads, "idle" does nothing.                      *)
OnRunqueue(t) ==
  /\ ~(host = t /\ isr = "asleep")
  /\ t = "shell" => reader \notin {"waiting", "asleep"}

Other(t) == IF t = "shell" THEN "idle" ELSE "shell"

(* thread_schedule_preempted_in_list and condvar_wait by t, whose next     *)
(* thread is the list head itself when there is no other.                  *)
LeaveRunqueue(t) == down' = ~OnRunqueue(Other(t))

(* An interrupt, on whichever thread runs: i8255_cisr and keyboard_isr, up *)
(* to the first character it enqueues.  Acknowledged commands are ignored. *)
keyboard_isr(t) ==
  /\ ~down /\ isr = "none" /\ port # <<>> /\ OnRunqueue(t)
  /\ port' = Tail(port)
  /\ IF Head(port) = 250 THEN UNCHANGED <<codeVars, isrVars>>
     ELSE LET to == scancode_to_keycode(prev_scancode, Head(port))
              mods == sync_modifiers(modifiers, to.keycode)
          IN  /\ prev_scancode' = to.prev /\ modifiers' = mods
              /\ todo' \in Translated(Head(port), to.keycode, mods)
              /\ IF todo' = <<>> THEN isr' = "none" /\ UNCHANGED host ELSE isr' = "lock" /\ host' = t
              /\ UNCHANGED mode
  /\ UNCHANGED <<held, presses, meant, odd, readVars, owner, keyboard_queue, down>>

(* mutex_unlock: the sleepers try again.                                   *)
Unlock(i, r) ==
  /\ owner' = "nobody"
  /\ isr' = IF i = "asleep" THEN "lock" ELSE i
  /\ reader' = IF r = "asleep" THEN "lock" ELSE r

(* Mutant: nobody is told.                                                 *)
keyboard_enqueue_silent ==
  \/ /\ isr = "lock" /\ isr' = IF owner = "nobody" THEN "enqueue" ELSE "block"
     /\ owner' = IF owner = "nobody" THEN "isr" ELSE owner
     /\ UNCHANGED <<host, todo, readVars, keyboard_queue, down>>
  \/ /\ isr = "block" /\ isr' = "asleep" /\ LeaveRunqueue(host)
     /\ UNCHANGED <<host, todo, readVars, owner, keyboard_queue>>
  \/ /\ isr = "enqueue"
     /\ down' = Overflows(keyboard_queue, 1)
     /\ keyboard_queue' = IF down' THEN keyboard_queue ELSE Enqueued(keyboard_queue, <<Head(todo)>>)
     /\ isr' = "unlock" /\ todo' = Tail(todo)
     /\ UNCHANGED <<host, readVars, owner>>
  \/ /\ isr = "unlock" /\ Unlock(IF todo = <<>> THEN "none" ELSE "lock", reader)
     /\ host' = IF todo = <<>> THEN "idle" ELSE host
     /\ UNCHANGED <<todo, read, keyboard_queue, down>>

(* keyboard_enqueue, once for each character.                              *)
keyboard_enqueue ==
  \/ /\ isr = "lock" /\ isr' = IF owner = "nobody" THEN "enqueue" ELSE "block"
     /\ owner' = IF owner = "nobody" THEN "isr" ELSE owner
     /\ UNCHANGED <<host, todo, readVars, keyboard_queue, down>>
  \/ /\ isr = "block" /\ isr' = "asleep" /\ LeaveRunqueue(host)
     /\ UNCHANGED <<host, todo, readVars, owner, keyboard_queue>>
  \/ /\ isr = "enqueue"
     /\ down' = Overflows(keyboard_queue, 1)
     /\ keyboard_queue' = IF down' THEN keyboard_queue ELSE Enqueued(keyboard_queue, <<Head(todo)>>)
     /\ isr' = "broadcast" /\ todo' = Tail(todo)
     /\ UNCHANGED <<host, readVars, owner>>
  \/ /\ isr = "broadcast" /\ isr' = "unlock"
     /\ reader' = IF reader = "waiting" THEN "lock" ELSE reader
     /\ UNCHANGED <<host, todo, read, owner, keyboard_queue, down>>
  \/ /\ isr = "unlock" /\ Unlock(IF todo = <<>> THEN "none" ELSE "lock", reader)
     /\ host' = IF todo = <<>> THEN "idle" ELSE host
     /\ UNCHANGED <<todo, read, keyboard_queue, down>>

ISR == ~down /\ isr # "none" /\ OnRunqueue(host) /\ keyboard_enqueue /\ UNCHANGED <<keyVars, codeVars>>

-----------------------------------------------------------------------------
(* Mutant: what the queue returns is taken for a character whatever it is. *)
keyboard_read_any ==
  \/ /\ reader = "lock" /\ reader' = IF owner = "nobody" THEN "test" ELSE "block"
     /\ owner' = IF owner = "nobody" THEN "shell" ELSE owner
     /\ UNCHANGED <<isrVars, read, keyboard_queue, down>>
  \/ /\ reader = "block" /\ reader' = "asleep" /\ LeaveRunqueue("shell")
     /\ UNCHANGED <<isrVars, read, owner, keyboard_queue>>
  \/ /\ reader = "test" /\ Empty(keyboard_queue)
     /\ Unlock(isr, "waiting")
     /\ LET idleRuns == ~(host = "idle" /\ isr' = "asleep") IN down' = ~idleRuns
     /\ UNCHANGED <<host, todo, read, keyboard_queue>>
  \/ /\ reader = "test" /\ ~Empty(keyboard_queue)
     /\ read' = Append(read, Oldest(keyboard_queue))
     /\ keyboard_queue' = Dequeued(keyboard_queue) /\ reader' = "unlock"
     /\ UNCHANGED <<isrVars, owner, down>>
  \/ /\ reader = "unlock" /\ Unlock(isr, "lock")
     /\ UNCHANGED <<host, todo, read, keyboard_queue, down>>

(* keyboard_read of one character, over and over: mutex_lock, condvar_wait *)
(* while the queue is empty, and a character unless it is NUL.             *)
keyboard_read ==
  \/ /\ reader = "lock" /\ reader' = IF owner = "nobody" THEN "test" ELSE "block"
     /\ owner' = IF owner = "nobody" THEN "shell" ELSE owner
     /\ UNCHANGED <<isrVars, read, keyboard_queue, down>>
  \/ /\ reader = "block" /\ reader' = "asleep" /\ LeaveRunqueue("shell")
     /\ UNCHANGED <<isrVars, read, owner, keyboard_queue>>
  \/ /\ reader = "test" /\ Empty(keyboard_queue)
     /\ Unlock(isr, "waiting")
     /\ LET idleRuns == ~(host = "idle" /\ isr' = "asleep") IN down' = ~idleRuns
     /\ UNCHANGED <<host, todo, read, keyboard_queue>>
  \/ /\ reader = "test" /\ ~Empty(keyboard_queue)
     /\ read' = IF Oldest(keyboard_queue) = NUL THEN read ELSE Append(read, Oldest(keyboard_queue))
     /\ keyboard_queue' = Dequeued(keyboard_queue) /\ reader' = "unlock"
     /\ UNCHANGED <<isrVars, owner, down>>
  \/ /\ reader = "unlock" /\ Unlock(isr, "lock")
     /\ UNCHANGED <<host, todo, read, keyboard_queue, down>>

Reader ==
  ~down /\ OnRunqueue("shell") /\ ~(host = "shell" /\ isr # "none")
    /\ keyboard_read /\ UNCHANGED <<keyVars, codeVars>>

-----------------------------------------------------------------------------
(* keyboard_init: the controller has acknowledged two commands.            *)
Init ==
  /\ port = <<250, 250>> /\ held = {} /\ presses = 0 /\ meant = <<>> /\ odd = FALSE
  /\ mode \in Modes /\ prev_scancode = 0 /\ modifiers = {}
  /\ isr = "none" /\ host = "idle" /\ todo = <<>>
  /\ reader = "lock" /\ read = <<>>
  /\ owner = "nobody" /\ keyboard_queue = null_char_queue /\ down = FALSE

Interrupt == \E t \in {"shell", "idle"} : keyboard_isr(t)

Next ==
  \/ \E k \in Keys : Press(k) \/ Release(k)
  \/ Interrupt \/ ISR \/ Reader

Spec == Init /\ [][Next]_vars

(* The controller delivers what it has; the threads run in turn.           *)
FairSpec == Spec /\ WF_vars(Interrupt) /\ WF_vars(ISR) /\ WF_vars(Reader)

-----------------------------------------------------------------------------
(* When every scan code has been handled the modifiers are those of the    *)
(* keys that are down, prefixes, releases and the shifts that the keyboard *)
(* makes up notwithstanding; unless two keys of one kind were down and one *)
(* of them went up.                                                        *)
ModifiersAreHeld == port = <<>> /\ ~odd => modifiers = Kinds(held) /\ prev_scancode = 0

(* The reader gets what the keys mean, in order, each character once.  (A  *)
(* NUL cannot be read at all; with modifiers that have no map together the *)
(* driver reads a symbol at address 0.)                                    *)
ReadInOrder == ~odd => Len(read) <= Len(meant) /\ read = SubSeq(meant, 1, Len(read))

(* Somebody who waits for the mutex will never have it: the handler        *)
(* interrupted the thread that has it, or the unlock came between the test *)
(* and the sleep.                                                          *)
Stuck ==
  \/ isr = "asleep" /\ (owner = "nobody" \/ host = owner)
  \/ reader = "asleep" /\ owner = "nobody"

(* Unless the handler or the reader is stuck on the mutex, or the system   *)
(* has stopped, everything that is typed is read.                          *)
KeysRead == []<>(down \/ Stuck \/ odd \/ read = meant)
===============================================================================
