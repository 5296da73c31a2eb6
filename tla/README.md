# Verification of MikuCOS (KaOS)

TLA+ models of the MikuCOS kernel, the TLC runs that check them on small
instances and TLAPS proofs of what matters most for every instance. The
reference is the C source under `src/`; every definition that stands for code
is listed in `PROJECT.json` under `map` with the lines it models.

## 1. The system

MikuCOS is a single-CPU x86 kernel without user mode or virtual memory: the
shell, the drivers and the "user programs" are kernel threads in one address
space. What follows lists its parts, the state each keeps, what makes it
correct and what is hard about it.

| Part (source) | State | Operations | What makes it correct |
| --- | --- | --- | --- |
| Scheduler (`thread.c`) | run queue, `current_tcb`, quantum of each thread | create, yield, return, sleep, wake, tick | no list is corrupted; `current_tcb` is who runs; ready threads run |
| Dispatcher (`dispatcher.c`) | `current_context`, saved stacks | switch | no saved context is overwritten |
| Interrupt level (`hal.h`, `idt.c`) | the interrupt flag | set, restore, gate entry, `iret` | critical sections are atomic |
| Mutex, condition variable (`mutex.c`, `condvar.c`) | lock word, a wait list each | lock, trylock, unlock; wait, signal, broadcast | exclusion; no lost wakeup; wait is atomic |
| Timer (`timer.c`) | list of delay entries | register, unregister, `timer_delay`, tick | a delay ends, not early, and wakes a thread that sleeps |
| Character queue (`queue.c`) | ring of 1024 bytes, `first`, `last` | enqueue, dequeue, empty, size, free | a FIFO that is never overrun |
| Keyboard (`keyboard.c`) | queue, mutex, condvar, modifiers, escape state | interrupt, read | every key reaches the reader; the handler never blocks for ever |
| Serial port (`uart.c`) | two queues, transmit interrupt enable | putchar, write, rx and tx interrupts | everything written is sent in order |
| Files (`file.c`, `file_api.c`, `process.c`) | 256 descriptors, reference counts, cwd | open, close, dup2, read, write, path lookup | a descriptor names a live file; counts equal references |
| Mounts (`filesystem.c`) | AVL tree of mount points | mount, lookup | a path crosses to the file system mounted there |
| AVL tree (`avl.c`) | nodes with balance | add, find | ordered and balanced |
| Devices (`device.c`, `driver.c`, `devfs.c`, `rootfs.c`) | driver tree, device lists | register, attach, enumerate | a path names the device attached there |
| Disks (`ide.c`, `harddisk.c`, `partition.c`) | drive state, partition table | read, write, ioctl | the sectors asked for, within the partition |
| File systems (`tarfs.c`, `fat*.c`, `ngulfs_*.c`) | allocation tables, sector cache | walk, allocate, read, write | what was written is read back |
| Consoles (`virtual_console*.c`) | screen, cursor, escape parser, line buffer | putchar, read line | the parser never stores outside its buffers |
| Streams (`stdio.c`) | buffer and position | get, put, flush | the byte stream is that of the descriptor |
| Network (`net/`) | rings, ARP cache, interface list | receive, send, resolve, route | a frame is delivered once; lists stay finite |
| Heap (`malloc.c`, `vmalloc/`) | free space | allocate, free | third party, not modelled |

Parts interact through direct calls (everything above the drivers), through
callbacks from interrupt handlers (timer, keyboard, serial and network
interrupts) and through shared lists: a thread control block has one link
field, `run_list`, which puts it on the run queue *or* on the wait list of one
mutex or condition variable.

What is hard: the timer interrupt preempts kernel code anywhere interrupts are
on, including inside another interrupt handler and inside the scheduler
between its critical section and the change of stack; wait lists and run queue
share links; the keyboard handler takes a mutex; `timer_delay` registers and
then sleeps in two steps; descriptor table, path buffers and heap are shared by
all threads without locks. `PROJECT.json` lists each such hazard at its line.

## 2. Modules

| Module | Models |
| --- | --- |
| `Sched` | `thread.c`, `dispatcher.c`, the interrupt level, the scheduling half of the tick |
| `Sync` | `mutex.c`, `condvar.c`; EXTENDS `Sched` |
| `MutexPromise`, `Monitor` | what a mutex, and a mutex with a condition variable, promise |
| `Timer` | `timer_delay` and the list of delays in `timer.c`; EXTENDS `Sched` |
| `CharQueue` | `queue.c`, as operators on a ring |
| `Uart` | `uart.c` and the registers of `i16550A.c` it uses; EXTENDS `CharQueue` |
| `Fifo` | what a line with a queue in front of it promises |
| `Keyboard` | `keyboard.c`: interrupt handler, three translations, reader; EXTENDS `CharQueue` |
| `Console` | `virtual_console*.c`, `video.c`: window, escape machine, line mode, as operators on a console |
| `Terminal` | `shell.c`, `stdio.c`, the read of a line; EXTENDS `Console` |
| `Avl` | `avl.c`, as operators on trees, with the comparator as a parameter |
| `FileTable` | `file.c`, `file_api.c`: descriptors and reference counts |
| `Devfs` | the nodes of `devfs.c`; INSTANCE `Avl` |
| `Mounts` | `filesystem.c`, `rootfs.c`, `tarfs.c`, path resolution; EXTENDS `FileTable`, `Devfs` |
| `Vfs` | `driver.c`, `device.c`, `harddisk.c`, the boot of `vfs_test.c`, a user; EXTENDS `Mounts` |
| `Storage` | `ide.c`, `partition.c`, `fat.c`, `fat_low.c` |
| `Links` | `list.h` at the level of its stores |
| `Pcnet32` | the rings, lists and threads of the network driver; EXTENDS `Links` |
| `Net` | `net_test`, `arp.c`, `ip.c` on the driver; EXTENDS `Pcnet32` |
| `Libc` | `strcmp`, `strstr`, `itoa`, the numbers of `dprintf`, `strtol`, as operators |
| `Scanf` | `sscanf` as a machine of directives; EXTENDS `Libc` |
| `SchedProofs` | theorems about `Sched`: types, and who is linked and who runs |
| `SyncProofs`, `TimerProofs` | theorems about `Sync` and `Timer`, over those |
| `CharDeviceProofs` | lemmas about the ring of `CharQueue`; theorems about `Uart` and `Keyboard` |
| `TerminalProofs` | theorems about `Console` and `Terminal` |
| `FileTableProofs`, `StorageProofs` | theorems about `FileTable` and `Storage` |
| `NetProofs` | lemmas about the lists of `Links`; theorems about `Pcnet32` and `Net` |
| `MCSched`, `MCSync`, `MCTimer`, `MCUart`, `MCKeyboard`, `MCTerminal`, `MCVfs`, `MCStorage`, `MCNet`, `MCScanf` | instances for TLC |

### Sched

One action is a stretch of code that runs with interrupts disabled, or that no
other actor can tell from one; between two actions the timer may tick. A
thread has a stack of frames: the bottom one is its own code, each further one
a timer handler that was itself interrupted or preempted. A frame is the point
the code is `at`, the point it will go on from `then` when the switch it is in
the middle of is undone, and the local variable `next` of the scheduler.

    thread_schedule_preempted_in_list        Schedule       (up to hal_irql_restore)
      dispatcher_switch_to                   DispatcherSwitchTo  current_context = next
        __dispatcher_switch_to               SwitchStack    the stack pointer changes

`cpu` is the truth (whose stack the processor is on); `current_tcb` and
`current_context` are what the scheduler and the dispatcher believe. Between
`Schedule` and `SwitchStack` (the *window*) they differ. Undefined behaviour
ends a run: `fault` is `"empty"` (`next` computed from an empty run queue),
`"torn"` (registers saved into the context of another thread), `"relinked"` or
`"unlinked"` (a link field inserted or deleted twice). A thread that has
returned stays at `"gone"`; `NoUndefined` also says that it never runs again.

A tick that ends a quantum in the window is what can go wrong here. Nothing in
the code prevents it: interrupts are enabled, and the thread whose turn begins
may have only the rest of an old quantum. The tick enters the scheduler on the
stack of the old thread, in the name of the new one, and the kernel goes on:
`fault` is `"strayed"` from then on, and `"lost"` at the next undefined
behaviour, which is no longer told apart. The bound `Follow` says how many handlers
nest in the model from then on; with 0 it stops there. `sync_small` and
`timer_small` stop: what they check is what holds until it happens, and `"strayed"`
is one of their reachable states. `sched_small` goes on: `CurrentIsRunning` and
`NoUndefined` speak of the time before, `LinkedOnce` of the time after as well. It
also shows what is lost: after such a tick it reaches `"lost"`, and
`Executing("expired") => current_tcb = cpu` fails, although `thread.c:21` says that
interrupts are "executed in the context of the current thread", and so does
`Executing("switch") => current_context = cpu`: the registers of one thread are saved
in the context of another, which `dispatcher.h:6` calls the context "for a thread".
Ticks in the window that end no quantum commute with its steps and are not explored.

### Sync

`mutex_lock` is `MutexLock` (the call), `TryLock` (the `xchg`) and `Block` (the
call of the scheduler after a failed `xchg`); a thread resumed from a wait list
is back at `TryLock`. `condvar_wait` releases the mutex, queues the caller and
chooses the next thread in one critical section (`CondvarWait`), then goes on as
`mutex_lock`. Callers respect the interface: lock only when not holding,
unlock and wait only when holding, signal and broadcast at any time.

### Timer

`timer_delay` is `TimerDelay` (the entry is registered with interrupts
disabled) and `DelaySleep` (`thread_sleep`, whose body is `SleepCurrent` of
`Sched`). `TimerTick` is the whole of `timer_cisr`: it counts every entry down,
takes those that are due off the list and wakes their threads in order, then
charges the tick (`ThreadTimerHook` of `Sched`). The countdown is unsigned:
decrementing 0 leaves `Never`, a number of ticks no run of the machine reaches.
In this module only the timer puts threads to sleep and wakes them.

### CharQueue and Uart

The functions of `queue.c` are called with interrupts disabled and are
operators. Enqueueing a character into a full ring ends in `panicf`, which loops
with interrupts disabled: the variable `panic` names the operation and nothing
happens after. What had been stored before is not kept apart, since nobody will
see it. `uart_write` is one action because it disables interrupts throughout,
`uart_rx_isr` is one for each interrupt (the handler reads characters until the
chip has no more), `Transmit` is the chip. The characters are abstract and not
0, which the ring cannot tell from "empty"; `uart_putchar_0`'s carriage return
before a line feed is two calls of `uart_putchar`. `Makefile.defs` builds
without the serial port; the model is of the build with `USE_UART` (the default
of `config.h`).

### Keyboard

The controller's port (`port`) holds the scan codes that keys make (`Press`,
`Release`: external, with the shifts a real keyboard makes up around the grey
keys). `Interrupt` is `keyboard_isr` up to `mutex_lock`; from there on the
handler runs with interrupts enabled, step by step (`ISR`), on the stack of the
thread it interrupted (`host`): it may block there. `Reader` is `keyboard_read`
on the shell's thread. Two consequences of the mutex inside the handler are
states of the model. When the handler has interrupted the thread that holds the
mutex, it waits for a thread that it keeps from going on, IRQ 1 is never
acknowledged and the keyboard is dead (`Stuck`). When it has interrupted the
idle thread and blocks, the idle thread leaves the run queue, and the next wait
of the shell makes the head of an empty list a thread (`down`). Symbols read
through a map that does not exist (`keyboard.c:268`) are any byte at all; from
there on, and after two keys of one modifier overlapped, `odd` is set and the
properties say nothing of what the symbol was.

### Console and Terminal

`Console` is a record with the cursor, the frame buffer, the state of the escape
machine and the line being edited; a function of the source that changes it is
an operator that returns the new one. The frame buffer is larger than the
window, since `video_scroll` clears the row *below* it and moves in what is
there. `Terminal` is one shell thread: prompt, `fgets` (one action for each
character taken from the stream), the read of the console or of a script when
its buffer is empty, word splitting, and the builtins that change state. Keys
are typed at any time the console waits for them. A line that wraps at the edge
gets a newline inserted into the edited line (`virtual_console_ansi.c:77`), so
that a long command becomes two: `odd`. A script's line that is longer than the
buffer of the shell is run in pieces; `CommandsAreLines` speaks of scripts whose
lines are not (`LinesFit`). The end of a script sets the error flag of the
stream, since `tarfs_read` returns -1 there (`tarfs.c:86`), and `fgets` then gives
up what it has read (`stdio.c:76`): a last line without a newline is lost, as it is
in `ReadScript`. `CommandsAreLines` speaks of lines that end. `Glyphs` are the characters that are written and read,
the digits and letters of escape sequences among them; each is a value of its own.

### FileTable, Devfs, Mounts, Vfs

`FileTable` is the table of descriptors with the files `malloc` hands out;
`owned` is a history variable, the descriptors clients have been given and have
not closed. A close leaves an entry in the table as long as other descriptors
hold the file; `dup2` onto such an entry panics the model (`"stale"`), since the
code would then close a file under its owners, and nobody who owns descriptors
makes that call. `Mounts` identifies a file system by its type and address,
because `mounted_filesystem_t_avlcompare` compares addresses and never file
numbers: its tree finds all mounts only while those on one file system are made
in ascending order of number (`Ascending`), which the boot is and a user need
not. `Vfs` boots with any subset of drives, then lets a user mount FAT volumes,
open, read, duplicate and close. `shell_run` opens the console for descriptors 0, 1
and 3 before that (`Standard`), and panics when it is not there. Paths are sequences of names and are resolved
in one step.

### Storage

An operation is one step, since one thread uses the disks. A sector is a record
of all that it can be read as. The drive is external: it answers at once (the
code does not wait for DRQ, `ide.c:129`), and hands over `Junk` for sectors it
has not got. Conditions name what the code gets wrong: `Reachable` (the order of
`struct taskfile` sends the bytes of a large sector number to the wrong
registers), a partition's last block (`partition.c:32`), boot sectors that could
not be read (`fat.c:102`), tables whose `sectors_per_fat` is not the 256 entries
of a page (`fat_low.c:8`).

Block numbers are unsigned words and wrap around: `Word(n)` is `n % WORD`. A boot
sector can ask for block `WORD - 1` of its partition; at `partition.c:32` one more
than that is 0, the check passes, and the sector before the partition is read.
`SectorsStayInside` says just this: a read hands over a sector of the partition, or
the one before it and then only for that block number. A boot sector with 0
sectors in its FAT16 table divides by zero at `fat_low.c:8`, and the kernel stops
(`halted`). A partition's device is told from the drive by `part`, so that a table
entry that starts at sector 0 with length 0 is a partition too, which refuses every
block.

### Links, Pcnet32, Net

Preemption may come between any two stores to a list, so `list_add_tail` and
`list_del` are several steps outside critical sections. The card is external: it
receives into descriptors it owns and sends those it is given. The receive loop
and `pcnet32_decollect` meet outside `collector_condlock`; `raced` records that
they have, and what is promised ends there. Resolving a path takes a descriptor of
its own, and `file.c:38` panics when there is none: an open of a session that finds
no descriptor free, or a refresh that finds fewer than two, stops the kernel
(`Panicked`). `net/` is not linked by the top `Makefile` at this commit: the
composition is that of `pcnet32_test.c`, with `net_test` run from the shell.

### Libc and Scanf

`Libc` computes on strings as sequences of codes and on words of `BITS` bits.
`Scanf` runs a format against a text one directive at a time, with the one
character of lookahead that `std_vxscanf` keeps, and accumulates the arguments
it assigns. `Definition` is the reference: what each directive is defined to
read, written as sets of prefixes and the value of a numeral, without
lookahead. `odd` marks the directives whose code is known to differ (`%s` with
its stray semicolon at `libc.c:583`, `%c`, a lone `0x`, `[a-a]`).


## 3. Runs

| Run | Instance | Shows |
| --- | --- | --- |
| `sched_small` | idle + 2 threads, quantum 2, 2 nested handlers (1 once strayed), both may sleep | until a quantum ends in the window no list or context is lost, `current_tcb` is who runs; ready threads run; after it, still no thread is linked twice |
| `sync_small` | idle + 3, quantum 2 | the mutex keeps its promise, mutex and condition variable are a monitor, nobody is forgotten |
| `timer_small` | idle + 2, delays of 1 and 3 ticks, quantum 2 | a thread sleeps exactly while its entry waits; delays end |
| `uart_small` | ring of 3, 2 characters, bursts of up to 2 | the transmitter is a FIFO; the interrupt is enabled while characters wait |
| `keyboard` | 8 keys, 3 translations, queue of 4 | modifiers follow the keys; what is read is what was typed, in order, and all of it unless the handler is stuck |
| `terminal` | window 2 x 6, 6 keys, 3 scripts, 3 descriptors | cursor and screen stay inside the window, the screen shows the edited line, shells run their lines in order and come back |
| `vfs_boot` | 0 to 2 drives, 5 addresses, 5 descriptors, 2 files, 2 mounts by the user | every device is reachable, every ascending mount is found, trees stay balanced, descriptors name live counted files |
| `storage` | 2 drives, 3 mounts, 2 open directories, 4 reads | a partition hands over its own sectors, but for the one block number that wraps; a mount uses its own boot sector and table, listings are in order |
| `net` | rings of 2, 2 sessions, 3 frames of 3 kinds | lists are sound, frames are read once, requests answered once and in order, the reader catches up |
| `libc` | 13 formats, all texts of 4 characters of 8 kinds, 6-bit words | scanning is as defined, printed numbers read back, strings are ordered and found |

Two runs are expected to end in a violation, each of something the source or
its comments say (`findings` in `PROJECT.json`):

| Run | Property | What happens |
| --- | --- | --- |
| `sync_lost_wakeup` | `NoWaitOnFreeMutex` | an unlock between the failed test and the insertion into `lazy_list` wakes nobody |
| `timer_race` | `WakesSleeper` | the delay ends before the thread sleeps; it is linked twice |

More such disagreements are modelled and named, without a run of their own. They
are conditions of the properties above, so that each property says what holds as
long as none of them has happened:

- `thread_sleep` and `thread_returned` rotate a ready thread that has not run
  (`NoStarvation` excepts runs that call `thread_sleep` for ever);
- a quantum that ends in the window (section 2, Sched): `CurrentIsRunning`,
  `NoUndefined`, `NobodyForgotten` and the refinement of the monitor speak of the
  time before;
- `delay(1)` registers 0 ticks, which the unsigned countdown wraps around: with
  `1` among `Msecs`, `timer_small` violates `DelayEnds`;
- `char_queue_free_nolock` counts the slot that must stay free, so that
  `uart_write` overflows the queue it asked about (`panic = "write"`);
- the handler's mutex (`Stuck`, `down`), modifiers of a pair, wrapped lines;
- the mount comparator (`Ascending`), mounts over the device directory
  (`Covered`);
- a script's last line without a newline, which no shell runs;
- block `WORD - 1`, which reaches the sector before the partition, and tables of 0
  sectors, which stop the kernel;
- sector numbers beyond 254, boot sectors that could not be read, tables that
  are not indexed by 256;
- `pcnet32_decollect` outside its lock (`raced`);
- the other ways in which the reader of the network falls silent, each a disjunct of
  `Deaf`: no session lasts, a session that ended kept the descriptors of a later one
  and the kernel stopped (`OutOfDescriptors`), a second refresh has tied the list of
  interfaces into a loop and a request for another is looked up in it (`InTiedList`),
  a frame longer than the buffer (`TooLong`), the lost wakeup in the network's mutex
  (`WakeupLost`). Without any one of the last four TLC finds `FramesRead` violated;
- the directives of `sscanf` marked `odd`, and zeros that `dprintf` puts before a
  sign.

Bounds. Two or three threads besides idle are enough for a wait list of two, a
rotation that passes over a thread, and a waker that is neither the sleeper nor
the starved thread. A quantum of 2 gives both a tick that exhausts it and one
that does not. `MaxNest` bounds handlers stacked on one thread: 2 lets a handler
be preempted inside a handler. In `timer_small` delays of one and three ticks
against a quantum of two let a delay end before, in and after the turn it was
registered in. A ring of three places wraps around after three characters and is
full with two. In `keyboard` three presses (two in the translations
that do not decode) hold two modifiers and a key. In `terminal` six
keys reach the edge of the window, split a line, erase what was typed, start a
nested shell and use up the descriptors. In `vfs_boot` five addresses give
`malloc` every order of five file systems; five descriptors are the three of the
shell and two more, and with two files they suffice to exhaust the table, duplicate
and leave stale entries. In `storage` `BYTE` is 22
in place of 256, a word is four such bytes, and pages are 2 entries in place of 256
and 16, so that the partitions of the instance lie below, across and beyond each
limit, and one asks for the last block number there is; a third mount can follow a
failed one. In `net` rings of two are the least that reorder;
three frames wrap them; two sessions leak descriptors until the kernel panics;
frames are requests for this host, requests for others and frames longer than a
buffer. Once the kernel has strayed one handler
nests on a thread (`Follow`), which the second switch that tears a context needs. In
`libc` words of 6 bits have both limits within the digits of a four-character
text. `CHECK_DEADLOCK FALSE` appears only where the system may stop: after a
`fault` or `panic`, when nobody types, when a text is scanned, and when bounded
mounts and reads are used up.

Fairness. `SchedFairSpec`, and `FairSpec` of `Sync` and `Timer`, assume that the
processor executes kernel code (weak fairness of each kernel step) and that the
timer keeps ticking; nothing is assumed of thread code except, in `Sync`, that a
thread in its critical section keeps reaching `mutex_unlock` (strong fairness,
since it is preempted in between). `Keyboard` assumes that the controller
delivers the codes it has and that handler and reader are scheduled; `Net` that
the two loops of the driver, the net thread and the card make progress, not that
anybody starts a session; `Terminal` that the shell's thread runs, not that
anybody types. No liveness of the serial port is stated: the handler serves one
cause for each edge of the interrupt line, so that a second cause pending on it
may never be served. `Vfs`, `Storage` and `Scanf` need no fairness.


## 4. Proofs

`SchedProofs` proves `SchedTypeCorrect`: `SchedSpec => []SchedTypeOK`, for any
set of threads, quantum, nesting bound and with ticks anywhere, whether it is followed or not. That the
processor is on a stack that exists is not inductive by itself; `SchedInv` adds
that only created threads are linked, current, or named by a pending switch
(`Born`), and that the bottom frame of a stack is thread code and all the others
are handlers (`FramesOK`), so that `iret` always has a frame to return to. There
is one lemma per action, over the lemmas about replacing the top frame
(`SetTopOK`) and about the critical section (`ScheduleInv`).

It also proves `SchedLinkedOnce`, again whether the kernel is followed or not,
`SchedCurrentIsRunning` and `SchedNoUndefined`. The last two have no hypothesis about
the timer: the invariant behind them is `UntilStrayed`, that a tick has ended a quantum in
the window (`fault` says so) or `RunInv` holds. What they exclude is every other way
to a torn context, a broken list, an empty run queue or a dead thread; that this
tick is a way to them is what `"lost"` in `sched_small` shows. `SchedLinkedOnce` follows from
`QueuesOK` alone: the lists share no thread and hold living threads only, and the
idle thread never leaves the run queue. The other two need `RunInv` beside it,
each part of which fails without the rest:

- `RunnerOK`: scheduler, dispatcher and processor agree outside the window, and
  inside it the scheduler and the dispatcher agree on the head of the run queue
  while the processor is still elsewhere, so that the registers are saved into
  the right context and nobody but the head runs;
- `PlacesOK`: only the newest frame of the stack the processor is on may be in
  the window, so that no two switches are under way at once; no frame that waits to
  be resumed goes on where its thread had left the lists; and a thread that has
  unlinked itself in `thread_sleep` still has the scheduler's call before it;
- `QueuesOK`: the lists, in which each living thread occurs at most once, with the
  idle thread on the run queue, so that the scheduler never finds it empty.

The lemmas are one per action, over lemmas about lists in which every thread
occurs once (what removing, appending and rotating leave).

`SyncProofs` proves `SyncTypeCorrect`, `MutexExcludes` (`[]MutualExclusion`) and
`MutexIsLock` (`Spec => ImplementsLock`), again with ticks in the window, where
the scheduler's own idea of who runs is wrong: exclusion rests on the `xchg` and
on stacks only. The inductive invariant `SyncInv` adds to `SchedInv` that no
frame in the window resumes inside the critical section and that a holder
implies a set lock word as long as nothing has faulted. Every step is `Kept`,
`Taken` or `Left`; the refinement reads off that. `MutexPromise` is stated over
the set of threads inside (`holders`), not over one chosen owner, so that two of
them at once already break it. Until a quantum ends in the window there are also
`SyncNobodyForgotten` and `SyncNoUndefined`, from `SyncInv`, `RunInv` and
`NoSleepers` (nobody calls `thread_sleep` here, so that whoever is alive is on
a list), and `SyncIsMonitor` (`Spec => ImplementsMonitor`): the wait list of the
condition variable, read as the monitor's sleepers, changes only by `CondvarWait`,
a signal or a broadcast, and each of the scheduler's steps leaves it alone, since
what the scheduler rotates is on the run queue.

`TimerProofs` proves `TimerForgetsNobody` (`Spec => []AsleepIffRegistered`), for any delays and any number of entries. The inductive
invariant `TimerInv` makes the property exact: until an entry comes due before
its thread sleeps (`timer_race`, `fault = "relinked"`) or a quantum ends in the window,
each thread has one entry
at most, and the threads with an entry are those on the way from registering it to
`thread_sleep`, which are still linked, and those asleep, each thread one or the
other. What the tick does to the list is the sub-sequence of the entries at a set
of positions, `Picked`; that it contains exactly those entries, once and in
order (`PicksValue`, `PickedPositions`, `PickedEntries`) is proved by induction over
the prefixes, in the form "the set of naturals where it fails has no least
element" (`NatInduct`), which needs no operator as a parameter.

`CharDeviceProofs` starts with the arithmetic of the ring: an index wraps around at
most once (`Advance`, `Distance`) and the places behind `last` are not those
between `first` and `last` (`Places`). From it `EnqueuedOK` (storing characters
that fit appends them to `Contents`) and `DequeuedOK` (the head leaves, the tail
stays) follow for a ring of any size. `UartTypeCorrect`, `TransmitIsEnabled` and
`TransmitterIsFifo` (`UartSpec => ImplementsFifo`) need no strengthening:
`UartTypeOK` and `PendingIsEnabled` are inductive, and the lemma `UartStep` gives
type and refinement together.

Over the same lemmas it proves both invariants of `Keyboard`, `SpecModifiers`
(`Spec => []ModifiersAreHeld`) and `SpecReadInOrder` (`Spec => []ReadInOrder`),
for any number of key presses, a ring of any size and all three translations.
The keys are those of the model: a letter, the space, return, an arrow with its
made-up shifts, pause and the six modifiers: every kind of scan code has one.
Neither property is inductive, since most of the time there are codes in the controller and
characters on their way. The invariant `KInv` says what will become of them:
`Progress` takes the driver's state as it is (prefix, modifiers, and what has been
read, followed by the ring and what the handler has still to store) through the
codes in the controller, by a recursive function over the sequence, and the result
is no prefix, the modifiers that are held, and what the keys meant. The interrupt
moves one step of that recursion from the controller into the driver
(`InterruptStep`, `FoldedFirst`); handler and reader, in whatever order they come to
the mutex, only move characters along the ring (`HandlerStep`, `ReaderStep`, by
`EnqueuedOK` and `DequeuedOK`). A press or release appends codes, and the work is that
the decoder, starting from no prefix and the modifiers held, turns
just these codes into the meaning of the key (`PressSent`, `ReleaseSent`,
`PauseSent`, case by case over `scancode_to_keycode`, `sync_modifiers` and the
key map). Once `down` the system is stopped and `Promise` itself is kept.
`Kept` derives the promise from `Progress`, because going through more codes never
takes back a character. `KeyboardAssumption` says which keys and translations
there are and that the characters contain the symbols these keys produce.

`FileTableProofs` proves, for any number of descriptors and files,
`FileInvariant` (`FileSpec => []FileInv`): types, `OwnedIsLive` and
`CountIsHolders` together, since none is inductive alone. That a held
descriptor's file is open needs the count, which is at least 1 while somebody
holds the file; that the count is exact needs that a file handed out by an open
is nobody's, which is again `OwnedIsLive`. There is one lemma per operation
(`Opened`, `close`, `dup2`, `read`), over lemmas about the cardinality of the set
of holders when one descriptor is added to it or taken away, and one about the
least free descriptor, which exists by well-foundedness. `HeldFilesOpen`,
`CountsExact` and `FilesTyped` are its parts, and `HeldFilesUndisturbed`
(`FileSpec => Undisturbed`) follows step by step from it.

`StorageProofs` proves all four invariants of `Storage` for any disks, partition
tables, directories and any number of mounts and open files. The inductive invariant
`StorageIInv` is `StorageInv`, which stands beside the model, with the types of the
open files. Its parts lean on each other: what a mount has printed is its own table
(`ShownOK`) because, as long as the page number it remembers is current and the sector
of that page can be read, the buffer holds that sector (`CacheOK`, kept by the lemma
`EntryRead`, which goes through the failed reads that `fat16_read_entry` does not notice);
its geometry is its own because the shared `boot_block` is overwritten before it is read.
What a read of the directory returns does not depend on the buffer the mounts share:
the pages it goes through are all read again, so the listing of few pages is a start of
the listing of more (`ListedStarts`), and the entry at a position is the same whichever
page ended the loop (`EntryFound`). The recursive functions of the model (`Looking`,
`ListedUpTo`, the flattened pages) are shown to exist and to have their values by
`NatInduct`. That a read stays inside
needs what a word does to a sum: below the limit it is itself (`WordFits`), beyond it
it wraps once (`WordWraps`), and the block that `partition.c:32` lets through because
its sum has wrapped is `WORD - 1`. `StorageAssumption` says what the numbers in a sector
are, and that no more table entries are looked up than a page has or that the tables
are of at most a page of sectors each: otherwise `fat16_read_entry` indexes past the page
(its offset is a remainder by that field), and what it returns is not in the model. The
code looks up 10 (`LOOK`) and a page has 256.

`TerminalProofs` proves the three invariants of `Terminal`, `TheWindowIsKept`,
`TheEchoIsTheLine` and `TheCommandsAreTheLines`, for a window and buffers of any
size, any scripts and prompt, any number of keys and of nested shells. The
inductive invariant `TerminalInv` has four parts.

- `StateInv` types the variables and adds to the type of the console that the frame
  buffer is blank below the window (`Screens`): that is `WindowKept`, and it has to be
  carried through every escape sequence, since the prefix numbers that move the cursor
  are any naturals and only `Clamped` holds the cursor back. There is one lemma for
  each function of `virtual_console*.c` (`Scrolled`, `CursorMoved`, `BackspaceOK` and
  the like), and they are combined by state and character.
- `EchoInv`: the edited line lies on the screen from `start` to the cursor, and it
  lies in one row (`Len(s) <= cur_col`), which `EchoIsLine` does not say but erasing
  needs: `move_cursor` to the left does not go back over the edge. A key whose character
  reaches the edge has a newline put into the line, and then `odd` holds.
- `ScriptInv`: each shell's stream is a part of its script (`StreamInv`); a shell that
  waits, for its next turn or for a shell that it started, stands at the beginning of
  the line that it runs next (`Waits`); while `fgets` reads, the buffer holds what lies
  between there and the stream's position (`Fills`); and when it is done, the words
  that are cut and the rest that is not are that line (`Runs`). The position is
  determined by `off`, which is ahead of the shell by what is left in the
  stream's block.
- `LineInv` says the same of the line that was typed and of `stdin`, which the
  interactive shells share: nothing of it is left when another line is read.

`Cut` is the invariant of the loop that cuts words: where each word starts in the line,
that no start was passed over, and that the rest is what follows the last one. The
lemma `CutBegins` starts it, `CutGoesOn` keeps it in `CutWord`, and `CutEnds` derives
`AreWords` from it when the rest is empty, begins with the newline or the words are
`MAX_ARGC`. `NthLine` is a recursive function over line numbers; that it has
its values, and that the line a shell runs next begins where the last one ended
(`LineStarts`), is shown by `NatInduct`. It is not enough to speak of the
current shell: after `exit` the outer shell goes on, and so `Waits` has to hold of all
the shells below the last one (`Stack`).

`NetProofs` proves the three invariants of `Net`, `TheListsAreSound`,
`FramesAreReadOnce` and `RequestsAreAnswered`, for rings of any size, any number of
sessions, frames and refreshes. It starts with the lists of `list.h`: `Chain` says which
entries `next` goes through, `Backs` that `prev` goes back through them, and `Leaving`
and `Joining` what is true between the stores of `list_del` and of `list_add_tail`;
`Bypasses`, `Removes`, `Attaches` and `Adds` take a list through each store, and
`EntriesAre` and `RingIs` lead from there to `Entries` and `IsRing`. The inductive
invariant `NetInv` has these parts.

- `SessionInv`: one thread of `net_test` at most is alive, and the shell waits for it.
  That is all that keeps writers apart, since `pcnet32_write` takes no lock.
- `TxInv`: the transmit side is in one of a few states. With nobody sending, the
  free list is the ring from `cur_tx` on and the busy list is empty. A writer that has
  taken the entry leads from there, store by store, to the busy list (`Taking`,
  `Queueing`), the send loop to the card (`Giving`) and, once the card has sent it, to
  the end of the free list (`Freeing`), which is the ring from the next slot on
  again (`Rotated`). Each state says what `asked` is to `wire`, so that `Answered`
  and the transmit part of `ListsSound` are read off.
- `RxInv(s)`: the collector list has the entries `s`. The reader works on the first
  of them and the receive loop behind the last; a frame that a reader has taken off
  and one that the loop is about to add are different and on no list. It holds as long as
  the two have not met (`Met`), and this is where that is needed: `CollectLinkRx` and
  `DecollectUnlinkRx` fail when both are among the stores, `ScanRx` when the loop finds
  the frame that the reader is giving back.
- `ReadInv`: a frame is in one slot, or in the buffer, or among those taken.

There is one lemma for each store and each part (`BusyAttached`, `FreeRemoved`,
`CollectStoreRx`, ...), lemmas by which a part is kept by a step it does not see
(`TxKept`, `RxKept`, `ReadKept`), and one lemma for each step (`ScanStep`, `ArpStep`, ...)
that puts them together. The recursion with which `PcnetInit` fills the free list has
a solution and the right one by `NatInduct` (`FillExists`, `FilledIs`).

Assumptions: `SchedAssumption`, `SyncAssumption`, `TimerAssumption`,
`CharQueueAssumption`, `UartAssumption`, `KeyboardAssumption`,
`FileTableAssumption`, `StorageAssumption`, `ConsoleAssumption`,
`TerminalAssumption`, `PcnetAssumption`, `NetAssumption` (stated with the constants). `TerminalAssumption` says that what is
written and read are characters in `Glyphs`, that no key sends an escape character or
a newline of its own accord, and that no script is called like the console.
Only model-checked: `Scanf`, whose property compares two ways to compute the same data; `Avl` and
the modules over it, which use recursive operators on trees; everything about
liveness (`NoStarvation`, `DelayEnds` and their like), which the prover does not
reach.
