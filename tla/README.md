# A verification of MTask and its log-structured file system

The repository is MTask, a small preemptive kernel for the PC (`src/src`,
`src/include`, documented in `src/doc/MTask.html`), with a log-structured file
system (`fs.c`) added to it and a set of programs that exercise both. This
directory holds TLA+ models of its parts, the TLC configurations that check
them and the proofs of what matters most.

Line numbers below are those of the files in `src/src`; "doc" is
`src/doc/MTask.html`.

## 1. Inventory

| Part | State it keeps | Operations |
|---|---|---|
| Task queues (`queue.c`) | doubly linked lists of tasks by priority; the time queue, where each task holds the ticks that separate it from the one before | `mt_enqueue`, `mt_dequeue`, `mt_getlast`, `mt_peeklast`, `mt_enqueue_time`, `mt_dequeue_time`, `mt_getfirst_time` |
| Kernel (`kernel.c`) | the fields of every task, `ready_q`, `terminated_q`, `mt_curr_task`, `mt_fpu_task`, `ticks_to_run` | task life cycle, `Suspend`, `Ready`, `SetPriority`, `Delay`, `Atomic`, `DisableInts`, wait queues, messages, the scheduler and `clockint` |
| Interrupt entry and exit (`interrupts.asm`, `irq.c`, `libasm.asm`) | `mt_int_level`, the flags saved on each stack, the interrupt controller | `common_handler`, `mt_int_handler`, `eoi`, `mt_context_switch` |
| Coprocessor (`math.c`) | `mt_fpu_task`, the TS bit, `math_data` of each task | `math_handler` on exception 7 |
| Semaphores, mutexes, monitors, conditions (`sem.c`, `mutex.c`, `monitor.c`) | a count, an owner and its nesting, and a task queue | wait (for ever, not at all, with a timeout), signal, flush, enter, leave |
| Pipes and message queues (`pipe.c`, `msgqueue.c`) | a circular buffer with its indices, a monitor or semaphores | get and put, each in three forms |
| File system (`fs.c`) | the log on the disk, the buffer of its end, the checkpoint region, the maps of inodes | `fs_init`, `fs_mkfile`, `fs_remove`, `fs_sync`, `fs_run_gc`, lookups |
| Disk (`disk.c`) | sectors | `ata_read`, `ata_write` through ports |
| Keyboard (`keyboard.c`) | modifier and lock keys, an E0 that was seen, the layout, a message queue of scan codes and one of characters | `kbdint`, the task that translates scan codes, `mt_kbd_getch`, `mt_kbd_setlayout` |
| Allocator (`malloc.c`) | a circular list of free blocks, and where the last search ended | `malloc`, `free`, `morecore` |
| Programs (`filo.c`, `sfilo.c`, `afilo.c`, `xfilo.c`, `camino.c`, `camino_ns.c`, `prodcons.c`) | forks, lanes, buffers | philosophers with semaphores, messages, Atomic and a monitor; cars on a one-lane bridge; producers and consumers |
| Shell, console, printing, C library, boot | text, screen memory, descriptors | not modelled (section 7) |

How they interact. Everything runs on one CPU. Tasks call the kernel, which
protects its lists by disabling interrupts and switches tasks inside
`scheduler()`. The clock interrupt wakes tasks of the time queue and charges
the time slice; a device interrupt signals a queue through the same calls that
tasks use. The way out of the outermost interrupt selects a task. Semaphores
are built from a wait queue, mutexes and monitors from semaphores, pipes from
a monitor and message queues from semaphores and mutexes. The file system is
called by the shell's task only and goes straight to the disk.

What is hard:

* a task can lose the CPU inside a call, with interrupts disabled or not, and
  each task has its own interrupt level while the flag of the CPU is one;
* a wait can end in four ways (signal, flush, `Ready`, timeout) that race, and
  its result is a field that others write before the task reads it;
* wakeups happen where nothing may be scheduled (inside a handler, inside an
  `Atomic` section) and must be made up for later;
* priorities change while tasks are linked in lists ordered by priority;
* the time queue stores differences, so that a slip in one place moves every
  later wait;
* `DeleteTask` is made of three separate steps, and `DeleteQueue` of two;
* the coprocessor changes hands lazily, through an exception;
* the file system writes its checkpoint and its log separately;
* the keyboard's handler cannot wait, so that codes may be lost, and what a key types
  depends on the codes of other keys that are still in a queue;
* the allocator's list is searched from wherever the last call ended, and joined with
  an empty block whose place the linker chooses.

What makes each part correct: for the queues, that lists, fields and states
agree and waits end when they were asked to; for the kernel, that the best
ready task runs, that cooperative mode is respected, that results of waits are
true only when granted, that senders and receivers meet; for locks, mutual
exclusion and no lost wakeup; for channels, that what is put is got once and in
order; for the file system, that a mounted disk is a state that was saved; for
the keyboard, that what is typed is what the keys said when they were pressed;
for the allocator, that blocks are disjoint and nothing free is out of reach.

## 2. Modules

| Module | What it is |
|---|---|
| `OrderedQueue` | insertion in, and removal from, a list kept by a key: the loops of `mt_enqueue` and `mt_dequeue` as operators on sequences |
| `Timers` | abstract: tasks due in order, the clock counts each of them down |
| `TimeQueue` | the time queue as it is: the list of differences, with the scan of `mt_enqueue_time` one comparison at a time, and `clockint` one wakeup at a time; implements `Timers` |
| `OrderedQueue_proof` | lemmas on the operators of `OrderedQueue`, and that a set of naturals has a least one |
| `Standalone_proof` | the theorems on the three parts modelled on their own: the time queue, the file system and the heap |
| `Kernel_proof` | what every operator of `KernelState` makes of the kernel's data, and the theorems on the kernel |
| `SyncState_proof` | what semaphores and wait queues do, what a semaphore used as a lock keeps, and lemmas on circular buffers |
| `Streams_proof` | the theorems on the two streams that programs read, the pipe and the keyboard |
| `MsgQueue_proof`, `Philosophers_proof`, `Bridge_proof` | the theorems on these modules, over `SyncState_proof` |
| `KernelState` | the kernel's data as one record, and the operators that calls are made of (`Enqueue`, `Block`, `MakeReady`, `Select`, ...) |
| `Kernel` | tasks, the clock, a device, and the scheduler; uses `KernelState` and `OrderedQueue` |
| `SyncState` | semaphores and wait queues as tasks see them, from above the kernel; what the modules below are built on |
| `Channel` | abstract: items come out once and in the order they went in, within a capacity |
| `Pipe` | a pipe with its monitor and two conditions (`pipe.c`, `monitor.c`); implements `Channel` |
| `MsgQueue` | a message queue with its semaphores and mutexes (`msgqueue.c`, `mutex.c`, `sem.c`); implements `Channel` |
| `Dining` | abstract: philosophers hungry, eating, thinking; no two neighbours eat |
| `Philosophers` | `filo.c`, `sfilo.c`, `xfilo.c`, `afilo.c`; implements `Dining` |
| `Bridge` | `camino.c` and `camino_ns.c`: cars, sensors, barriers and the task that controls them |
| `FileStore` | abstract: a set of named files, and the copy of it that a restart returns to |
| `Lfs` | the log-structured file system of `fs.c`; implements `FileStore` |
| `Typewriter` | abstract: a key types what is printed on it for the modifiers and locks in force when it goes down |
| `Keyboard` | `keyboard.c`, between the keys and the programs that read; implements `Typewriter` |
| `Allocator` | abstract: blocks that share nothing, refused only if no free stretch is long enough |
| `Heap` | `malloc.c`, one comparison at a time; implements `Allocator` |
| `MC*` | instances for TLC: the values of constants that a `.cfg` cannot write, symmetry, constraints |

A definition whose comment says *Faulty variant* is not part of any
specification: it is a plausible mistake in the code, kept beside the
definition it would replace, with which the property it is about was seen to
fail.

## 3. From code to model

### Time queue (`TimeQueue`, `Timers`)

The queue of `queue.c` stores with each task the ticks that separate it from
the one before it. `EnqueueTime`, `ScanNext` and `Link` are the three parts of
`mt_enqueue_time`: the call, one comparison of its loop, the insertion.
`DequeueTime` passes the ticks of a task that leaves on to the next one.
`ClockInt`, `WakeHead` and `ClockEnd` are the decrement, the loop and the end
of that part of `clockint`. `MsecsToTicks` keeps the arithmetic of the code:
the sum wraps at the width of an `unsigned` before the division, so that a
wait within 20 ms of 2^32 ms becomes one of almost no ticks (kernel.c:98). The
instance uses a word of 8 bits, in which the waits it asks for do not wrap;
`NeverEarlyHolds` says what is true in general: no task is woken early *if no
wait wraps*.

### Kernel (`KernelState`, `Kernel`)

An action is a stretch of code that runs with interrupts disabled: between
`DisableInts` and `RestoreInts`, within a handler, or up to the context switch
in `scheduler()`. `switched` holds the tasks that lost the CPU inside
`mt_context_switch`; they go on there (`Resume`), while a task that an
interrupt took the CPU from goes on where it was. The loops of `FlushQueue`
and `clockint` take a step for each task (`op`), still with interrupts
disabled. `iflag` is the flag of the CPU and `eflags` the ones saved on each
stack: `disint` is per task while the flag is one, and what the code does to
reconcile them is what `InterruptFlag` checks. `frames` is the internal stack
of nested handlers. The priority queues are sequences with the insertion and
the removal of `mt_enqueue` and `mt_dequeue`; the ticks left are absolute in
`left`, which is what `TimeQueue` implements `Timers` for.

Tasks call anything at any moment (`calls` says which calls a run puts
together), with two restrictions that the code leaves to its users: nobody
holds the handle of the null task, and nobody but the deleter uses a task or a queue once
`DeleteTask` or `DeleteQueue` on it has begun. Memory of a deleted task is not
handed out again. A message is abstracted away: what matters of it is who meets whom.

The exception of the coprocessor is one step (`UseFpu`), although the `Malloc` in `math_handler`
(math.c:23) may enable interrupts before the owner is changed. Inside the exception
`mt_int_level` is not zero, so that an interrupt taken there switches no task, and no handler
looks at the coprocessor; the switch is made on the way out, as by an interrupt that comes
right after. The allocations of `CreateTask` are one step too: until it returns nobody else has
the handle of the new task.

Three things were seen on the way that are not properties of the model:

* `DeleteTask` gives up the coprocessor (lines 209-210) before it disables
  interrupts. The deleter may lose the CPU in between, and the task it deletes,
  alive until line 220, may use the coprocessor and own it again. The deleter
  then frees a task that `mt_fpu_task` names. `Kernel` reaches that state (the
  value `"released"` of `at` is the window), which is why `LazyFpu` leaves the
  window out and no property says that the owner exists.
* The documentation says that every task in `TaskDelaying` is in the time
  queue (MTask.html:375-378); one in `Delay(FOREVER)` is not. And it says that
  a task that runs with interrupts disabled is in non-preemptive mode
  (MTask.html:567-569); no interrupt takes its CPU, but a signal it sends that
  readies a task of higher priority does.
* A task that a signal has granted its wait and that is then suspended and
  readied again by others before it runs reads `success` as false, although
  the comment on `SignalQueue` says it completes `WaitQueue` with success
  (kernel.c:505-506). `TrueMeansGranted` therefore has one direction only.

### Semaphores, monitors, pipes and message queues

`SyncState` looks at the kernel from above: a task that is not waiting may take
its next step at any moment. That is more than the scheduler does, so safety
found there holds under any priorities. `WaitSem`, `SignalSem`, `WaitQueue`,
`SignalQueue` and `FlushQueue` act on one record, and a timeout takes a task
out of its queue with `success` false. The result of a wait is forgotten once
it is read (`Returned`), so that it does not multiply the states.

`WaitCondition` leaves the monitor and waits in one step, since the code does
both in an `Atomic` section (monitor.c:137-142); a task that is woken enters
the monitor again in a step of its own, where it can block.

`Pipe` and `MsgQueue` write reading and writing once, over the semaphores and
conditions of their side. In `MsgQueue` a device may put messages from its
handler with `PutMsgQueueCond`, as `kbdint` does, and `Disciplined` is what the
comment of msgqueue.c:34-36 asks of users: a side shared by several tasks has a
mutex. All four combinations of mutexes and every admissible set of users are
initial states.

### Philosophers and bridge

`program` chooses in `Init` which of the four (two) programs runs; the tables
of `philosopher` and `camino`/`camino_ns` say which actions each is made of.
The programs are modelled from their start until the key that ends them is
pressed. xfilo wakes a hungry neighbour at most once a meal for each side by
construction (it tests with `if`).

In `Bridge` a loop that waits for a cell with `Yield` is a step enabled when the
cell is empty. All delays have the length `TDELAY`, so that they end in the order
they began: a tick ends some prefix of them. `Tick` is enabled only when no
task can go on, because what the tasks do between two clock interrupts is far
shorter than `TDELAY`. This is part of what makes the programs right: with a tick
at any moment the two directions can meet (control may not have read of a car
that has already gone from the sensor to the barrier), so their safety rests
on timing. `Told`, `Between` and `Occupies` say in terms of the cars what
control's counts and the cells must be.

### File system

`Lfs` counts addresses in blocks (`lnode`s) from `lstart`. `Null` is the address
(0, 0), which is the checkpoint itself and reads as zeros; `Astray` is an
address in memory that was not initialised; `Junk` is memory that never was a
block. A name is a path. There is one shell, so that a command is one action;
the two halves of `fs_sync` are commands too, and the machine may restart
between any two commands (`Reboot`). `saved` is the checkpoint as
`__load_checkpoint` gives it back.

Whether the text of one path occurs in another (`Within`) and which directory a path is
in (`Parent`) are given apart, because the code takes one for the other: `fs_remove` nulls
every entry with the text in it (`strstr`, fs.c:439). `FileStore.Remove` takes what is
`Inside`, as the header promises; `ImplementsStore` allows for the difference as `RemovesMore`, exactly and by
name, and section 5 has the run in which it shows. The last element of the loop, one entry past
the table, is `lstart`, whose first byte is a tab: no path is found in it.

`__get_parent_filename` ends the text of the parent where the path ends (fs.c:393) and not where the parent does,
so that what the heap held shows in between. `Misread` gives the paths it may be read as; in
the instance the parent of `/a/b` may be read as `/ab`. That it returns -1 for a path without a
slash, and `fs_mkfile` does not look (fs.c:283), is not modelled: the paths of the model begin with one.

`fs_run_gc` is not one action but as many as it moves blocks. `gc` holds its local
variables: the block it looks at next, how many are left, the block it is moving and
what `prev` and `inoden` hold. `GcWalk` looks at one block, `GcMove` moves one (the
inner loop, up to a map), `GcEnd` is the `fs_sync` at its end and `GcSave` the first half of it.
No other command runs meanwhile,
but the machine may restart after any of them. Past the blocks there is no type the
inner loop knows, and the model stays there until the restart. `fs_creat` may be cut off as well
(`fs_creat_cut`): after its loop has written the one sector it wipes, or between the two writes of its
`fs_sync`.

`fs.c` leaves much unguarded. `sound` is a history variable that becomes false
when something is done that the code does not defend against, and the promise
of `FileStore` is made for as long as it holds:

* a file is made in a directory whose own blocks are still in the buffer
  (`fs_mkfile` reads it from the disk), or another directory is read as its parent;
* more than the buffer's twelve blocks are staged without a sync, or the log
  comes round to its start;
* `fs_creat` is called with blocks in the buffer, or with heap memory that is
  not clean, or the machine restarts before it is done;
* `fs_run_gc` is called with blocks in the buffer, with a length beyond the end
  of the log (it compares with what is on the disk and would lose the root), with a block in the
  log that was never written, or it moves more than the buffer holds;
* the machine restarts between the two writes of `fs_sync`: the checkpoint is
  written first, and names blocks that are not there yet.

Seen and not run: `fs_fexists` uses the result of `strcmp` as if it were true for
equal names (fs.c:132); `fs_remove` leaves the name and its number in the table;
blocks read are never freed; a file's text is copied as 64 bytes whatever its
length.

### Keyboard

`Keyboard` has the keys (`down`, `last`, `sending`: what the hardware does when a key goes
down, repeats or goes up), the interrupt handler (`kbdint`, which accepts a code or finds
`scan_mq` full and loses it), the task (`Translate` takes one code through `make_break`
and `map_key`; `PutChar` puts one character of what it types, and waits while `key_mq` is
full) and the programs (`getch`, `mt_kbd_setlayout`). `kbd` is the driver's static
variables: `esc`, the flags of the keys that are held, and `locks`; `ctrl`, `shift` and
`alt` are the disjunctions of their two flags and are not stored. The queues are taken as
the channels `MsgQueue` is shown to implement: a handler puts one code or none, the task
waits.

`kbd_name` stands for the two variables of the layout, the name and the keymap, which
`mt_kbd_setlayout` changes together. `KeyboardAssumption` is what the two keymaps of the repository
are: a modifier or lock key has one value, in every column of both, that no other key has, and 96 is an `EXTKEY`;
no two keys have the same flag, and keys with the same such value share their scan code unless they are the two
shifts.

`After` is what the driver will hold and have typed once what is queued is translated,
with the functions of the driver itself, one code at a time (`Step`, `Translated`). `ImplementsTypewriter` maps `locks` and `text` of
`Typewriter` to it, so that it says that the delay between a key, its interrupt, its
translation and its reading does not show. It is promised as long as no code is lost.
`ModifiersFollow` says what is left of it after a loss: `whole` holds the modifier and
lock keys whose codes arrived since the last loss that could concern them (a loss
concerns the key itself, the one that shares its scan code, and, when an E0 was left
alone, the next key to send anything), and for those the flag is right.

The keyboard that is assumed sends plain codes with an E0 for its extended keys; the
fake shifts that some keyboards wrap around cursor keys, and the Pause key, are not part
of it. The rows of the keymaps are copied to `MCKeyboard` for the keys of the instance.

### Allocator

`Heap` counts addresses in headers. `malloc` begins a search; `TakeExactly`, `TakeTail`,
`TooSmall`, `NoneLeft` and `morecore` are the turns of its loop; `free` begins, `Skip` is
a turn of its loop and `LinkIn` the insertion with both joins; the `free` inside
`morecore` is the same code with another value of `doing`. Headers that are user memory again are
reset to one value (`Headers`), because nobody may look at them.

The empty block `base` is a static variable that the linker puts before the heap or
after it; both are initial states. Compiled as the makefile does, without
optimization, it comes right after the last unit of the heap. Then the last block, when
it is freed, is joined with `base`, which leaves the list for good, and the list is no
longer protected against becoming empty: see section 5. `spent` is a history variable
that records when that happens, and the promises of `Allocator` are made until then.

## 4. What the runs check

| Run | Instance | Question |
|---|---|---|
| `time_queue` | three tasks, waits of 1, 2 and 3 ticks | do the differences encode what is left, and do waits end when asked? |
| `kernel` | four tasks (two are `main` and the null task), two priorities, slice of 1 tick, nesting of handlers 2; four sets of calls, the last of them with waits of 1 and 2 ticks or for ever | scheduling, `Atomic`, `DisableInts`, changes of priority; deletion, messages, coprocessor; deletion of queues; what a wait returns when its ends race |
| `kernel_time` | four tasks, fairness | every wait ends; equal priorities take turns |
| `pipe` | two readers that take all there is, a writer of one or two bytes, a pipe of two | exclusion, no lost wakeup, bytes in order |
| `message_queue` | two getters, a putter, a device, two places; mutexes or not | places conserved, mutexes agree, messages in order, who waits is served |
| `lfs` | a log of 16 blocks, a buffer of 8, four names, a directory of one entry | does the file system implement a store whose saved copy changes as a whole? |
| `lfs_round` | the same, without the constraint | a *violation*, section 5 |
| `lfs_remove` | the same | a *violation*, section 5 |
| `philosophers` | the five philosophers of the programs, the four programs | forks, wakeups, progress |
| `bridge` | three cars against one, two cells of approach, one cell of one lane, `pass_max` 1 | never two directions on the lane; counts; traffic flows; nobody starves |
| `keyboard` | five keys, two held at a time, a queue of two codes and one of a character, two layouts, one code lost | is what the driver holds and types what the keys say? |
| `heap` | seven units, requests up to four, `base` before and after | does every unit belong to one block, do calls fail only when they must, do the loops end? |

Properties, by what they relate:

* `DeltaEncoding`, `ImplementsTimers`: a list of differences and the waits it
  stands for, step by step. `NeverEarly`: milliseconds asked for and ticks
  waited. `WaitsEnd`: no wait is lost in the list.
* `QueuesAgree`, `StatesAgree`: the fields of a task, its state, and the list it is
  linked in. `FirstComeFirst`: the order within a list, across changes of
  priority of others. `PriorityScheduling`: what was deferred by an interrupt, an
  `Atomic` section or a call is made up for by the time a task's code runs.
  `InterruptFlag`: nesting of each task and the flag of the CPU.
  `AtomicKeepsCPU`: who can take the CPU from a task in cooperative mode.
  `NobodyStranded`, `LazyFpu`: nobody is left in a queue that is gone; the
  coprocessor's registers belong to who uses them.
* `TrueMeansGranted`: the result of a wait against the history of signals.
  `RendezvousMeets`: a sender and a receiver that match do not both wait.
* `TimedWaitsEnd`, `RoundRobin`: under fairness.
* `MutualExclusion`: one task in the monitor, which is its owner, around waits for
  conditions. `NoLostWakeup`: nobody sleeps on what it waits for.
  `PlacesConserved`, `MutexAgrees`: counts of semaphores against where tasks are.
  `ImplementsChannel`: nothing lost, doubled or reordered. `Served`: who can be
  served is.
* `ForksAgree`: `in_use` against who holds forks, also those handed to a neighbour
  that is still asleep. `WakeupDue`: nobody sleeps beside two free forks.
  `ImplementsDining`, `FeastGoesOn`.
* `OneWay`, `CountsAgree`, `CellsAgree`: cars, cells, barriers and the counts of
  control. `Flows`: traffic stops only for the circular wait below.
  `NoStarvation`: in `camino_ns` the side that waits gets the bridge.
* `TreeClosed`: names, inode numbers, directories and what they list. `ImplementsStore`: what
  was made is read back; a restart gives what was saved; collecting garbage
  changes nothing; removing takes what is inside, and nothing else but what has the same text
  in its path.
* `ModifiersFollow`: flags of the driver and keys held down, with codes on their way and
  after a loss. `ImplementsTypewriter`: keys and characters, in order and whole.
* `Partitioned`: blocks in use, the free list and the heap. `ImplementsAllocator`: no
  block shares a unit with another, and what was freed in pieces is found again as one.
  `CallsEnd`: the loops over the circular list end.

`TimeTypeOK` is checked of `TimeQueue`, where it says more than the types of the variables
(no count of ticks goes below zero). Those of `Kernel`, `Pipe`, `MsgQueue`, `Philosophers` and `Keyboard`
are proved (section 6) and not checked; the other modules state theirs for the reader.

### Bounds, and why they are enough

* Three tasks in the time queue give a wait before, between and after the others,
  and equal ones; waits up to three ticks make the scan pass tasks, stop at equals
  and stop at later ones. The proofs remove this bound.
* In the kernel, two tasks besides `main` and the null task make a queue with
  somebody in the middle and let one task delete another that waits to send to a
  third; a slice of one tick makes every tick end it; two levels of interrupts are
  a handler and one that interrupts it. The blocking calls (`MCBlocking`) need
  two live tasks to race and a third party, which is the device: the constraint `Instance` leaves the last task
  unborn there and handlers one deep, and keeps waits with a timeout out of the other
  sets of calls. Two priorities are one better and one worse than another; `main` has one of them from the start
  and the others are made with either. `MaxNest` 1: levels above one differ only in a counter.
* A pipe of two bytes has states empty, partly full and full, and comes round.
* Two getters make a mutex contended; the putter and the device are the two kinds of
  producers.
* A log of 13 usable blocks holds a root (three), two files (six) and one more
  operation; nothing is shorter that mounts a directory with a file in it. The runs
  stay within three inode numbers (`MaxInoden`).
* Five philosophers are the ones of the programs.
* On the bridge, an endless stream one way takes three cars on a road where two fit
  before the barrier; with fewer cars or a shorter approach the stream breaks by
  itself and `NoStarvation` would hold of any control. In this instance it fails, as it
  should, of a `DecideNs` that does not look at `passed` (a search of two minutes). One
  cell of one lane and two cars fill the stretch, which is the longer form of the
  circular wait.

* Of the keys, one of every kind that the driver treats in a way of its own: a modifier, two
  modifiers that only an E0 tells apart, a lock, a key with an E0 that types three
  characters and shares its code with the numeric pad. Control and caps lock go through the
  same operators. Two codes are one key of two codes, or two keys; a lost code leaves
  either an E0 alone, or the code after it. The proofs remove this bound.
* Seven units hold three blocks of the least size with a gap, one above all of
  them, and blocks of up to four units that only joined pieces can make room for; the list
  has up to four blocks besides `base`. The proofs remove this bound.

`Symmetry` is used where no liveness is checked and tasks are alike.

`CHECK_DEADLOCK FALSE` is given where the program may really stop: in
`message_queue`, when everybody that uses the queue waits on one side of it; in
`bridge`, in the circular wait; in `heap`, once `spent`. In all other runs the absence of deadlock is
checked as well.

### Fairness

* `kernel_time`: handlers and the loops in `op` run to their end because interrupts
  are disabled (weak fairness of `KernelStep`); a task that has the CPU goes on with
  the call it is in (weak fairness of `GoesOn`); the timer is periodic, so an
  interrupt comes again and again unless tasks keep them disabled (strong fairness of
  `TimerInt`: it is disabled for a moment by every handler).
* `message_queue`, `philosophers`: a task in the middle of a call goes on,
  as `RoundRobin` says of tasks of equal priority, and delays and timed waits end,
  as `TimedWaitsEnd` says. Nobody is ever obliged to begin a call: a getter may wait
  for ever for a message that nobody puts.
* `bridge`: something goes on while something can (weak fairness of `Works`), which is
  all it takes, because tasks do finitely much between two ticks and a tick waits for
  all of them. No car need be sent.
* `heap`: a call that has begun goes on (weak fairness of the turns of its loops).
* `time_queue`: `mt_enqueue_time` and the loop of `clockint` run to their end, with
  interrupts disabled; the clock, disabled while they do, comes again and again
  (strong fairness of `ClockInt`).

## 5. What does not hold

Two of these are runs; the others show when the instance named is changed as said, and
are the reason for a condition in a property that holds.

* **A reader can sleep on a pipe that has bytes** (`NoLostWakeup` with `Sizes <- MCAny` in
  the place of `MCDrain` in `Pipe.cfg`, and without `MCTakesAll`).
  `PutPipeTimed` signals one reader, and only if the pipe was empty; a reader that
  leaves bytes behind does not pass the signal on (pipe.c:144). Two readers asleep,
  a write of two bytes, the first reader takes one: the second sleeps, and no later
  write wakes it until the pipe has been empty. With readers that take all there is
  the property holds (`pipe`, and for every instance `NoLostWakeupHolds`). Writers have the mirror image
  of the problem.
* **A sync that comes round loses blocks** (`lfs_round`, `SyncKeepsTree`). The two
  writes of `__sync_log_buf` (fs.c:641) take their lengths from the wrong end of the
  log, and the second one reads from beyond the buffer.
* **Removing takes siblings** (`lfs_remove`, `RemoveKeepsOthers`). The header promises that `fs_remove`
  removes the file or directory with everything in it (fs.h:121). It looks for the text of the
  path anywhere in every path (fs.c:439), so that removing `/a` removes `/ab`.
* **Collecting garbage can lose the root** (`ImplementsStore` without the last conjunct of
  `sound'` in `fs_run_gc`, in `Lfs.cfg` with a log of 24 blocks, a buffer of 12, `FileNames = {sub}` and
  `GcLengths = {10}`). A directory is made and synced, a file is made in it and the directory removed, `fs_sync_cr`
  writes the checkpoint alone and the machine restarts: the log now ends beyond blocks that were never written, and
  no entry names them. They read as zeros, which is the type of a map (fs.h:79). The collector moves the root; its
  entry now names a block that is still in the buffer, and reads as zeros from the disk, so that a block never
  written compares equal to it (`__is_imap_alive`), counts as alive and is moved as a map, for the inode
  number left over from the root, whose entry then names a map of nothing.
* **The bridge of camino_ns can stand still** (`CircularWait`, which `Flows` and
  `NoStarvation` have to allow for, although the doc presents the program as one that avoids
  deadlocks, lines 292-293). Control,
  told that a car arrived on the other side, decides to close the barrier and waits
  in `close_barrier` for its cell to be empty. A car that took the cell at the same
  tick is blocked in `Send` until control receives, and leaves its cell only then.
  With the stretch of one lane full of cars the same happens through a line of them,
  the first of which sends from the last sensor.
* **The allocator can hand out a block twice** (`NeverTwice` with `GoesOn = TRUE` in
  `Heap.cfg`). With `base` joined away, as above, a list of one block is its own
  predecessor: `malloc`, when the block fits exactly, unlinks it from itself
  (malloc.c:82), and `free`, when it frees the block just below, absorbs it and leaves the
  list pointing to it (malloc.c:33-47). The block stays on the list while it is in use, and a
  later call takes it again. With `base` before the heap it cannot happen.

## 6. What is proved

`tlapm` checks the theorems below for all values of the constants that the named
assumptions allow. Each follows the same pattern: an inductive invariant `IInv`, a lemma
for each action, `InitKeeps` and `NextKeeps` (in `Standalone_proof`, `NextTimeIInv`, `NextIInv` and `HeapNextIInv`; for the keyboard, `KeyboardNextIInv`) that put them
together, and `IInvHolds` (`TimeIInvHolds` is that of the time queue, `HeapIInvHolds` that of the heap, `KeyboardIInvHolds` that of the keyboard).

### Time queue

For every set of tasks, every set of waits, every tick and every width of word (assumption
`TimeQueueAssumption`: the tick and the word are positive, and the waits asked for are neither 0
nor `FOREVER`, which are handled before they get to the queue).

* `OrderedQueue_proof`: the position at which `OrderedInsert` inserts exists; insertion and
  removal change the elements of the list by exactly one, keep it free of repetitions
  and ordered, and leave the order of the others alone (`Precedes`); the new element comes before those
  whose key is not less than its own.
* `TimeTypeCorrect`, `DeltaCorrect`: `TimeSpec => []TimeTypeOK` and
  `TimeSpec => [](DeltaEncoding /\ DueOrder)`.
  Neither is inductive by itself, because an insertion takes several steps and so does
  a clock interrupt. `TimeIInv` adds `ScanInv` (while the place of a new wait is looked
  for, the tasks passed are due sooner, and the ticks that remain are those of the
  wait beyond the last of them), `WokenInv` (the tasks a clock interrupt has woken
  were due and have left the list) and `WaitInv` (the ticks of each wait are those
  `MsecsToTicks` gives).
* `NeverEarlyHolds`: if no wait wraps in `MsecsToTicks`, no task is woken before the
  milliseconds it asked for. It needs, besides `TimeIInv`, that rounding is upwards.
* `TimersImplemented`: `TimeSpec => ImplementsTimers`. `StepRefinement` shows, under `TimeIInv`, that
  `Link` is a start of an abstract timer, `DequeueTime` a stop, and `ClockEnd` the tick,
  when the tasks that the interrupt has taken out one by one (`woken`, which the mapping
  keeps at the front of the line) leave together; the other steps change nothing the
  abstract timers see.

### Kernel

For every number of tasks, queues, priorities and delays, every time slice, and every bound
on nesting (`KernelStateAssumption`: the names of the queues differ from each other and from
"none", which is nobody's address; `KernelAssumption`). All the properties of the run
`kernel` are theorems. The invariants are `QueuesAgreeHolds`, `StatesAgreeHolds`, `PrioritySchedulingHolds`,
`InterruptFlagHolds`, `NobodyStrandedHolds`, `LazyFpuHolds`, `TrueMeansGrantedHolds`,
`RendezvousMeetsHolds`, and `TypeCorrect`, which says among other things that no level of `Atomic`
or `DisableInts` is decremented below zero.

They share one invariant, because no single one of them is inductive: a wrong queue
field breaks the scheduler's choice, and a wrong choice breaks the flags. Its parts:

* `DataSound`: the queue field of every task names the one list it is in and lists are ordered
  (`Linked`), its state fits that queue (`Placed`), a sender and a receiver that match are not
  both waiting (`Met`, stated of the sender's queue and not of its state), and the current task is in state
  Current. This part is closed under every operator of `KernelState`, and
  the first part of `Kernel_proof` says of each what it changes and what it leaves (`BlockEffect`, `MakeReadyEffect`,
  `SelectEffect`, ...). In the middle of a call the data are weaker than that: the current
  task may be in a queue already.
* `LoopsAgree`: the loops of `FlushQueue` and `clockint` run with interrupts disabled, the second
  only in a handler, so that nothing else happens until they end.
* `SwitchedDisabled`, `BlockedInside`: a task inside `mt_context_switch` has a `RestoreInts` to come;
  one that blocks is inside it. Without them `InterruptFlag` is not kept by the step that
  returns.
* `VictimsAgree`, `VictimsEmpty`, `GoneEmpty`: what is being deleted is no longer named by
  anybody; once it is flushed nobody is in its queue, although others run between the flush and
  the end; and so it stays when it is gone. `NobodyStranded` is the last of these in terms of lists.
* `FpuAgrees`: `LazyFpu` inside handlers too, with the one exception that a task that deletes itself has given up the coprocessor.

`AtomicKeepsCPUHolds` is the action property: a step that takes the CPU from a task whose
level of `Atomic` is not zero is a call of that task. Its argument is about two states: under `IInv` every call,
wakeup and interrupt leaves data in which the task that runs is either still current or
has itself blocked, ended or yielded, whatever it `Readied`; `SelectStays` shows that the selection
then keeps it, in spite of any better task.

`FirstComeFirstHolds` is the other one: of two tasks of a queue with the same priority, the one that was
behind stays behind, and one that enters goes behind. `LinesUp(d, e, M)` says it of the lists before
and after an operation that moves the tasks of `M`: the others come from the same list in the same order, and
have any task of `M` of their priority behind them. Operations compose, their sets of moved tasks add up (`LinesUpBoth`), and
so a call and the selection after it can be looked at one at a time. What makes a moved task
harmless is that it comes from another queue or from none (`InOrder`). For the task that the scheduler puts back this
needs that the current task was in no queue when the call began; for a task made ready, that it was not among the ready
ones. Only `SetPriority` moves a task within a queue, which is why the property excepts the task whose
priority is set, and no other.

A step is proved in three parts that the lemmas are named after: what the call makes of the
data before the scheduler is called (`Prepared`), what the scheduler makes of that (`SelectMoves`), and
what the flags and the tasks inside the context switch become. `PriorityScheduling` needs
that a call either leaves the current task the best or calls the scheduler, which is where
`AfterAtomic`, `Unatomic` and the way out of the outermost handler come in.

### Semaphores and buffers

`SyncState_proof` says what each operation makes of the record: a task joins a queue (`Joins`), one is woken
(`Wakes`), nobody moves (`Stays`), a semaphore is passed (`Passes`) or raised (`Raises`).
`Locked` is what a semaphore of one keeps when it is used as a lock: at most one task is past it,
counting the one that was granted it and has not run yet, and none while the count is one. The
lemmas on it (`LockAsked`, `LockAnswered`, `LockReleased`, `LockTimedOut`) serve monitors
and mutexes alike. `Window` is the contents of a circular buffer from an index on;
`WindowTaken` and `WindowPut` say that taking and putting work at its two ends, also when
the indices come round.

### Pipe

For every set of readers and writers, every size, every set of bytes that is not
empty, all amounts and waits (`PipeAssumption`).

* `MutualExclusionHolds`. `IInv` has `Kept` (the monitor is `Locked`, and each task waits only where
  its place in the code allows), `PipeTyped` and `Amounts`.
* `PipeImplementsChannel`: `Spec => ImplementsChannel`. It needs from `Amounts` that the task that moves
  bytes has no more than are there or fit, although `avail` is only set afterwards, and that
  `tail` is as far ahead of `head` as bytes are inside.
* `NoLostWakeupHolds`: `Spec => []NoLostWakeup`, if each task is alone on its side or asks for all the buffer
  can hold (`TakesAll`, which the instance of `pipe` satisfies; without it the property is false, see section 5).
  It needs its own inductive invariant, `Awaited`, over `IInv`. `Due`: when a task sleeps while there is something for
  its side, or a task of the other side is about to set `avail` (after its signal), one of the sleeper's side is
  `Coming`: it asked for the monitor for the first time, was signalled with success, or is inside. A signal is only
  sent when the pipe was empty (or full), so the one that is coming has to stand for all sleepers; it stops to come
  when it goes to sleep, and then there is nothing, or when it sets `avail`, and then, by `Whole`, it has taken
  everything. That nobody else is inside meanwhile is `MutualExclusion`.

### Message queue

For every queue length, all sets of tasks that are finite, every set of messages that is not
empty, with mutexes or without them as `Disciplined` allows (`MsgQueueAssumption`).

* `PlacesConservedHolds`: the sum of the two counts and of the tasks in between is
  `msg_max` (`TotalOf`), whatever waits time out. It is about cardinalities of sets of
  tasks, hence the assumption that tasks are finitely many.
* `MutexAgreesHolds`: each mutex is `Locked`; the timed wait for the message, which is given up with the mutex
  held, is the case that takes the care.
* `MsgQueueImplementsChannel`: `Spec => ImplementsChannel`. At most one task of a side is between the two semaphores
  (`OneEach`, from the mutex or from `Disciplined`), so `head` and `tail` are read and written by one task at a time;
  `Behind` relates them to the messages inside, and a getter that has copied holds `buf[head]`.

### Philosophers

For any number of philosophers greater than one (`PhilosophersAssumption`, which also says that
the conditions have different names), and for the four programs at once.

* `ForksAgreeHolds`, `WakeupDueHolds`. `IInv` has `Kept` (the monitor, as in a pipe), `Ways` (who is in
  `hungry` and in `paused`, which depends on the program), `Shared` (the forks in use are those of
  the holders, and no two of these sit side by side) and `Due`. For xfilo
  and afilo a philosopher counts as a holder from the moment a neighbour takes the forks for
  it, while it still sleeps in the monitor's queue or is not scheduled. `Due` survives `SignalLeft` and
  `SignalRight` because the philosopher that is looked at either is woken, or has a
  fork in use, or had it taken for it.
* `PhilosophersImplementDining`: `Spec => ImplementsDining`. Most steps of the monitor change no phase (`Calm`);
  taking forks is `Eat`, by oneself or, in xfilo, by a neighbour for another one; leaving
  them is `Stop`, and in afilo the same step feeds up to two neighbours, one after the
  other, which `Stop` allows since they are not neighbours of each other then.

### Bridge

For any finite set of cars of each direction, any road whose sensors, barriers and stretch of
one lane come in this order, any `PASS_MAX`, and both programs (`BridgeAssumption`;
`NoMsgAssumption`: no message is `NoMsg`).

* `CellsAgreeHolds`, `CountsAgreeHolds`, `OneWayHolds`, `FlowsHolds`, `TypeCorrect`. None of them is inductive. `OneWay` rests on the
  barriers being where control thinks they are, that on no car being under a barrier that
  comes down, and control's decisions on its counts being right; so `IInv` is all of these together,
  and what the last two theorems need:
  * `Letters`: there is a message in the mailbox exactly when control has one to read, and
    at most one sender has been woken and not run (`MailboxAgrees`); in camino_ns, what control
    has in hand and who is in the queue of senders (`MessagesAgree`).
  * `Planned`: what control is about to do with the barriers fits its state; `BarriersAgree`: a barrier
    is up exactly for the directions that control lets in (`LetIn`).
  * `CellsAgree` and `CountsAgree` themselves. From the second, a count of zero means that nobody who
    has told of the first sensor has yet to tell of the next (`CountsMean`). The counts are
    cardinalities, which is why the cars are finitely many.
  * `Zone`: a car between the cell of the barrier and the end of the stretch of one lane has the direction that control
    has given the road to, or that of the barrier that is being closed, or is at the last sensor and has yet to tell
    (`ZoneHeld`); while a barrier is closed in order to open the other one, those who were let in
    are through (`ClosesEmpty`).
* `Tick` is part of the argument. In camino a car may tell of the first sensor after control has
  decided to close its barrier; it is at the sensor then (`ClosesEmpty`), and would be let in uncounted if it
  came to the barrier before control has closed it. No tick moves it on until then: control waits
  for the cell of the barrier only if a car is there, which would be one that is counted (`ClosesAtOnce`).
  `Quiet`, the guard of `Tick`, is a state predicate, so nothing about ENABLED is needed.
* `Flows` needs two more parts. `Settled`: whatever control has decided, it has not left cars waiting unless it lets
  others in (an idle control has counted nobody, one that drains the bridge has somebody on it). `Asleep` and
  `BarriersPlaced`: a car that sleeps is in the list of delays, and barriers are nowhere else. The argument: if nobody
  waits to be told, take the first car of a direction (`FirstCar`). What is in its way is a barrier, and control has
  counted it (`FirstWaits`); by `Settled` the other direction is let in and has been counted too, so it has a
  first car, which is before a closed barrier: a contradiction (`NobodyWaits`). If somebody waits for control, then
  control waits for the cell of a barrier, and the cars from there on form a line up to one that waits for
  control (`LineOfCars`), which is `CircularWait`. That there is a first car, and a last cell of the line, is by
  well-founded induction on the naturals (`Least`), for a set and not for an operator.
* `TypeCorrect`: the counts are between zero and the number of cars. `CountsAgree` gives a count as a cardinality,
  plus or minus one for a message unread; `MailMeans` says whose that message is, hence that the set it is taken
  from is not empty, or not everybody (`CountsBounded`).

### File system

For every size of the log, of the buffer and of the tables, every set of names with the directory of each, every
content, and every length given to the collector (assumptions `LfsAssumption`: the log is at least twice the buffer,
which holds a file and its directory; `NoCpAssumption`: `NoCp` is not a checkpoint). Both
theorems speak of the time in which `sound` holds.

* `TreeAlwaysClosed`: `Spec => []TreeClosed`. Read from the blocks on the disk it is not inductive: what a command made may
  be in the buffer, partly on the disk, or on its way from one to the other. The proof reads
  the file system from `View` instead, the log as it will be once it is synced. A sync leaves `View` as it is
  (`SyncFacts`), and staging a block changes it only at its end. In `View` every block names the one before it
  (`Placed`), so that a file is three blocks in a row (`Chain`), and a checkpoint is `Good` when each of its live entries
  has the last block of such a row, below the end of the log, and the names, numbers and directories agree
  (`Named`, `Closed`, `Listed`). `fs_mkfile` adds two rows and moves two entries (`MadeGood`); `fs_remove`
  takes entries away and no block.
* What was saved has to be good as well, since `fs_init` returns to it: it is, in the same `View`, because
  it names only blocks below what was made since (`Kept`), and what the buffer holds comes after.
* Of a collection, `Walking` says that every live file is either in what was moved or, with its data, beyond the
  block looked at next (`Beyond`), so that none is met between two of its blocks, and that the walk
  does not come to what it moved. `Moving` says, while a file is being moved, which of
  its blocks are at the end of `View` already and that `prev` and `inoden` are theirs. The block that
  `IsAlive` finds alive is then the data of a live file, and after its map the entry of the same file has the new row.
* `StoreImplemented`: `Spec => ImplementsStore`. The files of the store are the entries with the data at the
  start of their rows (`Leads`). By `NextStep`, making a file adds one, removing takes away those `Within` it, which
  are those inside it (`InsideWithin`) and perhaps others, and then it is `RemovesMore` (`RemoveMeets`); a sync
  keeps a copy, a restart returns to it, and no step of the collector changes either; where `sound` becomes false the
  store loses its promise.

### Allocator

For a heap and requests of any size (`HeapAssumption`: both are positive, and no request is larger than the heap), with
`base` before the heap or after it. All three theorems speak of the time before `spent`, after which what they
say is false (section 5).

* `PartitionedHolds`, `AllocatorImplemented`, `NeverTwiceHolds`: `HeapSpec => []Partitioned`,
  `HeapSpec => ImplementsAllocator` and `HeapSpec => [](~ spent => NeverTwice)`. `Partitioned` speaks of the moments between calls;
  `HeapIInv` says of every moment:
  * `Cyclic`: the next of a block is the one above it, with none of the list between, or it is the last
    one and its next the first. This takes the place of an induction along the list: by
    `OnListFact`, which follows the walk up from any block (`Climb`, by well-founded induction on the
    naturals), a walk from any block meets exactly the list.
  * `Tiled` and `Covered`: the blocks, of the list, in use, or in the hands of `free`, share nothing and leave nothing
    out. They do so in the middle of a call too.
  * `Separate`: no free block begins where another one ends. `AllocatorImplemented` needs it: a stretch that is
    free and long enough lies in one free block, hence the search met it before it came back
    to `freep` and failed (`Searching`, `RefuseRight`).
* `LinkIn` is taken in three steps. The block goes to its place, where only the one before it can end at it and only the
  one after it can begin where it ends (`Neighbours`, `PlaceFirst`); the first join leaves at most the touch with
  the one before (`PlaceUpper`, where `base` may drop out of the list); the second leaves none
  (`PlaceLower`). That the only block of the list is not joined or taken is what `~ spent'` gives, and
  it is used in these two places only (`TakeExactlyIInv`, `LinkInIInv`).

### Keyboard

For every set of keys, extended or not, every number of layouts, all sizes of the two queues, any number of keys
held down and of codes lost (`KeyboardAssumption`, section 3).

* `ModifiersFollowHolds`: `KeyboardSpec => []ModifiersFollow`. `KeyboardIInv` adds to it what it needs:
  * `SendingInv`: what the keyboard has left to send is the end of the codes of one key, in the state that key is in.
  * `EscInv`: in step, the driver will wait for a code after an E0 exactly when the keyboard has that code left. A
    code read as it was sent touches the flag of its key (`TouchedRole`), and one read otherwise
    that of a key with the same scan code (`TouchedTwin`), which is why `whole` loses just these (`LastCode`).
  * `LosslessInv`: as long as nothing is lost, the flags are those of the keys held down.
* What is in force is a fold over the codes that are queued. Its laws are lemmas: the last code comes last
  (`TranslatedAppend`), the first one first (`TranslatedTail`, which makes `Translate` invisible), what
  was typed before stays in front (`TranslatedText`), and neither that nor the layout matters for the flags (`TranslatedKbd`). They
  are proved without induction on the sequence: if one failed there would be a first code at which it does
  (`Least`), and it does not fail there.
* `KeyboardImplemented`: `KeyboardSpec => ImplementsTypewriter`. `WholeKey` says what all the codes of a key do when
  no other is awaited: they obey the key and type what it types. The driver looks in the column the
  typewriter looks in (`ColumnAgrees`, `UpperAgrees`: it compares three Booleans where the
  typewriter counts them), and types what is printed there (`LegendAgrees`). Interrupts and translation stutter.

### Only model-checked

* All liveness (`WaitsEnd`, `TimedWaitsEnd`, `RoundRobin`, `Served`, `FeastGoesOn`, `NoStarvation`, `CallsEnd`),
  which is beyond what the proof system does.

## 7. What is not modelled

* Console, printing, the C library, the shell's handling of text: pure output or
  sequential functions that keep no state.
* Boot, descriptor tables, the timer chip, the interrupt controllers: executed once,
  or I/O. The end-of-interrupt command, on which nesting depends, is in `Kernel`.
* The ports of the ATA disk: I/O. A read or a write is one step of `Lfs`.
* The ends of the programs: tasks, conditions and semaphores are deleted one by one
  while others may still use them (xfilo.c:213; in the bridge programs a car that is
  ready but has not run yet is not counted in `ncars`).
* `FlushSem`, the deletion of semaphores, monitors, pipes and message queues; nested
  mutexes; `SetSwitcher`.
* The producers and consumers (`prodcons.c`): two semaphores around a circular buffer, which
  is the protocol of a message queue without mutexes; `message_queue` checks that one.
* The division of a disk access into sectors (`disk.c`): a restart between two of them is
  not in `Lfs`.
* That nobody else allocates while the file system calls `malloc` itself, not `Malloc`: in
  this system the shell's task does both (fs.c:274, 673-751).
* Fake shifts and the Pause key of some keyboards; LEDs, which the driver does not set.
* That a message carries the right bytes: messages are who meets whom.

## 8. Plan

In this order:

1. Extend the model: the division of a disk access into sectors, with a restart between
   them; the ends of the programs; `FlushSem`; nested mutexes; the
   producers and consumers.
2. Extend the proofs with them: `IInv` of `Philosophers` and `Bridge` will have to say who may
   still use what is being deleted, `View` of `Lfs` which sectors of a block are there.
