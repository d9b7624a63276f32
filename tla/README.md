# FlitOS: TLA+ models, TLC runs and TLAPS proofs

FlitOS is a small preemptive thread library (C++ headers in `src/os_kernel`) that runs as the
firmware of a simulated RISC-V game console (`src/riscv-firmware`), together with the cartridge
runtime and a sample game written for it, a test kernel for QEMU, and the console simulator itself
(`src/riscv-sim`). This directory holds the TLA+ modules that model it, the configurations that
check them with TLC, and proofs checked with TLAPS.

To run one check: `tlc -config sync.cfg MCKernel.tla`; to check the proofs:
`tlapm KernelProofs.tla`, `tlapm FilingProofs.tla`, `tlapm OwnerProofs.tla`, `tlapm ChipsetProofs.tla`,
`tlapm LibraryProofs.tla`, `tlapm ConsoleProofs.tla`, `tlapm SimulatorProofs.tla`, `tlapm InstructionProofs.tla`.

## 1. Inventory

| Component | State it keeps | Operations | Interacts with |
| --- | --- | --- | --- |
| Scheduler (`cs251_scheduler.h`, `_impl.h`) | `running_thread_id_`, `ready_list_`, `finished_list_`, `id_tcb_map_` (per thread: state, `preemption_on_`, stack pointer) | create, yield, suspend, resume, exit, join, `inInterruptYield` | called by every other kernel object and by the trap handlers |
| Context switch (`context_switch.s`) | the frames on the threads' stacks, `mstatus` | save and load | scheduler |
| Interrupt nesting (`utils.c`) | the global `nest_critical_cnt`, `mstatus.MIE` | `enable_interrupts`, `disable_interrupts` | switch, trap handlers |
| Mutex (`cs251_mutex.h`) | `owner_`, `waiting_list_` | try_lock, lock, unlock | scheduler (suspend, resume) |
| Condition variable | `waiting_list_` | wait, notifyOne, notifyAll | mutex, scheduler |
| Sleep timer (`cs251_timer.h`) | `systick_` | sleep, updateTick | a mutex and a condition variable; called from the interrupt handler |
| Trap handlers (`startup.c`, `interrupt.s`) | the trap frame | interrupt, 30 system calls | all of the above |
| Thread-safe queue, pipe (`cs251_thread_safe_queue.h`, `cs251_pipe.h`) | a deque, a mutex, a condition variable | enqueue and dequeue of one or many, read, write | kernel objects; threads and system calls |
| Factories (in `cs251_mutex.h` and the like) | `seq_id_`, a map from ids to objects | create, destroy, and every use by id | threads, system calls |
| Containers (`ecs_queue.h`, `ecs_list.h`, `ecs_map.h`, ...) | ring buffer with its indexes; linked list; ordered map over it | push, pop, resize; insert, erase, search | every list of the kernel |
| Allocator (`ecs_allocator.h`, `new_delete_overloading.c`) | newlib's heap | | every container |
| Firmware timer handlers (`timer.c`, `SList.c`) | a linked list behind a sentinel | register, deregister, call all | interrupt handler, cartridge |
| Machine timer access (`utils.h`) | 64-bit `mtime`, `mtimecmp` | read, increase | simulator's chipset |
| Firmware memory services (`system_calls.c`) | video memory | copy, write a control | cartridge's library |
| Cartridge library and start-up (`cartridge_baseline`) | | the video calls, the system calls, copying data before `main` | firmware, kernel |
| Sample game (`riscv-cart`) | the bird, the pillars, `running_flag` | six threads | kernel through the cartridge library |
| QEMU test kernel (`os_test_qemu`) | | the same scheduler, direct calls only | kernel |
| Simulator: CPU and instructions (`RISCVCPU.cpp`, `RISCV?TypeInstruction.cpp`) | registers, CSRs, `mip` | execute, trap, return, reset | cache, memory map, chipset |
| Simulator: instruction cache | blocks and sub-blocks of decoded instructions | fetch, insert, flush | CPU, run control, listing |
| Simulator: memory map, RAM, flash, register blocks | bytes, registers, a scratch buffer | loads and stores of each width, blocks, programming | CPU, DMA, window |
| Simulator: chipset | interrupt and timer registers, DMA channels | register writes, ticks, DMA steps | CPU thread, timer thread, UI thread |
| Simulator: video controller | the video memory | draw | CPU thread (writes), UI thread (draws) |
| Simulator: run control (`RISCVConsole.cpp`) | thread commands and acknowledgements, breakpoints, the listing | run, stop, step, reset, breakpoints, firmware, cartridge | chipset, CPU, window |
| Simulator: window and widgets (`RISCVConsoleApplication.cpp`, `GUI*.cpp`) | buttons, line boxes, scroll bars | callbacks | run control, recorder |
| Simulator: recorder and runner | a JSON document | note an input, save; read and replay | window, run control |
| Simulator: program files (`ElfLoad.cpp`, `Path.cpp`, `*DataContainer.cpp`) | sections, symbols, line table; resolved paths | read a program, find its sources | run control (the listing) |
| Vendored and generated code, examples | | | |

What is hard here. Everything in the kernel runs on one hart, and its concurrency comes from one
source: an interrupt may take the hart from a thread between any two instructions, unless
interrupts are masked (MIE), and hands it to another unless preemption is off
(`preemption_on_ <= 0`). The two mechanisms are separate, nest separately and are kept in
different places: preemption per thread, in the control block of whichever thread
`running_thread_id_` names at the moment of the call; the interrupt nesting level in one global
counter that context switches do not save. The hard questions are where one of them protects
only half of a step, and where the bookkeeping of one thread is continued by another. In the
simulator, which is an ordinary multi-threaded program, they are the unlocked read-decide-write
sequences of three threads on the same registers.

Besides these there are two kinds of difficulty that no concurrency is needed for. One is structure shared
by convention: a ring buffer whose modulus changes, a list whose erase forgets its ends, two programs that lay
out one memory each by itself, copies kept by line number of what is kept by address. The other is arithmetic
on the host that must be the guest's.

What makes each part correct is stated with its module in section 2; `PROJECT.json` lists every place where it
could go wrong with its line ("hazards") and the properties that cover it.

## 2. Modules

    Scheduler --> Mutex --> CondVar --> Kernel --> KernelInv --> KernelProofs --> FilingProofs --> OwnerProofs
                                          |            |
                                          |            \--> MCKernel (TLC instances)
                                          \-- INSTANCE FifoLock (abstract lock)

Each kernel module EXTENDS the one below it in the way the headers include one another, because
the kernel's operations interleave instruction by instruction and share the same hart.

**Scheduler.** `cpu` is the thread whose stack the stack pointer is on; `running` is what the kernel
believes (`running_thread_id_`). The two differ between `sw_run` and `sw_ctx`, and the question
whether they differ anywhere else is a property. `pc[t]` is the control label of thread `t`; each
label is a point of the source where an interrupt can separate two effects: one label per call to
`setPreemption`, one per group of statements that touches only what the thread owns or that
preemption-off protects. `ctx[t]` is the thread whose frame `t`'s saved `stack_ptr_` points to,
`smie[t]` the MIE bit in that frame, `mpie[t]` the bit `mret` restores, `trapped` the threads that
were switched away from inside a trap handler. `nest` is `nest_critical_cnt` with its clamp at 0.
The label `hang` is an `assert(false)`, `dead` the return of an exited thread past its stub.
A handler and everything it calls is one action (`TimerInterrupt`, `DeviceInterrupt`), because it
runs with MIE = 0; when it switches, its second half is `HandlerReturn` in the thread it comes back to.

**Mutex**, **CondVar**: the objects, whose code is entered with the label the caller will return to.
`holds` is a history variable: the mutexes a thread has locked by its own account. `CondVar`'s
wait contains a complete unlock and, after waking, a complete lock; the same labels serve user
calls, `join` and `sleep`, told apart by `op[t]`.

**Kernel** adds join, exit, sleep and the interrupts, the specification `Spec`, the fair
specification `FairSpec` and the properties.

**FifoLock** is what a mutex promises in one variable: the clients that asked form a queue, the head
has the lock. `Kernel!Fifo` maps `owner` and `mwait` onto that queue, and `ImplementsFifoLock` says that
every step of the kernel is a step or a stutter of it: try_lock succeeds only on an empty queue,
a woken waiter does not compete, and nobody overtakes.

The constants: `Threads`, the threads created before the launch in order (`Boot`), what calls each
thread's code makes (`Calls`), which threads sit behind the ecall interface (`Ecall`: a cartridge
calls `threadYield`, `mutexLock`, ... with `ecall`, and `threadJoin` and `threadSleep` directly,
`workarounds.c`), the user's mutexes and condition variables, and `MaxTick`. Threads are otherwise
unconstrained: at every return to user code any of their calls may be next, except that a thread
unlocks or waits with a mutex only when it holds it, does not exit while it holds one, and
joins neither itself nor the idle thread.

What is abstracted: ids are the objects themselves (the maps they are looked up in are `NodeMap` and `Factory`);
the heap never runs out; registers and `gp` are not state. `join` and `sleep` of the control block's own objects are named by the thread.

The lists are changed in one step at their label, and that is only half of what the code does: preemption is off there, so
no other thread comes between, but interrupts are on. `Tear` is the other half, the three ways in which an interrupt meets one
of the kernel's containers half changed. `WakeTears`: the timer's handler wakes sleepers whatever `preemption_on_` says, and
so pushes into the ready list in the middle of the thread's own `push_back` or `pop_front` (`InsideList`; `ecs_queue.h:16-30`).
`GrowthTears`: the handler looks up the running thread in the table of control blocks while `create` makes it grow
(`ecs_vector.h:33-44`), and the assertion in `at` fails. `MoveTears`: `create` moves the table while a preempted thread has looked
up its block there and not yet used it. Each of them can happen in the model whenever it can in the code, sets
`torn`, and is where the behaviour ends: what the kernel does with a list that has lost a thread depends on the compiled code and the heap.
`EveryThreadFiledOnce` and `NoHang` therefore say "until then" (`~torn`), and the liveness properties "unless". That the disaster is
real, and is the code's, is shown in `ReadyList`, statement by statement (run `ready_race`). The properties without the
condition hold in the torn state too, because a torn list is not what they are about.

### The libraries around the kernel

    ByteChannel <-- (refinement) -- Pipe --> Deque <-- ReadyList        Factory --> NodeMap        TimerHandlers
                                      \---------------- MCUser ----------------/----------------/
                                      \---- LibraryProofs -----/----------------/----------------/

**Deque** is `ecs_queue.h` as operators on a record: the storage, its size, the two indexes; `Grown` is the
unwinding and the resize that a push into a full ring makes. **Pipe** is the thread-safe queue and the pipe
on it, over the two abstractions the kernel's modules justify as long as no container is torn: the mutex is
`FifoLock`'s queue, and the condition variable's steps are atomic. A write stores a byte at a time under the mutex and notifies one reader after
the unlock; a read takes what is there, up to what it asked. `ImplementsChannel`: it is the
channel of **ByteChannel**, in which bytes come out once, in order, a transfer at a time; this needs every
index of the ring. `PipeInv` has the exclusion, the bounds, and, in `StrandedOnlyUnevenly`, when
a single `notifyOne` is enough: as long as nobody writes several bytes or reads none. `CallsReturn` is its liveness.

**ReadyList** takes the operations on the ready list apart: `push_back` and `pop_front` in the statements the compiled
code makes of them, the turning of the storage (`Invert`) and the vector's reallocation (`Widen` takes the new
capacity, `Move` the new block, `Resize` the new size), with the timer's handler, which pushes as
well, between any two. `struck` says that it has pushed in the middle of an operation, `exposed` that it did so while the
storage was turned or grown. `ReadyListInv`: until the first every thread is in the list exactly once, and until the
second no index leaves the storage and the storage does not leave its block (`block`, as against `cap`). After the first
a thread may be lost or filed twice, which contradicts the comment at `cs251_scheduler.h:186` and is the violation
`ready_race` of `ThreadsFiled`; after the second the handler may write past the old block, and the model stops.

**NodeMap** is `ecs::map` over `ecs::list`, with nodes that stay readable after they were deleted, so that
a search can be seen to read one or to run for ever. **Factory** is `create`, statement by statement between
threads and at once behind an ecall, and use and destruction by id. A direct call of the map has a beginning
and an end (`Enter`, `Leave`), between which its thread may be preempted; `Overlap` is another call that enters meanwhile, and
the end of what is followed, because the list's nodes are then linked by two hands. `FactoryInv`: as long as that has not
happened (`~overlapped`), the map is exact and its searches end, unless the first or the last node was erased
(`ecs_list.h:181` leaves `begin_`, `rbegin_` and `size_` alone), and no id is given twice, unless two creations have
overlapped outside the map (`cs251_mutex.h:90`).

**TimerHandlers** is the firmware's handler list with its sentinel, whose data nothing initialises.
`HandlersInv`: the walk calls everybody on the list once, and a cancellation leaves the others alone, as long
as it names a registered handler that the sentinel's memory does not happen to equal (`SList.c:29`).

### The chipset and the firmware on it

    Chipset --> FirmwareIsr --\
                               >--> MCChipset, ChipsetProofs
                       Dma --/

**Chipset** has the interrupt enable and pending registers, the machine time and its compare
register, and the CPU's `mip`. Each register is an atomic; a write to one of them is followed by
`CheckInterrupt`, which here is three more steps of the same thread (`LoadFirst`, `LoadSecond`,
`Act`), so that the CPU thread, the timer thread and the window's thread interleave between the
loads and the decision. The variable `serial`, chosen among `Modes` at the start and never changed, says
whether one thread does everything (`AutoRunner`, and the debug mode apart from the buttons) or three do.
The module has registers, checks and stores; who calls them, and the specification, is `FirmwareIsr`.

**FirmwareIsr** runs `c_interrupt_handler` on it, one label per access to a device register:
`readMachineTime`, `increaseTimeCompare` with its two stores, the polls, clears and counts. Words
have `WordSize` values, so that a word wraps within a few ticks. What the handler does in the kernel
(`updateTick`, `inInterruptYield`) is module `Kernel`; here it is the counter `systick`. `TimeReadInRange`: a time read
word by word lies between the times at the start and at the end of the read. `EventsCountedOnce`: a polled event is neither lost nor
counted twice, on any number of threads. `ClockAndLinesRight`: the compare value stays on the grid of the
period; on one thread the clock does not run ahead and the lines say what the registers say.

**Dma** is `DMACommandStore` and `IncrementDMA`. `turn` is the place in the CPU thread's loop: an
instruction, then one pass of every channel. Instructions are reduced to what they do to the
channels: the registers, a start, a cancellation, the clearing of a pending bit. `next[c]` holds
`DNextSource`, `DNextDestination` and `DUINT32Transfer`, `status[c]` the status word bit by bit. `job` is
a history variable: what each channel was last asked to do, and the memory it started from. The properties
are those of section 5, and `TransferEnds`.

### The simulator

    CodeCache --> Cpu    Instructions    MemoryMap    Video    Console    Replay    Listing    MemoryBox    Game
                   \--------------------------------- MCSimulator --------------------------------------/
    Path --> SourceFiles --> SourceListing --> MCSources ----/
               LineTable ------/
    Console, Replay --> ConsoleProofs     Cpu, MemoryMap, Video, Listing, MemoryBox, Game --> SimulatorProofs
    Instructions --> InstructionProofs

**CodeCache** is the instruction cache as operators: overlapping blocks over shared sub-blocks, the current one of each,
and the flush of a range. **Cpu** is `ExecuteInstruction` with it: fetch, decode and insert, exceptions, `mret`,
the interrupt lines other threads set and clear, and what the window does to a stopped machine: programming a
flash, with the flush, and listing it through the same cache. An instruction is named for what it does to the
control state. `CacheInv`: a cached instruction is that of its address and of the memory there, unless the guest
itself wrote over it; and blocks that overlap never hide one another. `TrapsAreTransparent`: after a handler
that neither trapped nor enabled interrupts, the hart is where it would be without the trap.

**Instructions** has what every instruction of RV32IM and the CSR instructions compute, on words of `Width` bits.
One instruction compared with a formula would be compared with itself; the properties are about the short sequences that
compilers build from them and what those are for (`ResultsExact`): division with remainder, the two halves of a
product, narrow casts by shifting, comparisons against each other, constants in two parts, bytes of a word, CSR bits set and
restored, calls near and far. A word is a number; the bit operations take it for the set of its bits (`BitsOf`, `FromBits`),
and `Two` has the powers of two that occur.

**MemoryMap** is the address decoding and the devices behind it, with every width and blocks. Its history variable `flat`
is a memory of plain bytes under the same stores. `MemoryInv`: the two agree, loads return what is there, and an
access faults exactly when a byte is outside, up to the exceptions it names (a register block ignores
alignment across registers, `RegisterBlockMemoryDevice.cpp:45`, and `LoadData` can run past its end, `:60`).

**Video** is the cartridge's library, which packs what it is asked into the fields of a word, and the controller, which
unpacks it on another thread, and which lays the memory out by itself. `PictureInv`: what is drawn is where the call
asked, in the place of that thing and no other, and a line of text shows what was printed there.

**Console** is the run control: the callbacks of the window as sequences of calls in `todo`, executed
one call at a time on the window's thread, beside the worker threads (`cpu` and `timer`, or `system` in
debug mode; `debug` is chosen at the start like `DDebugMode`), which go through their loop: start and acknowledge, test the command, execute,
compare with the breakpoints, end and acknowledge. The callbacks that stop the machine, change
it and start it again are instances of one operator, `Around`. The guest's program is arbitrary: an
instruction leads to any address. `unseen` is a history variable: the machine has stopped at a
breakpoint and no callback has told the window. `RunControlInv`: the machine changes only when stopped, no
thread is forgotten, a step of a stopped machine is alone, a hit stays pending, and the machine never runs unnoticed.

**Replay** is the recorder and the runner. A machine is the console as far as its user's input goes: what is inserted and held,
the instructions since the reset, the ticks. A cartridge that does not fit (`Misplaced`) is refused with `false`, which the
window takes for cycle 0 (`CycleOf`): it notes an insertion that the machine has not made. `ReplayInv`: the recorder knows between
two callbacks what the machine holds, unless the cartridge last noted was refused, and every input of an exact recording meets in the replay the machine it met when it was recorded. What a
recording needs to be exact is a list of its own (`BeginsAfresh`, `NotedRight`): the cartridge last noted is the one that is
in, a refused one is noted at no other cycle than 0, trapping instructions do not count as retired, no reset sets the tick counters, and the runner reads the cycle as an `int`.

**Listing** is the console's listing of the loaded programs, the window's copy of it, the breakpoint marks in both
and the labels; `ListingInv` says that marks, lines, highlight and names are those of the machine, up to a
refused cartridge and a reloaded program. **MemoryBox** is the memory view over several regions in two directions;
`BoxInv`: rows are neighbours, a region's address is at the top of the view unless the end of the memory is closer, and SP
begins the view one line after the line of `sp`, which is not shown.

How a listing is made of a program is the subject of four modules. **Path** is `CPath`: resolving, joining and
simplifying names. **SourceFiles** is `LoadElfSourceFiles` over a disk: whether all sources are where they were
compiled, and if not, where from the program's folder upwards each of their directories may be. **LineTable** reads the units'
debug information: each line-number program byte by byte through the registers of its state machine, while the
assembler that wrote it chooses among its ways to encode each row (`Assemble`, the environment), and the one table of all
units. **SourceListing** puts them together with sections and symbols. `SourcesInv`: the rows read are those assembled,
whatever the encoding; the table has each of them; the lines of a file are listed once, in order, under its name, and an
instruction after the source of every row at its address; the files are the ones named and the labels where they should
be. It names its exceptions: a row that no instruction is at (`SourcesComplete`), a file not found or found two levels up
(`FilesRight`).

**Game** is the sample game between any two accesses to what its threads share: the thread of the
controller and gravity, under the bird's mutex; the pillars' thread; the collision thread, which takes no mutex.
`GameInv`: no move of the bird is lost, the drawn blocks cover exactly the pillar the bird collides with,
and a pillar is in one piece between two rounds.

**MCChipset**, **MCUser** and **MCSimulator** check several modules in one run. Their components do not
act on each other's variables; a variable `part`, chosen at the start, says which one moves, and the others
stand still, so that the states add up instead of multiplying.

## 3. Runs

All kernel runs (module `MCKernel`) have the idle thread, which `main.c:47` creates first and which only yields, and two or
three others. Deadlock is checked in every passing kernel run: with the idle thread and interrupts
the machine must never stop. (A torn behaviour stays where it is; that is a step, not a deadlock.)

| Run | Question | Bounds |
| --- | --- | --- |
| `sync` | lock, try_lock, unlock, wait and notify: the lock is exclusive, fair and never stranded, no preemption falls into a critical section and every setPreemption has its counterpart | 3 threads, one of which only locks, 1 mutex, 1 condition variable |
| `live` | every lock call, every notified wait and every sleep returns, unless the containers are torn | 2 threads, one waits and sleeps, one notifies; 1 tick |
| `life` | create, join, exit and sleep, with a thread behind ecall that makes no blocking call: nesting level, MIE, frames and stacks agree, finished is for good, no early wake-up; and until a container is torn no assertion fails and nobody is lost or filed twice | a thread behind ecall that creates, yields, notifies and exits, one that creates, joins, sleeps and exits, one that sleeps and exits; 2 ticks |
| `chipset` | transfers copy exactly their bytes, end or report an error, stay inside their destination; time reads, compare grid, polled events, on three threads and on one | 1 channel, 12 bytes, 4 addresses and 5 sizes, two starts with any register writes between; words of 3 values, time to 3, period 2, an event per source |
| `user` | the pipe is a byte channel and its calls return; the ready list under interrupts; the factories' map; the timer handlers | 3 clients, one of which reads and writes, transfers and queue up to 2 bytes of 2 values; 3 threads on the ready list, 1 ready at first; 3 ids, 4 nodes, one caller by each way; 2 handlers, lists of 3, 5 calls |
| `simulator` | cache and traps, instruction results, memory, picture, run control, replay with a cartridge that fits and one that is refused, listings, their sources, memory view, game | sub-blocks of 2 words, 2 to a block, 6 in the address space; words of 4 bits; 3 devices of 4, 4 and 12 bytes, 2 stores; 2 video stores; all buttons, both modes, 3 addresses; recordings of 2 events; 4 programs of 5 instructions with sources in 3 files, 1 to 8 rows, every encoding of each; 3 regions of 9 lines, 3 labels; a screen of 2 by 8 |
| `join_live` (violation) | join returns once the target has finished | 2 threads |
| `fw_lock` (violation) | stacks stay owned when a system call blocks on a mutex | 2 threads |
| `isr_race` (violation) | the interrupt lines agree with the registers, three threads | 1 source, no tick |
| `ready_race` (violation) | no thread of the ready list is lost or filed twice under the timer's interrupt | as `user` |
| `console_break` (violation) | the machine waits at a hit until the window is told | with breakpoint edits |
| `record_again` (violation) | what the recorder pushes into is an array | recordings of 3 events |

Why the bounds are enough. The kernel's lists tell threads apart only by identity and order, so
the interesting situations need an owner, a waiter to be handed over to and one more that must not
overtake or be lost: three contenders, and the idle thread so that the hart has somewhere to go.
Two are enough for the liveness runs, whose hazards are about one waiter and one waker. Ticks matter only as "before" and "from" a deadline, so two or three
of them give every order of two deadlines; beyond `MaxTick` interrupts go on without counting.

For `Dma`, the cases are the alignments of source, destination and size modulo 4 and the end of memory;
the addresses and sizes of `chipset` reach each branch of `IncrementDMA` and both errors. There is one channel:
what two channels do to each other is proved, for any number of them (section 5). For `FirmwareIsr`,
words of few values make every wrap between two reads happen, and more than one period passes; `EventsCountedOnce` needs
one event per source to fail.

For `Pipe`, the ring grows from nothing to three slots, wraps at each size, and two writers and two readers meet in
one client that is both. `ReadyList` needs a running, a pushed and a sleeping thread to lose one. In `NodeMap` a middle node
needs three. In `Cpu`, the two programs between them leave every trap by `mret`, trap inside a handler, jump out of memory and to an odd
address; two blocks overlap in every way with three sub-blocks. `Instructions` runs over
all pairs of words; 4 bits have every sign, carry and shift case, and no instruction's text depends on the width. `MemoryMap` tries every alignment of
every width at each end of every device. `Video` uses the real layout and widths of the fields, and coordinates
on, at, partly off and beyond the screen. For `Console`, two workers and three
addresses are all that the callbacks can tell apart, and no counter is bounded. `Replay` needs two events and three
instructions for a step too many or a tick too early. The four programs of `MCSources` are compiled here or elsewhere, with a header in another
tree, a file entered twice, two units on one file, a library without files, a unit too old or without its abbreviation, and
a row that is discarded, and a symbol in the middle of an instruction; their rows take lines up, down and far, columns of two bytes and two sequences. The game's screen is scaled down so that the bird and a pillar meet within two rounds;
`BlockSide` and `PillarHeights` keep a pillar of two blocks, one of them partly off the pillar's end.

Which runs do not check for deadlock, and why: `chipset` and `simulator`, whose bounds on time, events, stores and
instructions (`MaxTime`, `MaxRaised`, `MaxStores`, `MaxVideoStores`, `MaxRetired`, `MaxSteps`, `MaxEvents`, `MaxPresses`)
silence the environment after a while, and where a game that is over has stopped; `user`, where in addition a
reader that nobody writes for sleeps for ever and a program whose search failed has no further state; `isr_race` and `record_again` for
the same bounds; `fw_lock`, because once a stack is lost the machine may really stop.

The violations are disagreements between the code and what the repository says of it:

* `join_live`: `stub_wrapper` notifies the joiners before the thread is FINISHED and without the
  join mutex. A joiner interrupted between its test and its entry in the waiting list misses the
  only notification.
* `fw_lock`: `nest_critical_cnt` is global. A thread that blocks inside the `mutexLock` system call
  leaves its level in it; then `disable_interrupts` does not mask in the next voluntary switch, and an interrupt
  after `running_thread_id_` has changed stores one thread's stack in another's control block.
* `isr_race`: two threads check at once; the one that has read before the event clears the line
  after the other has set it. The event stays pending and enabled with the line down.
* `ready_race`: turning preemption off, which `cs251_scheduler.h:186` gives as the remedy for races between the two kinds
  of switch, does not keep the timer's handler from waking sleepers, and `push_back` writes the element before the index:
  an interrupt between the two puts the sleeper into the same slot, and one of the two threads is gone.
* `console_break`: a hit not yet seen by `VideoTimerTick` is dropped by any callback that stops the
  machine and, because the command still says Run, starts it again.
* `record_again`: saving a recording moves the array of events into the document; the window goes on
  recording, and the next input is pushed into what is left, which is no array.

The same reading of the code shows more disagreements, consequences of the same lines or of single
statements, which no run is spent on: a thread that blocks inside the `condWait` system call leaves the nesting
level open too, `enable_interrupts` (`utils.c:37`) then leaves interrupts masked, and time stops; the timer
line set on a comparison made before the handler moved the compare register (`RISCVConsoleChipset.cpp:284`)
makes the handler count a second tick for the same time, which is why `NoExtraTickSerially` speaks of one thread
only; a DMA channel whose access failed stays active with its error bit set (`RISCVConsoleChipset.cpp:397`),
which is why `TransferEnds` allows for an error; saving a recording stops the machine with the
Run button still down (`RISCVConsoleApplication.cpp:538`), which is why `NeverRunsUnnoticed` is stated in one direction;
the Step button executes an instruction beside the running system thread (`RISCVConsoleApplication.cpp:509`), which is
why `StepsAloneWhenStopped` speaks of a stopped machine; the exceptions that `ReadyListInv`, `FactoryInv`,
`HandlersInv`, `PipeInv`, `MemoryInv` and `ListingInv` name, each with its line in section 2 and under "hazards". Single
statements: `csrrwi` with `rd` = 0 dereferences a null pointer (`RISCVSYSTypeInstruction.cpp:164`); the smallest number divided by -1
is undefined on the host; label addresses are never cleared when a program is loaded again
(`RISCVConsole.cpp:300`, `:642`); a refused cartridge returns `false`, which its caller takes for cycle 0 (`:613`) and
records: the cycles of the file go backwards there, and the runner's unsigned difference (`AutoRunner.cpp:428`) makes it step some four
billion times; and a recording that begins later names the refused cartridge instead of the one that is in; a reset
leaves DMA channels running (`RISCVConsoleChipset.cpp:427`); finished threads are never freed (`cs251_scheduler.h:143`);
the game judges collisions on an x and a y of different moments (`main.c:191`), and a pillar that has wrapped is
behind the left edge for one round (`ColumnsStand`).

The memory view contradicts `docs/simulator.md:31`, "The `SP` button will jump to the location of the `sp` (stack pointer) register":
listing downwards, `UpdateBaseLine` puts the scroll bar one line too far (`GUIScrollableMemoryLabelBox.cpp:66-67`, against `:76-77`), and
as long as more lines follow than there are labels, the view begins with the line after that of `sp` and leaves its own out. `AskedIsShown` states
what is shown instead, exactly.

The listing's sources have several, which `SourcesInv` names where it must and is otherwise silent on: a file that was not
found does not advance the index, so the next file is shown under its name (`RISCVConsole.cpp:288`); `DecomposePath` lets `..` take away a `..`
(`Path.cpp:117`), so a file found two levels above the program is looked up below the program and stays empty; that is where the kernel's headers
are seen from `riscv-firmware/bin`; a row at no instruction, such as code discarded at 0 or the end of a
sequence before a gap, stops the sources of everything after it (`RISCVConsole.cpp:325`); a symbol in the middle of an instruction
stops the labels after it in the same way (`LabelsRight`); a name is compared as it is written with
one that has been resolved, so a `.` in it makes all files be looked for elsewhere (`:200`); operands of opcodes the reader does not know are
read as opcodes (`ElfLoad.cpp:827`); the directories of relative names are searched from the working
directory but their files opened from the program's (`:191`, `:291`).

## 4. Fairness

`FairSpec` assumes (1) the hart goes on executing (`WF` of `ThreadStep`); (2) a timer interrupt that
is possible again and again is taken (`SF`): the timer is re-armed by the handler itself, and the
interrupt stays pending while masked; (3) a thread that gets the hart again and again completes
steps of its own (`SF` of `OwnStep`): the tick period is long enough for some instructions
of the preempted thread, otherwise nothing could run; (4) code that holds a mutex releases it (`SF`
of the unlock call), without which no lock promises anything. Nothing is assumed about which
thread the scheduler picks: that every ready thread gets the hart follows from the first-in
first-out ready list and is part of what the liveness runs check.

`ChipSpec` assumes that the CPU thread goes on with passes and with instructions that are none of
the channels' business (`WF`): the guest need not write any register. `UserSpec` assumes that a call of the pipe that has begun
goes on (`WF` of each client's `CallStep`), which the kernel's runs show of the scheduler and the lock; nobody has to call.
`SimulatorSpec` assumes that the processor's thread goes on, and in the run control that threads
go on (`WF` of the callback's calls and of every worker).

## 5. Proofs

`KernelProofs` proves `TypeCorrect`: `Spec => []TypeOK`, for every value of the constants; and, under `NonBlockingEcalls` (no code makes a blocking call, lock or wait, through the
ecall interface; the run `fw_lock` shows that the condition is needed),

* `HartCorrect`: `Spec => []HartInv`;
* `StacksOwned`: no switch ever continues a thread on another thread's stack;
* `UserCodeInterruptible`: application code always runs with interrupts on and no level open.

The argument. `StackOwnership` is not inductive: whether the two halves of a switch can be separated
depends on MIE, MIE on the global counter, and the counter on what every suspended thread left
open. `HartInv` closes this circle: the counter equals the number of levels the thread on the hart
has opened itself (`HartNesting`: its masked section, its system call, its trap); every thread off
the hart was suspended with exactly one level open, either by a trap or by a masked switch
(`Suspended`), so whichever is continued closes exactly one; the locals of a switch in progress name
this thread and another one that exists (`SwitchLocals`); what is filed in any list has been created
(`FiledAreBorn`), so a switch never lands on a thread without a frame; and the calls that block
are never inside a system call (`SyscallLabels`), which is where `NonBlockingEcalls` enters. Each action
preserves the invariant; the many actions that move only a label share one lemma
(`LocalStep`), the ones that enter a call another (`CallInv`), and the switch, the stub and the
handlers have their own. TLC checks `HartInv` in `life`.

It also proves, under the same condition, `PreemptionCorrect`: every `setPreemption(false)` is made good by its
`setPreemption(true)` in the same control block, and no thread is preempted between the two. `setPreemption` counts
in the block of `running_thread_id_`, so the proof starts from `HartInv`, by which that is the thread on the hart
wherever the kernel counts. The invariant is `CountInv`, one statement per thread (`Counted`): its count is what the
calls it is in have made of it, by its label and by the place its switch returns to; a thread the handler has taken off the
hart was preemptible; a failed assertion stops the machine for good. A step that counts only for the thread on
the hart is one lemma (`AloneKeeps`), a step that counts nothing another (`QuietKeeps`); a new thread, the switch itself
and the handler have their own.

A tear is a step of its own in these proofs (`Tear`). It leaves the hart, the counts and the mutexes alone, so
`HartInv`, `CountInv` and what `OwnerProofs` says of mutexes are kept through it; of the lists nothing is known
afterwards but their types, so the invariant of `FilingProofs` is that of the untorn kernel.

`FilingProofs` proves, still under the same condition:

* `FilingCorrect`: until an interrupt meets a container half changed, every thread is filed in exactly one place, so that
  the protocol of the kernel, its labels, states and hand-overs, loses none and runs none twice;
* `NeverHangs`: until then no assertion of the scheduler fails, and a thread that suspends always finds another one to run;
* `ExitsForGood`: an exited thread is never run again;
* `SleepsLongEnough`: no thread leaves a sleep before its tick has come.

The invariant `FileInv` says for each list what a member's label must be and for each label where the thread is filed:
no list names a thread twice and no two lists share one (`ListsDistinct`), what waits in a list is at the label of that
wait (`Waiters`), the thread on the hart is in no list except between its push and its switch (`OnHart`), the thread
picked for a switch is in nobody else's hands (`NextPicked`, `OffHartPicksNone`), a thread that was created is somewhere
(`NoneLost`). `NeverHangs` needs one fact more: the idle thread only ever yields (`IdleYields`), so it is in the ready
list whenever it is off the hart, and a thread that suspends itself, which is another, finds it there (`IdleReady`). A
local step files nothing (`LocalFile`); taking a waiter out, waking all of them and the handler have lemmas of their own
(`WakeFiles`, `HandlerFiles`), and `FiledCount` turns the invariant into the count the property makes. For the sleep the
invariant is `Sleeps`: a sleeping thread is at a label of the loop, of the lock, the wait or the unlock that `sleep`
makes, and at those of the unlock only with its deadline met. It needs `swRet` to say where a wait comes back to, and that
other threads move a sleeper's label nowhere (`GoesOn`).

`OwnerProofs` proves, still under the same condition:

* `MutexCorrect`: no two threads hold a mutex;
* `FifoLockImplemented`: every step of the kernel is, seen from a mutex, a step of `FifoLock` or none.

A thread that waits for a mutex becomes its owner while it sleeps: `unlock` writes its id into `owner_`. So the
invariant is about claims (`Claims`): a thread claims the mutex it is known to hold, the one it is at a label of
acquiring or releasing, and the one whose waiting list it was taken out of. Whoever claims a mutex is its `owner_` (`ClaimsOwned`), and a mutex
with waiters has an owner (`WaitersHaveOwner`), without which the last waiter would sleep for ever. For a join and a
sleep, the mutex is the one inside the object joined or slept on (`CallMutex`). In the refinement taking a free mutex and
queueing for a held one are both `Ask`, the body of `unlock` is `Release`, and everything else stutters (`StepRefines`).

`ChipsetProofs` proves of `Dma`, for any number of channels, any memory size and any addresses and sizes:

* `DmaTypeCorrect`: `DmaSpec => []DmaTypeOK`;
* `CursorCorrect`: `DmaSpec => []CursorInv`, which is inductive relative to the types; `DmaCorrect` has the two
  together, the invariant `DmaInv` of the run;
* `NoOverrunCorrect`: no step changes a byte outside the destination of a transfer in progress. It
  rests on `PortionBounds` (a pass moves between one byte and a word, and never more than is left;
  for word transfers this needs that the rest is a multiple of four) and on `CursorInv`;
* `EndIsRaisedCorrect`: a channel never falls inactive without its interrupt pending;
* `TransferExactCorrect`: a transfer that ends has copied every byte as it was at the start, unless another one ran over
  the same bytes. The strengthening is `ExactInv`: of an undisturbed transfer the bytes moved so far are right
  (`MovedRight`), those to come are still as they were (`RestUntouched`), and neither its own destination
  nor that of any other active channel meets them (`SelfDisjoint`, `Separate`). `ExactOwnMove` and
  `ExactOtherMove` are the two cases of a pass, `ExactStart` the start of a transfer beside others.

It proves of `FirmwareIsr` what `chipset` checks of the firmware's handler, for words and periods of any size, any sources and
any delay:

* `TimeReadCorrect`: `readMachineTime` returns a time that was the time while it ran. The words it reads are those of
  three or four moments in order (`ReadInv`), and `ReadBetween` is the arithmetic: if both high words agree, the low word
  between them is of that high word; if not, the second high word has only just begun when it is read, or is over;
* `EventsCorrect`: no event is lost and none counted twice. The invariant counts what is owed: one for a pending bit,
  one for a count about to be made (`Debt`);
* `ClockCorrect`: the compare value is on the grid (`GridInv`, with `NextTick` for the division); and when one thread does
  everything, a check in progress has loaded what is still in the registers (`LineInv`), so the timer's trap is taken
  only when the compare value has been reached and the clock never runs ahead (`TickInv`).

The three are theorems of `IsrSpec`, the handler alone.

`LibraryProofs` proves, of the libraries around the kernel:

* `DequePush`: `push_back` of the ring buffer appends to its contents and keeps it well formed, through its unwinding and growth;
  with the corresponding lemma of `pop_front` (`DequePop`) it is what the next two rest on;
* `PipeSafe`: `PipeSpec => []PipeInv`, for any finite set of clients. The invariant (`PipeInductive`) adds to the property
  where each client is: whoever is inside is the head of the lock's queue (`LinesKept`), who is where agrees with what it
  asked (`CallsEven`), and, with even calls, that the calls under way are enough for the bytes that lie beside a
  sleeper (`EnoughHelp`). The last one is a count: each step moves one client from one of its sets to another, and
  the sleeper that a notification wakes joins them;
* `PipeIsChannel`: `PipeSpec => ImplementsChannel`, step by step: `ChannelBegin`, `ChannelPut`, `ChannelTake` and `ChannelEnd` are the
  steps that map to one of the channel, and the rest stutters (`ChannelStep`);
* `ReadyListSafe`: `ReadySpec => []ReadyListInv`. `ReadyInductive` says what the statements of an operation have made of the ring
  when they are half done (`StepsInOrder`, `PlacesApart`), for as long as no interrupt has pushed in between;
  that the indexes stay in the storage and the storage in its block is kept even then (`ListShaped`), until an interrupt has
  pushed while the storage was turned or grown;
* `HandlersSafe`: `TimerSpec => []HandlersInv`. The walk takes the next handler and the cancellation the first that matches, so the proof
  needs that a search of a list finds its least index (`LeastIn`, from the well-foundedness of the naturals);
* `FactorySafe`: `FactorySpec => []FactoryInv`, for any callers, ids and nodes, until two calls are inside the map at once. The map's list is a sequence of
  nodes, linked both ways and in the order of their keys (`Linked`), of the objects kept (`ListKept`). The recursive walk along
  it is compared with that sequence at the least place where they differ (`OrderIs`), which says where every search
  ends (`FindIs`). An insertion is the same change of the sequence by each of its three ways (`InsertPuts`,
  `PutLinks`); a deletion takes a node out (`EraseLater`) unless it is the first: then `begin_` is a deleted
  node, and every later search reads it (`EraseFirst`, `FindsDeleted`). Of the ids, `SerialIds` has what each creation
  under way has read of the counter, for as long as no two have overlapped.

`ConsoleProofs` proves `ConsoleSafe`: `ConsoleSpec => []RunControlInv`, for any workers and addresses. What a callback has
still to call is the state of a program: `PlanOK` says of the sequence `todo` that it stops before it changes, starts
only what it has stopped and spawns every worker once. With it go statements about the workers
(`NoOrphan`, `LeavesWhenTold`, `StaysStopped`) and about the hit that nobody has seen (`HitIsKept`, `HeldIsDropped`). Each
of the calls and each of the workers' steps has a lemma.

It also proves `ReplaySafe`: `ReplaySpec => []ReplayInv`, for any inputs, cartridges, trapping instructions and timer period. What the
property says of a replay has to be said of the log while it grows: `IsRecorded` has it that a
recording that is exact so far is the opening for a machine that has not run, then each input at the number of
steps it came after, with the machine it met (`Recorded`, of one of the fresh machines, `Fresh`). `RecordReplays` is the replay of such
a log: the recursion over the commands and the one over the steps are determined by their equations, and agree
with what was noted up to the least command where they would not (`LeastCycle`). That an input may be noted a moment after
it was applied is `KnowsMachine`: what is known lags behind by the input in `noting`. A refused cartridge, noted at cycle 0, changes
neither the machine nor the replay, and the recording stays exact only while the machine has not stepped. `FilesOnce` says when
the log is still an array.

`SimulatorProofs` proves the invariants of seven parts of the simulated machine:

* `GameSafe`: `GameSpec => []GameInv`, for any screen, sizes, heights and directions. `BirdInv` says of a move in progress what
  separates the bird from where it should be, by the statement its thread has reached, and that only the holder of the
  mutex has one; `PillarInv` which blocks of a pillar have already been moved in this round. That the blocks of a pillar cover
  exactly its height, for every height and block size, is arithmetic (`BottomCovers`, `TopCovers`);
* `CacheSafe` and `TrapsSafe`: `CpuSpec => []CacheInv` and `CpuSpec => []TrapsAreTransparent`, for every program, size of the
  sub-blocks and number of them in a block and in the address space. Sub-blocks are at multiples of their size, the
  current ones exist and hold one instruction for each of their addresses (`CacheShaped`), and each is that of the memory unless stale
  (`Coherent`). `CpuInv` adds what the hart owes the trapped program (`TrapsOwe`). `FollowsAddress` is the walk from block to
  block, `FlushKeeps` the flush of a range, `StepKeeps` one instruction, with all its ways to trap;
* `ListingSafe`: `ListingSpec => []ListingInv`, for any programs. Lines, marks and index are functions of the two programs
  loaded (`Shows`, `IsIndex`); once a cartridge has been refused, those of the window are out of step (`failed`). That
  the latest label at or before an address is that of its own program (`NamesHold`) needs the labels in order;
* `BoxSafe`: `BoxSpec => []BoxInv`, for any regions and any number of labels, with SP one line beside what it asks for. Lines are numbered from 0 without a gap
  (`EveryNumber`: the number of lines before a line takes every value), so the view is determined by one number and a
  direction (`View`), and clamping keeps what is asked for inside it;
* `MemorySafe`: `MapSpec => []MemoryInv`, for devices of any size and stores of any length at any address. An address
  is a region and an offset (`RegionIs`, `Neighbour`). A half-word or a word put into a register leaves
  there what its bytes one by one would (`RegisterIs`, `AlignedStore`). A block is stored register by register, a recursion whose
  steps are compared with the plain store at the least one where they would differ (`BlockWords`). `WholeWords` and `PastTheRegisters` say which accesses leave the device;
* `PictureSafe`: `VideoSpec => []PictureInv`, for any coordinates, sizes, indexes and texts. `VideoInductive` says of each
  control that its word is what the call it was last written by packs, at the place of that call (`ControlsAsked`), and of
  each line that it shows the last text on what is left of longer ones (`LinesRight`). A field reads back what was
  packed into it (`FieldReads`, from the bits of a number one by one, `BitByBit`), whatever stands in the fields beside it
  (`PackedReads`); so what is drawn is where it was asked (`BoxReads`), and what is asked on the screen is not left out
  (`SeenWhenAsked`). `LayoutsAgree` compares the handles of the library with the areas of the controller, for every kind
  and index.

`InstructionProofs` proves `InstructionsSafe`: `InstructionSpec => []ResultsExact`, for words of every size. The invariant
`InstructionInductive` says of each sequence what its instructions so far have left in the registers and in the memory; each
instruction has a lemma (`OperateStep`, `LoadStep`, ...) and each kind of sequence another (`TwoOpsKeep`, `WordsKeep`,
...). What is left is arithmetic (`InstructionsAreExact`): quotient and remainder are the only numbers that satisfy their
equation (`DivModIs`), which gives the division towards zero (`SignedDivision`: the smallest number by -1 is the one quotient that does not
fit, and there the host traps), the two words of a product (`TwoWords`, `LowerWord`), the shifts (`NarrowIs`) and the
constants (`UpperIs`). Sums of bits are functions determined by their equations, compared at the least place where they
would differ (`UpTo`, `SumIsOnly`): a word is the sum of its bits and has those bits (`WordOfItsBits`, `BitsOfAWord`), and
with these set operations say what setting, clearing and adding do (`SettingAdds`, `ClearingTakes`, `SumByBits`).

The assumptions on the constants that these proofs use stand in the components, and TLC evaluates them on the instance. They are what the code guarantees its parts:
`ListingAssumption`: a program lists each address once and collects its labels while the address grows (`RISCVConsole.cpp`,
`ProgramFirmware` and `InsertCartridge`), and those two refuse what is outside the memory of a firmware or of a cartridge,
which do not overlap; `CpuAssumption`: a flash is a range of the memory, and the trap handler is in the address
space; `MapAssumption`: every byte of a device is tried, words divide a region, and the region after the registers is
free or the registers do not fill theirs; `VideoAssumption`: indexes are unsigned and texts are
sequences of characters; `ReplayAssumption`: a timer has a period; `InstructionAssumption`: a word has four bytes, the immediate of
`addi` has at least two bits and fewer than a word, and the mask of a control register is a word; `BoxAssumption`, `LabelsAssumption`: regions are not empty, and the view has no
more labels than there are lines; `GameAssumption`: the pillars start on the screen or up to a block left of it.

All these are theorems of the component's own specification; the MC modules run the same actions.

What stays model-checked, and why:

* Liveness: `LockReturns`, `WokenWaiterReturns`, `SleepReturns`, `TransferEnds`, `CallsReturn` and `CallbackReturns`. TLAPS has
  no rules for fairness and `ENABLED` here.
* `SourcesInv`: that reading a line-number program gives back the rows assembled is an induction over its bytes, and the table
  and the listing are sorted and searched by recursion over the rows.


In the kernel every safety property its runs check is proved.

## 6. Not modelled

The map covers about a seventh of the repository's lines, and most of the rest is not this program's logic: 15,000 lines of image
data for the sample game, 8,000 of rapidjson, 1,100 of nanoprintf, 2,900 of a wrapper that forwards each call to GTK
and of its headers. What is the project's own and has no module:

* ELF headers, the forms in which debug attributes are encoded, configuration files: parsing in one pass, without
  state that outlives a call. What the line tables and the listing depend on in them is a field of a unit or of a section.
* Pixels, palettes and Cairo surfaces, the disassembled text of an instruction, the layout of the window, key mapping, dialogs:
  formatting.
* The string class, which only the container tests use, and those tests. `ecs::unordered_map`, a vector of pairs searched from the
  front, holds the control blocks (`cs251_scheduler.h:328`): that it grows under an interrupt is in `Kernel` (`Tear`), its search is not modelled.
* What the kernel does after a container was torn, and what the factories' map becomes when two calls change it at once.
* The allocator: it is newlib's. Heap exhaustion is not modelled.
* The cartridge's start-up code, which copies and clears memory before anything else runs.
* The width of `systick_` (2^32 ticks of a tenth of a second), and weak memory: there is one hart.

Components of which something is left out have the status "partly" and a note in `PROJECT.json`.

## 7. Plan

Done: sections 2 to 5. What is left, in this order:

1. What of `SourcesInv` needs no induction (labels, files), as an invariant of its own.
2. A reset of the chipset in `Dma` and `Chipset`; two channels in `chipset`, when the time for it allows.
3. The runner's options, and what it reads of a file another program wrote.
