# A TLA+ model of tupix

tupix is a small kernel for the Raspberry Pi 2 (ARMv7, one core in use): it
boots from `entry.S`, runs user threads in user mode under a page table per
process, preempts them with the ARM timer, and offers six system calls (`exit`,
`wait`, `get_char`, `put_char`, `fork`, `create_thread`). This directory holds
TLA+ modules for its kernel, the TLC configurations that check them on small
instances, and proofs for TLAPS. Paths below are relative to the repository
(`src/` in `PROJECT.json`), modules to this directory.

## 1. Inventory

| Component | State it keeps | Operations | Talks to |
|---|---|---|---|
| index queue, `data/types.c` | `index_queue`: `indices`, `size`, `head`, `tail`, `count` | `push_index`, `pop_index` | used by scheduler, process, thread |
| scheduler, `system/scheduler.c` | `threads`, `running_thread`, three queues of threads (ready, sleeping, waiting for a character), `processes`, `free_process_indices_q` | `scheduler_cycle`, `decrement_waits`, `scheduler_on_*`, `kill_cur_thread`, `scheduler_register_*` | called by the handlers; switches context and page table |
| creation, `system/process.c`, `system/thread.c` | `pid_counter`; fills pcbs and tcbs | `process_create`, `thread_create` | scheduler, memory management |
| handlers, `system/isr.c`, `system/ivt.S` | registers on the exception stacks | one handler per exception | scheduler, system calls, timer, UART |
| system calls, `system/calls.c` | none | `exec_syscall_*`, `verify_pointer` | scheduler, creation, UART |
| memory management, `driver/mmu.c`, `mmuasm.S` | `l1_table`, one `l2_table` per pcb, the TLB | `init_l1`, `get_dacr_init_val`, `init_mmu`, `init_process_memory`, `init_thread_memory`, `switch_memory` | boot, creation, context switches |
| UART, `driver/uart.c` | input ring buffer and its count | `uart_push_char`, `uart_pop_char`, output | handlers, system calls |
| timer, `driver/timer.c` | hardware registers | `init_local_timer`, `reset_timer`, enable, disable | boot, handlers |
| interrupt controller | hardware registers | `init_interrupt_controller` | boot |
| boot, `entry.S`, `start.c`, `kernel.lds` | stacks and modes | `_start`, `start_kernel` | everything, once |
| kernel library, `lib/std` | none | `kprintf`, number formatting, strings, memory | everything |
| user library and program, `user/` | data of the user program | system call stubs, the demo threads | system calls |

How they interact: there is one core and every exception handler runs with IRQs
masked, so a handler is atomic. Everything the kernel does after booting is
the body of one handler: the timer interrupt, the UART interrupt, a system call,
or a fault. A system call can create (`fork`, `create_thread`), block (`wait`,
`get_char`) or end (`exit`, bad pointer) the calling thread. The handler's
epilogue loads the registers of whichever tcb the scheduler copied into the
interrupted context.

What is hard, although no two handlers overlap:

- **sequences of legal calls.** Indices of threads and of processes are handed
  round between free queues, the ready queue, two waiting queues and
  `running_thread`. Nothing ever checks that an index is in one place only.
- **state in two places.** `running_thread`, the registers loaded and the page
  table loaded must belong together at the end of every handler, over early
  returns and over copies made through somebody else's page table.
- **queues walked while they shrink** (`decrement_waits`), **unsigned counters**
  at zero, **rings** at their ends, **queues at their limit** whose push fails
  silently.
- **two waits that race with their event**: a character arriving for a thread
  about to wait, and a timer tick between a wait and its wake-up.
- **dangling pointers**: a pcb holds a pointer to an array on a stack.
- **booting**: IRQs are enabled before what their handlers use is initialised, and the
  tables are switched under a TLB that refills itself.
- **words of bits**: rights, domains and addresses packed into table entries by masks.
- **one format read twice**: `kprintf` checks a format with one piece of code and
  walks it with another, which carries padding and a buffer along.

What makes each component correct:

- index queue: a bounded FIFO of indices, for every size;
- scheduler: every live thread is in exactly one place, every index of a thread
  is either free or used by one live thread; the loaded registers are
  those of `running_thread`; a thread that waits for a character never waits while one is
  buffered; a sleeper sleeps for exactly as many ticks as asked; the kernel never
  panics;
- memory: the page table loaded is that of the running thread's process, processes
  share no physical page, a stack overflow faults, and what a process has in its
  data and stacks is changed by that process only;
- system calls: what passes the pointer check does not make the kernel fault;
- boot: the first thread gets its own memory, every page the rights it should have;
- UART: characters reach readers once each, in the order they came;
- kernel library: exactly the formats of the grammar are accepted, and each directive
  prints what it means.

`PROJECT.json` lists the components with what is left out of each, and under
`hazards` each of these at the line where it bites.

## 2. Modules

| Module | Models | Role |
|---|---|---|
| `IndexFifo` | | abstract: a bounded FIFO of indices |
| `IndexRing` | `types.c:24-59`, `types.h:17-24` | pure operators of the ring, shared by the two below |
| `IndexQueue` | `types.c` | the ring as a state machine; implements `IndexFifo` |
| `SleepWalk` | `decrement_waits` of `scheduler.c` | its loop on the ring, an iteration per step, between any calls of the ring |
| `MCIndexQueue` | | instance of both for TLC |
| `Sequences_proofs` | | lemmas on sequences without repetitions, prefixes and concatenation, and induction on numbers, shared by the proofs below |
| `IndexRing_proofs` | | lemmas on the ring for every size, shared by the proofs below |
| `IndexQueue_proofs` | | theorems for every size of the ring, and on the walk over it |
| `Scheduler` | `scheduler.c`, `process.c`, `thread.c`, `isr.c`, `calls.c`, the count of `uart.c` | threads and processes: who runs, waits, exists |
| `ThreadLifecycle` | | abstract: turns, sleepers, readers and creation, as programs see them |
| `MCScheduler` | | instance for TLC |
| `Scheduler_proofs` | | theorems for every number of processes and threads: first those that hold with the defects, then those on where threads and indices are as long as none has struck, then the refinement of `ThreadLifecycle` |
| `AddressSpace` | `mmu.c`, `process.c`, `thread.c`, `calls.c` | page tables, physical pages and what they hold, pointers of threads |
| `AddressSpace_proofs` | | theorems for every number of processes and threads, every layout and any amount of memory |
| `PageEntries` | `mmu.c`, `include/std/bits.h` | pure operators: entries and DACR bit for bit, and the rights the processor reads in them |
| `Boot` | `entry.S`, `start.c`, `mmuasm.S`, the initialisation of every driver | from reset to `main_thread`, with interrupts and page walks at any moment; liveness |
| `Boot_proofs` | | theorems for every interleaving of the boot code, whatever domains and saved state the processor was reset with |
| `OwnProcessor` | | abstract: every thread has registers of its own |
| `Exceptions` | `ivt.S`, `registers.h`, `switch_context`, what `isr.c` and `calls.c` do to registers | frames, tcbs and the one processor; implements `OwnProcessor` |
| `CharStream` | | abstract: characters reach readers in order |
| `Devices` | `timer.c`, `uart.c`, `isr.c`, the waiting calls | timer and UART running on beside threads; liveness; implements `CharStream` |
| `Exceptions_proofs` | | theorems for any threads and register values |
| `Devices_proofs` | | theorems for any number of threads, size of the buffer, slice and duration |
| `Formatting` | `lib/std/io.c` | pure operators: numbers to text, field widths, the check of formats |
| `Printing` | `user/src/std/io.c`, `lib/std/io.c` | the walk of `printf` over a format, against a grammar with a meaning |
| `MCPrinting` | | letters, widths and arguments for TLC |

### From code to `Scheduler`

A tcb is an element of `threads`, whose domain is the *global* index, 0 being
`null_thread`; a pcb is an element of `processes`. `running_thread` is the global
index of the tcb the pointer points to. The registers themselves are one
variable, `cpu`: the thread whose context is loaded. `switch_context` sets
`cpu`; what it saves are the registers of the thread that was interrupted, which is
`running_thread` if `ContextMatchesRunning` holds. The registers in
detail are `Exceptions`'s.

Each handler is one action: `timer_irq` (with the `decrement_waits` and
`scheduler_cycle` that it calls), `uart_irq`, `exec_syscall_exit`, `_wait`,
`_get_char`, `_fork`, `_create_thread`, and `kill_offender` for faults and
unknown calls. Each is the whole of what the handler does; an ASSERTM that fails
ends in `halt # "none"`, after which nothing happens, since PANIC executes an
undefined instruction in kernel mode, whose handler ends in `kendless_loop`.

The three queues of threads and the queue of process slots are sequences,
which `IndexQueue` justifies. The queue of free thread indices *in a pcb* is not:
it is the ring of `IndexRing`, with its array in `frames`, because
`process_create` leaves the pointer to its array pointing into the stack frame it
has returned from (`process.c:25`), and two pcbs can thus share an array.
`Frames` are the places at which that frame can be: whether two calls
find it at the same depth depends on what was interrupted, so which one
a call uses is chosen freely.

`decrement_waits` is there twice: in closed form (how many sleepers are due, and
whether each due one is at the head when it is reached), which is what the actions
use and the proofs are about, and as the loop of the source, the recursive function
`Loop` whose value at `k` is what `k` iterations make of the queues and durations.
`DecrementIsTheLoop` says that they agree in every reachable state, and is proved.

`Loop` takes the sleeper of an iteration by its place in the sequence. The source takes it
by a cursor `p` that moves forward in the ring while `pop_index` moves `head` and shrinks
`count`, with a counter `i` that stands still then. That this comes to the same is the subject of
`SleepWalk`: `decrement_waits` an iteration per step, on any ring that `IndexQueue` can
leave, calling its `pop_index`; who is due is left open. It is an invariant of run `index_queue`.

The histories in `defects` record that one of two known flaws of the code
has struck. They guard nothing.

`ThreadLifecycle` is what all this is for: a kernel that has a queue of ready threads, sleepers
with the ticks they have left, a queue of readers and teams of threads, but no indices, tcbs,
free lists, rings or stack frames. `ImplementsLifecycle` maps it: `left` is
a function of the threads in `sleep_waiting`, in no order; a team is a process's set of
global indices; who is alive follows from where threads are, and not from free indices. It
names, for each handler, the one abstract action it has to be, since it would show little if
any would do, and holds of steps after which nothing has gone wrong. A creation
may change nothing, but only if there is no room.

### From code to `AddressSpace`

The L1 entry for user space is `mapped`, the pcb whose table it points to. An L2
table is a function from the pages it maps to physical pages
`<<megabyte, page>>`; a virtual page outside its domain faults. What a
physical page holds is abstracted to who wrote it last, for what.

Physical address space has three parts: the image below `BASE_MB` (init, kernel and user
code and the kernel's data, megabytes 0 to 4), `UserMegabytes`, and from `DEVICES_MB` (0x3F0)
on the devices or nothing. A megabyte counted from the base wraps at `N_MB` (4096 of them
in 32 bits). `StackFrame` puts a stack at the megabyte of the pid, as the code does, wherever that is:
above the memory what is written is not kept, and a write below `BASE_MB` is
`"overwritten"` in `halted`. What an overwritten kernel does, or a device that is written
as if it were a stack, is not followed: the model stops, or goes on without what was written.

`process_create` and `thread_create` switch to the new table and back, each for
its own copy (`MappedAfterData`, `MappedAfterCopy`). `thread_create` gets the table that
the first has left loaded and reads the arguments through it.

Which
thread is chosen to run is left open here: any live one, a superset of what the
scheduler does. Indices are returned as `Scheduler` shows they are in the
absence of its defects.

Virtual addresses are numbers, wrapping at `N_ADDRESSES`. `Requests` are all pairs of
a pointer and a size that pass the check of `fork` and `create_thread`, told apart by
what the kernel can notice: the size, and the pages that the copy reads. All
requests that are refused are one, which kills the caller; `NULL` is refused as well,
since 0 is below every stack. `thread_create` reads the block through the caller's
table and writes it through the new thread's, so one page that is not mapped stops the
kernel (`halted`).

### From code to `PageEntries` and `Boot`

A word is the set of the positions of its one bits, which makes shifts and masks set
operations, and lets the same word be built as the code builds it and read as the
processor reads it: the operators below the rule in `PageEntries` are the
architecture's and come from no file of the repository.

`pc` runs through `Program`, the statements of the boot code that something else can
come between. `switch_memory` is two of them, as it is on the processor: it
invalidates the TLB, then stores the L1 entry. (The source writes the entry twice, masked
and then completed; the compiler makes it one store at the level of optimisation of the
Makefile.) `Refill` is the processor's walker, which may cache any translation of the
current table at any time and need not; `EntriesFor` is what an access can then use.
Interrupts come whenever they are not masked. `spin` is every loop that is meant
to be endless. The names in `struck` are the accidents that booting does not
survive or may not: `"early tick"`, a timer interrupt before `init_scheduler`;
`"unstored tcb"`, one between the push of the first thread's index and the store of
its tcb; `"refill"`, a walk between the two instructions of a switch; and two of the
processor state that `init_mmu` returns with. They guard nothing.

`init_mmu` returns by `movs`, which loads the whole CPSR from the SPSR of supervisor mode, and
nothing has written that. `enable_mmu` therefore picks any of `ProcessorStates`. A word is
told apart by what it does to the code that runs on: `supervisor`, whether its mode is
supervisor mode (in user mode kernel code may not be fetched, in any other
privileged mode the stack is another one); `arm`, whether instructions are read as they were
compiled (the T and J bits); `little_endian`, whether data are; `irqs_masked`. Unless the first
three hold (`Sound`) the kernel is lost there: `"wrong state"`. If IRQs stay masked, nothing
is lost but no interrupt comes: `"masked"`. The bits that are left have no effect on the
boot code: flags are set before they are read, FIQs and asynchronous aborts have no source here.

Loads and stores take effect in program order: there is no barrier in `switch_memory`, but a walk that
reads the old entry after the store is not told apart from one before it, as both leave the
same translation cached (`"refill"`).

The table addresses are chosen so that mixing the bits of two of them, as a switch
that does not clear the old address would, gives the third.

### From code to `Formatting` and `Printing`

Text is a sequence of characters with `NUL` beyond its end; numbers are words of
`WordBits` bits. `num_str` is one buffer that keeps what longer numbers left in it.
`printf` in `user/` and `kprintf` in the kernel are the same text but for the call that
puts one character out; here it is the user's, with a step per `putchar`, a
system call. The grammar (`Directives`, `Spelling`) and the meaning of a
directive (`Means`) are written down independently of both
`check_format_str` and the walk.

### From code to `Exceptions`

`cpu` is what user code sees of the processor: its registers, pc and mode. r1 to
r12 are pushed, popped, saved and loaded together and are one word, `rest`. A
frame is a sequence of words, lowest address first. Three pieces of
code, which agree by comment only ("Do not change this, unless you know exactly
what you are doing"), are translated separately: what the vectors push
(`Pushed`, `IrqFrame`, `SvcFrame`, `FaultFrame`), where `struct registers` has its
fields (`At`), and what `exc_cleanup_return` pops. `Saved` and `Loaded` are
the two halves of `switch_context`. Words of other modes are `Foreign`, which no
register of a thread may ever hold.

A vector and its handler are one action, since IRQs are masked: a timer
interrupt, a UART interrupt, each system call, and the death of a thread by
`exit`, by a refused call or by a fault. `user_step` lets a thread write any
register, branches included; the loop of `null_thread` is a branch to itself. Which
thread runs next is left open: any that is created and does not wait for a
character. In this it is wider than `Scheduler` for behaviours that no defect
has struck; a defect can also run a waiting or a dead thread, which is left out
here. A fault in the kernel itself, after which nothing runs, is left out too.

Addresses count instructions. The processor sets `lr` one instruction past `pc`
(`ReturnAddress`). After an `svc` that is where the thread goes on; after an IRQ
the instruction at `pc` is still to be executed, and the vector subtracts
one (`IrqReturnAddress`).

### From code to `Devices`

`timer` is the local timer: ticks left, the interrupt flag, which is sticky, and the
enable bit. `rx` and `tx` are the data registers of the UART, whose FIFOs
`init_uart` disables. `Tick`, `Receive` and `Transmit` are the hardware and happen at any
time; a character that comes while `rx` is full is lost in the device. `queue` is
the ring of `uart.c`.

Handlers are atomic as in `Scheduler`, with one exception: `uart_put_char` waits for
the transmitter inside the system call, so `exec_syscall_put_char` enters the
kernel with the timer disabled and `uart_put_char` leaves it. A tick that ends the slice
during any other call is the same tick just before it, since an IRQ that is pending
need not be taken before the next instruction: every call is enabled while
`timer.flag` is set, and clears it.

Creation and exit of threads are left out, and `Duration` is one number: then sleepers
are due in the order of their queue and the flaw of section 4.2 does not
strike. `Woken` is what the loop of `decrement_waits` pops, as many from the head as it
finds due; that these are those due is proved (`WokenAreDue`). `owed` and `given` are histories.

## 3. Runs

| Run | Instance | Shows |
|---|---|---|
| `index_queue` | any ring of 3 slots, any sleepers due | types; every step of the ring is a step of `IndexFifo`; `decrement_waits` comes by each sleeper once and in order and ends at the tail, although it pops from the queue it walks |
| `scheduler` | 2 processes of 2 threads, 1 character of buffer, waits of 0 to 2 ticks, 2 frames; undamaged states only | exact accounting: no thread twice, no index lost, states match queues, sleepers age together; only the sleep order can panic the kernel; each handler is its step of `ThreadLifecycle` |
| `scheduler_damaged` | 3 processes of 1 thread, 1 frame, no restriction | what survives the defects: no array overrun, registers of `running_thread` loaded, no waiter while a character is buffered; `decrement_waits` in closed form is its loop |
| `scheduler_requeue` | 2 processes of 1 | violated: `TimerLosesNoThread` |
| `scheduler_sleep_order` | 1 process of 2 | violated: `SleepOrderAssertion` |
| `scheduler_frame` | 1 process of 2, 1 frame | violated: `IndicesStayAccounted` |
| `address_space` | 2 processes of 2 threads; 1 megabyte of image, 3 of memory, 1 of devices; 6 pids; pages of 12 words, stacks of 3, 10 pages of addresses | the page table loaded is the running process's, copies hit mapped pages whatever pointer passed the check (but for negative sizes), guard pages fault, processes are disjoint, image and devices are out of reach until the pids have grown that far, data and stacks survive |
| `address_space_megabyte` | the same with 6 megabytes without devices, 4 pids | violated: `OwnMegabyte` |
| `boot` | words of 32 bits, the whole program, SPSR and DACR at reset arbitrary | every page has the rights that its use calls for; the kernel is lost only to a tick at one of two moments or to a saved state that it cannot run in; `main_thread` finds its own memory unless the walker came in between; under fairness it runs unless something struck |
| `exceptions` | 2 threads and the null thread, register values 0 and 1 | only user registers are saved and loaded, threads run in user mode, `null_thread` spins, `OwnProcessor` is implemented, interrupts are invisible |
| `devices` | 2 threads, 2 characters, a buffer of 2, slices of 2 ticks, sleeps of 2 slices | characters reach readers in order and once, no sleeper wakes early; under fairness ready threads run and sleepers wake unless calls go on for ever, and characters leave the device |
| `printing` | words of 16 bits, all formats of up to 4 characters over 11 letters, pairs of longer directives, 5 arguments | the formats accepted are those of the grammar; each directive prints what it means, whatever was printed before |

Bounds, and why they suffice:

- `Size = 3` is the smallest ring with an inner slot; walks start on all of them, full and
  empty, at each head. The proofs cover all sizes.
- Two processes of two threads is the least in which the index in the process and
  the global index differ for some threads and agree for others, siblings exist,
  a process survives the exit of one thread, and slots run out.
- `UART_INPUT_BUFFER_SIZE = 1`: a buffer is empty or full; with waiters around
  it is empty, and what a full one does is in the model. Only the count matters.
- `Durations = {0, 1, 2}`: returns at once, due at the next tick, due later than
  somebody who went to sleep after. `SIZE_T` is the number of values of the
  unsigned counter; it has to exceed the number of threads (and is 2^32
  in the code), so that a counter decremented below zero is told from a small
  one: with the two defects a thread can be queued more than once and be
  decremented several times a tick.
- `CONSTRAINT Undamaged` of run `scheduler` stops at states in which a history
  in `defects` is set. The states in which a defect first strikes are
  generated and checked, as is every behaviour up to then. Run
  `scheduler_damaged` has no constraint, and the proofs have none either.
- `SYMMETRY FrameSymmetry`: frames are compared with each other and used as arguments of
  `frames`, nothing else, so that permuting them maps behaviours to behaviours.
- `MaxPid`, `DEVICES_MB` and `N_MB` of `address_space`: pids 1 and 2 have their stacks in memory,
  3 in a device, 4 wraps onto the image, 5 and 6 are in memory again, 6 where 1 was. So two live pids can
  also be so far apart that they share a megabyte. `ProcessesAreDisjoint` and
  `StacksSurvive` exclude that (`PidsAreClose`), and the latter the stacks
  that lie in devices or over the image, which keep nothing for their thread. `DataSurvives` has no
  premise: data lie at the index. In the code the distances are: from pid 1003 a stack
  is in device space, from 4091 over the image, and pids 4096 apart share a megabyte, where every
  `fork` counts, failed ones included.
- `Values = {0, 1}` of `exceptions`: with two values any two registers, of the same thread
  or of different ones, can be told apart in some state. Two threads and the null thread give every
  kind of switch; the proofs cover any number of both.
- `devices`: two characters in a buffer of two are the least for order and for the
  ring's wrap; two ticks tell a slice just begun from one about to end; two slices, a sleep whose
  first tick is not its last; two threads can both wait, both sleep, or leave each
  other the processor.
- Addresses of `address_space`: a stack of three words has a bottom, a top and one
  between, so that a block can start at each and end inside, at and beyond the top; a
  page of four stacks is what the code has (0x1000 and 0x400), and only
  `2 * THREAD_STACK_SIZE <= PAGE_SIZE` matters. The pages cover the user megabyte with a page before
  and after it, so that every pair of pointer and size can be enumerated.
- `boot` has no bound but one slot of input buffer, as above: the program is finite.
- `printing`: four characters hold a conversion with two flags or digits before it and any
  two short ones side by side; longer directives come in pairs, the second being
  printed with what the first left in `padding` and `num_str`. The arguments are the ends of both
  number ranges, 0 and 1. With 16 bits the longest numbers have 5 decimal digits.
- Deadlock is checked in every run but `printing`, where `printf` returns. A kernel that
  has stopped has an action of its own (`kendless_loop` in `Scheduler` and
  `AddressSpace`, `spin` in `Boot`).

**Fairness.** Two runs assume any. In `boot` the processor executes the next
instruction of the boot code, the timer runs, and a pending timer interrupt is taken: all
weakly fair. Nothing is assumed of the UART or of page walks.

In `devices` weakly fair are the hardware (`Tick`,
`Transmit`), the end of the wait for the transmitter, and taking the timer interrupt: the
processor takes an IRQ that stays pending. The UART interrupt is strongly fair.
`irq_handler` looks at the timer first, so with weak fairness timer interrupts
could keep it from the UART for ever; but a slice is a second, and a handler is
shorter. It is not short: all levels of the log are on (`config.h:20-22`), and every
character of it waits for the transmitter, about a tenth of a millisecond at a usual 115200
baud. A creation logs a dozen lines or two and a fault prints a snapshot of some thousand
characters, so the longest handler takes some tenths of a second, and a pending UART
interrupt is taken before the next slice ends. What threads do and what is received is not fair. The timer interrupt is not
fair as such: every system call restarts the slice (`isr.c:185-191`), so a thread that
makes calls often enough is never preempted, which is why `ReadyThreadsRun` and
`SleepersWake` except endless calls.

## 4. What the runs found

1. **A preempted thread is requeued under the wrong index**
   (`scheduler.c:219`). `scheduler_cycle` pushes `old_thread->index`, the index in
   the process, where every other place pushes the global one. A thread of any
   process but the first is dropped by its first preemption and a thread of
   process 1 gets its place, possibly one that is already queued, waiting, or
   was never created.
2. **A sleeper due behind one that is not stops the kernel**
   (`scheduler.c:75-76`). The queue is in the order of going to sleep. When the
   second sleeper is due first, the head is popped instead and the assertion
   about it fails.
3. **The free-index array of a process lives in a dead stack frame**
   (`process.c:25`, `scheduler.c:163`). The next `fork` refills it, and an index
   in use is handed out a second time.
4. **Stacks lie in the megabyte of the pid** (`thread.c:98`, `mmu.c:306`) and not
   of the process's index as the comment says. Data and stacks of a process
   drift apart and the stacks move up one megabyte per fork.

Each of these four is a run that TLC must find violated, with the comment or assertion it
contradicts quoted in `PROJECT.json`. The rest are observations, made where the
model had to say what the code does; the properties name them as exceptions.

5. **The megabytes of stacks have no end** (`mmu.c:325`). Nothing compares them with what
   there is: from pid 1003 they are in device space, and from 4091 on the sum no longer fits its 12
   bits and the stacks lie over the image, kernel code included, with full access for the thread. Both
   are reached in run `address_space`; `UsersStayInTheirMemory` says up to which pid neither
   happens, and `StacksSurvive` speaks of stacks in memory only.
6. **The block that is verified is not the block that is copied**
   (`calls.c:105-111`, `thread.c:113`). The check takes `args` and
   `args - (args_size - 4)`, a block below `args`; the copy reads upwards from `args`. A
   caller with a large block near the bottom of its stack is killed though its block is
   inside; a block near the top may be read beyond the stack, but stays
   in its page. A size that is negative as a signed number passes, and the copy then stops
   the kernel. `fork` and `create_thread` without arguments (`NULL`) are refused.
7. **Booting is exposed** at four moments. A tick before `init_scheduler` logs through
   `running_thread`, which is `NULL`. A tick between the push of an index and the
   store of its tcb (`scheduler.c:175-178`) runs a zeroed tcb. A walk between the invalidation of the TLB
   and the store of the entry (`mmu.c:346-350`) leaves old translations in use. And
   `init_mmu` ends in `movs pc, lr`, which takes mode, instruction set, byte order and masks from
   an SPSR that nothing has written.
8. **The third permission bit of an L2 entry** goes to bit 10, where the architecture
   has another; no entry is built with a permission that has it.
9. **The snapshot at a fault** shows the `sp` of undefined mode in the
   line of User/System (`isr.c:133`) and overwrites the string of SPSR before printing it
   (`isr.c:107`, `112`).
10. **A sign is printed before the padding**: `%3d` of -7 is `- 7`. It counts in the width; the
   `0x` of `%p` does not.

## 5. Proofs

Assumed are only the named assumptions on constants in the modules: sizes are
positive naturals, `SIZE_T` exceeds the number of threads, `NoFrame` is not a frame; for `Devices` that
there are finitely many threads and `None` is neither one nor a character; for `AddressSpace`
that pages, stacks and addresses are aligned to words and the user megabyte to pages,
that a page has room for two stacks, that all stacks lie within the addresses, and that
there is a megabyte for each process between the image and the devices.

**Index queue**, for every size. `TypeOK` is inductive together with
`TailFollowsHead` (the tail is `count` slots after the head, modulo the size)
and `QueuedAreIndices` (what lies between them is in range). The second is needed
since an empty ring and a full one have the same head and tail and only `count`
tells them apart. From it `StepsAreFifoSteps` follows and `RingIsFifo`: the ring
implements `IndexFifo` under the mapping that reads `count` slots
from the head. The proofs do arithmetic modulo the size by cases (wrapped or not), in
`IndexRing_proofs`, and so do its lemmas on what a queue stands for (`PushedContents`: a push
appends; `PoppedContents`: a pop takes the head away). They are about a queue value, so
that the scheduler's pcbs and the input buffer of the UART use the same ones.

**The walk over it**, for every size. `WalkInv` adds to the invariant of the ring `Underway`: the `i`
elements passed are at the head of the queue, the cursor is `i` slots behind the head, those
woken and those queued are together what there was (`MovedOver`: a pop takes from one to the
other), and what has been visited is as long as both. So the element under the
cursor is the next of those there were (`ReadsTheNext`), and a counter that has reached the
count has its cursor at the tail. After the assertion about the order has failed only the
part about visits is left.

- `WalkOnlyCalls`: what is proved of the ring holds of the ring that is walked;
- `WalkIsComplete`: the invariant of run `index_queue` about the walk, with the assertion
  behind the loop (`scheduler.c:88`).

**Scheduler**, for any number of processes and threads, buffer size, durations and
frames, *with* the defects. The inductive invariant is

    TypeOK /\ ContextMatchesRunning /\ CharWaitersMeanEmptyBuffer
           /\ TcbsBacked /\ RunningWasCreated

`TypeOK` is not inductive by itself: when a thread exits, its index is pushed into
the array of its process, which must exist. `TcbsBacked` says that a tcb that
names a process names one whose free queue has an array, and
`RunningWasCreated` that a running kernel never runs the empty tcb of a thread that
was never created; without the second the exit of such a thread would release
index 0 of process 0. The argument goes action by action: `Scheduler_proofs`
has a lemma for `Cycle` (what `scheduler_cycle` leaves of the invariant, in each
of its four branches), one for `Released`, one for `thread_create`, and a step
per handler. The branch "Losing the thread!" of `scheduler_cycle` is shown
unreachable on the way: the pop before it makes the room.

- `SchedulerTypes`: no queue outgrows its array and no index leaves its range;
- `ContextAlwaysMatches`: the registers loaded are those of `running_thread`
  whenever user code runs;
- `NoWaiterMissesACharacter`: a thread waits for a character only while none
  is buffered;
- `LoopRefinesDecrement`: the loop of `decrement_waits` does what the closed form says.

The last is by induction on the iterations. `LoopEquation` shows that the recursion defines a
function at all. `LoopReaches` says what `k` iterations have done: the assertion has failed if
one of the first `k` sleepers was due and not at the head, and else as many are popped
as were due (`DueOneMore`), those of them that fit are ready, and each duration is less, modulo
`SIZE_T`, by how often its thread occurred. `LoopStepReaches` takes it over one iteration. Neither
types nor accounts are enough for less: with the defects a thread can sleep twice, so
that an iteration can see a duration that an earlier one has changed, and
the ready queue can be too full for those that wake.

**Scheduler, accounting**, for the same constants, as long as neither defect has struck.
None of these properties is inductive, and they cannot be separated: that no thread is in
two queues depends on a new thread getting an index that no thread has, that on the
free queue of its process, and that on what exits gave back. The invariant is

    (Undamaged => Accounts) /\ OnlySleepOrderHalts

where `Accounts` has these parts, each an operator on values, so that lemmas can
speak of the state in the middle of a handler:

- `Apart`: no thread is in two of its places, nor in one twice. The places are the three
  queues and the processor;
- `Registered`: the tcb of a thread that is in one of them names a live process and the
  thread's own index there. This is what makes an exit give back the right index;
- `Arrays`: the ring of free indices of a live process holds, once each, the indices that
  no thread has, and no two processes have theirs at the same place. That the ring lies in
  `frames` makes the second part necessary: else a push would change both;
- `Inhabited`: a live process has a thread. So the last exit, and no other, frees the slot;
- `Marked` and `HaveTimeLeft`: WAITING marks the readers, sleepers have ticks left.

The proof rests on facts that each have a lemma. `GlobalIndexInjective`: a global index is that of
one process and one index there. `TakenIndex` and `ReturnedIndex`: a pop from the
free ring and a push into it, seen as sets of indices, leave all other processes' rings
alone. `CycleMoves`: when no defect strikes, `scheduler_cycle` requeues the old thread
under its own number and changes nobody else's place. `DueComeFirst` and `WokenAreDue`: if
no assertion about the order fails, the sleepers due are the head of the queue, so that what
`decrement_waits` pops is what is due. Then a lemma per handler; creation is one for
`fork` and `create_thread` (`CreateAccounts`). `DamageStays` covers steps
after a defect.

- `NoThreadIsTwice`, `NoIndexIsLost`, `WaitingMarksReaders`: the three invariants of run
  `scheduler` that hold while nothing has struck, and `NoDurationWraps`: sleepers have ticks
  left, which is part of the accounts and what the next theorem rests on;
- `OnlySleepOrderStops`: of the scheduler's assertions only the one about sleepers can fail;
- `SleepersAge`: an action property of run `scheduler`;
- `LifecycleImplemented`: the refinement, handler by handler.

The last needs more than the accounts of the states before and after: the queues in their order.
`CycleMoves` and `ParkMoves` give them (`Turned`) from the same cases as before: the preempted
thread is pushed under its own number since no defect strikes, and there is room. `TimerTicks`
takes `WokenAreSome`, that what is popped are the due in some order, from `WokenAreDue`. For
creation, `CountTellsWhoLives` turns counts of free indices into who is alive: a count of 0
says that the team is complete, a count below the size that it has somebody, so that a
refused `create_thread` and a refused `fork` mean what they should. In `UartBrings` the full buffer is
the case that needs `CharWaitersMeanEmptyBuffer`: nobody waits then, so that the character that is
discarded was nobody's.

**Exceptions**, for any set of threads and any set of register values that
contains 0 and 1. The inductive invariant is

    TypeOK /\ NoThreadRunsPrivileged /\ NullThreadSpins /\ SavedModes

where `SavedModes` says that the tcb of `null_thread` is as `init_null_thread`
made it, and that every tcb in use is in user mode. It is needed since a
switch takes mode and pc from a tcb. The proof has three layers. Lemmas on frames
(`PushedWords`, `CleanupPops`, `LoadedReturns`, `PushedReturns`) show that
what is pushed returns to the interrupted context, and what is loaded to the
loaded one. A lemma per handler (`TimerEffect`, ..., `KillEffect`) restates the
action without frames. From these follow the invariant (`StepKeepsInvariant`)
and the refinement (`StepRefines`), one step per action.

- `TypeCorrect`, `ThreadsRunInUserMode`, `NullThreadStays`: the three invariants;
- `Implementation`: `Exceptions` implements `OwnProcessor`, whose registers of a
  thread are the processor's while it runs and its tcb's while it does not;
- `Invisibility`: an interrupt changes no register of any thread but `r0` of one
  that waits for a character; a call without a result changes its pc only.

**AddressSpace**, for any number of processes and threads, sizes of pages and stacks,
place of the user megabyte and amount of memory. The inductive invariant is

    TypeOK /\ MappingMatchesRunning /\ CopiesHitMappedPages
           /\ FreeOnce /\ TablesFit /\ PidsDiffer /\ ImageIsSafe

- `FreeOnce`: no slot and no index of a live process is free twice. It makes
  `kill_cur_thread`'s test sound: a process slot is freed when the *count* of free
  indices reaches the number of threads, and a count says that all of them are back only
  if none is there twice (lemma `AllAreFree`).
- `TablesFit`: the table of a live process maps its data page, at the megabyte of its
  index, and stack pages at the megabyte of its pid, nothing else; and every live
  thread's stack is mapped. Stack pages of ended threads stay mapped, so this cannot be
  an equality.
- `PidsDiffer`: pids of live processes differ and none exceeds `pid_counter`.
- `ImageIsSafe`: nothing has been written over the image while pids are few enough. It needs
  `TablesFit` and `PidsDiffer`: a write goes through a table, and so to the megabyte of a pid that
  `pid_counter` bounds.

The lemmas on addresses come first: `get_stack_pointer` points into the page that
`init_thread_memory` fills (`StackPointerPage`), and a block that passes `verify_pointer`
with a size that is not negative lies in that page (`VerifiedInStackPage`), although
what is checked is the block below the argument and what is copied the one above it: the
page has room for two stacks. Then a lemma per action, a creation being the same one
for `fork` and `create_thread` (`Created`).

- `MemoryTypes`, `RunningTableIsLoaded`, `NoCopyFaults`, `GuardPages`,
  `DisjointProcesses`, `UsersStay`: the six invariants of run `address_space`;
- `DataIsKept`, `StacksAreKept`: its two action properties. `StepWrites` says that a step
  changes pages only in the name of their live owner and that whoever is new has been
  written; `PagesOwned`, that an owner is reached through its table and is the only one.
  That live pids are less than the address space apart is a hypothesis of the second
  (`PidsAreClose`), and so is that the page lies in memory, since the code gives pids no
  bound. The first needs neither: the index of a process is bounded.

**Devices**, for any finite set of threads, any characters, size of the buffer, length of a
slice and duration. The inductive invariant `DInv` has, besides types,

- `Places`: no thread is in two of its places, nor in one twice;
- `Paid`: what a sleeper has still to sleep is at most `(left - 1) * Slice` ticks and what is
  left of the slice under way, which is nothing while an interrupt is pending. `TypeOK`
  and `SleepersSleepLongEnough` say nothing of the timer and are not inductive; this
  is where it matters that a call clears a pending interrupt with the reload: a
  slice that ended before a thread went to sleep would else count for it;
- `InOrder`: sleepers are in the order in which they wake. So the sleepers due are the first
  ones, and popping as many as are due wakes them (`WokenAreDue`);
- `Filled`: the tail of the buffer is behind its characters, and there is none while a thread
  reads.

`BufferedRing` and `PoppedRing` show that the ring of `uart.c` is that of `types.c`, field by
field, and `BufferedKept` and `PoppedKept` take its contents from `IndexRing_proofs`.

- `DeviceTypes`, `NoSleeperWakesEarly`: the two invariants of run `devices`;
- `CharactersStream`: `Devices` implements `CharStream`, under the mapping that reads
  `count` characters from the head. `UartIrqComes` maps the interrupt to a character that
  comes, in its three cases (lost, kept, read); `GetCharReads` the call to a thread that
  reads; all other steps stutter.

**Boot**, for every interleaving of the boot code with interrupts, page walks and devices,
every state that `SPSR_svc` can restore, every content of the DACR at reset and every size of the
input buffer. The invariant is

    TypeOK /\ Phases /\ TablesBuilt /\ CacheFollows /\ DataCopied

- `Phases`: what each position of the program has behind it: which devices are on, what runs,
  and that a context is only lost to one of three strikes. It makes the properties
  about a tick inductive: a tick needs the timer, which is turned on at one place.
- `TablesBuilt`: the tables are, entry for entry, what the statements so far have
  written, and the first-level entry of user memory points to `CurrentTable`, which depends on
  the position only. `RightsAsIntended` speaks of the present table; at the next switch
  another one becomes that.
- `CacheFollows`: the TLB has only entries of the current table unless the walker came in
  between, and none before the switch; whatever happened, it has entries of user pages
  only.
- `DataCopied`: which frame has what of the initial data.

The lemmas below that are about bits. A word is a set of positions, and `Shifted`, `BitsSet` and
`PermissionBits` say where the parts of an entry end up. From these `SectionEntry`,
`SmallPageEntry` and `PointerEntry` read an entry back as the processor does: the type,
address, domain and permissions with which it was built. That they are read from the same
word is what the code could get wrong, and did for one permission (section 4.8).

- `BootTypes`, `MemoryProtected`, `OnlyStrikesLoseTheKernel`, `MainThreadIsAtHome`:
  the four invariants of run `boot`.

**Only model-checked.** The three properties of `Printing`. They speak of `b^n`, the text
of a number, whose laws would have to be proved by induction first, and of widths
and numbers that differ per format, so that a proof would be about `Text` and
`Means` at each length; the run has all formats of up to four characters instead.
Liveness (`boot`, `devices`) and what depends on ENABLED stay with TLC in any case. Induction
over data is done where it is needed, with `NatLessThanWellFounded` and a set in place of
the predicate (`LeastNumber`, `UpToInduction` in `Sequences_proofs`).

## 6. Plan

In this order; what is done is marked.

1. `IndexRing`, `IndexQueue`, `IndexFifo` with proofs -- done.
2. `Scheduler` with its findings and first proofs -- done.
3. `AddressSpace` with its findings -- done.
4. `ThreadLifecycle`: the abstract specification of what the scheduler promises, refined
   by `Scheduler` as long as neither defect has struck -- done.
5. `Devices` with `CharStream`: time slices, the UART, liveness -- done.
6. `Boot` with `PageEntries`: from reset to the first thread with IRQs enabled
   (`entry.S:59`), and the entries of the tables bit by bit -- done.
7. Proofs about `Devices`: `TypeOK`, `SleepersSleepLongEnough`, `ImplementsCharStream` --
   done.
8. `verify_pointer` against what `thread_create` copies (`calls.c:104-111`,
   `thread.c:111-119`) -- done, in `AddressSpace`.
9. `Formatting` and `Printing`: the conversions and the walk of `lib/std/io.c` -- done.
10. The order of L1 entry, tables and TLB at start-up (`mmu.c:342-351`) -- done, in `Boot`.
11. `Exceptions`: the registers that `isr.c`, `ivt.S` and `thread.c` save and load,
    with its proofs -- done.
12. Proofs: all eight properties of run `address_space`, all safety properties of
    `Scheduler` with its loop, the invariants of `Boot`, the refinement of 4 -- done.

## 7. Not modelled

- Cacheability, shareability and the TEX bits of table entries, and `TTBCR`, which is set
  to 0: constants that select what the model takes for granted. Permissions, domains,
  types and addresses are modelled.
- In `entry.S` what comes before `_init_modes`: leaving the hypervisor mode and parking
  the other cores, which never run the kernel.
- Banked registers of the exception modes: handlers never write them, and only the
  snapshot printed at a fault reads them (with the names it prints of modes and faults).
- The line settings of the UART: registers written once at start-up.
- The prefixes of log lines, `kstrncpy`, and the thread ids that logging prints.
- The demo program in `user/`: it is one of the programs that the
  scheduler model lets run, since any thread may make any call at any time.
- The Makefiles and `kernel_debug.lds`.
