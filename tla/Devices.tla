------------------------------ MODULE Devices ------------------------------
(***************************************************************************)
(* The timer and the UART with their drivers (driver/timer.c,              *)
(* driver/uart.c), the handlers that serve them (system/isr.c), and what   *)
(* becomes of threads that compute, sleep, read and write.                 *)
(*                                                                         *)
(* Devices run on while the kernel executes: a time slice may end, and a   *)
(* character come, during a system call.  Since IRQs are masked, one that  *)
(* does is seen when the call returns, and a call that does not wait for a *)
(* device is one action.                                                   *)
(*                                                                         *)
(* The threads exist from the start and do not exit, and all sleep         *)
(* equally long; module Scheduler has the rest.                            *)
(***************************************************************************)
EXTENDS Integers, Sequences, FiniteSets, SequencesExt

CONSTANTS
    Threads,                 \* user threads of the first process
    Chars,                   \* what the UART may receive
    None,                    \* no thread (null_thread runs), or no character
    UART_INPUT_BUFFER_SIZE,
    Slice,                   \* ticks of the timer from a reload to its interrupt
    Duration                 \* time slices for which a thread sleeps

ASSUME DevicesAssumption ==
    /\ IsFiniteSet(Threads)
    /\ None \notin Threads \cup Chars
    /\ UART_INPUT_BUFFER_SIZE \in Nat \ {0}
    /\ Slice \in Nat \ {0}
    /\ Duration \in Nat \ {0}

VARIABLES
    timer,    \* the local timer: ticks left, interrupt flag, interrupt enabled
    rx,       \* the receive register of the UART; its FIFO is disabled
    tx,       \* whether the transmit register is full
    queue,    \* the input buffer of the UART driver
    running,  \* running_thread
    putting,  \* whether the kernel is in uart_put_char, with IRQs masked
    ready,    \* thread_indices_q
    sleepers, \* sleep_waiting_q
    readers,  \* char_waiting_q
    left,     \* waiting_duration of every thread
    owed,     \* history: ticks that a sleeper is still to sleep
    given     \* history: the last character read, and who read it

schedule == <<running, ready, sleepers, readers, left>>
vars == <<timer, rx, tx, queue, putting, schedule, owed, given>>

-----------------------------------------------------------------------------
(* driver/timer.c.                                                          *)

\* reset_timer that reloads the timer and forgets its interrupt (mutant).
ResetKeepsFlag(t) == [t EXCEPT !.ticks = Slice]

\* reset_timer clears the interrupt and starts a new slice.
reset_timer(t) == [t EXCEPT !.flag = FALSE, !.ticks = Slice]

enable_timer(t) == [t EXCEPT !.enabled = TRUE]
disable_timer(t) == [t EXCEPT !.enabled = FALSE]

\* software_interrupt_handler that leaves the timer disabled (mutant).
CallLeavesDisabled == reset_timer(disable_timer(timer))

\* The timer after software_interrupt_handler.
TimerAfterCall == enable_timer(reset_timer(disable_timer(timer)))

\* The timer counts down, and at the end of a slice sets its flag and reloads.
Tick ==
    /\ timer' = IF timer.ticks > 1 THEN [timer EXCEPT !.ticks = @ - 1]
                                   ELSE [timer EXCEPT !.ticks = Slice, !.flag = TRUE]
    /\ owed' = [t \in Threads |-> IF owed[t] = 0 THEN 0 ELSE owed[t] - 1]
    /\ UNCHANGED <<rx, tx, queue, putting, schedule, given>>

-----------------------------------------------------------------------------
(* driver/uart.c.                                                           *)

CircleForward(var, size) == IF var + 1 >= size THEN 0 ELSE var + 1

\* init_uart.
EmptyBuffer == [size |-> UART_INPUT_BUFFER_SIZE, count |-> 0, head |-> 0, tail |-> 0,
                chars |-> [i \in 0 .. UART_INPUT_BUFFER_SIZE - 1 |-> None]]

\* uart_push_char that takes one character too many (mutant).
BufferFullLate(q) == q.count > q.size

BufferFull(q) == q.count >= q.size

\* uart_push_char of a character that is not discarded.
Buffered(q, c) == [q EXCEPT !.chars[q.tail] = c,
                            !.tail = CircleForward(q.tail, q.size), !.count = @ + 1]

\* A uart_pop_char that counts but does not move the head (mutant).
PoppedInPlace(q) == [q EXCEPT !.count = @ - 1]

\* uart_pop_char: the character, and the buffer without it.
uart_peek_char(q) == q.chars[q.head]
Popped(q) == [q EXCEPT !.head = CircleForward(q.head, q.size), !.count = @ - 1]

\* uart_push_char that looks at its buffer before it reads the device (mutant).
KeptIfFull == IF BufferFull(queue) THEN rx ELSE None

\* uart_push_char has read the data register, whatever it does with the character.
ReadOut == None

\* A character comes; one that comes while the register is full is lost.
Receive(c) ==
    /\ rx = None
    /\ rx' = c
    /\ UNCHANGED <<timer, tx, queue, putting, schedule, owed, given>>

\* The transmitter has sent its character.
Transmit ==
    /\ tx
    /\ tx' = FALSE
    /\ UNCHANGED <<timer, rx, queue, putting, schedule, owed, given>>

-----------------------------------------------------------------------------
(* scheduler.c.                                                             *)

\* decrement_waits wakes as many sleepers as it finds due, and since it pops them,
\* these are the first; all sleep equally long, and so they are those due.
Due == {k \in 1 .. Len(sleepers) : left[sleepers[k]] = 1}
Woken == SubSeq(sleepers, 1, Cardinality(Due))

\* scheduler_cycle that needs two queued threads to switch (mutant).
CycleOffByOne(old, queued) ==
    IF Len(queued) <= 1 THEN running' = old /\ ready' = queued
    ELSE running' = Head(queued) /\ ready' = IF old = None THEN Tail(queued)
                                             ELSE Append(Tail(queued), old)

\* scheduler_cycle once the sleepers are counted down: the first of those
\* queued takes the place of old, which goes to their end.
Cycle(old, queued) ==
    IF queued = <<>> THEN running' = old /\ ready' = <<>>
    ELSE /\ running' = Head(queued)
         /\ ready' = IF old = None THEN Tail(queued) ELSE Append(Tail(queued), old)

decrement_waits ==
    /\ left' = [t \in Threads |-> IF t \in ToSet(sleepers) THEN left[t] - 1 ELSE left[t]]
    /\ sleepers' = SubSeq(sleepers, Cardinality(Due) + 1, Len(sleepers))

-----------------------------------------------------------------------------
(* isr.c and calls.c.                                                       *)

\* An IRQ is taken in user mode only.
Interruptible == ~putting

\* irq_handler, for the timer.
timer_irq ==
    /\ Interruptible
    /\ timer.flag
    /\ timer.enabled \/ rx # None
    /\ decrement_waits
    /\ Cycle(running, ready \o Woken)
    /\ timer' = reset_timer(timer)
    /\ UNCHANGED <<rx, tx, queue, putting, readers, owed, given>>

\* irq_handler, for the UART: the character is read from the device, and lost
\* if the buffer is full; else the oldest reader gets the oldest character.
uart_irq ==
    /\ Interruptible
    /\ ~timer.flag
    /\ rx # None
    /\ rx' = ReadOut
    /\ \/ /\ BufferFull(queue)
          /\ UNCHANGED <<queue, readers, ready, given>>
       \/ /\ ~BufferFull(queue)
          /\ LET q == Buffered(queue, rx)
             IN  \/ /\ readers = <<>>
                    /\ queue' = q
                    /\ UNCHANGED <<readers, ready, given>>
                 \/ /\ readers # <<>>
                    /\ queue' = Popped(q)
                    /\ given' = <<Head(readers), uart_peek_char(q)>>
                    /\ readers' = Tail(readers)
                    /\ ready' = Append(ready, Head(readers))
    /\ UNCHANGED <<timer, tx, putting, running, sleepers, left, owed>>

\* The running thread may issue a system call.
CanCall == running # None /\ ~putting

exec_syscall_get_char ==
    /\ CanCall
    /\ timer' = TimerAfterCall
    /\ \/ /\ queue.count = 0
          /\ readers' = Append(readers, running)
          /\ Cycle(None, ready)
          /\ UNCHANGED <<queue, given>>
       \/ /\ queue.count # 0
          /\ given' = <<running, uart_peek_char(queue)>>
          /\ queue' = Popped(queue)
          /\ UNCHANGED <<readers, running, ready>>
    /\ UNCHANGED <<rx, tx, putting, sleepers, left, owed>>

exec_syscall_wait ==
    /\ CanCall
    /\ timer' = TimerAfterCall
    /\ sleepers' = Append(sleepers, running)
    /\ left' = [left EXCEPT ![running] = Duration]
    /\ owed' = [owed EXCEPT ![running] = Duration * Slice]
    /\ Cycle(None, ready)
    /\ UNCHANGED <<rx, tx, queue, putting, readers, given>>

\* exec_syscall_put_char waits in the kernel until the transmit register is empty.
exec_syscall_put_char ==
    /\ CanCall
    /\ putting' = TRUE
    /\ timer' = disable_timer(timer)
    /\ UNCHANGED <<rx, tx, queue, schedule, owed, given>>

uart_put_char ==
    /\ putting
    /\ ~tx
    /\ tx' = TRUE
    /\ putting' = FALSE
    /\ timer' = TimerAfterCall
    /\ UNCHANGED <<rx, queue, schedule, owed, given>>

\* After start_kernel: null_thread, and the threads ready.
Init ==
    /\ timer = [ticks |-> Slice, flag |-> FALSE, enabled |-> TRUE]
    /\ rx = None /\ tx = FALSE /\ putting = FALSE
    /\ queue = EmptyBuffer
    /\ running = None
    /\ ready \in {q \in [1 .. Cardinality(Threads) -> Threads] : ToSet(q) = Threads}
    /\ sleepers = <<>> /\ readers = <<>>
    /\ left = [t \in Threads |-> 0]
    /\ owed = [t \in Threads |-> 0]
    /\ given = None

Next ==
    \/ Tick
    \/ \E c \in Chars : Receive(c)
    \/ Transmit
    \/ timer_irq
    \/ uart_irq
    \/ exec_syscall_get_char
    \/ exec_syscall_wait
    \/ exec_syscall_put_char
    \/ uart_put_char

\* The timer ticks, the transmitter sends, and the processor executes: it takes
\* an interrupt that stays pending, and it does so long before a slice is over, so
\* that timer interrupts cannot keep it from the UART for ever.  What threads do
\* and what is received is up to them.
Fairness ==
    /\ WF_vars(Tick)
    /\ WF_vars(Transmit)
    /\ WF_vars(timer_irq)
    /\ SF_vars(uart_irq)
    /\ WF_vars(uart_put_char)

Spec == Init /\ [][Next]_vars /\ Fairness

-----------------------------------------------------------------------------
(* Correctness.                                                             *)

Buffers == [size : {UART_INPUT_BUFFER_SIZE}, count : 0 .. UART_INPUT_BUFFER_SIZE,
            head : 0 .. UART_INPUT_BUFFER_SIZE - 1, tail : 0 .. UART_INPUT_BUFFER_SIZE - 1,
            chars : [0 .. UART_INPUT_BUFFER_SIZE - 1 -> Chars \cup {None}]]

\* A queue of threads, none of them twice.
Queues == {q \in UNION {[1 .. n -> Threads] : n \in 0 .. Cardinality(Threads)} : IsInjective(q)}

TypeOK ==
    /\ timer \in [ticks : 1 .. Slice, flag : BOOLEAN, enabled : BOOLEAN]
    /\ rx \in Chars \cup {None}
    /\ tx \in BOOLEAN /\ putting \in BOOLEAN
    /\ queue \in Buffers
    /\ running \in Threads \cup {None}
    /\ ready \in Queues /\ sleepers \in Queues /\ readers \in Queues
    /\ left \in [Threads -> 0 .. Duration]
    /\ owed \in [Threads -> 0 .. Duration * Slice]
    /\ given \in {None} \cup (Threads \X Chars)

\* The characters in the buffer, oldest first.
Kept == [k \in 1 .. queue.count |-> queue.chars[(queue.head + k - 1) % queue.size]]

Stream == INSTANCE CharStream
              WITH kept <- Kept, Nobody <- None, BufferSize <- UART_INPUT_BUFFER_SIZE

\* Readers get the characters that the kernel takes from the device in order,
\* each one once, and none is lost while there is a reader or a free slot, over
\* any interleaving of interrupts and calls (uart.c:100-140, isr.c:204-211,
\* calls.c:57-69, scheduler.c:331-359).
ImplementsCharStream == Stream!Spec

\* "Wait for at-least the given duration in time-slides" (user/include/sys/calls.h):
\* no thread is woken earlier, although a slice may end while it makes the call.
SleepersSleepLongEnough == \A t \in Threads : owed[t] > 0 => t \in ToSet(sleepers)

\* A system call returns, and the timer has been reset.
Call == exec_syscall_get_char \/ exec_syscall_wait \/ uart_put_char

\* A thread that is ready runs at some time, unless some other thread keeps the
\* processor for ever with calls that start its time slice anew (isr.c:185-191).
ReadyThreadsRun ==
    \A t \in Threads :
        \/ t \in ToSet(ready) ~> running = t
        \/ \E u \in Threads : <>[](running = u) /\ []<><<Call>>_vars

\* A sleeper wakes up at some time, unless calls are made for ever that start
\* the time slice anew (scheduler.c:316-320).
SleepersWake ==
    \/ \A t \in Threads : t \in ToSet(sleepers) ~> t \notin ToSet(sleepers)
    \/ []<><<Call>>_vars

\* A character does not stay in the device, where the next one would overrun
\* it: whatever threads do, the timer interrupt, which comes first in
\* irq_handler, and the wait for the transmitter with IRQs masked pass
\* (isr.c:201-204, uart.c:185-190).
CharactersAreTaken == rx # None ~> rx = None
=============================================================================
