------------------------------ MODULE Scheduler ------------------------------
(***************************************************************************)
(* system/scheduler.c with the process and thread creation of              *)
(* system/process.c and system/thread.c, driven by the interrupt handlers  *)
(* of system/isr.c and the system calls of system/calls.c.                 *)
(*                                                                         *)
(* One core, and every exception masks IRQs until it returns: a handler    *)
(* runs to its end, so each handler is one action.  Between two handlers   *)
(* some thread, or the null thread, runs user code.                        *)
(*                                                                         *)
(* The queues of scheduler.c are sequences here: IndexQueue shows that the *)
(* ring of data/types.c is a bounded FIFO.  The queue of free indices in a *)
(* process keeps its ring, because its array is reached through a pointer  *)
(* and what that pointer points to matters.                                *)
(***************************************************************************)
EXTENDS IndexRing, FiniteSets, SequencesExt

CONSTANTS
    N_PROCESSES,             \* config.h
    N_THREADS_PER_PROCESS,   \* config.h
    UART_INPUT_BUFFER_SIZE,  \* config.h
    Frames,      \* svc-stack addresses process_create's local pcb can be at
    NoFrame,     \* the NULL pointer
    Durations,   \* arguments of the wait system call that are explored
    SIZE_T       \* number of values of a size_t, 2^32 in the code

ASSUME ConfigAssumption ==
    /\ N_PROCESSES \in Nat \ {0}
    /\ N_THREADS_PER_PROCESS \in Nat \ {0}
    /\ UART_INPUT_BUFFER_SIZE \in Nat \ {0}
    /\ NoFrame \notin Frames
    /\ SIZE_T \in Nat
    /\ N_PROCESSES * N_THREADS_PER_PROCESS < SIZE_T
    /\ Durations \subseteq 0 .. SIZE_T - 1

N_THREADS == N_PROCESSES * N_THREADS_PER_PROCESS

Processes == 1 .. N_PROCESSES
Threads == 1 .. N_THREADS
Locals == 1 .. N_THREADS_PER_PROCESS

NullThread == 0   \* threads[0], which spins in endless_loop

VARIABLES
    running_thread,        \* index of the running tcb
    cpu,                   \* index of the tcb whose registers and memory are loaded
    threads,               \* the tcbs, threads[0] being the null thread
    processes,             \* the free_indices_q of each pcb, `indices` a frame
    frames,                \* contents of the arrays on the svc stack
    thread_indices,        \* ready threads
    sleep_waiting,         \* sleeping threads
    char_waiting,          \* threads waiting for a character
    free_process_indices,  \* free slots of processes
    uart_count,            \* characters buffered by driver/uart.c
    halt,                  \* why the kernel stopped, "none" while it runs
    defects                \* history: what has gone wrong so far, see below

vars == <<running_thread, cpu, threads, processes, frames, thread_indices,
          sleep_waiting, char_waiting, free_process_indices, uart_count, halt,
          defects>>

queues == <<sleep_waiting, char_waiting>>
creation == <<processes, frames, free_process_indices>>

(***************************************************************************)
(* The two histories in defects.  "local_index_queued": scheduler_cycle    *)
(* requeued an index that is not the preempted thread's global one.        *)
(* "frame_reused": a process_create took the stack frame in which the      *)
(* free-index array of a live process still is.                            *)
(***************************************************************************)
Defects == {"local_index_queued", "frame_reused"}

(***************************************************************************)
(* Reasons for stopping.  "sleep_order" and "not_ready" are the ASSERTMs   *)
(* of decrement_waits and exec_syscall_get_char: PANIC is an undefined     *)
(* instruction in kernel mode and its handler ends in kendless_loop.       *)
(* "empty_tcb": a tcb that no thread was ever created in has been loaded,  *)
(* whose cpsr 0 is no processor mode to return to.                         *)
(***************************************************************************)
Halts == {"none", "sleep_order", "not_ready", "empty_tcb"}

Running == halt = "none"

\* A user thread executes; the null thread spins and calls nothing.
UserRuns == Running /\ cpu # NullThread

-----------------------------------------------------------------------------
(* Indices and queues.                                                      *)

GlobalIndex(p, index) == (p - 1) * N_THREADS_PER_PROCESS + index

\* get_global_thread_index of the thread whose tcb is threads[t].
get_global_thread_index(t) ==
    IF threads[t].process = 0 THEN 0
    ELSE GlobalIndex(threads[t].process, threads[t].index)

\* push_index without the check for a full queue (mutant).
CanPushAny(queue, index, size) == index \in 1 .. size

\* push_index drops an index that is out of range or finds the queue full.
CanPush(queue, index, size) == index \in 1 .. size /\ Len(queue) < size
PushIndex(queue, index, size) ==
    IF CanPush(queue, index, size) THEN Append(queue, index) ELSE queue

\* The queue in a pcb with its array in place of the pointer to it.
Deref(pcb, memory) == [pcb EXCEPT !.indices = memory[pcb.indices]]

\* An empty and a newly registered free_indices_q.
EmptyPcb == [EmptyQueue(N_THREADS_PER_PROCESS) EXCEPT !.indices = NoFrame]
NewPcb(frame) == [AllFree(N_THREADS_PER_PROCESS) EXCEPT !.indices = frame]

NewTcb(p, index) == [index |-> index, process |-> p, waiting_duration |-> 0,
                     state |-> "READY"]
EmptyTcb == NewTcb(0, 0)

\* Processes registered and not killed.
LiveProcesses == Processes \ Range(free_process_indices)

-----------------------------------------------------------------------------
(* scheduler_cycle and decrement_waits.                                     *)

\* switch_context to a tcb that was never initialised leaves no mode to
\* return to.
Loaded(t) ==
    /\ cpu' = t
    /\ halt' = IF t # NullThread /\ threads[t].index = 0 THEN "empty_tcb" ELSE halt

\* The index scheduler_cycle puts back for the preempted thread: its index in
\* its process.
Requeued(t) == threads[t].index

Preempted(t) ==
    defects' = IF Requeued(t) # get_global_thread_index(t)
               THEN defects \cup {"local_index_queued"} ELSE defects

\* Room for the preempted thread if it were pushed before the pop (mutant).
HasRoomBeforePop(ready, t) == CanPush(ready, Requeued(t), N_THREADS)

\* The pop comes first, and makes room in a full queue.
HasRoom(ready, t) == CanPush(Tail(ready), Requeued(t), N_THREADS)

\* scheduler_cycle after decrement_waits.  ready is thread_indices, old is
\* running_thread and loaded the tcb in the registers at that point.
Cycle(ready, old, loaded) ==
    \/ /\ ready = <<>>
       /\ thread_indices' = ready
       /\ running_thread' = old
       /\ Loaded(loaded)
       /\ UNCHANGED defects
    \/ /\ ready # <<>>
       /\ running_thread' = Head(ready)
       /\ \/ /\ old = NullThread
             /\ thread_indices' = Tail(ready)
             /\ Loaded(Head(ready))
             /\ UNCHANGED defects
          \/ /\ old # NullThread
             /\ HasRoom(ready, old)
             /\ thread_indices' = Append(Tail(ready), Requeued(old))
             /\ Loaded(Head(ready))
             /\ Preempted(old)
          \/ /\ old # NullThread   \* "Losing the thread!": no switch_context
             /\ ~HasRoom(ready, old)
             /\ thread_indices' = Tail(ready)
             /\ Loaded(loaded)
             /\ UNCHANGED defects

(***************************************************************************)
(* decrement_waits walks the sleepers present at its start once.  The k-th *)
(* step decrements the k-th sleeper and, when that reaches zero, pops the  *)
(* head, which must be that sleeper.                                       *)
(***************************************************************************)
Sleepers == 1 .. Len(sleep_waiting)
Occurrences(t, k) == Cardinality({j \in 1 .. k : sleep_waiting[j] = t})

\* DueAt for queues that hold no thread twice (mutant).
DueAtFirst(k) == threads[sleep_waiting[k]].waiting_duration = 1

\* The k-th step finds its sleeper due.
DueAt(k) == threads[sleep_waiting[k]].waiting_duration = Occurrences(sleep_waiting[k], k)
DueUpTo(k) == Cardinality({j \in 1 .. k : DueAt(j)})

\* The ASSERTM "Current thread was not popped." holds at every step.
HeadsAreDue ==
    \A k \in Sleepers : DueAt(k) => sleep_waiting[DueUpTo(k)] = sleep_waiting[k]

\* decrement_waits that wakes one thread per tick (mutant).
WokenOne == SubSeq(sleep_waiting, 1, IF DueUpTo(Len(sleep_waiting)) > 0 THEN 1 ELSE 0)

Woken == SubSeq(sleep_waiting, 1, DueUpTo(Len(sleep_waiting)))

\* thread_indices with the woken threads pushed, those beyond its size dropped.
WithWoken ==
    LET all == thread_indices \o Woken
    IN  IF Len(all) <= N_THREADS THEN all ELSE SubSeq(all, 1, N_THREADS)

\* waiting_duration is unsigned and wraps below zero.
Decremented ==
    [t \in DOMAIN threads |->
        [threads[t] EXCEPT !.waiting_duration =
            (@ - Occurrences(t, Len(sleep_waiting))) % SIZE_T]]

decrement_waits ==
    /\ sleep_waiting' = SubSeq(sleep_waiting, Len(Woken) + 1, Len(sleep_waiting))
    /\ threads' = Decremented

\* irq_handler on a timer interrupt.
timer_irq ==
    /\ Running
    /\ \/ /\ HeadsAreDue
          /\ decrement_waits
          /\ Cycle(WithWoken, running_thread, cpu)
       \/ /\ ~HeadsAreDue
          /\ halt' = "sleep_order"   \* nothing reads the rest any more
          /\ UNCHANGED <<sleep_waiting, threads, thread_indices, running_thread, cpu, defects>>
    /\ UNCHANGED <<char_waiting, creation, uart_count>>

-----------------------------------------------------------------------------
(* Threads that stop running: exit, faults, waiting.                        *)

\* The process gets its thread's index back, and its slot is freed when all
\* its indices are.
Released(p, index) ==
    LET freed == Pushed(Deref(processes[p], frames), index)
        full  == Rejects(Deref(processes[p], frames), index)
        pcb   == IF full THEN processes[p]
                 ELSE [freed EXCEPT !.indices = processes[p].indices]
    IN  /\ processes' = [processes EXCEPT ![p] = pcb]
        /\ frames' = IF full THEN frames
                     ELSE [frames EXCEPT ![pcb.indices] = freed.indices]
        /\ free_process_indices' =
               IF pcb.count >= pcb.size
               THEN PushIndex(free_process_indices, p, N_PROCESSES)
               ELSE free_process_indices

kill_cur_thread ==
    /\ \/ /\ thread_indices = <<>>
          /\ running_thread' = NullThread
          /\ UNCHANGED thread_indices
       \/ /\ thread_indices # <<>>
          /\ running_thread' = Head(thread_indices)
          /\ thread_indices' = Tail(thread_indices)
    /\ Loaded(running_thread')
    /\ Released(threads[running_thread].process, threads[running_thread].index)
    /\ UNCHANGED <<queues, threads, uart_count, defects>>

\* The system call exit.
exec_syscall_exit == UserRuns /\ kill_cur_thread

\* A system call with an unknown id, and the abort and undefined-instruction
\* handlers when user code was interrupted.
kill_offender == UserRuns /\ kill_cur_thread

\* The tcb whose registers are loaded when push_waiting_thread calls
\* scheduler_cycle.
ParkedContext == NullThread

\* push_waiting_thread on the queue the caller appends the thread to.
Park == Cycle(thread_indices, NullThread, ParkedContext)

\* The same with the index the thread has in its process (mutant).
WaitingLocal(queue) == PushIndex(queue, threads[running_thread].index, N_THREADS)

Waiting(queue) == PushIndex(queue, get_global_thread_index(running_thread), N_THREADS)

\* scheduler_on_sleep without its early return (mutant).
NeverReturnsAtOnce(duration) == FALSE

ReturnsAtOnce(duration) == duration = 0

scheduler_on_sleep(duration) ==
    \/ ReturnsAtOnce(duration) /\ UNCHANGED vars
    \/ /\ ~ReturnsAtOnce(duration)
       /\ sleep_waiting' = Waiting(sleep_waiting)
       /\ Park
       /\ threads' = [threads EXCEPT ![running_thread].waiting_duration = duration]
       /\ UNCHANGED <<char_waiting, creation, uart_count>>

\* The system call wait.
exec_syscall_wait(duration) == UserRuns /\ scheduler_on_sleep(duration)

\* uart_queue_is_emtpy off by one (mutant).
AlmostEmpty == uart_count <= 1

uart_queue_is_emtpy == uart_count = 0

\* The tcbs with the caller marked as waiting, and the thread that runs instead.
WithWaiter == [threads EXCEPT ![running_thread].state = "WAITING"]
NextReady == IF thread_indices = <<>> THEN NullThread ELSE Head(thread_indices)

scheduler_on_getchar ==
    /\ char_waiting' = Waiting(char_waiting)
    /\ Park
    /\ threads' = WithWaiter
    /\ UNCHANGED <<sleep_waiting, creation, uart_count>>

\* The system call get_char.  When the buffer is empty the thread waits, and
\* the ASSERTM after that looks at the thread that runs instead.
exec_syscall_get_char ==
    /\ UserRuns
    /\ \/ /\ ~uart_queue_is_emtpy
          /\ uart_count' = uart_count - 1
          /\ UNCHANGED <<running_thread, cpu, threads, thread_indices, queues,
                         creation, halt, defects>>
       \/ /\ uart_queue_is_emtpy
          /\ WithWaiter[NextReady].state = "READY"
          /\ scheduler_on_getchar
       \/ /\ uart_queue_is_emtpy
          /\ WithWaiter[NextReady].state # "READY"
          /\ halt' = "not_ready"   \* nothing reads the rest any more
          /\ UNCHANGED <<running_thread, cpu, threads, thread_indices, queues,
                         creation, uart_count, defects>>

-----------------------------------------------------------------------------
(* A character arrives: irq_handler on a UART interrupt, uart_push_char and  *)
(* scheduler_on_char_received.                                              *)

\* scheduler_on_char_received that leaves the state as it was (mutant).
Unnotified(t) == threads

Notified(t) == [threads EXCEPT ![t].state = "READY"]

\* A waiter gets the character in its r0 at once.
scheduler_on_char_received(buffered) ==
    \/ /\ char_waiting = <<>>
       /\ uart_count' = buffered
       /\ UNCHANGED <<threads, thread_indices, char_waiting>>
    \/ /\ char_waiting # <<>>
       /\ char_waiting' = Tail(char_waiting)
       /\ uart_count' = buffered - 1
       /\ threads' = Notified(Head(char_waiting))
       /\ thread_indices' = PushIndex(thread_indices, Head(char_waiting), N_THREADS)

uart_irq ==
    /\ Running
    /\ \/ /\ uart_count >= UART_INPUT_BUFFER_SIZE   \* the character is discarded
          /\ UNCHANGED <<threads, thread_indices, char_waiting, uart_count>>
       \/ /\ uart_count < UART_INPUT_BUFFER_SIZE
          /\ scheduler_on_char_received(uart_count + 1)
    /\ UNCHANGED <<running_thread, cpu, sleep_waiting, creation, halt, defects>>

-----------------------------------------------------------------------------
(* Processes and threads are created.                                       *)

scheduler_register_thread(p, index) ==
    \/ /\ CanPush(thread_indices, GlobalIndex(p, index), N_THREADS)
       /\ thread_indices' = Append(thread_indices, GlobalIndex(p, index))
       /\ threads' = [threads EXCEPT ![GlobalIndex(p, index)] = NewTcb(p, index)]
    \/ /\ ~CanPush(thread_indices, GlobalIndex(p, index), N_THREADS)
       /\ UNCHANGED <<thread_indices, threads>>

\* thread_create in process p, given the pcbs and the svc stack at that point.
thread_create(p, pcbs, memory) ==
    /\ frames' = memory
    /\ \/ /\ pcbs[p].count = 0
          /\ processes' = pcbs
          /\ UNCHANGED <<thread_indices, threads>>
       \/ /\ pcbs[p].count # 0
          /\ processes' = [pcbs EXCEPT ![p] = Popped(@)]
          /\ scheduler_register_thread(p, memory[pcbs[p].indices][pcbs[p].head])

\* The array of free indices that a process_create with its local pcb in frame
\* leaves behind.
WithFrame(frame) ==
    [frames EXCEPT ![frame] = AllFree(N_THREADS_PER_PROCESS).indices]

process_create(frame) ==
    /\ defects' = IF \E p \in LiveProcesses : processes[p].indices = frame
                  THEN defects \cup {"frame_reused"} ELSE defects
    /\ \/ /\ free_process_indices = <<>>
          /\ frames' = WithFrame(frame)
          /\ UNCHANGED <<processes, free_process_indices, threads, thread_indices>>
       \/ /\ free_process_indices # <<>>
          /\ free_process_indices' = Tail(free_process_indices)
          /\ thread_create(Head(free_process_indices),
                           [processes EXCEPT ![Head(free_process_indices)] = NewPcb(frame)],
                           WithFrame(frame))

\* The system call fork; valid says that its pointers pass verify_func_pointer
\* and verify_pointer.
exec_syscall_fork(valid, frame) ==
    /\ UserRuns
    /\ \/ ~valid /\ kill_cur_thread
       \/ /\ valid
          /\ process_create(frame)
          /\ UNCHANGED <<running_thread, cpu, queues, uart_count, halt>>

\* The system call create_thread.
exec_syscall_create_thread(valid) ==
    /\ UserRuns
    /\ \/ ~valid /\ kill_cur_thread
       \/ /\ valid
          /\ thread_create(threads[running_thread].process, processes, frames)
          /\ UNCHANGED <<running_thread, cpu, queues, uart_count, halt, defects,
                         free_process_indices>>

-----------------------------------------------------------------------------
(* The kernel has stopped: IRQs stay masked and nothing happens any more.   *)
kendless_loop == ~Running /\ UNCHANGED vars

(* The state start_kernel leaves: init_scheduler and process_create of      *)
(* main_thread have run and no timer interrupt has come yet.                *)
Init ==
    /\ running_thread = NullThread
    /\ cpu = NullThread
    /\ \E frame \in Frames :
           processes = [p \in 0 .. N_PROCESSES |->
                           IF p = 1 THEN Popped(NewPcb(frame)) ELSE EmptyPcb]
    /\ frames = [f \in Frames |-> AllFree(N_THREADS_PER_PROCESS).indices]
    /\ threads = [t \in 0 .. N_THREADS |-> IF t = 1 THEN NewTcb(1, 1) ELSE EmptyTcb]
    /\ thread_indices = <<1>>
    /\ sleep_waiting = <<>>
    /\ char_waiting = <<>>
    /\ free_process_indices = [k \in 1 .. N_PROCESSES - 1 |-> k + 1]
    /\ uart_count = 0
    /\ halt = "none"
    /\ defects = {}

Next ==
    \/ timer_irq
    \/ uart_irq
    \/ exec_syscall_exit
    \/ kill_offender
    \/ exec_syscall_get_char
    \/ \E duration \in Durations : exec_syscall_wait(duration)
    \/ \E valid \in BOOLEAN, frame \in Frames : exec_syscall_fork(valid, frame)
    \/ \E valid \in BOOLEAN : exec_syscall_create_thread(valid)
    \/ kendless_loop

Spec == Init /\ [][Next]_vars

-----------------------------------------------------------------------------
(* Correctness.                                                             *)

Tcb == [index : 0 .. N_THREADS_PER_PROCESS, process : 0 .. N_PROCESSES,
        waiting_duration : 0 .. SIZE_T - 1, state : {"READY", "WAITING"}]

LocalSlots == 0 .. N_THREADS_PER_PROCESS - 1

Pcb == [size : {N_THREADS_PER_PROCESS}, count : 0 .. N_THREADS_PER_PROCESS,
        tail : LocalSlots, head : LocalSlots, indices : Frames \cup {NoFrame}]

\* A queue of indices 1 .. size that never outgrows its array.
BoundedQueue(size) == {s \in Seq(1 .. size) : Len(s) <= size}

\* Types: the queues of scheduler.c never hold more than their arrays do, nor
\* an index that is not one of a tcb or pcb, whatever goes wrong.
TypeOK ==
    /\ running_thread \in 0 .. N_THREADS
    /\ cpu \in 0 .. N_THREADS
    /\ threads \in [0 .. N_THREADS -> Tcb]
    /\ processes \in [0 .. N_PROCESSES -> Pcb]
    /\ frames \in [Frames -> [LocalSlots -> Locals]]
    /\ thread_indices \in BoundedQueue(N_THREADS)
    /\ sleep_waiting \in BoundedQueue(N_THREADS)
    /\ char_waiting \in BoundedQueue(N_THREADS)
    /\ free_process_indices \in BoundedQueue(N_PROCESSES)
    /\ uart_count \in 0 .. UART_INPUT_BUFFER_SIZE
    /\ halt \in Halts
    /\ defects \in SUBSET Defects

\* The kernel runs and neither of the two histories has happened.
Undamaged == Running /\ defects = {}

\* Every place a thread can be in, one after the other.
Places == thread_indices \o sleep_waiting \o char_waiting
          \o (IF running_thread = NullThread THEN <<>> ELSE <<running_thread>>)

Alive == Range(Places)

FreeIndices(p) == Range(Contents(Deref(processes[p], frames)))

\* A thread is running, ready, asleep or waiting for a character, once
\* (scheduler.c 182-233, 290-314, 337-359).
ThreadsInOnePlace == IsInjective(Places)

\* The index of a thread is free in its process exactly while no thread uses
\* it, and the slot of a process exactly while it has no thread
\* (kill_cur_thread, scheduler.c:250-259; thread_create, thread.c:91).
IndicesAccounted ==
    /\ \A p \in LiveProcesses :
          /\ FreeIndices(p) = {i \in Locals : GlobalIndex(p, i) \notin Alive}
          /\ processes[p].count = Cardinality(FreeIndices(p))
          /\ processes[p].count < N_THREADS_PER_PROCESS
    /\ \A p \in Processes \ LiveProcesses, i \in Locals : GlobalIndex(p, i) \notin Alive
    /\ IsInjective(free_process_indices)

\* While nothing has gone wrong, no thread is in two places at once.
NoThreadTwice == Undamaged => ThreadsInOnePlace

\* While nothing has gone wrong, no index leaks and none is given out twice.
NoIndexLost == Undamaged => IndicesAccounted

\* The registers and the memory loaded are those of running_thread, which is
\* what the next switch_context saves them as (scheduler.c:299-304).
ContextMatchesRunning == Running => cpu = running_thread

\* Nobody waits for a character while one is buffered: the buffer is only
\* filled when there is no waiter, and a thread only waits on an empty one
\* (calls.c:60-68, scheduler.c:338-359).
CharWaitersMeanEmptyBuffer == char_waiting # <<>> => uart_count = 0

\* The state WAITING marks the threads in char_waiting and no other, whatever
\* became of the thread that had the tcb before (scheduler.c:331-335, 354-358).
WaitingStateExact ==
    Undamaged => \A t \in Threads :
        threads[t].state = "WAITING" <=> t \in Range(char_waiting)

\* No sleeper's duration is zero: the next decrement would wrap it to 2^32 - 1
\* ticks (scheduler.c:72, 322-328).
SleepersHaveTimeLeft ==
    Undamaged => \A t \in Range(sleep_waiting) : threads[t].waiting_duration > 0

\* Without the two histories the only way to stop is the order of sleepers:
\* no thread wakes from get_char before it has a character (calls.c:63), and
\* no tcb is dispatched that no thread was created in.
OnlySleepOrderHalts == defects = {} => halt \in {"none", "sleep_order"}

\* Sleepers age together, by one tick at a time, and leave exactly when due:
\* no step lets one overtake, forgets one or wakes one early
\* (scheduler.c:61-89 and its NOTE at 316-320).
SleepersAgeTogether ==
    [][Undamaged' =>
        \/ \A t \in Range(sleep_waiting) :
              /\ t \in Range(sleep_waiting')
              /\ threads'[t].waiting_duration = threads[t].waiting_duration
        \/ \A t \in Range(sleep_waiting) :
              IF threads[t].waiting_duration = 1
              THEN /\ t \notin Range(sleep_waiting')
                   /\ t \in Range(thread_indices') \cup {running_thread'}
              ELSE /\ t \in Range(sleep_waiting')
                   /\ threads'[t].waiting_duration = threads[t].waiting_duration - 1]_vars

-----------------------------------------------------------------------------
(* What programs see of it.                                                 *)

Life == INSTANCE ThreadLifecycle WITH
    Nobody     <- NullThread,
    Teams      <- {{GlobalIndex(p, i) : i \in Locals} : p \in Processes},
    BufferSize <- UART_INPUT_BUFFER_SIZE,
    running    <- running_thread,
    ready      <- thread_indices,
    left       <- [t \in Range(sleep_waiting) |-> threads[t].waiting_duration],
    readers    <- char_waiting,
    kept       <- uart_count

\* While nothing has gone wrong each handler does what ThreadLifecycle says of its
\* event, for all that it moves indices between rings, tcbs and slots: turns are
\* taken in order, sleepers age by themselves, readers are served in order, and a
\* call for a thread or process changes nothing only if there is no room for it
\* (scheduler.c, calls.c:49-146, isr.c:154-217).
ImplementsLifecycle ==
    /\ Life!Init
    /\ [][Undamaged' =>
            /\ timer_irq => Life!Tick
            /\ uart_irq => Life!Character
            /\ exec_syscall_exit \/ kill_offender => Life!End
            /\ exec_syscall_get_char => Life!Read
            /\ \A duration \in Durations :
                  exec_syscall_wait(duration) => Life!Sleep(duration)
            /\ \A valid \in BOOLEAN, frame \in Frames : exec_syscall_fork(valid, frame) =>
                  IF valid THEN Life!Fork ELSE Life!End
            /\ \A valid \in BOOLEAN : exec_syscall_create_thread(valid) =>
                  IF valid THEN Life!CreateThread ELSE Life!End]_vars

-----------------------------------------------------------------------------
(* decrement_waits as it is written: what its loop has made of the queues    *)
(* and the durations after k steps.  That its cursor comes by the k-th       *)
(* sleeper in step k, wherever the queue lies in its ring, is SleepWalk's    *)
(* EachSleeperOnce.                                                         *)

LoopStart == [panic |-> FALSE, sleep |-> sleep_waiting, ready |-> thread_indices,
              duration |-> [t \in 0 .. N_THREADS |-> threads[t].waiting_duration]]

\* Step k of the walk, on what the steps before it left.
LoopStep(s, k) ==
    LET t    == sleep_waiting[k]
        left == (s.duration[t] - 1) % SIZE_T
    IN  IF s.panic THEN s
        ELSE [panic    |-> left = 0 /\ Head(s.sleep) # t,
              sleep    |-> IF left = 0 THEN Tail(s.sleep) ELSE s.sleep,
              ready    |-> IF left = 0 THEN PushIndex(s.ready, t, N_THREADS) ELSE s.ready,
              duration |-> [s.duration EXCEPT ![t] = left]]

Loop[k \in 0 .. Len(sleep_waiting)] ==
    IF k = 0 THEN LoopStart ELSE LoopStep(Loop[k - 1], k)

LoopEnd == Loop[Len(sleep_waiting)]

\* The operators used for decrement_waits above are the loop's result
\* (scheduler.c:61-89): the assertion fails in the same states, and otherwise
\* the same threads wake in the same order and the same durations are left.
DecrementIsTheLoop ==
    /\ HeadsAreDue <=> ~LoopEnd.panic
    /\ HeadsAreDue =>
        /\ LoopEnd.ready = WithWoken
        /\ LoopEnd.sleep = SubSeq(sleep_waiting, Len(Woken) + 1, Len(sleep_waiting))
        /\ \A t \in 0 .. N_THREADS : LoopEnd.duration[t] = Decremented[t].waiting_duration

-----------------------------------------------------------------------------
(* What the comments and assertions of the code say, without conditions; the *)
(* code does not live up to these three.                                    *)

\* A timer interrupt loses no thread: the preempted one is put back where the
\* comment at scheduler.c:43-52 says its tcb is.
TimerLosesNoThread == [][timer_irq /\ Running' => Alive \subseteq Alive']_vars

\* The assertion of decrement_waits, "Current thread was not popped."
\* (scheduler.c:76), holds.
SleepOrderAssertion == halt # "sleep_order"

\* The index of a killed thread is "available again in process"
\* (scheduler.c:250), and that of a thread that lives is not.
IndicesStayAccounted == Running => IndicesAccounted
=============================================================================
