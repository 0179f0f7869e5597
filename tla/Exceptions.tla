----------------------------- MODULE Exceptions -----------------------------
(***************************************************************************)
(* How an exception saves and restores the registers of a thread: the      *)
(* vectors of system/ivt.S, struct registers (arch/armv7/registers.h),     *)
(* switch_context of system/scheduler.c and what the handlers write.       *)
(*                                                                         *)
(* A frame is what a vector pushes, a sequence of words with the lowest    *)
(* address first; the handlers see it as a struct registers, and           *)
(* exc_cleanup_return pops it.  r1 to r12 are treated alike throughout and *)
(* are one word here, `rest`.  Addresses count instructions.               *)
(*                                                                         *)
(* Which thread runs next is module Scheduler's subject: any created       *)
(* thread that does not wait for a character may.  That only such threads  *)
(* run, and that a created thread gets a free tcb, is what Scheduler shows *)
(* of behaviours that its known defects have not struck; it is assumed     *)
(* here.                                                                   *)
(***************************************************************************)
EXTENDS Integers, Sequences

CONSTANTS
    Threads,  \* user threads
    None,     \* null_thread
    Values    \* what a register of a user thread can hold

ASSUME ValuesAssumption == None \notin Threads /\ Values \subseteq Nat /\ {0, 1} \subseteq Values

\* arch/armv7/registers.h
PROCESSOR_MODE_USR == 16
PROCESSOR_MODE_SVC == 19
PROCESSOR_MODE_UNINITIALIZED == 0

endless_loop == 0  \* where null_thread spins
exit == 1          \* where a thread's function returns to

\* A word that belongs to no thread: banked registers of the exception modes,
\* and pc, sp and cpsr of the vector itself.
Foreign == -1

Registers == [r0 : Values, rest : Values, lr : Values, sp : Values, pc : Values]

VARIABLES
    cpu,      \* registers of user mode, pc and processor mode
    tcbs,     \* registers and cpsr saved for each thread and null_thread
    running,  \* running_thread
    status    \* which threads exist, and which of them wait for a character

vars == <<cpu, tcbs, running, status>>

Contexts == [r0 : Values, rest : Values, lr : Values, sp : Values, pc : Values,
             mode : {PROCESSOR_MODE_USR, PROCESSOR_MODE_SVC, PROCESSOR_MODE_UNINITIALIZED}]

Ready == {t \in Threads : status[t] = "ready" /\ t # running}

-----------------------------------------------------------------------------
(* ivt.S.                                                                   *)

ModeRegisters == <<Foreign, Foreign, Foreign>>   \* lr, sp and spsr of a mode

\* push {r0 - r1} with cpsr and spsr the other way round (mutant).
PushedSpsrFirst(lr) ==
    ModeRegisters \o ModeRegisters \o ModeRegisters
    \o ModeRegisters \o ModeRegisters \o <<cpu.lr, cpu.sp>>
    \o <<cpu.mode, Foreign>>
    \o <<cpu.r0, cpu.rest>>
    \o <<lr, Foreign, Foreign>>

\* All five vectors push the same frame, from the top: sp, pc and lr, r0-r12,
\* cpsr and spsr, the registers of usr, svc and und, and those of abt, irq, fiq.
Pushed(lr) ==
    ModeRegisters \o ModeRegisters \o ModeRegisters
    \o ModeRegisters \o ModeRegisters \o <<cpu.lr, cpu.sp>>
    \o <<Foreign, cpu.mode>>
    \o <<cpu.r0, cpu.rest>>
    \o <<lr, Foreign, Foreign>>

\* lr as the processor sets it: behind the svc, or one further than the
\* instruction that an IRQ keeps from executing.
ReturnAddress == cpu.pc + 1

\* The vector irq without its sub lr, #4 (mutant).
Unadjusted == ReturnAddress

IrqReturnAddress == ReturnAddress - 1

\* What irq, software_interrupt, and the vectors of faults push.
IrqFrame == Pushed(IrqReturnAddress)
SvcFrame == Pushed(ReturnAddress)
FaultFrame == Pushed(ReturnAddress)

\* exc_cleanup_return throws away 60 bytes, pops lr_usr and sp_usr, throws away
\* cpsr, pops spsr, r0-r12 and lr, and throws away the rest.
exc_cleanup_return(frame) ==
    LET left == SubSeq(frame, 16, Len(frame))
    IN  cpu' = [lr |-> left[1], sp |-> left[2], mode |-> left[4],
                r0 |-> left[5], rest |-> left[6], pc |-> left[7]]

-----------------------------------------------------------------------------
(* scheduler.c and thread.c.                                                *)

\* The fields of struct registers, in words from its start.
At == [usr_lr |-> 16, usr_sp |-> 17, cpsr |-> 18, spsr |-> 19,
       r0 |-> 20, rest |-> 21, lr |-> 22, pc |-> 23, sp |-> 24]

\* switch_context that keeps gr.lr as lr (mutant).
SavedUnfixed(frame) ==
    [r0 |-> frame[At.r0], rest |-> frame[At.rest], lr |-> frame[At.lr],
     sp |-> frame[At.usr_sp], pc |-> frame[At.lr], mode |-> frame[At.spsr]]

\* What switch_context saves for a thread: gr, with lr, sp and pc put right.
Saved(frame) ==
    [r0 |-> frame[At.r0], rest |-> frame[At.rest], lr |-> frame[At.usr_lr],
     sp |-> frame[At.usr_sp], pc |-> frame[At.lr], mode |-> frame[At.spsr]]

\* switch_context that leaves the return address (mutant).
LoadedAtOldPc(frame, new) ==
    [frame EXCEPT ![At.r0] = new.r0, ![At.rest] = new.rest, ![At.usr_lr] = new.lr,
                  ![At.usr_sp] = new.sp, ![At.spsr] = new.mode]

\* switch_context that leaves the processor mode (mutant).
LoadedInOldMode(frame, new) ==
    [frame EXCEPT ![At.r0] = new.r0, ![At.rest] = new.rest, ![At.lr] = new.pc,
                  ![At.usr_lr] = new.lr, ![At.usr_sp] = new.sp]

\* The frame with another thread's registers: gr, then usr_lr, usr_sp and lr.
Loaded(frame, new) ==
    [frame EXCEPT ![At.r0] = new.r0, ![At.rest] = new.rest, ![At.lr] = new.pc,
                  ![At.pc] = new.pc, ![At.sp] = new.sp, ![At.usr_lr] = new.lr,
                  ![At.usr_sp] = new.sp, ![At.spsr] = new.mode]

\* The tcbs with the registers of the thread that is left; null_thread's never change.
SavedTcbs(frame) == IF running = None THEN tcbs ELSE [tcbs EXCEPT ![running] = Saved(frame)]

\* switch_context(regs, running_thread, t) and the return.
SwitchTo(frame, t) ==
    /\ tcbs' = SavedTcbs(frame)
    /\ running' = t
    /\ exc_cleanup_return(Loaded(frame, SavedTcbs(frame)[t]))

\* Return to what was interrupted.
Continue(frame) == exc_cleanup_return(frame) /\ UNCHANGED <<tcbs, running>>

\* init_thread, with the function and the stack pointer that thread_create is given.
init_thread(r0, sp, func) ==
    [r0 |-> r0, rest |-> 0, lr |-> exit, sp |-> sp, pc |-> func, mode |-> PROCESSOR_MODE_USR]

\* A tcb that is still zero, and the one init_null_thread makes.
EmptyTcb == [r0 |-> 0, rest |-> 0, lr |-> 0, sp |-> 0, pc |-> 0,
             mode |-> PROCESSOR_MODE_UNINITIALIZED]
NullTcb == [EmptyTcb EXCEPT !.sp = 1, !.pc = endless_loop, !.mode = PROCESSOR_MODE_USR]

-----------------------------------------------------------------------------
(* isr.c.                                                                   *)

\* An IRQ leaves the running thread alone or lets another run.
timer_irq ==
    /\ Continue(IrqFrame) \/ \E t \in Ready : SwitchTo(IrqFrame, t)
    /\ UNCHANGED status

\* A character arrives and is buffered or discarded, or goes to a waiting thread.
uart_irq ==
    \/ Continue(IrqFrame) /\ UNCHANGED status
    \/ \E t \in Threads, c \in Values :
          /\ status[t] = "waiting"
          /\ status' = [status EXCEPT ![t] = "ready"]
          /\ tcbs' = [tcbs EXCEPT ![t].r0 = c]
          /\ exc_cleanup_return(IrqFrame)
          /\ UNCHANGED running

\* user_interrupted holds, and a user thread runs.
UserInterrupted == cpu.mode = PROCESSOR_MODE_USR /\ running # None

\* There is an svc at pc, so something behind it.
AtSvc == UserInterrupted /\ ReturnAddress \in Values

\* push_waiting_thread: null_thread first, and another one if there is one.
push_waiting_thread(frame) ==
    LET parked == Loaded(frame, tcbs[None])
    IN  /\ tcbs' = SavedTcbs(frame)
        /\ \/ running' = None /\ exc_cleanup_return(parked)
           \/ \E t \in Ready : running' = t /\ exc_cleanup_return(Loaded(parked, tcbs[t]))

exec_syscall_put_char == AtSvc /\ Continue(SvcFrame) /\ UNCHANGED status

exec_syscall_wait ==
    /\ AtSvc
    /\ Continue(SvcFrame) \/ push_waiting_thread(SvcFrame)
    /\ UNCHANGED status

exec_syscall_get_char ==
    /\ AtSvc
    /\ \/ \E c \in Values : Continue([SvcFrame EXCEPT ![At.r0] = c]) /\ UNCHANGED status
       \/ /\ push_waiting_thread(SvcFrame)
          /\ status' = [status EXCEPT ![running] = "waiting"]

\* fork and create_thread: with an index left there is a new thread, whose r0
\* is its stack pointer if it has arguments.
exec_syscall_create ==
    /\ AtSvc
    /\ exc_cleanup_return(SvcFrame)
    /\ UNCHANGED running
    /\ \/ UNCHANGED <<tcbs, status>>
       \/ \E t \in Threads, sp, func \in Values, args \in BOOLEAN :
             /\ status[t] = "free"
             /\ tcbs' = [tcbs EXCEPT ![t] = init_thread(IF args THEN sp ELSE 0, sp, func)]
             /\ status' = [status EXCEPT ![t] = "ready"]

\* exit, a call that is refused, and the handlers of aborts and undefined
\* instructions: kill_cur_thread switches without saving.
kill_cur_thread ==
    /\ UserInterrupted
    /\ \E frame \in {SvcFrame, FaultFrame}, t \in Ready \cup {None} :
          /\ running' = t
          /\ exc_cleanup_return(Loaded(frame, tcbs[t]))
    /\ status' = [status EXCEPT ![running] = "free"]
    /\ UNCHANGED tcbs

\* User code computes and branches; the loop of null_thread does neither.
user_step ==
    /\ UserInterrupted
    /\ \E v \in Values, r \in DOMAIN cpu \ {"mode"} : cpu' = [cpu EXCEPT ![r] = v]
    /\ UNCHANGED <<tcbs, running, status>>

\* start_kernel has returned to entry.S, which waits for interrupts in
\* supervisor mode, and has created main_thread.
Init ==
    /\ running = None
    /\ cpu = [r0 |-> 0, rest |-> 0, lr |-> 0, sp |-> 1, pc |-> 0,
              mode |-> PROCESSOR_MODE_SVC]
    /\ \E main_thread \in Threads :
          /\ status = [t \in Threads |-> IF t = main_thread THEN "ready" ELSE "free"]
          /\ tcbs = [t \in Threads \cup {None} |->
                        IF t = main_thread THEN init_thread(0, 1, 1)
                        ELSE IF t = None THEN NullTcb ELSE EmptyTcb]

Next ==
    \/ timer_irq
    \/ uart_irq
    \/ exec_syscall_put_char
    \/ exec_syscall_wait
    \/ exec_syscall_get_char
    \/ exec_syscall_create
    \/ kill_cur_thread
    \/ user_step

Spec == Init /\ [][Next]_vars

-----------------------------------------------------------------------------
(* Correctness.                                                             *)

\* Saved and loaded registers hold values of user registers, never a word of
\* another mode or of the vector (registers.h: "Do not change this").
TypeOK ==
    /\ cpu \in Contexts
    /\ tcbs \in [Threads \cup {None} -> Contexts]
    /\ running \in {None} \cup {t \in Threads : status[t] = "ready"}
    /\ status \in [Threads -> {"free", "ready", "waiting"}]

\* A thread never runs in the supervisor mode that the processor was in while
\* it booted: the mode is that thread's, wherever it was switched to
\* (scheduler.c:111, ivt.S:308).
NoThreadRunsPrivileged == running # None => cpu.mode = PROCESSOR_MODE_USR

\* While null_thread runs it spins in endless_loop, whoever ran before and
\* wherever it was interrupted (scheduler.c:98-112, 305-306).
NullThreadSpins ==
    running = None /\ cpu.mode = PROCESSOR_MODE_USR => cpu.pc = endless_loop

UserRegisters(c) == [r0 |-> c.r0, rest |-> c.rest, lr |-> c.lr, sp |-> c.sp, pc |-> c.pc]

\* The registers a thread has for itself: the processor's while it runs.
own == [t \in Threads |-> UserRegisters(IF t = running THEN cpu ELSE tcbs[t])]

Own == INSTANCE OwnProcessor
           WITH current <- running, alive <- {t \in Threads : status[t] # "free"}

\* Every thread has registers of its own, through any sequence of interrupts,
\* calls, switches, creations and deaths: vectors, handlers and the cleanup agree
\* on the frame, and switch_context saves and loads all of a thread
\* (ivt.S:25-316, scheduler.c:91-114, thread.c:70-82).
ImplementsOwnProcessor == Own!Spec

\* Interrupts and calls without a result change no register of any thread, but
\* the result of a call one waits in, and a call its pc: one that is interrupted
\* goes on exactly there, one that called behind its svc (ivt.S:247, isr.c:176-217).
InterruptsAreInvisible ==
    [][/\ timer_irq => UNCHANGED own
       /\ uart_irq => UNCHANGED own \/ \E t \in Threads, c \in Values : Own!Answer(t, c)
       /\ exec_syscall_put_char \/ exec_syscall_wait => Own!Call(own[running].r0)]_vars
=============================================================================
