---------------------------- MODULE OwnProcessor ----------------------------
(***************************************************************************)
(* What exceptions and context switches promise a user thread: registers   *)
(* of its own.  They change by the thread's own instructions, by the       *)
(* result of a system call it makes, and when it is created, and by        *)
(* nothing another thread or an interrupt does.  Module Exceptions is the  *)
(* one processor, with its frames and tcbs, that implements this.          *)
(***************************************************************************)
EXTENDS Integers

CONSTANTS
    Threads,  \* user threads
    None,     \* no user thread: the null thread, or the code that booted
    Values    \* what a register can hold, some numbers

VARIABLES
    own,     \* the registers of each thread
    alive,   \* the threads there are; registers of others mean nothing
    current  \* the thread that runs, or None

ownVars == <<own, alive, current>>

Registers == [r0 : Values, rest : Values, lr : Values, sp : Values, pc : Values]

Init ==
    /\ own \in [Threads -> Registers]
    /\ \E main \in Threads : alive = {main}
    /\ current = None

OnlyChange(ts) ==
    own' \in [Threads -> Registers] /\ \A t \in Threads \ ts : own'[t] = own[t]

\* Registers behind an svc, with a result.
Returned(regs, result) == [regs EXCEPT !.r0 = result, !.pc = @ + 1]

\* An instruction of the current thread other than svc.
Instruction == current # None /\ OnlyChange({current}) /\ UNCHANGED <<alive, current>>

\* The current thread is interrupted, and maybe another one runs after that.
Interrupt == current' \in alive \cup {None} /\ UNCHANGED <<own, alive>>

\* An interrupt brings thread t the result of a call that it waits in.
Answer(t, result) ==
    /\ t \in alive \ {current}
    /\ own' = [own EXCEPT ![t].r0 = result]
    /\ UNCHANGED <<alive, current>>

\* A system call returns behind its svc, some of them with a result in r0; other
\* threads may run before it does.
Call(result) ==
    /\ current # None
    /\ own' = [own EXCEPT ![current] = Returned(@, result)]
    /\ current' \in alive \cup {None}
    /\ UNCHANGED alive

\* A system call that makes thread t.
Create(t) ==
    /\ current # None
    /\ t \notin alive
    /\ alive' = alive \cup {t}
    /\ OnlyChange({current, t})
    /\ own'[current] = Returned(own[current], own[current].r0)
    /\ UNCHANGED current

\* The current thread is no more.
End ==
    /\ current # None
    /\ alive' = alive \ {current}
    /\ OnlyChange({current})
    /\ current' \in alive' \cup {None}

Next ==
    \/ Instruction \/ Interrupt \/ End
    \/ \E result \in Values : Call(result)
    \/ \E t \in Threads : Create(t) \/ \E result \in Values : Answer(t, result)

Spec == Init /\ [][Next]_ownVars
=============================================================================
