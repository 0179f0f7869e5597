------------------------- MODULE Exceptions_proofs -------------------------
(***************************************************************************)
(* Proofs about Exceptions, for any threads and any set of register        *)
(* values.                                                                 *)
(***************************************************************************)
EXTENDS Exceptions, SequenceTheorems, TLAPS

\* The words of a frame that a return loads.
ContextOf(frame) ==
    [r0 |-> frame[20], rest |-> frame[21], lr |-> frame[16], sp |-> frame[17],
     pc |-> frame[22], mode |-> frame[19]]

Frames == {f \in Seq(Int) : Len(f) = 24}

\* The places of struct registers, as numbers.
LEMMA FieldsAt ==
  /\ At.usr_lr = 16 /\ At.usr_sp = 17 /\ At.cpsr = 18 /\ At.spsr = 19 /\ At.r0 = 20
  /\ At.rest = 21 /\ At.lr = 22 /\ At.pc = 23 /\ At.sp = 24
  BY DEF At

\* Registers are register values, and numbers.
LEMMA ContextTypes ==
  ASSUME NEW c \in Contexts
  PROVE  /\ c.r0 \in Values /\ c.rest \in Values /\ c.lr \in Values
         /\ c.sp \in Values /\ c.pc \in Values
         /\ c.r0 \in Int /\ c.rest \in Int /\ c.lr \in Int
         /\ c.sp \in Int /\ c.pc \in Int /\ c.mode \in Int
<1>1. /\ c.r0 \in Values /\ c.rest \in Values /\ c.lr \in Values
      /\ c.sp \in Values /\ c.pc \in Values
  BY DEF Contexts
<1>2. c.mode \in {16, 19, 0}
  BY DEF Contexts, PROCESSOR_MODE_USR, PROCESSOR_MODE_SVC, PROCESSOR_MODE_UNINITIALIZED
<1>3. \A v \in Values : v \in Int
  BY ValuesAssumption
<1>4. c.mode \in Int
  BY <1>2
<1> QED
  BY <1>1, <1>3, <1>4

\* What a vector pushes, in the places where handlers and cleanup look.
LEMMA PushedWords ==
  ASSUME cpu \in Contexts, NEW lr \in Int
  PROVE  /\ Pushed(lr) \in Frames
         /\ Pushed(lr)[16] = cpu.lr /\ Pushed(lr)[17] = cpu.sp
         /\ Pushed(lr)[19] = cpu.mode /\ Pushed(lr)[20] = cpu.r0
         /\ Pushed(lr)[21] = cpu.rest /\ Pushed(lr)[22] = lr
<1>1. /\ Pushed(lr)[16] = cpu.lr /\ Pushed(lr)[17] = cpu.sp
      /\ Pushed(lr)[19] = cpu.mode /\ Pushed(lr)[20] = cpu.r0
      /\ Pushed(lr)[21] = cpu.rest /\ Pushed(lr)[22] = lr
  BY DEF Pushed, ModeRegisters
<1>2. Pushed(lr) \in Seq(Int) /\ Len(Pushed(lr)) = 24
  <2>1. /\ cpu.lr \in Int /\ cpu.sp \in Int /\ cpu.mode \in Int /\ cpu.r0 \in Int
        /\ cpu.rest \in Int
    BY ContextTypes
  <2>2. Foreign \in Int
    BY DEF Foreign
  <2> QED
    BY <2>1, <2>2, SMTT(30) DEF Pushed, ModeRegisters
<1> QED
  BY <1>1, <1>2 DEF Frames

\* The cleanup pops the words of the frame that ContextOf names.
LEMMA CleanupPops ==
  ASSUME NEW f \in Frames, exc_cleanup_return(f)
  PROVE  cpu' = ContextOf(f)
<1> DEFINE left == SubSeq(f, 16, Len(f))
<1>0. f \in Seq(Int) /\ Len(f) = 24
  BY DEF Frames
<1>1. \A i \in 1 .. 24 : f[i] \in Int
  BY <1>0, ElementOfSeq
<1>2. \A k \in 1 .. 9 : left[k] = f[16 + k - 1]
  <2>1. ASSUME NEW i \in 16 .. Len(f) PROVE f[i] \in Int
    <3>1. i \in 1 .. 24
      BY <1>0
    <3> QED
      BY <1>1, <3>1, Zenon
  <2>2. \A i \in 1 .. Len(f) - 16 + 1 : left[i] = f[16 + i - 1]
    BY <2>1, <1>0, SubSeqProperties
  <2> QED
    BY <1>0, <2>2
<1> HIDE DEF left
<1>3. /\ left[1] = f[16] /\ left[2] = f[17] /\ left[4] = f[19]
      /\ left[5] = f[20] /\ left[6] = f[21] /\ left[7] = f[22]
  BY <1>2
<1> QED
  BY <1>3 DEF exc_cleanup_return, ContextOf, left

\* A frame is a function of the places of its words.
LEMMA FramesAreFunctions ==
  ASSUME NEW g \in [1 .. 24 -> Int]
  PROVE  g \in Frames
<1> DEFINE n == Len(g)
<1>1. g \in Seq(Int)
  BY SeqDef, Zenon
<1>2. 1 .. n = 1 .. 24 /\ n \in Nat
  BY <1>1, LenProperties
<1> HIDE DEF n
<1>3. 24 \in 1 .. n
  BY <1>2
<1>4. n \in 1 .. 24
  <2>1. n \in 1 .. n
    BY <1>2, <1>3
  <2> QED
    BY <1>2, <2>1, Zenon
<1>5. n = 24
  BY <1>2, <1>3, <1>4
<1> QED
  BY <1>1, <1>5, Zenon DEF Frames, n

\* A loaded frame returns to the loaded registers.
LEMMA LoadedReturns ==
  ASSUME NEW f \in Frames, NEW new \in Contexts
  PROVE  /\ Loaded(f, new) \in Frames
         /\ ContextOf(Loaded(f, new)) = new
<1>1. /\ new.r0 \in Int /\ new.rest \in Int /\ new.lr \in Int
      /\ new.sp \in Int /\ new.pc \in Int /\ new.mode \in Int
  BY ContextTypes
<1>2. f \in [1 .. 24 -> Int] /\ DOMAIN f = 1 .. 24
  BY LenProperties DEF Frames
<1>3. Loaded(f, new) \in [1 .. 24 -> Int]
  BY <1>1, <1>2 DEF Loaded, At
<1>4. Loaded(f, new) \in Frames
  BY <1>3, FramesAreFunctions
<1>5. /\ Loaded(f, new)[16] = new.lr /\ Loaded(f, new)[17] = new.sp
      /\ Loaded(f, new)[19] = new.mode
  BY <1>2, FieldsAt DEF Loaded
<1>6. /\ Loaded(f, new)[20] = new.r0
      /\ Loaded(f, new)[21] = new.rest /\ Loaded(f, new)[22] = new.pc
  BY <1>2, FieldsAt DEF Loaded
<1> QED
  BY <1>4, <1>5, <1>6 DEF ContextOf, Contexts

\* The registers of the interrupted context, about to go on at lr.
Resuming(lr) == [cpu EXCEPT !.pc = lr]

LEMMA PushedReturns ==
  ASSUME cpu \in Contexts, NEW lr \in Int
  PROVE  /\ ContextOf(Pushed(lr)) = Resuming(lr)
         /\ Saved(Pushed(lr)) = Resuming(lr)
<1> DEFINE f == Pushed(lr)
<1>1. /\ f[16] = cpu.lr /\ f[17] = cpu.sp /\ f[19] = cpu.mode /\ f[20] = cpu.r0
      /\ f[21] = cpu.rest /\ f[22] = lr
  BY PushedWords
<1> HIDE DEF f
<1>2. ContextOf(f) = Resuming(lr)
  BY <1>1 DEF ContextOf, Resuming, Contexts
<1>3. Saved(f) = Resuming(lr)
  BY <1>1, FieldsAt DEF Saved, Resuming, Contexts
<1> QED
  BY <1>2, <1>3 DEF f

-----------------------------------------------------------------------------
(* What the handlers do to the registers, without frames.                   *)

AfterSvc == Resuming(cpu.pc + 1)

\* An IRQ pushes a frame that returns to the interrupted instruction.
LEMMA IrqReturns ==
  ASSUME cpu \in Contexts
  PROVE  IrqFrame \in Frames /\ ContextOf(IrqFrame) = cpu /\ Saved(IrqFrame) = cpu
<1>1. cpu.pc \in Int /\ cpu.pc + 1 - 1 = cpu.pc
  BY ContextTypes
<1>2. IrqFrame = Pushed(cpu.pc)
  BY <1>1 DEF IrqFrame, IrqReturnAddress, ReturnAddress
<1>3. Resuming(cpu.pc) = cpu
  BY DEF Resuming, Contexts
<1> QED
  BY <1>1, <1>2, <1>3, PushedWords, PushedReturns

\* A system call pushes a frame that returns behind the svc.
LEMMA SvcReturns ==
  ASSUME cpu \in Contexts
  PROVE  SvcFrame \in Frames /\ ContextOf(SvcFrame) = AfterSvc /\ Saved(SvcFrame) = AfterSvc
<1>1. cpu.pc + 1 \in Int
  BY ContextTypes
<1>2. SvcFrame = Pushed(cpu.pc + 1)
  BY DEF SvcFrame, ReturnAddress
<1> QED
  BY <1>1, <1>2, PushedWords, PushedReturns DEF AfterSvc

\* The result that exec_syscall_get_char writes is what r0 returns.
LEMMA ResultReturns ==
  ASSUME NEW f \in Frames, NEW c \in Values
  PROVE  /\ [f EXCEPT ![At.r0] = c] \in Frames
         /\ ContextOf([f EXCEPT ![At.r0] = c]) = [ContextOf(f) EXCEPT !.r0 = c]
<1>1. f \in [1 .. 24 -> Int] /\ DOMAIN f = 1 .. 24
  BY LenProperties DEF Frames
<1>2. c \in Int
  BY ValuesAssumption
<1>3. [f EXCEPT ![At.r0] = c] \in Frames
  <2>1. [f EXCEPT ![At.r0] = c] \in [1 .. 24 -> Int]
    BY <1>1, <1>2
  <2> QED
    BY <2>1, FramesAreFunctions
<1>4. ContextOf([f EXCEPT ![At.r0] = c]) = [ContextOf(f) EXCEPT !.r0 = c]
  BY <1>1, FieldsAt DEF ContextOf
<1> QED
  BY <1>3, <1>4
\* The running thread is left with registers c, and t runs.
LeavesFor(c, t) ==
    /\ tcbs' = IF running = None THEN tcbs ELSE [tcbs EXCEPT ![running] = c]
    /\ running' = t
    /\ cpu' = tcbs[t]

Typed ==
    /\ cpu \in Contexts
    /\ tcbs \in [Threads \cup {None} -> Contexts]
    /\ running \in {None} \cup Threads

\* switch_context to another thread, and the return.
LEMMA SwitchEffect ==
  ASSUME Typed, NEW f \in Frames, NEW t \in Ready, SwitchTo(f, t)
  PROVE  LeavesFor(Saved(f), t)
<1>1. /\ tcbs' = SavedTcbs(f) /\ running' = t
      /\ exc_cleanup_return(Loaded(f, SavedTcbs(f)[t]))
  BY DEF SwitchTo
<1>2. t \in Threads /\ t # running
  BY DEF Ready
<1>3. SavedTcbs(f)[t] = tcbs[t] /\ tcbs[t] \in Contexts
  BY <1>2 DEF SavedTcbs, Typed
<1>4. cpu' = tcbs[t]
  BY <1>1, <1>3, LoadedReturns, CleanupPops
<1> QED
  BY <1>1, <1>4 DEF LeavesFor, SavedTcbs

\* push_waiting_thread switches to null_thread and then maybe to another one.
LEMMA PushWaitingEffect ==
  ASSUME Typed, NEW f \in Frames, running # None, push_waiting_thread(f)
  PROVE  \E t \in Ready \cup {None} : LeavesFor(Saved(f), t)
<1> DEFINE parked == Loaded(f, tcbs[None])
<1>1. tcbs[None] \in Contexts
  BY DEF Typed
<1>2. parked \in Frames /\ ContextOf(parked) = tcbs[None]
  BY <1>1, LoadedReturns
<1>3. /\ tcbs' = SavedTcbs(f)
      /\ \/ running' = None /\ exc_cleanup_return(parked)
         \/ \E t \in Ready : running' = t /\ exc_cleanup_return(Loaded(parked, tcbs[t]))
  BY DEF push_waiting_thread
<1> HIDE DEF parked
<1>4. CASE running' = None /\ exc_cleanup_return(parked)
  <2>1. cpu' = tcbs[None]
    BY <1>2, <1>4, CleanupPops
  <2> QED
    BY <1>3, <1>4, <2>1 DEF LeavesFor, SavedTcbs
<1>5. ASSUME NEW t \in Ready, running' = t, exc_cleanup_return(Loaded(parked, tcbs[t]))
      PROVE  LeavesFor(Saved(f), t)
  <2>1. tcbs[t] \in Contexts
    BY DEF Typed, Ready
  <2>2. cpu' = tcbs[t]
    BY <1>2, <1>5, <2>1, LoadedReturns, CleanupPops
  <2> QED
    BY <1>3, <1>5, <2>2 DEF LeavesFor, SavedTcbs
<1> QED
  BY <1>3, <1>4, <1>5

\* A timer interrupt leaves the running thread as it is, or for another one.
LEMMA TimerEffect ==
  ASSUME Typed, timer_irq
  PROVE  /\ UNCHANGED status
         /\ UNCHANGED <<cpu, tcbs, running>> \/ \E t \in Ready : LeavesFor(cpu, t)
<1>1. IrqFrame \in Frames /\ ContextOf(IrqFrame) = cpu /\ Saved(IrqFrame) = cpu
  BY IrqReturns DEF Typed
<1>2. ASSUME Continue(IrqFrame) PROVE UNCHANGED <<cpu, tcbs, running>>
  BY <1>1, <1>2, CleanupPops DEF Continue
<1>3. ASSUME NEW t \in Ready, SwitchTo(IrqFrame, t) PROVE LeavesFor(cpu, t)
  BY <1>1, <1>3, SwitchEffect
<1> QED
  BY <1>2, <1>3 DEF timer_irq

\* A character changes at most r0 of a thread that waits for one.
LEMMA UartEffect ==
  ASSUME Typed, uart_irq
  PROVE  /\ UNCHANGED <<cpu, running>>
         /\ \/ UNCHANGED <<tcbs, status>>
            \/ \E t \in Threads, c \in Values :
                  /\ status[t] = "waiting"
                  /\ status' = [status EXCEPT ![t] = "ready"]
                  /\ tcbs' = [tcbs EXCEPT ![t].r0 = c]
<1>1. IrqFrame \in Frames /\ ContextOf(IrqFrame) = cpu
  BY IrqReturns DEF Typed
<1>2. exc_cleanup_return(IrqFrame)
  BY DEF uart_irq, Continue
<1>3. cpu' = cpu
  BY <1>1, <1>2, CleanupPops
<1> QED
  BY <1>3 DEF uart_irq, Continue

\* A call returns behind its svc, or its thread waits and will return there.
LEMMA CallEffect ==
  ASSUME Typed, exec_syscall_put_char \/ exec_syscall_wait
  PROVE  /\ AtSvc /\ UNCHANGED status
         /\ \/ cpu' = AfterSvc /\ UNCHANGED <<tcbs, running>>
            \/ \E t \in Ready \cup {None} : LeavesFor(AfterSvc, t)
<1>1. SvcFrame \in Frames /\ ContextOf(SvcFrame) = AfterSvc /\ Saved(SvcFrame) = AfterSvc
  BY SvcReturns DEF Typed
<1>2. AtSvc /\ UNCHANGED status /\ (Continue(SvcFrame) \/ push_waiting_thread(SvcFrame))
  BY DEF exec_syscall_put_char, exec_syscall_wait
<1>3. running # None
  BY <1>2 DEF AtSvc, UserInterrupted
<1>4. CASE Continue(SvcFrame)
  BY <1>1, <1>2, <1>4, CleanupPops DEF Continue
<1>5. CASE push_waiting_thread(SvcFrame)
  BY <1>1, <1>2, <1>3, <1>5, PushWaitingEffect
<1> QED
  BY <1>2, <1>4, <1>5

\* exec_syscall_get_char returns with a character, or parks its caller.
LEMMA GetCharEffect ==
  ASSUME Typed, exec_syscall_get_char
  PROVE  /\ AtSvc
         /\ \/ /\ \E c \in Values : cpu' = [AfterSvc EXCEPT !.r0 = c]
               /\ UNCHANGED <<tcbs, running, status>>
            \/ /\ \E t \in Ready \cup {None} : LeavesFor(AfterSvc, t)
               /\ status' = [status EXCEPT ![running] = "waiting"]
<1>1. SvcFrame \in Frames /\ ContextOf(SvcFrame) = AfterSvc /\ Saved(SvcFrame) = AfterSvc
  BY SvcReturns DEF Typed
<1>2. AtSvc
  BY DEF exec_syscall_get_char
<1>3. running # None
  BY <1>2 DEF AtSvc, UserInterrupted
<1>4. ASSUME NEW c \in Values, Continue([SvcFrame EXCEPT ![At.r0] = c])
      PROVE  cpu' = [AfterSvc EXCEPT !.r0 = c] /\ UNCHANGED <<tcbs, running>>
  <2>1. [SvcFrame EXCEPT ![At.r0] = c] \in Frames
    BY <1>1, ResultReturns
  <2>2. ContextOf([SvcFrame EXCEPT ![At.r0] = c]) = [AfterSvc EXCEPT !.r0 = c]
    BY <1>1, ResultReturns
  <2> QED
    BY <1>4, <2>1, <2>2, CleanupPops DEF Continue
<1>5. ASSUME push_waiting_thread(SvcFrame)
      PROVE  \E t \in Ready \cup {None} : LeavesFor(AfterSvc, t)
  BY <1>1, <1>3, <1>5, PushWaitingEffect
<1> QED
  BY <1>2, <1>4, <1>5 DEF exec_syscall_get_char

\* A call that creates returns, and may have made a thread.
LEMMA CreateEffect ==
  ASSUME Typed, exec_syscall_create
  PROVE  /\ AtSvc /\ cpu' = AfterSvc /\ UNCHANGED running
         /\ \/ UNCHANGED <<tcbs, status>>
            \/ \E t \in Threads, sp, func \in Values, args \in BOOLEAN :
                  /\ status[t] = "free"
                  /\ tcbs' = [tcbs EXCEPT ![t] = init_thread(IF args THEN sp ELSE 0, sp, func)]
                  /\ status' = [status EXCEPT ![t] = "ready"]
<1>1. SvcFrame \in Frames /\ ContextOf(SvcFrame) = AfterSvc
  BY SvcReturns DEF Typed
<1>2. cpu' = AfterSvc
  BY <1>1, CleanupPops DEF exec_syscall_create
<1> QED
  BY <1>2 DEF exec_syscall_create

\* kill_cur_thread loads another thread and saves nothing.
LEMMA KillEffect ==
  ASSUME Typed, kill_cur_thread
  PROVE  /\ UserInterrupted
         /\ \E t \in Ready \cup {None} : running' = t /\ cpu' = tcbs[t]
         /\ status' = [status EXCEPT ![running] = "free"]
         /\ UNCHANGED tcbs
<1>1. SvcFrame \in Frames
  BY SvcReturns DEF Typed
<1>2. FaultFrame = SvcFrame
  BY DEF FaultFrame, SvcFrame
<1>3. PICK t \in Ready \cup {None} : \E f \in {SvcFrame, FaultFrame} :
          running' = t /\ exc_cleanup_return(Loaded(f, tcbs[t]))
  BY DEF kill_cur_thread
<1>4. tcbs[t] \in Contexts
  BY DEF Typed, Ready
<1>5. cpu' = tcbs[t]
  BY <1>1, <1>2, <1>3, <1>4, LoadedReturns, CleanupPops
<1> QED
  BY <1>3, <1>5 DEF kill_cur_thread
-----------------------------------------------------------------------------
(* The inductive invariant.  A switch gives the processor the mode and pc of *)
(* a tcb, so it needs those of the tcbs: user mode for every thread that is  *)
(* not free, and null_thread's tcb unchanged since init_null_thread.         *)

SavedModes ==
    /\ tcbs[None] = NullTcb
    /\ \A t \in Threads : status[t] # "free" => tcbs[t].mode = PROCESSOR_MODE_USR

IInv == TypeOK /\ NoThreadRunsPrivileged /\ NullThreadSpins /\ SavedModes

\* Processor modes and addresses, as numbers.
LEMMA Modes ==
  /\ PROCESSOR_MODE_USR = 16 /\ PROCESSOR_MODE_SVC = 19 /\ PROCESSOR_MODE_UNINITIALIZED = 0
  /\ endless_loop = 0 /\ exit = 1
  BY DEF PROCESSOR_MODE_USR, PROCESSOR_MODE_SVC, PROCESSOR_MODE_UNINITIALIZED,
         endless_loop, exit

\* The tcbs that init_thread and init_null_thread make.
LEMMA InitialTcbs ==
  /\ NullTcb \in Contexts /\ EmptyTcb \in Contexts
  /\ NullTcb.mode = PROCESSOR_MODE_USR /\ NullTcb.pc = endless_loop
  /\ \A r0, sp, func \in Values :
        /\ init_thread(r0, sp, func) \in Contexts
        /\ init_thread(r0, sp, func).mode = PROCESSOR_MODE_USR
<1>1. 0 \in Values /\ 1 \in Values
  BY ValuesAssumption
<1>2. EmptyTcb \in Contexts
  BY <1>1 DEF EmptyTcb, Contexts
<1>3. /\ NullTcb \in Contexts /\ NullTcb.mode = PROCESSOR_MODE_USR
      /\ NullTcb.pc = endless_loop
  BY <1>1, <1>2, Modes DEF NullTcb, Contexts
<1>4. ASSUME NEW r0 \in Values, NEW sp \in Values, NEW func \in Values
      PROVE  /\ init_thread(r0, sp, func) \in Contexts
             /\ init_thread(r0, sp, func).mode = PROCESSOR_MODE_USR
  BY <1>1, Modes DEF init_thread, Contexts
<1> QED
  BY <1>2, <1>3, <1>4

\* The registers behind an svc.
LEMMA AfterSvcTypes ==
  ASSUME cpu \in Contexts, AtSvc
  PROVE  AfterSvc \in Contexts /\ AfterSvc.mode = PROCESSOR_MODE_USR
  BY DEF AtSvc, UserInterrupted, ReturnAddress, AfterSvc, Resuming, Contexts

\* The state in which start_kernel leaves the processor.
LEMMA InitialInvariant == Init => IInv
<1> SUFFICES ASSUME Init PROVE IInv
  OBVIOUS
<1>1. PICK m \in Threads :
          /\ status = [t \in Threads |-> IF t = m THEN "ready" ELSE "free"]
          /\ tcbs = [t \in Threads \cup {None} |->
                        IF t = m THEN init_thread(0, 1, 1)
                        ELSE IF t = None THEN NullTcb ELSE EmptyTcb]
  BY DEF Init
<1>2. 0 \in Values /\ 1 \in Values /\ None \notin Threads
  BY ValuesAssumption
<1>3. /\ init_thread(0, 1, 1) \in Contexts
      /\ init_thread(0, 1, 1).mode = PROCESSOR_MODE_USR
  BY <1>2, InitialTcbs
<1>4. cpu \in Contexts /\ running = None /\ cpu.mode = PROCESSOR_MODE_SVC
  BY <1>2 DEF Init, Contexts
<1>5. tcbs \in [Threads \cup {None} -> Contexts]
  BY <1>1, <1>3, InitialTcbs
<1>6. TypeOK
  BY <1>1, <1>4, <1>5 DEF TypeOK
<1>7. SavedModes
  BY <1>1, <1>2, <1>3 DEF SavedModes
<1> QED
  BY <1>4, <1>6, <1>7, Modes DEF IInv, NoThreadRunsPrivileged, NullThreadSpins
\* What the lemmas on the handlers assume.
LEMMA InvariantIsTyped == IInv => Typed
  BY DEF IInv, TypeOK, Typed

\* Leaving a thread for another keeps the invariant if what is saved is in user mode.
LEMMA LeavingKeepsInvariant ==
  ASSUME IInv, NEW c \in Contexts, NEW t \in Ready \cup {None}, LeavesFor(c, t),
         running # None => c.mode = PROCESSOR_MODE_USR,
         \/ UNCHANGED status
         \/ running # None /\ status' = [status EXCEPT ![running] = "waiting"]
  PROVE  IInv'
<1>1. /\ tcbs' = IF running = None THEN tcbs ELSE [tcbs EXCEPT ![running] = c]
      /\ running' = t /\ cpu' = tcbs[t]
  BY DEF LeavesFor
<1>2. /\ tcbs \in [Threads \cup {None} -> Contexts]
      /\ status \in [Threads -> {"free", "ready", "waiting"}]
      /\ running \in {None} \cup Threads
      /\ running # None => status[running] = "ready"
  BY DEF IInv, TypeOK
<1>3. None \notin Threads
  BY ValuesAssumption
<1>4. \/ t = None
      \/ t \in Threads /\ status[t] = "ready" /\ t # running
  BY DEF Ready
<1>5. status' \in [Threads -> {"free", "ready", "waiting"}]
  BY <1>2
<1>6. \A u \in Threads : u # running => status'[u] = status[u]
  BY <1>2
<1>7. \A u \in Threads \cup {None} : tcbs'[u] = IF u = running /\ u # None THEN c ELSE tcbs[u]
  BY <1>1, <1>2
<1>8. tcbs' \in [Threads \cup {None} -> Contexts]
  BY <1>1, <1>2
<1>9. TypeOK'
  <2>1. cpu' \in Contexts
    BY <1>1, <1>2, <1>4
  <2>2. running' \in {None} \cup {u \in Threads : status'[u] = "ready"}
    BY <1>1, <1>4, <1>6
  <2> QED
    BY <1>5, <1>8, <2>1, <2>2 DEF TypeOK
<1>10. SavedModes'
  <2>1. tcbs'[None] = NullTcb
    BY <1>7 DEF IInv, SavedModes
  <2>2. ASSUME NEW u \in Threads, status'[u] # "free" PROVE tcbs'[u].mode = PROCESSOR_MODE_USR
    <3>1. CASE u = running
      BY <1>3, <1>7, <3>1
    <3>2. CASE u # running
      BY <1>6, <1>7, <2>2, <3>2 DEF IInv, SavedModes
    <3> QED
      BY <3>1, <3>2
  <2> QED
    BY <2>1, <2>2 DEF SavedModes
<1>11. NoThreadRunsPrivileged'
  BY <1>1, <1>4 DEF NoThreadRunsPrivileged, IInv, SavedModes
<1>12. NullThreadSpins'
  BY <1>1, <1>3, <1>4, InitialTcbs DEF NullThreadSpins, IInv, SavedModes
<1> QED
  BY <1>9, <1>10, <1>11, <1>12 DEF IInv

\* Going on in the same thread, in user mode and at values of its own, keeps it.
LEMMA GoingOnKeepsInvariant ==
  ASSUME IInv, running # None, cpu' \in Contexts, cpu'.mode = PROCESSOR_MODE_USR,
         UNCHANGED <<tcbs, running, status>>
  PROVE  IInv'
<1>1. TypeOK' /\ SavedModes'
  BY DEF IInv, TypeOK, SavedModes
<1> QED
  BY <1>1 DEF IInv, NoThreadRunsPrivileged, NullThreadSpins

\* Every action keeps the invariant.
LEMMA StepKeepsInvariant == IInv /\ [Next]_vars => IInv'
<1> SUFFICES ASSUME IInv, [Next]_vars PROVE IInv'
  OBVIOUS
<1>1. Typed /\ None \notin Threads
  BY InvariantIsTyped, ValuesAssumption
<1>2. /\ cpu \in Contexts /\ running \in {None} \cup Threads
      /\ tcbs \in [Threads \cup {None} -> Contexts]
      /\ status \in [Threads -> {"free", "ready", "waiting"}]
  BY DEF IInv, TypeOK
<1>3. running # None => cpu.mode = PROCESSOR_MODE_USR /\ status[running] = "ready"
  BY DEF IInv, TypeOK, NoThreadRunsPrivileged
<1>4. AtSvc => running # None /\ AfterSvc \in Contexts /\ AfterSvc.mode = PROCESSOR_MODE_USR
  BY <1>2, AfterSvcTypes DEF AtSvc, UserInterrupted
<1>5. CASE UNCHANGED vars
  BY <1>5 DEF vars, IInv, TypeOK, SavedModes, NoThreadRunsPrivileged, NullThreadSpins
<1>6. CASE timer_irq
  <2>1. CASE UNCHANGED <<cpu, tcbs, running, status>>
    BY <1>5, <2>1 DEF vars
  <2>2. ASSUME NEW t \in Ready, LeavesFor(cpu, t), UNCHANGED status PROVE IInv'
    BY <1>2, <1>3, <2>2, LeavingKeepsInvariant
  <2> QED
    BY <1>1, <1>6, <2>1, <2>2, TimerEffect
<1>7. CASE uart_irq
  <2>1. CASE UNCHANGED <<cpu, tcbs, running, status>>
    BY <1>5, <2>1 DEF vars
  <2>2. ASSUME NEW t \in Threads, NEW c \in Values, status[t] = "waiting",
               status' = [status EXCEPT ![t] = "ready"],
               tcbs' = [tcbs EXCEPT ![t].r0 = c], UNCHANGED <<cpu, running>>
        PROVE  IInv'
    <3>1. tcbs'[t] \in Contexts /\ tcbs'[t].mode = tcbs[t].mode
      BY <1>2, <2>2 DEF Contexts
    <3>2. \A u \in Threads \cup {None} : u # t => tcbs'[u] = tcbs[u]
      BY <1>2, <2>2
    <3>3. tcbs' \in [Threads \cup {None} -> Contexts]
      BY <1>2, <2>2, <3>1, <3>2
    <3>4. TypeOK'
      BY <1>2, <1>3, <2>2, <3>3 DEF TypeOK
    <3>5. SavedModes'
      BY <1>1, <1>2, <2>2, <3>1, <3>2 DEF IInv, SavedModes
    <3> QED
      BY <2>2, <3>4, <3>5 DEF IInv, NoThreadRunsPrivileged, NullThreadSpins
  <2> QED
    BY <1>1, <1>7, <2>1, <2>2, UartEffect
<1>8. CASE exec_syscall_put_char \/ exec_syscall_wait
  <2>1. CASE cpu' = AfterSvc /\ UNCHANGED <<tcbs, running, status>> /\ AtSvc
    BY <1>4, <2>1, GoingOnKeepsInvariant
  <2>2. ASSUME NEW t \in Ready \cup {None}, LeavesFor(AfterSvc, t), UNCHANGED status, AtSvc
        PROVE  IInv'
    BY <1>4, <2>2, LeavingKeepsInvariant
  <2> QED
    BY <1>1, <1>8, <2>1, <2>2, CallEffect
<1>9. CASE exec_syscall_get_char
  <2>1. ASSUME NEW c \in Values, cpu' = [AfterSvc EXCEPT !.r0 = c],
               UNCHANGED <<tcbs, running, status>>, AtSvc
        PROVE  IInv'
    <3>1. cpu' \in Contexts /\ cpu'.mode = PROCESSOR_MODE_USR
      BY <1>4, <2>1 DEF Contexts
    <3> QED
      BY <1>4, <2>1, <3>1, GoingOnKeepsInvariant
  <2>2. ASSUME NEW t \in Ready \cup {None}, LeavesFor(AfterSvc, t), AtSvc,
               status' = [status EXCEPT ![running] = "waiting"]
        PROVE  IInv'
    BY <1>4, <2>2, LeavingKeepsInvariant
  <2> QED
    BY <1>1, <1>9, <2>1, <2>2, GetCharEffect
<1>10. CASE exec_syscall_create
  <2>1. AtSvc /\ cpu' = AfterSvc /\ UNCHANGED running
    BY <1>1, <1>10, CreateEffect
  <2>2. CASE UNCHANGED <<tcbs, status>>
    BY <1>4, <2>1, <2>2, GoingOnKeepsInvariant
  <2>3. ASSUME NEW t \in Threads, NEW sp \in Values, NEW func \in Values,
               NEW args \in BOOLEAN, status[t] = "free",
               tcbs' = [tcbs EXCEPT ![t] = init_thread(IF args THEN sp ELSE 0, sp, func)],
               status' = [status EXCEPT ![t] = "ready"]
        PROVE  IInv'
    <3> DEFINE tcb == init_thread(IF args THEN sp ELSE 0, sp, func)
    <3>1. tcb \in Contexts /\ tcb.mode = PROCESSOR_MODE_USR
      BY ValuesAssumption, InitialTcbs
    <3>2. tcbs' = [tcbs EXCEPT ![t] = tcb]
      BY <2>3
    <3> HIDE DEF tcb
    <3>3. tcbs' \in [Threads \cup {None} -> Contexts]
      BY <1>2, <3>1, <3>2
    <3>4. TypeOK'
      BY <1>2, <1>3, <1>4, <2>1, <2>3, <3>3 DEF TypeOK
    <3>5. SavedModes'
      BY <1>1, <1>2, <2>3, <3>1, <3>2 DEF IInv, SavedModes
    <3>6. NoThreadRunsPrivileged' /\ NullThreadSpins'
      BY <1>4, <2>1 DEF NoThreadRunsPrivileged, NullThreadSpins
    <3> QED
      BY <3>4, <3>5, <3>6 DEF IInv
  <2> QED
    BY <1>1, <1>10, <2>2, <2>3, CreateEffect
<1>11. CASE kill_cur_thread
  <2>1. /\ running # None /\ UNCHANGED tcbs
        /\ status' = [status EXCEPT ![running] = "free"]
    BY <1>1, <1>11, KillEffect DEF UserInterrupted
  <2>2. PICK t \in Ready \cup {None} : running' = t /\ cpu' = tcbs[t]
    BY <1>1, <1>11, KillEffect
  <2>3. \/ t = None
        \/ t \in Threads /\ status[t] = "ready" /\ t # running
    BY DEF Ready
  <2>4. \A u \in Threads : status'[u] # "free" => status'[u] = status[u]
    BY <1>2, <2>1
  <2>5. status'[t] = "ready" \/ t = None
    BY <1>2, <2>1, <2>3
  <2>6. TypeOK'
    BY <1>2, <2>1, <2>2, <2>3, <2>5 DEF TypeOK
  <2>7. SavedModes'
    BY <2>1, <2>4 DEF IInv, SavedModes
  <2>8. NoThreadRunsPrivileged' /\ NullThreadSpins'
    BY <1>1, <2>2, <2>3, InitialTcbs
       DEF NoThreadRunsPrivileged, NullThreadSpins, IInv, SavedModes
  <2> QED
    BY <2>6, <2>7, <2>8 DEF IInv
<1>12. CASE user_step
  <2>1. PICK v \in Values, r \in DOMAIN cpu \ {"mode"} : cpu' = [cpu EXCEPT ![r] = v]
    BY <1>12 DEF user_step
  <2>2. DOMAIN cpu = {"r0", "rest", "lr", "sp", "pc", "mode"}
    BY <1>2 DEF Contexts
  <2>3. cpu' \in Contexts /\ cpu'.mode = cpu.mode
    BY <1>2, <2>1, <2>2 DEF Contexts
  <2>4. running # None /\ UNCHANGED <<tcbs, running, status>>
    BY <1>12 DEF user_step, UserInterrupted
  <2> QED
    BY <1>3, <2>3, <2>4, GoingOnKeepsInvariant
<1> QED
  BY <1>5, <1>6, <1>7, <1>8, <1>9, <1>10, <1>11, <1>12 DEF Next

\* The inductive invariant holds in every reachable state.
THEOREM InvariantHolds == Spec => []IInv
  BY InitialInvariant, StepKeepsInvariant, PTL DEF Spec
\* Saved and loaded registers are user registers, whatever the handlers do.
THEOREM TypeCorrect == Spec => []TypeOK
<1>1. IInv => TypeOK
  BY DEF IInv
<1> QED
  BY <1>1, InvariantHolds, PTL

\* Every thread runs in user mode.
THEOREM ThreadsRunInUserMode == Spec => []NoThreadRunsPrivileged
<1>1. IInv => NoThreadRunsPrivileged
  BY DEF IInv
<1> QED
  BY <1>1, InvariantHolds, PTL

\* null_thread never leaves endless_loop.
THEOREM NullThreadStays == Spec => []NullThreadSpins
<1>1. IInv => NullThreadSpins
  BY DEF IInv
<1> QED
  BY <1>1, InvariantHolds, PTL

-----------------------------------------------------------------------------
(* The refinement of OwnProcessor.                                          *)

Live == {t \in Threads : status[t] # "free"}

\* The registers that the mapping takes from the saved ones and the processor's.
LEMMA OwnRegisters ==
  ASSUME TypeOK
  PROVE  own \in [Threads -> Registers]
<1>1. \A c \in Contexts : UserRegisters(c) \in Registers
  BY DEF UserRegisters, Contexts, Registers
<1>2. \A t \in Threads : IF t = running THEN cpu \in Contexts ELSE tcbs[t] \in Contexts
  BY DEF TypeOK
<1> QED
  BY <1>1, <1>2 DEF own

\* The registers of one thread.
LEMMA OwnValue ==
  ASSUME NEW t \in Threads
  PROVE  own[t] = UserRegisters(IF t = running THEN cpu ELSE tcbs[t])
  BY DEF own

\* Two functions on the threads that agree are the same.
LEMMA SameRegisters ==
  ASSUME TypeOK, TypeOK', \A t \in Threads : own'[t] = own[t]
  PROVE  own' = own
  BY DEF own

\* The initial states are initial states of OwnProcessor.
LEMMA InitialRefinement == Init => Own!Init
<1> SUFFICES ASSUME Init PROVE Own!Init
  OBVIOUS
<1>1. TypeOK
  BY InitialInvariant DEF IInv
<1>2. own \in [Threads -> Own!Registers]
  BY <1>1, OwnRegisters DEF Registers, Own!Registers
<1>3. \E main \in Threads : Live = {main}
  BY DEF Init, Live
<1> QED
  BY <1>2, <1>3 DEF Init, Own!Init, Live
\* The registers of a context c behind an svc, with a result.
LEMMA ReturnedRegisters ==
  ASSUME NEW regs \in Registers, NEW result \in Values
  PROVE  Own!Returned(regs, result) =
             [r0 |-> result, rest |-> regs.rest, lr |-> regs.lr, sp |-> regs.sp,
              pc |-> regs.pc + 1]
<1> DEFINE wide == [r0 : Int, rest : Int, lr : Int, sp : Int, pc : Int]
           next == regs.pc + 1
           a == [[regs EXCEPT !.r0 = result] EXCEPT !.pc = next]
           b == [r0 |-> result, rest |-> regs.rest, lr |-> regs.lr, sp |-> regs.sp,
                 pc |-> next]
<1>1. \A v \in Values : v \in Int
  BY ValuesAssumption
<1>2. regs \in wide
  BY <1>1 DEF Registers
<1>3. result \in Int /\ next \in Int
  BY <1>1, <1>2
<1>4. Own!Returned(regs, result) = a
  BY DEF Own!Returned
<1> HIDE DEF next
<1>5. [regs EXCEPT !.r0 = result] \in wide
  BY <1>2, <1>3
<1>6. a \in wide
  BY <1>3, <1>5
<1>7. /\ a.r0 = result /\ a.rest = regs.rest /\ a.lr = regs.lr
      /\ a.sp = regs.sp /\ a.pc = next
  BY <1>2, <1>3
<1>8. /\ b \in wide /\ b.r0 = result /\ b.rest = regs.rest /\ b.lr = regs.lr
      /\ b.sp = regs.sp /\ b.pc = next
  BY <1>2, <1>3
<1> HIDE DEF a, b
<1>9. a = b
  BY <1>6, <1>7, <1>8
<1> QED
  BY <1>4, <1>9 DEF b, next

\* What an svc does to the caller's own registers.
LEMMA OwnAfterSvc ==
  ASSUME NEW c \in Values, cpu \in Contexts
  PROVE  /\ UserRegisters(AfterSvc) = Own!Returned(UserRegisters(cpu), UserRegisters(cpu).r0)
         /\ UserRegisters([AfterSvc EXCEPT !.r0 = c]) = Own!Returned(UserRegisters(cpu), c)
<1>1. /\ UserRegisters(cpu) \in Registers /\ UserRegisters(cpu).r0 = cpu.r0
      /\ UserRegisters(cpu).rest = cpu.rest /\ UserRegisters(cpu).lr = cpu.lr
      /\ UserRegisters(cpu).sp = cpu.sp /\ UserRegisters(cpu).pc = cpu.pc
  BY DEF UserRegisters, Registers, Contexts
<1>2. /\ AfterSvc.r0 = cpu.r0 /\ AfterSvc.rest = cpu.rest /\ AfterSvc.lr = cpu.lr
      /\ AfterSvc.sp = cpu.sp /\ AfterSvc.pc = cpu.pc + 1
  BY DEF AfterSvc, Resuming, Contexts
<1> DEFINE a == [AfterSvc EXCEPT !.r0 = c]
<1>3. /\ a.r0 = c /\ a.rest = cpu.rest /\ a.lr = cpu.lr
      /\ a.sp = cpu.sp /\ a.pc = cpu.pc + 1
  BY DEF AfterSvc, Resuming, Contexts
<1> HIDE DEF a
<1>4. cpu.r0 \in Values
  BY DEF Contexts
<1>5. UserRegisters(AfterSvc) = Own!Returned(UserRegisters(cpu), UserRegisters(cpu).r0)
  BY <1>1, <1>2, <1>4, ReturnedRegisters DEF UserRegisters
<1>6. UserRegisters(a) = Own!Returned(UserRegisters(cpu), c)
  BY <1>1, <1>3, ReturnedRegisters DEF UserRegisters
<1> QED
  BY <1>5, <1>6 DEF a

\* Leaving a thread for another changes at most the registers it is left with.
LEMMA LeavingKeepsOwn ==
  ASSUME IInv, IInv', NEW c, NEW t \in Ready \cup {None}, LeavesFor(c, t)
  PROVE  /\ running = None => own' = own
         /\ running # None => own' = [own EXCEPT ![running] = UserRegisters(c)]
         /\ running' \in Live \cup {None}
<1>1. /\ tcbs' = IF running = None THEN tcbs ELSE [tcbs EXCEPT ![running] = c]
      /\ running' = t /\ cpu' = tcbs[t]
  BY DEF LeavesFor
<1>2. /\ tcbs \in [Threads \cup {None} -> Contexts] /\ running \in {None} \cup Threads
      /\ None \notin Threads
  BY ValuesAssumption DEF IInv, TypeOK
<1>3. \/ t = None
      \/ t \in Threads /\ status[t] = "ready" /\ t # running
  BY DEF Ready
<1>4. ASSUME NEW u \in Threads
      PROVE  own'[u] = IF u = running THEN UserRegisters(c) ELSE own[u]
  <2>1. own'[u] = UserRegisters(IF u = running' THEN cpu' ELSE tcbs'[u])
    BY DEF own, UserRegisters
  <2>2. own[u] = UserRegisters(IF u = running THEN cpu ELSE tcbs[u])
    BY OwnValue
  <2>3. CASE u = t
    BY <1>1, <1>2, <1>3, <2>1, <2>2, <2>3
  <2>4. CASE u # t
    BY <1>1, <1>2, <2>1, <2>2, <2>4
  <2> QED
    BY <2>3, <2>4
<1>5. own = [u \in Threads |-> own[u]] /\ own' = [u \in Threads |-> own'[u]]
  BY DEF own
<1>6. running = None => own' = own
  BY <1>2, <1>4, <1>5
<1>7. running # None => own' = [own EXCEPT ![running] = UserRegisters(c)]
  BY <1>2, <1>4, <1>5
<1>8. running' \in Live \cup {None}
  BY <1>1, <1>3 DEF Live
<1> QED
  BY <1>6, <1>7, <1>8

\* What an interrupt does to the threads' own registers.
LEMMA TimerKeepsOwn ==
  ASSUME IInv, IInv', timer_irq
  PROVE  UNCHANGED own /\ Live' = Live /\ running' \in Live \cup {None}
<1>1. Typed /\ UNCHANGED status
  BY InvariantIsTyped, TimerEffect
<1>2. Live' = Live
  BY <1>1 DEF Live
<1>3. running \in Live \cup {None}
  BY DEF IInv, TypeOK, Live
<1>4. CASE UNCHANGED <<cpu, tcbs, running>>
  BY <1>2, <1>3, <1>4 DEF own, UserRegisters
<1>5. ASSUME NEW t \in Ready, LeavesFor(cpu, t)
      PROVE  UNCHANGED own /\ running' \in Live \cup {None}
  <2>1. CASE running = None
    BY <1>5, <2>1, LeavingKeepsOwn
  <2>2. CASE running # None
    <3>1. running \in Threads /\ own[running] = UserRegisters(cpu)
      BY <1>1, <2>2, OwnValue DEF Typed
    <3>2. own' = [own EXCEPT ![running] = own[running]] /\ running' \in Live \cup {None}
      BY <1>5, <2>2, <3>1, LeavingKeepsOwn
    <3>3. own = [u \in Threads |-> own[u]]
      BY DEF own
    <3> QED
      BY <3>1, <3>2, <3>3
  <2> QED
    BY <2>1, <2>2
<1> QED
  BY <1>1, <1>2, <1>4, <1>5, TimerEffect

\* A character changes at most the own registers of the thread it answers.
LEMMA UartAnswers ==
  ASSUME IInv, IInv', uart_irq
  PROVE  /\ \/ UNCHANGED own
            \/ \E t \in Threads, c \in Values : Own!Answer(t, c)
         /\ Live' = Live /\ UNCHANGED running
<1>1. Typed /\ UNCHANGED <<cpu, running>> /\ None \notin Threads
  BY InvariantIsTyped, UartEffect, ValuesAssumption
<1>2. CASE UNCHANGED <<tcbs, status>>
  BY <1>1, <1>2 DEF own, UserRegisters, Live
<1>3. ASSUME NEW t \in Threads, NEW c \in Values, status[t] = "waiting",
             status' = [status EXCEPT ![t] = "ready"], tcbs' = [tcbs EXCEPT ![t].r0 = c]
      PROVE  Own!Answer(t, c) /\ Live' = Live
  <2>1. t # running
    BY <1>1, <1>3 DEF IInv, TypeOK
  <2>2. status \in [Threads -> {"free", "ready", "waiting"}]
        /\ tcbs \in [Threads \cup {None} -> Contexts]
    BY DEF IInv, TypeOK
  <2>3. Live' = Live
    BY <1>3, <2>2 DEF Live
  <2>4. /\ tcbs[t] \in Contexts /\ tcbs'[t] = [tcbs[t] EXCEPT !.r0 = c]
        /\ \A u \in Threads : u # t => tcbs'[u] = tcbs[u]
    BY <1>3, <2>2
  <2>5. UserRegisters(tcbs'[t]) = [UserRegisters(tcbs[t]) EXCEPT !.r0 = c]
    BY <2>4 DEF UserRegisters, Contexts
  <2>6. own'[t] = [own[t] EXCEPT !.r0 = c]
    BY <1>1, <2>1, <2>5 DEF own
  <2>7. \A u \in Threads : u # t => own'[u] = own[u]
    BY <1>1, <2>4 DEF own, UserRegisters
  <2>8. own = [u \in Threads |-> own[u]] /\ own' = [u \in Threads |-> own'[u]]
    BY DEF own
  <2>9. own' = [own EXCEPT ![t].r0 = c]
    BY <2>6, <2>7, <2>8
  <2> QED
    BY <1>1, <1>3, <2>1, <2>3, <2>9 DEF Own!Answer, Live
<1> QED
  BY <1>1, <1>2, <1>3, UartEffect
\* Going on in the running thread changes its own registers to those of the processor.
LEMMA GoingOnInOwn ==
  ASSUME IInv, running # None, UNCHANGED <<tcbs, running>>
  PROVE  own' = [own EXCEPT ![running] = UserRegisters(cpu')]
<1>1. running \in Threads
  BY DEF IInv, TypeOK
<1>2. own = [u \in Threads |-> own[u]] /\ own' = [u \in Threads |-> own'[u]]
  BY DEF own
<1>3. \A u \in Threads : u # running => own'[u] = own[u]
  BY DEF own, UserRegisters
<1>4. own'[running] = UserRegisters(cpu')
  BY <1>1 DEF own, UserRegisters
<1> QED
  BY <1>1, <1>2, <1>3, <1>4

\* A call without a result, or one whose thread waits for it, returns behind its svc.
LEMMA CallReturns ==
  ASSUME IInv, IInv', AtSvc, Live' = Live,
         \/ cpu' = AfterSvc /\ UNCHANGED <<tcbs, running>>
         \/ \E t \in Ready \cup {None} : LeavesFor(AfterSvc, t)
  PROVE  Own!Call(own[running].r0) /\ own[running].r0 \in Values
<1>1. running # None /\ running \in Threads /\ running \in Live /\ cpu \in Contexts
  BY DEF AtSvc, UserInterrupted, IInv, TypeOK, Live
<1>2. own[running] = UserRegisters(cpu) /\ UserRegisters(cpu).r0 \in Values
  BY <1>1, OwnValue DEF UserRegisters, Contexts
<1>3. 0 \in Values
  BY ValuesAssumption
<1>4. UserRegisters(AfterSvc) = Own!Returned(own[running], own[running].r0)
  BY <1>1, <1>2, <1>3, OwnAfterSvc
<1>5. own' = [own EXCEPT ![running] = UserRegisters(AfterSvc)] /\ running' \in Live \cup {None}
  <2>1. CASE cpu' = AfterSvc /\ UNCHANGED <<tcbs, running>>
    BY <1>1, <2>1, GoingOnInOwn
  <2>2. CASE \E t \in Ready \cup {None} : LeavesFor(AfterSvc, t)
    BY <1>1, <2>2, LeavingKeepsOwn
  <2> QED
    BY <2>1, <2>2
<1>6. own' = [own EXCEPT ![running] = Own!Returned(own[running], own[running].r0)]
  BY <1>4, <1>5
<1> QED
  BY <1>1, <1>2, <1>5, <1>6 DEF Own!Call, Live

\* Every action is an action of OwnProcessor, or a stuttering step of it.
LEMMA StepRefines == IInv /\ [Next]_vars => [Own!Next]_(Own!ownVars)
<1> SUFFICES ASSUME IInv, [Next]_vars PROVE [Own!Next]_(Own!ownVars)
  OBVIOUS
<1>1. IInv' /\ TypeOK /\ TypeOK'
  BY StepKeepsInvariant DEF IInv
<1>2. Typed /\ None \notin Threads
  BY InvariantIsTyped, ValuesAssumption
<1>3. /\ own \in [Threads -> Registers] /\ own' \in [Threads -> Registers]
      /\ Registers = Own!Registers
  <2>1. \A c \in Contexts : UserRegisters(c) \in Registers
    BY DEF UserRegisters, Contexts, Registers
  <2>2. \A t \in Threads : IF t = running' THEN cpu' \in Contexts ELSE tcbs'[t] \in Contexts
    BY <1>1 DEF TypeOK
  <2>3. own' \in [Threads -> Registers]
    BY <2>1, <2>2 DEF own, UserRegisters
  <2> QED
    BY <1>1, <2>3, OwnRegisters DEF Registers, Own!Registers
<1>4. /\ running \in {None} \cup Threads /\ cpu \in Contexts
      /\ running # None => running \in Live
      /\ status \in [Threads -> {"free", "ready", "waiting"}]
      /\ tcbs \in [Threads \cup {None} -> Contexts]
  BY DEF IInv, TypeOK, Live
<1>5. CASE UNCHANGED vars
  BY <1>5 DEF vars, Own!ownVars, own, UserRegisters
<1>6. CASE timer_irq
  BY <1>1, <1>6, TimerKeepsOwn DEF Own!Next, Own!Interrupt, Live
<1>7. CASE uart_irq
  BY <1>1, <1>7, UartAnswers DEF Own!Next, Own!ownVars, Live
<1>8. CASE exec_syscall_put_char \/ exec_syscall_wait
  <2>1. Live' = Live
    BY <1>2, <1>8, CallEffect DEF Live
  <2> QED
    BY <1>1, <1>2, <1>8, <2>1, CallEffect, CallReturns DEF Own!Next
<1>9. CASE exec_syscall_get_char
  <2>1. AtSvc /\ running # None /\ running \in Threads
    BY <1>2, <1>4, <1>9, GetCharEffect DEF AtSvc, UserInterrupted
  <2>2. ASSUME NEW c \in Values, cpu' = [AfterSvc EXCEPT !.r0 = c],
               UNCHANGED <<tcbs, running, status>>
        PROVE  Own!Call(c)
    <3>1. own[running] = UserRegisters(cpu)
      BY <2>1, OwnValue
    <3>2. own' = [own EXCEPT ![running] = Own!Returned(own[running], c)]
      BY <1>4, <2>1, <2>2, <3>1, GoingOnInOwn, OwnAfterSvc
    <3> QED
      BY <1>4, <2>1, <2>2, <3>2 DEF Own!Call, Live
  <2>3. ASSUME \E t \in Ready \cup {None} : LeavesFor(AfterSvc, t),
               status' = [status EXCEPT ![running] = "waiting"]
        PROVE  Own!Call(own[running].r0) /\ own[running].r0 \in Values
    <3>1. Live' = Live
      BY <1>4, <2>1, <2>3 DEF Live
    <3> QED
      BY <1>1, <2>1, <2>3, <3>1, CallReturns
  <2> QED
    BY <1>2, <1>9, <2>2, <2>3, GetCharEffect DEF Own!Next
<1>10. CASE exec_syscall_create
  <2>1. /\ AtSvc /\ cpu' = AfterSvc /\ UNCHANGED running
        /\ running # None /\ running \in Threads
    BY <1>2, <1>4, <1>10, CreateEffect DEF AtSvc, UserInterrupted
  <2>2. CASE UNCHANGED <<tcbs, status>>
    <3>1. Live' = Live
      BY <2>2 DEF Live
    <3> QED
      BY <1>1, <2>1, <2>2, <3>1, CallReturns DEF Own!Next
  <2>3. ASSUME NEW t \in Threads, NEW tcb, status[t] = "free",
               tcbs' = [tcbs EXCEPT ![t] = tcb],
               status' = [status EXCEPT ![t] = "ready"]
        PROVE  Own!Create(t)
    <3>1. t \notin Live /\ Live' = Live \cup {t} /\ t # running
      BY <1>4, <2>1, <2>3 DEF Live
    <3>2. \A u \in Threads \ {running, t} : own'[u] = own[u]
      BY <1>4, <2>1, <2>3 DEF own, UserRegisters
    <3>3. own'[running] = UserRegisters(AfterSvc) /\ own[running] = UserRegisters(cpu)
      BY <2>1 DEF own, UserRegisters
    <3>4. own'[running] = Own!Returned(own[running], own[running].r0)
      <4>1. 0 \in Values
        BY ValuesAssumption
      <4> QED
        BY <1>4, <3>3, <4>1, OwnAfterSvc
    <3> QED
      BY <1>3, <2>1, <3>1, <3>2, <3>4 DEF Own!Create, Own!OnlyChange, Live
  <2> QED
    BY <1>2, <1>10, <2>2, <2>3, CreateEffect DEF Own!Next
<1>11. CASE kill_cur_thread
  <2>1. /\ running # None /\ running \in Threads /\ UNCHANGED tcbs
        /\ status' = [status EXCEPT ![running] = "free"]
    BY <1>2, <1>4, <1>11, KillEffect DEF UserInterrupted
  <2>2. PICK t \in Ready \cup {None} : running' = t /\ cpu' = tcbs[t]
    BY <1>2, <1>11, KillEffect
  <2>3. /\ Live' = Live \ {running} /\ running' \in Live' \cup {None} /\ t # running
    BY <1>2, <1>4, <2>1, <2>2 DEF Live, Ready
  <2>4. \A u \in Threads \ {running} : own'[u] = own[u]
    BY <2>1, <2>2, <2>3 DEF own, UserRegisters
  <2>5. Own!End
    BY <1>3, <2>1, <2>3, <2>4 DEF Own!End, Own!OnlyChange, Live
  <2> QED
    BY <2>5 DEF Own!Next
<1>12. CASE user_step
  <2>1. running # None /\ UNCHANGED <<tcbs, running, status>>
    BY <1>12 DEF user_step, UserInterrupted
  <2>2. \A u \in Threads \ {running} : own'[u] = own[u]
    BY <2>1 DEF own, UserRegisters
  <2>3. Own!Instruction
    BY <1>3, <2>1, <2>2 DEF Own!Instruction, Own!OnlyChange
  <2> QED
    BY <2>3 DEF Own!Next
<1> QED
  BY <1>5, <1>6, <1>7, <1>8, <1>9, <1>10, <1>11, <1>12 DEF Next
\* Every thread has registers of its own: Exceptions implements OwnProcessor.
THEOREM Implementation == Spec => ImplementsOwnProcessor
<1> QED
  BY InitialRefinement, StepRefines, InvariantHolds, PTL
     DEF Spec, ImplementsOwnProcessor, Own!Spec

\* No register changes by an interrupt or a call, but by the results of calls.
THEOREM Invisibility == Spec => InterruptsAreInvisible
<1>1. ASSUME IInv, IInv', [Next]_vars
      PROVE  [/\ timer_irq => UNCHANGED own
              /\ uart_irq => UNCHANGED own \/ \E t \in Threads, c \in Values : Own!Answer(t, c)
              /\ exec_syscall_put_char \/ exec_syscall_wait => Own!Call(own[running].r0)]_vars
  <2>1. timer_irq => UNCHANGED own
    BY <1>1, TimerKeepsOwn
  <2>2. uart_irq => UNCHANGED own \/ \E t \in Threads, c \in Values : Own!Answer(t, c)
    BY <1>1, UartAnswers
  <2>3. ASSUME exec_syscall_put_char \/ exec_syscall_wait PROVE Own!Call(own[running].r0)
    <3>1. Typed
      BY <1>1, InvariantIsTyped
    <3>2. /\ AtSvc /\ UNCHANGED status
          /\ \/ cpu' = AfterSvc /\ UNCHANGED <<tcbs, running>>
             \/ \E t \in Ready \cup {None} : LeavesFor(AfterSvc, t)
      BY <2>3, <3>1, CallEffect
    <3>3. Live' = Live
      BY <3>2 DEF Live
    <3> QED
      BY <1>1, <3>2, <3>3, CallReturns
  <2> QED
    BY <2>1, <2>2, <2>3
<1> QED
  BY <1>1, InvariantHolds, PTL DEF Spec, InterruptsAreInvisible
=============================================================================
