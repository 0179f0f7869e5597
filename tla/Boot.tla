-------------------------------- MODULE Boot --------------------------------
(***************************************************************************)
(* From reset to the first thread: system/entry.S, system/start.c,         *)
(* driver/mmuasm.S and what they call, statement by statement where it     *)
(* matters, with the interrupts that entry.S enables at once.              *)
(*                                                                         *)
(* From init_mmu on all accesses go through the tables of PageEntries and  *)
(* a TLB, which the processor may fill from the current table between any  *)
(* two instructions.  Of the L2 tables there are the initial one, that of  *)
(* the null process and that of the first process.                         *)
(*                                                                         *)
(* struck records that something outside the program struck at one of the  *)
(* moments at which booting cannot bear it.  It guards nothing.            *)
(***************************************************************************)
EXTENDS PageEntries, Sequences, FiniteSets

CONSTANTS
    UART_INPUT_BUFFER_SIZE   \* config.h

ASSUME BootAssumption == UART_INPUT_BUFFER_SIZE \in Nat \ {0}

VARIABLES
    pc,          \* position of the boot code in Program
    context,     \* "boot", "main": what runs while no handler does; "lost": nothing sound
    irqs_masked, \* the I bit
    controller,  \* enable_irq_h
    timer,       \* "off", "running", "interrupting"
    rx,          \* the UART holds a received character
    buffered,    \* characters in the input ring
    dacr, l1,    \* domains and the L1 table
    l2_table,    \* of each table its entries
    tlb,         \* cached translations: pairs of a page of user memory and an entry
    data,        \* frames that hold the initial user data; Saved for the kernel's copy
    running,     \* running_thread
    thread_indices_q,
    stored,      \* threads[1] has been written
    struck

vars == <<pc, context, irqs_masked, controller, timer, rx, buffered, dacr, l1,
          l2_table, tlb, data, running, thread_indices_q, stored, struck>>

devices == <<timer, rx, buffered>>
tables == <<dacr, l1, l2_table, tlb>>
threads == <<running, thread_indices_q, stored>>

-----------------------------------------------------------------------------
(* The program.                                                             *)

\* Interrupt sources on before the handlers have their vectors (mutant).
SourcesFirst ==
    <<"init_interrupt_controller", "init_uart", "init_local_timer", "init_modes", "set_vbar",
      "init_dacr", "init_l1", "enable_mmu", "copy_udata", "init_scheduler",
      "register_process", "init_process_memory", "invalidate", "store", "copy_in_udata",
      "invalidate", "store_back", "init_thread_memory", "push_index", "store_tcb", "idle">>

Program ==
    <<"init_modes", "set_vbar", "init_interrupt_controller", "init_uart", "init_local_timer",
      "init_dacr", "init_l1", "enable_mmu", "copy_udata", "init_scheduler",
      "register_process", "init_process_memory", "invalidate", "store", "copy_in_udata",
      "invalidate", "store_back", "init_thread_memory", "push_index", "store_tcb", "idle">>

Done(step) == \E k \in 1 .. pc - 1 : Program[k] = step

\* UDATA_USTACK_PHYS_BASE_MB, from kernel.lds, and the megabytes that matter:
\* kernel, user and device memory, and some that are never mapped.
UserMb == 5
Devices == {1008, 1010, 1024}
Megabytes == (0 .. 7) \cup Devices

\* Addresses of the L2 tables, aligned to 1024 bytes, in kernel data.  Two of
\* them are such that an entry that mixes them points to the third.
InitTable == {10, 21}
NullTable == {11, 21}
ProcessTable == {10, 11, 21}
Tables == {InitTable, NullTable, ProcessTable}

Pages == 0 .. 4

\* Page 0 of the megabytes of the image, of the kernel's copy of it (kernel.lds)
\* and of the first process: where the initial user data are.
FrameOf(mb) == ShiftedLeft(Word(mb), 20)
ImageData == FrameOf(UserMb)
CopiedData == FrameOf(3)
ProcessData == FrameOf(UserMb + 1)

-----------------------------------------------------------------------------
(* Translation of user memory; kernel and device memory is mapped by        *)
(* sections that never change.                                              *)

MmuOn == Done("enable_mmu")

\* What a walk finds for each page: a table that is none of the three is one of
\* zeros.
Walked ==
    IF IsTable(l1[UserMb]) /\ TableOf(l1[UserMb]) \in Tables
    THEN l2_table[TableOf(l1[UserMb])] ELSE [v \in Pages |-> {}]

Walks == {<<v, Walked[v]>> : v \in {p \in Pages : ~IsFault(Walked[p])}}

\* The entries that an access to page v may use.
EntriesFor(v) ==
    LET cached == {t[2] : t \in {u \in tlb : u[1] = v}}
    IN  IF cached = {} THEN {Walked[v]} ELSE cached

\* Nothing invalidated (mutant).
KeptTlb(t) == t

InvalidatedTlb(t) == {}

\* switch_memory in a handler.  Between its two instructions the walker may have
\* read any entries of the table that is being left.
switch_memory(table) ==
    \E early \in SUBSET Walks :
        /\ tlb' = InvalidatedTlb(tlb) \cup early
        /\ l1' = [l1 EXCEPT ![UserMb] = SwitchedEntry(@, table)]
        /\ struck' = IF early = {} THEN struck ELSE struck \cup {"refill"}

-----------------------------------------------------------------------------
(* The boot code.                                                           *)

At(step) == context = "boot" /\ Program[pc] = step /\ pc' = pc + 1

\* No effect on what is modelled: the vectors' address, whose moment matters,
\* and scheduler_register_process, whose pcb has an empty table.
silent_step ==
    /\ \E step \in {"set_vbar", "register_process"} : At(step)
    /\ UNCHANGED <<context, irqs_masked, controller, devices, tables, data, threads, struck>>

_init_modes ==
    /\ At("init_modes")
    /\ irqs_masked' = FALSE
    /\ UNCHANGED <<context, controller, devices, tables, data, threads, struck>>

UartIrq == 57 - 32

init_interrupt_controller ==
    /\ At("init_interrupt_controller")
    /\ controller' = SetBit(controller, UartIrq)
    /\ UNCHANGED <<context, irqs_masked, devices, tables, data, threads, struck>>

init_uart ==
    /\ At("init_uart")
    /\ buffered' = 0
    /\ UNCHANGED <<context, irqs_masked, controller, timer, rx, tables, data, threads, struck>>

\* A timer whose interrupt is not enabled (mutant).
TimerLeftOff == "off"
TimerStarted == "running"

init_local_timer ==
    /\ At("init_local_timer")
    /\ timer' = TimerStarted
    /\ UNCHANGED <<context, irqs_masked, controller, rx, buffered, tables, data, threads, struck>>

init_dacr ==
    /\ At("init_dacr")
    /\ dacr' = get_dacr_init_val(dacr)
    /\ UNCHANGED <<context, irqs_masked, controller, devices, l1, l2_table, tlb, data, threads,
                   struck>>

\* The fixed entries; all others are zero.
InitialEntry(mb) ==
    CASE mb \in {0, 1}              -> build_l1_1MB_page_entry(mb, SysOnlyReadOnly, TRUE, TRUE)
      [] mb \in {2, 3} \cup Devices -> build_l1_1MB_page_entry(mb, SysOnlyFull, FALSE, FALSE)
      [] mb = 4                     -> build_l1_1MB_page_entry(mb, SysUserReadOnly, TRUE, FALSE)
      [] mb = UserMb                -> build_l1_l2_pointer_entry(InitTable, FALSE)
      [] OTHER                      -> {}

WithEntry(table, v, mb, index) ==
    [l2_table EXCEPT ![table][v] = build_l2_4KB_page_entry(mb, index, SysUserFull, FALSE)]

init_l1 ==
    /\ At("init_l1")
    /\ l1' = [mb \in Megabytes |-> InitialEntry(mb)]
    /\ l2_table' = WithEntry(InitTable, 0, UserMb, 0)
    /\ UNCHANGED <<context, irqs_masked, controller, devices, dacr, tlb, data, threads, struck>>

\* What a content of SPSR_svc does to the code that runs with it as its state: the
\* bits for the mode, for Thumb and Jazelle, for the order of bytes and for IRQs.
ProcessorStates ==
    [supervisor : BOOLEAN, arm : BOOLEAN, little_endian : BOOLEAN, irqs_masked : BOOLEAN]

\* Not in user mode, which may not fetch kernel code, nor on the stack of another mode,
\* and with instructions and data read as they were compiled.
Sound(state) == state.supervisor /\ state.arm /\ state.little_endian

\* TTBR0 and SCTLR.  init_mmu then returns with movs, which takes the whole
\* processor state from SPSR_svc: nothing has written it.
enable_mmu ==
    /\ At("enable_mmu")
    /\ \E spsr \in ProcessorStates :
           /\ irqs_masked' = spsr.irqs_masked
           /\ context' = IF Sound(spsr) THEN context ELSE "lost"
           /\ struck' = struck \cup (IF Sound(spsr) THEN {} ELSE {"wrong state"})
                              \cup (IF spsr.irqs_masked THEN {"masked"} ELSE {})
    /\ UNCHANGED <<controller, devices, tables, data, threads>>

\* A copy of the kernel between page 0 of user memory, through entry e, and its
\* own memory.  A page that faults stops the kernel.
Copies(e, from, to) ==
    /\ context' = IF IsFault(e) THEN "lost" ELSE context
    /\ data' = IF from \in data THEN data \cup {to} ELSE data \ {to}

copy_udata ==
    /\ At("copy_udata")
    /\ \E e \in EntriesFor(0) : Copies(e, Frame(e), CopiedData)
    /\ UNCHANGED <<irqs_masked, controller, devices, tables, threads, struck>>

\* init_null_thread has given the null thread its stack page.
init_scheduler ==
    /\ At("init_scheduler")
    /\ l2_table' = WithEntry(NullTable, 2, UserMb, 1)
    /\ running' = "null"
    /\ UNCHANGED <<context, irqs_masked, controller, devices, dacr, l1, tlb, data,
                   thread_indices_q, stored, struck>>

init_process_memory ==
    /\ At("init_process_memory")
    /\ l2_table' = WithEntry(ProcessTable, 0, UserMb + 1, 0)
    /\ UNCHANGED <<context, irqs_masked, controller, devices, dacr, l1, tlb, data, threads,
                   struck>>

invalidate ==
    /\ At("invalidate")
    /\ tlb' = InvalidatedTlb(tlb)
    /\ UNCHANGED <<context, irqs_masked, controller, devices, dacr, l1, l2_table, data, threads,
                   struck>>

\* The second half of switch_memory, to the new process or back to the current.
store ==
    /\ \/ At("store") /\ l1' = [l1 EXCEPT ![UserMb] = SwitchedEntry(@, ProcessTable)]
       \/ At("store_back") /\ l1' = [l1 EXCEPT ![UserMb] = SwitchedEntry(@, NullTable)]
    /\ UNCHANGED <<context, irqs_masked, controller, devices, dacr, l2_table, tlb, data, threads,
                   struck>>

copy_in_udata ==
    /\ At("copy_in_udata")
    /\ \E e \in EntriesFor(0) : Copies(e, CopiedData, Frame(e))
    /\ UNCHANGED <<irqs_masked, controller, devices, tables, threads, struck>>

\* Thread 1 of process 1, whose pid is 1.
init_thread_memory ==
    /\ At("init_thread_memory")
    /\ l2_table' = WithEntry(ProcessTable, 1 * 2 + 1 + 1, UserMb + 1, 1 + 1)
    /\ UNCHANGED <<context, irqs_masked, controller, devices, dacr, l1, tlb, data, threads,
                   struck>>

\* scheduler_register_thread: the index is queued before the tcb is there.
push_index ==
    /\ At("push_index")
    /\ thread_indices_q' = Append(thread_indices_q, 1)
    /\ UNCHANGED <<context, irqs_masked, controller, devices, tables, data, running, stored,
                   struck>>

store_tcb ==
    /\ At("store_tcb")
    /\ stored' = TRUE
    /\ UNCHANGED <<context, irqs_masked, controller, devices, tables, data, running,
                   thread_indices_q, struck>>

\* The endless loops: after booting, of a kernel that has stopped, and main_thread.
spin ==
    /\ context # "boot" \/ Program[pc] = "idle"
    /\ UNCHANGED vars

-----------------------------------------------------------------------------
(* Interrupts, the devices and the walker.                                  *)

Interruptible == ~irqs_masked /\ context # "lost"

\* irq_handler for the timer.  Before init_scheduler the log message reads
\* through running_thread, which is NULL, and through what it finds there: the
\* kernel may abort.  A thread that is queued but not stored has no process
\* and no mode: the registers it was given are not sound.
timer_irq ==
    /\ Interruptible /\ timer = "interrupting"
    /\ timer' = "running"
    /\ \/ /\ running = "none"
          /\ context' \in {context, "lost"}
          /\ struck' = struck \cup {"early tick"}
          /\ UNCHANGED <<tables, threads>>
       \/ /\ running # "none" /\ thread_indices_q = <<>>
          /\ UNCHANGED <<context, tables, threads, struck>>
       \/ /\ thread_indices_q # <<>>
          /\ thread_indices_q' = Tail(thread_indices_q)
          /\ running' = "main"
          /\ \/ stored /\ context' = "main" /\ switch_memory(ProcessTable)
             \/ /\ ~stored
                /\ context' = "lost"
                /\ struck' = struck \cup {"unstored tcb"}
                /\ UNCHANGED <<l1, tlb>>
          /\ UNCHANGED <<dacr, l2_table, stored>>
    /\ UNCHANGED <<pc, irqs_masked, controller, rx, buffered, data>>

\* Full when it is overfull (mutant).
OverfilledBuffer(n) == IF n > UART_INPUT_BUFFER_SIZE THEN n ELSE n + 1

\* uart_push_char: a full ring stays as it is.
FilledBuffer(n) == IF n >= UART_INPUT_BUFFER_SIZE THEN n ELSE n + 1

\* irq_handler for the UART; nobody waits for a character yet.
uart_irq ==
    /\ Interruptible /\ timer # "interrupting"
    /\ rx /\ UartIrq \in controller
    /\ rx' = FALSE
    /\ buffered' = FilledBuffer(buffered)
    /\ UNCHANGED <<pc, context, irqs_masked, controller, timer, tables, data, threads, struck>>

Tick ==
    /\ timer = "running"
    /\ timer' = "interrupting"
    /\ UNCHANGED <<pc, context, irqs_masked, controller, rx, buffered, tables, data, threads,
                   struck>>

Receive ==
    /\ Done("init_uart") /\ ~rx
    /\ rx' = TRUE
    /\ UNCHANGED <<pc, context, irqs_masked, controller, timer, buffered, tables, data, threads,
                   struck>>

\* The processor may walk the table for a page at any time, needed or not, and
\* keep what it finds unless it is a fault.
Refill ==
    /\ MmuOn /\ context # "lost"
    /\ \E walk \in Walks :
           /\ \A t \in tlb : t[1] # walk[1]
           /\ tlb' = tlb \cup {walk}
    /\ struck' = IF context = "boot" /\ Program[pc] \in {"store", "store_back"}
                 THEN struck \cup {"refill"} ELSE struck
    /\ UNCHANGED <<pc, context, irqs_masked, controller, devices, dacr, l1, l2_table, data,
                   threads>>

-----------------------------------------------------------------------------

\* After reset.  The image, with its zeroed data, is in memory; nothing is known
\* about the domains.
Init ==
    /\ pc = 1 /\ context = "boot"
    /\ irqs_masked = TRUE
    /\ controller = {}
    /\ timer = "off" /\ rx = FALSE /\ buffered = 0
    /\ dacr \in {{}, Bits}
    /\ l1 = [mb \in Megabytes |-> {}]
    /\ l2_table = [t \in Tables |-> [v \in Pages |-> {}]]
    /\ tlb = {}
    /\ data = {ImageData}
    /\ running = "none" /\ thread_indices_q = <<>> /\ stored = FALSE
    /\ struck = {}

BootCode ==
    \/ silent_step \/ _init_modes \/ init_interrupt_controller \/ init_uart
    \/ init_local_timer \/ init_dacr \/ init_l1 \/ enable_mmu \/ copy_udata
    \/ init_scheduler \/ init_process_memory \/ invalidate \/ store
    \/ copy_in_udata \/ init_thread_memory \/ push_index \/ store_tcb

Next == BootCode \/ spin \/ timer_irq \/ uart_irq \/ Tick \/ Receive \/ Refill

\* The processor goes on, the timer runs, and an IRQ that stays pending is taken.
Fairness == WF_vars(BootCode) /\ WF_vars(Tick) /\ WF_vars(timer_irq)

Spec == Init /\ [][Next]_vars /\ Fairness

-----------------------------------------------------------------------------
(* Correctness.                                                             *)

\* Words have 32 bits, a page is cached once, and the ring keeps its bound
\* (mmu.c, uart.c:132).
TypeOK ==
    /\ pc \in 1 .. Len(Program)
    /\ context \in {"boot", "main", "lost"}
    /\ irqs_masked \in BOOLEAN
    /\ controller \in Words
    /\ timer \in {"off", "running", "interrupting"}
    /\ rx \in BOOLEAN
    /\ buffered \in 0 .. UART_INPUT_BUFFER_SIZE
    /\ dacr \in Words
    /\ l1 \in [Megabytes -> Words]
    /\ l2_table \in [Tables -> [Pages -> Words]]
    /\ \A t \in tlb : t[1] \in Pages /\ t[2] \in Words /\ ~IsFault(t[2])
    /\ \A t, u \in tlb : t[1] = u[1] => t = u
    /\ data \subseteq Words
    /\ running \in {"none", "null", "main"}
    /\ thread_indices_q \in {<<>>, <<1>>}
    /\ stored \in BOOLEAN
    /\ struck \subseteq {"early tick", "unstored tcb", "refill", "masked", "wrong state"}

ReadExecute(who) == who \X {"read", "execute"}
ReadWrite(who) == who \X {"read", "write"}

\* What each megabyte is for (kernel.lds, the comments in mmu.c:235-273).
Intended(mb) ==
    CASE mb \in {0, 1}              -> ReadExecute({"system"})
      [] mb \in {2, 3} \cup Devices -> ReadWrite({"system"})
      [] mb = 4                     -> ReadExecute({"user"}) \cup {<<"system", "read">>}
      [] OTHER                      -> {}

\* Once the MMU is on the processor grants every megabyte exactly the rights that
\* its use calls for, to itself and where it is; pages of user memory can be read
\* and written by both and executed by none, whichever table is switched to
\* (mmu.c:108-151, 185-204, 342-351).
RightsAsIntended ==
    MmuOn =>
        /\ DomainChecked(dacr)
        /\ \A mb \in Megabytes : InDomain0(l1[mb])
        /\ \A mb \in Megabytes \ {UserMb} :
              IF IsSection(l1[mb])
              THEN SectionRights(l1[mb]) = Intended(mb) /\ l1[mb] \cap (20 .. 31) = FrameOf(mb)
              ELSE IsFault(l1[mb]) /\ Intended(mb) = {}
        /\ \A v \in Pages : \A e \in EntriesFor(v) :
              ~IsFault(e) => /\ IsSmallPage(e)
                             /\ PageRights(l1[UserMb], e) = ReadWrite({"system", "user"})

\* An interrupt finds its vectors and stacks, and the UART that its handler logs
\* to, set up; and the kernel is lost in booting only to a tick that comes before
\* the scheduler or before the tcb, or to the state that movs finds in SPSR_svc, never
\* to a page that is not mapped
\* (entry.S:59, start.c:21-35, mmuasm.S:43, scheduler.c:175-178).
OnlyStrikesLoseIt ==
    /\ Interruptible /\ (timer = "interrupting" \/ (rx /\ UartIrq \in controller)) =>
           Done("init_modes") /\ Done("set_vbar") /\ Done("init_uart")
    /\ context = "lost" => struck \cap {"early tick", "unstored tcb", "wrong state"} # {}

\* When main_thread is switched to, its tcb is complete, and it sees the pages of its own
\* process, with the initial data, and nothing else: a translation of another table
\* is used only if the walker read it between the two instructions of a switch
\* (mmu.c:342-351, process.c:36-39).
MainFindsItsMemory ==
    context = "main" /\ "refill" \notin struck =>
        /\ stored
        /\ l1[UserMb] = build_l1_l2_pointer_entry(ProcessTable, FALSE)
        /\ \A v \in Pages : EntriesFor(v) = {l2_table[ProcessTable][v]}
        /\ {v \in Pages : ~IsFault(Walked[v])} = {0, 4}
        /\ Frame(Walked[0]) = ProcessData /\ ProcessData \in data

\* Booting reaches main_thread unless a tick comes too early or the processor was reset
\* with a saved state that masks IRQs, or that kernel code cannot run in, when init_mmu
\* returns (start.c, entry.S:37-40, mmuasm.S:42-43).
MainRuns == <>(context = "main" \/ struck \ {"refill"} # {})
=============================================================================
