---------------------------- MODULE AddressSpace ----------------------------
(***************************************************************************)
(* The memory a thread sees: the page tables of driver/mmu.c as            *)
(* process_create, thread_create and the scheduler fill and switch them.   *)
(*                                                                         *)
(* All processes share one megabyte of virtual addresses, whose entry in   *)
(* the L1 table points to the l2_table of one pcb at a time.  A table is a *)
(* function whose domain are the pages it maps, any other page faults; a   *)
(* physical page is <<megabyte, page in it>>.  Physical memory begins with *)
(* the image, init, kernel and user code; then come the megabytes of the   *)
(* processes, and above those the devices, or nothing at all.              *)
(*                                                                         *)
(* Which ready thread runs next is module Scheduler's subject: here any    *)
(* thread may.  Indices are given back as Scheduler shows they are while   *)
(* nothing has gone wrong.                                                 *)
(***************************************************************************)
EXTENDS Integers, Sequences, Functions

CONSTANTS
    N_PROCESSES,            \* config.h
    N_THREADS_PER_PROCESS,  \* config.h
    BASE_MB,                \* UDATA_USTACK_PHYS_BASE_MB, from kernel.lds
    DEVICES_MB,             \* where devices begin, 0x3F0
    N_MB,                   \* megabytes of physical address space, 4096
    N_ADDRESSES,            \* virtual addresses, 2^32
    UDATA_BEGIN,            \* address of the user megabyte, _udata_begin
    PAGE_SIZE,              \* 0x1000
    THREAD_STACK_SIZE,      \* 0x400
    MaxPid                  \* bound: no fork once pid_counter has come this far

ASSUME MemoryAssumption ==
    /\ N_PROCESSES \in Nat \ {0}
    /\ N_THREADS_PER_PROCESS \in Nat \ {0}
    /\ BASE_MB \in Nat /\ DEVICES_MB \in Nat /\ N_MB \in Nat
    /\ BASE_MB + N_PROCESSES < DEVICES_MB
    /\ DEVICES_MB <= N_MB
    /\ PAGE_SIZE \in Nat /\ PAGE_SIZE % 4 = 0
    /\ THREAD_STACK_SIZE \in Nat \ {0} /\ THREAD_STACK_SIZE % 4 = 0
    /\ 2 * THREAD_STACK_SIZE <= PAGE_SIZE
    /\ UDATA_BEGIN \in Nat /\ UDATA_BEGIN % PAGE_SIZE = 0
    /\ N_ADDRESSES \in Nat /\ N_ADDRESSES % 4 = 0
    /\ UDATA_BEGIN + (2 * N_THREADS_PER_PROCESS + 3) * PAGE_SIZE <= N_ADDRESSES
    /\ MaxPid \in Nat \ {0}

Processes == 1 .. N_PROCESSES
Locals == 1 .. N_THREADS_PER_PROCESS

\* A thread is its process and its index in it.
NullThread == <<0, 0>>

VirtualPages == 0 .. 2 * N_THREADS_PER_PROCESS + 2
PhysicalPages == (0 .. N_MB - 1) \X (0 .. N_THREADS_PER_PROCESS + 1)

\* What is left of memory for processes.
UserMegabytes == BASE_MB .. DEVICES_MB - 1

\* What a page holds: the pid that wrote it last, for its data (0) or for the
\* stack of one of its threads; Blank is anything older.
Contents == (0 .. MaxPid) \X (0 .. N_THREADS_PER_PROCESS)
Blank == <<0, 0>>

VARIABLES
    pid_counter,           \* process.c
    pid,                   \* of each pcb
    l2_table,              \* of each pcb
    free_process_indices,
    free_indices,          \* of each pcb
    running,               \* the running thread
    mapped,                \* the pcb whose l2_table the L1 entry points to
    memory,                \* what each physical page holds
    supplied,              \* history: live threads that got arguments or wrote their stack
    halted                 \* "no"; "page" or "size" if a copy of the kernel hit a page
                           \* that is not mapped, for that reason; "overwritten" if
                           \* a stack was written over the image

vars == <<pid_counter, pid, l2_table, free_process_indices, free_indices,
          running, mapped, memory, supplied, halted>>

tables == <<pid_counter, pid, l2_table, free_process_indices, free_indices>>

LiveProcesses == Processes \ Range(free_process_indices)
LiveThreads == {t \in Processes \X Locals :
                   t[1] \in LiveProcesses /\ t[2] \notin Range(free_indices[t[1]])}

-----------------------------------------------------------------------------
(* driver/mmu.c and the stack layout of system/thread.c.                    *)

\* Counted from the beginning of memory (mutant).
UnbasedMegabyte(n) == n % N_MB

\* build_l2_4KB_page_entry with a megabyte counted from the base: the entry has
\* 32 bits, and nothing looks at what the megabyte is used for.
Megabyte(n) == (BASE_MB + n) % N_MB

\* init_process_memory: the data page and nothing else.
init_process_memory(process_index) == [v \in {0} |-> <<Megabyte(process_index), 0>>]

\* Stack pages without guard pages between them (mutant).
AdjacentPage(thread_index) == thread_index + 1

\* The virtual page that init_thread_memory fills.
StackPage(thread_index) == thread_index * 2 + 1 + 1

\* One stack page for every process's thread of an index (mutant).
SharedStackFrame(process_index, thread_index) == <<Megabyte(0), thread_index + 1>>

\* The physical page counted as the virtual one is (mutant).
GuardedStackFrame(process_index, thread_index) ==
    <<Megabyte(process_index), StackPage(thread_index)>>

\* The physical page it gets.
StackFrame(process_index, thread_index) == <<Megabyte(process_index), thread_index + 1>>

init_thread_memory(process_index, thread_index, table) ==
    [v \in DOMAIN table \cup {StackPage(thread_index)} |->
        IF v = StackPage(thread_index) THEN StackFrame(process_index, thread_index)
        ELSE table[v]]

\* Where the stack of a thread begins, growing down, and where it ends.
get_stack_pointer(index) ==
    UDATA_BEGIN + index * (2 * PAGE_SIZE) + PAGE_SIZE + PAGE_SIZE + THREAD_STACK_SIZE
get_max_stack_pointer(index) == get_stack_pointer(index) - THREAD_STACK_SIZE

\* The virtual page of an address.
PageOf(address) == (address % N_ADDRESSES) \div PAGE_SIZE - UDATA_BEGIN \div PAGE_SIZE
PagesOf(address, size) == {PageOf(address + k) : k \in 0 .. size - 1}
SpPage(index) == PageOf(get_stack_pointer(index))

\* A write to virtual page v through a table that maps it.  Devices keep nothing.
Written(mem, table, v, what) ==
    IF table[v][1] \in UserMegabytes THEN [mem EXCEPT ![table[v]] = what] ELSE mem

\* Every entry gives full access: a write to the image is not stopped.
AfterWrite(table, v) == IF table[v][1] < BASE_MB THEN "overwritten" ELSE halted

\* switch_memory for a copy, forgotten (mutant).
CopiesInCaller(p, table) == l2_table[mapped]

\* The table process_create and thread_create copy through: they switch to that
\* of process p before.
CopyTable(p, table) == table

\* Both switch back to the process of the running thread: after the copy of the
\* user data, and after that of the arguments.
StaysInTarget(p) == p   \* (mutant)
MappedAfterData(p) == running[1]
MappedAfterCopy(p) == running[1]

-----------------------------------------------------------------------------
(* system/calls.c: the arguments a thread passes to fork and create_thread.  *)

\* For the thread of an index.
verify_pointer(p, index) ==
    p % 4 = 0 /\ p < get_stack_pointer(index) /\ p >= get_max_stack_pointer(index)

\* One pointer is checked (mutant).
VerifiedStart(args, args_size, index) == verify_pointer(args, index)

\* Both ends of a block of that size below args, although the block that is copied
\* lies above.  The subtraction is unsigned.
Verified(args, args_size, index) ==
    /\ verify_pointer(args, index)
    /\ verify_pointer((args - (args_size - 4)) % N_ADDRESSES, index)

Block(args, args_size) == [size |-> args_size, pages |-> PagesOf(args, args_size)]
Refused == [size |-> 0, pages |-> {PageOf(0)}]

\* What each thread may ask for, told apart by size and by the pages read.
Requests ==
    [index \in Locals |->
        {Refused} \cup
        {Block(a[1], a[2]) : a \in {b \in (0 .. N_ADDRESSES - 1) \X (0 .. N_ADDRESSES - 1) :
                                       Verified(b[1], b[2], index)}}]

-----------------------------------------------------------------------------
(* Creation.                                                                *)

\* A size that is less than nothing.
Wrapped(size) == size > N_ADDRESSES - THREAD_STACK_SIZE

\* thread_create in process p of pid n with its l2_table and free indices, mem
\* being the memory and m the pcb mapped at that point.  The block is read with
\* that table, the caller's if m is, then written below the new stack pointer.
thread_create(p, n, table, free, mem, m, block) ==
    \/ /\ free = <<>>
       /\ l2_table' = [l2_table EXCEPT ![p] = table]
       /\ free_indices' = [free_indices EXCEPT ![p] = free]
       /\ memory' = mem /\ mapped' = m
       /\ UNCHANGED <<supplied, halted>>
    \/ /\ free # <<>>
       /\ free_indices' = [free_indices EXCEPT ![p] = Tail(free)]
       /\ LET index == Head(free)
              full  == init_thread_memory(n, index, table)
              via   == CopyTable(p, full)
              reads == block.pages \subseteq DOMAIN (IF m = p THEN full ELSE l2_table[m])
              hits  == reads /\ PagesOf(get_stack_pointer(index) - block.size, block.size)
                                    \subseteq DOMAIN via
              what  == IF m = running[1] THEN <<n, index>> ELSE Blank
          IN  /\ l2_table' = [l2_table EXCEPT ![p] = full]
              /\ \/ /\ block.size = 0
                    /\ memory' = mem /\ mapped' = m
                    /\ UNCHANGED <<supplied, halted>>
                 \/ /\ block.size > 0 /\ hits
                    /\ memory' = Written(mem, via, SpPage(index), what)
                    /\ halted' = AfterWrite(via, SpPage(index))
                    /\ supplied' = supplied \cup {<<p, index>>}
                    /\ mapped' = MappedAfterCopy(p)
                 \/ /\ block.size > 0 /\ ~hits
                    /\ halted' = IF Wrapped(block.size) THEN "size" ELSE "page"
                    /\ memory' = mem /\ mapped' = IF reads THEN p ELSE m
                    /\ UNCHANGED supplied

\* process_create: the pid is used up even when there is no slot.  The user
\* data is copied into the new data page, and the caller's table loaded again,
\* before the thread is created.
process_create(block) ==
    /\ pid_counter' = pid_counter + 1
    /\ \/ /\ free_process_indices = <<>>
          /\ UNCHANGED <<pid, l2_table, free_process_indices, free_indices, mapped,
                         memory, supplied, halted>>
       \/ /\ free_process_indices # <<>>
          /\ free_process_indices' = Tail(free_process_indices)
          /\ LET p     == Head(free_process_indices)
                 table == init_process_memory(p)
             IN  /\ pid' = [pid EXCEPT ![p] = pid_counter + 1]
                 /\ thread_create(p, pid_counter + 1, table,
                                  [k \in 1 .. N_THREADS_PER_PROCESS |-> k],
                                  Written(memory, CopyTable(p, table), 0, <<pid_counter + 1, 0>>),
                                  MappedAfterData(p), block)

-----------------------------------------------------------------------------
(* Running.                                                                 *)

\* switch_context loads the registers of t and its process's table.
switch_context(t) == running' = t /\ mapped' = t[1]

\* The scheduler preempts the running thread, or it waits.
scheduler_cycle ==
    /\ halted = "no"
    /\ \E t \in LiveThreads \cup {NullThread} : switch_context(t)
    /\ UNCHANGED <<tables, memory, supplied, halted>>

\* The running thread exits or is killed.
kill_cur_thread ==
    /\ halted = "no" /\ running # NullThread
    /\ LET p     == running[1]
           index == running[2]
           freed == Append(free_indices[p], index)
       IN  /\ free_indices' = [free_indices EXCEPT ![p] = freed]
           /\ free_process_indices' =
                  IF Len(freed) >= N_THREADS_PER_PROCESS
                  THEN Append(free_process_indices, p) ELSE free_process_indices
    /\ \E t \in (LiveThreads \ {running}) \cup {NullThread} : switch_context(t)
    /\ supplied' = supplied \ {running}
    /\ UNCHANGED <<pid_counter, pid, l2_table, memory, halted>>

\* A refused request kills the caller.
exec_syscall_fork ==
    /\ halted = "no" /\ running # NullThread
    /\ \E block \in Requests[running[2]] :
        \/ block = Refused /\ kill_cur_thread
        \/ /\ block # Refused
           /\ pid_counter < MaxPid
           /\ process_create(block)
           /\ UNCHANGED running

exec_syscall_create_thread ==
    /\ halted = "no" /\ running # NullThread
    /\ \E block \in Requests[running[2]] :
        \/ block = Refused /\ kill_cur_thread
        \/ /\ block # Refused
           /\ thread_create(running[1], pid[running[1]], l2_table[running[1]],
                            free_indices[running[1]], memory, mapped, block)
           /\ UNCHANGED <<pid_counter, pid, free_process_indices, running>>

\* The running thread writes its process's data or its own stack, through the
\* table that is loaded.
user_write ==
    /\ halted = "no" /\ running # NullThread
    /\ \/ /\ 0 \in DOMAIN l2_table[mapped]
          /\ memory' = Written(memory, l2_table[mapped], 0, <<pid[running[1]], 0>>)
          /\ UNCHANGED <<supplied, halted>>
       \/ /\ SpPage(running[2]) \in DOMAIN l2_table[mapped]
          /\ memory' = Written(memory, l2_table[mapped], SpPage(running[2]),
                               <<pid[running[1]], running[2]>>)
          /\ halted' = AfterWrite(l2_table[mapped], SpPage(running[2]))
          /\ supplied' = supplied \cup {running}
    /\ UNCHANGED <<tables, running, mapped>>

\* After a data abort of the kernel's own.  What an overwritten kernel does is not
\* followed either.
kendless_loop == halted # "no" /\ UNCHANGED vars

\* The state start_kernel leaves: the null process, and main_thread without
\* arguments in process 1.
Init ==
    /\ pid_counter = 1
    /\ pid = [p \in 0 .. N_PROCESSES |-> IF p = 1 THEN 1 ELSE 0]
    /\ l2_table = [p \in 0 .. N_PROCESSES |->
                      IF p = 0 THEN init_thread_memory(0, 0, <<>>)
                      ELSE IF p = 1 THEN init_thread_memory(1, 1, init_process_memory(1))
                      ELSE <<>>]
    /\ free_process_indices = [k \in 1 .. N_PROCESSES - 1 |-> k + 1]
    /\ free_indices = [p \in 0 .. N_PROCESSES |->
                          IF p = 1 THEN [k \in 1 .. N_THREADS_PER_PROCESS - 1 |-> k + 1]
                          ELSE <<>>]
    /\ running = NullThread
    /\ mapped = 0
    /\ memory = [page \in PhysicalPages |->
                    IF page = <<Megabyte(1), 0>> THEN <<1, 0>> ELSE Blank]
    /\ supplied = {}
    /\ halted = "no"

Next ==
    \/ exec_syscall_fork
    \/ exec_syscall_create_thread
    \/ scheduler_cycle
    \/ kill_cur_thread
    \/ user_write
    \/ kendless_loop

Spec == Init /\ [][Next]_vars

-----------------------------------------------------------------------------
(* Correctness.                                                             *)

\* Tables hold pages of the right ranges, free slots and indices stay in their
\* arrays' ranges, and the running thread and those with arguments are alive
\* (process.h, mmu.c:13).
TypeOK ==
    /\ pid_counter \in 1 .. MaxPid
    /\ pid \in [0 .. N_PROCESSES -> 0 .. MaxPid]
    /\ \A p \in 0 .. N_PROCESSES : /\ DOMAIN l2_table[p] \subseteq VirtualPages
                                   /\ Range(l2_table[p]) \subseteq PhysicalPages
    /\ free_process_indices \in Seq(Processes)
    /\ free_indices \in [0 .. N_PROCESSES -> Seq(Locals)]
    /\ running \in LiveThreads \cup {NullThread}
    /\ mapped \in 0 .. N_PROCESSES
    /\ memory \in [PhysicalPages -> Contents]
    /\ supplied \subseteq LiveThreads
    /\ halted \in {"no", "page", "size", "overwritten"}

\* The page table loaded is that of the running thread's process whenever user
\* code runs, also after the kernel has copied into another process
\* (process.c:37-39, thread.c:115-121).
MappingMatchesRunning == halted = "no" => mapped = running[1]

\* What the kernel copies for a caller it reads and writes in mapped pages:
\* init_thread_memory and get_stack_pointer agree on where a stack is, and a block
\* that passes verify_pointer, though not the one that was checked, does not leave
\* the page of the stack.  The exception is a size that is negative as a signed
\* number, which passes as well (calls.c:105-107, thread.c:55-60, 113-119, mmu.c:337).
CopiesHitMappedPages == halted # "page"

\* Below the stack of every thread is a page that faults, so that an overflow
\* does not reach a sibling's stack or the data (mmu.c:329-336).
GuardPagesFault ==
    \A t \in LiveThreads :
        /\ SpPage(t[2]) \in DOMAIN l2_table[t[1]]
        /\ SpPage(t[2]) - 1 \notin DOMAIN l2_table[t[1]]

\* Pids of live processes lie less than the physical memory apart.
PidsAreClose == \A p, r \in LiveProcesses : pid[p] - pid[r] < N_MB

\* No two processes, nor the null process, map the same physical page, and a
\* process maps none twice (mmu.c:305-308).
ProcessesAreDisjoint ==
    PidsAreClose => \A p, r \in LiveProcesses \cup {0} :
        IF p = r THEN IsInjective(l2_table[p])
        ELSE Range(l2_table[p]) \cap Range(l2_table[r]) = {}

\* Below DEVICES_MB - BASE_MB pids no process can reach the image or a device, and
\* until the count has wrapped around the physical address space nothing
\* is written over the image (mmu.c:325-328, thread.c:98).
UsersStayInTheirMemory ==
    /\ pid_counter < DEVICES_MB - BASE_MB =>
          \A p \in LiveProcesses \cup {0} :
              \A page \in Range(l2_table[p]) : page[1] \in UserMegabytes
    /\ pid_counter < N_MB - BASE_MB => halted # "overwritten"

\* The data page of a process holds what the process itself or its creation
\* put there: no step of another process, and no copy of the kernel for another,
\* changes it, whatever the pids have grown to (process.c:36-39).
DataSurvives ==
    [][\A p \in LiveProcesses' :
          LET held == memory'[l2_table'[p][0]]
          IN  \/ held = <<pid'[p], 0>>
              \/ /\ p \in LiveProcesses /\ pid[p] = pid'[p]
                 /\ held = memory[l2_table[p][0]]]_vars

\* The arguments a thread was created with are on its stack when it gets to
\* read them, and what it wrote there stays: the same for the stack pages that
\* lie in the processes' memory (thread.c:111-122).
StacksSurvive ==
    [][PidsAreClose' => \A t \in supplied' :
          LET page == l2_table'[t[1]][SpPage(t[2])]
          IN  page[1] \in UserMegabytes =>
                 \/ memory'[page] = <<pid'[t[1]], t[2]>>
                 \/ t \in supplied /\ memory'[page] = memory[page]]_vars

-----------------------------------------------------------------------------
(* What a comment says; the code does not live up to it.                    *)

\* "Each process gets its own MB in physical memory offset by its index from
\* the base address." (mmu.c:306)
OwnMegabyte ==
    \A p \in LiveProcesses : \A page \in Range(l2_table[p]) : page[1] = Megabyte(p)
=============================================================================
