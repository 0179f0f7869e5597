------------------------ MODULE AddressSpace_proofs ------------------------
(***************************************************************************)
(* What holds of the memory of threads for every number of processes and   *)
(* threads, every layout of pages and stacks and every amount of physical  *)
(* memory.                                                                 *)
(***************************************************************************)
EXTENDS AddressSpace, Sequences_proofs

-----------------------------------------------------------------------------
(* The parameters.                                                          *)

\* The assumptions on the constants, in the form the proofs use them.
LEMMA Parameters ==
  /\ N_PROCESSES \in Nat /\ N_PROCESSES > 0
  /\ N_THREADS_PER_PROCESS \in Nat /\ N_THREADS_PER_PROCESS > 0
  /\ N_MB \in Nat /\ N_PROCESSES < N_MB
  /\ BASE_MB \in Nat /\ BASE_MB < N_MB
  /\ DEVICES_MB \in Nat /\ BASE_MB + N_PROCESSES < DEVICES_MB /\ DEVICES_MB <= N_MB
  /\ PAGE_SIZE \in Nat /\ PAGE_SIZE % 4 = 0 /\ PAGE_SIZE > 0
  /\ THREAD_STACK_SIZE \in Nat /\ THREAD_STACK_SIZE > 0 /\ THREAD_STACK_SIZE % 4 = 0
  /\ 2 * THREAD_STACK_SIZE <= PAGE_SIZE
  /\ UDATA_BEGIN \in Nat /\ UDATA_BEGIN % PAGE_SIZE = 0
  /\ N_ADDRESSES \in Nat /\ N_ADDRESSES > 0
  /\ UDATA_BEGIN + (2 * N_THREADS_PER_PROCESS + 3) * PAGE_SIZE <= N_ADDRESSES
  /\ MaxPid \in Nat /\ MaxPid > 0
<1>1. /\ PAGE_SIZE \in Nat /\ THREAD_STACK_SIZE \in Nat /\ THREAD_STACK_SIZE > 0
      /\ 2 * THREAD_STACK_SIZE <= PAGE_SIZE
      /\ N_THREADS_PER_PROCESS \in Nat /\ UDATA_BEGIN \in Nat /\ N_ADDRESSES \in Nat
      /\ UDATA_BEGIN + (2 * N_THREADS_PER_PROCESS + 3) * PAGE_SIZE <= N_ADDRESSES
  BY MemoryAssumption
<1>2. PAGE_SIZE > 0
  BY <1>1
<1>3. (2 * N_THREADS_PER_PROCESS + 3) * PAGE_SIZE > 0
  BY <1>1, <1>2
<1>4. N_ADDRESSES > 0
  <2> DEFINE m == (2 * N_THREADS_PER_PROCESS + 3) * PAGE_SIZE
  <2>1. m \in Int
    BY <1>1
  <2> HIDE DEF m
  <2> QED
    BY <1>1, <1>3, <2>1 DEF m
<1> QED
  BY <1>1, <1>2, <1>4, MemoryAssumption

\* Those that the layout of one page depends on.
LEMMA Sizes ==
  /\ PAGE_SIZE \in Nat /\ PAGE_SIZE > 0
  /\ THREAD_STACK_SIZE \in Nat /\ THREAD_STACK_SIZE > 0
  /\ 2 * THREAD_STACK_SIZE <= PAGE_SIZE
  /\ N_ADDRESSES \in Nat /\ N_ADDRESSES > 0
BY Parameters

-----------------------------------------------------------------------------
(* Addresses.                                                               *)

\* Unsigned subtraction below zero.
LEMMA WrapsBelowZero ==
  ASSUME NEW m \in Nat, m > 0, NEW x \in Int, 0 <= x + m, x < 0
  PROVE  x % m = x + m
OBVIOUS

\* Words that differ are a word apart.
LEMMA AlignedApart ==
  ASSUME NEW x \in Nat, NEW y \in Nat, x % 4 = 0, y % 4 = 0, x < y
  PROVE  x + 4 <= y
OBVIOUS

\* A number between two multiples of the divisor.
LEMMA DivisionBetween ==
  ASSUME NEW s \in Nat, s > 0, NEW q \in Nat, NEW a \in Nat, q * s <= a, a < q * s + s
  PROVE  a \div s = q
<1>1. a \div s \in Int /\ a % s \in 0 .. s - 1 /\ a = s * (a \div s) + (a % s)
  OBVIOUS
<1> DEFINE d == a \div s
<1>2. d \in Int /\ s * d <= a /\ a < s * d + s
  BY <1>1
<1> HIDE DEF d
<1>3. ASSUME d < q PROVE FALSE
  <2>1. s * (d + 1) <= s * q
    BY <1>2, <1>3
  <2> QED
    BY <1>2, <2>1
<1>4. ASSUME q < d PROVE FALSE
  <2>1. s * (q + 1) <= s * d
    BY <1>2, <1>4
  <2> QED
    BY <1>2, <2>1
<1> QED
  BY <1>2, <1>3, <1>4 DEF d

\* Where the page of a stack begins.
StackBottom(index) == UDATA_BEGIN + (2 * index + 2) * PAGE_SIZE

\* The user megabyte and the stacks in it are aligned.
LEMMA StackAligned ==
  ASSUME NEW index \in Locals
  PROVE  /\ get_max_stack_pointer(index) = StackBottom(index)
         /\ get_stack_pointer(index) = StackBottom(index) + THREAD_STACK_SIZE
         /\ StackBottom(index) \in Nat
         /\ get_stack_pointer(index) \in Nat
         /\ get_stack_pointer(index) % 4 = 0
         /\ StackBottom(index) + PAGE_SIZE <= N_ADDRESSES
<1>1. index \in Nat /\ index <= N_THREADS_PER_PROCESS
  BY Parameters DEF Locals
<1>2. index * (2 * PAGE_SIZE) + PAGE_SIZE + PAGE_SIZE = (2 * index + 2) * PAGE_SIZE
  BY <1>1, Parameters
<1> DEFINE b == (2 * index + 2) * PAGE_SIZE
           m == index * (2 * PAGE_SIZE)
<1>3. b \in Nat /\ m \in Nat
  BY <1>1, Parameters
<1>4. b + PAGE_SIZE <= (2 * N_THREADS_PER_PROCESS + 3) * PAGE_SIZE
  <2>1. (2 * index + 3) * PAGE_SIZE <= (2 * N_THREADS_PER_PROCESS + 3) * PAGE_SIZE
    BY <1>1, Parameters
  <2> QED
    BY <1>1, <2>1, Parameters
<1>5. b % 4 = 0
  <2>1. PICK k \in Nat : PAGE_SIZE = 4 * k
    <3>1. PAGE_SIZE = 4 * (PAGE_SIZE \div 4) /\ PAGE_SIZE \div 4 \in Nat
      BY Parameters
    <3> QED
      BY <3>1
  <2>2. b = 4 * ((2 * index + 2) * k)
    BY <1>1, <2>1
  <2>3. (2 * index + 2) * k \in Nat
    BY <1>1, <2>1
  <2> QED
    BY <2>2, <2>3
<1>6. UDATA_BEGIN % 4 = 0
  <2>1. PICK k \in Nat : PAGE_SIZE = 4 * k
    <3>1. PAGE_SIZE = 4 * (PAGE_SIZE \div 4) /\ PAGE_SIZE \div 4 \in Nat
      BY Parameters
    <3> QED
      BY <3>1
  <2>2. /\ UDATA_BEGIN = PAGE_SIZE * (UDATA_BEGIN \div PAGE_SIZE)
        /\ UDATA_BEGIN \div PAGE_SIZE \in Nat
    BY Parameters
  <2>3. PICK j \in Nat : UDATA_BEGIN = PAGE_SIZE * j
    BY <2>2
  <2>4. UDATA_BEGIN = 4 * (k * j)
    BY <2>1, <2>3
  <2>5. k * j \in Nat
    BY <2>1, <2>3
  <2> QED
    BY <2>4, <2>5
<1>7. get_stack_pointer(index) = UDATA_BEGIN + m + PAGE_SIZE + PAGE_SIZE + THREAD_STACK_SIZE
  BY DEF get_stack_pointer
<1>8. StackBottom(index) = UDATA_BEGIN + b
  BY DEF StackBottom
<1>9. m + PAGE_SIZE + PAGE_SIZE = b
  BY <1>2
<1> HIDE DEF b, m
<1>10. /\ get_stack_pointer(index) = StackBottom(index) + THREAD_STACK_SIZE
       /\ StackBottom(index) \in Nat
       /\ get_stack_pointer(index) \in Nat
  BY <1>3, <1>7, <1>8, <1>9, Parameters
<1>11. get_max_stack_pointer(index) = StackBottom(index)
  BY <1>10, Parameters DEF get_max_stack_pointer
<1>12. get_stack_pointer(index) % 4 = 0
  <2>1. get_stack_pointer(index) = UDATA_BEGIN + b + THREAD_STACK_SIZE
    BY <1>3, <1>7, <1>8, <1>9, Parameters
  <2> QED
    BY <1>3, <1>5, <1>6, <2>1, Parameters
<1>13. StackBottom(index) + PAGE_SIZE <= N_ADDRESSES
  <2> DEFINE all == (2 * N_THREADS_PER_PROCESS + 3) * PAGE_SIZE
  <2>1. all \in Nat
    BY Parameters
  <2>2. UDATA_BEGIN + all <= N_ADDRESSES /\ b + PAGE_SIZE <= all
    BY <1>4, Parameters DEF b
  <2> HIDE DEF all
  <2> QED
    BY <1>3, <1>8, <2>1, <2>2, Parameters
<1> QED
  BY <1>10, <1>11, <1>12, <1>13

\* Every address of a stack's page is in the page that init_thread_memory maps.
LEMMA AddressInStackPage ==
  ASSUME NEW index \in Locals, NEW a \in Nat,
         StackBottom(index) <= a, a < StackBottom(index) + PAGE_SIZE
  PROVE  PageOf(a) = StackPage(index)
<1> DEFINE j == UDATA_BEGIN \div PAGE_SIZE
           q == j + 2 * index + 2
<1>1. index \in Nat
  BY DEF Locals
<1>2. j \in Nat /\ UDATA_BEGIN = PAGE_SIZE * j
  BY Parameters
<1> HIDE DEF j
<1>3. StackBottom(index) = q * PAGE_SIZE /\ q \in Nat
  BY <1>1, <1>2, Parameters DEF StackBottom
<1>4. a % N_ADDRESSES = a
  <2>1. a \in 0 .. N_ADDRESSES - 1
    BY StackAligned, Parameters
  <2> QED
    BY <2>1, Parameters
<1> HIDE DEF q
<1>5. a \div PAGE_SIZE = q
  BY <1>3, DivisionBetween, Parameters
<1> QED
  BY <1>1, <1>2, <1>4, <1>5 DEF PageOf, StackPage, j, q

\* get_stack_pointer points into the page init_thread_memory fills.
LEMMA StackPointerPage ==
  ASSUME NEW index \in Locals
  PROVE  SpPage(index) = StackPage(index)
<1>1. StackBottom(index) <= get_stack_pointer(index)
      /\ get_stack_pointer(index) < StackBottom(index) + PAGE_SIZE
  BY StackAligned, Parameters
<1> QED
  BY <1>1, StackAligned, AddressInStackPage DEF SpPage

\* A block that passes the check lies in the page of the stack, and the copy of it
\* below any other stack pointer does, unless its size is negative.
LEMMA VerifiedInStackPage ==
  ASSUME NEW index \in Locals, NEW other \in Locals,
         NEW args \in 0 .. N_ADDRESSES - 1, NEW size \in 0 .. N_ADDRESSES - 1,
         Verified(args, size, index), ~Wrapped(size)
  PROVE  /\ PagesOf(args, size) \subseteq {StackPage(index)}
         /\ PagesOf(get_stack_pointer(other) - size, size) \subseteq {StackPage(other)}
<1> DEFINE b == StackBottom(index)
           e == args - (size - 4)
<1>1. b \in Nat /\ b + PAGE_SIZE <= N_ADDRESSES
  BY StackAligned
<1>2. args % 4 = 0 /\ args < b + THREAD_STACK_SIZE /\ args >= b
  BY StackAligned DEF Verified, verify_pointer
<1>3. args <= b + THREAD_STACK_SIZE - 4
  <2>1. (b + THREAD_STACK_SIZE) % 4 = 0
    BY StackAligned
  <2> QED
    BY <1>1, <1>2, <2>1, AlignedApart, Sizes
<1>4. e % N_ADDRESSES >= b /\ e % N_ADDRESSES < b + THREAD_STACK_SIZE
  BY StackAligned DEF Verified, verify_pointer
<1>5. size <= N_ADDRESSES - THREAD_STACK_SIZE
  BY Sizes DEF Wrapped
<1> HIDE DEF b
<1>6. e >= 0
  <2> SUFFICES ASSUME e < 0 PROVE FALSE
    BY <1>1, <1>2
  <2>1. e \in Int /\ 0 <= e + N_ADDRESSES
    BY <1>1, <1>2, Sizes
  <2>2. e % N_ADDRESSES = e + N_ADDRESSES
    <3> HIDE DEF e
    <3> QED
      BY <2>1, WrapsBelowZero, Sizes
  <2> QED
    BY <1>1, <1>2, <1>4, <1>5, <2>2, Sizes
<1>7. e % N_ADDRESSES = e
  <2>1. e \in 0 .. N_ADDRESSES - 1
    BY <1>1, <1>2, <1>3, <1>6, Sizes
  <2> HIDE DEF e
  <2> QED
    BY <2>1, Sizes
<1>8. size <= THREAD_STACK_SIZE /\ args + size <= b + PAGE_SIZE
  BY <1>1, <1>2, <1>3, <1>4, <1>7, Sizes
<1>9. ASSUME NEW k \in 0 .. size - 1 PROVE PageOf(args + k) = StackPage(index)
  <2>1. /\ args + k \in Nat
        /\ StackBottom(index) <= args + k /\ args + k < StackBottom(index) + PAGE_SIZE
    BY <1>1, <1>2, <1>8, Sizes DEF b
  <2> QED
    BY <2>1, AddressInStackPage
<1>10. ASSUME NEW k \in 0 .. size - 1
       PROVE  PageOf(get_stack_pointer(other) - size + k) = StackPage(other)
  <2> DEFINE a == get_stack_pointer(other) - size + k
  <2>1. /\ a \in Nat
        /\ StackBottom(other) <= a /\ a < StackBottom(other) + PAGE_SIZE
    BY <1>8, StackAligned, Sizes
  <2> QED
    BY <2>1, AddressInStackPage
<1> QED
  BY <1>9, <1>10 DEF PagesOf

-----------------------------------------------------------------------------
(* Physical memory.                                                         *)

\* The megabyte of an entry is one of physical memory.
LEMMA MegabyteType ==
  ASSUME NEW n \in Nat
  PROVE  Megabyte(n) \in 0 .. N_MB - 1
<1>1. BASE_MB + n \in Int /\ N_MB \in Nat /\ N_MB > 0
  BY Parameters
<1> QED
  BY <1>1 DEF Megabyte

\* Before the count wraps, megabytes are what they are counted as.
LEMMA MegabyteBelow ==
  ASSUME NEW n \in Nat, n < N_MB - BASE_MB
  PROVE  Megabyte(n) = BASE_MB + n
<1>1. BASE_MB + n \in 0 .. N_MB - 1 /\ N_MB \in Nat
  BY Parameters
<1> QED
  BY <1>1 DEF Megabyte

\* The megabytes of processes, and of the null process, are theirs to have.
LEMMA ProcessMegabytes ==
  ASSUME NEW p \in 0 .. N_PROCESSES
  PROVE  Megabyte(p) \in UserMegabytes
<1>1. p \in Nat /\ p < N_MB - BASE_MB /\ BASE_MB + p < DEVICES_MB
  BY Parameters
<1>2. Megabyte(p) = BASE_MB + p
  BY <1>1, MegabyteBelow
<1> QED
  BY <1>1, <1>2, Parameters DEF UserMegabytes

\* A stack in the image is one of a pid that has wrapped.
LEMMA OnlyLatePidsWrap ==
  ASSUME NEW n \in Nat, Megabyte(n) < BASE_MB
  PROVE  n >= N_MB - BASE_MB
<1> SUFFICES ASSUME n < N_MB - BASE_MB PROVE FALSE
  BY Parameters
<1>1. Megabyte(n) = BASE_MB + n
  BY MegabyteBelow
<1> QED
  BY <1>1, Parameters

\* Numbers less than the memory apart have megabytes of their own.
LEMMA MegabytesDiffer ==
  ASSUME NEW n \in Nat, NEW m \in Nat, n - m < N_MB, m - n < N_MB, Megabyte(n) = Megabyte(m)
  PROVE  n = m
<1> DEFINE x == BASE_MB + n
           y == BASE_MB + m
<1>1. /\ x \in Nat /\ y \in Nat /\ N_MB \in Nat /\ N_MB > 0
      /\ x - y < N_MB /\ y - x < N_MB /\ x - y = n - m
  BY Parameters
<1>2. x % N_MB = y % N_MB
  BY DEF Megabyte
<1> HIDE DEF x, y
<1>3. /\ x = N_MB * (x \div N_MB) + (x % N_MB) /\ x \div N_MB \in Int
      /\ y = N_MB * (y \div N_MB) + (y % N_MB) /\ y \div N_MB \in Int
  BY <1>1
<1>4. PICK c \in Int, d \in Int, r \in Int : x = N_MB * c + r /\ y = N_MB * d + r
  <2>1. x % N_MB \in Int
    BY <1>1
  <2> QED
    BY <1>2, <1>3, <2>1
<1>5. x - y = N_MB * (c - d)
  BY <1>1, <1>4
<1>6. c - d < 1
  <2> SUFFICES ASSUME c - d >= 1 PROVE FALSE
    OBVIOUS
  <2>1. N_MB * (c - d) >= N_MB
    BY <1>1
  <2> QED
    BY <1>1, <1>5, <2>1
<1>7. c - d > -1
  <2> SUFFICES ASSUME d - c >= 1 PROVE FALSE
    OBVIOUS
  <2>1. N_MB * (d - c) >= N_MB
    BY <1>1
  <2>2. y - x = N_MB * (d - c)
    BY <1>1, <1>4
  <2> QED
    BY <1>1, <2>1, <2>2
<1>8. c = d
  BY <1>6, <1>7
<1>9. x = y
  BY <1>4, <1>8
<1> QED
  BY <1>1, <1>9

-----------------------------------------------------------------------------
(* Tables.                                                                  *)

\* What the l2_table of process p with pid n is made of: its data, and stacks.
Fits(table, p, n) ==
    /\ DOMAIN table \subseteq {0} \cup {StackPage(i) : i \in Locals}
    /\ 0 \in DOMAIN table /\ table[0] = <<Megabyte(p), 0>>
    /\ \A i \in Locals : StackPage(i) \in DOMAIN table => table[StackPage(i)] = StackFrame(n, i)

\* Stack pages are distinct, not the data page, and not next to one another.
LEMMA StackPages ==
  /\ \A i \in Locals : StackPage(i) \in VirtualPages \ {0}
  /\ \A i, k \in Locals : StackPage(i) = StackPage(k) => i = k
  /\ \A i, k \in Locals : StackPage(i) - 1 # StackPage(k) /\ StackPage(i) - 1 # 0
BY Parameters DEF StackPage, VirtualPages, Locals

\* The physical pages of data and stacks exist.
LEMMA Frames ==
  /\ \A n \in Nat : \A i \in Locals : StackFrame(n, i) \in PhysicalPages
  /\ \A n \in Nat : <<Megabyte(n), 0>> \in PhysicalPages
<1>1. ASSUME NEW n \in Nat, NEW i \in Locals PROVE StackFrame(n, i) \in PhysicalPages
  <2>1. i + 1 \in 0 .. N_THREADS_PER_PROCESS + 1
    BY Parameters DEF Locals
  <2> QED
    BY <2>1, MegabyteType DEF StackFrame, PhysicalPages
<1>2. ASSUME NEW n \in Nat PROVE <<Megabyte(n), 0>> \in PhysicalPages
  <2>1. 0 \in 0 .. N_THREADS_PER_PROCESS + 1
    BY Parameters
  <2> QED
    BY <2>1, MegabyteType DEF PhysicalPages
<1> QED
  BY <1>1, <1>2

\* The table of a new process.
LEMMA InitialTable ==
  ASSUME NEW p \in Processes, NEW n
  PROVE  Fits(init_process_memory(p), p, n)
<1>1. 0 \notin {StackPage(i) : i \in Locals}
  BY StackPages
<1> QED
  BY <1>1 DEF Fits, init_process_memory

\* The table of a process with one thread more.
LEMMA ExtendedTable ==
  ASSUME NEW p, NEW n, NEW i \in Locals, NEW table, Fits(table, p, n)
  PROVE  Fits(init_thread_memory(n, i, table), p, n)
<1> DEFINE new == init_thread_memory(n, i, table)
<1>1. /\ DOMAIN new = DOMAIN table \cup {StackPage(i)}
      /\ \A v \in DOMAIN new : new[v] = IF v = StackPage(i) THEN StackFrame(n, i) ELSE table[v]
  BY DEF init_thread_memory
<1> HIDE DEF new
<1>2. 0 \in DOMAIN new /\ new[0] = <<Megabyte(p), 0>>
  BY <1>1, StackPages DEF Fits
<1>3. DOMAIN new \subseteq {0} \cup {StackPage(k) : k \in Locals}
  BY <1>1 DEF Fits
<1>4. ASSUME NEW k \in Locals, StackPage(k) \in DOMAIN new
      PROVE  new[StackPage(k)] = StackFrame(n, k)
  <2>1. CASE k = i
    BY <1>1, <2>1
  <2>2. CASE k # i
    BY <1>1, <1>4, <2>2, StackPages DEF Fits
  <2> QED
    BY <2>1, <2>2
<1> QED
  BY <1>1, <1>2, <1>3, <1>4 DEF Fits, new

\* A table that fits maps pages to pages.
LEMMA FittingTypes ==
  ASSUME NEW p \in Nat, NEW n \in Nat, NEW table, Fits(table, p, n)
  PROVE  DOMAIN table \subseteq VirtualPages /\ Range(table) \subseteq PhysicalPages
<1>1. 0 \in VirtualPages
  BY Parameters DEF VirtualPages
<1>2. DOMAIN table \subseteq VirtualPages
  BY <1>1, StackPages DEF Fits
<1>3. ASSUME NEW v \in DOMAIN table PROVE table[v] \in PhysicalPages
  <2>1. CASE v = 0
    BY <2>1, Frames DEF Fits
  <2>2. CASE v # 0
    <3>1. PICK i \in Locals : v = StackPage(i)
      BY <2>2 DEF Fits
    <3>2. table[v] = StackFrame(n, i)
      BY <3>1 DEF Fits
    <3> QED
      BY <3>2, Frames
  <2> QED
    BY <2>1, <2>2
<1> QED
  BY <1>2, <1>3 DEF Range

-----------------------------------------------------------------------------
(* Queues of what is free.                                                  *)

\* When as many indices have come back as there are, all have.
LEMMA AllAreFree ==
  ASSUME NEW s \in Seq(Locals), IsInjective(s), Len(s) >= N_THREADS_PER_PROCESS
  PROVE  Range(s) = Locals
  BY InjectiveInInterval, Parameters DEF Locals

\* The free indices of a new process.
LEMMA AllIndices ==
  LET all == [k \in 1 .. N_THREADS_PER_PROCESS |-> k]
  IN  /\ all \in Seq(Locals) /\ all # <<>> /\ IsInjective(all) /\ Range(all) = Locals
      /\ Head(all) = 1
<1> DEFINE all == [k \in 1 .. N_THREADS_PER_PROCESS |-> k]
<1>1. all \in [1 .. N_THREADS_PER_PROCESS -> Locals]
  BY DEF Locals
<1>2. all \in Seq(Locals)
  <2>1. N_THREADS_PER_PROCESS \in Nat
    BY Parameters
  <2> HIDE DEF all
  <2> QED
    BY <1>1, <2>1, SeqDef, Zenon
<1>3. all[1] = 1 /\ DOMAIN all = 1 .. N_THREADS_PER_PROCESS /\ 1 \in DOMAIN all
  BY Parameters
<1>4. all # <<>>
  <2>1. DOMAIN <<>> = {}
    OBVIOUS
  <2> QED
    BY <1>3, <2>1
<1>5. IsInjective(all) /\ Range(all) = Locals
  BY DEF IsInjective, Range, Locals
<1>6. Head(all) = 1
  BY <1>2, <1>3, <1>4
<1> QED
  BY <1>2, <1>4, <1>5, <1>6

-----------------------------------------------------------------------------
(* The invariant.                                                           *)

\* No slot is free twice, and no index of a live process.
FreeOnce ==
    /\ IsInjective(free_process_indices)
    /\ \A p \in LiveProcesses : IsInjective(free_indices[p])

\* The tables of live processes are made of their data and stacks, and every live
\* thread has its stack.
TablesFit ==
    /\ DOMAIN l2_table = 0 .. N_PROCESSES
    /\ l2_table[0] = init_thread_memory(0, 0, <<>>)
    /\ \A p \in LiveProcesses : Fits(l2_table[p], p, pid[p])
    /\ \A t \in LiveThreads : StackPage(t[2]) \in DOMAIN l2_table[t[1]]

\* No two live processes have a pid in common, and none a future one.
PidsDiffer ==
    \A p, r \in LiveProcesses : pid[p] <= pid_counter /\ (pid[p] = pid[r] => p = r)

\* Nothing is written over the image before pids have wrapped.
ImageIsSafe == pid_counter < N_MB - BASE_MB => halted # "overwritten"

IInv == TypeOK /\ MappingMatchesRunning /\ CopiesHitMappedPages
        /\ FreeOnce /\ TablesFit /\ PidsDiffer /\ ImageIsSafe

\* What start_kernel leaves has the invariant.
LEMMA InitEstablishes == Init => IInv
<1> SUFFICES ASSUME Init PROVE IInv
  OBVIOUS
<1> DEFINE N == N_PROCESSES
           slots == [k \in 1 .. N - 1 |-> k + 1]
           indices == [k \in 1 .. N_THREADS_PER_PROCESS - 1 |-> k + 1]
<1>1. /\ N \in Nat /\ N > 0 /\ N_THREADS_PER_PROCESS \in Nat /\ N_THREADS_PER_PROCESS > 0
      /\ N - 1 \in Nat /\ N_THREADS_PER_PROCESS - 1 \in Nat /\ MaxPid \in Nat /\ MaxPid > 0
  BY Parameters
<1>2. /\ free_process_indices = slots
      /\ free_indices = [p \in 0 .. N |-> IF p = 1 THEN indices ELSE <<>>]
      /\ pid = [p \in 0 .. N |-> IF p = 1 THEN 1 ELSE 0] /\ pid_counter = 1
      /\ running = NullThread /\ mapped = 0 /\ supplied = {} /\ halted = "no"
  BY DEF Init
<1>3. /\ slots \in Seq(Processes) /\ IsInjective(slots)
      /\ Range(slots) = Processes \ {1}
  <2>1. slots \in [1 .. N - 1 -> Processes]
    BY <1>1 DEF Processes
  <2>2. slots \in Seq(Processes)
    <3> HIDE DEF slots
    <3> QED
      BY <1>1, <2>1, SeqDef, Zenon
  <2>3. IsInjective(slots)
    BY <1>1 DEF IsInjective
  <2>4. ASSUME NEW p \in Processes \ {1} PROVE p \in Range(slots)
    <3>1. p - 1 \in 1 .. N - 1 /\ p = (p - 1) + 1
      BY <1>1 DEF Processes
    <3> QED
      BY <3>1 DEF Range
  <2>5. Range(slots) \subseteq Processes \ {1}
    BY <1>1 DEF Range, Processes
  <2> QED
    BY <2>2, <2>3, <2>4, <2>5
<1>4. /\ indices \in Seq(Locals) /\ IsInjective(indices)
      /\ Range(indices) = Locals \ {1}
  <2>1. indices \in [1 .. N_THREADS_PER_PROCESS - 1 -> Locals]
    BY <1>1 DEF Locals
  <2>2. indices \in Seq(Locals)
    <3> HIDE DEF indices
    <3> QED
      BY <1>1, <2>1, SeqDef, Zenon
  <2>3. IsInjective(indices)
    BY <1>1 DEF IsInjective
  <2>4. ASSUME NEW p \in Locals \ {1} PROVE p \in Range(indices)
    <3>1. p - 1 \in 1 .. N_THREADS_PER_PROCESS - 1 /\ p = (p - 1) + 1
      BY <1>1 DEF Locals
    <3> QED
      BY <3>1 DEF Range
  <2>5. Range(indices) \subseteq Locals \ {1}
    BY <1>1 DEF Range, Locals
  <2> QED
    BY <2>2, <2>3, <2>4, <2>5
<1> HIDE DEF slots, indices
<1>5. 1 \in Processes /\ 1 \in Locals /\ 1 \in 0 .. N /\ 0 \in 0 .. N
  BY <1>1 DEF Processes, Locals
<1>6. LiveProcesses = {1}
  BY <1>2, <1>3, <1>5 DEF LiveProcesses
<1>7. LiveThreads \subseteq {<<1, 1>>}
  <2>1. free_indices[1] = indices
    BY <1>2, <1>5
  <2> QED
    BY <1>4, <1>6, <2>1 DEF LiveThreads
<1>8. /\ DOMAIN l2_table = 0 .. N
      /\ l2_table[0] = init_thread_memory(0, 0, <<>>)
      /\ l2_table[1] = init_thread_memory(1, 1, init_process_memory(1))
      /\ \A p \in 0 .. N : p # 0 /\ p # 1 => l2_table[p] = <<>>
  BY <1>5 DEF Init
<1>9. /\ Fits(l2_table[1], 1, 1)
      /\ StackPage(1) \in DOMAIN l2_table[1]
  <2>1. PICK k : k = 1 /\ k \in Processes /\ k \in Locals
    BY <1>5
  <2>2. /\ Fits(init_thread_memory(k, k, init_process_memory(k)), k, k)
        /\ StackPage(k) \in DOMAIN init_thread_memory(k, k, init_process_memory(k))
    <3> DEFINE data == init_process_memory(k)
               new == init_thread_memory(k, k, data)
    <3>1. k \in Processes /\ k \in Locals
      BY <2>1
    <3>2. Fits(data, k, k)
      BY <3>1, InitialTable
    <3> HIDE DEF data
    <3>3. Fits(new, k, k)
      BY <3>1, <3>2, ExtendedTable
    <3>4. DOMAIN new = DOMAIN data \cup {StackPage(k)}
      BY DEF new, init_thread_memory
    <3> HIDE DEF new
    <3>5. StackPage(k) \in DOMAIN new
      BY <3>4
    <3> QED
      BY <3>3, <3>5 DEF data, new
  <2> QED
    BY <1>8, <2>1, <2>2
<1>10. DOMAIN l2_table[0] = {StackPage(0)} /\ l2_table[0][StackPage(0)] = StackFrame(0, 0)
  <2>1. DOMAIN <<>> = {}
    OBVIOUS
  <2> QED
    BY <1>8, <2>1 DEF init_thread_memory
<1>11. FreeOnce
  BY <1>2, <1>3, <1>4, <1>5, <1>6 DEF FreeOnce
<1>12. TablesFit
  <2>1. pid[1] = 1
    BY <1>2, <1>5
  <2> QED
    BY <1>6, <1>7, <1>8, <1>9, <2>1 DEF TablesFit
<1>13. PidsDiffer
  BY <1>2, <1>5, <1>6 DEF PidsDiffer
<1>14. TypeOK
  <2>1. ASSUME NEW p \in 0 .. N
        PROVE  /\ DOMAIN l2_table[p] \subseteq VirtualPages
               /\ Range(l2_table[p]) \subseteq PhysicalPages
    <3>1. CASE p = 0
      <4>1. StackPage(0) \in VirtualPages
        BY <1>1 DEF StackPage, VirtualPages
      <4>2. StackFrame(0, 0) \in PhysicalPages
        <5>1. 1 \in 0 .. N_THREADS_PER_PROCESS + 1 /\ Megabyte(0) \in 0 .. N_MB - 1
          BY <1>1, MegabyteType
        <5> QED
          BY <5>1 DEF StackFrame, PhysicalPages
      <4> QED
        BY <1>10, <3>1, <4>1, <4>2 DEF Range
    <3>2. CASE p = 1
      BY <1>9, <3>2, FittingTypes
    <3>3. CASE p # 0 /\ p # 1
      <4>1. DOMAIN l2_table[p] = {}
        BY <1>8, <3>3
      <4> QED
        BY <4>1 DEF Range
    <3> QED
      BY <3>1, <3>2, <3>3
  <2>2. pid_counter \in 1 .. MaxPid /\ pid \in [0 .. N_PROCESSES -> 0 .. MaxPid]
    BY <1>1, <1>2
  <2>3. memory \in [PhysicalPages -> Contents]
    <3>1. /\ 0 \in 0 .. MaxPid /\ 1 \in 0 .. MaxPid /\ 0 \in 0 .. N_THREADS_PER_PROCESS
      BY <1>1
    <3>2. <<1, 0>> \in Contents /\ <<0, 0>> \in Contents
      BY <3>1 DEF Contents
    <3> QED
      BY <3>2 DEF Init, Blank
  <2>4. free_indices \in [0 .. N_PROCESSES -> Seq(Locals)]
    <3>1. <<>> \in Seq(Locals)
      BY EmptySeq
    <3> QED
      BY <1>2, <1>4, <3>1
  <2>5. mapped \in 0 .. N_PROCESSES /\ running \in LiveThreads \cup {NullThread}
        /\ supplied \subseteq LiveThreads /\ halted \in {"no", "page", "size", "overwritten"}
        /\ free_process_indices \in Seq(Processes)
    BY <1>2, <1>3, <1>5
  <2> QED
    BY <2>1, <2>2, <2>3, <2>4, <2>5 DEF TypeOK
<1>15. MappingMatchesRunning /\ CopiesHitMappedPages /\ ImageIsSafe
  BY <1>2 DEF MappingMatchesRunning, CopiesHitMappedPages, NullThread, ImageIsSafe
<1> QED
  BY <1>11, <1>12, <1>13, <1>14, <1>15 DEF IInv

-----------------------------------------------------------------------------
(* Creation.                                                                *)

\* What a thread is told apart by.
LEMMA LiveThreadType ==
  ASSUME NEW t \in LiveThreads
  PROVE  /\ t = <<t[1], t[2]>> /\ t[1] \in LiveProcesses /\ t[1] \in Processes /\ t[2] \in Locals
         /\ t[2] \notin Range(free_indices[t[1]])
BY DEF LiveThreads, LiveProcesses

\* Where the data of a process and the stack of a thread are.
DataPage(p) == <<Megabyte(p), 0>>
StackIn(pids, t) == StackFrame(pids[t[1]], t[2])

\* The page through which a live process is reached at its data, and a live thread at its stack.
LEMMA PagesReached ==
  ASSUME IInv
  PROVE  /\ \A p \in LiveProcesses : l2_table[p][0] = DataPage(p)
         /\ \A t \in LiveThreads : l2_table[t[1]][SpPage(t[2])] = StackIn(pid, t)
         /\ \A p \in LiveProcesses : DataPage(p) \in PhysicalPages
         /\ \A t \in LiveThreads : StackIn(pid, t) \in PhysicalPages
<1>1. ASSUME NEW p \in LiveProcesses
      PROVE  l2_table[p][0] = DataPage(p) /\ DataPage(p) \in PhysicalPages
  <2>1. Fits(l2_table[p], p, pid[p])
    BY DEF IInv, TablesFit
  <2>2. p \in Nat
    BY DEF LiveProcesses, Processes
  <2> QED
    BY <2>1, <2>2, Frames DEF Fits, DataPage
<1>2. ASSUME NEW t \in LiveThreads
      PROVE  l2_table[t[1]][SpPage(t[2])] = StackIn(pid, t) /\ StackIn(pid, t) \in PhysicalPages
  <2>1. t[1] \in LiveProcesses /\ t[2] \in Locals
    BY LiveThreadType
  <2>2. SpPage(t[2]) = StackPage(t[2])
    BY <2>1, StackPointerPage
  <2>3. Fits(l2_table[t[1]], t[1], pid[t[1]]) /\ StackPage(t[2]) \in DOMAIN l2_table[t[1]]
    BY <2>1 DEF IInv, TablesFit
  <2>4. l2_table[t[1]][StackPage(t[2])] = StackFrame(pid[t[1]], t[2])
    BY <2>1, <2>3 DEF Fits
  <2>5. pid[t[1]] \in Nat
    <3>1. t[1] \in 0 .. N_PROCESSES
      BY <2>1, Parameters DEF LiveProcesses, Processes
    <3> QED
      BY <3>1 DEF IInv, TypeOK
  <2> QED
    BY <2>1, <2>2, <2>4, <2>5, Frames DEF StackIn
<1> QED
  BY <1>1, <1>2

\* A step that gives slot p a table and a list of free indices from which threads
\* are taken, be it a new process or not.
LEMMA Created ==
  ASSUME IInv,
         NEW p \in Processes, NEW n \in 0 .. MaxPid, NEW new, NEW rest \in Seq(Locals),
         pid_counter' \in 1 .. MaxPid, pid_counter <= pid_counter', n <= pid_counter',
         pid' = [pid EXCEPT ![p] = n],
         \A r \in LiveProcesses \ {p} : pid[r] # n,
         free_process_indices' \in Seq(Processes), IsInjective(free_process_indices'),
         Range(free_process_indices') = Range(free_process_indices) \ {p},
         l2_table' = [l2_table EXCEPT ![p] = new], Fits(new, p, n),
         free_indices' = [free_indices EXCEPT ![p] = rest], IsInjective(rest),
         \A i \in Locals \ Range(rest) : StackPage(i) \in DOMAIN new,
         p \in LiveProcesses => Range(rest) \subseteq Range(free_indices[p]),
         running' = running, mapped' \in {p, running[1]}, halted' = "no" => mapped' = running[1],
         memory' \in [PhysicalPages -> Contents],
         \A t \in supplied' \ supplied : t[1] = p /\ t \in Processes \X (Locals \ Range(rest)),
         halted' \in {"no", "size", "overwritten"},
         halted' = "overwritten" => n >= N_MB - BASE_MB
  PROVE  IInv'
<1> USE DEF IInv
<1>1. /\ p \in 0 .. N_PROCESSES /\ Processes \subseteq 0 .. N_PROCESSES
      /\ 0 \notin Processes /\ 0 \in 0 .. N_PROCESSES
  BY Parameters DEF Processes
<1>2. DOMAIN pid = 0 .. N_PROCESSES /\ DOMAIN l2_table = 0 .. N_PROCESSES
      /\ DOMAIN free_indices = 0 .. N_PROCESSES
  BY DEF TypeOK, TablesFit
<1>3. /\ pid'[p] = n /\ l2_table'[p] = new /\ free_indices'[p] = rest
      /\ \A r \in 0 .. N_PROCESSES : r # p => /\ pid'[r] = pid[r]
                                              /\ l2_table'[r] = l2_table[r]
                                              /\ free_indices'[r] = free_indices[r]
      /\ DOMAIN l2_table' = 0 .. N_PROCESSES
  BY <1>1, <1>2
<1>4. LiveProcesses' = LiveProcesses \cup {p}
  BY DEF LiveProcesses
<1>5. ASSUME NEW t \in LiveThreads PROVE t \in LiveThreads'
  <2>1. t = <<t[1], t[2]>> /\ t[1] \in LiveProcesses /\ t[1] \in Processes /\ t[2] \in Locals
        /\ t[2] \notin Range(free_indices[t[1]])
    BY <1>5, LiveThreadType
  <2>2. t[2] \notin Range(free_indices'[t[1]])
    <3>1. CASE t[1] = p
      BY <1>3, <2>1, <3>1
    <3>2. CASE t[1] # p
      BY <1>1, <1>3, <2>1, <3>2
    <3> QED
      BY <3>1, <3>2
  <2> QED
    BY <1>4, <2>1, <2>2 DEF LiveThreads
<1>6. ASSUME NEW t \in LiveThreads'
      PROVE  /\ t[1] \in LiveProcesses' /\ t[1] \in Processes /\ t[2] \in Locals
             /\ \/ t[1] = p /\ t[2] \in Locals \ Range(rest)
                \/ t[1] # p /\ t \in LiveThreads
  <2>1. /\ t \in Processes \X Locals /\ t[1] \in LiveProcesses'
        /\ t[2] \notin Range(free_indices'[t[1]])
    BY <1>6 DEF LiveThreads
  <2>2. t[1] \in Processes /\ t[2] \in Locals
    BY <2>1
  <2>3. CASE t[1] = p
    BY <1>3, <2>1, <2>2, <2>3
  <2>4. CASE t[1] # p
    <3>1. t[1] \in LiveProcesses /\ free_indices'[t[1]] = free_indices[t[1]]
      BY <1>1, <1>3, <1>4, <2>1, <2>2, <2>4
    <3> QED
      BY <2>1, <2>2, <2>4, <3>1 DEF LiveThreads
  <2> QED
    BY <2>1, <2>2, <2>3, <2>4
<1>7. FreeOnce'
  <2>1. ASSUME NEW r \in LiveProcesses' PROVE IsInjective(free_indices'[r])
    <3>1. r \in Processes
      BY <2>1 DEF LiveProcesses
    <3>2. CASE r = p
      BY <1>3, <3>2
    <3>3. CASE r # p
      BY <1>1, <1>3, <1>4, <3>1, <3>3 DEF FreeOnce
    <3> QED
      BY <3>2, <3>3
  <2> QED
    BY <2>1 DEF FreeOnce
<1>8. TablesFit'
  <2>1. l2_table'[0] = init_thread_memory(0, 0, <<>>)
    BY <1>1, <1>3 DEF TablesFit
  <2>2. ASSUME NEW r \in LiveProcesses' PROVE Fits(l2_table'[r], r, pid'[r])
    <3>1. r \in Processes
      BY <2>2 DEF LiveProcesses
    <3>2. CASE r = p
      BY <1>3, <3>2
    <3>3. CASE r # p
      <4>1. r \in LiveProcesses /\ l2_table'[r] = l2_table[r] /\ pid'[r] = pid[r]
        BY <1>1, <1>3, <1>4, <2>2, <3>1, <3>3
      <4> QED
        BY <4>1 DEF TablesFit
    <3> QED
      BY <3>2, <3>3
  <2>3. ASSUME NEW t \in LiveThreads' PROVE StackPage(t[2]) \in DOMAIN l2_table'[t[1]]
    <3>1. CASE t[1] = p
      BY <1>3, <1>6, <2>3, <3>1
    <3>2. CASE t[1] # p
      <4>1. t \in LiveThreads /\ l2_table'[t[1]] = l2_table[t[1]]
        BY <1>1, <1>3, <1>6, <2>3, <3>2
      <4> QED
        BY <4>1 DEF TablesFit
    <3> QED
      BY <3>1, <3>2
  <2> QED
    BY <1>3, <2>1, <2>2, <2>3 DEF TablesFit
<1>9. PidsDiffer'
  <2> SUFFICES ASSUME NEW q \in LiveProcesses', NEW r \in LiveProcesses'
               PROVE  pid'[q] <= pid_counter' /\ (pid'[q] = pid'[r] => q = r)
    BY DEF PidsDiffer
  <2>1. /\ pid_counter \in Nat /\ pid_counter' \in Nat
        /\ q \in 0 .. N_PROCESSES /\ r \in 0 .. N_PROCESSES
        /\ pid[q] \in Nat
    <3>1. q \in Processes /\ r \in Processes
      BY DEF LiveProcesses
    <3>2. pid \in [0 .. N_PROCESSES -> 0 .. MaxPid] /\ pid_counter \in Nat /\ pid_counter' \in Nat
      BY DEF TypeOK
    <3>3. q \in 0 .. N_PROCESSES /\ r \in 0 .. N_PROCESSES
      BY <1>1, <3>1
    <3>4. pid[q] \in 0 .. MaxPid
      BY <3>2, <3>3
    <3> QED
      BY <3>2, <3>3, <3>4
  <2>2. pid'[q] <= pid_counter'
    <3>1. CASE q = p
      BY <1>3, <3>1
    <3>2. CASE q # p
      <4>1. pid[q] <= pid_counter
        BY <1>4, <3>2 DEF PidsDiffer
      <4> QED
        BY <1>3, <2>1, <3>2, <4>1
    <3> QED
      BY <3>1, <3>2
  <2>3. ASSUME q # r PROVE pid'[q] # pid'[r]
    <3>1. CASE q = p
      BY <1>3, <1>4, <2>1, <2>3, <3>1
    <3>2. CASE r = p
      BY <1>3, <1>4, <2>1, <2>3, <3>2
    <3>3. CASE q # p /\ r # p
      BY <1>3, <1>4, <2>1, <2>3, <3>3 DEF PidsDiffer
    <3> QED
      BY <3>1, <3>2, <3>3
  <2> QED
    BY <2>2, <2>3
<1>10. TypeOK'
  <2>1. ASSUME NEW r \in 0 .. N_PROCESSES
        PROVE  /\ DOMAIN l2_table'[r] \subseteq VirtualPages
               /\ Range(l2_table'[r]) \subseteq PhysicalPages
    <3>1. CASE r = p
      <4>1. p \in Nat /\ n \in Nat
        BY Parameters DEF Processes
      <4> QED
        BY <1>3, <3>1, <4>1, FittingTypes
    <3>2. CASE r # p
      BY <1>3, <3>2 DEF TypeOK
    <3> QED
      BY <3>1, <3>2
  <2>2. pid' \in [0 .. N_PROCESSES -> 0 .. MaxPid]
        /\ free_indices' \in [0 .. N_PROCESSES -> Seq(Locals)]
    BY DEF TypeOK
  <2>3. running' \in LiveThreads' \cup {NullThread}
    BY <1>5 DEF TypeOK
  <2>4. mapped' \in 0 .. N_PROCESSES
    <3>1. CASE running = NullThread
      BY <1>1, <3>1 DEF NullThread
    <3>2. CASE running # NullThread
      <4>1. running[1] \in Processes
        BY <3>2, LiveThreadType DEF TypeOK
      <4> QED
        BY <1>1, <4>1
    <3> QED
      BY <3>1, <3>2
  <2>5. ASSUME NEW t \in supplied' PROVE t \in LiveThreads'
    <3>1. CASE t \in supplied
      BY <1>5, <3>1 DEF TypeOK
    <3>2. CASE t \notin supplied
      <4>1. t[1] = p /\ t \in Processes \X (Locals \ Range(rest))
        BY <2>5, <3>2
      <4>2. t[2] \notin Range(free_indices'[t[1]]) /\ t[1] \in LiveProcesses' /\ t \in Processes \X Locals
        BY <1>3, <1>4, <4>1
      <4> QED
        BY <4>2 DEF LiveThreads
    <3> QED
      BY <3>1, <3>2
  <2> QED
    BY <2>1, <2>2, <2>3, <2>4, <2>5 DEF TypeOK
<1>11. MappingMatchesRunning' /\ CopiesHitMappedPages'
  BY DEF MappingMatchesRunning, CopiesHitMappedPages
<1>12. ImageIsSafe'
  BY Parameters DEF ImageIsSafe
<1> QED
  BY <1>7, <1>8, <1>9, <1>10, <1>11, <1>12

\* A granted request is a block whose pages are mapped by the caller, and whose copy
\* finds the stack it is meant for.
LEMMA RequestsHit ==
  ASSUME IInv, halted = "no", running # NullThread,
         NEW block \in Requests[running[2]], block # Refused, ~Wrapped(block.size),
         NEW index \in Locals, NEW via, StackPage(index) \in DOMAIN via
  PROVE  /\ block.pages \subseteq DOMAIN l2_table[running[1]]
         /\ PagesOf(get_stack_pointer(index) - block.size, block.size) \subseteq DOMAIN via
<1>1. /\ running[1] \in Processes /\ running[2] \in Locals
      /\ StackPage(running[2]) \in DOMAIN l2_table[running[1]]
  <2>1. running \in LiveThreads
    BY DEF IInv, TypeOK
  <2> QED
    BY <2>1, LiveThreadType DEF IInv, TablesFit
<1> DEFINE A == 0 .. N_ADDRESSES - 1
           own == running[2]
<1>2. PICK a \in A \X A : Verified(a[1], a[2], own) /\ block = Block(a[1], a[2])
  <2>1. Requests[own] = {Refused} \cup {Block(a[1], a[2]) :
                            a \in {b \in A \X A : Verified(b[1], b[2], own)}}
    BY <1>1 DEF Requests
  <2> HIDE DEF A, own
  <2>2. block \in {Block(a[1], a[2]) : a \in {b \in A \X A : Verified(b[1], b[2], own)}}
    BY <2>1 DEF own
  <2> QED
    BY <2>2
<1>3. PICK args \in A, size \in A : /\ Verified(args, size, own)
                                    /\ block.size = size /\ block.pages = PagesOf(args, size)
  BY <1>2 DEF Block
<1>4. /\ PagesOf(args, size) \subseteq {StackPage(own)}
      /\ PagesOf(get_stack_pointer(index) - size, size) \subseteq {StackPage(index)}
  BY <1>1, <1>3, VerifiedInStackPage
<1> QED
  BY <1>1, <1>3, <1>4

\* A step that gives process p of pid n the table and free indices of a new thread, or
\* the ones it had when no index is free.
Grown(p, n, table, free) ==
    \E new, rest :
        /\ l2_table' = [l2_table EXCEPT ![p] = new]
        /\ free_indices' = [free_indices EXCEPT ![p] = rest]
        /\ Fits(new, p, n) /\ rest \in Seq(Locals) /\ IsInjective(rest)
        /\ Range(rest) \subseteq Range(free)
        /\ \/ free = <<>> /\ new = table /\ rest = free
           \/ /\ free # <<>> /\ Range(rest) = Range(free) \ {Head(free)}
              /\ \A v \in DOMAIN table : v \in DOMAIN new
              /\ StackPage(Head(free)) \in DOMAIN new
        /\ \A t \in supplied' \ supplied : t[1] = p /\ t \in Processes \X (Locals \ Range(rest))

\* What thread_create does: it takes an index or finds none, extends the table by the
\* stack, and is back at the caller's table unless it has stopped.
LEMMA ThreadEffect ==
  ASSUME IInv, halted = "no", running # NullThread,
         NEW p \in Processes, NEW n \in 0 .. MaxPid, NEW table, Fits(table, p, n),
         p = running[1] => table = l2_table[p],
         NEW free \in Seq(Locals), IsInjective(free),
         NEW mem \in [PhysicalPages -> Contents],
         NEW m, m = running[1],
         NEW block \in Requests[running[2]], block # Refused,
         thread_create(p, n, table, free, mem, m, block)
  PROVE  /\ Grown(p, n, table, free)
         /\ mapped' \in {p, running[1]} /\ (halted' = "no" => mapped' = running[1])
         /\ memory' \in [PhysicalPages -> Contents]
         /\ halted' \in {"no", "size", "overwritten"}
         /\ halted' = "overwritten" => n >= N_MB - BASE_MB
<1>2. CASE free = <<>> /\ l2_table' = [l2_table EXCEPT ![p] = table]
           /\ free_indices' = [free_indices EXCEPT ![p] = free] /\ memory' = mem
           /\ mapped' = m /\ UNCHANGED <<supplied, halted>>
  <2>1. Grown(p, n, table, free)
    <3>1. \A t \in supplied' \ supplied : FALSE
      BY <1>2
    <3> QED
      BY <1>2, <3>1 DEF Grown
  <2> QED
    BY <1>2, <2>1
<1>3. CASE free # <<>>
  <2> DEFINE index == Head(free)
             full == init_thread_memory(n, index, table)
             reads == block.pages \subseteq DOMAIN (IF m = p THEN full ELSE l2_table[m])
             hits == /\ reads
                     /\ PagesOf(get_stack_pointer(index) - block.size, block.size)
                           \subseteq DOMAIN full
             what == Written(mem, full, SpPage(index), <<n, index>>)
             after == AfterWrite(full, SpPage(index))
  <2>1. /\ free_indices' = [free_indices EXCEPT ![p] = Tail(free)]
        /\ l2_table' = [l2_table EXCEPT ![p] = full]
        /\ \/ block.size = 0 /\ memory' = mem /\ mapped' = m /\ UNCHANGED <<supplied, halted>>
           \/ /\ block.size > 0 /\ hits
              /\ memory' = what
              /\ halted' = after
              /\ supplied' = supplied \cup {<<p, index>>}
              /\ mapped' = running[1]
           \/ /\ block.size > 0 /\ ~hits
              /\ halted' = IF Wrapped(block.size) THEN "size" ELSE "page"
              /\ memory' = mem /\ mapped' = IF reads THEN p ELSE m
              /\ UNCHANGED supplied
    BY <1>3 DEF thread_create, CopyTable, MappedAfterCopy
  <2>2. /\ index \in Locals /\ Tail(free) \in Seq(Locals) /\ IsInjective(Tail(free))
        /\ Range(Tail(free)) = Range(free) \ {index}
    BY <1>3, TailOfInjective
  <2>3. Fits(full, p, n)
    BY <2>2, ExtendedTable
  <2>4. StackPage(index) \in DOMAIN full /\ \A v \in DOMAIN table : v \in DOMAIN full
    BY DEF init_thread_memory
  <2>5. what \in [PhysicalPages -> Contents]
    <3>1. <<n, index>> \in Contents
      <4>1. index \in 0 .. N_THREADS_PER_PROCESS
        BY <2>2 DEF Locals
      <4> QED
        BY <4>1 DEF Contents
    <3> HIDE DEF full, index
    <3> QED
      BY <3>1 DEF Written
  <2>6. ~Wrapped(block.size) => hits
    <3> SUFFICES ASSUME ~Wrapped(block.size) PROVE hits
      OBVIOUS
    <3>1. /\ block.pages \subseteq DOMAIN l2_table[running[1]]
          /\ PagesOf(get_stack_pointer(index) - block.size, block.size) \subseteq DOMAIN full
      BY <2>2, <2>4, RequestsHit
    <3>2. reads
      BY <2>4, <3>1
    <3> QED
      BY <3>1, <3>2
  <2>7. after \in {"no", "overwritten"} /\ (after = "overwritten" => n >= N_MB - BASE_MB)
    <3>1. full[SpPage(index)][1] = Megabyte(n)
      <4>1. SpPage(index) = StackPage(index)
        BY <2>2, StackPointerPage
      <4>2. full[SpPage(index)] = StackFrame(n, index)
        BY <4>1 DEF init_thread_memory
      <4> QED
        BY <4>2 DEF StackFrame
    <3>2. Megabyte(n) < BASE_MB => n >= N_MB - BASE_MB
      BY OnlyLatePidsWrap
    <3> QED
      BY <3>1, <3>2 DEF AfterWrite
  <2> HIDE DEF hits, full, what, after, reads
  <2>8. /\ mapped' \in {p, running[1]} /\ (halted' = "no" => mapped' = running[1])
        /\ memory' \in [PhysicalPages -> Contents]
        /\ halted' \in {"no", "size", "overwritten"}
        /\ (halted' = "overwritten" => n >= N_MB - BASE_MB)
    BY <2>1, <2>5, <2>6, <2>7
  <2>9. supplied' \subseteq supplied \cup {<<p, index>>}
    BY <2>1
  <2>10. ASSUME NEW t \in supplied' \ supplied
         PROVE  t[1] = p /\ t \in Processes \X (Locals \ Range(Tail(free)))
    <3>1. t = <<p, index>> /\ index \in Locals \ Range(Tail(free))
      BY <2>2, <2>9, <2>10
    <3> QED
      BY <3>1
  <2>11. /\ l2_table' = [l2_table EXCEPT ![p] = full]
         /\ free_indices' = [free_indices EXCEPT ![p] = Tail(free)]
    BY <2>1
  <2>12. Range(Tail(free)) \subseteq Range(free)
    BY <2>2
  <2> HIDE DEF index
  <2>13. Grown(p, n, table, free)
    <3>1. \/ free = <<>> /\ full = table /\ Tail(free) = free
          \/ /\ free # <<>> /\ Range(Tail(free)) = Range(free) \ {Head(free)}
             /\ \A v \in DOMAIN table : v \in DOMAIN full
             /\ StackPage(Head(free)) \in DOMAIN full
      BY <1>3, <2>2, <2>4 DEF index
    <3> QED
      BY <2>2, <2>3, <2>10, <2>11, <2>12, <3>1 DEF Grown
  <2> QED
    BY <2>8, <2>13
<1> QED
  BY <1>2, <1>3 DEF thread_create

-----------------------------------------------------------------------------
(* Steps.                                                                   *)

\* A thread of the running process.
LEMMA CreateThreadKeeps ==
  ASSUME IInv, exec_syscall_create_thread, ~kill_cur_thread
  PROVE  IInv'
<1> DEFINE p == running[1]
<1>1. /\ running # NullThread /\ halted = "no"
      /\ UNCHANGED <<pid_counter, pid, free_process_indices, running>>
  BY DEF exec_syscall_create_thread
<1>2. PICK block \in Requests[running[2]] :
         /\ block # Refused
         /\ thread_create(p, pid[p], l2_table[p], free_indices[p], memory, mapped, block)
  BY DEF exec_syscall_create_thread
<1>3. running \in LiveThreads /\ p \in LiveProcesses /\ p \in Processes /\ p \in 0 .. N_PROCESSES
  <2>1. running \in LiveThreads
    BY <1>1 DEF IInv, TypeOK
  <2>2. p \in LiveProcesses /\ p \in Processes
    BY <2>1, LiveThreadType
  <2> QED
    BY <2>1, <2>2, Parameters DEF Processes
<1>4. /\ pid[p] \in 0 .. MaxPid /\ Fits(l2_table[p], p, pid[p])
      /\ free_indices[p] \in Seq(Locals) /\ IsInjective(free_indices[p])
      /\ memory \in [PhysicalPages -> Contents]
      /\ \A i \in Locals \ Range(free_indices[p]) : StackPage(i) \in DOMAIN l2_table[p]
  <2>1. pid[p] \in 0 .. MaxPid /\ free_indices[p] \in Seq(Locals)
        /\ memory \in [PhysicalPages -> Contents]
    BY <1>3 DEF IInv, TypeOK
  <2>2. Fits(l2_table[p], p, pid[p]) /\ IsInjective(free_indices[p])
    BY <1>3 DEF IInv, TablesFit, FreeOnce
  <2>3. ASSUME NEW i \in Locals \ Range(free_indices[p])
        PROVE  StackPage(i) \in DOMAIN l2_table[p]
    <3>1. <<p, i>> \in LiveThreads
      BY <1>3 DEF LiveThreads
    <3>2. StackPage(<<p, i>>[2]) \in DOMAIN l2_table[<<p, i>>[1]]
      BY <3>1 DEF IInv, TablesFit
    <3> QED
      BY <3>2
  <2> QED
    BY <2>1, <2>2, <2>3
<1>11. mapped = p
  BY <1>1 DEF IInv, MappingMatchesRunning
<1>12. mapped = running[1] /\ (p = running[1] => l2_table[p] = l2_table[p])
  BY <1>11
<1> HIDE DEF p
<1>5. PICK new, rest :
         /\ l2_table' = [l2_table EXCEPT ![p] = new]
         /\ free_indices' = [free_indices EXCEPT ![p] = rest]
         /\ Fits(new, p, pid[p]) /\ rest \in Seq(Locals) /\ IsInjective(rest)
         /\ Range(rest) \subseteq Range(free_indices[p])
         /\ \/ free_indices[p] = <<>> /\ new = l2_table[p] /\ rest = free_indices[p]
            \/ /\ free_indices[p] # <<>>
               /\ Range(rest) = Range(free_indices[p]) \ {Head(free_indices[p])}
               /\ \A v \in DOMAIN l2_table[p] : v \in DOMAIN new
               /\ StackPage(Head(free_indices[p])) \in DOMAIN new
         /\ \A t \in supplied' \ supplied : t[1] = p /\ t \in Processes \X (Locals \ Range(rest))
  <2>1. Grown(p, pid[p], l2_table[p], free_indices[p])
    BY <1>1, <1>2, <1>3, <1>4, <1>12, ThreadEffect
  <2> QED
    BY <2>1 DEF Grown
<1>6. /\ mapped' \in {p, running[1]} /\ (halted' = "no" => mapped' = running[1])
      /\ memory' \in [PhysicalPages -> Contents]
      /\ halted' \in {"no", "size", "overwritten"}
      /\ halted' = "overwritten" => pid[p] >= N_MB - BASE_MB
  BY <1>1, <1>2, <1>3, <1>4, <1>12, ThreadEffect
<1>7. \A i \in Locals \ Range(rest) : StackPage(i) \in DOMAIN new
  BY <1>4, <1>5
<1>8. pid' = [pid EXCEPT ![p] = pid[p]]
  BY <1>1 DEF IInv, TypeOK
<1>9. /\ free_process_indices' \in Seq(Processes) /\ IsInjective(free_process_indices')
      /\ Range(free_process_indices') = Range(free_process_indices) \ {p}
  <2>1. p \notin Range(free_process_indices)
    BY <1>3 DEF LiveProcesses
  <2> QED
    BY <1>1, <2>1 DEF IInv, TypeOK, FreeOnce
<1>10. /\ pid_counter' \in 1 .. MaxPid /\ pid_counter <= pid_counter' /\ pid[p] <= pid_counter'
       /\ \A r \in LiveProcesses \ {p} : pid[r] # pid[p]
  <2>1. pid_counter \in 1 .. MaxPid
    BY DEF IInv, TypeOK
  <2>2. pid[p] <= pid_counter /\ \A r \in LiveProcesses \ {p} : pid[r] # pid[p]
    BY <1>3 DEF IInv, PidsDiffer
  <2> QED
    BY <1>1, <2>1, <2>2
<1> QED
  BY <1>1, <1>3, <1>4, <1>5, <1>6, <1>7, <1>8, <1>9, <1>10, Created

\* A new process, or none when there is no slot.
LEMMA CreateProcessKeeps ==
  ASSUME IInv, halted = "no", running # NullThread, pid_counter < MaxPid, running' = running,
         NEW block \in Requests[running[2]], block # Refused, process_create(block)
  PROVE  IInv'
<1> DEFINE p == Head(free_process_indices)
           n == pid_counter + 1
           all == [k \in 1 .. N_THREADS_PER_PROCESS |-> k]
           table == init_process_memory(p)
           mem == Written(memory, table, 0, <<n, 0>>)
<1>1. n \in 0 .. MaxPid /\ pid_counter' = n /\ n \in 1 .. MaxPid /\ pid_counter <= n
      /\ pid_counter \in Nat /\ n \in Nat
  BY Parameters DEF IInv, TypeOK, process_create
<1>2. CASE free_process_indices = <<>>
  <2>1. UNCHANGED <<pid, l2_table, free_process_indices, free_indices, running, mapped, memory,
                    supplied, halted>>
    BY <1>2 DEF process_create
  <2>2. LiveProcesses' = LiveProcesses /\ LiveThreads' = LiveThreads
    BY <2>1 DEF LiveProcesses, LiveThreads
  <2>3. PidsDiffer'
    <3>1. ASSUME NEW q \in LiveProcesses PROVE pid[q] <= n
      <4>1. pid[q] <= pid_counter /\ pid[q] \in Nat
        <5>1. q \in 0 .. N_PROCESSES
          BY Parameters DEF LiveProcesses, Processes
        <5> QED
          BY <5>1 DEF IInv, PidsDiffer, TypeOK
      <4> QED
        BY <1>1, <4>1
    <3> QED
      BY <1>1, <2>1, <2>2, <3>1 DEF IInv, PidsDiffer
  <2>4. TypeOK'
    BY <1>1, <2>1, <2>2 DEF IInv, TypeOK
  <2> QED
    BY <2>1, <2>2, <2>3, <2>4
    DEF IInv, FreeOnce, TablesFit, MappingMatchesRunning, CopiesHitMappedPages, ImageIsSafe
<1>3. CASE free_process_indices # <<>>
  <2>1. /\ free_process_indices' = Tail(free_process_indices)
        /\ pid' = [pid EXCEPT ![p] = n]
        /\ thread_create(p, n, table, all, mem, running[1], block)
    BY <1>3 DEF process_create, CopyTable, MappedAfterData
  <2>2. /\ p \in Processes /\ free_process_indices' \in Seq(Processes)
        /\ IsInjective(free_process_indices')
        /\ Range(free_process_indices') = Range(free_process_indices) \ {p}
        /\ p \in Range(free_process_indices)
    BY <1>3, <2>1, TailOfInjective DEF IInv, TypeOK, FreeOnce
  <2>3. p \notin LiveProcesses /\ p # running[1]
    <3>1. running[1] \in LiveProcesses
      BY LiveThreadType DEF IInv, TypeOK
    <3> QED
      BY <2>2, <3>1 DEF LiveProcesses
  <2>4. /\ all \in Seq(Locals) /\ all # <<>> /\ IsInjective(all) /\ Range(all) = Locals
    BY AllIndices
  <2>5. Fits(table, p, n)
    BY <2>2, InitialTable
  <2>6. mem \in [PhysicalPages -> Contents]
    <3>1. <<n, 0>> \in Contents
      <4>1. 0 \in 0 .. N_THREADS_PER_PROCESS
        BY Parameters
      <4> QED
        BY <1>1, <4>1 DEF Contents
    <3>2. memory \in [PhysicalPages -> Contents]
      BY DEF IInv, TypeOK
    <3> HIDE DEF n, table
    <3> QED
      BY <3>1, <3>2 DEF Written
  <2>7. \A r \in LiveProcesses \ {p} : pid[r] # n
    <3> SUFFICES ASSUME NEW r \in LiveProcesses PROVE pid[r] # n
      OBVIOUS
    <3>1. pid[r] <= pid_counter
      BY DEF IInv, PidsDiffer
    <3> QED
      BY <1>1, <3>1
  <2> HIDE DEF p, n, all, table, mem
  <2>8. PICK new, rest :
           /\ l2_table' = [l2_table EXCEPT ![p] = new]
           /\ free_indices' = [free_indices EXCEPT ![p] = rest]
           /\ Fits(new, p, n) /\ rest \in Seq(Locals) /\ IsInjective(rest)
           /\ Range(rest) \subseteq Range(all)
           /\ \/ all = <<>> /\ new = table /\ rest = all
              \/ /\ all # <<>> /\ Range(rest) = Range(all) \ {Head(all)}
                 /\ \A v \in DOMAIN table : v \in DOMAIN new
                 /\ StackPage(Head(all)) \in DOMAIN new
           /\ \A t \in supplied' \ supplied : t[1] = p /\ t \in Processes \X (Locals \ Range(rest))
    <3>1. n \in 0 .. MaxPid /\ p \in Processes /\ all \in Seq(Locals) /\ IsInjective(all)
      BY <1>1, <2>2, <2>4
    <3>2. thread_create(p, n, table, all, mem, running[1], block)
      BY <2>1
    <3>3. Grown(p, n, table, all)
      BY <2>3, <2>5, <2>6, <3>1, <3>2, ThreadEffect
    <3> QED
      BY <3>3 DEF Grown
  <2>9. /\ mapped' \in {p, running[1]} /\ (halted' = "no" => mapped' = running[1])
        /\ memory' \in [PhysicalPages -> Contents]
        /\ halted' \in {"no", "size", "overwritten"}
        /\ halted' = "overwritten" => n >= N_MB - BASE_MB
    BY <1>1, <2>1, <2>2, <2>3, <2>4, <2>5, <2>6, ThreadEffect
  <2>10. \A i \in Locals \ Range(rest) : StackPage(i) \in DOMAIN new
    BY <2>4, <2>8
  <2>11. n <= pid_counter' /\ pid_counter' \in 1 .. MaxPid /\ pid_counter <= pid_counter'
    BY <1>1
  <2> QED
    BY <1>1, <2>1, <2>2, <2>3, <2>7, <2>8, <2>9, <2>10, <2>11, Created
<1> QED
  BY <1>2, <1>3

\* A thread that dies takes no other with it: the slot is free once all indices are.
LEMMA KillKeeps ==
  ASSUME IInv, kill_cur_thread
  PROVE  IInv' /\ LiveProcesses' \subseteq LiveProcesses
<1> DEFINE p == running[1]
           index == running[2]
           freed == Append(free_indices[p], index)
<1>1. /\ running # NullThread /\ halted = "no" /\ halted' = halted
      /\ free_indices' = [free_indices EXCEPT ![p] = freed]
      /\ free_process_indices' =
            IF Len(freed) >= N_THREADS_PER_PROCESS
            THEN Append(free_process_indices, p) ELSE free_process_indices
      /\ supplied' = supplied \ {running}
      /\ UNCHANGED <<pid_counter, pid, l2_table, memory>>
      /\ running' \in (LiveThreads \ {running}) \cup {NullThread} /\ mapped' = running'[1]
  BY DEF kill_cur_thread, switch_context
<1>2. running \in LiveThreads
  BY <1>1 DEF IInv, TypeOK
<1>3. /\ running = <<p, index>> /\ p \in LiveProcesses /\ p \in Processes
      /\ index \in Locals /\ index \notin Range(free_indices[p])
  BY <1>2, LiveThreadType
<1>4. /\ p \in 0 .. N_PROCESSES /\ Processes \subseteq 0 .. N_PROCESSES /\ 0 \in 0 .. N_PROCESSES
  BY <1>3, Parameters DEF Processes
<1>5. free_indices \in [0 .. N_PROCESSES -> Seq(Locals)] /\ free_process_indices \in Seq(Processes)
  BY DEF IInv, TypeOK
<1>6. /\ freed \in Seq(Locals) /\ IsInjective(freed)
      /\ Range(freed) = Range(free_indices[p]) \cup {index}
  <2>1. IsInjective(free_indices[p]) /\ free_indices[p] \in Seq(Locals)
    BY <1>3, <1>4, <1>5 DEF IInv, FreeOnce
  <2> HIDE DEF p, index
  <2> QED
    BY <1>3, <2>1, AppendToInjective
<1>7. /\ free_process_indices' \in Seq(Processes) /\ IsInjective(free_process_indices')
      /\ \/ free_process_indices' = free_process_indices
         \/ /\ Range(freed) = Locals
            /\ Range(free_process_indices') = Range(free_process_indices) \cup {p}
  <2>1. IsInjective(free_process_indices) /\ p \notin Range(free_process_indices)
    BY <1>3 DEF IInv, FreeOnce, LiveProcesses
  <2> HIDE DEF p, freed
  <2>2. CASE Len(freed) >= N_THREADS_PER_PROCESS
    <3>1. Range(freed) = Locals
      BY <1>6, <2>2, AllAreFree
    <3>2. /\ Append(free_process_indices, p) \in Seq(Processes)
          /\ IsInjective(Append(free_process_indices, p))
          /\ Range(Append(free_process_indices, p)) = Range(free_process_indices) \cup {p}
      BY <1>3, <1>5, <2>1, AppendToInjective
    <3> QED
      BY <1>1, <2>2, <3>1, <3>2
  <2>3. CASE ~(Len(freed) >= N_THREADS_PER_PROCESS)
    BY <1>1, <1>5, <2>1, <2>3
  <2> QED
    BY <2>2, <2>3
<1> HIDE DEF freed
<1>8. /\ free_indices'[p] = freed
      /\ \A r \in 0 .. N_PROCESSES : r # p => free_indices'[r] = free_indices[r]
      /\ free_indices' \in [0 .. N_PROCESSES -> Seq(Locals)]
  BY <1>1, <1>4, <1>5, <1>6
<1>9. /\ LiveProcesses' \subseteq LiveProcesses
      /\ \A r \in LiveProcesses : r # p => r \in LiveProcesses'
      /\ \A i \in Locals : i \notin Range(freed) => p \in LiveProcesses'
  BY <1>3, <1>7 DEF LiveProcesses
<1>10. ASSUME NEW t \in LiveThreads' PROVE t \in LiveThreads
  <2>1. /\ t \in Processes \X Locals /\ t[1] \in LiveProcesses'
        /\ t[2] \notin Range(free_indices'[t[1]])
    BY <1>10 DEF LiveThreads
  <2>2. t[1] \in Processes /\ t[2] \in Locals /\ t[1] \in LiveProcesses
    BY <1>9, <2>1
  <2>3. t[2] \notin Range(free_indices[t[1]])
    <3>1. CASE t[1] = p
      BY <1>6, <1>8, <2>1, <3>1
    <3>2. CASE t[1] # p
      BY <1>4, <1>8, <2>1, <2>2, <3>2
    <3> QED
      BY <3>1, <3>2
  <2> QED
    BY <2>1, <2>2, <2>3 DEF LiveThreads
<1>11. ASSUME NEW t \in LiveThreads, t # running PROVE t \in LiveThreads'
  <2>1. /\ t = <<t[1], t[2]>> /\ t[1] \in LiveProcesses /\ t[1] \in Processes /\ t[2] \in Locals
        /\ t[2] \notin Range(free_indices[t[1]])
    BY <1>11, LiveThreadType
  <2>2. t[1] \in LiveProcesses' /\ t[2] \notin Range(free_indices'[t[1]])
    <3>1. CASE t[1] = p
      <4>1. t[2] # index
        BY <1>3, <1>11, <2>1, <3>1
      <4>2. t[2] \notin Range(freed)
        BY <1>6, <2>1, <3>1, <4>1
      <4>3. p \in LiveProcesses'
        BY <1>9, <2>1, <4>2
      <4>4. t[1] \in LiveProcesses'
        BY <3>1, <4>3
      <4>5. free_indices'[t[1]] = freed
        BY <1>8, <3>1
      <4> QED
        BY <4>2, <4>4, <4>5
    <3>2. CASE t[1] # p
      BY <1>4, <1>8, <1>9, <2>1, <3>2
    <3> QED
      BY <3>1, <3>2
  <2> QED
    BY <2>1, <2>2 DEF LiveThreads
<1>12. TypeOK'
  <2>1. running' \in LiveThreads' \cup {NullThread}
    BY <1>1, <1>11
  <2>2. supplied' \subseteq LiveThreads'
    BY <1>1, <1>11 DEF IInv, TypeOK
  <2>3. mapped' \in 0 .. N_PROCESSES
    <3>1. CASE running' = NullThread
      BY <1>1, <1>4, <3>1 DEF NullThread
    <3>2. CASE running' \in LiveThreads
      BY <1>1, <1>4, <3>2, LiveThreadType
    <3> QED
      BY <1>1, <3>1, <3>2
  <2> QED
    BY <1>1, <1>7, <1>8, <2>1, <2>2, <2>3 DEF IInv, TypeOK
<1>13. FreeOnce'
  <2>1. ASSUME NEW r \in LiveProcesses' PROVE IsInjective(free_indices'[r])
    <3>1. r \in LiveProcesses /\ r \in 0 .. N_PROCESSES
      BY <1>4, <1>9 DEF LiveProcesses
    <3>2. CASE r = p
      BY <1>6, <1>8, <3>2
    <3>3. CASE r # p
      BY <1>8, <3>1, <3>3 DEF IInv, FreeOnce
    <3> QED
      BY <3>2, <3>3
  <2> QED
    BY <1>7, <2>1 DEF FreeOnce
<1>14. TablesFit'
  BY <1>1, <1>9, <1>10 DEF IInv, TablesFit
<1>15. PidsDiffer'
  BY <1>1, <1>9 DEF IInv, PidsDiffer
<1>16. MappingMatchesRunning' /\ CopiesHitMappedPages' /\ ImageIsSafe'
  BY <1>1 DEF IInv, MappingMatchesRunning, CopiesHitMappedPages, ImageIsSafe
<1> QED
  BY <1>9, <1>12, <1>13, <1>14, <1>15, <1>16 DEF IInv

\* What is live depends on the queues only.
LEMMA LiveUnchanged ==
  ASSUME UNCHANGED <<free_process_indices, free_indices>>
  PROVE  LiveProcesses' = LiveProcesses /\ LiveThreads' = LiveThreads
BY DEF LiveProcesses, LiveThreads

\* The scheduler switches to a live thread and its table.
LEMMA CycleKeeps ==
  ASSUME IInv, scheduler_cycle
  PROVE  IInv'
<1>1. /\ running' \in LiveThreads \cup {NullThread} /\ mapped' = running'[1]
      /\ UNCHANGED <<tables, memory, supplied, halted>>
  BY DEF scheduler_cycle, switch_context
<1>2. LiveProcesses' = LiveProcesses /\ LiveThreads' = LiveThreads
  BY <1>1, LiveUnchanged DEF tables
<1>3. mapped' \in 0 .. N_PROCESSES
  <2>1. CASE running' = NullThread
    <3>1. 0 \in 0 .. N_PROCESSES
      BY Parameters
    <3> QED
      BY <1>1, <2>1, <3>1 DEF NullThread
  <2>2. CASE running' \in LiveThreads
    <3>1. Processes \subseteq 0 .. N_PROCESSES
      BY Parameters DEF Processes
    <3> QED
      BY <1>1, <2>2, <3>1, LiveThreadType
  <2> QED
    BY <1>1, <2>1, <2>2
<1>4. TypeOK'
  BY <1>1, <1>2, <1>3 DEF IInv, TypeOK, tables
<1> QED
  BY <1>1, <1>2, <1>4 DEF IInv, tables, FreeOnce, TablesFit, PidsDiffer, MappingMatchesRunning,
                          CopiesHitMappedPages, ImageIsSafe

\* User code writes pages and nothing else, and the image only through the stack of
\* a late pid.
LEMMA WriteKeeps ==
  ASSUME IInv, user_write
  PROVE  IInv'
<1>1. /\ running # NullThread /\ running \in LiveThreads /\ halted = "no"
      /\ UNCHANGED <<tables, running, mapped>>
  BY DEF IInv, TypeOK, user_write
<1>2. LiveProcesses' = LiveProcesses /\ LiveThreads' = LiveThreads
  BY <1>1, LiveUnchanged DEF tables
<1>3. supplied' \subseteq LiveThreads
  BY <1>1 DEF IInv, TypeOK, user_write
<1>4. pid[running[1]] \in 0 .. MaxPid /\ running[2] \in 0 .. N_THREADS_PER_PROCESS
      /\ 0 \in 0 .. N_THREADS_PER_PROCESS
  <2>1. running[1] \in 0 .. N_PROCESSES
    BY <1>1, LiveThreadType, Parameters DEF Processes
  <2>2. running[2] \in 0 .. N_THREADS_PER_PROCESS /\ 0 \in 0 .. N_THREADS_PER_PROCESS
    BY <1>1, LiveThreadType, Parameters DEF Locals
  <2> QED
    BY <2>1, <2>2 DEF IInv, TypeOK
<1>5. memory' \in [PhysicalPages -> Contents]
  <2>1. <<pid[running[1]], 0>> \in Contents /\ <<pid[running[1]], running[2]>> \in Contents
    BY <1>4 DEF Contents
  <2>2. memory \in [PhysicalPages -> Contents]
    BY DEF IInv, TypeOK
  <2>3. \/ memory' = memory
        \/ \E v : \/ memory' = [memory EXCEPT ![v] = <<pid[running[1]], 0>>]
                  \/ memory' = [memory EXCEPT ![v] = <<pid[running[1]], running[2]>>]
    BY DEF user_write, Written
  <2> QED
    BY <2>1, <2>2, <2>3
<1>6. /\ halted' \in {"no", "overwritten"}
      /\ halted' = "overwritten" => pid_counter >= N_MB - BASE_MB
  <2>1. \/ halted' = halted
        \/ halted' = AfterWrite(l2_table[mapped], SpPage(running[2]))
    BY DEF user_write
  <2>2. l2_table[mapped][SpPage(running[2])][1] = Megabyte(pid[running[1]])
    <3>1. mapped = running[1] /\ l2_table[running[1]][SpPage(running[2])] = StackIn(pid, running)
      BY <1>1, PagesReached DEF IInv, MappingMatchesRunning
    <3> QED
      BY <3>1 DEF StackIn, StackFrame
  <2>3. pid[running[1]] <= pid_counter
    BY <1>1, LiveThreadType DEF IInv, PidsDiffer
  <2>4. pid_counter \in Nat
    BY DEF IInv, TypeOK
  <2>5. Megabyte(pid[running[1]]) < BASE_MB => pid[running[1]] >= N_MB - BASE_MB
    BY <1>4, OnlyLatePidsWrap
  <2>6. Megabyte(pid[running[1]]) < BASE_MB => pid_counter >= N_MB - BASE_MB
    BY <1>4, <2>3, <2>4, <2>5, Parameters
  <2> QED
    BY <1>1, <2>1, <2>2, <2>6 DEF AfterWrite
<1>7. TypeOK'
  BY <1>1, <1>2, <1>3, <1>5, <1>6 DEF IInv, TypeOK, tables
<1>8. ImageIsSafe'
  <2>1. pid_counter' = pid_counter /\ pid_counter \in Nat
    BY <1>1 DEF tables, IInv, TypeOK
  <2> QED
    BY <1>6, <2>1, Parameters DEF ImageIsSafe
<1>9. MappingMatchesRunning' /\ CopiesHitMappedPages'
  BY <1>1, <1>6 DEF IInv, MappingMatchesRunning, CopiesHitMappedPages
<1> QED
  BY <1>1, <1>2, <1>7, <1>8, <1>9 DEF IInv, tables, FreeOnce, TablesFit, PidsDiffer

\* Nothing happens.
LEMMA StutterKeeps ==
  ASSUME IInv, UNCHANGED vars
  PROVE  IInv'
<1>1. LiveProcesses' = LiveProcesses /\ LiveThreads' = LiveThreads
  BY LiveUnchanged DEF vars
<1> QED
  BY <1>1 DEF vars, IInv, TypeOK, FreeOnce, TablesFit, PidsDiffer, MappingMatchesRunning,
              CopiesHitMappedPages, ImageIsSafe

\* One step per action.
LEMMA StepKeepsInvariant == IInv /\ [Next]_vars => IInv'
<1> SUFFICES ASSUME IInv, [Next]_vars PROVE IInv'
  OBVIOUS
<1>1. CASE exec_syscall_fork
  <2>1. CASE kill_cur_thread
    BY <2>1, KillKeeps
  <2>2. CASE ~kill_cur_thread
    <3>1. PICK block \in Requests[running[2]] :
             block # Refused /\ pid_counter < MaxPid /\ process_create(block) /\ UNCHANGED running
      BY <1>1, <2>2 DEF exec_syscall_fork
    <3> QED
      BY <1>1, <3>1, CreateProcessKeeps DEF exec_syscall_fork
  <2> QED
    BY <2>1, <2>2
<1>2. CASE exec_syscall_create_thread
  BY <1>2, KillKeeps, CreateThreadKeeps
<1>3. CASE scheduler_cycle
  BY <1>3, CycleKeeps
<1>4. CASE kill_cur_thread
  BY <1>4, KillKeeps
<1>5. CASE user_write
  BY <1>5, WriteKeeps
<1>6. CASE kendless_loop
  BY <1>6, StutterKeeps DEF kendless_loop
<1>7. CASE UNCHANGED vars
  BY <1>7, StutterKeeps
<1> QED
  BY <1>1, <1>2, <1>3, <1>4, <1>5, <1>6, <1>7 DEF Next

\* The inductive invariant.
LEMMA Invariance == Spec => []IInv
BY InitEstablishes, StepKeepsInvariant, PTL DEF Spec

-----------------------------------------------------------------------------
(* Invariants.                                                              *)

\* Tables, queues and indices stay in their ranges and what runs is alive, for any
\* number of processes and threads (process.h, mmu.c:13).
THEOREM MemoryTypes == Spec => []TypeOK
<1>1. IInv => TypeOK
  BY DEF IInv
<1> QED
  BY <1>1, Invariance, PTL

\* User code runs under its own process's table, always: after every copy into another
\* process the caller's is back (process.c:37-39, thread.c:115-121).
THEOREM RunningTableIsLoaded == Spec => []MappingMatchesRunning
<1>1. IInv => MappingMatchesRunning
  BY DEF IInv
<1> QED
  BY <1>1, Invariance, PTL

\* No pointer and no size that pass verify_pointer make the kernel read or write a page that
\* is not mapped, but for sizes that are negative as signed numbers: for every size
\* of pages and stacks of which two stacks fit one page (calls.c:105-107, thread.c:113-119).
THEOREM NoCopyFaults == Spec => []CopiesHitMappedPages
<1>1. IInv => CopiesHitMappedPages
  BY DEF IInv
<1> QED
  BY <1>1, Invariance, PTL

\* Below every stack is a page that faults (mmu.c:329-336).
THEOREM GuardPages == Spec => []GuardPagesFault
<1>1. ASSUME IInv PROVE GuardPagesFault
  <2> SUFFICES ASSUME NEW t \in LiveThreads
               PROVE  /\ SpPage(t[2]) \in DOMAIN l2_table[t[1]]
                      /\ SpPage(t[2]) - 1 \notin DOMAIN l2_table[t[1]]
    BY DEF GuardPagesFault
  <2>1. t[2] \in Locals /\ t[1] \in LiveProcesses
    BY LiveThreadType
  <2>2. SpPage(t[2]) = StackPage(t[2])
    BY <2>1, StackPointerPage
  <2>3. StackPage(t[2]) \in DOMAIN l2_table[t[1]]
    BY <1>1 DEF IInv, TablesFit
  <2>4. DOMAIN l2_table[t[1]] \subseteq {0} \cup {StackPage(i) : i \in Locals}
    BY <1>1, <2>1 DEF IInv, TablesFit, Fits
  <2>5. StackPage(t[2]) - 1 \notin DOMAIN l2_table[t[1]]
    BY <2>1, <2>4, StackPages
  <2> QED
    BY <2>2, <2>3, <2>5
<1> QED
  BY <1>1, Invariance, PTL

\* What a table of live process p maps: its data page, or the stack of a thread.
LEMMA MappedPages ==
  ASSUME IInv, NEW p \in LiveProcesses, NEW v \in DOMAIN l2_table[p]
  PROVE  \/ v = 0 /\ l2_table[p][v] = <<Megabyte(p), 0>>
         \/ \E i \in Locals : v = StackPage(i) /\ l2_table[p][v] = <<Megabyte(pid[p]), i + 1>>
<1>1. Fits(l2_table[p], p, pid[p])
  BY DEF IInv, TablesFit
<1> QED
  BY <1>1 DEF Fits, StackFrame

\* Processes, and pids that are close, have megabytes of their own.
LEMMA OwnMegabytes ==
  ASSUME IInv, NEW p \in LiveProcesses, NEW r \in LiveProcesses, p # r
  PROVE  /\ Megabyte(p) # Megabyte(r)
         /\ PidsAreClose => Megabyte(pid[p]) # Megabyte(pid[r])
<1>1. p \in 1 .. N_PROCESSES /\ r \in 1 .. N_PROCESSES
  BY DEF LiveProcesses, Processes
<1>2. N_PROCESSES \in Nat /\ N_MB \in Nat /\ N_PROCESSES < N_MB
  BY Parameters
<1>3. Megabyte(p) # Megabyte(r)
  BY <1>1, <1>2, MegabytesDiffer
<1>4. ASSUME PidsAreClose PROVE Megabyte(pid[p]) # Megabyte(pid[r])
  <2>1. pid[p] \in Nat /\ pid[r] \in Nat
    BY <1>1, <1>2 DEF IInv, TypeOK
  <2>2. pid[p] - pid[r] < N_MB /\ pid[r] - pid[p] < N_MB
    BY <1>4 DEF PidsAreClose
  <2>3. pid[p] # pid[r]
    BY DEF IInv, PidsDiffer
  <2> QED
    BY <2>1, <2>2, <2>3, MegabytesDiffer
<1> QED
  BY <1>3, <1>4

\* Processes share no page of physical memory, nor with the null process, as long as
\* live pids are less than the memory apart (mmu.c:305-308).
THEOREM DisjointProcesses == Spec => []ProcessesAreDisjoint
<1>1. ASSUME IInv, PidsAreClose,
             NEW p \in LiveProcesses \cup {0}, NEW r \in LiveProcesses \cup {0}
      PROVE  IF p = r THEN IsInjective(l2_table[p])
             ELSE Range(l2_table[p]) \cap Range(l2_table[r]) = {}
  <2>1. /\ DOMAIN l2_table[0] = {StackPage(0)}
        /\ \A v \in DOMAIN l2_table[0] : l2_table[0][v] = <<Megabyte(0), 1>>
    <3>1. DOMAIN <<>> = {}
      OBVIOUS
    <3> QED
      BY <1>1, <3>1 DEF IInv, TablesFit, init_thread_memory, StackFrame
  <2>2. \A i \in Locals : i \in Nat /\ i + 1 # 0 /\ i + 1 # 1
    BY DEF Locals
  <2>3. CASE p = r /\ p = 0
    BY <2>1, <2>3 DEF IsInjective
  <2>4. CASE p = r /\ p \in LiveProcesses
    <3>1. ASSUME NEW v \in DOMAIN l2_table[p], NEW w \in DOMAIN l2_table[p],
                 l2_table[p][v] = l2_table[p][w]
          PROVE  v = w
      BY <1>1, <2>2, <2>4, <3>1, MappedPages
    <3> QED
      BY <2>4, <3>1 DEF IsInjective
  <2>5. CASE p # r
    <3>1. ASSUME NEW v \in DOMAIN l2_table[p], NEW w \in DOMAIN l2_table[r],
                 l2_table[p][v] = l2_table[r][w]
          PROVE  FALSE
      <4>1. CASE p = 0
        BY <1>1, <2>1, <2>2, <2>5, <3>1, <4>1, MappedPages
      <4>2. CASE r = 0
        BY <1>1, <2>1, <2>2, <2>5, <3>1, <4>2, MappedPages
      <4>3. CASE p \in LiveProcesses /\ r \in LiveProcesses
        <5>1. Megabyte(p) # Megabyte(r) /\ Megabyte(pid[p]) # Megabyte(pid[r])
          BY <1>1, <2>5, <4>3, OwnMegabytes
        <5>2. \/ v = 0 /\ l2_table[p][v] = <<Megabyte(p), 0>>
              \/ \E i \in Locals : l2_table[p][v] = <<Megabyte(pid[p]), i + 1>>
          BY <1>1, <4>3, MappedPages
        <5>3. \/ w = 0 /\ l2_table[r][w] = <<Megabyte(r), 0>>
              \/ \E i \in Locals : l2_table[r][w] = <<Megabyte(pid[r]), i + 1>>
          BY <1>1, <4>3, MappedPages
        <5> QED
          BY <2>2, <3>1, <5>1, <5>2, <5>3
      <4> QED
        BY <1>1, <4>1, <4>2, <4>3
    <3> QED
      BY <2>5, <3>1 DEF Range
  <2> QED
    BY <1>1, <2>3, <2>4, <2>5
<1>2. IInv => ProcessesAreDisjoint
  BY <1>1 DEF ProcessesAreDisjoint
<1> QED
  BY <1>2, Invariance, PTL

\* No process has a page of the image or of a device as long as pids have not grown to
\* the devices, and nothing is written over the image before they have wrapped, for any
\* amount of memory (mmu.c:325-328, thread.c:98).
THEOREM UsersStay == Spec => []UsersStayInTheirMemory
<1>1. ASSUME IInv, pid_counter < DEVICES_MB - BASE_MB,
             NEW p \in LiveProcesses \cup {0}, NEW v \in DOMAIN l2_table[p]
      PROVE  l2_table[p][v][1] \in UserMegabytes
  <2>1. CASE p = 0
    <3>1. l2_table[0][v] = StackFrame(0, 0)
      <4>1. DOMAIN <<>> = {}
        OBVIOUS
      <4> QED
        BY <1>1, <2>1, <4>1 DEF IInv, TablesFit, init_thread_memory
    <3>2. 0 \in 0 .. N_PROCESSES
      BY Parameters
    <3> QED
      BY <2>1, <3>1, <3>2, ProcessMegabytes DEF StackFrame
  <2>2. CASE p \in LiveProcesses
    <3>1. p \in 0 .. N_PROCESSES
      BY <2>2, Parameters DEF LiveProcesses, Processes
    <3>2. pid[p] \in Nat /\ pid_counter \in Nat /\ pid[p] <= pid_counter
      BY <1>1, <2>2, <3>1 DEF IInv, TypeOK, PidsDiffer
    <3>3. Megabyte(pid[p]) \in UserMegabytes
      <4>1. pid[p] < DEVICES_MB - BASE_MB /\ pid[p] < N_MB - BASE_MB
        BY <1>1, <3>2, Parameters
      <4>2. Megabyte(pid[p]) = BASE_MB + pid[p]
        BY <3>2, <4>1, MegabyteBelow
      <4> QED
        BY <3>2, <4>1, <4>2, Parameters DEF UserMegabytes
    <3>4. Megabyte(p) \in UserMegabytes
      BY <3>1, ProcessMegabytes
    <3> QED
      BY <1>1, <2>2, <3>3, <3>4, MappedPages
  <2> QED
    BY <1>1, <2>1, <2>2
<1>2. IInv => UsersStayInTheirMemory
  BY <1>1 DEF UsersStayInTheirMemory, IInv, ImageIsSafe, Range
<1> QED
  BY <1>2, Invariance, PTL

-----------------------------------------------------------------------------
(* What is written.                                                         *)

\* A stack that is kept.
InRam(n) == Megabyte(n) \in UserMegabytes

\* A step changes pages only by writing the data of a live process or the stack of a
\* live thread, in their own names.
WritesAreOwned ==
    \A x \in PhysicalPages :
        \/ memory'[x] = memory[x]
        \/ \E r \in LiveProcesses' : x = DataPage(r) /\ memory'[x] = <<pid'[r], 0>>
        \/ \E t \in LiveThreads' : x = StackIn(pid', t) /\ memory'[x] = <<pid'[t[1]], t[2]>>

\* Who is new has what it was created with.
NewIsWritten ==
    /\ \A p \in LiveProcesses' :
          \/ p \in LiveProcesses /\ pid[p] = pid'[p]
          \/ memory'[DataPage(p)] = <<pid'[p], 0>>
    /\ \A t \in supplied' : \/ t \in supplied
                           \/ ~InRam(pid'[t[1]])
                           \/ memory'[StackIn(pid', t)] = <<pid'[t[1]], t[2]>>

\* The arguments of thread i of process p, of pid n, are written, and nothing else after
\* mem, or are lost.
WritesStack(mem, p, n, i) ==
    /\ memory' = IF InRam(n) THEN [mem EXCEPT ![StackFrame(n, i)] = <<n, i>>] ELSE mem
    /\ supplied' = supplied \cup {<<p, i>>}

\* What thread_create writes: nothing, or the stack of the thread it has created.
LEMMA ThreadWrites ==
  ASSUME NEW p, NEW n, NEW table, NEW free \in Seq(Locals), IsInjective(free),
         NEW mem, NEW block, thread_create(p, n, table, free, mem, running[1], block)
  PROVE  \/ memory' = mem /\ supplied' = supplied
         \/ \E i \in Locals : WritesStack(mem, p, n, i)
<1>1. CASE free = <<>> /\ memory' = mem /\ UNCHANGED <<supplied, halted>>
  BY <1>1
<1>2. CASE free # <<>>
  <2> DEFINE i == Head(free)
             full == init_thread_memory(n, i, table)
             what == Written(mem, full, SpPage(i), <<n, i>>)
  <2>1. i \in Locals
    BY <1>2, TailOfInjective
  <2>2. \/ memory' = mem /\ supplied' = supplied
        \/ memory' = what /\ supplied' = supplied \cup {<<p, i>>}
    BY <1>2 DEF thread_create, CopyTable
  <2>3. full[SpPage(i)] = StackFrame(n, i)
    <3>1. SpPage(i) = StackPage(i)
      BY <2>1, StackPointerPage
    <3> QED
      BY <3>1 DEF init_thread_memory
  <2>4. what = IF InRam(n) THEN [mem EXCEPT ![StackFrame(n, i)] = <<n, i>>] ELSE mem
    <3> HIDE DEF full
    <3>1. full[SpPage(i)][1] = Megabyte(n)
      BY <2>3 DEF StackFrame
    <3> QED
      BY <2>3, <3>1 DEF Written, InRam
  <2> HIDE DEF i, what
  <2> QED
    BY <2>1, <2>2, <2>4 DEF WritesStack
<1> QED
  BY <1>1, <1>2 DEF thread_create

\* A step that writes nothing and creates nobody.
LEMMA NothingWritten ==
  ASSUME memory' = memory, supplied' \subseteq supplied, pid' = pid,
         LiveProcesses' \subseteq LiveProcesses
  PROVE  WritesAreOwned /\ NewIsWritten
BY DEF WritesAreOwned, NewIsWritten

\* The running thread writes its own data or its own stack.
LEMMA UserWrites ==
  ASSUME IInv, user_write
  PROVE  WritesAreOwned /\ NewIsWritten
<1> DEFINE p == running[1]
           i == running[2]
           own == [memory EXCEPT ![StackIn(pid, running)] = <<pid[p], i>>]
<1>1. /\ halted = "no" /\ running \in LiveThreads
      /\ UNCHANGED <<pid, free_process_indices, free_indices, running>>
  BY DEF IInv, TypeOK, user_write, tables
<1>2. p \in LiveProcesses /\ mapped = p /\ LiveProcesses' = LiveProcesses /\ LiveThreads' = LiveThreads
  BY <1>1, LiveThreadType, LiveUnchanged DEF IInv, MappingMatchesRunning
<1>3. /\ l2_table[p][0] = DataPage(p) /\ l2_table[p][SpPage(i)] = StackIn(pid, running)
      /\ DataPage(p) \in PhysicalPages /\ StackIn(pid, running) \in PhysicalPages
  BY <1>1, <1>2, PagesReached
<1>4. memory \in [PhysicalPages -> Contents]
  BY DEF IInv, TypeOK
<1>5. \/ memory' = [memory EXCEPT ![DataPage(p)] = <<pid[p], 0>>] /\ supplied' = supplied
      \/ /\ memory' = IF InRam(pid[p]) THEN own ELSE memory
         /\ supplied' = supplied \cup {running}
  <2>1. /\ \/ memory' = Written(memory, l2_table[p], 0, <<pid[p], 0>>) /\ supplied' = supplied
           \/ /\ memory' = Written(memory, l2_table[p], SpPage(i), <<pid[p], i>>)
              /\ supplied' = supplied \cup {running}
    BY <1>2 DEF user_write
  <2>2. l2_table[p][0][1] = Megabyte(p) /\ Megabyte(p) \in UserMegabytes
    <3>1. p \in 0 .. N_PROCESSES
      BY <1>2, Parameters DEF LiveProcesses, Processes
    <3> QED
      BY <1>3, <3>1, ProcessMegabytes DEF DataPage
  <2>3. l2_table[p][SpPage(i)][1] = Megabyte(pid[p])
    BY <1>3 DEF StackIn, StackFrame
  <2> QED
    BY <1>3, <2>1, <2>2, <2>3 DEF Written, InRam
<1>6. \A t : StackIn(pid', t) = StackIn(pid, t)
  BY <1>1 DEF StackIn
<1>7. CASE memory' = [memory EXCEPT ![DataPage(p)] = <<pid[p], 0>>] /\ supplied' = supplied
  <2>1. memory'[DataPage(p)] = <<pid'[p], 0>>
    BY <1>1, <1>3, <1>4, <1>7
  <2>2. \A x \in PhysicalPages : x # DataPage(p) => memory'[x] = memory[x]
    BY <1>4, <1>7
  <2> HIDE DEF p
  <2> QED
    BY <1>1, <1>2, <1>7, <2>1, <2>2 DEF WritesAreOwned, NewIsWritten
<1>8. CASE InRam(pid[p]) /\ memory' = own /\ supplied' = supplied \cup {running}
  <2>1. memory'[StackIn(pid', running)] = <<pid'[running[1]], running[2]>>
    BY <1>1, <1>3, <1>4, <1>6, <1>8
  <2>2. \A x \in PhysicalPages : x # StackIn(pid', running) => memory'[x] = memory[x]
    BY <1>4, <1>6, <1>8
  <2>3. WritesAreOwned
    <3>1. running \in LiveThreads'
      BY <1>1, <1>2
    <3> QED
      BY <2>1, <2>2, <3>1 DEF WritesAreOwned
  <2>4. NewIsWritten
    BY <1>1, <1>2, <1>6, <1>8, <2>1 DEF NewIsWritten
  <2> QED
    BY <2>3, <2>4
<1>9. CASE ~InRam(pid[p]) /\ memory' = memory /\ supplied' = supplied \cup {running}
  BY <1>1, <1>2, <1>9 DEF WritesAreOwned, NewIsWritten
<1> QED
  BY <1>5, <1>7, <1>8, <1>9

\* A creation writes the stack of the thread it has created, after what it has written before.
LEMMA CreationWrites ==
  ASSUME supplied' \subseteq LiveThreads', NEW p \in Processes, NEW n \in Nat, pid'[p] = n,
         NEW mem \in [PhysicalPages -> Contents], NEW i \in Locals,
         WritesStack(mem, p, n, i)
  PROVE  /\ <<p, i>> \in LiveThreads' /\ StackIn(pid', <<p, i>>) = StackFrame(n, i)
         /\ InRam(n) => memory'[StackFrame(n, i)] = <<n, i>>
         /\ ~InRam(n) => memory' = mem
         /\ \A x \in PhysicalPages : x # StackFrame(n, i) => memory'[x] = mem[x]
<1>1. <<p, i>> \in LiveThreads'
  BY DEF WritesStack
<1>2. StackIn(pid', <<p, i>>) = StackFrame(n, i)
  BY DEF StackIn
<1>3. StackFrame(n, i) \in PhysicalPages
  BY Frames
<1> QED
  BY <1>1, <1>2, <1>3 DEF WritesStack

\* create_thread writes the stack of the new thread.
LEMMA CreateThreadWrites ==
  ASSUME IInv, IInv', exec_syscall_create_thread, ~kill_cur_thread
  PROVE  WritesAreOwned /\ NewIsWritten
<1> DEFINE p == running[1]
           n == pid[p]
           free == free_indices[p]
<1>1. /\ running # NullThread /\ running \in LiveThreads
      /\ UNCHANGED <<pid_counter, pid, free_process_indices, running>>
  BY DEF IInv, TypeOK, exec_syscall_create_thread
<1>2. PICK block \in Requests[running[2]] :
         thread_create(p, n, l2_table[p], free, memory, running[1], block)
  BY DEF exec_syscall_create_thread, IInv, MappingMatchesRunning
<1>3. p \in LiveProcesses /\ p \in Processes /\ p \in 0 .. N_PROCESSES
  <2>1. p \in LiveProcesses /\ p \in Processes
    BY <1>1, LiveThreadType
  <2> QED
    BY <2>1, Parameters DEF Processes
<1>4. /\ n \in Nat /\ free \in Seq(Locals) /\ IsInjective(free)
      /\ memory \in [PhysicalPages -> Contents] /\ pid'[p] = n
  BY <1>1, <1>3 DEF IInv, TypeOK, FreeOnce
<1>5. LiveProcesses' = LiveProcesses
  BY <1>1 DEF LiveProcesses
<1> HIDE DEF p, n, free
<1>6. \/ memory' = memory /\ supplied' = supplied
      \/ \E i \in Locals : WritesStack(memory, p, n, i)
  BY <1>2, <1>4, ThreadWrites
<1>9. supplied' \subseteq LiveThreads'
  BY DEF IInv, TypeOK
<1>7. CASE memory' = memory /\ supplied' = supplied
  BY <1>1, <1>5, <1>7, NothingWritten
<1>8. ASSUME NEW i \in Locals, WritesStack(memory, p, n, i)
      PROVE  WritesAreOwned /\ NewIsWritten
  <2> DEFINE t == <<p, i>>
  <2>1. /\ t \in LiveThreads' /\ StackIn(pid', t) = StackFrame(n, i)
        /\ InRam(n) => memory'[StackFrame(n, i)] = <<n, i>>
        /\ ~InRam(n) => memory' = memory
        /\ \A x \in PhysicalPages : x # StackFrame(n, i) => memory'[x] = memory[x]
    BY <1>3, <1>4, <1>8, <1>9, CreationWrites
  <2>2. /\ InRam(pid'[t[1]]) => memory'[StackIn(pid', t)] = <<pid'[t[1]], t[2]>>
        /\ ~InRam(pid'[t[1]]) => memory' = memory
    BY <1>4, <2>1
  <2>3. supplied' = supplied \cup {t} /\ \A x \in PhysicalPages : x # StackIn(pid', t) => memory'[x] = memory[x]
    BY <1>8, <2>1 DEF WritesStack
  <2>4. t \in LiveThreads'
    BY <2>1
  <2> HIDE DEF t
  <2>5. WritesAreOwned
    BY <2>2, <2>3, <2>4 DEF WritesAreOwned
  <2>6. NewIsWritten
    BY <1>1, <1>5, <2>2, <2>3 DEF NewIsWritten
  <2> QED
    BY <2>5, <2>6
<1> QED
  BY <1>6, <1>7, <1>8

\* fork writes the data of the new process and the stack of its first thread.
LEMMA CreateProcessWrites ==
  ASSUME IInv, IInv', NEW block \in Requests[running[2]], process_create(block)
  PROVE  WritesAreOwned /\ NewIsWritten
<1> DEFINE p == Head(free_process_indices)
           n == pid_counter + 1
           all == [k \in 1 .. N_THREADS_PER_PROCESS |-> k]
           mem == [memory EXCEPT ![DataPage(p)] = <<n, 0>>]
<1>1. CASE free_process_indices = <<>>
  <2>1. UNCHANGED <<pid, free_process_indices, memory, supplied>>
    BY <1>1 DEF process_create
  <2> QED
    BY <2>1, NothingWritten DEF LiveProcesses
<1>2. CASE free_process_indices # <<>>
  <2>1. /\ p \in Processes /\ free_process_indices' = Tail(free_process_indices)
        /\ Range(free_process_indices') = Range(free_process_indices) \ {p}
        /\ pid' = [pid EXCEPT ![p] = n]
    BY <1>2, TailOfInjective DEF IInv, TypeOK, FreeOnce, process_create
  <2>2. /\ p \in 0 .. N_PROCESSES /\ n \in Nat
        /\ n = pid_counter' /\ n \in 0 .. MaxPid
        /\ memory \in [PhysicalPages -> Contents] /\ DOMAIN pid = 0 .. N_PROCESSES
    BY <2>1, Parameters DEF Processes, IInv, TypeOK, process_create
  <2>3. LiveProcesses' = LiveProcesses \cup {p}
    BY <2>1 DEF LiveProcesses
  <2>4. thread_create(p, n, init_process_memory(p), all, mem, running[1], block)
    <3>1. init_process_memory(p)[0] = DataPage(p)
      BY DEF init_process_memory, DataPage
    <3>2. init_process_memory(p)[0][1] \in UserMegabytes
      BY <2>2, <3>1, ProcessMegabytes DEF DataPage
    <3>3. mem = Written(memory, init_process_memory(p), 0, <<n, 0>>)
      BY <3>1, <3>2 DEF Written
    <3> HIDE DEF mem
    <3> QED
      BY <1>2, <3>3 DEF process_create, CopyTable, MappedAfterData
  <2>5. all \in Seq(Locals) /\ IsInjective(all)
    BY AllIndices
  <2>6. /\ DataPage(p) \in PhysicalPages
        /\ \A i \in Locals : StackFrame(n, i) # DataPage(p)
    <3>1. p \in Nat /\ \A i \in Locals : i + 1 # 0
      BY <2>2 DEF Locals
    <3> QED
      BY <3>1, Frames DEF DataPage, StackFrame
  <2>7. mem \in [PhysicalPages -> Contents]
    <3>1. <<n, 0>> \in Contents
      <4>1. 0 \in 0 .. N_THREADS_PER_PROCESS
        BY Parameters
      <4> QED
        BY <2>2, <4>1 DEF Contents
    <3> HIDE DEF n
    <3> QED
      BY <2>2, <3>1
  <2>8. mem[DataPage(p)] = <<n, 0>> /\ \A x \in PhysicalPages : x # DataPage(p) => mem[x] = memory[x]
    BY <2>2, <2>6
  <2>9. pid'[p] = n /\ \A r \in LiveProcesses : r # p => pid'[r] = pid[r]
    <3>1. \A r \in LiveProcesses : r \in 0 .. N_PROCESSES
      BY Parameters DEF LiveProcesses, Processes
    <3> QED
      BY <2>1, <2>2, <3>1
  <2> HIDE DEF p, n, all, mem
  <2>10. \/ memory' = mem /\ supplied' = supplied
         \/ \E i \in Locals : WritesStack(mem, p, n, i)
    BY <2>4, <2>5, ThreadWrites
  <2>11. CASE memory' = mem /\ supplied' = supplied
    <3>1. WritesAreOwned
      BY <2>3, <2>8, <2>9, <2>11 DEF WritesAreOwned
    <3>2. NewIsWritten
      BY <2>3, <2>8, <2>9, <2>11 DEF NewIsWritten
    <3> QED
      BY <3>1, <3>2
  <2>12. ASSUME NEW i \in Locals, WritesStack(mem, p, n, i)
         PROVE  WritesAreOwned /\ NewIsWritten
    <3> DEFINE t == <<p, i>>
    <3>0. /\ supplied' \subseteq LiveThreads' /\ p \in Processes /\ n \in Nat /\ pid'[p] = n
          /\ mem \in [PhysicalPages -> Contents] /\ WritesStack(mem, p, n, i)
      BY <2>1, <2>2, <2>7, <2>9, <2>12 DEF IInv, TypeOK
    <3>1. /\ t \in LiveThreads' /\ StackIn(pid', t) = StackFrame(n, i)
          /\ InRam(n) => memory'[StackFrame(n, i)] = <<n, i>>
          /\ ~InRam(n) => memory' = mem
          /\ \A x \in PhysicalPages : x # StackFrame(n, i) => memory'[x] = mem[x]
      BY <3>0, CreationWrites
    <3>2. /\ InRam(pid'[t[1]]) => memory'[StackIn(pid', t)] = <<pid'[t[1]], t[2]>>
          /\ ~InRam(pid'[t[1]]) => memory' = mem
      BY <2>9, <3>1
    <3>3. memory'[DataPage(p)] = <<pid'[p], 0>>
      BY <2>6, <2>8, <2>9, <3>1
    <3>4. /\ supplied' = supplied \cup {t} /\ t \in LiveThreads'
          /\ \A x \in PhysicalPages : x # StackIn(pid', t) /\ x # DataPage(p) => memory'[x] = memory[x]
      BY <2>8, <2>12, <3>1 DEF WritesStack
    <3>7. ~InRam(pid'[t[1]]) =>
             \A x \in PhysicalPages : x # DataPage(p) => memory'[x] = memory[x]
      BY <2>8, <3>2
    <3> HIDE DEF t
    <3>5. WritesAreOwned
      BY <2>3, <3>2, <3>3, <3>4, <3>7 DEF WritesAreOwned
    <3>6. NewIsWritten
      BY <2>3, <2>9, <3>2, <3>3, <3>4 DEF NewIsWritten
    <3> QED
      BY <3>5, <3>6
  <2> QED
    BY <2>10, <2>11, <2>12
<1> QED
  BY <1>1, <1>2

\* One step per action.
LEMMA StepWrites == IInv /\ IInv' /\ [Next]_vars => WritesAreOwned /\ NewIsWritten
<1> SUFFICES ASSUME IInv, IInv', [Next]_vars PROVE WritesAreOwned /\ NewIsWritten
  OBVIOUS
<1>1. CASE kill_cur_thread
  <2>1. memory' = memory /\ pid' = pid /\ supplied' \subseteq supplied
    BY <1>1 DEF kill_cur_thread
  <2> QED
    BY <1>1, <2>1, KillKeeps, NothingWritten
<1>2. CASE exec_syscall_fork /\ ~kill_cur_thread
  BY <1>2, CreateProcessWrites DEF exec_syscall_fork
<1>3. CASE exec_syscall_create_thread /\ ~kill_cur_thread
  BY <1>3, CreateThreadWrites
<1>4. CASE scheduler_cycle
  BY <1>4, LiveUnchanged, NothingWritten DEF scheduler_cycle, tables
<1>5. CASE user_write
  BY <1>5, UserWrites
<1>6. CASE UNCHANGED vars
  BY <1>6, LiveUnchanged, NothingWritten DEF vars
<1> QED
  BY <1>1, <1>2, <1>3, <1>4, <1>5, <1>6 DEF Next, kendless_loop
\* What a state with the invariant is for those pages: they are physical pages, reached
\* through the tables, and no other process's.
PagesAreOwn ==
    /\ \A p \in LiveProcesses : l2_table[p][0] = DataPage(p) /\ DataPage(p) \in PhysicalPages
    /\ \A t \in LiveThreads : /\ l2_table[t[1]][SpPage(t[2])] = StackIn(pid, t)
                              /\ StackIn(pid, t) \in PhysicalPages
                              /\ t[1] \in LiveProcesses /\ t[2] \in Locals
                              /\ t = <<t[1], t[2]>>
    /\ supplied \subseteq LiveThreads
    /\ \A p, r \in LiveProcesses : Megabyte(p) = Megabyte(r) => p = r
    /\ PidsAreClose =>
          \A p, r \in LiveProcesses : Megabyte(pid[p]) = Megabyte(pid[r]) => p = r

\* The invariant gives those facts.
LEMMA PagesOwned == IInv => PagesAreOwn
<1> SUFFICES ASSUME IInv PROVE PagesAreOwn
  OBVIOUS
<1>1. \A p, r \in LiveProcesses : Megabyte(p) = Megabyte(r) => p = r
  BY OwnMegabytes
<1>2. PidsAreClose =>
         \A p, r \in LiveProcesses : Megabyte(pid[p]) = Megabyte(pid[r]) => p = r
  BY OwnMegabytes
<1>3. supplied \subseteq LiveThreads
  BY DEF IInv, TypeOK
<1>4. \A t \in LiveThreads : t[1] \in LiveProcesses /\ t[2] \in Locals /\ t = <<t[1], t[2]>>
  BY LiveThreadType
<1> QED
  BY <1>1, <1>2, <1>3, <1>4, PagesReached DEF PagesAreOwn

\* The page of some process's data is not that of a stack.
LEMMA DataIsNoStack ==
  ASSUME NEW p, NEW pids, NEW t, t[2] \in Locals
  PROVE  DataPage(p) # StackIn(pids, t)
<1>1. t[2] + 1 # 0
  BY DEF Locals
<1> QED
  BY <1>1 DEF DataPage, StackIn, StackFrame

\* What the data page of a process holds is the process's own doing, or its creation's,
\* however many others there are or have been (process.c:36-39).
THEOREM DataIsKept == Spec => DataSurvives
<1> DEFINE Kept == \A p \in LiveProcesses' :
                      LET held == memory'[l2_table'[p][0]]
                      IN  \/ held = <<pid'[p], 0>>
                          \/ /\ p \in LiveProcesses /\ pid[p] = pid'[p]
                             /\ held = memory[l2_table[p][0]]
<1>1. PagesAreOwn /\ PagesAreOwn' /\ WritesAreOwned /\ NewIsWritten => Kept
  <2> SUFFICES ASSUME PagesAreOwn, PagesAreOwn', WritesAreOwned, NewIsWritten,
                      NEW p \in LiveProcesses'
               PROVE  \/ memory'[l2_table'[p][0]] = <<pid'[p], 0>>
                      \/ /\ p \in LiveProcesses /\ pid[p] = pid'[p]
                         /\ memory'[l2_table'[p][0]] = memory[l2_table[p][0]]
    OBVIOUS
  <2>1. l2_table'[p][0] = DataPage(p) /\ DataPage(p) \in PhysicalPages
    BY DEF PagesAreOwn
  <2>2. CASE memory'[DataPage(p)] = memory[DataPage(p)]
    <3>1. \/ p \in LiveProcesses /\ pid[p] = pid'[p] /\ l2_table[p][0] = DataPage(p)
          \/ memory'[DataPage(p)] = <<pid'[p], 0>>
      BY DEF PagesAreOwn, NewIsWritten
    <3> QED
      BY <2>1, <2>2, <3>1
  <2>3. ASSUME NEW r \in LiveProcesses', DataPage(p) = DataPage(r),
               memory'[DataPage(p)] = <<pid'[r], 0>>
        PROVE  memory'[DataPage(p)] = <<pid'[p], 0>>
    <3>1. Megabyte(p) = Megabyte(r)
      BY <2>3 DEF DataPage
    <3>2. p = r
      BY <3>1 DEF PagesAreOwn
    <3> QED
      BY <2>3, <3>2
  <2>4. ASSUME NEW t \in LiveThreads', DataPage(p) = StackIn(pid', t)
        PROVE  FALSE
    <3>1. t[2] \in Locals
      BY DEF PagesAreOwn
    <3> QED
      BY <2>4, <3>1, DataIsNoStack
  <2> QED
    BY <2>1, <2>2, <2>3, <2>4 DEF WritesAreOwned
<1>2. IInv /\ IInv' /\ PagesAreOwn /\ PagesAreOwn' /\ [Next]_vars => [Kept]_vars
  BY <1>1, StepWrites
<1> QED
  BY <1>2, PagesOwned, Invariance, PTL DEF Spec, DataSurvives

\* What the stack page of a thread holds once it has its arguments is the thread's own
\* doing, or its creation's, as long as the page is one of the processes' memory: the
\* arguments arrive (thread.c:111-122).
THEOREM StacksAreKept == Spec => StacksSurvive
<1> DEFINE Kept == PidsAreClose' => \A t \in supplied' :
                      LET page == l2_table'[t[1]][SpPage(t[2])]
                      IN  page[1] \in UserMegabytes =>
                             \/ memory'[page] = <<pid'[t[1]], t[2]>>
                             \/ t \in supplied /\ memory'[page] = memory[page]
<1>1. PagesAreOwn /\ PagesAreOwn' /\ WritesAreOwned /\ NewIsWritten => Kept
  <2> SUFFICES ASSUME PagesAreOwn, PagesAreOwn', WritesAreOwned, NewIsWritten,
                      PidsAreClose', NEW t \in supplied'
               PROVE  LET page == l2_table'[t[1]][SpPage(t[2])]
                      IN  page[1] \in UserMegabytes =>
                             \/ memory'[page] = <<pid'[t[1]], t[2]>>
                             \/ t \in supplied /\ memory'[page] = memory[page]
    OBVIOUS
  <2> DEFINE page == StackIn(pid', t)
  <2>1. /\ t \in LiveThreads' /\ page \in PhysicalPages
        /\ l2_table'[t[1]][SpPage(t[2])] = page
        /\ t[1] \in LiveProcesses' /\ t[2] \in Locals /\ t = <<t[1], t[2]>>
    BY DEF PagesAreOwn
  <2>2. page[1] \in UserMegabytes => t \in supplied \/ memory'[page] = <<pid'[t[1]], t[2]>>
    <3>1. page[1] = Megabyte(pid'[t[1]])
      BY DEF StackIn, StackFrame
    <3> QED
      BY <3>1 DEF NewIsWritten, InRam
  <2>3. ASSUME NEW r \in LiveProcesses', page = DataPage(r)
        PROVE  FALSE
    BY <2>1, <2>3, DataIsNoStack
  <2>4. ASSUME NEW u \in LiveThreads', page = StackIn(pid', u)
        PROVE  t = u
    <3>1. u[1] \in LiveProcesses' /\ u[2] \in Locals /\ u = <<u[1], u[2]>>
      BY DEF PagesAreOwn
    <3>2. Megabyte(pid'[t[1]]) = Megabyte(pid'[u[1]]) /\ t[2] + 1 = u[2] + 1
      BY <2>4 DEF StackIn, StackFrame
    <3>3. t[1] = u[1]
      BY <2>1, <3>1, <3>2 DEF PagesAreOwn
    <3>4. t[2] = u[2]
      BY <2>1, <3>1, <3>2 DEF Locals
    <3> QED
      BY <2>1, <3>1, <3>3, <3>4
  <2>5. \/ memory'[page] = memory[page]
        \/ \E r \in LiveProcesses' : page = DataPage(r)
        \/ \E u \in LiveThreads' : page = StackIn(pid', u) /\ memory'[page] = <<pid'[u[1]], u[2]>>
    BY <2>1 DEF WritesAreOwned
  <2>6. memory'[page] = memory[page] \/ memory'[page] = <<pid'[t[1]], t[2]>>
    BY <2>3, <2>4, <2>5
  <2> HIDE DEF page
  <2> QED
    BY <2>1, <2>2, <2>6
<1>2. IInv /\ IInv' /\ PagesAreOwn /\ PagesAreOwn' /\ [Next]_vars => [Kept]_vars
  BY <1>1, StepWrites
<1> QED
  BY <1>2, PagesOwned, Invariance, PTL DEF Spec, StacksSurvive
=============================================================================
