-------------------------- MODULE Scheduler_proofs --------------------------
(***************************************************************************)
(* What holds of the scheduler for every number of processes and threads,  *)
(* every buffer size and every layout of stack frames.                     *)
(*                                                                         *)
(* The first part is about every behaviour: also after a thread was        *)
(* requeued under the wrong index and after an array of free indices was   *)
(* overwritten.  The second part says where threads and their indices are  *)
(* as long as the kernel runs and neither of the two has happened: every   *)
(* thread is in one place, and the free indices of a process are those of  *)
(* no thread.                                                              *)
(*                                                                         *)
(* The third part is about what the handlers do, with the accounts at      *)
(* hand: the steps of ThreadLifecycle.                                     *)
(***************************************************************************)
EXTENDS Scheduler, IndexRing_proofs, Sequences_proofs

\* Every tcb a thread was ever created in names a process that was created,
\* so that kill_cur_thread and thread_create can follow its pointers.
Backed(tcbs, pcbs) ==
    \A t \in 0 .. N_THREADS : tcbs[t].index # 0 =>
        /\ tcbs[t].process \in Processes
        /\ pcbs[tcbs[t].process].indices \in Frames

TcbsBacked == Backed(threads, processes)

\* The thread that runs was created.
RunningWasCreated ==
    Running /\ running_thread # NullThread => threads[running_thread].index # 0

IInv == /\ TypeOK
        /\ ContextMatchesRunning
        /\ CharWaitersMeanEmptyBuffer
        /\ TcbsBacked
        /\ RunningWasCreated

-----------------------------------------------------------------------------
(* The parameters.                                                          *)

LEMMA Parameters ==
  /\ N_PROCESSES \in Nat /\ N_PROCESSES > 0
  /\ N_THREADS_PER_PROCESS \in Nat /\ N_THREADS_PER_PROCESS > 0
  /\ UART_INPUT_BUFFER_SIZE \in Nat
  /\ NoFrame \notin Frames
  /\ SIZE_T \in Nat
  /\ N_THREADS \in Nat /\ N_THREADS > 0
  /\ N_THREADS < SIZE_T /\ SIZE_T > 0
  /\ Durations \subseteq 0 .. SIZE_T - 1
<1>1. /\ N_PROCESSES \in Nat /\ N_PROCESSES > 0
      /\ N_THREADS_PER_PROCESS \in Nat /\ N_THREADS_PER_PROCESS > 0
      /\ N_THREADS < SIZE_T /\ SIZE_T \in Nat
  BY ConfigAssumption DEF N_THREADS
<1>2. N_THREADS \in Nat /\ N_THREADS > 0
  BY <1>1 DEF N_THREADS
<1> QED
  BY <1>1, <1>2, ConfigAssumption

\* An index in a process is small enough to be one of a tcb.
LEMMA LocalsAreThreads == Locals \subseteq Threads
<1>1. N_THREADS_PER_PROCESS <= N_PROCESSES * N_THREADS_PER_PROCESS
  BY Parameters
<1> QED
  BY <1>1, Parameters DEF Locals, Threads, N_THREADS

-----------------------------------------------------------------------------
(* Queues.                                                                  *)

LEMMA BoundedIntro ==
  ASSUME NEW size \in Nat, NEW s \in Seq(1 .. size), Len(s) <= size
  PROVE  s \in BoundedQueue(size)
  BY DEF BoundedQueue

LEMMA BoundedElim ==
  ASSUME NEW size \in Nat, NEW s \in BoundedQueue(size)
  PROVE  s \in Seq(1 .. size) /\ Len(s) <= size /\ Len(s) \in Nat
  BY LenProperties DEF BoundedQueue

LEMMA PushBounded ==
  ASSUME NEW size \in Nat, NEW s \in BoundedQueue(size), NEW index
  PROVE  PushIndex(s, index, size) \in BoundedQueue(size)
<1> DEFINE S == 1 .. size
<1>1. s \in Seq(S) /\ Len(s) <= size /\ Len(s) \in Nat
  BY BoundedElim
<1>2. CASE CanPush(s, index, size)
  <2>1. index \in S /\ Len(s) < size
    BY <1>2 DEF CanPush
  <2> HIDE DEF S
  <2>2. Append(s, index) \in Seq(S) /\ Len(Append(s, index)) = Len(s) + 1
    BY <1>1, <2>1, AppendProperties
  <2>3. Append(s, index) \in Seq(S) /\ Len(Append(s, index)) <= size
    BY <1>1, <2>1, <2>2
  <2>4. Append(s, index) \in BoundedQueue(size)
    BY <2>3, BoundedIntro DEF S
  <2> QED
    BY <1>2, <2>4 DEF PushIndex
<1>3. CASE ~CanPush(s, index, size)
  BY <1>3 DEF PushIndex
<1> QED
  BY <1>2, <1>3

LEMMA TailBounded ==
  ASSUME NEW size \in Nat, NEW s \in BoundedQueue(size), s # <<>>
  PROVE  /\ Tail(s) \in BoundedQueue(size)
         /\ Len(Tail(s)) < size
         /\ Head(s) \in 1 .. size
<1> DEFINE S == 1 .. size
<1>1. s \in Seq(S) /\ Len(s) <= size /\ Len(s) \in Nat
  BY BoundedElim
<1> HIDE DEF S
<1>2. Head(s) \in S /\ Tail(s) \in Seq(S) /\ Len(Tail(s)) = Len(s) - 1
  BY <1>1, HeadTailProperties
<1>3. Len(Tail(s)) < size /\ Len(Tail(s)) <= size
  BY <1>1, <1>2
<1> QED
  BY <1>2, <1>3, BoundedIntro DEF S

\* The queues have room for what is put back after a pop.
LEMMA RotatedBounded ==
  ASSUME NEW size \in Nat, NEW s \in BoundedQueue(size), s # <<>>, NEW index \in 1 .. size
  PROVE  /\ CanPush(Tail(s), index, size)
         /\ Append(Tail(s), index) \in BoundedQueue(size)
<1>1. Tail(s) \in BoundedQueue(size) /\ Len(Tail(s)) < size
  BY TailBounded
<1>2. CanPush(Tail(s), index, size)
  BY <1>1 DEF CanPush
<1> QED
  BY <1>1, <1>2, PushBounded DEF PushIndex

LEMMA SubSeqBounded ==
  ASSUME NEW size \in Nat, NEW s \in Seq(1 .. size), NEW m \in Nat, NEW n \in Nat,
         m >= 1, n <= Len(s), n <= size
  PROVE  /\ SubSeq(s, m, n) \in BoundedQueue(size)
         /\ Len(SubSeq(s, m, n)) = IF m <= n THEN n - m + 1 ELSE 0
<1> DEFINE S == 1 .. size
           t == SubSeq(s, m, n)
<1>1. Len(s) \in Nat
  BY LenProperties
<1>2. ASSUME NEW i \in m .. n PROVE s[i] \in S
  BY <1>1, <1>2, ElementOfSeq
<1> HIDE DEF S
<1>3. t \in Seq(S) /\ Len(t) = IF m <= n THEN n - m + 1 ELSE 0
  BY <1>2, SubSeqProperties
<1> HIDE DEF t
<1>4. Len(t) <= size
  BY <1>3
<1>5. t \in BoundedQueue(size)
  BY <1>3, <1>4, BoundedIntro DEF S
<1> QED
  BY <1>3, <1>5 DEF t
-----------------------------------------------------------------------------
(* decrement_waits.                                                         *)

LEMMA CountsAreBounded ==
  ASSUME NEW k \in Nat, NEW T \in SUBSET (1 .. k)
  PROVE  Cardinality(T) \in 0 .. k
<1>1. IsFiniteSet(1 .. k) /\ Cardinality(1 .. k) = k
  BY FS_Interval
<1>2. IsFiniteSet(T) /\ Cardinality(T) <= k
  BY <1>1, FS_Subset
<1>3. Cardinality(T) \in Nat
  BY <1>2, FS_CardinalityType
<1> QED
  BY <1>2, <1>3

\* The woken threads are a prefix of the sleepers, and what is left of both
\* queues fits their arrays.
LEMMA WakingBounded ==
  ASSUME sleep_waiting \in BoundedQueue(N_THREADS), thread_indices \in BoundedQueue(N_THREADS)
  PROVE  /\ WithWoken \in BoundedQueue(N_THREADS)
         /\ SubSeq(sleep_waiting, Len(Woken) + 1, Len(sleep_waiting)) \in BoundedQueue(N_THREADS)
<1> DEFINE s == sleep_waiting
           S == 1 .. N_THREADS
           due == DueUpTo(Len(s))
           all == thread_indices \o Woken
<1>1. s \in Seq(S) /\ Len(s) <= N_THREADS /\ Len(s) \in Nat
  BY BoundedElim, Parameters
<1>2. due \in 0 .. Len(s)
  BY <1>1, CountsAreBounded DEF DueUpTo
<1>3. Woken \in BoundedQueue(N_THREADS) /\ Len(Woken) \in 0 .. Len(s)
  <2> HIDE DEF due
  <2>1. due \in Nat /\ due <= Len(s) /\ due <= N_THREADS
    BY <1>1, <1>2, Parameters
  <2>2. SubSeq(s, 1, due) \in BoundedQueue(N_THREADS) /\ Len(SubSeq(s, 1, due)) = IF 1 <= due THEN due - 1 + 1 ELSE 0
    BY <1>1, <2>1, SubSeqBounded, Parameters
  <2>3. Woken = SubSeq(s, 1, due)
    BY DEF Woken, due
  <2> QED
    BY <1>1, <1>2, <2>1, <2>2, <2>3
<1>4. SubSeq(s, Len(Woken) + 1, Len(s)) \in BoundedQueue(N_THREADS)
  <2>1. Len(Woken) + 1 \in Nat /\ Len(Woken) + 1 >= 1
    BY <1>1, <1>3
  <2> QED
    BY <1>1, <2>1, SubSeqBounded, Parameters
<1>5. WithWoken \in BoundedQueue(N_THREADS)
  <2>1. Woken \in Seq(S) /\ thread_indices \in Seq(S)
    BY <1>3, BoundedElim, Parameters
  <2>2. all \in Seq(S)
    <3> HIDE DEF S
    <3> QED
      BY <2>1, ConcatProperties
  <2> HIDE DEF all
  <2>3. Len(all) \in Nat
    BY <2>2, LenProperties
  <2>4. WithWoken = IF Len(all) <= N_THREADS THEN all ELSE SubSeq(all, 1, N_THREADS)
    BY DEF WithWoken, all
  <2>5. CASE Len(all) <= N_THREADS
    BY <2>2, <2>4, <2>5, BoundedIntro, Parameters
  <2>6. CASE ~(Len(all) <= N_THREADS)
    <3>1. SubSeq(all, 1, N_THREADS) \in BoundedQueue(N_THREADS)
      BY <2>2, <2>3, <2>6, SubSeqBounded, Parameters
    <3> QED
      BY <2>4, <2>6, <3>1
  <2> QED
    BY <2>5, <2>6
<1> QED
  BY <1>4, <1>5

\* The durations stay numbers of type size_t and no other field changes.
LEMMA DecrementedTcbs ==
  ASSUME threads \in [0 .. N_THREADS -> Tcb], sleep_waiting \in BoundedQueue(N_THREADS)
  PROVE  /\ Decremented \in [0 .. N_THREADS -> Tcb]
         /\ \A t \in 0 .. N_THREADS : /\ Decremented[t].index = threads[t].index
                                      /\ Decremented[t].process = threads[t].process
<1> DEFINE n == Len(sleep_waiting)
           left(t) == (threads[t].waiting_duration - Occurrences(t, n)) % SIZE_T
<1>1. n \in Nat
  BY BoundedElim, Parameters
<1>2. ASSUME NEW t \in 0 .. N_THREADS PROVE left(t) \in 0 .. SIZE_T - 1
  <2>1. Occurrences(t, n) \in 0 .. n
    BY <1>1, CountsAreBounded DEF Occurrences
  <2>2. threads[t].waiting_duration \in Int
    BY DEF Tcb
  <2>3. threads[t].waiting_duration - Occurrences(t, n) \in Int
    BY <1>1, <2>1, <2>2
  <2> QED
    BY <2>3, Parameters
<1> HIDE DEF n
<1>3. Decremented = [t \in 0 .. N_THREADS |-> [threads[t] EXCEPT !.waiting_duration = left(t)]]
  BY DEF Decremented, n
<1> HIDE DEF left
<1>4. ASSUME NEW t \in 0 .. N_THREADS
      PROVE  /\ [threads[t] EXCEPT !.waiting_duration = left(t)] \in Tcb
             /\ [threads[t] EXCEPT !.waiting_duration = left(t)].index = threads[t].index
             /\ [threads[t] EXCEPT !.waiting_duration = left(t)].process = threads[t].process
  BY <1>2, <1>4 DEF Tcb
<1> QED
  BY <1>3, <1>4

-----------------------------------------------------------------------------
(* scheduler_cycle.                                                         *)

LEMMA LoadedKeeps ==
  ASSUME Running, NEW t, Loaded(t)
  PROVE  /\ cpu' = t
         /\ halt' \in Halts
         /\ halt' = "none" /\ t # NullThread => threads[t].index # 0
  BY DEF Running, Loaded, Halts

LEMMA PreemptedKeeps ==
  ASSUME defects \in SUBSET Defects, NEW t, Preempted(t)
  PROVE  defects' \in SUBSET Defects
  BY DEF Preempted, Defects

\* Whatever is loaded when scheduler_cycle ends is running_thread and was
\* created, and the ready queue still fits its array.
LEMMA CycleKeeps ==
  ASSUME TypeOK, Running, NEW ready \in BoundedQueue(N_THREADS), NEW old \in 0 .. N_THREADS,
         old # NullThread => threads[old].index # 0,
         Cycle(ready, old, old)
  PROVE  /\ thread_indices' \in BoundedQueue(N_THREADS)
         /\ running_thread' \in 0 .. N_THREADS
         /\ cpu' = running_thread'
         /\ halt' \in Halts
         /\ defects' \in SUBSET Defects
         /\ halt' = "none" /\ running_thread' # NullThread
                => threads[running_thread'].index # 0
<1>1. N_THREADS \in Nat /\ defects \in SUBSET Defects
  BY Parameters DEF TypeOK
<1>2. CASE ready = <<>>
  <2>1. thread_indices' = ready /\ running_thread' = old /\ Loaded(old) /\ defects' = defects
    BY <1>2 DEF Cycle
  <2> QED
    BY <1>1, <2>1, LoadedKeeps
<1>3. CASE ready # <<>>
  <2>1. /\ Tail(ready) \in BoundedQueue(N_THREADS)
        /\ Head(ready) \in 0 .. N_THREADS
    BY <1>1, <1>3, TailBounded
  <2>2. running_thread' = Head(ready)
    BY <1>3 DEF Cycle
  <2>3. CASE old = NullThread
    <3>1. thread_indices' = Tail(ready) /\ Loaded(Head(ready)) /\ defects' = defects
      BY <1>3, <2>3 DEF Cycle
    <3> QED
      BY <1>1, <2>1, <2>2, <3>1, LoadedKeeps
  <2>4. CASE old # NullThread
    <3>1. Requeued(old) \in 1 .. N_THREADS
      <4>1. threads[old].index \in Locals
        BY <2>4, Parameters DEF TypeOK, Tcb, Locals
      <4> QED
        BY <4>1, LocalsAreThreads DEF Requeued, Threads
    <3>2. /\ CanPush(Tail(ready), Requeued(old), N_THREADS)
          /\ Append(Tail(ready), Requeued(old)) \in BoundedQueue(N_THREADS)
      BY <1>1, <1>3, <3>1, RotatedBounded
    <3>3. /\ thread_indices' = Append(Tail(ready), Requeued(old))
          /\ Loaded(Head(ready)) /\ Preempted(old)
      BY <1>3, <2>4, <3>2 DEF Cycle, HasRoom
    <3> QED
      BY <1>1, <2>1, <2>2, <3>2, <3>3, LoadedKeeps, PreemptedKeeps
  <2> QED
    BY <2>3, <2>4
<1> QED
  BY <1>2, <1>3

-----------------------------------------------------------------------------
(* Arrays of free indices.                                                  *)

\* A pcb and the array it points to are a ring.
LEMMA DerefIsRing ==
  ASSUME NEW pcb \in Pcb, NEW memory \in [Frames -> [LocalSlots -> Locals]],
         pcb.indices \in Frames
  PROVE  /\ Deref(pcb, memory) \in Rings(N_THREADS_PER_PROCESS, Locals)
         /\ Deref(pcb, memory).size = N_THREADS_PER_PROCESS
         /\ Deref(pcb, memory).count = pcb.count
<1>1. memory[pcb.indices] \in [LocalSlots -> Locals]
  OBVIOUS
<1> HIDE DEF Locals
<1>2. Deref(pcb, memory) \in [size : {N_THREADS_PER_PROCESS}, count : 0 .. N_THREADS_PER_PROCESS,
                               tail : LocalSlots, head : LocalSlots,
                               indices : [LocalSlots -> Locals]]
  BY <1>1 DEF Deref, Pcb
<1> QED
  BY <1>2 DEF Deref, Pcb, Rings, LocalSlots

LEMMA PoppedPcb ==
  ASSUME NEW pcb \in Pcb, pcb.count # 0
  PROVE  Popped(pcb) \in Pcb /\ Popped(pcb).indices = pcb.indices
<1>1. CircleForward(pcb.head, pcb.size) \in LocalSlots
  BY ForwardInRing, Parameters DEF Pcb, LocalSlots
<1>2. pcb.count - 1 \in 0 .. N_THREADS_PER_PROCESS
  BY Parameters DEF Pcb
<1> QED
  BY <1>1, <1>2 DEF Popped, Pcb

LEMMA NewPcbType ==
  ASSUME NEW frame \in Frames
  PROVE  NewPcb(frame) \in Pcb /\ NewPcb(frame).count # 0 /\ NewPcb(frame).indices = frame
<1> DEFINE q == AllFree(N_THREADS_PER_PROCESS)
<1>1. q.indices \in [LocalSlots -> Locals]
  BY Parameters DEF AllFree, LocalSlots, Locals
<1>2. /\ q \in Rings(N_THREADS_PER_PROCESS, Locals)
      /\ q.count = N_THREADS_PER_PROCESS
  BY <1>1, Parameters DEF AllFree, Rings, LocalSlots
<1>3. NewPcb(frame) = [q EXCEPT !.indices = frame]
  BY DEF NewPcb
<1> HIDE DEF q
<1> QED
  BY <1>2, <1>3, Parameters DEF Rings, Pcb, LocalSlots

\* kill_cur_thread's return of an index keeps pcbs and arrays typed and every
\* pointer where it was.
LEMMA ReleasedKeeps ==
  ASSUME TypeOK, NEW p \in Processes, NEW index \in Locals,
         processes[p].indices \in Frames, Released(p, index)
  PROVE  /\ processes' \in [0 .. N_PROCESSES -> Pcb]
         /\ frames' \in [Frames -> [LocalSlots -> Locals]]
         /\ free_process_indices' \in BoundedQueue(N_PROCESSES)
         /\ \A r \in 0 .. N_PROCESSES : processes'[r].indices = processes[r].indices
<1> DEFINE ring  == Deref(processes[p], frames)
           freed == Pushed(ring, index)
           full  == Rejects(ring, index)
           pcb   == IF full THEN processes[p]
                    ELSE [freed EXCEPT !.indices = processes[p].indices]
<1>1. /\ processes \in [0 .. N_PROCESSES -> Pcb]
      /\ frames \in [Frames -> [LocalSlots -> Locals]]
      /\ free_process_indices \in BoundedQueue(N_PROCESSES)
      /\ p \in 0 .. N_PROCESSES /\ processes[p] \in Pcb
      /\ N_PROCESSES \in Nat
  BY Parameters DEF TypeOK, Processes
<1>2. /\ processes' = [processes EXCEPT ![p] = pcb]
      /\ frames' = IF full THEN frames ELSE [frames EXCEPT ![pcb.indices] = freed.indices]
      /\ free_process_indices' =
             IF pcb.count >= pcb.size THEN PushIndex(free_process_indices, p, N_PROCESSES)
             ELSE free_process_indices
  BY DEF Released
<1>3. ring \in Rings(N_THREADS_PER_PROCESS, Locals) /\ ring.size = N_THREADS_PER_PROCESS
  BY <1>1, DerefIsRing
<1>4. ASSUME ~full
      PROVE  /\ [freed EXCEPT !.indices = processes[p].indices] \in Pcb
             /\ [freed EXCEPT !.indices = processes[p].indices].indices = processes[p].indices
             /\ freed.indices \in [LocalSlots -> Locals]
  <2>1. ring.count < N_THREADS_PER_PROCESS
    BY <1>3, <1>4, Parameters DEF Rejects, Rings
  <2>2. freed \in Rings(N_THREADS_PER_PROCESS, Locals)
    <3> HIDE DEF ring
    <3> QED
      BY <1>3, <2>1, PushedRing, Parameters
  <2> HIDE DEF freed
  <2> QED
    BY <1>1, <2>2 DEF Rings, Pcb, LocalSlots
<1> HIDE DEF ring, freed, full
<1>5. pcb \in Pcb /\ pcb.indices = processes[p].indices
  BY <1>1, <1>4
<1>6. frames' \in [Frames -> [LocalSlots -> Locals]]
  BY <1>1, <1>2, <1>4, <1>5
<1> HIDE DEF pcb
<1>7. /\ processes' \in [0 .. N_PROCESSES -> Pcb]
      /\ \A r \in 0 .. N_PROCESSES : processes'[r].indices = processes[r].indices
  BY <1>1, <1>2, <1>5
<1>8. free_process_indices' \in BoundedQueue(N_PROCESSES)
  BY <1>1, <1>2, PushBounded
<1> QED
  BY <1>6, <1>7, <1>8

-----------------------------------------------------------------------------
(* The actions.                                                             *)

LEMMA InitIInv == Init => IInv
<1> SUFFICES ASSUME Init PROVE IInv
  OBVIOUS
<1>1. PICK frame \in Frames :
         processes = [p \in 0 .. N_PROCESSES |->
                         IF p = 1 THEN Popped(NewPcb(frame)) ELSE EmptyPcb]
  BY DEF Init
<1>2. 1 \in Threads /\ 1 \in Processes /\ 1 \in Locals /\ 0 \in Nat
  BY Parameters DEF Threads, Processes, Locals
<1>3. EmptyTcb \in Tcb /\ NewTcb(1, 1) \in Tcb
  BY Parameters DEF EmptyTcb, NewTcb, Tcb
<1>4. threads \in [0 .. N_THREADS -> Tcb]
  BY <1>3 DEF Init
<1>5. EmptyPcb \in Pcb
  BY Parameters DEF EmptyPcb, EmptyQueue, Pcb, LocalSlots
<1>6. Popped(NewPcb(frame)) \in Pcb /\ Popped(NewPcb(frame)).indices = frame
  BY NewPcbType, PoppedPcb
<1>7. processes \in [0 .. N_PROCESSES -> Pcb]
  BY <1>1, <1>5, <1>6
<1>8. AllFree(N_THREADS_PER_PROCESS).indices \in [LocalSlots -> Locals]
  BY Parameters DEF AllFree, LocalSlots, Locals
<1>9. frames \in [Frames -> [LocalSlots -> Locals]]
  BY <1>8 DEF Init
<1>10. thread_indices \in BoundedQueue(N_THREADS)
  BY Parameters DEF Init, BoundedQueue
<1>11. sleep_waiting \in BoundedQueue(N_THREADS) /\ char_waiting \in BoundedQueue(N_THREADS)
  BY Parameters DEF Init, BoundedQueue
<1>12. free_process_indices \in BoundedQueue(N_PROCESSES)
  <2>1. N_PROCESSES - 1 \in Nat
    BY Parameters
  <2>2. free_process_indices \in [1 .. N_PROCESSES - 1 -> 1 .. N_PROCESSES]
    BY Parameters DEF Init
  <2> QED
    BY <2>1, <2>2, Parameters DEF BoundedQueue
<1>13. TypeOK
  <2>1. running_thread \in 0 .. N_THREADS /\ cpu \in 0 .. N_THREADS
    BY Parameters DEF Init, NullThread
  <2>2. uart_count \in 0 .. UART_INPUT_BUFFER_SIZE
    BY Parameters DEF Init
  <2>3. halt \in Halts /\ defects \in SUBSET Defects
    BY DEF Init, Halts
  <2> QED
    BY <1>4, <1>7, <1>9, <1>10, <1>11, <1>12, <2>1, <2>2, <2>3 DEF TypeOK
<1>14. TcbsBacked
  <2>1. ASSUME NEW t \in 0 .. N_THREADS, threads[t].index # 0
        PROVE  threads[t].process \in Processes /\ processes[threads[t].process].indices \in Frames
    <3>1. t = 1
      BY <2>1 DEF Init, EmptyTcb, NewTcb
    <3>2. threads[t].process = 1
      BY <3>1 DEF Init, NewTcb
    <3>3. processes[1].indices = frame
      BY <1>1, <1>2, <1>6 DEF Processes
    <3> QED
      BY <1>2, <3>2, <3>3
  <2> QED
    BY <2>1 DEF TcbsBacked, Backed
<1>15. ContextMatchesRunning /\ CharWaitersMeanEmptyBuffer /\ RunningWasCreated
  BY DEF Init, ContextMatchesRunning, CharWaitersMeanEmptyBuffer, RunningWasCreated
<1> QED
  BY <1>13, <1>14, <1>15 DEF IInv

\* Creation and the pointers in pcbs are left alone by most steps.
LEMMA BackedKept ==
  ASSUME TcbsBacked,
         \A t \in 0 .. N_THREADS : /\ threads'[t].index = threads[t].index
                                   /\ threads'[t].process = threads[t].process,
         \A p \in 0 .. N_PROCESSES : processes'[p].indices = processes[p].indices
  PROVE  TcbsBacked'
  BY Parameters DEF TcbsBacked, Backed, Processes

\* The thread that calls the kernel is a created one of a created process.
LEMMA CallerWasCreated ==
  ASSUME IInv, UserRuns
  PROVE  /\ running_thread \in Threads
         /\ cpu = running_thread
         /\ threads[running_thread].index \in Locals
         /\ threads[running_thread].process \in Processes
         /\ processes[threads[running_thread].process].indices \in Frames
<1>1. cpu = running_thread /\ running_thread # NullThread /\ running_thread \in 0 .. N_THREADS
  BY DEF IInv, ContextMatchesRunning, UserRuns, TypeOK
<1>2. threads[running_thread].index # 0
  BY <1>1 DEF IInv, RunningWasCreated, UserRuns
<1>3. threads[running_thread] \in Tcb
  BY <1>1 DEF IInv, TypeOK
<1> QED
  BY <1>1, <1>2, <1>3, Parameters DEF IInv, TcbsBacked, Backed, Tcb, Locals, Threads, NullThread

LEMMA KillKeeps ==
  ASSUME IInv, UserRuns, kill_cur_thread
  PROVE  IInv'
<1> DEFINE p     == threads[running_thread].process
           index == threads[running_thread].index
<1>1. /\ p \in Processes /\ index \in Locals /\ processes[p].indices \in Frames
      /\ Released(p, index)
  BY CallerWasCreated DEF kill_cur_thread
<1>2. TypeOK /\ Running
  BY DEF IInv, UserRuns
<1> HIDE DEF p, index
<1>3. /\ processes' \in [0 .. N_PROCESSES -> Pcb]
      /\ frames' \in [Frames -> [LocalSlots -> Locals]]
      /\ free_process_indices' \in BoundedQueue(N_PROCESSES)
      /\ \A r \in 0 .. N_PROCESSES : processes'[r].indices = processes[r].indices
  BY <1>1, <1>2, ReleasedKeeps
<1>4. thread_indices' \in BoundedQueue(N_THREADS) /\ running_thread' \in 0 .. N_THREADS
  <2>1. N_THREADS \in Nat /\ thread_indices \in BoundedQueue(N_THREADS)
    BY <1>2, Parameters DEF TypeOK
  <2>2. CASE thread_indices = <<>>
    BY <2>1, <2>2 DEF kill_cur_thread, NullThread
  <2>3. CASE thread_indices # <<>>
    <3>1. /\ Tail(thread_indices) \in BoundedQueue(N_THREADS)
          /\ Head(thread_indices) \in 0 .. N_THREADS
      BY <2>1, <2>3, TailBounded
    <3>2. running_thread' = Head(thread_indices) /\ thread_indices' = Tail(thread_indices)
      BY <2>3 DEF kill_cur_thread
    <3> QED
      BY <3>1, <3>2
  <2> QED
    BY <2>2, <2>3
<1>5. /\ cpu' = running_thread' /\ halt' \in Halts
      /\ halt' = "none" /\ running_thread' # NullThread => threads[running_thread'].index # 0
  BY <1>2, LoadedKeeps DEF kill_cur_thread
<1>6. /\ sleep_waiting' = sleep_waiting /\ char_waiting' = char_waiting
      /\ threads' = threads /\ uart_count' = uart_count /\ defects' = defects
  BY DEF kill_cur_thread, queues
<1>7. TypeOK'
  BY <1>2, <1>3, <1>4, <1>5, <1>6 DEF TypeOK
<1>8. TcbsBacked'
  BY <1>3, <1>6, BackedKept DEF IInv
<1>9. ContextMatchesRunning' /\ CharWaitersMeanEmptyBuffer' /\ RunningWasCreated'
  BY <1>5, <1>6 DEF IInv, ContextMatchesRunning, CharWaitersMeanEmptyBuffer, RunningWasCreated,
                    Running
<1> QED
  BY <1>7, <1>8, <1>9 DEF IInv

LEMMA TimerKeeps ==
  ASSUME IInv, timer_irq
  PROVE  IInv'
<1>1. TypeOK /\ Running /\ cpu = running_thread
  BY DEF IInv, timer_irq, ContextMatchesRunning
<1>2. char_waiting' = char_waiting /\ uart_count' = uart_count /\ UNCHANGED creation
  BY DEF timer_irq
<1>3. CASE HeadsAreDue
  <2>1. decrement_waits /\ Cycle(WithWoken, running_thread, running_thread)
    BY <1>1, <1>3 DEF timer_irq
  <2>2. /\ WithWoken \in BoundedQueue(N_THREADS)
        /\ sleep_waiting' \in BoundedQueue(N_THREADS)
    BY <1>1, <2>1, WakingBounded DEF TypeOK, decrement_waits
  <2>3. /\ threads' \in [0 .. N_THREADS -> Tcb]
        /\ \A t \in 0 .. N_THREADS : /\ threads'[t].index = threads[t].index
                                     /\ threads'[t].process = threads[t].process
    BY <1>1, <2>1, DecrementedTcbs DEF TypeOK, decrement_waits
  <2>4. /\ running_thread \in 0 .. N_THREADS
        /\ running_thread # NullThread => threads[running_thread].index # 0
    BY <1>1 DEF IInv, TypeOK, RunningWasCreated
  <2>5. /\ thread_indices' \in BoundedQueue(N_THREADS)
        /\ running_thread' \in 0 .. N_THREADS
        /\ cpu' = running_thread'
        /\ halt' \in Halts
        /\ defects' \in SUBSET Defects
        /\ halt' = "none" /\ running_thread' # NullThread
               => threads[running_thread'].index # 0
    BY <1>1, <2>1, <2>2, <2>4, CycleKeeps
  <2>6. TypeOK'
    BY <1>1, <1>2, <2>2, <2>3, <2>5 DEF TypeOK, creation
  <2>7. TcbsBacked'
    BY <1>2, <2>3, BackedKept DEF IInv, creation
  <2>8. ContextMatchesRunning' /\ CharWaitersMeanEmptyBuffer' /\ RunningWasCreated'
    BY <1>2, <2>3, <2>5 DEF IInv, ContextMatchesRunning, CharWaitersMeanEmptyBuffer,
                            RunningWasCreated, Running
  <2> QED
    BY <2>6, <2>7, <2>8 DEF IInv
<1>4. CASE ~HeadsAreDue
  <2>1. /\ halt' = "sleep_order"
        /\ UNCHANGED <<sleep_waiting, threads, thread_indices, running_thread, cpu, defects>>
    BY <1>4 DEF timer_irq
  <2>2. TypeOK'
    BY <1>1, <1>2, <2>1 DEF TypeOK, creation, Halts
  <2> QED
    BY <1>2, <2>1, <2>2 DEF IInv, TcbsBacked, Backed, creation, ContextMatchesRunning,
                            CharWaitersMeanEmptyBuffer, RunningWasCreated, Running
<1> QED
  BY <1>3, <1>4

\* push_waiting_thread followed by scheduler_cycle: the caller is on its queue
\* and what runs instead was created.
LEMMA ParkKeeps ==
  ASSUME TypeOK, Running, Park
  PROVE  /\ thread_indices' \in BoundedQueue(N_THREADS)
         /\ running_thread' \in 0 .. N_THREADS
         /\ cpu' = running_thread'
         /\ halt' \in Halts
         /\ defects' \in SUBSET Defects
         /\ halt' = "none" /\ running_thread' # NullThread
                => threads[running_thread'].index # 0
<1>1. Cycle(thread_indices, NullThread, NullThread)
  BY DEF Park, ParkedContext
<1>2. thread_indices \in BoundedQueue(N_THREADS) /\ NullThread \in 0 .. N_THREADS
  BY Parameters DEF TypeOK, NullThread
<1> QED
  BY <1>1, <1>2, CycleKeeps

LEMMA WaitKeeps ==
  ASSUME IInv, NEW duration \in Durations, exec_syscall_wait(duration)
  PROVE  IInv'
<1>1. UserRuns /\ TypeOK /\ Running
  BY DEF IInv, exec_syscall_wait, UserRuns
<1>2. CASE ReturnsAtOnce(duration)
  <2>1. UNCHANGED vars
    BY <1>2 DEF exec_syscall_wait, scheduler_on_sleep
  <2> QED
    BY <2>1 DEF vars, IInv, TypeOK, ContextMatchesRunning, CharWaitersMeanEmptyBuffer,
                TcbsBacked, Backed, RunningWasCreated, Running
<1>3. CASE ~ReturnsAtOnce(duration)
  <2>1. /\ sleep_waiting' = Waiting(sleep_waiting) /\ Park
        /\ threads' = [threads EXCEPT ![running_thread].waiting_duration = duration]
        /\ UNCHANGED <<char_waiting, creation, uart_count>>
    BY <1>3 DEF exec_syscall_wait, scheduler_on_sleep
  <2>2. sleep_waiting' \in BoundedQueue(N_THREADS)
    BY <1>1, <2>1, PushBounded, Parameters DEF Waiting, TypeOK
  <2>3. /\ threads' \in [0 .. N_THREADS -> Tcb]
        /\ \A t \in 0 .. N_THREADS : /\ threads'[t].index = threads[t].index
                                     /\ threads'[t].process = threads[t].process
    <3>1. threads \in [0 .. N_THREADS -> Tcb] /\ duration \in 0 .. SIZE_T - 1
      BY <1>1, Parameters DEF TypeOK
    <3> QED
      BY <2>1, <3>1 DEF Tcb
  <2>4. /\ thread_indices' \in BoundedQueue(N_THREADS)
        /\ running_thread' \in 0 .. N_THREADS
        /\ cpu' = running_thread'
        /\ halt' \in Halts
        /\ defects' \in SUBSET Defects
        /\ halt' = "none" /\ running_thread' # NullThread
               => threads[running_thread'].index # 0
    BY <1>1, <2>1, ParkKeeps
  <2>5. TypeOK'
    BY <1>1, <2>1, <2>2, <2>3, <2>4 DEF TypeOK, creation
  <2>6. TcbsBacked'
    BY <2>1, <2>3, BackedKept DEF IInv, creation
  <2>7. ContextMatchesRunning' /\ CharWaitersMeanEmptyBuffer' /\ RunningWasCreated'
    BY <2>1, <2>3, <2>4 DEF IInv, ContextMatchesRunning, CharWaitersMeanEmptyBuffer,
                            RunningWasCreated, Running
  <2> QED
    BY <2>5, <2>6, <2>7 DEF IInv
<1> QED
  BY <1>2, <1>3

LEMMA GetCharKeeps ==
  ASSUME IInv, exec_syscall_get_char
  PROVE  IInv'
<1>1. UserRuns /\ TypeOK /\ Running /\ uart_count \in 0 .. UART_INPUT_BUFFER_SIZE
  BY DEF IInv, exec_syscall_get_char, UserRuns, TypeOK
<1>2. CASE ~uart_queue_is_emtpy
  <2>1. /\ uart_count' = uart_count - 1
        /\ UNCHANGED <<running_thread, cpu, threads, thread_indices, queues, creation, halt, defects>>
    BY <1>2 DEF exec_syscall_get_char
  <2>2. uart_count' \in 0 .. UART_INPUT_BUFFER_SIZE
    BY <1>1, <1>2, <2>1, Parameters DEF uart_queue_is_emtpy
  <2>3. TypeOK'
    BY <1>1, <2>1, <2>2 DEF TypeOK, queues, creation
  <2>4. CharWaitersMeanEmptyBuffer'
    BY <1>2, <2>1 DEF IInv, CharWaitersMeanEmptyBuffer, uart_queue_is_emtpy, queues
  <2> QED
    BY <2>1, <2>3, <2>4 DEF IInv, ContextMatchesRunning, TcbsBacked, Backed, RunningWasCreated,
                            Running, queues, creation
<1>3. CASE uart_queue_is_emtpy /\ WithWaiter[NextReady].state = "READY"
  <2>1. /\ char_waiting' = Waiting(char_waiting) /\ Park
        /\ threads' = WithWaiter
        /\ UNCHANGED <<sleep_waiting, creation, uart_count>>
    BY <1>3 DEF exec_syscall_get_char, scheduler_on_getchar
  <2>2. char_waiting' \in BoundedQueue(N_THREADS)
    BY <1>1, <2>1, PushBounded, Parameters DEF Waiting, TypeOK
  <2>3. /\ threads' \in [0 .. N_THREADS -> Tcb]
        /\ \A t \in 0 .. N_THREADS : /\ threads'[t].index = threads[t].index
                                     /\ threads'[t].process = threads[t].process
    BY <1>1, <2>1 DEF TypeOK, Tcb, WithWaiter
  <2>4. /\ thread_indices' \in BoundedQueue(N_THREADS)
        /\ running_thread' \in 0 .. N_THREADS
        /\ cpu' = running_thread'
        /\ halt' \in Halts
        /\ defects' \in SUBSET Defects
        /\ halt' = "none" /\ running_thread' # NullThread
               => threads[running_thread'].index # 0
    BY <1>1, <2>1, ParkKeeps
  <2>5. TypeOK'
    BY <1>1, <2>1, <2>2, <2>3, <2>4 DEF TypeOK, creation
  <2>6. TcbsBacked'
    BY <2>1, <2>3, BackedKept DEF IInv, creation
  <2>7. ContextMatchesRunning' /\ CharWaitersMeanEmptyBuffer' /\ RunningWasCreated'
    BY <1>3, <2>1, <2>3, <2>4 DEF IInv, ContextMatchesRunning, CharWaitersMeanEmptyBuffer,
                            RunningWasCreated, Running, uart_queue_is_emtpy
  <2> QED
    BY <2>5, <2>6, <2>7 DEF IInv
<1>4. CASE uart_queue_is_emtpy /\ WithWaiter[NextReady].state # "READY"
  <2>1. /\ halt' = "not_ready"
        /\ UNCHANGED <<running_thread, cpu, threads, thread_indices, queues, creation, uart_count, defects>>
    BY <1>4 DEF exec_syscall_get_char
  <2>2. TypeOK'
    BY <1>1, <2>1 DEF TypeOK, queues, creation, Halts
  <2> QED
    BY <2>1, <2>2 DEF IInv, ContextMatchesRunning, CharWaitersMeanEmptyBuffer, TcbsBacked, Backed,
                      RunningWasCreated, Running, queues, creation
<1> QED
  BY <1>2, <1>3, <1>4

LEMMA UartKeeps ==
  ASSUME IInv, uart_irq
  PROVE  IInv'
<1>1. TypeOK /\ Running
  BY DEF IInv, uart_irq
<1>2. UNCHANGED <<running_thread, cpu, sleep_waiting, creation, halt, defects>>
  BY DEF uart_irq
<1>3. CASE char_waiting = <<>> \/ uart_count >= UART_INPUT_BUFFER_SIZE
  <2>1. /\ UNCHANGED <<threads, thread_indices, char_waiting>>
        /\ uart_count' \in 0 .. UART_INPUT_BUFFER_SIZE
        /\ char_waiting # <<>> => uart_count' = uart_count
    BY <1>1, <1>3, Parameters DEF uart_irq, scheduler_on_char_received, TypeOK
  <2>2. TypeOK'
    BY <1>1, <1>2, <2>1 DEF TypeOK, creation
  <2> QED
    BY <1>2, <2>1, <2>2 DEF IInv, ContextMatchesRunning, CharWaitersMeanEmptyBuffer, TcbsBacked,
                            Backed, RunningWasCreated, Running, creation
<1>4. CASE char_waiting # <<>> /\ ~(uart_count >= UART_INPUT_BUFFER_SIZE)
  <2>1. /\ char_waiting' = Tail(char_waiting)
        /\ threads' = Notified(Head(char_waiting))
        /\ thread_indices' = PushIndex(thread_indices, Head(char_waiting), N_THREADS)
        /\ uart_count' = uart_count
    BY <1>1, <1>4, Parameters DEF uart_irq, scheduler_on_char_received, TypeOK
  <2>2. char_waiting' \in BoundedQueue(N_THREADS)
    BY <1>1, <1>4, <2>1, TailBounded, Parameters DEF TypeOK
  <2>3. thread_indices' \in BoundedQueue(N_THREADS)
    BY <1>1, <2>1, PushBounded, Parameters DEF TypeOK
  <2>4. /\ threads' \in [0 .. N_THREADS -> Tcb]
        /\ \A t \in 0 .. N_THREADS : /\ threads'[t].index = threads[t].index
                                     /\ threads'[t].process = threads[t].process
    <3>1. threads \in [0 .. N_THREADS -> Tcb]
      BY <1>1 DEF TypeOK
    <3> QED
      BY <2>1, <3>1 DEF Notified, Tcb
  <2>5. TypeOK'
    BY <1>1, <1>2, <2>1, <2>2, <2>3, <2>4 DEF TypeOK, creation
  <2>6. TcbsBacked'
    BY <1>2, <2>4, BackedKept DEF IInv, creation
  <2>7. ContextMatchesRunning' /\ CharWaitersMeanEmptyBuffer' /\ RunningWasCreated'
    BY <1>1, <1>2, <1>4, <2>1, <2>4 DEF IInv, ContextMatchesRunning, CharWaitersMeanEmptyBuffer,
                                   RunningWasCreated, Running, TypeOK
  <2> QED
    BY <2>5, <2>6, <2>7 DEF IInv
<1> QED
  BY <1>3, <1>4

\* thread_create keeps tables typed, backs the tcb it fills and leaves every
\* created one where it was.
LEMMA CreateKeeps ==
  ASSUME TypeOK, NEW p \in Processes,
         NEW pcbs \in [0 .. N_PROCESSES -> Pcb],
         NEW memory \in [Frames -> [LocalSlots -> Locals]],
         pcbs[p].indices \in Frames, Backed(threads, pcbs),
         thread_create(p, pcbs, memory)
  PROVE  /\ processes' \in [0 .. N_PROCESSES -> Pcb]
         /\ frames' \in [Frames -> [LocalSlots -> Locals]]
         /\ threads' \in [0 .. N_THREADS -> Tcb]
         /\ thread_indices' \in BoundedQueue(N_THREADS)
         /\ \A t \in 0 .. N_THREADS : threads[t].index # 0 => threads'[t].index # 0
         /\ TcbsBacked'
<1> DEFINE index == memory[pcbs[p].indices][pcbs[p].head]
           g     == GlobalIndex(p, index)
<1>1. /\ threads \in [0 .. N_THREADS -> Tcb] /\ thread_indices \in BoundedQueue(N_THREADS)
      /\ p \in 0 .. N_PROCESSES /\ pcbs[p] \in Pcb
  BY Parameters DEF TypeOK, Processes
<1>2. frames' \in [Frames -> [LocalSlots -> Locals]]
  BY DEF thread_create
<1>3. CASE pcbs[p].count = 0
  <2>1. processes' = pcbs /\ thread_indices' = thread_indices /\ threads' = threads
    BY <1>3 DEF thread_create
  <2> QED
    BY <1>1, <1>2, <2>1 DEF TcbsBacked, Backed
<1>4. CASE pcbs[p].count # 0
  <2>1. /\ processes' = [pcbs EXCEPT ![p] = Popped(pcbs[p])]
        /\ scheduler_register_thread(p, index)
    BY <1>1, <1>4 DEF thread_create
  <2>2. /\ processes' \in [0 .. N_PROCESSES -> Pcb]
        /\ \A r \in 0 .. N_PROCESSES : processes'[r].indices = pcbs[r].indices
    BY <1>1, <1>4, <2>1, PoppedPcb
  <2>3. index \in Locals
    BY <1>1 DEF Pcb, LocalSlots
  <2> HIDE DEF index
  <2>4. NewTcb(p, index) \in Tcb /\ NewTcb(p, index).index = index /\ NewTcb(p, index).process = p
    BY <1>1, <2>3, Parameters DEF NewTcb, Tcb, Locals
  <2>5. thread_indices' \in BoundedQueue(N_THREADS)
    <3>1. thread_indices' = PushIndex(thread_indices, g, N_THREADS)
      BY <2>1 DEF scheduler_register_thread, PushIndex
    <3> HIDE DEF g
    <3> QED
      BY <1>1, <3>1, PushBounded, Parameters
  <2>6. threads' = threads \/ threads' = [threads EXCEPT ![g] = NewTcb(p, index)]
    BY <2>1 DEF scheduler_register_thread
  <2> HIDE DEF g
  <2>7. /\ threads' \in [0 .. N_THREADS -> Tcb]
        /\ \A t \in 0 .. N_THREADS : threads'[t] = threads[t] \/ threads'[t] = NewTcb(p, index)
    BY <1>1, <2>4, <2>6
  <2>8. \A t \in 0 .. N_THREADS : threads[t].index # 0 => threads'[t].index # 0
    BY <2>3, <2>4, <2>7 DEF Locals
  <2>9. TcbsBacked'
    <3> SUFFICES ASSUME NEW t \in 0 .. N_THREADS, threads'[t].index # 0
                 PROVE  /\ threads'[t].process \in Processes
                        /\ processes'[threads'[t].process].indices \in Frames
      BY DEF TcbsBacked, Backed
    <3>1. CASE threads'[t] = threads[t]
      <4>1. threads[t].process \in Processes /\ pcbs[threads[t].process].indices \in Frames
        BY <3>1 DEF Backed
      <4> QED
        BY <2>2, <3>1, <4>1, Parameters DEF Processes
    <3>2. CASE threads'[t] = NewTcb(p, index)
      BY <1>1, <2>2, <2>4, <3>2
    <3> QED
      BY <2>7, <3>1, <3>2
  <2> QED
    BY <1>2, <2>2, <2>5, <2>7, <2>8, <2>9
<1> QED
  BY <1>3, <1>4

\* So does a system call that only creates.
LEMMA CreationKeepsRunning ==
  ASSUME IInv, TypeOK', TcbsBacked',
         UNCHANGED <<running_thread, cpu, queues, uart_count, halt>>,
         \A t \in 0 .. N_THREADS : threads[t].index # 0 => threads'[t].index # 0
  PROVE  IInv'
  BY DEF IInv, TypeOK, ContextMatchesRunning, CharWaitersMeanEmptyBuffer, RunningWasCreated,
         Running, queues

LEMMA CreateThreadKeeps ==
  ASSUME IInv, NEW valid \in BOOLEAN, exec_syscall_create_thread(valid)
  PROVE  IInv'
<1>1. UserRuns /\ TypeOK
  BY DEF IInv, exec_syscall_create_thread
<1>2. CASE ~valid
  BY <1>1, <1>2, KillKeeps DEF exec_syscall_create_thread
<1>3. CASE valid
  <2> DEFINE p == threads[running_thread].process
  <2>1. /\ thread_create(p, processes, frames)
        /\ UNCHANGED <<running_thread, cpu, queues, uart_count, halt, defects, free_process_indices>>
    BY <1>3 DEF exec_syscall_create_thread
  <2>2. /\ p \in Processes /\ processes[p].indices \in Frames
        /\ processes \in [0 .. N_PROCESSES -> Pcb]
        /\ frames \in [Frames -> [LocalSlots -> Locals]]
        /\ Backed(threads, processes)
    BY <1>1, CallerWasCreated DEF TypeOK, IInv, TcbsBacked
  <2> HIDE DEF p
  <2>3. /\ processes' \in [0 .. N_PROCESSES -> Pcb]
        /\ frames' \in [Frames -> [LocalSlots -> Locals]]
        /\ threads' \in [0 .. N_THREADS -> Tcb]
        /\ thread_indices' \in BoundedQueue(N_THREADS)
        /\ \A t \in 0 .. N_THREADS : threads[t].index # 0 => threads'[t].index # 0
        /\ TcbsBacked'
    BY <1>1, <2>1, <2>2, CreateKeeps
  <2>4. TypeOK'
    BY <1>1, <2>1, <2>3 DEF TypeOK, queues
  <2> QED
    BY <2>1, <2>3, <2>4, CreationKeepsRunning
<1> QED
  BY <1>2, <1>3

LEMMA ForkKeeps ==
  ASSUME IInv, NEW valid \in BOOLEAN, NEW frame \in Frames, exec_syscall_fork(valid, frame)
  PROVE  IInv'
<1>1. UserRuns /\ TypeOK
  BY DEF IInv, exec_syscall_fork
<1>2. CASE ~valid
  BY <1>1, <1>2, KillKeeps DEF exec_syscall_fork
<1>3. CASE valid
  <2>1. process_create(frame) /\ UNCHANGED <<running_thread, cpu, queues, uart_count, halt>>
    BY <1>3 DEF exec_syscall_fork
  <2>2. defects' \in SUBSET Defects
    BY <1>1, <2>1 DEF process_create, TypeOK, Defects
  <2>3. WithFrame(frame) \in [Frames -> [LocalSlots -> Locals]]
    <3>1. AllFree(N_THREADS_PER_PROCESS).indices \in [LocalSlots -> Locals]
      BY Parameters DEF AllFree, LocalSlots, Locals
    <3> QED
      BY <1>1, <3>1 DEF WithFrame, TypeOK
  <2>4. CASE free_process_indices = <<>>
    <3>1. /\ frames' = WithFrame(frame)
          /\ UNCHANGED <<processes, free_process_indices, threads, thread_indices>>
      BY <2>1, <2>4 DEF process_create
    <3>2. TypeOK'
      BY <1>1, <2>1, <2>2, <2>3, <3>1 DEF TypeOK, queues
    <3>3. TcbsBacked'
      BY <3>1 DEF IInv, TcbsBacked, Backed
    <3> QED
      BY <2>1, <3>1, <3>2, <3>3, CreationKeepsRunning
  <2>5. CASE free_process_indices # <<>>
    <3> DEFINE p    == Head(free_process_indices)
               pcbs == [processes EXCEPT ![p] = NewPcb(frame)]
    <3>1. /\ free_process_indices' = Tail(free_process_indices)
          /\ thread_create(p, pcbs, WithFrame(frame))
      BY <2>1, <2>5 DEF process_create
    <3>2. /\ p \in Processes
          /\ free_process_indices' \in BoundedQueue(N_PROCESSES)
      <4>1. free_process_indices \in BoundedQueue(N_PROCESSES)
        BY <1>1 DEF TypeOK
      <4> QED
        BY <2>5, <3>1, <4>1, TailBounded, Parameters DEF Processes
    <3> HIDE DEF p
    <3>3. /\ pcbs \in [0 .. N_PROCESSES -> Pcb]
          /\ pcbs[p].indices \in Frames
          /\ \A r \in 0 .. N_PROCESSES : pcbs[r].indices = processes[r].indices \/ pcbs[r].indices \in Frames
      BY <1>1, <3>2, NewPcbType, Parameters DEF TypeOK, Processes
    <3>4. Backed(threads, pcbs)
      BY <3>3, Parameters DEF IInv, TcbsBacked, Backed, Processes
    <3> HIDE DEF pcbs
    <3>5. /\ processes' \in [0 .. N_PROCESSES -> Pcb]
          /\ frames' \in [Frames -> [LocalSlots -> Locals]]
          /\ threads' \in [0 .. N_THREADS -> Tcb]
          /\ thread_indices' \in BoundedQueue(N_THREADS)
          /\ \A t \in 0 .. N_THREADS : threads[t].index # 0 => threads'[t].index # 0
          /\ TcbsBacked'
      BY <1>1, <2>3, <3>1, <3>2, <3>3, <3>4, CreateKeeps
    <3>6. TypeOK'
      BY <1>1, <2>1, <2>2, <3>2, <3>5 DEF TypeOK, queues
    <3> QED
      BY <2>1, <3>5, <3>6, CreationKeepsRunning
  <2> QED
    BY <2>4, <2>5
<1> QED
  BY <1>2, <1>3

-----------------------------------------------------------------------------
(* The loop of decrement_waits.                                             *)

\* The loop of decrement_waits, step by step.  What is pushed beyond the end of
\* thread_indices is dropped.
CappedReady(queue) == IF Len(queue) <= N_THREADS THEN queue ELSE SubSeq(queue, 1, N_THREADS)

DueAreHeads(k) == \A j \in 1 .. k : DueAt(j) => sleep_waiting[DueUpTo(j)] = sleep_waiting[j]

LoopReaches(s, k) ==
    /\ s.panic <=> ~DueAreHeads(k)
    /\ DueAreHeads(k) =>
          /\ s.sleep = SubSeq(sleep_waiting, DueUpTo(k) + 1, Len(sleep_waiting))
          /\ s.ready = CappedReady(thread_indices \o SubSeq(sleep_waiting, 1, DueUpTo(k)))
          /\ s.duration = [t \in 0 .. N_THREADS |->
                             (threads[t].waiting_duration - Occurrences(t, k)) % SIZE_T]

\* The recursion defines a function.
LEMMA LoopEquation ==
  ASSUME Len(sleep_waiting) \in Nat
  PROVE  /\ Loop[0] = LoopStart
         /\ \A k \in Sleepers : Loop[k] = LoopStep(Loop[k - 1], k)
<1> DEFINE n == Len(sleep_waiting)
           From(f, m) == f = [k \in 0 .. m |-> IF k = 0 THEN LoopStart ELSE LoopStep(f[k - 1], k)]
           T == {m \in 0 .. n : \E f : From(f, m)}
<1>0. n \in Nat
  OBVIOUS
<1> HIDE DEF n
<1>1. 0 \in T
  <2>1. From([k \in 0 .. 0 |-> LoopStart], 0)
    OBVIOUS
  <2>2. 0 \in 0 .. n
    BY DEF n
  <2> HIDE DEF From
  <2> QED
    BY <2>1, <2>2
<1>2. ASSUME NEW m \in 0 .. n - 1, m \in T PROVE m + 1 \in T
  <2>1. PICK f : From(f, m)
    BY <1>2
  <2> DEFINE h == [k \in 0 .. m + 1 |-> IF k <= m THEN f[k] ELSE LoopStep(f[m], m + 1)]
  <2>2. n \in Nat
    BY DEF n
  <2>3. ASSUME NEW k \in 0 .. m + 1
        PROVE  h[k] = IF k = 0 THEN LoopStart ELSE LoopStep(h[k - 1], k)
    <3>1. CASE k = 0
      BY <2>1, <2>2, <3>1
    <3>2. CASE k \in 1 .. m
      <4>1. h[k] = f[k] /\ h[k - 1] = f[k - 1] /\ k \in 0 .. m /\ k # 0
        BY <2>2, <3>2
      <4> QED
        BY <2>1, <4>1
    <3>3. CASE k = m + 1
      <4>1. h[k] = LoopStep(f[m], k) /\ h[k - 1] = f[m] /\ k # 0
        BY <2>2, <3>3
      <4> QED
        BY <4>1
    <3> QED
      BY <2>2, <3>1, <3>2, <3>3
  <2>4. From(h, m + 1)
    <3>1. h = [k \in 0 .. m + 1 |-> h[k]]
      OBVIOUS
    <3> HIDE DEF h
    <3> QED
      BY <2>3, <3>1
  <2>5. m + 1 \in 0 .. n
    BY <2>2
  <2> HIDE DEF h, From
  <2> QED
    BY <2>4, <2>5
<1> HIDE DEF T
<1>3. n \in T
  <2>1. \A k \in 0 .. n - 1 : k \in T => k + 1 \in T
    BY <1>2
  <2>2. \A k \in 0 .. n : k \in T
    BY <1>0, <1>1, <2>1, UpToInduction
  <2> QED
    BY <1>0, <2>2
<1>4. PICK f : From(f, n)
  BY <1>3 DEF T
<1>5. From(Loop, n)
  BY <1>4 DEF Loop, n
<1> QED
  BY <1>5 DEF n, Sleepers

LEMMA DueOneMore ==
  ASSUME NEW k \in Sleepers, Len(sleep_waiting) \in Nat
  PROVE  /\ DueUpTo(k) = DueUpTo(k - 1) + (IF DueAt(k) THEN 1 ELSE 0)
         /\ DueUpTo(k - 1) \in 0 .. k - 1 /\ DueUpTo(k) \in 0 .. k
         /\ \A t : /\ Occurrences(t, k)
                          = Occurrences(t, k - 1) + (IF sleep_waiting[k] = t THEN 1 ELSE 0)
                   /\ Occurrences(t, k - 1) \in 0 .. k - 1 /\ Occurrences(t, k) \in 0 .. k
<1>1. k \in Nat \ {0} /\ k - 1 \in Nat
  BY DEF Sleepers
<1>2. ASSUME NEW t PROVE Occurrences(t, k) = Occurrences(t, k - 1) + (IF sleep_waiting[k] = t THEN 1 ELSE 0)
  <2> DEFINE T == {j \in 1 .. k : sleep_waiting[j] = t}
  <2>1. /\ {j \in 1 .. k : sleep_waiting[j] = t} = {j \in 1 .. k : j \in T}
        /\ {j \in 1 .. k - 1 : sleep_waiting[j] = t} = {j \in 1 .. k - 1 : j \in T}
        /\ k \in T <=> sleep_waiting[k] = t
    BY <1>1
  <2> HIDE DEF T
  <2> QED
    BY <1>1, <2>1, CountOneMore DEF Occurrences
<1>3. DueUpTo(k) = DueUpTo(k - 1) + (IF DueAt(k) THEN 1 ELSE 0)
  <2> DEFINE T == {j \in 1 .. k : DueAt(j)}
  <2>1. /\ {j \in 1 .. k : DueAt(j)} = {j \in 1 .. k : j \in T}
        /\ {j \in 1 .. k - 1 : DueAt(j)} = {j \in 1 .. k - 1 : j \in T}
        /\ k \in T <=> DueAt(k)
    BY <1>1
  <2> HIDE DEF T
  <2> QED
    BY <1>1, <2>1, CountOneMore DEF DueUpTo
<1>4. ASSUME NEW m \in Nat, NEW t PROVE Occurrences(t, m) \in 0 .. m /\ DueUpTo(m) \in 0 .. m
  BY CountsAreBounded DEF Occurrences, DueUpTo
<1> QED
  BY <1>1, <1>2, <1>3, <1>4

LEMMA CappedIsQueue ==
  ASSUME NEW queue \in Seq(Threads)
  PROVE  /\ CappedReady(queue) \in Seq(Threads)
         /\ Len(CappedReady(queue)) = IF Len(queue) <= N_THREADS THEN Len(queue) ELSE N_THREADS
         /\ \A i \in 1 .. Len(CappedReady(queue)) : CappedReady(queue)[i] = queue[i]
         /\ Len(queue) \in Nat
<1>1. Len(queue) \in Nat /\ \A i \in 1 .. Len(queue) : queue[i] \in Threads
  BY LenProperties, ElementOfSeq
<1>2. CASE Len(queue) <= N_THREADS
  BY <1>1, <1>2 DEF CappedReady
<1>3. CASE ~(Len(queue) <= N_THREADS)
  <2>1. \A i \in 1 .. N_THREADS : queue[i] \in Threads
    BY <1>1, <1>3, Parameters
  <2> DEFINE c == SubSeq(queue, 1, N_THREADS)
  <2>2. /\ c \in Seq(Threads) /\ Len(c) = IF 1 <= N_THREADS THEN N_THREADS - 1 + 1 ELSE 0
        /\ \A i \in 1 .. N_THREADS - 1 + 1 : c[i] = queue[1 + i - 1]
    BY <2>1, SubSeqProperties, Parameters
  <2>3. CappedReady(queue) = c
    BY <1>3 DEF CappedReady
  <2> HIDE DEF c
  <2>4. Len(c) = N_THREADS /\ \A i \in 1 .. N_THREADS : c[i] = queue[i]
    <3>1. \A i \in 1 .. N_THREADS : 1 + i - 1 = i /\ i \in 1 .. N_THREADS - 1 + 1
      BY Parameters
    <3> QED
      BY <2>2, <3>1, Parameters
  <2> QED
    BY <1>1, <1>3, <2>2, <2>3, <2>4
<1> QED
  BY <1>2, <1>3

\* A push after others that may have been dropped.
LEMMA PushCapped ==
  ASSUME NEW queue \in Seq(Threads), NEW t \in Threads
  PROVE  PushIndex(CappedReady(queue), t, N_THREADS) = CappedReady(Append(queue, t))
<1> DEFINE c == CappedReady(queue)
           a == Append(queue, t)
           d == CappedReady(a)
<1>1. /\ c \in Seq(Threads) /\ Len(queue) \in Nat
      /\ Len(c) = IF Len(queue) <= N_THREADS THEN Len(queue) ELSE N_THREADS
      /\ \A i \in 1 .. Len(c) : c[i] = queue[i]
  BY CappedIsQueue
<1>2. /\ a \in Seq(Threads) /\ Len(a) = Len(queue) + 1
      /\ \A i \in 1 .. Len(queue) : a[i] = queue[i]
      /\ a[Len(queue) + 1] = t
  BY AppendProperties
<1>3. /\ d \in Seq(Threads)
      /\ Len(d) = IF Len(a) <= N_THREADS THEN Len(a) ELSE N_THREADS
      /\ \A i \in 1 .. Len(d) : d[i] = a[i]
  BY <1>2, CappedIsQueue
<1> HIDE DEF c, a, d
<1>4. CASE Len(c) < N_THREADS
  <2>1. Len(queue) < N_THREADS /\ Len(c) = Len(queue) /\ Len(d) = Len(queue) + 1
    BY <1>1, <1>2, <1>3, <1>4, Parameters
  <2>2. PushIndex(c, t, N_THREADS) = Append(c, t)
    BY <1>4 DEF PushIndex, CanPush, Threads
  <2>3. /\ Append(c, t) \in Seq(Threads) /\ Len(Append(c, t)) = Len(c) + 1
        /\ \A i \in 1 .. Len(c) : Append(c, t)[i] = c[i]
        /\ Append(c, t)[Len(c) + 1] = t
    BY <1>1, AppendProperties
  <2>4. \A i \in 1 .. Len(d) : Append(c, t)[i] = d[i]
    <3> SUFFICES ASSUME NEW i \in 1 .. Len(d) PROVE Append(c, t)[i] = d[i]
      OBVIOUS
    <3>1. CASE i = Len(queue) + 1
      BY <1>2, <1>3, <2>1, <2>3, <3>1
    <3>2. CASE i \in 1 .. Len(queue)
      BY <1>1, <1>2, <1>3, <2>1, <2>3, <3>2
    <3> QED
      BY <1>1, <2>1, <3>1, <3>2
  <2>5. Append(c, t) = d
    BY <1>3, <2>1, <2>3, <2>4, SeqEqual
  <2> QED
    BY <2>2, <2>5 DEF c, a, d
<1>5. CASE ~(Len(c) < N_THREADS)
  <2>1. N_THREADS <= Len(queue) /\ Len(c) = N_THREADS /\ Len(d) = N_THREADS
    BY <1>1, <1>2, <1>3, <1>5, Parameters
  <2>2. PushIndex(c, t, N_THREADS) = c
    BY <1>5 DEF PushIndex, CanPush
  <2>3. \A i \in 1 .. Len(c) : c[i] = d[i]
    BY <1>1, <1>2, <1>3, <2>1, Parameters
  <2>4. c = d
    BY <1>1, <1>3, <2>1, <2>3, SeqEqual
  <2> QED
    BY <2>2, <2>4 DEF c, a, d
<1> QED
  BY <1>4, <1>5

\* One decrement after others.
LEMMA DecrementAgain ==
  ASSUME NEW d \in 0 .. SIZE_T - 1, NEW m \in Nat
  PROVE  /\ (((d - m) % SIZE_T) - 1) % SIZE_T = (d - (m + 1)) % SIZE_T
         /\ (d - m) % SIZE_T \in 0 .. SIZE_T - 1
         /\ m < SIZE_T => ((d - m) % SIZE_T = 0 <=> d = m)
<1>1. SIZE_T \in Nat /\ SIZE_T > 0 /\ d - m \in Int
  BY Parameters
<1> DEFINE x == d - m
           q == x \div SIZE_T
           r == x % SIZE_T
<1>2. x = SIZE_T * q + r /\ r \in 0 .. SIZE_T - 1 /\ q \in Int /\ x \in Int
  BY <1>1
<1>3. d - (m + 1) = x - 1
  BY <1>1
<1> HIDE DEF q, r, x
<1>4. (x - 1) % SIZE_T = (r - 1) % SIZE_T
  <2>1. CASE r > 0
    <3>1. x - 1 = SIZE_T * q + (r - 1) /\ r - 1 \in 0 .. SIZE_T - 1
      BY <1>1, <1>2, <2>1
    <3> QED
      BY <1>1, <1>2, <3>1
  <2>2. CASE r = 0
    <3>1. SIZE_T - 1 \in 0 .. SIZE_T - 1 /\ x - 1 = SIZE_T * (q - 1) + (SIZE_T - 1)
          /\ r - 1 = SIZE_T * (0 - 1) + (SIZE_T - 1)
      BY <1>1, <1>2, <2>2
    <3> QED
      BY <1>1, <1>2, <3>1
  <2> QED
    BY <1>2, <2>1, <2>2
<1>5. m < SIZE_T => (r = 0 <=> d = m)
  <2> SUFFICES ASSUME m < SIZE_T PROVE r = 0 <=> d = m
    OBVIOUS
  <2>1. x \in 1 - SIZE_T .. SIZE_T - 1 /\ (x = 0 <=> d = m)
    BY <1>1 DEF x
  <2> QED
    BY <1>1, <1>2, <2>1 DEF r
<1> QED
  BY <1>2, <1>3, <1>4, <1>5 DEF r, x

LEMMA LoopStepReaches ==
  ASSUME TypeOK, NEW k \in Sleepers, NEW s, LoopReaches(s, k - 1)
  PROVE  LoopReaches(LoopStep(s, k), k)
<1> DEFINE n == Len(sleep_waiting)
           t == sleep_waiting[k]
           m == DueUpTo(k - 1)
           left == (s.duration[t] - 1) % SIZE_T
           r == LoopStep(s, k)
<1>1. /\ sleep_waiting \in Seq(Threads) /\ n <= N_THREADS /\ n \in Nat
      /\ thread_indices \in Seq(Threads)
      /\ threads \in [0 .. N_THREADS -> Tcb]
  BY BoundedElim, Parameters DEF TypeOK, Threads
<1>2. k \in 1 .. n /\ k \in Nat /\ k - 1 \in Nat /\ k < SIZE_T /\ n \in Nat
  BY <1>1, Parameters DEF Sleepers
<1>3. t \in Threads /\ t \in 0 .. N_THREADS
  <2>1. t \in Threads
    BY <1>1, <1>2, ElementOfSeq
  <2> QED
    BY <2>1, Parameters DEF Threads
<1>4. /\ DueUpTo(k) = m + (IF DueAt(k) THEN 1 ELSE 0)
      /\ m \in 0 .. k - 1 /\ DueUpTo(k) \in 0 .. k
      /\ \A u : /\ Occurrences(u, k)
                       = Occurrences(u, k - 1) + (IF t = u THEN 1 ELSE 0)
                /\ Occurrences(u, k - 1) \in 0 .. k - 1 /\ Occurrences(u, k) \in 0 .. k
  BY <1>1, DueOneMore
<1>5. DueAreHeads(k) <=> DueAreHeads(k - 1) /\ (DueAt(k) => sleep_waiting[DueUpTo(k)] = t)
  <2>1. 1 .. k = (1 .. k - 1) \cup {k}
    BY <1>2
  <2> QED
    BY <2>1 DEF DueAreHeads
<1>6. CASE ~DueAreHeads(k - 1)
  <2>1. s.panic /\ ~DueAreHeads(k)
    BY <1>5, <1>6 DEF LoopReaches
  <2>2. r = s
    BY <2>1 DEF LoopStep
  <2> QED
    BY <2>1, <2>2 DEF LoopReaches
<1>7. CASE DueAreHeads(k - 1)
  <2>1. /\ ~s.panic
        /\ s.sleep = SubSeq(sleep_waiting, m + 1, n)
        /\ s.ready = CappedReady(thread_indices \o SubSeq(sleep_waiting, 1, m))
        /\ s.duration = [u \in 0 .. N_THREADS |->
                           (threads[u].waiting_duration - Occurrences(u, k - 1)) % SIZE_T]
    BY <1>7 DEF LoopReaches
  <2>2. r = [panic    |-> left = 0 /\ Head(s.sleep) # t,
             sleep    |-> IF left = 0 THEN Tail(s.sleep) ELSE s.sleep,
             ready    |-> IF left = 0 THEN PushIndex(s.ready, t, N_THREADS) ELSE s.ready,
             duration |-> [s.duration EXCEPT ![t] = left]]
    BY <2>1 DEF LoopStep
  <2>3. \A u \in 0 .. N_THREADS : threads[u].waiting_duration \in 0 .. SIZE_T - 1
    BY <1>1 DEF Tcb
  <2> DEFINE d == threads[t].waiting_duration
  <2>4. left = (d - Occurrences(t, k)) % SIZE_T
    <3>1. s.duration[t] = (d - Occurrences(t, k - 1)) % SIZE_T
      BY <1>3, <2>1
    <3>2. Occurrences(t, k) = Occurrences(t, k - 1) + 1 /\ Occurrences(t, k - 1) \in Nat
      BY <1>4
    <3>3. left = (((d - Occurrences(t, k - 1)) % SIZE_T) - 1) % SIZE_T
      BY <3>1
    <3>4. d \in 0 .. SIZE_T - 1
      BY <1>3, <2>3
    <3> HIDE DEF d, left, t
    <3>5. (((d - Occurrences(t, k - 1)) % SIZE_T) - 1) % SIZE_T
             = (d - (Occurrences(t, k - 1) + 1)) % SIZE_T
      BY <3>2, <3>4, DecrementAgain
    <3> QED
      BY <3>2, <3>3, <3>5
  <2>5. left = 0 <=> DueAt(k)
    <3>1. Occurrences(t, k) \in Nat /\ Occurrences(t, k) < SIZE_T
      BY <1>2, <1>4, Parameters
    <3>2. d \in 0 .. SIZE_T - 1
      BY <1>3, <2>3
    <3>3. left = 0 <=> d = Occurrences(t, k)
      <4> HIDE DEF d, left, t
      <4> QED
        BY <2>4, <3>1, <3>2, DecrementAgain
    <3> QED
      BY <3>3 DEF DueAt
  <2> HIDE DEF left, r
  <2>11. /\ r.panic <=> left = 0 /\ Head(s.sleep) # t
         /\ r.sleep = IF left = 0 THEN Tail(s.sleep) ELSE s.sleep
         /\ r.ready = IF left = 0 THEN PushIndex(s.ready, t, N_THREADS) ELSE s.ready
         /\ r.duration = [s.duration EXCEPT ![t] = left]
    BY <2>2
  <2>6. r.duration = [u \in 0 .. N_THREADS |->
                        (threads[u].waiting_duration - Occurrences(u, k)) % SIZE_T]
    <3> DEFINE Old(u) == (threads[u].waiting_duration - Occurrences(u, k - 1)) % SIZE_T
               New(u) == (threads[u].waiting_duration - Occurrences(u, k)) % SIZE_T
    <3>1. \A u : u # t => Occurrences(u, k) = Occurrences(u, k - 1)
      <4> SUFFICES ASSUME NEW u, u # t PROVE Occurrences(u, k) = Occurrences(u, k - 1)
        OBVIOUS
      <4> HIDE DEF t
      <4> QED
        BY <1>4
    <3>2. \A u \in 0 .. N_THREADS : u # t => New(u) = Old(u)
      BY <3>1
    <3>3. s.duration = [u \in 0 .. N_THREADS |-> Old(u)]
      BY <2>1
    <3>4. left = New(t)
      BY <2>4
    <3>5. r.duration = [s.duration EXCEPT ![t] = left]
      BY <2>11
    <3>6. r.duration = [u \in 0 .. N_THREADS |-> New(u)]
      <4> HIDE DEF Old, New, t
      <4> QED
        BY <1>3, <3>2, <3>3, <3>4, <3>5
    <3> QED
      BY <3>6
  <2>7. m \in 0 .. n - 1
    BY <1>2, <1>4
  <2>8. /\ SubSeq(sleep_waiting, 1, m) \in Seq(Threads)
        /\ SubSeq(sleep_waiting, 1, m + 1)
               = Append(SubSeq(sleep_waiting, 1, m), sleep_waiting[m + 1])
        /\ Head(SubSeq(sleep_waiting, m + 1, n)) = sleep_waiting[m + 1]
        /\ Tail(SubSeq(sleep_waiting, m + 1, n)) = SubSeq(sleep_waiting, (m + 1) + 1, n)
    BY <1>1, <2>7, GrownSubSeq
  <2>12. LoopReaches(r, k)
    <3>1. CASE ~DueAt(k)
      <4>1. DueUpTo(k) = m /\ DueAreHeads(k)
        BY <1>4, <1>5, <1>7, <3>1
      <4>2. ~r.panic /\ r.sleep = s.sleep /\ r.ready = s.ready
        BY <2>5, <2>11, <3>1
      <4> QED
        BY <2>1, <2>6, <4>1, <4>2 DEF LoopReaches
    <3>2. CASE DueAt(k)
      <4>1. DueUpTo(k) = m + 1
        BY <1>4, <3>2
      <4>2. DueAreHeads(k) <=> sleep_waiting[m + 1] = t
        BY <1>5, <1>7, <3>2, <4>1
      <4>3. /\ r.panic <=> Head(s.sleep) # t
            /\ r.sleep = Tail(s.sleep)
            /\ r.ready = PushIndex(s.ready, t, N_THREADS)
        BY <2>5, <2>11, <3>2
      <4>4. r.panic <=> ~DueAreHeads(k)
        BY <2>1, <2>8, <4>2, <4>3
      <4>5. r.sleep = SubSeq(sleep_waiting, DueUpTo(k) + 1, n)
        BY <2>1, <2>8, <4>1, <4>3
      <4>6. ASSUME DueAreHeads(k)
            PROVE  r.ready = CappedReady(thread_indices \o SubSeq(sleep_waiting, 1, DueUpTo(k)))
        <5> DEFINE w == SubSeq(sleep_waiting, 1, m)
        <5>1. SubSeq(sleep_waiting, 1, m + 1) = Append(w, t)
          BY <2>8, <4>2, <4>6
        <5>2. w \in Seq(Threads)
          BY <2>8
        <5>3. s.ready = CappedReady(thread_indices \o w)
          BY <2>1
        <5> HIDE DEF w, t
        <5>4. thread_indices \o w \in Seq(Threads)
          BY <1>1, <5>2, ConcatProperties
        <5>5. thread_indices \o Append(w, t) = Append(thread_indices \o w, t)
          BY <1>1, <1>3, <5>2, ConcatAppend
        <5>6. PushIndex(s.ready, t, N_THREADS) = CappedReady(Append(thread_indices \o w, t))
          BY <1>3, <5>3, <5>4, PushCapped
        <5> QED
          BY <4>1, <4>3, <5>1, <5>5, <5>6
      <4> QED
        BY <2>6, <4>4, <4>5, <4>6 DEF LoopReaches
    <3> QED
      BY <3>1, <3>2
  <2> QED
    BY <2>12 DEF r
<1> QED
  BY <1>6, <1>7

\* What the loop has made of the queues after each of its steps.
LEMMA LoopReachesAlways ==
  ASSUME TypeOK
  PROVE  \A k \in 0 .. Len(sleep_waiting) : LoopReaches(Loop[k], k)
<1> DEFINE n == Len(sleep_waiting)
           T == {k \in 0 .. n : LoopReaches(Loop[k], k)}
<1>1. /\ sleep_waiting \in Seq(Threads) /\ n \in Nat
      /\ thread_indices \in Seq(Threads) /\ Len(thread_indices) <= N_THREADS
      /\ threads \in [0 .. N_THREADS -> Tcb]
  BY BoundedElim, Parameters DEF TypeOK, Threads
<1>2. LoopReaches(Loop[0], 0)
  <2>1. Loop[0] = LoopStart
    BY <1>1, LoopEquation
  <2>2. DueUpTo(0) = 0 /\ \A t : Occurrences(t, 0) = 0
    <3>1. DueUpTo(0) \in 0 .. 0 /\ \A t : Occurrences(t, 0) \in 0 .. 0
      BY CountsAreBounded DEF Occurrences, DueUpTo
    <3> QED
      BY <3>1
  <2>3. DueAreHeads(0)
    BY DEF DueAreHeads
  <2>4. /\ SubSeq(sleep_waiting, 1, 0) = <<>>
        /\ SubSeq(sleep_waiting, 0 + 1, n) = sleep_waiting
        /\ thread_indices \o <<>> = thread_indices
    BY <1>1, EmptyPrefix
  <2>5. CappedReady(thread_indices) = thread_indices
    BY <1>1 DEF CappedReady
  <2>6. \A t \in 0 .. N_THREADS :
           threads[t].waiting_duration = (threads[t].waiting_duration - Occurrences(t, 0)) % SIZE_T
    <3> SUFFICES ASSUME NEW t \in 0 .. N_THREADS
                 PROVE  threads[t].waiting_duration
                            = (threads[t].waiting_duration - Occurrences(t, 0)) % SIZE_T
      OBVIOUS
    <3> DEFINE d == threads[t].waiting_duration
    <3>1. d \in 0 .. SIZE_T - 1
      BY <1>1 DEF Tcb
    <3> HIDE DEF d
    <3>2. d = (d - 0) % SIZE_T
      BY <3>1, Parameters
    <3>3. d = (d - Occurrences(t, 0)) % SIZE_T
      BY <2>2, <3>2
    <3> QED
      BY <3>3 DEF d
  <2>7. LoopReaches(LoopStart, 0)
    BY <2>2, <2>3, <2>4, <2>5, <2>6 DEF LoopReaches, LoopStart
  <2> QED
    BY <2>1, <2>7
<1>3. ASSUME NEW k \in 0 .. n - 1, LoopReaches(Loop[k], k) PROVE LoopReaches(Loop[k + 1], k + 1)
  <2>1. k + 1 \in Sleepers /\ (k + 1) - 1 = k
    BY <1>1 DEF Sleepers
  <2>2. Loop[k + 1] = LoopStep(Loop[(k + 1) - 1], k + 1)
    BY <1>1, <2>1, LoopEquation
  <2>3. Loop[k + 1] = LoopStep(Loop[k], k + 1)
    BY <2>1, <2>2
  <2>4. LoopReaches(Loop[k], (k + 1) - 1)
    BY <1>3, <2>1
  <2>5. LoopReaches(LoopStep(Loop[k], k + 1), k + 1)
    BY <2>1, <2>4, LoopStepReaches
  <2> QED
    BY <2>3, <2>5
<1>4. 0 \in T
  BY <1>1, <1>2
<1>5. \A k \in 0 .. n - 1 : k \in T => k + 1 \in T
  BY <1>1, <1>3
<1> HIDE DEF T
<1>6. \A k \in 0 .. n : k \in T
  <2> HIDE DEF n
  <2> QED
    BY <1>1, <1>4, <1>5, UpToInduction
<1> QED
  BY <1>6 DEF T

LEMMA LoopIsDecrement ==
  ASSUME TypeOK
  PROVE  DecrementIsTheLoop
<1> DEFINE n == Len(sleep_waiting)
<1>1. /\ sleep_waiting \in Seq(Threads) /\ n \in Nat
      /\ threads \in [0 .. N_THREADS -> Tcb]
  BY BoundedElim, Parameters DEF TypeOK, Threads
<1>2. LoopReaches(LoopEnd, n)
  BY <1>1, LoopReachesAlways DEF LoopEnd
<1>3. HeadsAreDue <=> DueAreHeads(n)
  BY DEF HeadsAreDue, DueAreHeads, Sleepers
<1>4. DueUpTo(n) \in 0 .. n
  BY <1>1, CountsAreBounded DEF DueUpTo
<1>5. Len(Woken) = DueUpTo(n)
  <2>1. \A i \in 1 .. DueUpTo(n) : sleep_waiting[i] \in Threads
    BY <1>1, <1>4, ElementOfSeq
  <2>2. Len(SubSeq(sleep_waiting, 1, DueUpTo(n)))
           = IF 1 <= DueUpTo(n) THEN DueUpTo(n) - 1 + 1 ELSE 0
    BY <1>4, <2>1, SubSeqProperties
  <2> QED
    BY <1>4, <2>2 DEF Woken
<1>6. WithWoken = CappedReady(thread_indices \o SubSeq(sleep_waiting, 1, DueUpTo(n)))
  BY DEF WithWoken, CappedReady, Woken
<1>7. ASSUME NEW t \in 0 .. N_THREADS
      PROVE  Decremented[t].waiting_duration
                 = (threads[t].waiting_duration - Occurrences(t, n)) % SIZE_T
  <2>1. Decremented[t] = [threads[t] EXCEPT !.waiting_duration = (@ - Occurrences(t, n)) % SIZE_T]
    BY <1>1 DEF Decremented
  <2>2. threads[t] \in Tcb
    BY <1>1
  <2> QED
    BY <2>1, <2>2 DEF Tcb
<1>8. CASE HeadsAreDue
  <2>1. /\ ~LoopEnd.panic
        /\ LoopEnd.sleep = SubSeq(sleep_waiting, DueUpTo(n) + 1, n)
        /\ LoopEnd.ready = WithWoken
        /\ LoopEnd.duration = [t \in 0 .. N_THREADS |->
                                 (threads[t].waiting_duration - Occurrences(t, n)) % SIZE_T]
    BY <1>2, <1>3, <1>6, <1>8 DEF LoopReaches
  <2>2. LoopEnd.sleep = SubSeq(sleep_waiting, Len(Woken) + 1, n)
    BY <1>5, <2>1
  <2>3. \A t \in 0 .. N_THREADS : LoopEnd.duration[t] = Decremented[t].waiting_duration
    BY <1>7, <2>1
  <2> QED
    BY <1>8, <2>1, <2>2, <2>3 DEF DecrementIsTheLoop
<1>9. CASE ~HeadsAreDue
  <2>1. LoopEnd.panic
    BY <1>2, <1>3, <1>9 DEF LoopReaches
  <2> QED
    BY <1>9, <2>1 DEF DecrementIsTheLoop
<1> QED
  BY <1>8, <1>9

-----------------------------------------------------------------------------
(* The theorems about every behaviour.                                      *)

LEMMA StepIInv == IInv /\ [Next]_vars => IInv'
<1> SUFFICES ASSUME IInv, [Next]_vars PROVE IInv'
  OBVIOUS
<1>1. ASSUME UNCHANGED vars PROVE IInv'
  BY <1>1 DEF vars, IInv, TypeOK, ContextMatchesRunning, CharWaitersMeanEmptyBuffer,
              TcbsBacked, Backed, RunningWasCreated, Running
<1>2. CASE timer_irq
  BY <1>2, TimerKeeps
<1>3. CASE uart_irq
  BY <1>3, UartKeeps
<1>4. CASE exec_syscall_exit
  BY <1>4, KillKeeps DEF exec_syscall_exit
<1>5. CASE kill_offender
  BY <1>5, KillKeeps DEF kill_offender
<1>6. CASE exec_syscall_get_char
  BY <1>6, GetCharKeeps
<1>7. ASSUME NEW duration \in Durations, exec_syscall_wait(duration) PROVE IInv'
  BY <1>7, WaitKeeps
<1>8. ASSUME NEW valid \in BOOLEAN, NEW frame \in Frames, exec_syscall_fork(valid, frame) PROVE IInv'
  BY <1>8, ForkKeeps
<1>9. ASSUME NEW valid \in BOOLEAN, exec_syscall_create_thread(valid) PROVE IInv'
  BY <1>9, CreateThreadKeeps
<1>10. CASE kendless_loop
  BY <1>1, <1>10 DEF kendless_loop
<1> QED
  BY <1>1, <1>2, <1>3, <1>4, <1>5, <1>6, <1>7, <1>8, <1>9, <1>10 DEF Next

LEMMA InductiveInvariant == Spec => []IInv
  BY InitIInv, StepIInv, PTL DEF Spec

\* Whatever threads do and whatever has gone wrong before, no queue of the
\* scheduler outgrows its array and no index in one is outside the tables it
\* indexes (scheduler.c, thread.c, process.c).
THEOREM SchedulerTypes == Spec => []TypeOK
  BY InductiveInvariant, PTL DEF IInv

\* While the kernel runs, the registers and page table loaded are those of
\* running_thread; in particular the branch "Losing the thread!" of
\* scheduler_cycle (scheduler.c:219-223), which skips switch_context, is dead.
THEOREM ContextAlwaysMatches == Spec => []ContextMatchesRunning
  BY InductiveInvariant, PTL DEF IInv

\* No thread ever waits for a character that is already in the buffer
\* (calls.c:56-69, scheduler.c:337-359).
THEOREM NoWaiterMissesACharacter == Spec => []CharWaitersMeanEmptyBuffer
  BY InductiveInvariant, PTL DEF IInv

\* The operators that stand for decrement_waits are the result of its loop
\* (scheduler.c:61-89), however long the queues are and whatever they hold.
THEOREM LoopRefinesDecrement == Spec => []DecrementIsTheLoop
<1>1. Spec => []TypeOK
  BY SchedulerTypes
<1>2. TypeOK => DecrementIsTheLoop
  BY LoopIsDecrement
<1> QED
  BY <1>1, <1>2, PTL

-----------------------------------------------------------------------------
(* The second part.  The invariant's parts are operators on the variables,  *)
(* so that the state in the middle of a handler can be spoken of too.       *)

\* The threads there are.
AliveIn(ready, asleep, reading, run) ==
    {t \in Threads : t \in Range(ready) \/ t \in Range(asleep) \/ t \in Range(reading) \/ t = run}

\* No thread is in two of its places, nor in one of them twice.
Apart(ready, asleep, reading, run) ==
    /\ IsInjective(ready) /\ IsInjective(asleep) /\ IsInjective(reading)
    /\ \A t \in Threads : /\ ~(t \in Range(ready) /\ t \in Range(asleep))
                          /\ ~(t \in Range(ready) /\ t \in Range(reading))
                          /\ ~(t \in Range(asleep) /\ t \in Range(reading))
    /\ run \notin Range(ready) /\ run \notin Range(asleep) /\ run \notin Range(reading)

\* The tcb of a thread names its process and its index there.
Registered(tcbs, live, alive) ==
    \A t \in alive : /\ tcbs[t].process \in live
                     /\ tcbs[t].index \in Locals
                     /\ t = GlobalIndex(tcbs[t].process, tcbs[t].index)

\* The array of free indices of process p: a ring that holds, once each, the
\* indices no thread has.
OwnArray(p, pcb, mem, alive) ==
    /\ pcb.indices \in Frames
    /\ pcb.tail = Wrap(pcb.head + pcb.count, N_THREADS_PER_PROCESS)
    /\ IsInjective(Contents(Deref(pcb, mem)))
    /\ \A i \in Locals : i \in Range(Contents(Deref(pcb, mem))) <=> GlobalIndex(p, i) \notin alive

\* No two live processes have their arrays at the same place.
Arrays(pcbs, mem, live, alive) ==
    /\ \A p \in live : OwnArray(p, pcbs[p], mem, alive)
    /\ \A p, r \in live : pcbs[p].indices = pcbs[r].indices => p = r

\* A live process has a thread.
Inhabited(pcbs, live) == \A p \in live : pcbs[p].count < N_THREADS_PER_PROCESS

\* WAITING marks the threads in the queue for characters.
Marked(tcbs, reading) ==
    /\ \A t \in Threads : tcbs[t].state = "WAITING" <=> t \in Range(reading)
    /\ tcbs[NullThread].state = "READY"

\* Sleepers have ticks left.
HaveTimeLeft(tcbs, asleep) == \A t \in Range(asleep) : tcbs[t].waiting_duration > 0

Alive1 == AliveIn(thread_indices, sleep_waiting, char_waiting, running_thread)

Accounts ==
    /\ Apart(thread_indices, sleep_waiting, char_waiting, running_thread)
    /\ Registered(threads, LiveProcesses, Alive1)
    /\ Arrays(processes, frames, LiveProcesses, Alive1)
    /\ Inhabited(processes, LiveProcesses)
    /\ IsInjective(free_process_indices)
    /\ Marked(threads, char_waiting)
    /\ HaveTimeLeft(threads, sleep_waiting)

AInv == (Undamaged => Accounts) /\ OnlySleepOrderHalts

-----------------------------------------------------------------------------
(* Global indices.                                                          *)

\* A product spaces out what it numbers.
LEMMA Spaced ==
  ASSUME NEW n \in Nat, NEW i \in 1 .. n, NEW k \in 1 .. n, NEW a \in Nat, NEW b \in Nat,
         a * n + i = b * n + k
  PROVE  a = b /\ i = k
<1>1. a * n \in Nat /\ b * n \in Nat
  OBVIOUS
<1>2. ASSUME a < b PROVE FALSE
  <2>1. (a + 1) * n <= b * n
    BY <1>2
  <2>2. (a + 1) * n = a * n + n
    OBVIOUS
  <2> DEFINE x == a * n
             y == b * n
  <2>3. x \in Nat /\ y \in Nat /\ x + n <= y /\ x + i = y + k
    BY <1>1, <2>1, <2>2
  <2> HIDE DEF x, y
  <2> QED
    BY <2>3
<1>3. ASSUME b < a PROVE FALSE
  <2>1. (b + 1) * n <= a * n
    BY <1>3
  <2>2. (b + 1) * n = b * n + n
    OBVIOUS
  <2> DEFINE x == a * n
             y == b * n
  <2>3. x \in Nat /\ y \in Nat /\ y + n <= x /\ x + i = y + k
    BY <1>1, <2>1, <2>2
  <2> HIDE DEF x, y
  <2> QED
    BY <2>3
<1>4. a = b
  BY <1>2, <1>3
<1> QED
  BY <1>1, <1>4

\* Different threads have different tcbs (get_global_thread_index).
LEMMA GlobalIndexInjective ==
  ASSUME NEW p \in Processes, NEW r \in Processes, NEW i \in Locals, NEW k \in Locals,
         GlobalIndex(p, i) = GlobalIndex(r, k)
  PROVE  p = r /\ i = k
<1> DEFINE n == N_THREADS_PER_PROCESS
           a == p - 1
           b == r - 1
<1>1. /\ n \in Nat /\ a \in Nat /\ b \in Nat /\ i \in 1 .. n /\ k \in 1 .. n
      /\ p = a + 1 /\ r = b + 1
  BY Parameters DEF Processes, Locals
<1>2. a * n + i = b * n + k
  BY DEF GlobalIndex
<1> HIDE DEF n, a, b
<1>3. a = b /\ i = k
  BY <1>1, <1>2, Spaced
<1> QED
  BY <1>1, <1>3

\* Every thread of every process has a tcb.
LEMMA GlobalIndexIsThread ==
  ASSUME NEW p \in Processes, NEW i \in Locals
  PROVE  GlobalIndex(p, i) \in Threads
<1> DEFINE n == N_THREADS_PER_PROCESS
           m == N_PROCESSES
           a == (p - 1) * n
<1>1. n \in Nat /\ m \in Nat /\ p \in 1 .. m /\ i \in 1 .. n
  BY Parameters DEF Processes, Locals
<1> HIDE DEF n, m
<1>2. a \in Nat /\ a + n <= m * n /\ m * n \in Nat
  <2>1. a + n = p * n /\ a \in Nat
    BY <1>1
  <2>2. p * n <= m * n
    BY <1>1
  <2> QED
    BY <1>1, <2>1, <2>2
<1>3. m * n = N_THREADS /\ GlobalIndex(p, i) = a + i
  BY DEF m, n, N_THREADS, GlobalIndex
<1> HIDE DEF a
<1>4. a + i \in 1 .. N_THREADS
  BY <1>1, <1>2, <1>3
<1> QED
  BY <1>3, <1>4 DEF Threads

-----------------------------------------------------------------------------
(* The array of free indices of one process.                                *)

Memory == [Frames -> [LocalSlots -> Locals]]

\* A pcb with its array is a ring with the pcb's fields.
LEMMA DerefFields ==
  ASSUME NEW pcb \in Pcb, NEW memory \in Memory, pcb.indices \in Frames
  PROVE  /\ Deref(pcb, memory) \in Rings(N_THREADS_PER_PROCESS, Locals)
         /\ Deref(pcb, memory).size = N_THREADS_PER_PROCESS
         /\ Deref(pcb, memory).count = pcb.count
         /\ Deref(pcb, memory).head = pcb.head
         /\ Deref(pcb, memory).tail = pcb.tail
         /\ Deref(pcb, memory).indices = memory[pcb.indices]
         /\ Contents(Deref(pcb, memory)) \in Seq(Locals)
         /\ Len(Contents(Deref(pcb, memory))) = pcb.count
         /\ pcb.count \in 0 .. N_THREADS_PER_PROCESS
<1>1. /\ Deref(pcb, memory) \in Rings(N_THREADS_PER_PROCESS, Locals)
      /\ Deref(pcb, memory).size = N_THREADS_PER_PROCESS
      /\ Deref(pcb, memory).count = pcb.count
  BY DerefIsRing DEF Memory
<1>2. /\ Deref(pcb, memory).head = pcb.head
      /\ Deref(pcb, memory).tail = pcb.tail
      /\ Deref(pcb, memory).indices = memory[pcb.indices]
  BY DEF Deref, Pcb
<1> DEFINE ring == Deref(pcb, memory)
<1> HIDE DEF ring
<1>3. Contents(ring) \in Seq(Locals) /\ Len(Contents(ring)) = ring.count
  <2>1. N_THREADS_PER_PROCESS \in Nat /\ ring \in Rings(N_THREADS_PER_PROCESS, Locals)
    BY <1>1, Parameters DEF ring
  <2> QED
    BY <2>1, RingContents
<1> QED
  BY <1>1, <1>2, <1>3 DEF ring, Pcb

\* Nothing changes in an array nobody writes while the threads of its process
\* stay the same.
LEMMA OtherArray ==
  ASSUME NEW p, NEW pcb, NEW memory, NEW alive, OwnArray(p, pcb, memory, alive),
         NEW memory1, memory1[pcb.indices] = memory[pcb.indices],
         NEW alive1, \A i \in Locals : GlobalIndex(p, i) \in alive <=> GlobalIndex(p, i) \in alive1
  PROVE  OwnArray(p, pcb, memory1, alive1)
<1>1. Deref(pcb, memory1) = Deref(pcb, memory)
  BY DEF Deref
<1> QED
  BY <1>1 DEF OwnArray

\* The array of a process that has no thread yet.
LEMMA NewArray ==
  ASSUME NEW p, NEW frame \in Frames, NEW memory \in Memory,
         memory[frame] = AllFree(N_THREADS_PER_PROCESS).indices,
         NEW alive, \A i \in Locals : GlobalIndex(p, i) \notin alive
  PROVE  /\ OwnArray(p, NewPcb(frame), memory, alive)
         /\ NewPcb(frame).count = N_THREADS_PER_PROCESS
<1> DEFINE n    == N_THREADS_PER_PROCESS
           pcb  == NewPcb(frame)
           ring == AllFree(n)
           all  == [k \in 1 .. n |-> k]
<1>1. n \in Nat /\ n > 0
  BY Parameters
<1>2. /\ ring \in Rings(n, 1 .. n)
      /\ ring.tail = Wrap(ring.head + ring.count, n)
      /\ ring.count = n
      /\ Contents(ring) = all
  <2> HIDE DEF n
  <2> QED
    BY <1>1, AllFreeContents
<1>3. pcb = [ring EXCEPT !.indices = frame]
  BY DEF NewPcb
<1> HIDE DEF ring, pcb
<1>4. /\ pcb.indices = frame /\ pcb.count = n
      /\ pcb.tail = Wrap(pcb.head + pcb.count, n)
  BY <1>2, <1>3 DEF Rings
<1>5. Deref(pcb, memory) = ring
  BY <1>2, <1>3, <1>4 DEF Deref, Rings, ring
<1>6. IsInjective(all) /\ \A i \in Locals : i \in Range(all)
  BY DEF IsInjective, Range, Locals
<1> HIDE DEF n, all
<1>7. OwnArray(p, pcb, memory, alive)
  BY <1>2, <1>4, <1>5, <1>6 DEF OwnArray, n
<1> QED
  BY <1>4, <1>7 DEF pcb, n

\* thread_create takes an index no thread has, and the rest of the array stays
\* what no thread has.
LEMMA TakenIndex ==
  ASSUME NEW p \in Processes, NEW pcb \in Pcb, NEW memory \in Memory, NEW alive,
         OwnArray(p, pcb, memory, alive), pcb.count # 0,
         NEW index, index = memory[pcb.indices][pcb.head]
  PROVE  /\ index \in Locals
         /\ GlobalIndex(p, index) \notin alive
         /\ Popped(pcb).count = pcb.count - 1
         /\ Popped(pcb).indices = pcb.indices
         /\ OwnArray(p, Popped(pcb), memory, alive \cup {GlobalIndex(p, index)})
<1> DEFINE n    == N_THREADS_PER_PROCESS
           ring == Deref(pcb, memory)
           s    == Contents(ring)
           one  == Popped(pcb)
           more == alive \cup {GlobalIndex(p, index)}
<1>1. /\ pcb.indices \in Frames
      /\ pcb.tail = Wrap(pcb.head + pcb.count, n)
      /\ IsInjective(s)
      /\ \A i \in Locals : i \in Range(s) <=> GlobalIndex(p, i) \notin alive
  BY DEF OwnArray
<1>2. /\ n \in Nat /\ ring \in Rings(n, Locals) /\ ring.size = n
      /\ ring.count = pcb.count /\ ring.head = pcb.head
      /\ ring.tail = pcb.tail /\ ring.indices = memory[pcb.indices] /\ s \in Seq(Locals)
  BY <1>1, DerefFields, Parameters
<1>3. Popped(ring) = Deref(one, memory)
  BY <1>1 DEF Popped, Deref, Pcb
<1>4. /\ one.count = pcb.count - 1 /\ one.indices = pcb.indices
      /\ one.head = CircleForward(pcb.head, n) /\ one.tail = pcb.tail
  BY DEF Popped, Pcb
<1> HIDE DEF ring, one, n
<1>5. /\ s # <<>> /\ ring.indices[ring.head] = Head(s) /\ Contents(Popped(ring)) = Tail(s)
      /\ Popped(ring).tail = Wrap(Popped(ring).head + Popped(ring).count, n)
  <2>1. ring.tail = Wrap(ring.head + ring.count, n) /\ ring.count # 0
    BY <1>1, <1>2
  <2> QED
    BY <1>2, <2>1, PoppedContents
<1>6. index = Head(s)
  BY <1>2, <1>5
<1> HIDE DEF s
<1>7. /\ index \in Locals /\ IsInjective(Tail(s)) /\ index \in Range(s)
      /\ Range(Tail(s)) = Range(s) \ {index}
  BY <1>1, <1>2, <1>5, <1>6, TailOfInjective
<1>8. GlobalIndex(p, index) \notin alive
  BY <1>1, <1>7
<1>9. \A i \in Locals : i \in Range(Tail(s)) <=> GlobalIndex(p, i) \notin more
  <2> SUFFICES ASSUME NEW i \in Locals PROVE i \in Range(Tail(s)) <=> GlobalIndex(p, i) \notin more
    OBVIOUS
  <2>1. GlobalIndex(p, i) = GlobalIndex(p, index) <=> i = index
    BY <1>7, GlobalIndexInjective
  <2> QED
    BY <1>1, <1>7, <2>1
<1>10. one.tail = Wrap(one.head + one.count, n)
  <2>1. Popped(ring).tail = ring.tail /\ Popped(ring).head = CircleForward(ring.head, n)
        /\ Popped(ring).count = ring.count - 1
    BY <1>1, <1>2, PoppedRing
  <2> QED
    BY <1>2, <1>4, <1>5, <2>1
<1> HIDE DEF more
<1>11. OwnArray(p, one, memory, more)
  BY <1>1, <1>3, <1>4, <1>5, <1>7, <1>9, <1>10 DEF OwnArray, n
<1> QED
  BY <1>4, <1>7, <1>8, <1>11 DEF one, more

\* A push on the ring of a pcb.
LEMMA PushedDeref ==
  ASSUME NEW pcb \in Pcb, NEW memory \in Memory, pcb.indices \in Frames, NEW index \in Locals,
         pcb.count < N_THREADS_PER_PROCESS
  PROVE  /\ Pushed(Deref(pcb, memory), index) \in Rings(N_THREADS_PER_PROCESS, Locals)
         /\ Pushed(Deref(pcb, memory), index).size = N_THREADS_PER_PROCESS
         /\ Pushed(Deref(pcb, memory), index).count = Deref(pcb, memory).count + 1
         /\ Pushed(Deref(pcb, memory), index).head = Deref(pcb, memory).head
         /\ Pushed(Deref(pcb, memory), index).tail
                = CircleForward(Deref(pcb, memory).tail, N_THREADS_PER_PROCESS)
<1> DEFINE n    == N_THREADS_PER_PROCESS
           ring == Deref(pcb, memory)
           E    == Locals
<1>1. n \in Nat /\ ring \in Rings(n, E) /\ ring.count < n /\ index \in E
  BY DerefFields, Parameters
<1> HIDE DEF n, ring, E
<1>2. /\ Pushed(ring, index) \in Rings(n, E)
      /\ Pushed(ring, index).size = n
      /\ Pushed(ring, index).count = ring.count + 1
      /\ Pushed(ring, index).head = ring.head
      /\ Pushed(ring, index).tail = CircleForward(ring.tail, n)
      /\ Pushed(ring, index).indices = [ring.indices EXCEPT ![ring.tail] = index]
  BY <1>1, PushedRing
<1> QED
  BY <1>2 DEF n, ring, E

\* freed is the ring of process p with index put back, one, memory1 and less
\* are what its pcb, the arrays and the threads that are alive then are.
PutBack(p, pcb, memory, alive, index, freed, one, memory1, less) ==
    /\ freed = Pushed(Deref(pcb, memory), index)
    /\ one = [freed EXCEPT !.indices = pcb.indices]
    /\ memory1 = [memory EXCEPT ![pcb.indices] = freed.indices]
    /\ less = alive \ {GlobalIndex(p, index)}

\* kill_cur_thread puts back an index that was not there, and the array is then
\* that of the threads left.
LEMMA ReturnedIndex ==
  ASSUME NEW p \in Processes, NEW pcb \in Pcb, NEW memory \in Memory, NEW alive,
         OwnArray(p, pcb, memory, alive), pcb.count < N_THREADS_PER_PROCESS,
         NEW index \in Locals, GlobalIndex(p, index) \in alive,
         NEW freed, NEW one, NEW memory1, NEW less,
         PutBack(p, pcb, memory, alive, index, freed, one, memory1, less)
  PROVE  /\ ~Rejects(Deref(pcb, memory), index)
         /\ one.count = pcb.count + 1 /\ one.indices = pcb.indices
         /\ one.size = N_THREADS_PER_PROCESS
         /\ OwnArray(p, one, memory1, less)
         /\ one.count >= N_THREADS_PER_PROCESS
               => \A i \in Locals : GlobalIndex(p, i) \notin less
<1> DEFINE n    == N_THREADS_PER_PROCESS
           ring == Deref(pcb, memory)
           s    == Contents(ring)
           t    == Append(s, index)
<1>0. /\ freed = Pushed(ring, index)
      /\ one = [freed EXCEPT !.indices = pcb.indices]
      /\ memory1 = [memory EXCEPT ![pcb.indices] = freed.indices]
      /\ less = alive \ {GlobalIndex(p, index)}
  BY DEF PutBack
<1>1. /\ pcb.indices \in Frames
      /\ pcb.tail = Wrap(pcb.head + pcb.count, n)
      /\ IsInjective(s)
      /\ \A i \in Locals : i \in Range(s) <=> GlobalIndex(p, i) \notin alive
  BY DEF OwnArray
<1>2. /\ n \in Nat /\ ring \in Rings(n, Locals) /\ ring.size = n
      /\ ring.count = pcb.count /\ ring.head = pcb.head
      /\ ring.tail = pcb.tail /\ ring.indices = memory[pcb.indices] /\ s \in Seq(Locals)
      /\ Len(s) = pcb.count /\ pcb.count \in Nat
  BY <1>1, DerefFields, Parameters
<1>3. ~Rejects(ring, index) /\ ring.count < n
  BY <1>2 DEF Rejects, Locals
<1> HIDE DEF ring, n
<1>4. /\ freed \in Rings(n, Locals) /\ freed.size = n /\ freed.count = ring.count + 1
      /\ freed.head = ring.head /\ freed.tail = CircleForward(ring.tail, n)
  BY <1>0, <1>1, <1>2, <1>3, PushedDeref DEF ring, n
<1>5. /\ Contents(freed) = t
      /\ freed.tail = Wrap(freed.head + freed.count, n)
  <2>1. ring.tail = Wrap(ring.head + ring.count, n) /\ freed = Pushed(ring, index)
    BY <1>0, <1>1, <1>2 DEF ring
  <2> HIDE DEF s
  <2> QED
    BY <1>2, <1>3, <2>1, PushedContents DEF s
<1>6. /\ one.count = pcb.count + 1 /\ one.indices = pcb.indices /\ one.size = n
      /\ one.tail = Wrap(one.head + one.count, n)
  BY <1>0, <1>2, <1>4, <1>5 DEF Rings
<1>7. Deref(one, memory1) = freed
  <2>1. memory1[pcb.indices] = freed.indices
    BY <1>0, <1>1 DEF Memory
  <2> QED
    BY <1>0, <1>4, <1>6, <2>1 DEF Deref, Rings
<1>8. index \notin Range(s)
  BY <1>1
<1> HIDE DEF s
<1>9. t \in Seq(Locals) /\ IsInjective(t) /\ Range(t) = Range(s) \cup {index}
  BY <1>1, <1>2, <1>8, AppendToInjective
<1>10. Len(t) = pcb.count + 1
  BY <1>2, AppendProperties
<1> HIDE DEF t
<1>11. \A i \in Locals : i \in Range(t) <=> GlobalIndex(p, i) \notin less
  <2> SUFFICES ASSUME NEW i \in Locals PROVE i \in Range(t) <=> GlobalIndex(p, i) \notin less
    OBVIOUS
  <2>1. GlobalIndex(p, i) = GlobalIndex(p, index) <=> i = index
    BY GlobalIndexInjective
  <2> QED
    BY <1>0, <1>1, <1>9, <2>1
<1>12. ASSUME one.count >= n PROVE \A i \in Locals : GlobalIndex(p, i) \notin less
  <2>1. t \in Seq(1 .. n) /\ Len(t) >= n
    BY <1>6, <1>9, <1>10, <1>12 DEF Locals, n
  <2>2. Range(t) = Locals
    BY <1>2, <1>9, <2>1, InjectiveInInterval DEF Locals, n
  <2> QED
    BY <1>11, <2>2
<1>13. OwnArray(p, one, memory1, less)
  BY <1>1, <1>5, <1>6, <1>7, <1>9, <1>11 DEF OwnArray, n
<1> QED
  BY <1>3, <1>6, <1>12, <1>13 DEF n, ring

-----------------------------------------------------------------------------
(* Threads move from one place to another.                                  *)

\* The queues of threads hold threads, and the null thread is none.
LEMMA QueueTypes ==
  ASSUME TypeOK
  PROVE  /\ thread_indices \in Seq(Threads) /\ Range(thread_indices) \subseteq Threads
         /\ sleep_waiting \in Seq(Threads) /\ Range(sleep_waiting) \subseteq Threads
         /\ char_waiting \in Seq(Threads) /\ Range(char_waiting) \subseteq Threads
         /\ free_process_indices \in Seq(Processes) /\ Range(free_process_indices) \subseteq Processes
         /\ NullThread \notin Threads
         /\ running_thread \in Threads \cup {NullThread}
<1>1. /\ thread_indices \in Seq(Threads) /\ sleep_waiting \in Seq(Threads)
      /\ char_waiting \in Seq(Threads) /\ free_process_indices \in Seq(Processes)
  BY Parameters, BoundedElim DEF TypeOK, Threads, Processes
<1>2. /\ Range(thread_indices) \subseteq Threads /\ Range(sleep_waiting) \subseteq Threads
      /\ Range(char_waiting) \subseteq Threads /\ Range(free_process_indices) \subseteq Processes
  BY <1>1, ElementsOfSeq
<1> QED
  BY <1>1, <1>2, Parameters DEF TypeOK, Threads, NullThread

\* A thread that is alive names its process, a live one, and its own tcb.
LEMMA AliveIsRegistered ==
  ASSUME TypeOK, Accounts, NEW t \in Alive1
  PROVE  /\ t \in Threads
         /\ threads[t].process \in LiveProcesses
         /\ threads[t].process \in Processes
         /\ threads[t].index \in Locals
         /\ threads[t].index # 0
         /\ t = GlobalIndex(threads[t].process, threads[t].index)
         /\ get_global_thread_index(t) = t
<1>1. /\ t \in Threads /\ threads[t].process \in LiveProcesses /\ threads[t].index \in Locals
      /\ t = GlobalIndex(threads[t].process, threads[t].index)
  BY DEF Accounts, Registered, Alive1, AliveIn
<1>2. threads[t].process \in Processes /\ threads[t].process # 0 /\ threads[t].index # 0
  BY <1>1 DEF LiveProcesses, Processes, Locals
<1> QED
  BY <1>1, <1>2 DEF get_global_thread_index

\* What scheduler_cycle does when it gives every thread back under its own
\* index: the ready threads and old stay the ready and the running ones.
Moved(ready, old, ready1, run1) ==
    /\ ready1 \in Seq(Threads) /\ IsInjective(ready1)
    /\ run1 \notin Range(ready1)
    /\ run1 \in Threads \cup {NullThread}
    /\ \A t \in Threads : t \in Range(ready1) \/ t = run1 <=> t \in Range(ready) \/ t = old

\* Who has the turn then.
Turned(ready, old, ready1, run1) ==
    \/ ready = <<>> /\ ready1 = <<>> /\ run1 = old
    \/ /\ ready # <<>>
       /\ run1 = Head(ready)
       /\ ready1 = IF old = NullThread THEN Tail(ready) ELSE Append(Tail(ready), old)

LEMMA CycleMoves ==
  ASSUME TypeOK, Accounts, NEW ready \in BoundedQueue(N_THREADS), IsInjective(ready),
         NEW old \in 0 .. N_THREADS, old \notin Range(ready),
         \A t \in Threads : t \in Range(ready) \/ t = old => t \in Alive1,
         Cycle(ready, old, old), defects' = {}
  PROVE  /\ Moved(ready, old, thread_indices', running_thread')
         /\ Turned(ready, old, thread_indices', running_thread')
         /\ halt' = halt
<1>1. /\ ready \in Seq(Threads) /\ Range(ready) \subseteq Threads /\ N_THREADS \in Nat
      /\ NullThread \notin Threads
      /\ old # NullThread => old \in Threads
  BY BoundedElim, ElementsOfSeq, Parameters DEF Threads, NullThread
<1>2. ASSUME NEW t, t \in Range(ready) \/ t = old, Loaded(t) PROVE halt' = halt
  <2>1. t # NullThread => threads[t].index # 0
    BY <1>1, <1>2, AliveIsRegistered
  <2> QED
    BY <1>2, <2>1 DEF Loaded
<1>3. CASE ready = <<>>
  <2>1. thread_indices' = <<>> /\ running_thread' = old /\ Loaded(old)
    BY <1>3 DEF Cycle
  <2>2. halt' = halt
    BY <1>2, <2>1
  <2> QED
    BY <1>1, <1>3, <2>1, <2>2 DEF Moved, Turned
<1>4. CASE ready # <<>> /\ old = NullThread
  <2>1. thread_indices' = Tail(ready) /\ running_thread' = Head(ready) /\ Loaded(Head(ready))
    BY <1>4 DEF Cycle
  <2>2. /\ Head(ready) \in Threads /\ Tail(ready) \in Seq(Threads) /\ IsInjective(Tail(ready))
        /\ \A t : t \in Range(Tail(ready)) <=> t \in Range(ready) /\ t # Head(ready)
        /\ Head(ready) \in Range(ready)
    BY <1>1, <1>4, TailElements
  <2>3. halt' = halt
    BY <1>2, <2>1, <2>2
  <2> QED
    BY <1>1, <1>4, <2>1, <2>2, <2>3 DEF Moved, Turned
<1>5. CASE ready # <<>> /\ old # NullThread
  <2>1. old \in Threads /\ old \in Alive1
    BY <1>1, <1>5
  <2>2. /\ threads[old].index \in Locals /\ threads[old].index \in Threads
        /\ get_global_thread_index(old) = old
    BY <2>1, AliveIsRegistered, LocalsAreThreads
  <2>3. CanPush(Tail(ready), Requeued(old), N_THREADS)
    BY <1>1, <1>5, <2>2, RotatedBounded DEF Requeued, Threads
  <2>4. /\ thread_indices' = Append(Tail(ready), Requeued(old)) /\ running_thread' = Head(ready)
        /\ Loaded(Head(ready)) /\ Preempted(old)
    BY <1>5, <2>3 DEF Cycle, HasRoom
  <2>5. Requeued(old) = old
    BY <2>2, <2>4 DEF Preempted
  <2>6. /\ Head(ready) \in Threads /\ Tail(ready) \in Seq(Threads) /\ IsInjective(Tail(ready))
        /\ \A t : t \in Range(Tail(ready)) <=> t \in Range(ready) /\ t # Head(ready)
        /\ Head(ready) \in Range(ready)
    BY <1>1, <1>5, TailElements
  <2>7. old \notin Range(Tail(ready))
    BY <2>6
  <2>8. /\ Append(Tail(ready), old) \in Seq(Threads) /\ IsInjective(Append(Tail(ready), old))
        /\ \A t : t \in Range(Append(Tail(ready), old)) <=> t \in Range(Tail(ready)) \/ t = old
    BY <2>1, <2>6, <2>7, AppendElements
  <2>9. halt' = halt
    BY <1>2, <2>4, <2>6
  <2> QED
    <3>1. Turned(ready, old, thread_indices', running_thread')
      BY <1>5, <2>4, <2>5 DEF Turned
    <3> QED
      BY <1>1, <1>5, <2>1, <2>4, <2>5, <2>6, <2>8, <2>9, <3>1 DEF Moved
<1> QED
  BY <1>3, <1>4, <1>5

\* A step after which the same threads are alive, in their old processes,
\* keeps the accounts when it keeps the queues apart and the tcbs marked.
LEMMA Reshuffled ==
  ASSUME Accounts, UNCHANGED creation,
         \A t \in Threads : /\ threads'[t].index = threads[t].index
                            /\ threads'[t].process = threads[t].process
                            /\ t \in Alive1' <=> t \in Alive1,
         Apart(thread_indices', sleep_waiting', char_waiting', running_thread'),
         Marked(threads', char_waiting'), HaveTimeLeft(threads', sleep_waiting')
  PROVE  Accounts'
<1>1. Alive1' = Alive1
  BY DEF Alive1, AliveIn
<1>2. Alive1 \subseteq Threads
  BY DEF Alive1, AliveIn
<1>3. LiveProcesses' = LiveProcesses
  BY DEF creation, LiveProcesses
<1>4. Registered(threads', LiveProcesses, Alive1)
  BY <1>2 DEF Accounts, Registered
<1>5. /\ Arrays(processes', frames', LiveProcesses, Alive1)
      /\ Inhabited(processes', LiveProcesses)
      /\ IsInjective(free_process_indices')
  BY DEF Accounts, creation
<1> QED
  BY <1>1, <1>3, <1>4, <1>5 DEF Accounts

\* A queue takes the thread that is in no queue.
LEMMA WaitingAppends ==
  ASSUME TypeOK, Accounts, running_thread \in Threads,
         NEW queue \in Seq(Threads), IsInjective(queue), running_thread \notin Range(queue)
  PROVE  /\ Waiting(queue) = Append(queue, running_thread)
         /\ Waiting(queue) \in Seq(Threads) /\ IsInjective(Waiting(queue))
         /\ \A t : t \in Range(Waiting(queue)) <=> t \in Range(queue) \/ t = running_thread
<1>1. running_thread \in Alive1
  BY DEF Alive1, AliveIn
<1>2. get_global_thread_index(running_thread) = running_thread
  BY <1>1, AliveIsRegistered
<1>3. Len(queue) < N_THREADS
  BY RoomForAnother, Parameters DEF Threads
<1>4. CanPush(queue, running_thread, N_THREADS)
  BY <1>3 DEF CanPush, Threads
<1>5. Waiting(queue) = Append(queue, running_thread)
  BY <1>2, <1>4 DEF Waiting, PushIndex
<1>6. /\ Append(queue, running_thread) \in Seq(Threads)
      /\ IsInjective(Append(queue, running_thread))
      /\ \A t : t \in Range(Append(queue, running_thread)) <=> t \in Range(queue) \/ t = running_thread
  BY AppendElements
<1> QED
  BY <1>5, <1>6

-----------------------------------------------------------------------------
(* The steps that move threads: get_char, wait and a character's arrival.   *)

\* The two ways a step treats the sleepers.
StayAsleep ==
    \A t \in Range(sleep_waiting) :
        /\ t \in Range(sleep_waiting')
        /\ threads'[t].waiting_duration = threads[t].waiting_duration

TickPasses ==
    \A t \in Range(sleep_waiting) :
        IF threads[t].waiting_duration = 1
        THEN /\ t \notin Range(sleep_waiting')
             /\ t \in Range(thread_indices') \cup {running_thread'}
        ELSE /\ t \in Range(sleep_waiting')
             /\ threads'[t].waiting_duration = threads[t].waiting_duration - 1

\* What a step does that leaves defects empty.
Accountable ==
    /\ halt' \in {"none", "sleep_order"}
    /\ halt' = "none" => Accounts' /\ (StayAsleep \/ TickPasses)

\* The thread that runs instead of a caller that waits is marked READY, which
\* is the assertion of exec_syscall_get_char.
LEMMA NextIsReady ==
  ASSUME TypeOK, Accounts, running_thread \in Threads
  PROVE  WithWaiter[NextReady].state = "READY"
<1>1. /\ NextReady \in 0 .. N_THREADS /\ NextReady # running_thread
      /\ threads[NextReady].state = "READY"
  <2>1. CASE thread_indices = <<>>
    BY <2>1, QueueTypes, Parameters DEF NextReady, Accounts, Marked, NullThread
  <2>2. CASE thread_indices # <<>>
    <3>1. /\ Head(thread_indices) \in Threads /\ Head(thread_indices) \in Range(thread_indices)
      BY <2>2, QueueTypes, TailElements DEF Accounts, Apart
    <3>2. /\ Head(thread_indices) \notin Range(char_waiting)
          /\ Head(thread_indices) # running_thread
      BY <3>1 DEF Accounts, Apart
    <3>3. threads[Head(thread_indices)].state # "WAITING"
      BY <3>1, <3>2 DEF Accounts, Marked
    <3>4. threads[Head(thread_indices)] \in Tcb
      BY <3>1 DEF TypeOK, Threads
    <3>5. threads[Head(thread_indices)].state = "READY"
      BY <3>3, <3>4 DEF Tcb
    <3> QED
      BY <2>2, <3>1, <3>2, <3>5 DEF NextReady, Threads
  <2> QED
    BY <2>1, <2>2
<1>2. WithWaiter[NextReady] = threads[NextReady]
  BY <1>1 DEF WithWaiter, TypeOK
<1> QED
  BY <1>1, <1>2

\* push_waiting_thread: the next ready thread, or none, runs.
LEMMA ParkMoves ==
  ASSUME TypeOK, Accounts, Park, defects' = {}
  PROVE  /\ Moved(thread_indices, NullThread, thread_indices', running_thread')
         /\ Turned(thread_indices, NullThread, thread_indices', running_thread')
         /\ halt' = halt
<1>1. /\ thread_indices \in BoundedQueue(N_THREADS) /\ IsInjective(thread_indices)
      /\ NullThread \in 0 .. N_THREADS
  BY Parameters DEF TypeOK, Accounts, Apart, NullThread
<1>2. NullThread \notin Range(thread_indices) /\ NullThread \notin Threads
  BY QueueTypes
<1>3. \A t \in Threads : t \in Range(thread_indices) \/ t = NullThread => t \in Alive1
  BY <1>2 DEF Alive1, AliveIn
<1>4. Cycle(thread_indices, NullThread, NullThread)
  BY DEF Park, ParkedContext
<1> QED
  BY <1>1, <1>2, <1>3, <1>4, CycleMoves

LEMMA GetCharAccounts ==
  ASSUME IInv, Undamaged, Accounts, exec_syscall_get_char, defects' = {}
  PROVE  Accountable
<1>1. TypeOK /\ halt = "none" /\ running_thread \in Threads
  BY CallerWasCreated DEF IInv, Undamaged, Running, exec_syscall_get_char
<1>2. CASE ~uart_queue_is_emtpy
  <2>1. UNCHANGED <<running_thread, cpu, threads, thread_indices, queues, creation, halt, defects>>
    BY <1>2 DEF exec_syscall_get_char
  <2>2. Accounts'
    BY <2>1 DEF Accounts, Alive1, LiveProcesses, queues, creation
  <2>3. StayAsleep
    BY <2>1 DEF StayAsleep, queues
  <2> QED
    BY <1>1, <2>1, <2>2, <2>3 DEF Accountable
<1>3. CASE uart_queue_is_emtpy
  <2>1. /\ char_waiting' = Waiting(char_waiting) /\ Park
        /\ threads' = WithWaiter
        /\ UNCHANGED <<sleep_waiting, creation, uart_count>>
    BY <1>1, <1>3, NextIsReady DEF exec_syscall_get_char, scheduler_on_getchar
  <2>2. /\ Moved(thread_indices, NullThread, thread_indices', running_thread')
        /\ halt' = "none"
    BY <1>1, <2>1, ParkMoves
  <2>3. /\ char_waiting' \in Seq(Threads) /\ IsInjective(char_waiting')
        /\ \A t : t \in Range(char_waiting') <=> t \in Range(char_waiting) \/ t = running_thread
    <3>1. char_waiting \in Seq(Threads) /\ IsInjective(char_waiting)
          /\ running_thread \notin Range(char_waiting)
      BY <1>1, QueueTypes DEF Accounts, Apart
    <3> QED
      BY <1>1, <2>1, <3>1, WaitingAppends
  <2>4. Apart(thread_indices', sleep_waiting', char_waiting', running_thread')
    BY <1>1, <2>1, <2>2, <2>3, QueueTypes DEF Moved, Accounts, Apart
  <2>5. \A t \in Threads : t \in Alive1' <=> t \in Alive1
    BY <1>1, <2>1, <2>2, <2>3, QueueTypes DEF Moved, Alive1, AliveIn
  <2>6. \A t \in 0 .. N_THREADS :
            /\ threads'[t].index = threads[t].index
            /\ threads'[t].process = threads[t].process
            /\ threads'[t].waiting_duration = threads[t].waiting_duration
            /\ threads'[t].state = IF t = running_thread THEN "WAITING" ELSE threads[t].state
    BY <1>1, <2>1 DEF WithWaiter, TypeOK, Tcb
  <2>7. Threads \subseteq 0 .. N_THREADS /\ NullThread \in 0 .. N_THREADS
        /\ NullThread # running_thread
    BY <1>1, QueueTypes, Parameters DEF Threads, NullThread
  <2>8. Marked(threads', char_waiting')
    BY <2>3, <2>6, <2>7 DEF Accounts, Marked
  <2>9. HaveTimeLeft(threads', sleep_waiting') /\ StayAsleep
    BY <1>1, <2>1, <2>6, <2>7, QueueTypes DEF Accounts, HaveTimeLeft, StayAsleep
  <2>10. Accounts'
    BY <2>1, <2>4, <2>5, <2>6, <2>7, <2>8, <2>9, Reshuffled
  <2> QED
    BY <2>2, <2>9, <2>10 DEF Accountable
<1> QED
  BY <1>2, <1>3

LEMMA WaitAccounts ==
  ASSUME IInv, Undamaged, Accounts, NEW duration \in Durations, exec_syscall_wait(duration),
         defects' = {}
  PROVE  Accountable
<1>1. TypeOK /\ halt = "none" /\ running_thread \in Threads /\ duration \in Nat
  BY CallerWasCreated, Parameters DEF IInv, Undamaged, Running, exec_syscall_wait
<1>2. CASE ReturnsAtOnce(duration)
  <2>1. UNCHANGED vars
    BY <1>2 DEF exec_syscall_wait, scheduler_on_sleep
  <2>2. Accounts'
    BY <2>1 DEF Accounts, Alive1, LiveProcesses, vars
  <2>3. StayAsleep
    BY <2>1 DEF StayAsleep, vars
  <2> QED
    BY <1>1, <2>1, <2>2, <2>3 DEF Accountable, vars
<1>3. CASE ~ReturnsAtOnce(duration)
  <2>1. /\ sleep_waiting' = Waiting(sleep_waiting) /\ Park
        /\ threads' = [threads EXCEPT ![running_thread].waiting_duration = duration]
        /\ UNCHANGED <<char_waiting, creation, uart_count>>
    BY <1>3 DEF exec_syscall_wait, scheduler_on_sleep
  <2>2. /\ Moved(thread_indices, NullThread, thread_indices', running_thread')
        /\ halt' = "none"
    BY <1>1, <2>1, ParkMoves
  <2>3. /\ sleep_waiting' \in Seq(Threads) /\ IsInjective(sleep_waiting')
        /\ \A t : t \in Range(sleep_waiting') <=> t \in Range(sleep_waiting) \/ t = running_thread
        /\ running_thread \notin Range(sleep_waiting)
    <3>1. sleep_waiting \in Seq(Threads) /\ IsInjective(sleep_waiting)
          /\ running_thread \notin Range(sleep_waiting)
      BY <1>1, QueueTypes DEF Accounts, Apart
    <3> QED
      BY <1>1, <2>1, <3>1, WaitingAppends
  <2>4. Apart(thread_indices', sleep_waiting', char_waiting', running_thread')
    BY <1>1, <2>1, <2>2, <2>3, QueueTypes DEF Moved, Accounts, Apart
  <2>5. \A t \in Threads : t \in Alive1' <=> t \in Alive1
    BY <1>1, <2>1, <2>2, <2>3, QueueTypes DEF Moved, Alive1, AliveIn
  <2>6. \A t \in 0 .. N_THREADS :
            /\ threads'[t].index = threads[t].index
            /\ threads'[t].process = threads[t].process
            /\ threads'[t].state = threads[t].state
            /\ threads'[t].waiting_duration
                   = IF t = running_thread THEN duration ELSE threads[t].waiting_duration
    BY <1>1, <2>1 DEF TypeOK, Tcb
  <2>7. Threads \subseteq 0 .. N_THREADS /\ NullThread \in 0 .. N_THREADS
    BY Parameters DEF Threads, NullThread
  <2>8. Marked(threads', char_waiting')
    BY <2>1, <2>6, <2>7 DEF Accounts, Marked
  <2>9. HaveTimeLeft(threads', sleep_waiting')
    <3> SUFFICES ASSUME NEW t \in Range(sleep_waiting') PROVE threads'[t].waiting_duration > 0
      BY DEF HaveTimeLeft
    <3>1. t \in 0 .. N_THREADS /\ (t = running_thread \/ t \in Range(sleep_waiting))
      BY <1>1, <2>3, <2>7, QueueTypes
    <3>2. CASE t = running_thread
      BY <1>1, <1>3, <2>6, <3>1, <3>2 DEF ReturnsAtOnce
    <3>3. CASE t # running_thread
      BY <2>6, <3>1, <3>3 DEF Accounts, HaveTimeLeft
    <3> QED
      BY <3>2, <3>3
  <2>10. StayAsleep
    BY <1>1, <2>3, <2>6, <2>7, QueueTypes DEF StayAsleep
  <2>11. Accounts'
    BY <2>1, <2>4, <2>5, <2>6, <2>7, <2>8, <2>9, Reshuffled
  <2> QED
    BY <2>2, <2>10, <2>11 DEF Accountable
<1> QED
  BY <1>2, <1>3

LEMMA UartAccounts ==
  ASSUME IInv, Undamaged, Accounts, uart_irq
  PROVE  Accountable
<1>1. TypeOK /\ halt = "none"
  BY DEF IInv, Undamaged, Running
<1>2. UNCHANGED <<running_thread, cpu, sleep_waiting, creation, halt, defects>>
  BY DEF uart_irq
<1>3. CASE UNCHANGED <<threads, thread_indices, char_waiting>>
  <2>1. Accounts'
    BY <1>2, <1>3 DEF Accounts, Alive1, LiveProcesses, creation
  <2>2. StayAsleep
    BY <1>2, <1>3 DEF StayAsleep
  <2> QED
    BY <1>1, <1>2, <2>1, <2>2 DEF Accountable
<1>4. CASE ~UNCHANGED <<threads, thread_indices, char_waiting>>
  <2> DEFINE h == Head(char_waiting)
  <2>1. /\ char_waiting # <<>> /\ char_waiting' = Tail(char_waiting)
        /\ threads' = Notified(h)
        /\ thread_indices' = PushIndex(thread_indices, h, N_THREADS)
    BY <1>4 DEF uart_irq, scheduler_on_char_received
  <2>2. /\ h \in Threads /\ h \in Range(char_waiting)
        /\ char_waiting' \in Seq(Threads) /\ IsInjective(char_waiting')
        /\ \A t : t \in Range(char_waiting') <=> t \in Range(char_waiting) /\ t # h
    <3>1. char_waiting \in Seq(Threads) /\ IsInjective(char_waiting)
      BY <1>1, QueueTypes DEF Accounts, Apart
    <3> QED
      BY <2>1, <3>1, TailElements
  <2> HIDE DEF h
  <2>3. /\ thread_indices' \in Seq(Threads) /\ IsInjective(thread_indices')
        /\ \A t : t \in Range(thread_indices') <=> t \in Range(thread_indices) \/ t = h
    <3>1. /\ thread_indices \in Seq(Threads) /\ IsInjective(thread_indices)
          /\ h \notin Range(thread_indices)
      BY <1>1, <2>2, QueueTypes DEF Accounts, Apart
    <3>2. Len(thread_indices) < N_THREADS
      BY <2>2, <3>1, RoomForAnother, Parameters DEF Threads
    <3>3. thread_indices' = Append(thread_indices, h)
      BY <2>1, <2>2, <3>2 DEF PushIndex, CanPush, Threads
    <3> QED
      BY <2>2, <3>1, <3>3, AppendElements
  <2>4. Apart(thread_indices', sleep_waiting', char_waiting', running_thread')
    BY <1>1, <1>2, <2>2, <2>3, QueueTypes DEF Accounts, Apart
  <2>5. \A t \in Threads : t \in Alive1' <=> t \in Alive1
    BY <1>1, <1>2, <2>2, <2>3, QueueTypes DEF Alive1, AliveIn
  <2>6. \A t \in 0 .. N_THREADS :
            /\ threads'[t].index = threads[t].index
            /\ threads'[t].process = threads[t].process
            /\ threads'[t].waiting_duration = threads[t].waiting_duration
            /\ threads'[t].state = IF t = h THEN "READY" ELSE threads[t].state
    BY <1>1, <2>1 DEF Notified, TypeOK, Tcb
  <2>7. Threads \subseteq 0 .. N_THREADS /\ NullThread \in 0 .. N_THREADS
    BY Parameters DEF Threads, NullThread
  <2>8. Marked(threads', char_waiting')
    BY <2>2, <2>6, <2>7 DEF Accounts, Marked
  <2>9. HaveTimeLeft(threads', sleep_waiting') /\ StayAsleep
    BY <1>1, <1>2, <2>6, <2>7, QueueTypes DEF Accounts, HaveTimeLeft, StayAsleep
  <2>10. Accounts'
    BY <1>2, <2>4, <2>5, <2>6, <2>7, <2>8, <2>9, Reshuffled
  <2> QED
    BY <1>1, <1>2, <2>9, <2>10 DEF Accountable
<1> QED
  BY <1>3, <1>4

-----------------------------------------------------------------------------
(* decrement_waits, when no thread sleeps twice.                            *)

\* A sleeper is met once in the walk.
LEMMA MetOnce ==
  ASSUME TypeOK, IsInjective(sleep_waiting)
  PROVE  /\ \A k \in Sleepers : Occurrences(sleep_waiting[k], k) = 1
         /\ \A t \in Range(sleep_waiting) : Occurrences(t, Len(sleep_waiting)) = 1
<1> DEFINE s == sleep_waiting
           n == Len(s)
<1>1. /\ n \in Nat /\ DOMAIN s = 1 .. n
      /\ \A t \in Range(s) : \E k \in 1 .. n : t = s[k]
  BY QueueTypes, ElementsOfSeq
<1> HIDE DEF n
<1>2. ASSUME NEW k \in 1 .. n, NEW m \in k .. n PROVE Occurrences(s[k], m) = 1
  <2>1. {j \in 1 .. m : s[j] = s[k]} = {k}
    <3>1. k \in 1 .. m /\ \A j \in 1 .. m : j \in 1 .. n
      BY <1>1
    <3> QED
      BY <1>1, <3>1 DEF IsInjective
  <2> QED
    BY <2>1, FS_Singleton DEF Occurrences
<1>3. ASSUME NEW k \in 1 .. n PROVE k \in k .. n /\ n \in k .. n
  BY <1>1
<1>4. \A t \in Range(s) : Occurrences(t, n) = 1
  <2> SUFFICES ASSUME NEW t \in Range(s) PROVE Occurrences(t, n) = 1
    OBVIOUS
  <2>1. PICK k \in 1 .. n : t = s[k]
    BY <1>1
  <2> QED
    BY <1>2, <1>3, <2>1
<1> QED
  BY <1>2, <1>3, <1>4 DEF n, Sleepers

\* The assertion of decrement_waits makes the sleepers that are due the first
\* ones of the queue.
LEMMA DueComeFirst ==
  ASSUME TypeOK, IsInjective(sleep_waiting), HeadsAreDue
  PROVE  /\ DueUpTo(Len(sleep_waiting)) \in 0 .. Len(sleep_waiting)
         /\ \A k \in Sleepers : threads[sleep_waiting[k]].waiting_duration = 1
                                <=> k <= DueUpTo(Len(sleep_waiting))
<1> DEFINE s    == sleep_waiting
           n    == Len(s)
           D(k) == {j \in 1 .. k : DueAt(j)}
           m    == DueUpTo(n)
<1>1. n \in Nat /\ DOMAIN s = 1 .. n /\ Sleepers = 1 .. n
  BY QueueTypes, ElementsOfSeq DEF Sleepers
<1>2. \A k \in 1 .. n : DueAt(k) <=> threads[s[k]].waiting_duration = 1
  BY <1>1, MetOnce DEF DueAt
<1> HIDE DEF n
<1>3. ASSUME NEW k \in Nat PROVE DueUpTo(k) = Cardinality(D(k)) /\ DueUpTo(k) \in 0 .. k
  BY CountsAreBounded DEF DueUpTo
<1>4. ASSUME NEW k \in Nat PROVE IsFiniteSet(1 .. k) /\ Cardinality(1 .. k) = k
  BY FS_Interval
<1>5. ASSUME NEW k \in 1 .. n, DueAt(k) PROVE \A j \in 1 .. k : DueAt(j)
  <2>1. k \in Nat /\ k \in D(k)
    BY <1>1, <1>5
  <2>2. DueUpTo(k) # 0
    <3>1. D(k) # {}
      BY <2>1
    <3>2. IsFiniteSet(D(k))
      <4>1. D(k) \subseteq 1 .. k
        OBVIOUS
      <4> HIDE DEF D
      <4> QED
        BY <1>4, <2>1, <4>1, FS_Subset
    <3> HIDE DEF D
    <3> QED
      BY <1>3, <2>1, <3>1, <3>2, FS_EmptySet
  <2>3. DueUpTo(k) \in 1 .. n
    <3>1. DueUpTo(k) \in 0 .. k
      BY <1>3, <2>1
    <3> QED
      BY <1>1, <2>2, <3>1
  <2>4. s[DueUpTo(k)] = s[k]
    BY <1>1, <1>5 DEF HeadsAreDue
  <2>5. DueUpTo(k) = k
    BY <1>1, <2>3, <2>4 DEF IsInjective
  <2>6. D(k) = 1 .. k
    <3>1. D(k) \subseteq 1 .. k
      OBVIOUS
    <3> HIDE DEF D
    <3> QED
      BY <1>3, <1>4, <2>1, <2>5, <3>1, FS_Subset
  <2> QED
    BY <2>6
<1>6. m \in 0 .. n /\ m = Cardinality(D(n))
  BY <1>1, <1>3
<1> HIDE DEF m
<1>7. ASSUME NEW k \in D(n) PROVE k \in 1 .. m
  <2>1. k \in 1 .. n /\ DueAt(k) /\ k \in Nat
    BY <1>1
  <2>2. 1 .. k \subseteq D(n)
    BY <1>1, <1>5, <2>1
  <2>3. D(n) \subseteq 1 .. n
    OBVIOUS
  <2> HIDE DEF D
  <2>4. IsFiniteSet(D(n))
    BY <1>1, <1>4, <2>3, FS_Subset
  <2>5. Cardinality(1 .. k) <= Cardinality(D(n))
    BY <2>2, <2>4, FS_Subset
  <2> QED
    BY <1>1, <1>4, <1>6, <2>1, <2>5
<1>8. D(n) = 1 .. m
  <2>1. D(n) \subseteq 1 .. m
    BY <1>7
  <2>2. m \in Nat
    BY <1>1, <1>6
  <2> HIDE DEF D
  <2> QED
    BY <1>4, <1>6, <2>1, <2>2, FS_Subset
<1>9. ASSUME NEW k \in 1 .. n PROVE DueAt(k) <=> k <= m
  BY <1>1, <1>6, <1>8
<1> QED
  BY <1>1, <1>2, <1>6, <1>9 DEF m, n

\* Those whose last tick it is wake, all of them and no other, and the ready
\* queue has room for them.
LEMMA WokenAreDue ==
  ASSUME TypeOK, Accounts, HeadsAreDue,
         NEW rest, rest = SubSeq(sleep_waiting, Len(Woken) + 1, Len(sleep_waiting))
  PROVE  /\ rest \in Seq(Threads) /\ IsInjective(rest)
         /\ \A t \in Threads : t \in Range(rest)
               <=> t \in Range(sleep_waiting) /\ threads[t].waiting_duration # 1
         /\ WithWoken \in BoundedQueue(N_THREADS) /\ IsInjective(WithWoken)
         /\ \A t \in Threads : t \in Range(WithWoken)
               <=> \/ t \in Range(thread_indices)
                   \/ t \in Range(sleep_waiting) /\ threads[t].waiting_duration = 1
         /\ WithWoken = thread_indices \o Woken
         /\ Woken \in Seq(Threads) /\ IsInjective(Woken)
         /\ \A t \in Threads : t \in Range(Woken)
               <=> t \in Range(sleep_waiting) /\ threads[t].waiting_duration = 1
<1> DEFINE s == sleep_waiting
           n == Len(s)
           m == DueUpTo(n)
           w == Woken
<1>1. /\ s \in Seq(Threads) /\ IsInjective(s) /\ Range(s) \subseteq Threads
      /\ thread_indices \in Seq(Threads) /\ IsInjective(thread_indices)
      /\ \A t \in Threads : ~(t \in Range(thread_indices) /\ t \in Range(s))
  BY QueueTypes DEF Accounts, Apart
<1>2. /\ n \in Nat /\ \A t \in Range(s) : \E k \in 1 .. n : t = s[k]
      /\ \A k \in 1 .. n : s[k] \in Range(s)
  BY <1>1, ElementsOfSeq
<1>3. /\ m \in 0 .. n
      /\ \A k \in 1 .. n : threads[s[k]].waiting_duration = 1 <=> k <= m
  BY <1>1, DueComeFirst DEF Sleepers
<1>4. w = SubSeq(s, 1, m)
  BY DEF Woken
<1> HIDE DEF n, m
<1>5. /\ w \in Seq(Threads) /\ Len(w) = m /\ IsInjective(w) /\ Range(w) \subseteq Range(s)
      /\ \A k \in 1 .. n : s[k] \in Range(w) <=> k <= m
  <2> HIDE DEF w
  <2> QED
    BY <1>1, <1>3, <1>4, SplitOfInjective DEF n
<1> HIDE DEF w
<1>6. /\ rest \in Seq(Threads) /\ IsInjective(rest) /\ Range(rest) \subseteq Range(s)
      /\ \A k \in 1 .. n : s[k] \in Range(rest) <=> k > m
  <2> DEFINE r == SubSeq(s, m + 1, n)
  <2>1. rest = r
    BY <1>5 DEF w, n
  <2>2. /\ r \in Seq(Threads) /\ IsInjective(r) /\ Range(r) \subseteq Range(s)
        /\ \A k \in 1 .. n : s[k] \in Range(r) <=> k > m
    BY <1>1, <1>3, SplitOfInjective DEF n
  <2> HIDE DEF r
  <2> QED
    BY <2>1, <2>2
<1>7. ASSUME NEW t \in Threads
      PROVE  /\ t \in Range(rest) <=> t \in Range(s) /\ threads[t].waiting_duration # 1
             /\ t \in Range(w) <=> t \in Range(s) /\ threads[t].waiting_duration = 1
  <2>1. CASE t \in Range(s)
    <3>1. PICK k \in 1 .. n : t = s[k]
      BY <1>2, <2>1
    <3> QED
      BY <1>2, <1>3, <1>5, <1>6, <2>1, <3>1
  <2>2. CASE t \notin Range(s)
    BY <1>5, <1>6, <2>2
  <2> QED
    BY <2>1, <2>2
<1> DEFINE all == thread_indices \o w
<1>8. /\ all \in Seq(Threads) /\ IsInjective(all)
      /\ \A t : t \in Range(all) <=> t \in Range(thread_indices) \/ t \in Range(w)
  <2>1. \A t \in Threads : ~(t \in Range(thread_indices) /\ t \in Range(w))
    BY <1>1, <1>5
  <2> QED
    BY <1>1, <1>5, <2>1, ConcatOfInjective
<1> HIDE DEF all
<1>9. Len(all) <= N_THREADS
  BY <1>8, InjectiveInInterval, Parameters DEF Threads
<1>10. WithWoken = all
  BY <1>9 DEF WithWoken, all, w
<1>11. WithWoken \in BoundedQueue(N_THREADS)
  BY <1>8, <1>9, <1>10, BoundedIntro, Parameters DEF Threads
<1>12. WithWoken = thread_indices \o Woken
  BY <1>10 DEF all, w
<1>13. /\ Woken \in Seq(Threads) /\ IsInjective(Woken)
       /\ \A t \in Threads : t \in Range(Woken)
             <=> t \in Range(sleep_waiting) /\ threads[t].waiting_duration = 1
  BY <1>5, <1>7 DEF w
<1> QED
  BY <1>6, <1>7, <1>8, <1>10, <1>11, <1>12, <1>13

\* One tick less for each sleeper, and nothing else changes.
LEMMA DecrementedByOne ==
  ASSUME TypeOK, Accounts
  PROVE  /\ \A t \in 0 .. N_THREADS : /\ Decremented[t].index = threads[t].index
                                      /\ Decremented[t].process = threads[t].process
                                      /\ Decremented[t].state = threads[t].state
         /\ \A t \in Range(sleep_waiting) :
               Decremented[t].waiting_duration = threads[t].waiting_duration - 1
<1> DEFINE n == Len(sleep_waiting)
<1>1. threads \in [0 .. N_THREADS -> Tcb]
  BY DEF TypeOK
<1>2. ASSUME NEW t \in 0 .. N_THREADS
      PROVE  /\ Decremented[t].index = threads[t].index
             /\ Decremented[t].process = threads[t].process
             /\ Decremented[t].state = threads[t].state
             /\ Decremented[t].waiting_duration
                    = (threads[t].waiting_duration - Occurrences(t, n)) % SIZE_T
  <2> HIDE DEF n
  <2> DEFINE left == (threads[t].waiting_duration - Occurrences(t, n)) % SIZE_T
  <2>1. Decremented[t] = [threads[t] EXCEPT !.waiting_duration = left]
    BY <1>1 DEF Decremented, n
  <2> HIDE DEF left
  <2>2. /\ Decremented[t].index = threads[t].index
        /\ Decremented[t].process = threads[t].process
        /\ Decremented[t].state = threads[t].state
        /\ Decremented[t].waiting_duration = left
    BY <1>1, <2>1 DEF Tcb
  <2> QED
    BY <2>2 DEF left
<1>3. ASSUME NEW t \in Range(sleep_waiting)
      PROVE  Decremented[t].waiting_duration = threads[t].waiting_duration - 1
  <2>1. t \in 0 .. N_THREADS /\ Occurrences(t, n) = 1
    BY <1>3, QueueTypes, MetOnce, Parameters DEF Accounts, Apart, Threads
  <2>2. threads[t].waiting_duration > 0 /\ threads[t].waiting_duration \in 0 .. SIZE_T - 1
    BY <1>1, <1>3, <2>1 DEF Accounts, HaveTimeLeft, Tcb
  <2> DEFINE d == threads[t].waiting_duration
  <2>3. Decremented[t].waiting_duration = (d - 1) % SIZE_T
    BY <1>2, <2>1
  <2> HIDE DEF d
  <2>4. d \in 1 .. SIZE_T - 1
    BY <2>2, Parameters DEF d
  <2>5. (d - 1) % SIZE_T = d - 1
    BY <2>4, Parameters
  <2> QED
    BY <2>3, <2>5 DEF d
<1> QED
  BY <1>2, <1>3

LEMMA TimerAccounts ==
  ASSUME IInv, Undamaged, Accounts, timer_irq, defects' = {}
  PROVE  Accountable
<1>1. TypeOK /\ halt = "none" /\ cpu = running_thread /\ running_thread \in 0 .. N_THREADS
  BY DEF IInv, TypeOK, Undamaged, Running, ContextMatchesRunning
<1>2. char_waiting' = char_waiting /\ UNCHANGED creation
  BY DEF timer_irq
<1>3. CASE ~HeadsAreDue
  BY <1>3 DEF timer_irq, Accountable
<1>4. CASE HeadsAreDue
  <2>1. /\ sleep_waiting' = SubSeq(sleep_waiting, Len(Woken) + 1, Len(sleep_waiting))
        /\ threads' = Decremented
        /\ Cycle(WithWoken, running_thread, running_thread)
    BY <1>1, <1>4 DEF timer_irq, decrement_waits
  <2>2. /\ sleep_waiting' \in Seq(Threads) /\ IsInjective(sleep_waiting')
        /\ \A t \in Threads : t \in Range(sleep_waiting')
              <=> t \in Range(sleep_waiting) /\ threads[t].waiting_duration # 1
        /\ WithWoken \in BoundedQueue(N_THREADS) /\ IsInjective(WithWoken)
        /\ \A t \in Threads : t \in Range(WithWoken)
              <=> \/ t \in Range(thread_indices)
                  \/ t \in Range(sleep_waiting) /\ threads[t].waiting_duration = 1
    BY <1>1, <1>4, <2>1, WokenAreDue
  <2>3. Range(sleep_waiting') \subseteq Threads /\ Range(WithWoken) \subseteq Threads
    BY <2>2, BoundedElim, ElementsOfSeq, Parameters DEF Threads
  <2>4. running_thread \notin Range(WithWoken)
    BY <1>1, <2>2, <2>3 DEF Accounts, Apart
  <2>5. \A t \in Threads : t \in Range(WithWoken) \/ t = running_thread => t \in Alive1
    BY <2>2 DEF Alive1, AliveIn
  <2>6. /\ Moved(WithWoken, running_thread, thread_indices', running_thread')
        /\ halt' = "none"
    BY <1>1, <2>1, <2>2, <2>4, <2>5, CycleMoves
  <2>7. Apart(thread_indices', sleep_waiting', char_waiting', running_thread')
    <3>1. ASSUME NEW t \in Threads
          PROVE  /\ ~(t \in Range(thread_indices') /\ t \in Range(sleep_waiting'))
                 /\ ~(t \in Range(thread_indices') /\ t \in Range(char_waiting'))
                 /\ ~(t \in Range(sleep_waiting') /\ t \in Range(char_waiting'))
                 /\ t = running_thread' => /\ t \notin Range(sleep_waiting')
                                           /\ t \notin Range(char_waiting')
      BY <1>2, <2>2, <2>6 DEF Moved, Accounts, Apart
    <3>2. /\ running_thread' \notin Range(sleep_waiting')
          /\ running_thread' \notin Range(char_waiting')
      BY <1>1, <1>2, <2>3, <2>6, <3>1, QueueTypes DEF Moved
    <3>3. IsInjective(char_waiting')
      BY <1>2 DEF Accounts, Apart
    <3> QED
      BY <2>2, <2>6, <3>1, <3>2, <3>3 DEF Moved, Apart
  <2>8. \A t \in Threads : t \in Alive1' <=> t \in Alive1
    <3> SUFFICES ASSUME NEW t \in Threads PROVE t \in Alive1' <=> t \in Alive1
      OBVIOUS
    <3>1. \/ t \in Range(thread_indices') \/ t = running_thread'
          <=> t \in Range(WithWoken) \/ t = running_thread
      BY <2>6 DEF Moved
    <3> QED
      BY <1>2, <2>2, <3>1 DEF Alive1, AliveIn
  <2>9. /\ \A t \in 0 .. N_THREADS : /\ threads'[t].index = threads[t].index
                                     /\ threads'[t].process = threads[t].process
                                     /\ threads'[t].state = threads[t].state
        /\ \A t \in Range(sleep_waiting) :
              threads'[t].waiting_duration = threads[t].waiting_duration - 1
    BY <1>1, <2>1, DecrementedByOne
  <2>10. Threads \subseteq 0 .. N_THREADS /\ NullThread \in 0 .. N_THREADS
    BY Parameters DEF Threads, NullThread
  <2>11. Marked(threads', char_waiting')
    BY <1>2, <2>9, <2>10 DEF Accounts, Marked
  <2>12. HaveTimeLeft(threads', sleep_waiting')
    <3> SUFFICES ASSUME NEW t \in Range(sleep_waiting') PROVE threads'[t].waiting_duration > 0
      BY DEF HaveTimeLeft
    <3>1. /\ t \in Threads /\ t \in Range(sleep_waiting)
          /\ threads[t].waiting_duration # 1
      BY <2>2, <2>3
    <3>2. threads[t].waiting_duration > 0 /\ threads[t] \in Tcb
      BY <1>1, <2>10, <3>1 DEF Accounts, HaveTimeLeft, TypeOK
    <3>3. threads[t].waiting_duration \in 0 .. SIZE_T - 1
      BY <3>2 DEF Tcb
    <3>4. threads'[t].waiting_duration = threads[t].waiting_duration - 1
      BY <2>9, <3>1
    <3> QED
      BY <3>1, <3>2, <3>3, <3>4, Parameters
  <2>13. TickPasses
    <3> SUFFICES ASSUME NEW t \in Range(sleep_waiting)
                 PROVE  IF threads[t].waiting_duration = 1
                        THEN /\ t \notin Range(sleep_waiting')
                             /\ t \in Range(thread_indices') \cup {running_thread'}
                        ELSE /\ t \in Range(sleep_waiting')
                             /\ threads'[t].waiting_duration = threads[t].waiting_duration - 1
      BY DEF TickPasses
    <3>1. t \in Threads
      BY <1>1, QueueTypes
    <3>2. CASE threads[t].waiting_duration = 1
      <4>1. t \notin Range(sleep_waiting') /\ t \in Range(WithWoken)
        BY <2>2, <3>1, <3>2
      <4>2. t \in Range(thread_indices') \/ t = running_thread'
        BY <2>6, <3>1, <4>1 DEF Moved
      <4> QED
        BY <3>2, <4>1, <4>2
    <3>3. CASE threads[t].waiting_duration # 1
      BY <2>2, <2>9, <3>1, <3>3
    <3> QED
      BY <3>2, <3>3
  <2>14. Accounts'
    BY <1>2, <2>7, <2>8, <2>9, <2>10, <2>11, <2>12, Reshuffled
  <2> QED
    BY <2>6, <2>13, <2>14 DEF Accountable
<1> QED
  BY <1>3, <1>4

-----------------------------------------------------------------------------
(* A thread ends.                                                           *)

\* A thread of one process is not one of another's.
LEMMA OthersThreads ==
  ASSUME NEW p \in Processes, NEW i \in Locals, NEW r \in Processes, r # p, NEW alive
  PROVE  \A k \in Locals : GlobalIndex(r, k) \in alive
                           <=> GlobalIndex(r, k) \in alive \ {GlobalIndex(p, i)}
  BY GlobalIndexInjective

\* The caller leaves, and the next ready thread runs.
LEMMA KillMoves ==
  ASSUME TypeOK, Accounts, running_thread \in Threads, kill_cur_thread, defects' = {}
  PROVE  /\ halt' = halt
         /\ Apart(thread_indices', sleep_waiting', char_waiting', running_thread')
         /\ Alive1' = Alive1 \ {running_thread}
         /\ Turned(thread_indices, NullThread, thread_indices', running_thread')
<1>1. UNCHANGED <<queues, threads, defects>>
  BY DEF kill_cur_thread
<1>2. Park
  <2>1. CASE thread_indices = <<>>
    BY <1>1, <2>1 DEF kill_cur_thread, Park, ParkedContext, Cycle, NullThread
  <2>2. CASE thread_indices # <<>>
    BY <1>1, <2>2 DEF kill_cur_thread, Park, ParkedContext, Cycle, NullThread
  <2> QED
    BY <2>1, <2>2
<1>3. /\ Moved(thread_indices, NullThread, thread_indices', running_thread')
      /\ Turned(thread_indices, NullThread, thread_indices', running_thread')
      /\ halt' = halt
  BY <1>2, ParkMoves
<1>4. Apart(thread_indices', sleep_waiting', char_waiting', running_thread')
  BY <1>1, <1>3, QueueTypes DEF Moved, Accounts, Apart, queues
<1>5. \A t \in Threads : t \in Alive1' <=> t \in Alive1 /\ t # running_thread
  BY <1>1, <1>3, QueueTypes DEF Moved, Accounts, Apart, Alive1, AliveIn, queues
<1>6. Alive1' \subseteq Threads /\ Alive1 \subseteq Threads
  BY DEF Alive1, AliveIn
<1> QED
  BY <1>3, <1>4, <1>5, <1>6

\* What kill_cur_thread's return of the index leaves in the tables.
LEMMA ReleasedAccounts ==
  ASSUME TypeOK, Accounts, NEW p \in LiveProcesses, NEW index \in Locals,
         GlobalIndex(p, index) \in Alive1, Released(p, index),
         NEW less, less = Alive1 \ {GlobalIndex(p, index)}
  PROVE  /\ Registered(threads, LiveProcesses', less)
         /\ Arrays(processes', frames', LiveProcesses', less)
         /\ Inhabited(processes', LiveProcesses')
         /\ IsInjective(free_process_indices')
<1> DEFINE pcb     == processes[p]
           freed   == Pushed(Deref(pcb, frames), index)
           one     == [freed EXCEPT !.indices = pcb.indices]
           memory1 == [frames EXCEPT ![pcb.indices] = freed.indices]
<1>1. /\ processes \in [0 .. N_PROCESSES -> Pcb] /\ frames \in Memory
      /\ p \in Processes /\ Processes \subseteq 0 .. N_PROCESSES
      /\ LiveProcesses \subseteq Processes
  BY Parameters DEF TypeOK, Memory, LiveProcesses, Processes
<1>2. /\ \A r \in LiveProcesses : OwnArray(r, processes[r], frames, Alive1)
      /\ \A r, q \in LiveProcesses : processes[r].indices = processes[q].indices => r = q
      /\ \A r \in LiveProcesses : processes[r].count < N_THREADS_PER_PROCESS
  BY DEF Accounts, Arrays, Inhabited
<1>3. /\ pcb \in Pcb /\ OwnArray(p, pcb, frames, Alive1)
      /\ pcb.count < N_THREADS_PER_PROCESS
  BY <1>1, <1>2
<1>4. /\ ~Rejects(Deref(pcb, frames), index)
      /\ one.count = pcb.count + 1 /\ one.indices = pcb.indices
      /\ one.size = N_THREADS_PER_PROCESS
      /\ OwnArray(p, one, memory1, less)
      /\ one.count >= N_THREADS_PER_PROCESS => \A i \in Locals : GlobalIndex(p, i) \notin less
  <2> HIDE DEF pcb
  <2> DEFINE f == freed
             o == one
             m == memory1
  <2>1. PutBack(p, pcb, frames, Alive1, index, f, o, m, less)
    BY DEF PutBack
  <2> HIDE DEF f, o, m
  <2>2. /\ ~Rejects(Deref(pcb, frames), index)
        /\ o.count = pcb.count + 1 /\ o.indices = pcb.indices
        /\ o.size = N_THREADS_PER_PROCESS
        /\ OwnArray(p, o, m, less)
        /\ o.count >= N_THREADS_PER_PROCESS => \A i \in Locals : GlobalIndex(p, i) \notin less
    BY <1>1, <1>3, <2>1, ReturnedIndex
  <2> QED
    BY <2>2 DEF f, o, m
<1>5. /\ processes' = [processes EXCEPT ![p] = one]
      /\ frames' = memory1
      /\ free_process_indices' = IF one.count >= one.size
                                 THEN PushIndex(free_process_indices, p, N_PROCESSES)
                                 ELSE free_process_indices
  <2> HIDE DEF freed
  <2> QED
    BY <1>4 DEF Released, freed
<1>6. ASSUME NEW r \in LiveProcesses, r # p
      PROVE  /\ processes'[r] = processes[r]
             /\ OwnArray(r, processes[r], frames', less)
  <2> DEFINE at == pcb.indices
             o  == one
  <2>1. processes[r].indices # at /\ processes[r].indices \in Frames /\ at \in Frames
    BY <1>2, <1>3, <1>6 DEF OwnArray
  <2>2. frames' = [frames EXCEPT ![at] = freed.indices]
    BY <1>5
  <2> HIDE DEF freed, at
  <2>3. frames'[processes[r].indices] = frames[processes[r].indices]
    BY <1>1, <2>1, <2>2 DEF Memory
  <2>4. \A k \in Locals : GlobalIndex(r, k) \in Alive1 <=> GlobalIndex(r, k) \in less
    BY <1>1, <1>6, OthersThreads
  <2>5. OwnArray(r, processes[r], frames', less)
    <3> DEFINE m == frames'
    <3>1. m[processes[r].indices] = frames[processes[r].indices]
      BY <2>3
    <3> HIDE DEF m
    <3>2. OwnArray(r, processes[r], m, less)
      BY <1>2, <2>4, <3>1, OtherArray
    <3> QED
      BY <3>2 DEF m
  <2>6. processes' = [processes EXCEPT ![p] = o]
    BY <1>5
  <2> HIDE DEF o
  <2>7. processes'[r] = processes[r]
    BY <1>1, <1>6, <2>6
  <2> QED
    BY <2>5, <2>7
<1> DEFINE o == one
<1>7. /\ processes'[p] = o /\ OwnArray(p, o, frames', less) /\ o.indices = pcb.indices
      /\ o.size = N_THREADS_PER_PROCESS
      /\ o.count >= N_THREADS_PER_PROCESS => \A i \in Locals : GlobalIndex(p, i) \notin less
      /\ o.count = pcb.count + 1
      /\ free_process_indices' = IF o.count >= o.size
                                 THEN PushIndex(free_process_indices, p, N_PROCESSES)
                                 ELSE free_process_indices
  BY <1>1, <1>4, <1>5
<1> HIDE DEF o
<1>8. /\ \A r \in LiveProcesses : OwnArray(r, processes'[r], frames', less)
      /\ \A r, q \in LiveProcesses : processes'[r].indices = processes'[q].indices => r = q
      /\ \A r \in LiveProcesses : r # p => processes'[r].count < N_THREADS_PER_PROCESS
  BY <1>2, <1>6, <1>7
<1>9. Registered(threads, LiveProcesses, less) /\ IsInjective(free_process_indices)
  BY DEF Accounts, Registered
<1>10. CASE ~(o.count >= N_THREADS_PER_PROCESS)
  <2>1. free_process_indices' = free_process_indices /\ LiveProcesses' = LiveProcesses
    BY <1>7, <1>10 DEF LiveProcesses
  <2>2. o.count < N_THREADS_PER_PROCESS
    BY <1>3, <1>7, <1>10, Parameters DEF Pcb
  <2> QED
    BY <1>7, <1>8, <1>9, <2>1, <2>2 DEF Arrays, Inhabited
<1>11. CASE o.count >= N_THREADS_PER_PROCESS
  <2>1. /\ free_process_indices \in Seq(Processes) /\ p \notin Range(free_process_indices)
        /\ p \in Processes
    BY <1>1, QueueTypes DEF LiveProcesses
  <2>2. Len(free_process_indices) < N_PROCESSES
    BY <1>9, <2>1, RoomForAnother, Parameters DEF Processes
  <2>3. free_process_indices' = Append(free_process_indices, p)
    BY <1>7, <1>11, <2>1, <2>2 DEF PushIndex, CanPush, Processes
  <2>4. /\ IsInjective(free_process_indices')
        /\ \A r : r \in Range(free_process_indices') <=> r \in Range(free_process_indices) \/ r = p
    BY <1>9, <2>1, <2>3, AppendElements
  <2>5. LiveProcesses' = LiveProcesses \ {p}
    BY <2>4 DEF LiveProcesses
  <2>6. ASSUME NEW t \in less PROVE threads[t].process # p
    <3>1. threads[t].index \in Locals /\ t = GlobalIndex(threads[t].process, threads[t].index)
      BY <1>9 DEF Registered
    <3> QED
      BY <1>7, <1>11, <3>1
  <2>7. Registered(threads, LiveProcesses', less)
    BY <1>9, <2>5, <2>6 DEF Registered
  <2>8. /\ Arrays(processes', frames', LiveProcesses', less)
        /\ Inhabited(processes', LiveProcesses')
    BY <1>8, <2>5 DEF Arrays, Inhabited
  <2> QED
    BY <2>4, <2>7, <2>8
<1> QED
  BY <1>10, <1>11

LEMMA KillAccounts ==
  ASSUME IInv, Undamaged, Accounts, UserRuns, kill_cur_thread
  PROVE  Accountable
<1> DEFINE t     == running_thread
           p     == threads[t].process
           index == threads[t].index
<1>1. TypeOK /\ halt = "none" /\ defects = {} /\ t \in Threads
  BY CallerWasCreated DEF IInv, Undamaged, Running
<1>2. UNCHANGED <<queues, threads, defects>> /\ Released(p, index)
  BY DEF kill_cur_thread
<1>3. /\ halt' = "none"
      /\ Apart(thread_indices', sleep_waiting', char_waiting', running_thread')
      /\ Alive1' = Alive1 \ {t}
  BY <1>1, <1>2, KillMoves
<1>4. t \in Alive1
  BY <1>1 DEF Alive1, AliveIn
<1>5. /\ p \in LiveProcesses /\ index \in Locals /\ t = GlobalIndex(p, index)
  BY <1>1, <1>4, AliveIsRegistered
<1> HIDE DEF p, index
<1>6. /\ Registered(threads, LiveProcesses', Alive1')
      /\ Arrays(processes', frames', LiveProcesses', Alive1')
      /\ Inhabited(processes', LiveProcesses')
      /\ IsInjective(free_process_indices')
  <2> DEFINE less == Alive1 \ {t}
  <2>1. less = Alive1 \ {GlobalIndex(p, index)} /\ GlobalIndex(p, index) \in Alive1
    BY <1>4, <1>5
  <2> HIDE DEF less
  <2>2. /\ Registered(threads, LiveProcesses', less)
        /\ Arrays(processes', frames', LiveProcesses', less)
        /\ Inhabited(processes', LiveProcesses')
        /\ IsInjective(free_process_indices')
    BY <1>1, <1>2, <1>5, <2>1, ReleasedAccounts
  <2> QED
    BY <1>3, <2>2 DEF less
<1>7. Marked(threads', char_waiting') /\ HaveTimeLeft(threads', sleep_waiting')
  BY <1>2 DEF Accounts, queues
<1>8. StayAsleep
  BY <1>2 DEF StayAsleep, queues
<1>9. threads' = threads
  BY <1>2
<1>10. Accounts'
  BY <1>3, <1>6, <1>7, <1>9 DEF Accounts
<1> QED
  BY <1>3, <1>8, <1>10 DEF Accountable

-----------------------------------------------------------------------------
(* Threads and processes are created.                                       *)

\* The sleepers and the readers stay where they are, and no tcb of theirs is
\* touched, when the tcb of a thread that is not alive is filled.
LEMMA FilledTcb ==
  ASSUME TypeOK, NEW live, NEW p \in live, NEW index \in Locals, p \in Processes,
         NEW g, g = GlobalIndex(p, index), g \notin Alive1,
         Registered(threads, live, Alive1),
         Marked(threads, char_waiting), HaveTimeLeft(threads, sleep_waiting),
         UNCHANGED queues,
         threads' = [threads EXCEPT ![g] = NewTcb(p, index)],
         \A t \in Threads : t \in Alive1' <=> t \in Alive1 \/ t = g
  PROVE  /\ Registered(threads', live, Alive1')
         /\ Marked(threads', char_waiting') /\ HaveTimeLeft(threads', sleep_waiting')
         /\ StayAsleep
<1>1. g \in Threads /\ Threads \subseteq 0 .. N_THREADS /\ NullThread \in 0 .. N_THREADS
      /\ g # NullThread
  BY GlobalIndexIsThread, Parameters DEF Threads, NullThread
<1>2. /\ threads'[g].process = p /\ threads'[g].index = index /\ threads'[g].state = "READY"
      /\ \A t \in 0 .. N_THREADS : t # g => threads'[t] = threads[t]
  <2> DEFINE tcb == NewTcb(p, index)
  <2>1. tcb.process = p /\ tcb.index = index /\ tcb.state = "READY"
    BY DEF NewTcb
  <2>2. threads' = [threads EXCEPT ![g] = tcb]
    OBVIOUS
  <2> HIDE DEF tcb
  <2>3. threads'[g] = tcb /\ \A t \in 0 .. N_THREADS : t # g => threads'[t] = threads[t]
    BY <1>1, <2>2 DEF TypeOK
  <2> QED
    BY <2>1, <2>3
<1>3. /\ Range(sleep_waiting) \subseteq Threads /\ Range(char_waiting) \subseteq Threads
      /\ g \notin Range(sleep_waiting) /\ g \notin Range(char_waiting)
  BY <1>1, QueueTypes DEF Alive1, AliveIn
<1>4. Registered(threads', live, Alive1')
  <2> SUFFICES ASSUME NEW t \in Alive1'
               PROVE  /\ threads'[t].process \in live
                      /\ threads'[t].index \in Locals
                      /\ t = GlobalIndex(threads'[t].process, threads'[t].index)
    BY DEF Registered
  <2>1. t \in Threads
    BY DEF Alive1, AliveIn
  <2>2. CASE t = g
    BY <1>2, <2>2
  <2>3. CASE t # g
    <3>1. t \in Alive1 /\ threads'[t] = threads[t]
      BY <1>1, <1>2, <2>1, <2>3
    <3> QED
      BY <3>1 DEF Registered
  <2> QED
    BY <2>2, <2>3
<1>5. Marked(threads', char_waiting')
  BY <1>1, <1>2, <1>3 DEF Marked, queues
<1>6. HaveTimeLeft(threads', sleep_waiting') /\ StayAsleep
  BY <1>1, <1>2, <1>3 DEF HaveTimeLeft, StayAsleep, queues
<1> QED
  BY <1>4, <1>5, <1>6

\* thread_create in a process that is, or has just become, a live one.
LEMMA CreateAccounts ==
  ASSUME TypeOK,
         Apart(thread_indices, sleep_waiting, char_waiting, running_thread),
         Marked(threads, char_waiting), HaveTimeLeft(threads, sleep_waiting),
         NEW live \in SUBSET Processes, NEW p \in live,
         NEW pcbs \in [0 .. N_PROCESSES -> Pcb], NEW memory \in Memory,
         Registered(threads, live, Alive1), Arrays(pcbs, memory, live, Alive1),
         \A r \in live : r # p => pcbs[r].count < N_THREADS_PER_PROCESS,
         thread_create(p, pcbs, memory), UNCHANGED <<running_thread, queues>>,
         LiveProcesses' = live, IsInjective(free_process_indices')
  PROVE  Accounts' /\ StayAsleep
<1>1. /\ p \in Processes /\ live \subseteq Processes /\ Processes \subseteq 0 .. N_PROCESSES
      /\ frames' = memory
      /\ running_thread' = running_thread /\ sleep_waiting' = sleep_waiting
      /\ char_waiting' = char_waiting
  <2>1. p \in Processes /\ live \subseteq Processes /\ Processes \subseteq 0 .. N_PROCESSES
    BY Parameters DEF Processes
  <2>2. frames' = memory
    BY DEF thread_create
  <2> QED
    BY <2>1, <2>2 DEF queues
<1>2. CASE pcbs[p].count = 0
  <2>1. processes' = pcbs /\ UNCHANGED <<thread_indices, threads>>
    BY <1>2 DEF thread_create
  <2>2. Inhabited(processes', live)
    BY <1>2, <2>1, Parameters DEF Inhabited
  <2>3. Alive1' = Alive1
    BY <1>1, <2>1 DEF Alive1
  <2>4. StayAsleep
    BY <1>1, <2>1 DEF StayAsleep
  <2>5. /\ Apart(thread_indices', sleep_waiting', char_waiting', running_thread')
        /\ Marked(threads', char_waiting') /\ HaveTimeLeft(threads', sleep_waiting')
        /\ Registered(threads', live, Alive1') /\ Arrays(processes', frames', live, Alive1')
    BY <1>1, <2>1, <2>3
  <2> QED
    BY <2>2, <2>4, <2>5 DEF Accounts
<1>3. CASE pcbs[p].count # 0
  <2> DEFINE index == memory[pcbs[p].indices][pcbs[p].head]
             one   == Popped(pcbs[p])
  <2>1. pcbs[p] \in Pcb /\ OwnArray(p, pcbs[p], memory, Alive1)
    BY <1>1 DEF Arrays
  <2>2. /\ processes' = [pcbs EXCEPT ![p] = one]
        /\ scheduler_register_thread(p, index)
    BY <1>1, <1>3 DEF thread_create
  <2>3. /\ index \in Locals
        /\ GlobalIndex(p, index) \notin Alive1
        /\ one.count = pcbs[p].count - 1
        /\ one.indices = pcbs[p].indices
        /\ OwnArray(p, one, memory, Alive1 \cup {GlobalIndex(p, index)})
    BY <1>1, <1>3, <2>1, TakenIndex
  <2> HIDE DEF index, one
  <2> DEFINE g    == GlobalIndex(p, index)
             more == Alive1 \cup {g}
  <2>4. /\ g \in Threads /\ g \notin Alive1
        /\ OwnArray(p, one, memory, more)
    BY <1>1, <2>3, GlobalIndexIsThread
  <2>5. /\ thread_indices \in Seq(Threads) /\ IsInjective(thread_indices)
        /\ g \notin Range(thread_indices) /\ g \notin Range(sleep_waiting)
        /\ g \notin Range(char_waiting) /\ g # running_thread
    BY <2>4, QueueTypes DEF Apart, Alive1, AliveIn
  <2>6. ASSUME NEW r \in live, r # p, NEW k \in Locals
        PROVE  GlobalIndex(r, k) \in Alive1 <=> GlobalIndex(r, k) \in more
    BY <1>1, <2>3, <2>6, GlobalIndexInjective
  <2>7. /\ thread_indices' = Append(thread_indices, g)
        /\ threads' = [threads EXCEPT ![g] = NewTcb(p, index)]
    <3>1. Len(thread_indices) < N_THREADS
      BY <2>4, <2>5, RoomForAnother, Parameters DEF Threads
    <3>2. CanPush(thread_indices, GlobalIndex(p, index), N_THREADS)
      BY <2>4, <3>1 DEF CanPush, Threads
    <3> QED
      BY <2>2, <3>2 DEF scheduler_register_thread
  <2>8. g = GlobalIndex(p, index)
    OBVIOUS
  <2> HIDE DEF g
  <2>9. /\ IsInjective(thread_indices')
        /\ \A t : t \in Range(thread_indices') <=> t \in Range(thread_indices) \/ t = g
    BY <2>4, <2>5, <2>7, AppendElements
  <2>10. Apart(thread_indices', sleep_waiting', char_waiting', running_thread')
    BY <1>1, <2>5, <2>9 DEF Apart
  <2>11. \A t \in Threads : t \in Alive1' <=> t \in Alive1 \/ t = g
    BY <1>1, <2>9 DEF Alive1, AliveIn
  <2>12. Alive1' = more
    <3>1. Alive1' \subseteq Threads /\ Alive1 \subseteq Threads
      BY DEF Alive1, AliveIn
    <3> QED
      BY <2>4, <2>11, <3>1
  <2>13. /\ Registered(threads', live, Alive1')
         /\ Marked(threads', char_waiting') /\ HaveTimeLeft(threads', sleep_waiting')
         /\ StayAsleep
    <3>1. index \in Locals /\ p \in Processes /\ UNCHANGED queues
      BY <1>1, <2>3
    <3> QED
      BY <2>4, <2>7, <2>8, <2>11, <3>1, FilledTcb
  <2>14. /\ \A r \in live : r # p => processes'[r] = pcbs[r]
         /\ processes'[p] = one
    BY <1>1, <2>2
  <2>15. ASSUME NEW r \in live, r # p PROVE OwnArray(r, pcbs[r], memory, more)
    <3>1. OwnArray(r, pcbs[r], memory, Alive1)
      BY DEF Arrays
    <3> HIDE DEF more
    <3>2. \A k \in Locals : GlobalIndex(r, k) \in Alive1 <=> GlobalIndex(r, k) \in more
      BY <2>6, <2>15
    <3> QED
      BY <3>1, <3>2, OtherArray
  <2> HIDE DEF more
  <2>16. Arrays(processes', frames', live, Alive1')
    <3>1. \A r \in live : OwnArray(r, processes'[r], memory, more)
      BY <2>4, <2>14, <2>15
    <3>2. \A r \in live : processes'[r].indices = pcbs[r].indices
      BY <2>3, <2>14
    <3> QED
      BY <1>1, <2>12, <3>1, <3>2 DEF Arrays
  <2>17. Inhabited(processes', live)
    <3>1. one.count < N_THREADS_PER_PROCESS
      BY <1>3, <2>1, <2>3, Parameters DEF Pcb
    <3> QED
      BY <2>14, <3>1 DEF Inhabited
  <2> QED
    BY <2>10, <2>13, <2>16, <2>17 DEF Accounts
<1> QED
  BY <1>2, <1>3

LEMMA CreateThreadAccounts ==
  ASSUME IInv, Undamaged, Accounts, NEW valid \in BOOLEAN, exec_syscall_create_thread(valid)
  PROVE  Accountable
<1>1. UserRuns /\ TypeOK /\ halt = "none" /\ running_thread \in Threads
  BY CallerWasCreated DEF IInv, exec_syscall_create_thread, Undamaged, Running
<1>2. CASE ~valid
  BY <1>1, <1>2, KillAccounts DEF exec_syscall_create_thread
<1>3. CASE valid
  <2> DEFINE p == threads[running_thread].process
  <2>1. /\ thread_create(p, processes, frames)
        /\ UNCHANGED <<running_thread, queues>> /\ halt' = "none"
        /\ free_process_indices' = free_process_indices
    BY <1>1, <1>3 DEF exec_syscall_create_thread
  <2>2. running_thread \in Alive1
    BY <1>1 DEF Alive1, AliveIn
  <2>3. p \in LiveProcesses
    BY <1>1, <2>2, AliveIsRegistered
  <2> HIDE DEF p
  <2>4. /\ LiveProcesses \in SUBSET Processes
        /\ LiveProcesses' = LiveProcesses /\ IsInjective(free_process_indices')
        /\ processes \in [0 .. N_PROCESSES -> Pcb] /\ frames \in Memory
    BY <1>1, <2>1 DEF LiveProcesses, Accounts, TypeOK, Memory
  <2>5. /\ Apart(thread_indices, sleep_waiting, char_waiting, running_thread)
        /\ Marked(threads, char_waiting) /\ HaveTimeLeft(threads, sleep_waiting)
        /\ Registered(threads, LiveProcesses, Alive1)
        /\ Arrays(processes, frames, LiveProcesses, Alive1)
        /\ \A r \in LiveProcesses : r # p => processes[r].count < N_THREADS_PER_PROCESS
    BY DEF Accounts, Inhabited
  <2> DEFINE live == LiveProcesses
  <2>6. live \in SUBSET Processes /\ p \in live /\ LiveProcesses' = live
        /\ Registered(threads, live, Alive1)
        /\ Arrays(processes, frames, live, Alive1)
        /\ \A r \in live : r # p => processes[r].count < N_THREADS_PER_PROCESS
    BY <2>3, <2>4, <2>5
  <2> HIDE DEF live
  <2>7. Accounts' /\ StayAsleep
    BY <1>1, <2>1, <2>4, <2>5, <2>6, CreateAccounts
  <2> QED
    BY <2>1, <2>7 DEF Accountable
<1> QED
  BY <1>2, <1>3

\* process_create, when its pcb is not where the array of a live process is.
LEMMA ForkAccounts ==
  ASSUME IInv, Undamaged, Accounts, NEW valid \in BOOLEAN, NEW frame \in Frames,
         exec_syscall_fork(valid, frame), defects' = {}
  PROVE  Accountable
<1>1. UserRuns /\ TypeOK /\ halt = "none"
  BY DEF IInv, exec_syscall_fork, Undamaged, Running
<1>2. CASE ~valid
  BY <1>1, <1>2, KillAccounts DEF exec_syscall_fork
<1>3. CASE valid
  <2> DEFINE memory == WithFrame(frame)
             array  == AllFree(N_THREADS_PER_PROCESS).indices
  <2>1. /\ process_create(frame) /\ UNCHANGED <<running_thread, queues>> /\ halt' = "none"
    BY <1>1, <1>3 DEF exec_syscall_fork
  <2>2. /\ frames \in Memory /\ processes \in [0 .. N_PROCESSES -> Pcb]
        /\ memory = [frames EXCEPT ![frame] = array]
        /\ array \in [LocalSlots -> Locals]
        /\ LiveProcesses \subseteq Processes /\ Processes \subseteq 0 .. N_PROCESSES
    <3>1. array \in [LocalSlots -> Locals]
      BY Parameters DEF AllFree, LocalSlots, Locals
    <3>2. LiveProcesses \subseteq Processes /\ Processes \subseteq 0 .. N_PROCESSES
      BY Parameters DEF LiveProcesses, Processes
    <3> QED
      BY <1>1, <3>1, <3>2 DEF TypeOK, Memory, WithFrame
  <2> HIDE DEF memory, array
  <2>3. /\ memory \in Memory /\ memory[frame] = array
        /\ \A f \in Frames : f # frame => memory[f] = frames[f]
    BY <2>2 DEF Memory
  <2>4. ASSUME NEW r \in LiveProcesses
        PROVE  /\ processes[r].indices # frame /\ processes[r].indices \in Frames
               /\ OwnArray(r, processes[r], memory, Alive1)
               /\ processes[r].count < N_THREADS_PER_PROCESS
    <3>1. processes[r].indices # frame
      <4>1. CASE \E q \in LiveProcesses : processes[q].indices = frame
        <5>1. defects' = defects \cup {"frame_reused"}
          BY <2>1, <4>1 DEF process_create
        <5> QED
          BY <5>1
      <4>2. CASE ~\E q \in LiveProcesses : processes[q].indices = frame
        BY <4>2
      <4> QED
        BY <4>1, <4>2
    <3>2. OwnArray(r, processes[r], frames, Alive1) /\ processes[r].count < N_THREADS_PER_PROCESS
      BY DEF Accounts, Arrays, Inhabited
    <3>3. processes[r].indices \in Frames
      BY <3>2 DEF OwnArray
    <3>4. memory[processes[r].indices] = frames[processes[r].indices]
      BY <2>3, <3>1, <3>3
    <3> QED
      BY <3>1, <3>2, <3>3, <3>4, OtherArray
  <2>5. CASE free_process_indices = <<>>
    <3>1. /\ frames' = memory
          /\ UNCHANGED <<processes, free_process_indices, threads, thread_indices>>
      BY <2>1, <2>5 DEF process_create, memory
    <3>2. Alive1' = Alive1 /\ LiveProcesses' = LiveProcesses
      BY <2>1, <3>1 DEF Alive1, LiveProcesses, queues
    <3>3. Arrays(processes, memory, LiveProcesses, Alive1)
      BY <2>4 DEF Accounts, Arrays
    <3>4. Accounts'
      BY <2>1, <3>1, <3>2, <3>3 DEF Accounts, queues
    <3>5. StayAsleep
      BY <2>1, <3>1 DEF StayAsleep, queues
    <3> QED
      BY <2>1, <3>4, <3>5 DEF Accountable
  <2>6. CASE free_process_indices # <<>>
    <3> DEFINE p    == Head(free_process_indices)
               pcbs == [processes EXCEPT ![p] = NewPcb(frame)]
               live == LiveProcesses \cup {p}
    <3>1. /\ free_process_indices' = Tail(free_process_indices)
          /\ thread_create(p, pcbs, memory)
      BY <2>1, <2>6 DEF process_create, memory
    <3>2. /\ p \in Processes /\ p \in Range(free_process_indices)
          /\ IsInjective(free_process_indices')
          /\ \A r : r \in Range(free_process_indices') <=> r \in Range(free_process_indices) /\ r # p
      <4>1. free_process_indices \in Seq(Processes) /\ IsInjective(free_process_indices)
        BY <1>1, QueueTypes DEF Accounts
      <4> QED
        BY <2>6, <3>1, <4>1, TailElements
    <3> HIDE DEF p
    <3>3. LiveProcesses' = live /\ live \in SUBSET Processes /\ p \in live
          /\ p \notin LiveProcesses
      BY <3>2 DEF LiveProcesses
    <3>4. ASSUME NEW i \in Locals PROVE GlobalIndex(p, i) \notin Alive1
      <4> SUFFICES ASSUME GlobalIndex(p, i) \in Alive1 PROVE FALSE
        OBVIOUS
      <4> DEFINE t == GlobalIndex(p, i)
      <4>1. /\ threads[t].process \in LiveProcesses /\ threads[t].process \in Processes
            /\ threads[t].index \in Locals
            /\ GlobalIndex(p, i) = GlobalIndex(threads[t].process, threads[t].index)
        BY <1>1, AliveIsRegistered
      <4> HIDE DEF t
      <4>2. p = threads[t].process
        BY <3>2, <4>1, GlobalIndexInjective
      <4> QED
        BY <3>3, <4>1, <4>2
    <3>5. /\ OwnArray(p, NewPcb(frame), memory, Alive1)
          /\ NewPcb(frame).indices = frame /\ NewPcb(frame) \in Pcb
      BY <2>3, <3>4, NewArray, NewPcbType DEF array
    <3>6. /\ pcbs \in [0 .. N_PROCESSES -> Pcb]
          /\ pcbs[p] = NewPcb(frame)
          /\ \A r \in LiveProcesses : pcbs[r] = processes[r]
      BY <2>2, <3>2, <3>3, <3>5
    <3> HIDE DEF pcbs, live
    <3>7. Arrays(pcbs, memory, live, Alive1)
      <4>1. ASSUME NEW r \in live PROVE OwnArray(r, pcbs[r], memory, Alive1)
        <5>1. CASE r = p
          BY <3>5, <3>6, <5>1
        <5>2. CASE r # p
          BY <2>4, <3>6, <5>2 DEF live
        <5> QED
          BY <5>1, <5>2
      <4>2. ASSUME NEW r \in live, NEW q \in live, pcbs[r].indices = pcbs[q].indices
            PROVE  r = q
        <5>1. CASE r = p
          BY <2>4, <3>5, <3>6, <4>2, <5>1 DEF live
        <5>2. CASE q = p
          BY <2>4, <3>5, <3>6, <4>2, <5>2 DEF live
        <5>3. CASE r # p /\ q # p
          BY <3>6, <4>2, <5>3 DEF live, Accounts, Arrays
        <5> QED
          BY <5>1, <5>2, <5>3
      <4> QED
        BY <4>1, <4>2 DEF Arrays
    <3>8. Registered(threads, live, Alive1)
      BY DEF Accounts, Registered, live
    <3>9. \A r \in live : r # p => pcbs[r].count < N_THREADS_PER_PROCESS
      BY <2>4, <3>6 DEF live
    <3>10. /\ Apart(thread_indices, sleep_waiting, char_waiting, running_thread)
           /\ Marked(threads, char_waiting) /\ HaveTimeLeft(threads, sleep_waiting)
      BY DEF Accounts
    <3>11. Accounts' /\ StayAsleep
      BY <1>1, <2>1, <2>3, <3>1, <3>2, <3>3, <3>6, <3>7, <3>8, <3>9, <3>10, CreateAccounts
    <3> QED
      BY <2>1, <3>11 DEF Accountable
  <2> QED
    BY <2>5, <2>6
<1> QED
  BY <1>2, <1>3

-----------------------------------------------------------------------------
(* The theorems about an orderly kernel.                                    *)

\* start_kernel leaves one thread, in the first process, and the other
\* processes free.
LEMMA InitAccounts == Init => AInv
<1> SUFFICES ASSUME Init PROVE AInv
  OBVIOUS
<1>1. PICK frame \in Frames :
         processes = [p \in 0 .. N_PROCESSES |->
                         IF p = 1 THEN Popped(NewPcb(frame)) ELSE EmptyPcb]
  BY DEF Init
<1>2. /\ 1 \in Processes /\ 1 \in Locals /\ 1 \in Threads /\ NullThread \notin Threads
      /\ Processes \subseteq 0 .. N_PROCESSES /\ Threads \subseteq 0 .. N_THREADS
  BY Parameters DEF Processes, Locals, Threads, NullThread
<1>3. GlobalIndex(1, 1) = 1
  BY Parameters DEF GlobalIndex
<1>4. /\ thread_indices = <<1>> /\ sleep_waiting = <<>> /\ char_waiting = <<>>
      /\ running_thread = NullThread
      /\ threads = [t \in 0 .. N_THREADS |-> IF t = 1 THEN NewTcb(1, 1) ELSE EmptyTcb]
      /\ frames = [f \in Frames |-> AllFree(N_THREADS_PER_PROCESS).indices]
      /\ free_process_indices = [k \in 1 .. N_PROCESSES - 1 |-> k + 1]
      /\ halt = "none" /\ defects = {}
  BY DEF Init
<1>5. Range(thread_indices) = {1} /\ Range(sleep_waiting) = {} /\ Range(char_waiting) = {}
  BY <1>4 DEF Range
<1>6. Alive1 = {1}
  BY <1>2, <1>4, <1>5 DEF Alive1, AliveIn
<1>7. Range(free_process_indices) = 2 .. N_PROCESSES /\ IsInjective(free_process_indices)
  <2>1. Range(free_process_indices) = {k + 1 : k \in 1 .. N_PROCESSES - 1}
    BY <1>4 DEF Range
  <2>2. ASSUME NEW x \in 2 .. N_PROCESSES PROVE \E k \in 1 .. N_PROCESSES - 1 : x = k + 1
    <3>1. x - 1 \in 1 .. N_PROCESSES - 1 /\ x = (x - 1) + 1
      BY Parameters
    <3> QED
      BY <3>1
  <2>3. {k + 1 : k \in 1 .. N_PROCESSES - 1} = 2 .. N_PROCESSES
    BY <2>2, Parameters
  <2>4. IsInjective(free_process_indices)
    BY <1>4, Parameters DEF IsInjective
  <2> QED
    BY <2>1, <2>3, <2>4
<1>8. LiveProcesses = {1}
  BY <1>2, <1>7, Parameters DEF LiveProcesses, Processes
<1>9. Apart(thread_indices, sleep_waiting, char_waiting, running_thread)
  <2>1. IsInjective(thread_indices) /\ IsInjective(sleep_waiting) /\ IsInjective(char_waiting)
    BY <1>4 DEF IsInjective
  <2> QED
    BY <1>4, <1>5, <2>1 DEF Apart, NullThread
<1>10. /\ threads[1] = NewTcb(1, 1)
       /\ \A t \in 0 .. N_THREADS : threads[t].state = "READY"
  <2>1. \A t \in 0 .. N_THREADS : threads[t] = IF t = 1 THEN NewTcb(1, 1) ELSE EmptyTcb
    BY <1>4
  <2> QED
    BY <1>2, <2>1 DEF NewTcb, EmptyTcb
<1>11. Registered(threads, LiveProcesses, Alive1)
  BY <1>2, <1>3, <1>6, <1>8, <1>10 DEF Registered, NewTcb
<1>12. Marked(threads, char_waiting) /\ HaveTimeLeft(threads, sleep_waiting)
  <2>1. NullThread \in 0 .. N_THREADS
    BY Parameters DEF NullThread
  <2> QED
    BY <1>2, <1>5, <1>10, <2>1 DEF Marked, HaveTimeLeft
<1>13. /\ OwnArray(1, processes[1], frames, Alive1)
       /\ processes[1].count < N_THREADS_PER_PROCESS
  <2> DEFINE new   == NewPcb(frame)
             array == AllFree(N_THREADS_PER_PROCESS).indices
  <2>1. array \in [LocalSlots -> Locals] /\ array[0] = 1
    BY Parameters DEF AllFree, LocalSlots, Locals
  <2>2. new \in Pcb /\ new.indices = frame /\ new.count = N_THREADS_PER_PROCESS /\ new.head = 0
    <3>1. new \in Pcb /\ new.indices = frame
      BY NewPcbType
    <3>2. new.count = N_THREADS_PER_PROCESS /\ new.head = 0
      BY DEF NewPcb, AllFree
    <3> QED
      BY <3>1, <3>2
  <2>3. frames \in Memory /\ frames[frame] = array
    BY <1>4, <2>1 DEF Memory
  <2>4. OwnArray(1, new, frames, {})
    BY <2>3, NewArray
  <2>5. processes[1] = Popped(new)
    BY <1>1, <1>2
  <2>6. 1 = frames[new.indices][new.head]
    BY <2>1, <2>2, <2>3
  <2> HIDE DEF new, array
  <2>7. /\ Popped(new).count = new.count - 1
        /\ OwnArray(1, Popped(new), frames, {} \cup {GlobalIndex(1, 1)})
    <3>1. PICK index : index = frames[new.indices][new.head]
      OBVIOUS
    <3>2. index = 1
      BY <2>6, <3>1
    <3>3. /\ Popped(new).count = new.count - 1
          /\ OwnArray(1, Popped(new), frames, {} \cup {GlobalIndex(1, index)})
      BY <1>2, <2>2, <2>3, <2>4, <3>1, TakenIndex, Parameters
    <3> QED
      BY <3>2, <3>3
  <2>8. {} \cup {GlobalIndex(1, 1)} = Alive1
    BY <1>3, <1>6
  <2> QED
    BY <2>2, <2>5, <2>7, <2>8, Parameters
<1>14. Arrays(processes, frames, LiveProcesses, Alive1) /\ Inhabited(processes, LiveProcesses)
  BY <1>8, <1>13 DEF Arrays, Inhabited
<1>15. Accounts
  BY <1>7, <1>9, <1>11, <1>12, <1>14 DEF Accounts
<1> QED
  BY <1>4, <1>15 DEF AInv, OnlySleepOrderHalts

\* Once the kernel has stopped it stays as it is, and a history is never undone.
LEMMA DamageStays ==
  ASSUME [Next]_vars
  PROVE  /\ ~Running => UNCHANGED vars
         /\ defects' = {} => defects = {}
<1>1. ASSUME ~Running PROVE UNCHANGED vars
  BY <1>1 DEF Next, timer_irq, uart_irq, exec_syscall_exit, kill_offender, exec_syscall_get_char,
              exec_syscall_wait, exec_syscall_fork, exec_syscall_create_thread, kendless_loop,
              UserRuns
<1>2. ASSUME NEW t, Preempted(t), defects' = {} PROVE defects = {}
  BY <1>2 DEF Preempted
<1>3. ASSUME NEW ready, NEW old, NEW loaded, Cycle(ready, old, loaded), defects' = {}
      PROVE  defects = {}
  BY <1>2, <1>3 DEF Cycle
<1>4. ASSUME kill_cur_thread PROVE defects' = defects
  BY <1>4 DEF kill_cur_thread
<1>5. ASSUME defects' = {} PROVE defects = {}
  <2>1. CASE UNCHANGED vars
    BY <1>5, <2>1 DEF vars
  <2>2. CASE timer_irq
    BY <1>3, <1>5, <2>2 DEF timer_irq
  <2>3. CASE uart_irq
    BY <1>5, <2>3 DEF uart_irq
  <2>4. CASE exec_syscall_exit \/ kill_offender
    BY <1>4, <1>5, <2>4 DEF exec_syscall_exit, kill_offender
  <2>5. CASE exec_syscall_get_char
    BY <1>3, <1>5, <2>5 DEF exec_syscall_get_char, scheduler_on_getchar, Park
  <2>6. ASSUME NEW duration \in Durations, exec_syscall_wait(duration) PROVE defects = {}
    BY <1>3, <1>5, <2>6 DEF exec_syscall_wait, scheduler_on_sleep, Park, vars
  <2>7. ASSUME NEW valid \in BOOLEAN, NEW frame \in Frames, exec_syscall_fork(valid, frame)
        PROVE  defects = {}
    BY <1>4, <1>5, <2>7 DEF exec_syscall_fork, process_create
  <2>8. ASSUME NEW valid \in BOOLEAN, exec_syscall_create_thread(valid) PROVE defects = {}
    BY <1>4, <1>5, <2>8 DEF exec_syscall_create_thread
  <2>9. CASE kendless_loop
    BY <1>5, <2>9 DEF kendless_loop, vars
  <2> QED
    BY <2>1, <2>2, <2>3, <2>4, <2>5, <2>6, <2>7, <2>8, <2>9 DEF Next
<1> QED
  BY <1>1, <1>5

\* Every step that leaves nothing damaged keeps the accounts.
LEMMA StepAccounts ==
  ASSUME IInv, Undamaged, Accounts, [Next]_vars, defects' = {}
  PROVE  Accountable
<1>1. CASE UNCHANGED vars
  <2>1. Accounts'
    BY <1>1 DEF Accounts, Alive1, LiveProcesses, vars
  <2>2. StayAsleep
    BY <1>1 DEF StayAsleep, vars
  <2> QED
    BY <1>1, <2>1, <2>2 DEF Accountable, Undamaged, Running, vars
<1>2. CASE timer_irq
  BY <1>2, TimerAccounts
<1>3. CASE uart_irq
  BY <1>3, UartAccounts
<1>4. CASE exec_syscall_exit
  BY <1>4, KillAccounts DEF exec_syscall_exit
<1>5. CASE kill_offender
  BY <1>5, KillAccounts DEF kill_offender
<1>6. CASE exec_syscall_get_char
  BY <1>6, GetCharAccounts
<1>7. ASSUME NEW duration \in Durations, exec_syscall_wait(duration) PROVE Accountable
  BY <1>7, WaitAccounts
<1>8. ASSUME NEW valid \in BOOLEAN, NEW frame \in Frames, exec_syscall_fork(valid, frame)
      PROVE  Accountable
  BY <1>8, ForkAccounts
<1>9. ASSUME NEW valid \in BOOLEAN, exec_syscall_create_thread(valid) PROVE Accountable
  BY <1>9, CreateThreadAccounts
<1>10. CASE kendless_loop
  BY <1>1, <1>10 DEF kendless_loop
<1> QED
  BY <1>1, <1>2, <1>3, <1>4, <1>5, <1>6, <1>7, <1>8, <1>9, <1>10 DEF Next

LEMMA StepAInv == IInv /\ AInv /\ [Next]_vars => AInv'
<1> SUFFICES ASSUME IInv, AInv, [Next]_vars PROVE AInv'
  OBVIOUS
<1>1. CASE ~Running
  <2>1. UNCHANGED vars
    BY <1>1, DamageStays
  <2> QED
    BY <2>1 DEF AInv, Undamaged, Running, OnlySleepOrderHalts, Accounts, Alive1, LiveProcesses, vars
<1>2. CASE Running /\ defects' # {}
  BY <1>2 DEF AInv, Undamaged, OnlySleepOrderHalts
<1>3. CASE Running /\ defects' = {}
  <2>1. Undamaged
    BY <1>3, DamageStays DEF Undamaged
  <2>2. Accountable
    BY <1>3, <2>1, StepAccounts DEF AInv
  <2> QED
    BY <2>2 DEF AInv, Undamaged, Running, OnlySleepOrderHalts, Accountable
<1> QED
  BY <1>1, <1>2, <1>3

LEMMA AccountsInvariant == Spec => []AInv
<1>1. Init => AInv
  BY InitAccounts
<1>2. IInv /\ AInv /\ [Next]_vars => AInv'
  BY StepAInv
<1> QED
  BY <1>1, <1>2, InductiveInvariant, PTL DEF Spec

\* Places holds every thread that is alive, once.
LEMMA PlacesAreApart ==
  ASSUME TypeOK, Apart(thread_indices, sleep_waiting, char_waiting, running_thread)
  PROVE  ThreadsInOnePlace /\ Alive = Alive1
<1> DEFINE one  == IF running_thread = NullThread THEN <<>> ELSE <<running_thread>>
           two  == thread_indices \o sleep_waiting
           more == two \o char_waiting
<1>1. /\ IsInjective(thread_indices) /\ IsInjective(sleep_waiting) /\ IsInjective(char_waiting)
      /\ \A t \in Threads : /\ ~(t \in Range(thread_indices) /\ t \in Range(sleep_waiting))
                            /\ ~(t \in Range(thread_indices) /\ t \in Range(char_waiting))
                            /\ ~(t \in Range(sleep_waiting) /\ t \in Range(char_waiting))
  BY DEF Apart
<1>2. /\ two \in Seq(Threads) /\ IsInjective(two)
      /\ \A t : t \in Range(two) <=> t \in Range(thread_indices) \/ t \in Range(sleep_waiting)
  BY <1>1, QueueTypes, ConcatOfInjective
<1> HIDE DEF two
<1>3. /\ more \in Seq(Threads) /\ IsInjective(more)
      /\ \A t : t \in Range(more) <=> t \in Range(two) \/ t \in Range(char_waiting)
  BY <1>1, <1>2, QueueTypes, ConcatOfInjective
<1>4. /\ one \in Seq(Threads) /\ IsInjective(one)
      /\ \A t \in Threads : t \in Range(one) <=> t = running_thread
  <2>1. CASE running_thread = NullThread
    BY <2>1, QueueTypes DEF IsInjective, Range
  <2>2. CASE running_thread # NullThread
    <3>1. running_thread \in Threads /\ one = <<running_thread>>
      BY <2>2, QueueTypes
    <3> HIDE DEF one
    <3> QED
      BY <3>1 DEF IsInjective, Range
  <2> QED
    BY <2>1, <2>2
<1> HIDE DEF more, one
<1>5. \A t \in Threads : ~(t \in Range(more) /\ t \in Range(one))
  BY <1>2, <1>3, <1>4 DEF Apart
<1>6. /\ IsInjective(more \o one)
      /\ \A t : t \in Range(more \o one) <=> t \in Range(more) \/ t \in Range(one)
  BY <1>3, <1>4, <1>5, ConcatOfInjective
<1>7. Places = more \o one
  BY DEF Places, more, two, one
<1>8. \A t \in Threads : t \in Range(Places) <=> t \in Alive1
  BY <1>2, <1>3, <1>4, <1>6, <1>7 DEF Alive1, AliveIn
<1>9. Range(Places) \subseteq Threads /\ Alive1 \subseteq Threads
  <2>1. Range(more) \subseteq Threads /\ Range(one) \subseteq Threads
    BY <1>3, <1>4, ElementsOfSeq
  <2> QED
    BY <1>6, <1>7, <2>1 DEF Alive1, AliveIn
<1> QED
  BY <1>6, <1>7, <1>8, <1>9 DEF ThreadsInOnePlace, Alive

\* The accounts say what the free indices are of.
LEMMA AccountsAreIndices ==
  ASSUME TypeOK, Accounts
  PROVE  IndicesAccounted
<1>1. Alive = Alive1
  BY PlacesAreApart DEF Accounts
<1>2. ASSUME NEW p \in LiveProcesses
      PROVE  /\ FreeIndices(p) = {i \in Locals : GlobalIndex(p, i) \notin Alive}
             /\ processes[p].count = Cardinality(FreeIndices(p))
             /\ processes[p].count < N_THREADS_PER_PROCESS
  <2> DEFINE s == Contents(Deref(processes[p], frames))
  <2>1. /\ OwnArray(p, processes[p], frames, Alive1)
        /\ processes[p].count < N_THREADS_PER_PROCESS
    BY DEF Accounts, Arrays, Inhabited
  <2>2. processes[p] \in Pcb /\ frames \in Memory /\ processes[p].indices \in Frames
    BY <2>1, Parameters DEF TypeOK, Memory, LiveProcesses, Processes, OwnArray
  <2>3. s \in Seq(Locals) /\ Len(s) = processes[p].count
    BY <2>2, DerefFields
  <2>4. /\ IsInjective(s) /\ FreeIndices(p) = Range(s)
        /\ \A i \in Locals : i \in Range(s) <=> GlobalIndex(p, i) \notin Alive1
    BY <2>1 DEF OwnArray, FreeIndices
  <2> HIDE DEF s
  <2>5. Range(s) \subseteq Locals /\ Cardinality(Range(s)) = Len(s)
    BY <2>3, <2>4, ElementsOfSeq, InjectiveCardinality
  <2> QED
    BY <1>1, <2>1, <2>3, <2>4, <2>5
<1>3. ASSUME NEW p \in Processes \ LiveProcesses, NEW i \in Locals
      PROVE  GlobalIndex(p, i) \notin Alive
  <2> SUFFICES ASSUME GlobalIndex(p, i) \in Alive1 PROVE FALSE
    BY <1>1
  <2> DEFINE t == GlobalIndex(p, i)
  <2>1. /\ threads[t].process \in LiveProcesses /\ threads[t].process \in Processes
        /\ threads[t].index \in Locals
        /\ GlobalIndex(p, i) = GlobalIndex(threads[t].process, threads[t].index)
    BY AliveIsRegistered
  <2> HIDE DEF t
  <2>2. p = threads[t].process
    BY <2>1, GlobalIndexInjective
  <2> QED
    BY <2>1, <2>2
<1>4. IsInjective(free_process_indices)
  BY DEF Accounts
<1> QED
  BY <1>2, <1>3, <1>4 DEF IndicesAccounted

\* While nothing has gone wrong, a thread is running, ready, asleep or waiting
\* for a character, and in that place once (scheduler.c:182-233, 290-314,
\* 337-359).
THEOREM NoThreadIsTwice == Spec => []NoThreadTwice
<1>1. IInv /\ AInv => NoThreadTwice
  BY PlacesAreApart DEF IInv, AInv, NoThreadTwice, Accounts
<1> QED
  BY <1>1, InductiveInvariant, AccountsInvariant, PTL

\* While nothing has gone wrong, the free indices of a live process are those
\* no thread of it has, each once, and a process without threads is free
\* (kill_cur_thread, scheduler.c:250-259; thread_create, thread.c:91).
THEOREM NoIndexIsLost == Spec => []NoIndexLost
<1>1. IInv /\ AInv => NoIndexLost
  BY AccountsAreIndices DEF IInv, AInv, NoIndexLost
<1> QED
  BY <1>1, InductiveInvariant, AccountsInvariant, PTL

\* While nothing has gone wrong, WAITING marks the threads in char_waiting and
\* no other (scheduler.c:331-335, 354-358).
THEOREM WaitingMarksReaders == Spec => []WaitingStateExact
<1>1. AInv => WaitingStateExact
  BY DEF AInv, Accounts, Marked, WaitingStateExact
<1> QED
  BY <1>1, AccountsInvariant, PTL

\* While nothing has gone wrong, no sleeper's duration is zero, so that no
\* decrement wraps (scheduler.c:72, 322-328).
THEOREM NoDurationWraps == Spec => []SleepersHaveTimeLeft
<1>1. AInv => SleepersHaveTimeLeft
  BY DEF AInv, Accounts, HaveTimeLeft, SleepersHaveTimeLeft
<1> QED
  BY <1>1, AccountsInvariant, PTL

\* Without the two histories nothing but the order of sleepers stops the
\* kernel: the assertion of exec_syscall_get_char (calls.c:63) holds, and no
\* tcb is loaded that no thread was created in.
THEOREM OnlySleepOrderStops == Spec => []OnlySleepOrderHalts
  BY AccountsInvariant, PTL DEF AInv

\* As long as nothing goes wrong, every step leaves all sleepers as they are,
\* or takes one tick from each and wakes exactly those whose last it was
\* (scheduler.c:61-89).
THEOREM SleepersAge == Spec => SleepersAgeTogether
<1>1. IInv /\ AInv /\ [Next]_vars =>
         [Undamaged' =>
             \/ \A t \in Range(sleep_waiting) :
                   /\ t \in Range(sleep_waiting')
                   /\ threads'[t].waiting_duration = threads[t].waiting_duration
             \/ \A t \in Range(sleep_waiting) :
                   IF threads[t].waiting_duration = 1
                   THEN /\ t \notin Range(sleep_waiting')
                        /\ t \in Range(thread_indices') \cup {running_thread'}
                   ELSE /\ t \in Range(sleep_waiting')
                        /\ threads'[t].waiting_duration = threads[t].waiting_duration - 1]_vars
  <2> SUFFICES ASSUME IInv, AInv, [Next]_vars, Undamaged' PROVE StayAsleep \/ TickPasses
    BY DEF StayAsleep, TickPasses
  <2>1. CASE ~Running
    <3>1. UNCHANGED vars
      BY <2>1, DamageStays
    <3> QED
      BY <3>1 DEF StayAsleep, vars
  <2>2. CASE Running
    <3>1. defects' = {} /\ halt' = "none"
      BY DEF Undamaged, Running
    <3>2. Undamaged
      BY <2>2, <3>1, DamageStays DEF Undamaged
    <3>3. Accountable
      BY <3>1, <3>2, StepAccounts DEF AInv
    <3> QED
      BY <3>1, <3>3 DEF Accountable
  <2> QED
    BY <2>1, <2>2
<1> QED
  BY <1>1, InductiveInvariant, AccountsInvariant, PTL DEF Spec, SleepersAgeTogether

-----------------------------------------------------------------------------
(* The third part: what programs see.  Each handler, while nothing goes      *)
(* wrong, is the step of ThreadLifecycle that bears its name.               *)

Left == [t \in Range(sleep_waiting) |-> threads[t].waiting_duration]
AllTeams == {{GlobalIndex(p, i) : i \in Locals} : p \in Processes}

\* The one who gives up the processor is gone from the queue of the ready.
LEMMA TurnedYields ==
  ASSUME Turned(thread_indices, NullThread, thread_indices', running_thread')
  PROVE  Life!Yield
  BY DEF Turned, Life!Yield

\* Nothing happens to the sleepers.
LEMMA LeftKept ==
  ASSUME sleep_waiting' = sleep_waiting,
         \A t \in Range(sleep_waiting) : threads'[t].waiting_duration = threads[t].waiting_duration
  PROVE  Left' = Left
  BY DEF Left

\* The threads ThreadLifecycle counts as alive are those of the accounts.
LEMMA AliveAreThose ==
  ASSUME TypeOK
  PROVE  Life!Alive = Alive1
<1>1. DOMAIN Left = Range(sleep_waiting)
  BY DEF Left
<1>2. Life!Alive = Range(thread_indices) \cup Range(sleep_waiting) \cup Range(char_waiting)
                   \cup ({running_thread} \ {NullThread})
  BY <1>1 DEF Life!Alive, Life!Range, Range, Left
<1> QED
  BY <1>2, QueueTypes DEF Alive1, AliveIn

\* The user thread that calls the kernel.
LEMMA CallerRuns ==
  ASSUME IInv, Undamaged, UserRuns
  PROVE  /\ TypeOK /\ halt = "none" /\ running_thread \in Threads
         /\ running_thread # NullThread
  BY CallerWasCreated, QueueTypes DEF IInv, Undamaged, Running

\* exit, a fault, a bad argument: the thread is in no queue any more.
LEMMA KillEnds ==
  ASSUME IInv, Undamaged, Accounts, UserRuns, kill_cur_thread, defects' = {}
  PROVE  Life!End
<1>1. TypeOK /\ running_thread \in Threads /\ running_thread # NullThread
  BY CallerRuns
<1>2. UNCHANGED <<queues, threads, uart_count>>
  BY DEF kill_cur_thread
<1>3. Life!Yield
  BY <1>1, KillMoves, TurnedYields
<1>4. Left' = Left
  BY <1>2, LeftKept DEF queues
<1> QED
  BY <1>1, <1>2, <1>3, <1>4 DEF Life!End, Left, queues

\* get_char takes a character, or goes behind the other readers.
LEMMA GetCharReads ==
  ASSUME IInv, Undamaged, Accounts, exec_syscall_get_char, defects' = {}
  PROVE  Life!Read
<1>1. TypeOK /\ running_thread \in Threads /\ running_thread # NullThread
  BY CallerRuns DEF exec_syscall_get_char
<1>2. uart_count \in Nat
  BY <1>1, Parameters DEF TypeOK
<1>3. CASE ~uart_queue_is_emtpy
  <2>1. /\ uart_count # 0 /\ uart_count' = uart_count - 1
        /\ UNCHANGED <<running_thread, threads, thread_indices, queues>>
    BY <1>3 DEF exec_syscall_get_char, uart_queue_is_emtpy
  <2>2. Left' = Left
    BY <2>1, LeftKept DEF queues
  <2> QED
    BY <1>1, <1>2, <2>1, <2>2 DEF Life!Read, Left, queues
<1>4. CASE uart_queue_is_emtpy
  <2>1. /\ char_waiting' = Waiting(char_waiting) /\ Park
        /\ threads' = WithWaiter
        /\ UNCHANGED <<sleep_waiting, uart_count>> /\ uart_count = 0
    BY <1>1, <1>4, NextIsReady DEF exec_syscall_get_char, scheduler_on_getchar, uart_queue_is_emtpy
  <2>2. Life!Yield
    BY <1>1, <2>1, ParkMoves, TurnedYields
  <2>3. char_waiting' = Append(char_waiting, running_thread)
    <3>1. char_waiting \in Seq(Threads) /\ IsInjective(char_waiting)
          /\ running_thread \notin Range(char_waiting)
      BY <1>1, QueueTypes DEF Accounts, Apart
    <3> QED
      BY <1>1, <2>1, <3>1, WaitingAppends
  <2>4. Left' = Left
    <3>1. \A t \in 0 .. N_THREADS : threads'[t].waiting_duration = threads[t].waiting_duration
      BY <1>1, <2>1 DEF WithWaiter, TypeOK, Tcb
    <3>2. Range(sleep_waiting) \subseteq 0 .. N_THREADS
      BY <1>1, QueueTypes, Parameters DEF Threads
    <3> QED
      BY <2>1, <3>1, <3>2, LeftKept
  <2> QED
    BY <1>1, <2>1, <2>2, <2>3, <2>4 DEF Life!Read, Left
<1> QED
  BY <1>3, <1>4

\* wait puts one more among the sleepers.
LEMMA WaitSleeps ==
  ASSUME IInv, Undamaged, Accounts, NEW duration \in Durations, exec_syscall_wait(duration),
         defects' = {}
  PROVE  Life!Sleep(duration)
<1>1. /\ TypeOK /\ running_thread \in Threads /\ running_thread # NullThread
      /\ duration \in Nat
  BY CallerRuns, Parameters DEF exec_syscall_wait
<1>2. CASE ReturnsAtOnce(duration)
  <2>1. UNCHANGED vars /\ duration = 0
    BY <1>2 DEF exec_syscall_wait, scheduler_on_sleep, ReturnsAtOnce
  <2>2. Left' = Left
    BY <2>1 DEF Left, vars
  <2> QED
    BY <1>1, <2>1, <2>2 DEF Life!Sleep, Life!lifeVars, Left, vars
<1>3. CASE ~ReturnsAtOnce(duration)
  <2>1. /\ sleep_waiting' = Waiting(sleep_waiting) /\ Park
        /\ threads' = [threads EXCEPT ![running_thread].waiting_duration = duration]
        /\ UNCHANGED <<char_waiting, uart_count>> /\ duration > 0
    BY <1>1, <1>3 DEF exec_syscall_wait, scheduler_on_sleep, ReturnsAtOnce
  <2>2. Life!Yield
    BY <1>1, <2>1, ParkMoves, TurnedYields
  <2>3. \A t : t \in Range(sleep_waiting') <=> t \in Range(sleep_waiting) \/ t = running_thread
    <3>1. sleep_waiting \in Seq(Threads) /\ IsInjective(sleep_waiting)
          /\ running_thread \notin Range(sleep_waiting)
      BY <1>1, QueueTypes DEF Accounts, Apart
    <3> QED
      BY <1>1, <2>1, <3>1, WaitingAppends
  <2>4. /\ \A t \in 0 .. N_THREADS : threads'[t].waiting_duration
               = IF t = running_thread THEN duration ELSE threads[t].waiting_duration
        /\ Range(sleep_waiting) \subseteq 0 .. N_THREADS /\ running_thread \in 0 .. N_THREADS
    <3>1. Range(sleep_waiting) \subseteq 0 .. N_THREADS /\ running_thread \in 0 .. N_THREADS
      BY <1>1, QueueTypes, Parameters DEF Threads
    <3>2. \A t \in 0 .. N_THREADS : threads'[t].waiting_duration
               = IF t = running_thread THEN duration ELSE threads[t].waiting_duration
      BY <1>1, <2>1, <3>1 DEF TypeOK, Tcb
    <3> QED
      BY <3>1, <3>2
  <2>5. Left' = [t \in DOMAIN Left \cup {running_thread} |->
                    IF t = running_thread THEN duration ELSE Left[t]]
    <3>1. Range(sleep_waiting') = Range(sleep_waiting) \cup {running_thread}
      BY <2>3
    <3>2. \A t \in Range(sleep_waiting') : threads'[t].waiting_duration
              = IF t = running_thread THEN duration ELSE threads[t].waiting_duration
      BY <2>4, <3>1
    <3> QED
      BY <3>1, <3>2 DEF Left
  <2> QED
    BY <1>1, <2>1, <2>2, <2>5 DEF Life!Sleep, Left
<1> QED
  BY <1>2, <1>3

\* The three cases of a character: a full buffer has no reader waiting.
LEMMA UartBrings ==
  ASSUME IInv, Undamaged, Accounts, uart_irq
  PROVE  Life!Character
<1>1. /\ TypeOK /\ UNCHANGED <<running_thread, sleep_waiting>>
      /\ char_waiting # <<>> => uart_count = 0
  BY DEF IInv, CharWaitersMeanEmptyBuffer, uart_irq
<1>2. /\ uart_count \in 0 .. UART_INPUT_BUFFER_SIZE /\ UART_INPUT_BUFFER_SIZE \in Nat
      /\ UART_INPUT_BUFFER_SIZE > 0
  BY <1>1, ConfigAssumption DEF TypeOK
<1>3. CASE uart_count >= UART_INPUT_BUFFER_SIZE
  <2>1. UNCHANGED <<threads, thread_indices, char_waiting, uart_count>>
    BY <1>2, <1>3 DEF uart_irq
  <2>2. Left' = Left
    BY <1>1, <2>1 DEF Left
  <2>3. char_waiting = <<>> /\ uart_count = UART_INPUT_BUFFER_SIZE
    BY <1>1, <1>2, <1>3
  <2> QED
    BY <1>1, <2>1, <2>2, <2>3 DEF Life!Character, Life!lifeVars, Left
<1>4. CASE ~(uart_count >= UART_INPUT_BUFFER_SIZE)
  <2>1. scheduler_on_char_received(uart_count + 1) /\ uart_count < UART_INPUT_BUFFER_SIZE
    BY <1>2, <1>4 DEF uart_irq
  <2>2. CASE char_waiting = <<>>
    <3>1. /\ uart_count' = uart_count + 1
          /\ UNCHANGED <<threads, thread_indices, char_waiting>>
      BY <2>1, <2>2 DEF scheduler_on_char_received
    <3>2. Left' = Left
      BY <1>1, <3>1 DEF Left
    <3> QED
      BY <1>1, <2>1, <2>2, <3>1, <3>2 DEF Life!Character, Left
  <2>3. CASE char_waiting # <<>>
    <3> DEFINE h == Head(char_waiting)
    <3>1. /\ char_waiting' = Tail(char_waiting)
          /\ uart_count' = uart_count
          /\ threads' = Notified(h)
          /\ thread_indices' = PushIndex(thread_indices, h, N_THREADS)
      BY <1>2, <2>1, <2>3 DEF scheduler_on_char_received
    <3>2. h \in Threads /\ h \in Range(char_waiting)
      BY <1>1, <2>3, QueueTypes, TailElements DEF Accounts, Apart
    <3> HIDE DEF h
    <3>3. thread_indices' = Append(thread_indices, h)
      <4>1. /\ thread_indices \in Seq(Threads) /\ IsInjective(thread_indices)
            /\ h \notin Range(thread_indices)
        BY <1>1, <3>2, QueueTypes DEF Accounts, Apart
      <4>2. Len(thread_indices) < N_THREADS
        BY <3>2, <4>1, RoomForAnother, Parameters DEF Threads
      <4> QED
        BY <3>1, <3>2, <4>2 DEF PushIndex, CanPush, Threads
    <3>4. Left' = Left
      <4>1. \A t \in 0 .. N_THREADS : threads'[t].waiting_duration = threads[t].waiting_duration
        BY <1>1, <3>1 DEF Notified, TypeOK, Tcb
      <4>2. Range(sleep_waiting) \subseteq 0 .. N_THREADS
        BY <1>1, QueueTypes, Parameters DEF Threads
      <4> QED
        BY <1>1, <4>1, <4>2, LeftKept
    <3> QED
      BY <1>1, <2>3, <3>1, <3>3, <3>4 DEF Life!Character, Left, h
  <2> QED
    BY <2>2, <2>3
<1> QED
  BY <1>3, <1>4

\* The sleepers that wake are those with one tick left, in some order.
LEMMA WokenAreSome ==
  ASSUME TypeOK, Accounts, HeadsAreDue,
         NEW due, due = {t \in Range(sleep_waiting) : threads[t].waiting_duration = 1}
  PROVE  Woken \in Life!SetToSeqs(due)
<1> DEFINE w == Woken
<1>1. /\ w \in Seq(Threads) /\ IsInjective(w)
      /\ \A t \in Threads : t \in Range(w)
            <=> t \in Range(sleep_waiting) /\ threads[t].waiting_duration = 1
  BY WokenAreDue
<1> HIDE DEF w
<1>2. Range(w) = due
  <2>1. Range(w) \subseteq Threads /\ Range(sleep_waiting) \subseteq Threads
    BY <1>1, ElementsOfSeq, QueueTypes
  <2> QED
    BY <1>1, <2>1
<1>3. Cardinality(due) = Len(w)
  BY <1>1, <1>2, InjectiveCardinality
<1>4. w \in [1 .. Len(w) -> due] /\ DOMAIN w = 1 .. Len(w)
  BY <1>1, <1>2, ElementsOfSeq DEF Range
<1>5. \A i, j \in 1 .. Len(w) : i # j => w[i] # w[j]
  BY <1>1, <1>4 DEF IsInjective
<1> QED
  BY <1>3, <1>4, <1>5 DEF Life!SetToSeqs, Life!Cardinality, Cardinality, w

\* One tick off each sleeper; those that were due queue up before the thread that
\* ran does.
LEMMA TimerTicks ==
  ASSUME IInv, Undamaged, Accounts, timer_irq, Undamaged'
  PROVE  Life!Tick
<1>1. /\ TypeOK /\ cpu = running_thread /\ running_thread \in 0 .. N_THREADS
      /\ defects' = {} /\ halt' = "none"
  BY DEF IInv, TypeOK, Undamaged, Running, ContextMatchesRunning
<1>2. UNCHANGED <<char_waiting, uart_count>>
  BY DEF timer_irq
<1>3. HeadsAreDue
  BY <1>1 DEF timer_irq
<1>4. /\ sleep_waiting' = SubSeq(sleep_waiting, Len(Woken) + 1, Len(sleep_waiting))
      /\ threads' = Decremented
      /\ Cycle(WithWoken, running_thread, running_thread)
  BY <1>1, <1>3 DEF timer_irq, decrement_waits
<1> DEFINE due == {t \in Range(sleep_waiting) : threads[t].waiting_duration = 1}
<1>5. /\ sleep_waiting' \in Seq(Threads)
      /\ \A t \in Threads : t \in Range(sleep_waiting')
            <=> t \in Range(sleep_waiting) /\ threads[t].waiting_duration # 1
      /\ WithWoken \in BoundedQueue(N_THREADS) /\ IsInjective(WithWoken)
      /\ \A t \in Threads : t \in Range(WithWoken)
            <=> \/ t \in Range(thread_indices)
                \/ t \in Range(sleep_waiting) /\ threads[t].waiting_duration = 1
      /\ WithWoken = thread_indices \o Woken
  BY <1>1, <1>3, <1>4, WokenAreDue
<1>6. Woken \in Life!SetToSeqs(due)
  BY <1>1, <1>3, WokenAreSome
<1>7. Turned(thread_indices \o Woken, running_thread, thread_indices', running_thread')
  <2>1. Range(WithWoken) \subseteq Threads
    BY <1>5, BoundedElim, ElementsOfSeq, Parameters DEF Threads
  <2>2. running_thread \notin Range(WithWoken)
    BY <1>1, <1>5, <2>1 DEF Accounts, Apart
  <2>3. \A t \in Threads : t \in Range(WithWoken) \/ t = running_thread => t \in Alive1
    BY <1>5 DEF Alive1, AliveIn
  <2> QED
    BY <1>1, <1>4, <1>5, <2>2, <2>3, CycleMoves
<1>8. Life!Turn(thread_indices \o Woken)
  <2> DEFINE queue == thread_indices \o Woken
  <2>1. queue = <<>> => thread_indices = <<>>
    BY <1>1, <1>5, QueueTypes, EmptyConcat, WokenAreDue, <1>3
  <2>2. Turned(queue, running_thread, thread_indices', running_thread')
    BY <1>7
  <2> HIDE DEF queue
  <2>3. Life!Turn(queue)
    BY <2>1, <2>2 DEF Turned, Life!Turn
  <2> QED
    BY <2>3 DEF queue
<1>9. Left' = [t \in DOMAIN Left \ due |-> Left[t] - 1]
  <2>1. Range(sleep_waiting) \subseteq Threads /\ Range(sleep_waiting') \subseteq Threads
    BY <1>1, <1>5, QueueTypes, ElementsOfSeq
  <2>2. Range(sleep_waiting') = Range(sleep_waiting) \ due
    BY <1>5, <2>1
  <2>3. \A t \in Range(sleep_waiting) :
            threads'[t].waiting_duration = threads[t].waiting_duration - 1
    BY <1>1, <1>4, DecrementedByOne
  <2> QED
    BY <2>2, <2>3 DEF Left
<1>10. due = {t \in DOMAIN Left : Left[t] = 1}
  BY DEF Left
<1> HIDE DEF due
<1> QED
  BY <1>2, <1>6, <1>8, <1>9, <1>10 DEF Life!Tick, Left

-----------------------------------------------------------------------------
(* Creation.                                                                *)

Team(p) == {GlobalIndex(p, i) : i \in Locals}

\* An empty array of free indices means that the team is complete, and one that is
\* not full that there is somebody in it.
LEMMA CountTellsWhoLives ==
  ASSUME NEW p \in Processes, NEW pcb \in Pcb, NEW memory \in Memory,
         OwnArray(p, pcb, memory, Alive1)
  PROVE  /\ pcb.count = 0 => Team(p) \subseteq Alive1
         /\ pcb.count < N_THREADS_PER_PROCESS => Team(p) \cap Alive1 # {}
<1> DEFINE s == Contents(Deref(pcb, memory))
<1>1. /\ pcb.indices \in Frames /\ IsInjective(s)
      /\ \A i \in Locals : i \in Range(s) <=> GlobalIndex(p, i) \notin Alive1
  BY DEF OwnArray
<1>2. s \in Seq(Locals) /\ Len(s) = pcb.count
  BY <1>1, DerefFields
<1> HIDE DEF s
<1>3. Range(s) \subseteq Locals /\ Cardinality(Range(s)) = Len(s)
  BY <1>1, <1>2, ElementsOfSeq, InjectiveCardinality
<1>4. ASSUME pcb.count = 0 PROVE Team(p) \subseteq Alive1
  <2>1. Range(s) = {}
    <3>1. Len(s) = 0
      BY <1>2, <1>4
    <3>2. \A x \in Range(s) : \E k \in 1 .. Len(s) : x = s[k]
      BY <1>2, ElementsOfSeq
    <3> QED
      BY <3>1, <3>2
  <2> QED
    BY <1>1, <2>1 DEF Team
<1>5. ASSUME pcb.count < N_THREADS_PER_PROCESS PROVE Team(p) \cap Alive1 # {}
  <2>1. Cardinality(Locals) = N_THREADS_PER_PROCESS
    BY FS_Interval, Parameters DEF Locals
  <2>2. Range(s) # Locals
    BY <1>2, <1>3, <1>5, <2>1, Parameters DEF Pcb
  <2> QED
    BY <1>1, <1>3, <2>2 DEF Team
<1> QED
  BY <1>4, <1>5

\* thread_create starts a thread of its process that is not alive, or finds none.
LEMMA CreateStarts ==
  ASSUME TypeOK, Apart(thread_indices, sleep_waiting, char_waiting, running_thread),
         NEW p \in Processes, NEW pcbs, NEW memory \in Memory, pcbs[p] \in Pcb,
         OwnArray(p, pcbs[p], memory, Alive1), thread_create(p, pcbs, memory),
         UNCHANGED <<running_thread, queues, uart_count>>
  PROVE  \/ pcbs[p].count = 0 /\ UNCHANGED Life!lifeVars
         \/ pcbs[p].count # 0 /\ \E t \in Team(p) \ Alive1 : Life!Start(t)
<1>1. CASE pcbs[p].count = 0
  <2>1. UNCHANGED <<thread_indices, threads>>
    BY <1>1 DEF thread_create
  <2>2. Left' = Left
    BY <2>1 DEF Left, queues
  <2> QED
    BY <1>1, <2>1, <2>2 DEF Life!lifeVars, Left, queues
<1>2. CASE pcbs[p].count # 0
  <2> DEFINE index == memory[pcbs[p].indices][pcbs[p].head]
  <2>1. scheduler_register_thread(p, index)
    BY <1>2 DEF thread_create
  <2>2. index \in Locals /\ GlobalIndex(p, index) \notin Alive1
    <3> DEFINE pcb == pcbs[p]
    <3>1. /\ pcb \in Pcb /\ OwnArray(p, pcb, memory, Alive1) /\ pcb.count # 0
          /\ index = memory[pcb.indices][pcb.head]
      BY <1>2
    <3> HIDE DEF pcb, index
    <3>2. /\ index \in Locals /\ GlobalIndex(p, index) \notin Alive1
          /\ OwnArray(p, Popped(pcb), memory, Alive1 \cup {GlobalIndex(p, index)})
      BY <3>1, TakenIndex
    <3> QED
      BY <3>2
  <2> HIDE DEF index
  <2> DEFINE g == GlobalIndex(p, index)
  <2>3. g \in Threads /\ g \in Team(p) \ Alive1
    BY <2>2, GlobalIndexIsThread DEF Team
  <2>4. /\ thread_indices \in Seq(Threads) /\ IsInjective(thread_indices)
        /\ g \notin Range(thread_indices) /\ g \notin Range(sleep_waiting)
    BY <2>3, QueueTypes DEF Apart, Alive1, AliveIn
  <2>5. /\ thread_indices' = Append(thread_indices, g)
        /\ threads' = [threads EXCEPT ![g] = NewTcb(p, index)]
    <3>1. Len(thread_indices) < N_THREADS
      BY <2>3, <2>4, RoomForAnother, Parameters DEF Threads
    <3>2. CanPush(thread_indices, GlobalIndex(p, index), N_THREADS)
      BY <2>3, <3>1 DEF CanPush, Threads
    <3> QED
      BY <2>1, <3>2 DEF scheduler_register_thread
  <2> HIDE DEF g
  <2>6. Left' = Left
    <3>1. \A t \in Range(sleep_waiting) : t # g /\ t \in 0 .. N_THREADS
      BY <2>4, QueueTypes, Parameters DEF Threads
    <3>2. \A t \in Range(sleep_waiting) : threads'[t] = threads[t]
      BY <2>5, <3>1 DEF TypeOK
    <3> QED
      BY <3>2, LeftKept DEF queues
  <2>7. Life!Start(g)
    BY <2>5, <2>6 DEF Life!Start, Left, queues
  <2> QED
    BY <1>2, <2>3, <2>7
<1> QED
  BY <1>1, <1>2

\* create_thread finds somebody to start unless its team is complete.
LEMMA CreateThreadCreates ==
  ASSUME IInv, Undamaged, Accounts, NEW valid \in BOOLEAN, exec_syscall_create_thread(valid),
         defects' = {}
  PROVE  IF valid THEN Life!CreateThread ELSE Life!End
<1>1. UserRuns /\ TypeOK /\ running_thread \in Threads /\ running_thread # NullThread
  BY CallerRuns DEF exec_syscall_create_thread
<1>2. CASE ~valid
  <2>1. Life!End
    BY <1>1, <1>2, KillEnds DEF exec_syscall_create_thread
  <2> QED
    BY <1>2, <2>1
<1>3. CASE valid
  <2> DEFINE p == threads[running_thread].process
  <2>1. /\ thread_create(p, processes, frames)
        /\ UNCHANGED <<running_thread, queues, uart_count>>
    BY <1>3 DEF exec_syscall_create_thread
  <2>2. running_thread \in Alive1
    BY <1>1 DEF Alive1, AliveIn
  <2>3. p \in LiveProcesses /\ p \in Processes /\ running_thread \in Team(p)
    BY <1>1, <2>2, AliveIsRegistered DEF Team
  <2> HIDE DEF p
  <2>4. /\ processes[p] \in Pcb /\ frames \in Memory
        /\ OwnArray(p, processes[p], frames, Alive1)
    BY <1>1, <2>3, Parameters DEF Accounts, Arrays, TypeOK, Memory, Processes
  <2>5. \/ processes[p].count = 0 /\ UNCHANGED Life!lifeVars
        \/ processes[p].count # 0 /\ \E t \in Team(p) \ Alive1 : Life!Start(t)
    BY <1>1, <2>1, <2>3, <2>4, CreateStarts DEF Accounts
  <2>6. processes[p].count = 0 => Team(p) \subseteq Alive1
    BY <2>3, <2>4, CountTellsWhoLives
  <2>7. Team(p) \in AllTeams /\ Life!Alive = Alive1
    BY <1>1, <2>3, AliveAreThose DEF Team, AllTeams
  <2>8. Life!CreateThread
    BY <1>1, <2>3, <2>5, <2>6, <2>7 DEF Life!CreateThread, AllTeams
  <2> QED
    BY <1>3, <2>8
<1> QED
  BY <1>2, <1>3

\* fork takes a slot without threads, and without a free slot there is no such team.
LEMMA ForkForks ==
  ASSUME IInv, Undamaged, Accounts, NEW valid \in BOOLEAN, NEW frame \in Frames,
         exec_syscall_fork(valid, frame), defects' = {}
  PROVE  IF valid THEN Life!Fork ELSE Life!End
<1>1. /\ UserRuns /\ TypeOK /\ running_thread # NullThread /\ Life!Alive = Alive1
      /\ frames \in Memory /\ processes \in [0 .. N_PROCESSES -> Pcb]
      /\ Processes \subseteq 0 .. N_PROCESSES
  BY CallerRuns, AliveAreThose, Parameters DEF exec_syscall_fork, TypeOK, Memory, Processes
<1>2. CASE ~valid
  <2>1. Life!End
    BY <1>1, <1>2, KillEnds DEF exec_syscall_fork
  <2> QED
    BY <1>2, <2>1
<1>3. CASE valid
  <2>1. process_create(frame) /\ UNCHANGED <<running_thread, queues, uart_count>>
    BY <1>3 DEF exec_syscall_fork
  <2>2. CASE free_process_indices = <<>>
    <3>1. UNCHANGED <<threads, thread_indices>>
      BY <2>1, <2>2 DEF process_create
    <3>2. UNCHANGED Life!lifeVars
      <4>1. Left' = Left
        BY <2>1, <3>1 DEF Left, queues
      <4> QED
        BY <2>1, <3>1, <4>1 DEF Life!lifeVars, Left, queues
    <3>3. ASSUME NEW p \in Processes PROVE Team(p) \cap Alive1 # {}
      <4>1. p \in LiveProcesses
        BY <2>2 DEF LiveProcesses, Range
      <4>2. /\ OwnArray(p, processes[p], frames, Alive1) /\ processes[p] \in Pcb
            /\ processes[p].count < N_THREADS_PER_PROCESS
        BY <1>1, <4>1 DEF Accounts, Arrays, Inhabited
      <4> QED
        BY <1>1, <4>2, CountTellsWhoLives
    <3>4. \A team \in AllTeams : team \cap Life!Alive # {}
      BY <1>1, <3>3 DEF AllTeams, Team
    <3>5. Life!Fork
      BY <1>1, <3>2, <3>4 DEF Life!Fork, AllTeams
    <3> QED
      BY <1>3, <3>5
  <2>3. CASE free_process_indices # <<>>
    <3> DEFINE p      == Head(free_process_indices)
               pcbs   == [processes EXCEPT ![p] = NewPcb(frame)]
               memory == WithFrame(frame)
    <3>1. thread_create(p, pcbs, memory)
      BY <2>1, <2>3 DEF process_create
    <3>2. p \in Processes /\ p \notin LiveProcesses
      <4>1. free_process_indices \in Seq(Processes) /\ IsInjective(free_process_indices)
        BY <1>1, QueueTypes DEF Accounts
      <4>2. p \in Processes /\ p \in Range(free_process_indices)
        BY <2>3, <4>1, TailElements
      <4> QED
        BY <4>2 DEF LiveProcesses
    <3> HIDE DEF p
    <3>3. ASSUME NEW i \in Locals PROVE GlobalIndex(p, i) \notin Alive1
      <4> SUFFICES ASSUME GlobalIndex(p, i) \in Alive1 PROVE FALSE
        OBVIOUS
      <4> DEFINE t == GlobalIndex(p, i)
      <4>1. /\ threads[t].process \in LiveProcesses /\ threads[t].process \in Processes
            /\ threads[t].index \in Locals
            /\ GlobalIndex(p, i) = GlobalIndex(threads[t].process, threads[t].index)
        BY <1>1, AliveIsRegistered
      <4> HIDE DEF t
      <4> QED
        BY <3>2, <4>1, GlobalIndexInjective
    <3>4. /\ memory \in Memory /\ memory[frame] = AllFree(N_THREADS_PER_PROCESS).indices
      <4> DEFINE array == AllFree(N_THREADS_PER_PROCESS).indices
      <4>1. array \in [LocalSlots -> Locals]
        BY Parameters DEF AllFree, LocalSlots, Locals
      <4>2. memory = [frames EXCEPT ![frame] = array]
        BY DEF WithFrame
      <4> HIDE DEF array, memory
      <4>3. memory \in Memory /\ memory[frame] = array
        BY <1>1, <4>1, <4>2 DEF Memory
      <4> QED
        BY <4>3 DEF array
    <3> HIDE DEF memory
    <3>5. /\ OwnArray(p, NewPcb(frame), memory, Alive1) /\ NewPcb(frame) \in Pcb
      BY <3>2, <3>3, <3>4, NewArray, NewPcbType
    <3>6. pcbs[p] = NewPcb(frame) /\ NewPcb(frame).count # 0
      <4>1. pcbs[p] = NewPcb(frame)
        BY <1>1, <3>2
      <4>2. NewPcb(frame).count = N_THREADS_PER_PROCESS
        BY DEF NewPcb, AllFree
      <4> QED
        BY <4>1, <4>2, Parameters
    <3> HIDE DEF pcbs
    <3>7. \/ pcbs[p].count = 0 /\ UNCHANGED Life!lifeVars
          \/ pcbs[p].count # 0 /\ \E t \in Team(p) \ Alive1 : Life!Start(t)
      <4>1. pcbs[p] \in Pcb /\ OwnArray(p, pcbs[p], memory, Alive1)
        BY <3>5, <3>6
      <4> QED
        BY <1>1, <2>1, <3>1, <3>2, <3>4, <4>1, CreateStarts DEF Accounts
    <3>8. PICK t \in Team(p) \ Alive1 : Life!Start(t)
      BY <3>6, <3>7
    <3>9. Team(p) \in AllTeams /\ Team(p) \cap Life!Alive = {}
      BY <1>1, <3>2, <3>3 DEF AllTeams, Team
    <3>10. Life!Fork
      BY <1>1, <3>8, <3>9 DEF Life!Fork, AllTeams
    <3> QED
      BY <1>3, <3>10
  <2> QED
    BY <2>2, <2>3
<1> QED
  BY <1>2, <1>3

-----------------------------------------------------------------------------
(* The theorem of the third part.                                           *)

\* main_thread is ready, and nobody has run.
LEMMA InitLife == Init => Life!Init
<1> SUFFICES ASSUME Init PROVE Life!Init
  OBVIOUS
<1>1. /\ running_thread = NullThread /\ thread_indices = <<1>> /\ 1 \in Threads
      /\ char_waiting = <<>> /\ uart_count = 0 /\ sleep_waiting = <<>>
  BY Parameters DEF Init, Threads
<1>2. Left = [t \in {} |-> 0]
  <2>1. Range(sleep_waiting) = {}
    BY <1>1 DEF Range
  <2> QED
    BY <2>1 DEF Left
<1> QED
  BY <1>1, <1>2 DEF Life!Init, Left

\* While nothing goes wrong each handler is one step of ThreadLifecycle: turns
\* are taken in order, every sleeper sleeps as long as it asked to, readers are
\* served in the order they asked, and what is created has room (scheduler.c,
\* thread.c, process.c, calls.c:49-146, isr.c:154-217).
THEOREM LifecycleImplemented == Spec => ImplementsLifecycle
<1> DEFINE AsPromised ==
        Undamaged' =>
            /\ timer_irq => Life!Tick
            /\ uart_irq => Life!Character
            /\ exec_syscall_exit \/ kill_offender => Life!End
            /\ exec_syscall_get_char => Life!Read
            /\ \A duration \in Durations :
                  exec_syscall_wait(duration) => Life!Sleep(duration)
            /\ \A valid \in BOOLEAN, frame \in Frames : exec_syscall_fork(valid, frame) =>
                  IF valid THEN Life!Fork ELSE Life!End
            /\ \A valid \in BOOLEAN : exec_syscall_create_thread(valid) =>
                  IF valid THEN Life!CreateThread ELSE Life!End
<1>1. Init => Life!Init
  BY InitLife
<1>2. IInv /\ AInv /\ [Next]_vars => AsPromised
  <2> SUFFICES ASSUME IInv, AInv, [Next]_vars, Undamaged' PROVE AsPromised
    OBVIOUS
  <2>1. defects' = {} /\ halt' = "none" /\ defects = {}
    BY DamageStays DEF Undamaged, Running
  <2>2. Running => Undamaged /\ Accounts
    BY <2>1 DEF AInv, Undamaged
  <2>3. timer_irq => Life!Tick
    BY <2>2, TimerTicks DEF timer_irq
  <2>4. uart_irq => Life!Character
    BY <2>2, UartBrings DEF uart_irq
  <2>5. exec_syscall_exit \/ kill_offender => Life!End
    BY <2>1, <2>2, KillEnds DEF exec_syscall_exit, kill_offender, UserRuns
  <2>6. exec_syscall_get_char => Life!Read
    BY <2>1, <2>2, GetCharReads DEF exec_syscall_get_char, UserRuns
  <2>7. ASSUME NEW duration \in Durations, exec_syscall_wait(duration) PROVE Life!Sleep(duration)
    BY <2>1, <2>2, <2>7, WaitSleeps DEF exec_syscall_wait, UserRuns
  <2>8. ASSUME NEW valid \in BOOLEAN, NEW frame \in Frames, exec_syscall_fork(valid, frame)
        PROVE  IF valid THEN Life!Fork ELSE Life!End
    <3>1. Running
      BY <2>8 DEF exec_syscall_fork, UserRuns
    <3> QED
      BY <2>1, <2>2, <2>8, <3>1, ForkForks
  <2>9. ASSUME NEW valid \in BOOLEAN, exec_syscall_create_thread(valid)
        PROVE  IF valid THEN Life!CreateThread ELSE Life!End
    <3>1. Running
      BY <2>9 DEF exec_syscall_create_thread, UserRuns
    <3> QED
      BY <2>1, <2>2, <2>9, <3>1, CreateThreadCreates
  <2> QED
    BY <2>3, <2>4, <2>5, <2>6, <2>7, <2>8, <2>9
<1>3. IInv /\ AInv /\ [Next]_vars => [AsPromised]_vars
  BY <1>2
<1> QED
  BY <1>1, <1>3, InductiveInvariant, AccountsInvariant, PTL DEF Spec, ImplementsLifecycle
=============================================================================
