-------------------------- MODULE IndexQueue_proofs --------------------------
(***************************************************************************)
(* The ring buffer of data/types.c, for every size: its invariant, that it *)
(* implements the bounded FIFO of module IndexFifo, and that the walk of   *)
(* decrement_waits over it comes by every element once.                    *)
(***************************************************************************)
EXTENDS SleepWalk, IndexRing_proofs, Sequences_proofs

\* The parameters as a proof step needs them.
LEMMA SizeIsPositive == Size \in Nat /\ Size > 0
  BY SizeAssumption

\* Both initial queues of INIT_INDEX_QUEUE and MARK_ALL_FREE are proper rings.
LEMMA InitInv == Init => Inv
<1> SUFFICES ASSUME Init PROVE Inv
  OBVIOUS
<1> USE SizeIsPositive
<1>1. CASE q = EmptyQueue(Size)
  <2>1. TypeOK
    BY <1>1 DEF Init, TypeOK, Rings, EmptyQueue
  <2>2. TailFollowsHead
    BY <1>1 DEF TailFollowsHead, Wrap, EmptyQueue
  <2>3. QueuedAreIndices
    BY <1>1 DEF QueuedAreIndices, EmptyQueue
  <2> QED
    BY <2>1, <2>2, <2>3 DEF Inv
<1>2. CASE q = AllFree(Size)
  <2>1. TypeOK
    BY <1>2 DEF Init, TypeOK, Rings, AllFree
  <2>2. TailFollowsHead
    BY <1>2 DEF TailFollowsHead, Wrap, AllFree
  <2>3. QueuedAreIndices
    BY <1>2 DEF QueuedAreIndices, AllFree, SlotOf, Wrap
  <2> QED
    BY <2>1, <2>2, <2>3 DEF Inv
<1> QED
  BY <1>1, <1>2 DEF Init

\* What the fields of the queue are in a proper ring.
LEMMA Fields ==
  ASSUME Inv
  PROVE  /\ q \in Rings(Size, 0 .. Size)
         /\ q.size = Size /\ q.count \in 0 .. Size
         /\ q.head \in 0 .. Size - 1 /\ q.tail \in 0 .. Size - 1
         /\ q.indices \in [0 .. Size - 1 -> 0 .. Size]
         /\ q.tail = Wrap(q.head + q.count, Size)
  BY DEF Inv, TypeOK, TailFollowsHead, Rings

\* A push that is not rejected keeps the ring proper.
LEMMA PushInv ==
  ASSUME Inv, NEW index \in Int, ~Rejects(q, index), q' = Pushed(q, index), ret' = index
  PROVE  Inv'
<1> USE SizeIsPositive
<1>1. /\ q.count \in 0 .. Size - 1 /\ q.count < Size /\ q.head \in 0 .. Size - 1
      /\ q.tail \in 0 .. Size - 1 /\ q.size = Size
      /\ index \in 1 .. Size /\ index \in 0 .. Size
  BY Fields DEF Rejects
<1>2. /\ q' \in Rings(Size, 0 .. Size)
      /\ q'.size = Size /\ q'.count = q.count + 1 /\ q'.head = q.head
      /\ q'.tail = CircleForward(q.tail, Size)
      /\ q'.indices = [q.indices EXCEPT ![q.tail] = index]
  <2> DEFINE E == 0 .. Size
  <2>1. q \in Rings(Size, E) /\ index \in E
    BY <1>1, Fields
  <2> HIDE DEF E
  <2>2. /\ q' \in Rings(Size, E)
        /\ q'.size = Size /\ q'.count = q.count + 1 /\ q'.head = q.head
        /\ q'.tail = CircleForward(q.tail, Size)
        /\ q'.indices = [q.indices EXCEPT ![q.tail] = index]
    BY <1>1, <2>1, PushedRing
  <2> QED
    BY <2>2 DEF E
<1>3. TypeOK'
  BY <1>1, <1>2 DEF TypeOK
<1>4. TailFollowsHead'
  <2>1. q.tail = Wrap(q.head + q.count, Size)
    BY Fields
  <2>2. CircleForward(Wrap(q.head + q.count, Size), Size) = Wrap(q.head + q.count + 1, Size)
    BY <1>1, TailMoves
  <2>3. q'.head + q'.count = q.head + q.count + 1
    BY <1>1, <1>2
  <2>4. q'.tail = Wrap(q'.head + q'.count, Size)
    BY <1>2, <2>1, <2>2, <2>3
  <2> QED
    BY <2>4 DEF TailFollowsHead
<1>5. QueuedAreIndices'
  <2> SUFFICES ASSUME NEW k \in 1 .. q.count + 1
               PROVE  q'.indices[SlotOf(q', k)] \in 1 .. Size
    BY <1>2 DEF QueuedAreIndices
  <2>1. SlotOf(q', k) = SlotOf(q, k)
    BY <1>1, <1>2 DEF SlotOf
  <2>2. SlotOf(q, k) \in 0 .. Size - 1
    BY <1>1, SlotInRing DEF SlotOf
  <2>3. CASE k = q.count + 1
    <3>1. SlotOf(q, k) = q.tail
      BY <1>1, <2>3 DEF SlotOf, Inv, TailFollowsHead
    <3> QED
      BY <1>1, <1>2, <2>1, <3>1, Fields
  <2>4. CASE k \in 1 .. q.count
    <3>1. SlotOf(q, k) # q.tail
      BY <1>1, <2>4, SlotsDiffer DEF SlotOf, Inv, TailFollowsHead
    <3>2. q.indices[SlotOf(q, k)] \in 1 .. Size
      BY <2>4 DEF Inv, QueuedAreIndices
    <3> QED
      BY <1>2, <2>1, <2>2, <3>1, <3>2, Fields
  <2> QED
    BY <1>1, <2>3, <2>4
<1> QED
  BY <1>3, <1>4, <1>5 DEF Inv

\* So does a pop of a queue that is not empty.
LEMMA PopInv ==
  ASSUME Inv, q.count # 0, q' = Popped(q), ret' = q.indices[q.head]
  PROVE  Inv'
<1> USE SizeIsPositive
<1>1. q.count \in 1 .. Size /\ q.head \in 0 .. Size - 1 /\ q.size = Size
  BY Fields
<1>2. /\ q' \in Rings(Size, 0 .. Size)
      /\ q'.size = Size /\ q'.count = q.count - 1 /\ q'.tail = q.tail
      /\ q'.head = CircleForward(q.head, Size) /\ q'.indices = q.indices
  BY Fields, PoppedRing
<1>3. TypeOK'
  <2>1. q.indices[q.head] \in 0 .. Size
    BY <1>1, Fields
  <2> QED
    BY <1>2, <2>1 DEF TypeOK
<1>4. TailFollowsHead'
  <2>1. Wrap(CircleForward(q.head, Size) + (q.count - 1), Size) = Wrap(q.head + q.count, Size)
    BY <1>1, HeadMovesBack
  <2> QED
    BY <1>1, <1>2, <2>1 DEF Inv, TailFollowsHead
<1>5. QueuedAreIndices'
  <2> SUFFICES ASSUME NEW k \in 1 .. q.count - 1
               PROVE  q'.indices[SlotOf(q', k)] \in 1 .. Size
    BY <1>2 DEF QueuedAreIndices
  <2>1. SlotOf(q', k) = SlotOf(q, k + 1)
    <3>1. Wrap(CircleForward(q.head, Size) + k - 1, Size) = Wrap(q.head + (k + 1) - 1, Size)
      BY <1>1 DEF Wrap, CircleForward
    <3> QED
      BY <1>1, <1>2, <3>1 DEF SlotOf
  <2>2. k + 1 \in 1 .. q.count
    BY <1>1
  <2>3. q.indices[SlotOf(q, k + 1)] \in 1 .. Size
    BY <2>2 DEF Inv, QueuedAreIndices
  <2> QED
    BY <1>2, <2>1, <2>3
<1> QED
  BY <1>3, <1>4, <1>5 DEF Inv

LEMMA StepInv == Inv /\ [Next]_queueVars => Inv'
<1> SUFFICES ASSUME Inv, [Next]_queueVars PROVE Inv'
  OBVIOUS
<1>1. ASSUME NEW index \in 0 .. Size + 1, push_index(index) PROVE Inv'
  <2>1. CASE Rejects(q, index)
    <3>1. q' = q /\ ret' = -1
      BY <1>1, <2>1 DEF push_index
    <3> QED
      BY <3>1, SizeIsPositive DEF Inv, TypeOK, TailFollowsHead, QueuedAreIndices
  <2>2. CASE ~Rejects(q, index)
    BY <1>1, <2>2, PushInv, SizeIsPositive DEF push_index
  <2> QED
    BY <2>1, <2>2
<1>2. ASSUME pop_index PROVE Inv'
  <2>1. CASE q.count = 0
    <3>1. q' = q /\ ret' = -1
      BY <1>2, <2>1 DEF pop_index
    <3> QED
      BY <3>1, SizeIsPositive DEF Inv, TypeOK, TailFollowsHead, QueuedAreIndices
  <2>2. CASE q.count # 0
    BY <1>2, <2>2, PopInv DEF pop_index
  <2> QED
    BY <2>1, <2>2
<1>3. ASSUME UNCHANGED queueVars PROVE Inv'
  BY <1>3 DEF queueVars, Inv, TypeOK, TailFollowsHead, QueuedAreIndices
<1> QED
  BY <1>1, <1>2, <1>3 DEF Next

LEMMA RingInvariant == Spec => []Inv
<1> QED
  BY InitInv, StepInv, PTL DEF Spec

\* For every size the fields stay in their ranges and the array holds indices
\* (types.c).
THEOREM RingTypes == Spec => []TypeOK
  BY RingInvariant, PTL DEF Inv

\* For every size the tail is count slots past the head, which is what
\* decrement_waits asserts (scheduler.c:88).
THEOREM TailAlwaysFollows == Spec => []TailFollowsHead
  BY RingInvariant, PTL DEF Inv

\* For every size what is queued was pushed: pop_index never answers 0.
THEOREM PopsAreIndices == Spec => []QueuedAreIndices
  BY RingInvariant, PTL DEF Inv

-----------------------------------------------------------------------------
(* Refinement.                                                              *)

\* The contents of a proper ring are a sequence of indices, count of them.
LEMMA ContentsIsSeq ==
  ASSUME NEW x, x.count \in Nat,
         \A k \in 1 .. x.count : x.indices[SlotOf(x, k)] \in 1 .. Size
  PROVE  /\ Contents(x) \in Seq(1 .. Size)
         /\ Len(Contents(x)) = x.count
         /\ \A k \in 1 .. x.count : Contents(x)[k] = x.indices[SlotOf(x, k)]
<1> DEFINE s == Contents(x)
           n == x.count
           S == 1 .. Size
<1>1. s \in [1 .. n -> S]
  BY DEF Contents
<1>2. \A k \in 1 .. n : s[k] = x.indices[SlotOf(x, k)]
  BY DEF Contents
<1>3. n \in Nat
  OBVIOUS
<1> HIDE DEF s, n, S
<1>4. s \in Seq(S)
  BY <1>1, <1>3
<1>5. Len(s) = n
  BY <1>1, <1>3
<1> QED
  BY <1>2, <1>4, <1>5 DEF s, n, S

LEMMA QueueContents ==
  ASSUME Inv
  PROVE  /\ Contents(q) \in Seq(1 .. Size)
         /\ Len(Contents(q)) = q.count
         /\ \A k \in 1 .. q.count : Contents(q)[k] = q.indices[SlotOf(q, k)]
  BY ContentsIsSeq, Fields, SizeIsPositive DEF Inv, QueuedAreIndices

\* A push appends to the contents.
LEMMA PushAppends ==
  ASSUME Inv, NEW index \in 1 .. Size, ~Rejects(q, index),
         q' = Pushed(q, index), ret' = index
  PROVE  Contents(q)' = Append(Contents(q), index)
<1> DEFINE E == 0 .. Size
<1>1. q \in Rings(Size, E) /\ index \in E /\ q.count < Size /\ Size \in Nat
      /\ q.tail = Wrap(q.head + q.count, Size)
  BY Fields, SizeIsPositive DEF Rejects
<1> HIDE DEF E
<1>2. Contents(Pushed(q, index)) = Append(Contents(q), index)
  BY <1>1, PushedContents
<1> QED
  BY <1>2

\* A pop answers the head of the contents and leaves their tail.
LEMMA PopRemovesHead ==
  ASSUME Inv, q.count # 0, q' = Popped(q), ret' = q.indices[q.head]
  PROVE  /\ Contents(q) # <<>>
         /\ q.indices[q.head] = Head(Contents(q))
         /\ Contents(q)' = Tail(Contents(q))
<1> DEFINE E == 0 .. Size
<1>1. q \in Rings(Size, E) /\ Size \in Nat /\ q.tail = Wrap(q.head + q.count, Size)
  BY Fields, SizeIsPositive
<1> HIDE DEF E
<1> QED
  BY <1>1, PoppedContents

LEMMA InitRefines == Init => Fifo!Init
<1> SUFFICES ASSUME Init PROVE Fifo!Init
  OBVIOUS
<1> USE SizeIsPositive
<1>1. CASE q = EmptyQueue(Size)
  <2>1. Contents(q) = <<>>
    BY <1>1, InitInv, QueueContents DEF EmptyQueue
  <2> QED
    BY <2>1 DEF Init, Fifo!Init
<1>2. CASE q = AllFree(Size)
  <2>1. Contents(q) = [k \in 1 .. Size |-> k]
    BY <1>2 DEF AllFree, Contents, SlotOf, Wrap
  <2> QED
    BY <2>1 DEF Init, Fifo!Init, Fifo!Indices
<1> QED
  BY <1>1, <1>2 DEF Init

LEMMA StepRefines ==
  ASSUME Inv, Next
  PROVE  Fifo!Pop \/ \E index \in 0 .. Size + 1 : Fifo!Push(index)
<1> USE SizeIsPositive
<1>1. q.size = Size /\ q.count \in 0 .. Size
  BY Fields
<1>2. ASSUME NEW index \in 0 .. Size + 1, push_index(index)
      PROVE  Fifo!Push(index)
  <2>1. CASE Rejects(q, index)
    <3>1. Contents(q)' = Contents(q) /\ ret' = -1
      BY <1>2, <2>1 DEF push_index
    <3>2. index \notin Fifo!Indices \/ Len(Contents(q)) = Size
      BY <1>1, <2>1, QueueContents DEF Rejects, Fifo!Indices
    <3> QED
      BY <3>1, <3>2 DEF Fifo!Push
  <2>2. CASE ~Rejects(q, index)
    <3>1. index \in Fifo!Indices /\ index \in 1 .. Size /\ q.count < Size
      BY <1>1, <2>2 DEF Rejects, Fifo!Indices
    <3>2. Contents(q)' = Append(Contents(q), index) /\ ret' = index
      BY <1>2, <2>2, <3>1, PushAppends DEF push_index
    <3> QED
      BY <3>1, <3>2, QueueContents DEF Fifo!Push
  <2> QED
    BY <2>1, <2>2
<1>3. ASSUME pop_index PROVE Fifo!Pop
  <2>1. CASE q.count = 0
    <3>1. Contents(q) = <<>>
      BY <2>1, QueueContents
    <3> QED
      BY <1>3, <2>1, <3>1 DEF pop_index, Fifo!Pop
  <2>2. CASE q.count # 0
    BY <1>3, <2>2, PopRemovesHead DEF pop_index, Fifo!Pop
  <2> QED
    BY <2>1, <2>2
<1> QED
  BY <1>2, <1>3 DEF Next

\* For every size each call of the ring is the same call of the bounded FIFO.
THEOREM RingSteps == Spec => StepsAreFifoSteps
<1>1. Inv /\ [Next]_queueVars =>
          [Fifo!Pop \/ \E index \in 0 .. Size + 1 : Fifo!Push(index)]_queueVars
  BY StepRefines
<1> QED
  BY <1>1, RingInvariant, PTL DEF Spec, StepsAreFifoSteps

\* The ring of data/types.c implements the bounded FIFO, for every size.
THEOREM RingIsFifo == Spec => ImplementsFifo
<1>1. Inv /\ [Next]_queueVars => [Fifo!Next]_(Fifo!fifoVars)
  <2>1. ASSUME Inv, Next PROVE Fifo!Next
    BY <2>1, StepRefines, SizeIsPositive DEF Fifo!Next
  <2>2. ASSUME UNCHANGED queueVars PROVE UNCHANGED Fifo!fifoVars
    BY <2>2 DEF queueVars, Fifo!fifoVars, Contents, SlotOf
  <2> QED
    BY <2>1, <2>2
<1> QED
  BY InitRefines, <1>1, RingInvariant, PTL DEF Spec, ImplementsFifo, Fifo!Spec

-----------------------------------------------------------------------------
(* The walk of decrement_waits.                                             *)

\* Where the walk stands: i elements that it has passed are at the head of the queue,
\* the cursor is behind them, and those it has woken came before what is queued.
Underway ==
    at \in {"loop", "end"} =>
        /\ i <= q.count /\ p = Wrap(q.head + i, Size)
        /\ woken \in Seq(1 .. Size)
        /\ before = woken \o Contents(q)
        /\ Len(visited) = Len(woken) + i

WalkInv ==
    /\ Inv
    /\ i \in 0 .. Size /\ p \in 0 .. Size - 1
    /\ at \in {"idle", "loop", "end", "sleep_order"}
    /\ before \in Seq(1 .. Size) /\ Len(before) <= Size
    /\ visited \in Seq(1 .. Size) /\ Len(visited) <= Len(before)
    /\ visited = SubSeq(before, 1, Len(visited))
    /\ Underway
    /\ at = "end" => i = q.count

\* Taking the first of t to the end of s leaves them together what they were.
LEMMA MovedOver ==
  ASSUME NEW S, NEW s \in Seq(S), NEW t \in Seq(S), t # <<>>
  PROVE  /\ Append(s, Head(t)) \in Seq(S) /\ Len(Append(s, Head(t))) = Len(s) + 1
         /\ s \o t = Append(s, Head(t)) \o Tail(t)
<1> DEFINE a == Append(s, Head(t))
           r == Tail(t)
           x == s \o t
           y == a \o r
<1>1. /\ Len(s) \in Nat /\ Len(t) \in Nat \ {0}
      /\ Head(t) \in S /\ Head(t) = t[1]
      /\ r \in Seq(S) /\ Len(r) = Len(t) - 1
      /\ \A k \in 1 .. Len(t) - 1 : r[k] = t[k + 1]
  BY LenProperties, EmptySeq, HeadTailProperties
<1>2. /\ a \in Seq(S) /\ Len(a) = Len(s) + 1
      /\ \A k \in 1 .. Len(s) + 1 : a[k] = IF k <= Len(s) THEN s[k] ELSE t[1]
  BY <1>1
<1> HIDE DEF a, r
<1>3. /\ x \in Seq(S) /\ Len(x) = Len(s) + Len(t)
      /\ \A k \in 1 .. Len(s) + Len(t) : x[k] = IF k <= Len(s) THEN s[k] ELSE t[k - Len(s)]
  BY ConcatProperties
<1>4. /\ y \in Seq(S) /\ Len(y) = Len(a) + Len(r)
      /\ \A k \in 1 .. Len(a) + Len(r) : y[k] = IF k <= Len(a) THEN a[k] ELSE r[k - Len(a)]
  BY <1>1, <1>2, ConcatProperties
<1> HIDE DEF x, y
<1>5. Len(y) = Len(x)
  BY <1>1, <1>2, <1>3, <1>4
<1>6. ASSUME NEW k \in 1 .. Len(x) PROVE x[k] = y[k]
  <2>1. k \in 1 .. Len(s) + Len(t) /\ k \in 1 .. Len(a) + Len(r)
    BY <1>3, <1>4, <1>5, <1>6
  <2>2. CASE k <= Len(s)
    BY <1>1, <1>2, <1>3, <1>4, <2>1, <2>2
  <2>3. CASE k = Len(s) + 1
    <3>1. ~(k <= Len(s)) /\ k - Len(s) = 1 /\ k <= Len(a) /\ k \in 1 .. Len(s) + 1
      BY <1>1, <1>2, <2>3
    <3>2. x[k] = t[1]
      BY <1>3, <2>1, <3>1
    <3>3. y[k] = a[k] /\ a[k] = t[1]
      BY <1>2, <1>4, <2>1, <3>1
    <3> QED
      BY <3>2, <3>3
  <2>4. CASE k > Len(s) + 1
    <3>1. x[k] = t[k - Len(s)] /\ y[k] = r[k - (Len(s) + 1)]
      BY <1>1, <1>2, <1>3, <1>4, <2>1, <2>4
    <3>2. k - (Len(s) + 1) \in 1 .. Len(t) - 1
      BY <1>1, <2>1, <2>4
    <3>3. (k - (Len(s) + 1)) + 1 = k - Len(s)
      BY <1>1, <2>1
    <3> QED
      BY <1>1, <3>1, <3>2, <3>3
  <2> QED
    BY <1>1, <2>1, <2>2, <2>3, <2>4
<1>7. x = y
  BY <1>3, <1>4, <1>5, <1>6, SeqEqual
<1> QED
  BY <1>2, <1>7 DEF a, r, x, y

\* Between two walks nothing is known of the locals but this.
LEMMA NothingWalked ==
  ASSUME Inv', i' = 0, p' = 0, before' = <<>>, visited' = <<>>, at' = "idle"
  PROVE  WalkInv'
<1> USE SizeIsPositive
<1>1. <<>> \in Seq(1 .. Size) /\ Len(<<>>) = 0
  BY EmptySeq
<1>2. SubSeq(<<>>, 1, 0) = <<>>
  BY <1>1, EmptyPrefix
<1>3. Underway'
  BY DEF Underway
<1> QED
  BY <1>1, <1>2, <1>3 DEF WalkInv

LEMMA WalkStarts == WalkInit => WalkInv
<1> SUFFICES ASSUME WalkInit PROVE WalkInv
  OBVIOUS
<1> USE SizeIsPositive
<1>1. Inv /\ at = "idle" /\ i = 0 /\ p = 0 /\ before = <<>> /\ visited = <<>>
  BY InitInv DEF WalkInit, NoLocals
<1>2. <<>> \in Seq(1 .. Size) /\ Len(<<>>) = 0
  BY EmptySeq
<1>3. SubSeq(<<>>, 1, 0) = <<>>
  BY <1>2, EmptyPrefix
<1>4. Underway
  BY <1>1 DEF Underway
<1> QED
  BY <1>1, <1>2, <1>3, <1>4 DEF WalkInv

LEMMA CallsKeep == WalkInv /\ Calls => WalkInv'
<1> SUFFICES ASSUME WalkInv, Calls PROVE WalkInv'
  OBVIOUS
<1>1. at = "idle" /\ UNCHANGED <<at, i, p, before, visited, woken>>
  BY DEF Calls, locals
<1>2. Inv'
  BY StepInv DEF WalkInv, Calls
<1>3. Underway'
  BY <1>1 DEF Underway
<1> QED
  BY <1>1, <1>2, <1>3 DEF WalkInv

LEMMA BeginKeeps == WalkInv /\ Begins => WalkInv'
<1> SUFFICES ASSUME WalkInv, Begins PROVE WalkInv'
  OBVIOUS
<1> USE SizeIsPositive
<1> DEFINE c == Contents(q)
           S == 1 .. Size
<1>1. /\ Inv /\ UNCHANGED <<q, ret>> /\ at' = "loop" /\ i' = 0 /\ p' = q.head
      /\ before' = c /\ visited' = <<>> /\ woken' = <<>>
  BY DEF WalkInv, Begins, queueVars
<1>2. Inv' /\ q.count \in 0 .. Size /\ q.head \in 0 .. Size - 1
  BY <1>1, Fields DEF Inv, TypeOK, TailFollowsHead, QueuedAreIndices
<1>3. c \in Seq(S) /\ Len(c) = q.count /\ Contents(q)' = c
  BY <1>1, QueueContents
<1> HIDE DEF c, S
<1>4. <<>> \in Seq(S) /\ Len(<<>>) = 0 /\ SubSeq(c, 1, 0) = <<>> /\ <<>> \o c = c
  BY <1>3, EmptySeq, EmptyPrefix, ConcatEmptySeq
<1>5. p' = Wrap(q.head + i', Size)
  BY <1>1, <1>2 DEF Wrap
<1>6. Underway'
  BY <1>1, <1>2, <1>3, <1>4, <1>5 DEF Underway, S
<1> QED
  BY <1>1, <1>2, <1>3, <1>4, <1>6 DEF WalkInv, S

LEMMA ReturnKeeps == WalkInv /\ Returns => WalkInv'
<1> SUFFICES ASSUME WalkInv, Returns PROVE WalkInv'
  OBVIOUS
<1>1. Inv'
  BY DEF WalkInv, Returns, queueVars, Inv, TypeOK, TailFollowsHead, QueuedAreIndices
<1> QED
  BY <1>1, NothingWalked DEF Returns

\* What an iteration reads is the next of the sleepers that there were.
LEMMA ReadsTheNext ==
  ASSUME WalkInv, NEW thread_idx, Visits(thread_idx)
  PROVE  /\ thread_idx \in 1 .. Size
         /\ p' = Wrap(q.head + i + 1, Size) /\ p' \in 0 .. Size - 1
         /\ visited' \in Seq(1 .. Size) /\ Len(visited') = Len(visited) + 1
         /\ Len(visited') <= Len(before)
         /\ visited' = SubSeq(before, 1, Len(visited'))
<1> USE SizeIsPositive
<1> DEFINE S == 1 .. Size
           c == Contents(q)
           m == Len(visited)
<1>1. /\ Inv /\ Underway /\ at = "loop" /\ i \in 0 .. Size /\ i < q.count
      /\ q.count \in 0 .. Size /\ q.head \in 0 .. Size - 1 /\ q.size = Size
  BY Fields DEF WalkInv, Visits
<1>2. /\ c \in Seq(S) /\ Len(c) = q.count
      /\ \A k \in 1 .. q.count : c[k] = q.indices[SlotOf(q, k)]
  BY <1>1, QueueContents
<1>3. /\ p = Wrap(q.head + i, Size) /\ woken \in Seq(S) /\ before = woken \o c
      /\ m = Len(woken) + i
  BY <1>1 DEF Underway
<1> HIDE DEF c
<1>4. i + 1 \in 1 .. q.count /\ SlotOf(q, i + 1) = p
  BY <1>1, <1>3 DEF SlotOf
<1>5. thread_idx = c[i + 1] /\ thread_idx \in S
  BY <1>2, <1>4, ElementOfSeq DEF Visits
<1>6. Len(woken) \in Nat /\ Len(before) = Len(woken) + q.count /\ m \in 0 .. Len(before) - 1
  <2>1. Len(woken) \in Nat
    BY <1>3, LenProperties
  <2>2. Len(before) = Len(woken) + Len(c)
    BY <1>2, <1>3, ConcatProperties
  <2> QED
    BY <1>1, <1>2, <1>3, <2>1, <2>2
<1>7. before[m + 1] = c[i + 1]
  <2>1. m + 1 \in 1 .. Len(woken) + Len(c) /\ ~(m + 1 <= Len(woken)) /\ (m + 1) - Len(woken) = i + 1
    BY <1>1, <1>2, <1>3, <1>6
  <2>2. before[m + 1] = IF m + 1 <= Len(woken) THEN woken[m + 1] ELSE c[(m + 1) - Len(woken)]
    BY <1>2, <1>3, <2>1, ConcatProperties
  <2> QED
    BY <2>1, <2>2
<1>8. visited' = Append(visited, before[m + 1])
  BY <1>5, <1>7 DEF Visits
<1>9. before \in Seq(S) /\ visited \in Seq(S) /\ visited = SubSeq(before, 1, m)
  BY DEF WalkInv
<1> HIDE DEF m, S
<1>10. SubSeq(before, 1, m + 1) = Append(SubSeq(before, 1, m), before[m + 1])
  BY <1>6, <1>9, GrownSubSeq
<1>11. visited' = SubSeq(before, 1, m + 1)
  BY <1>8, <1>9, <1>10
<1>12. visited' \in Seq(S) /\ Len(visited') = m + 1
  BY <1>5, <1>7, <1>8, <1>9 DEF m
<1>13. p' = Wrap(q.head + i + 1, Size)
  <2>1. i \in 0 .. Size - 1 /\ Size \in Nat
    BY <1>1
  <2> QED
    BY <1>1, <1>3, <2>1, TailMoves DEF Visits
<1>14. p' \in 0 .. Size - 1
  <2>1. p \in 0 .. Size - 1
    BY DEF WalkInv
  <2> QED
    BY <1>1, <2>1, ForwardInRing DEF Visits
<1> QED
  BY <1>5, <1>6, <1>11, <1>12, <1>13, <1>14 DEF S, m

LEMMA PassKeeps ==
  ASSUME WalkInv, NEW thread_idx, Passes(thread_idx)
  PROVE  WalkInv'
<1> USE SizeIsPositive
<1>1. /\ Visits(thread_idx) /\ i' = i + 1 /\ UNCHANGED <<q, ret, at, woken, before>>
      /\ at = "loop" /\ i < q.count
  BY DEF Passes, Visits
<1>2. /\ p' = Wrap(q.head + i + 1, Size) /\ p' \in 0 .. Size - 1
      /\ visited' \in Seq(1 .. Size) /\ Len(visited') = Len(visited) + 1
      /\ Len(visited') <= Len(before) /\ visited' = SubSeq(before, 1, Len(visited'))
  BY <1>1, ReadsTheNext
<1>3. Inv' /\ q.count \in 0 .. Size /\ q.head \in 0 .. Size - 1 /\ i \in 0 .. Size
  BY <1>1, Fields DEF WalkInv, Inv, TypeOK, TailFollowsHead, QueuedAreIndices
<1>4. Contents(q)' = Contents(q)
  BY <1>1
<1>5. /\ woken \in Seq(1 .. Size) /\ before = woken \o Contents(q)
      /\ Len(visited) = Len(woken) + i /\ Len(woken) \in Nat
  BY <1>1, LenProperties DEF WalkInv, Underway
<1>6. Underway'
  <2>1. i' <= q'.count /\ p' = Wrap(q'.head + i', Size)
    BY <1>1, <1>2, <1>3
  <2>2. Len(visited') = Len(woken') + i'
    BY <1>1, <1>2, <1>3, <1>5
  <2> QED
    BY <1>1, <1>4, <1>5, <2>1, <2>2 DEF Underway
<1>7. i' \in 0 .. Size
  BY <1>1, <1>3
<1> QED
  BY <1>1, <1>2, <1>3, <1>6, <1>7 DEF WalkInv

LEMMA WakeKeeps ==
  ASSUME WalkInv, NEW thread_idx, Wakes(thread_idx)
  PROVE  WalkInv'
<1> USE SizeIsPositive
<1> DEFINE c == Contents(q)
           S == 1 .. Size
<1>1. /\ Visits(thread_idx) /\ i' = i /\ before' = before
      /\ woken' = Append(woken, thread_idx)
      /\ at' = IF ret' = thread_idx THEN "loop" ELSE "sleep_order"
      /\ at = "loop" /\ i < q.count
  BY DEF Wakes, Visits
<1>2. /\ p' = Wrap(q.head + i + 1, Size) /\ p' \in 0 .. Size - 1
      /\ visited' \in Seq(S) /\ Len(visited') = Len(visited) + 1
      /\ Len(visited') <= Len(before) /\ visited' = SubSeq(before, 1, Len(visited'))
  BY <1>1, ReadsTheNext
<1>3. /\ Inv /\ q \in Rings(Size, 0 .. Size) /\ q.count \in 0 .. Size
      /\ q.head \in 0 .. Size - 1 /\ i \in 0 .. Size /\ q.count # 0
  BY <1>1, Fields DEF WalkInv
<1>4. q' = Popped(q) /\ ret' = q.indices[q.head]
  BY <1>3 DEF Wakes, pop_index
<1>5. Inv'
  BY <1>3, <1>4, PopInv
<1>6. q'.count = q.count - 1 /\ q'.head = CircleForward(q.head, Size)
  BY <1>3, <1>4, PoppedRing
<1>7. c # <<>> /\ ret' = Head(c) /\ Contents(q)' = Tail(c)
  BY <1>3, <1>4, PopRemovesHead
<1>8. /\ woken \in Seq(S) /\ before = woken \o c /\ c \in Seq(S)
      /\ Len(visited) = Len(woken) + i /\ Len(woken) \in Nat
  BY <1>1, <1>3, QueueContents, LenProperties DEF WalkInv, Underway
<1> HIDE DEF c, S
<1>9. Underway'
  <2> SUFFICES ASSUME ret' = thread_idx PROVE Underway'
    BY <1>1 DEF Underway
  <2>1. woken' = Append(woken, Head(c))
    BY <1>1, <1>7
  <2>2. woken' \in Seq(S) /\ Len(woken') = Len(woken) + 1 /\ before = woken' \o Tail(c)
    BY <1>7, <1>8, <2>1, MovedOver
  <2>3. i' <= q'.count
    BY <1>1, <1>3, <1>6
  <2>4. p' = Wrap(q'.head + i', Size)
    <3>1. i \in 0 .. Size - 1
      BY <1>1, <1>3
    <3>2. Wrap(CircleForward(q.head, Size) + i, Size) = Wrap(q.head + i + 1, Size)
      BY <1>3, <3>1, HeadMoves
    <3> QED
      BY <1>1, <1>2, <1>6, <3>2
  <2>5. Len(visited') = Len(woken') + i'
    BY <1>1, <1>2, <1>3, <1>8, <2>2
  <2> QED
    BY <1>1, <1>7, <2>2, <2>3, <2>4, <2>5 DEF Underway, S
<1>10. at' \in {"idle", "loop", "end", "sleep_order"} /\ at' # "end"
  BY <1>1
<1>11. before \in Seq(S) /\ Len(before) <= Size
  BY DEF WalkInv, S
<1> QED
  BY <1>1, <1>2, <1>3, <1>5, <1>9, <1>10, <1>11 DEF WalkInv, S

LEMMA LeaveKeeps == WalkInv /\ Leaves => WalkInv'
<1> SUFFICES ASSUME WalkInv, Leaves PROVE WalkInv'
  OBVIOUS
<1>1. /\ UNCHANGED <<q, ret, i, p, before, visited, woken>>
      /\ at = "loop" /\ i >= q.count
      /\ at' = IF p = q.tail THEN "end" ELSE "cycle"
  BY DEF Leaves, queueVars, locals
<1>2. Inv' /\ q.count \in 0 .. Size /\ i \in 0 .. Size /\ q.tail = Wrap(q.head + q.count, Size)
  BY <1>1, Fields DEF WalkInv, Inv, TypeOK, TailFollowsHead, QueuedAreIndices
<1>3. i <= q.count /\ p = Wrap(q.head + i, Size)
  BY <1>1 DEF WalkInv, Underway
<1>4. i = q.count
  BY <1>1, <1>2, <1>3, SizeIsPositive
<1>5. at' = "end"
  BY <1>1, <1>2, <1>3, <1>4
<1>6. Contents(q)' = Contents(q)
  BY <1>1
<1>7. Underway'
  BY <1>1, <1>6 DEF WalkInv, Underway
<1> QED
  BY <1>1, <1>2, <1>4, <1>5, <1>7 DEF WalkInv

LEMMA WalkStepKeeps == WalkInv /\ [WalkNext]_walkVars => WalkInv'
<1> SUFFICES ASSUME WalkInv, [WalkNext]_walkVars PROVE WalkInv'
  OBVIOUS
<1>1. CASE kendless_loop \/ UNCHANGED walkVars
  <2>1. UNCHANGED <<q, ret, i, p, at, before, visited, woken>>
    BY <1>1 DEF kendless_loop, walkVars, locals
  <2>2. Contents(q)' = Contents(q)
    BY <2>1
  <2>3. Inv'
    BY <2>1 DEF WalkInv, Inv, TypeOK, TailFollowsHead, QueuedAreIndices
  <2>4. Underway'
    BY <2>1, <2>2 DEF WalkInv, Underway
  <2> QED
    BY <2>1, <2>3, <2>4 DEF WalkInv
<1> QED
  BY <1>1, CallsKeep, BeginKeeps, PassKeeps, WakeKeeps, LeaveKeeps, ReturnKeeps DEF WalkNext

LEMMA WalkInvariant == WalkSpec => []WalkInv
  BY WalkStarts, WalkStepKeeps, PTL DEF WalkSpec

\* The walk uses the queue only by its calls, so that all that is proved of the ring holds
\* of the ring that is walked.
THEOREM WalkOnlyCalls == WalkSpec => Spec
<1>1. WalkInit => Init
  BY DEF WalkInit
<1>2. [WalkNext]_walkVars => [Next]_queueVars
  BY DEF WalkNext, walkVars, Calls, Begins, Passes, Wakes, Visits, Leaves, Returns,
         kendless_loop, Next, queueVars
<1> QED
  BY <1>1, <1>2, PTL DEF WalkSpec, Spec

\* For every size, wherever the queue lies in its ring and whoever is due: the walk of
\* decrement_waits comes by each sleeper once and in order, takes out those it
\* wakes, and its assertion behind the loop holds (scheduler.c:67-88).
THEOREM WalkIsComplete == WalkSpec => []EachSleeperOnce
<1>1. WalkInv => EachSleeperOnce
  <2> SUFFICES ASSUME WalkInv PROVE EachSleeperOnce
    OBVIOUS
  <2>1. visited = SubSeq(before, 1, Len(visited)) /\ before \in Seq(1 .. Size)
    BY DEF WalkInv
  <2>2. /\ at \in {"loop", "end"} => before = woken \o Contents(q)
        /\ at # "cycle" /\ Len(visited) <= Len(before)
    BY DEF WalkInv, Underway
  <2>3. ASSUME at = "end" PROVE visited = before
    <3>1. /\ woken \in Seq(1 .. Size) /\ Len(visited) = Len(woken) + q.count
          /\ before = woken \o Contents(q)
      BY <2>3 DEF WalkInv, Underway
    <3>2. Contents(q) \in Seq(1 .. Size) /\ Len(Contents(q)) = q.count
      BY QueueContents DEF WalkInv
    <3>3. Len(before) = Len(woken) + q.count
      <4> DEFINE c == Contents(q)
                 S == 1 .. Size
      <4>1. c \in Seq(S) /\ Len(c) = q.count /\ woken \in Seq(S) /\ before = woken \o c
        BY <3>1, <3>2
      <4> HIDE DEF c, S
      <4>2. Len(woken \o c) = Len(woken) + Len(c)
        BY <4>1, ConcatProperties
      <4> QED
        BY <4>1, <4>2
    <3>4. SubSeq(before, 1, Len(before)) = before
      BY <2>1, SubSeqFull
    <3> QED
      BY <2>1, <3>1, <3>3, <3>4
  <2> QED
    BY <2>1, <2>2, <2>3 DEF EachSleeperOnce
<1> QED
  BY <1>1, WalkInvariant, PTL
=============================================================================
