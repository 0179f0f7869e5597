-------------------------- MODULE IndexRing_proofs --------------------------
(***************************************************************************)
(* Arithmetic of a ring of n slots: what circle_forward of data/types.c    *)
(* does to head and tail, for every n.                                     *)
(***************************************************************************)
EXTENDS IndexRing, SequenceTheorems, TLAPS

\* The k-th element from head h lies in the ring.
LEMMA SlotInRing ==
  ASSUME NEW n \in Nat, NEW h \in 0 .. n - 1, NEW k \in 1 .. n
  PROVE  Wrap(h + k - 1, n) \in 0 .. n - 1
  BY DEF Wrap

\* The slot behind the last of c elements is none of theirs.
LEMMA SlotsDiffer ==
  ASSUME NEW n \in Nat, NEW h \in 0 .. n - 1, NEW c \in 0 .. n - 1, NEW k \in 1 .. c
  PROVE  Wrap(h + k - 1, n) # Wrap(h + c, n)
  BY DEF Wrap

\* Moving the tail makes room for one more element.
LEMMA TailMoves ==
  ASSUME NEW n \in Nat, NEW h \in 0 .. n - 1, NEW c \in 0 .. n - 1
  PROVE  CircleForward(Wrap(h + c, n), n) = Wrap(h + c + 1, n)
  BY DEF Wrap, CircleForward

\* Moving the head makes the second element the first.
LEMMA HeadMoves ==
  ASSUME NEW n \in Nat, NEW h \in 0 .. n - 1, NEW c \in 0 .. n - 1
  PROVE  Wrap(CircleForward(h, n) + c, n) = Wrap(h + c + 1, n)
  BY DEF Wrap, CircleForward

LEMMA HeadMovesBack ==
  ASSUME NEW n \in Nat, NEW h \in 0 .. n - 1, NEW c \in 1 .. n
  PROVE  Wrap(CircleForward(h, n) + (c - 1), n) = Wrap(h + c, n)
  BY DEF Wrap, CircleForward

\* The k-th element from the head moved on is the one after the k-th.
LEMMA NextSlot ==
  ASSUME NEW n \in Nat, NEW h \in 0 .. n - 1, NEW k \in 1 .. n - 1
  PROVE  Wrap(CircleForward(h, n) + k - 1, n) = Wrap(h + (k + 1) - 1, n)
  BY DEF Wrap, CircleForward

\* circle_forward stays in the ring.
LEMMA ForwardInRing ==
  ASSUME NEW n \in Nat, NEW s \in 0 .. n - 1
  PROVE  CircleForward(s, n) \in 0 .. n - 1
  BY DEF CircleForward
-----------------------------------------------------------------------------
(* The functions of data/types.c on a queue value.                          *)

\* What a push and a pop do to the fields, and that the queue stays in its array.
LEMMA PushedRing ==
  ASSUME NEW n \in Nat, NEW E, NEW x \in Rings(n, E), NEW index \in E, x.count < n
  PROVE  /\ Pushed(x, index) \in Rings(n, E)
         /\ Pushed(x, index).size = n
         /\ Pushed(x, index).count = x.count + 1
         /\ Pushed(x, index).head = x.head
         /\ Pushed(x, index).tail = CircleForward(x.tail, n)
         /\ Pushed(x, index).indices = [x.indices EXCEPT ![x.tail] = index]
<1>1. x.size = n
  BY DEF Rings
<1>2. CircleForward(x.tail, n) \in 0 .. n - 1
  BY ForwardInRing DEF Rings
<1>3. Pushed(x, index) = [x EXCEPT !.indices = [x.indices EXCEPT ![x.tail] = index],
                                   !.tail = CircleForward(x.tail, n),
                                   !.count = x.count + 1]
  BY <1>1 DEF Pushed, Rings
<1>4. /\ x.count + 1 \in 0 .. n
      /\ [x.indices EXCEPT ![x.tail] = index] \in [0 .. n - 1 -> E]
  BY DEF Rings
<1>5. Pushed(x, index) \in Rings(n, E)
  BY <1>1, <1>2, <1>3, <1>4 DEF Rings
<1> QED
  BY <1>1, <1>3, <1>5 DEF Rings

LEMMA PoppedRing ==
  ASSUME NEW n \in Nat, NEW E, NEW x \in Rings(n, E), x.count # 0
  PROVE  /\ Popped(x) \in Rings(n, E)
         /\ Popped(x).size = n
         /\ Popped(x).count = x.count - 1
         /\ Popped(x).head = CircleForward(x.head, n)
         /\ Popped(x).tail = x.tail
         /\ Popped(x).indices = x.indices
<1>1. x.size = n
  BY DEF Rings
<1>2. CircleForward(x.head, n) \in 0 .. n - 1
  BY ForwardInRing DEF Rings
<1>3. Popped(x) = [x EXCEPT !.head = CircleForward(x.head, n), !.count = x.count - 1]
  BY <1>1 DEF Popped, Rings
<1>4. x.count - 1 \in 0 .. n
  BY DEF Rings
<1>5. Popped(x) \in Rings(n, E)
  BY <1>1, <1>2, <1>3, <1>4 DEF Rings
<1> QED
  BY <1>1, <1>3, <1>5 DEF Rings

-----------------------------------------------------------------------------
(* What a queue stands for.                                                 *)

\* The contents of a ring are count elements of its array.
LEMMA RingContents ==
  ASSUME NEW n \in Nat, NEW E, NEW x \in Rings(n, E)
  PROVE  /\ Contents(x) \in Seq(E) /\ Len(Contents(x)) = x.count
         /\ \A k \in 1 .. x.count : Contents(x)[k] = x.indices[SlotOf(x, k)]
<1>1. /\ x.size = n /\ x.count \in 0 .. n /\ x.head \in 0 .. n - 1
      /\ x.indices \in [0 .. n - 1 -> E]
  BY DEF Rings
<1>2. ASSUME NEW k \in 1 .. x.count PROVE x.indices[SlotOf(x, k)] \in E
  <2>1. k \in 1 .. n
    BY <1>1
  <2>2. SlotOf(x, k) \in 0 .. n - 1
    BY <1>1, <2>1, SlotInRing DEF SlotOf
  <2> QED
    BY <1>1, <2>2
<1> DEFINE s == Contents(x)
           c == x.count
<1>3. s \in [1 .. c -> E] /\ \A k \in 1 .. c : s[k] = x.indices[SlotOf(x, k)]
  BY <1>2 DEF Contents
<1>4. c \in Nat
  BY <1>1
<1> HIDE DEF s, c
<1>5. s \in Seq(E)
  BY <1>3, <1>4
<1>6. Len(s) = c
  BY <1>3, <1>4
<1> QED
  BY <1>3, <1>5, <1>6 DEF s, c

\* push_index appends to the contents, and tail stays behind the last element.
LEMMA PushedContents ==
  ASSUME NEW n \in Nat, NEW E, NEW x \in Rings(n, E), NEW index \in E, x.count < n,
         x.tail = Wrap(x.head + x.count, n)
  PROVE  /\ Contents(Pushed(x, index)) = Append(Contents(x), index)
         /\ Pushed(x, index).tail = Wrap(Pushed(x, index).head + Pushed(x, index).count, n)
<1> DEFINE y == Pushed(x, index)
           s == Contents(x)
           t == Contents(y)
           a == Append(s, index)
           c == x.count
<1>1. /\ x.size = n /\ c \in 0 .. n - 1 /\ c \in Nat /\ x.head \in 0 .. n - 1
      /\ x.tail \in 0 .. n - 1 /\ x.indices \in [0 .. n - 1 -> E]
  BY DEF Rings
<1>2. /\ y \in Rings(n, E) /\ y.size = n /\ y.count = c + 1 /\ y.head = x.head
      /\ y.tail = CircleForward(x.tail, n)
      /\ y.indices = [x.indices EXCEPT ![x.tail] = index]
  BY PushedRing
<1>3. y.tail = Wrap(y.head + y.count, n)
  <2>1. CircleForward(Wrap(x.head + c, n), n) = Wrap(x.head + c + 1, n)
    BY <1>1, TailMoves
  <2> HIDE DEF y
  <2>2. y.head + y.count = x.head + c + 1
    BY <1>1, <1>2
  <2> QED
    BY <1>2, <2>1, <2>2
<1>4. s \in Seq(E) /\ Len(s) = c /\ \A k \in 1 .. c : s[k] = x.indices[SlotOf(x, k)]
  BY RingContents
<1>5. t \in Seq(E) /\ Len(t) = c + 1 /\ \A k \in 1 .. c + 1 : t[k] = y.indices[SlotOf(y, k)]
  <2> HIDE DEF y
  <2>1. /\ t \in Seq(E) /\ Len(t) = y.count
        /\ \A k \in 1 .. y.count : t[k] = y.indices[SlotOf(y, k)]
    BY <1>2, RingContents
  <2> QED
    BY <1>2, <2>1
<1> HIDE DEF y, s, t, c
<1>6. ASSUME NEW k \in 1 .. c PROVE t[k] = s[k]
  <2>1. SlotOf(y, k) = SlotOf(x, k)
    BY <1>1, <1>2 DEF SlotOf
  <2>2. SlotOf(x, k) \in 0 .. n - 1
    <3>1. k \in 1 .. n
      BY <1>1
    <3> QED
      BY <1>1, <3>1, SlotInRing DEF SlotOf
  <2>3. SlotOf(x, k) # x.tail
    BY <1>1, SlotsDiffer DEF SlotOf, c
  <2>4. t[k] = y.indices[SlotOf(x, k)] /\ s[k] = x.indices[SlotOf(x, k)]
    <3>1. k \in 1 .. c + 1
      BY <1>1
    <3> QED
      BY <1>4, <1>5, <2>1, <3>1
  <2> QED
    BY <1>1, <1>2, <2>2, <2>3, <2>4
<1>7. t[c + 1] = index
  <2>1. SlotOf(y, c + 1) = Wrap(x.head + (c + 1) - 1, n)
    BY <1>2 DEF SlotOf
  <2>2. x.head + (c + 1) - 1 = x.head + c
    BY <1>1
  <2>3. SlotOf(y, c + 1) = x.tail
    BY <2>1, <2>2 DEF c
  <2>4. c + 1 \in 1 .. c + 1
    BY <1>1
  <2>5. t[c + 1] = y.indices[x.tail]
    BY <1>5, <2>3, <2>4
  <2> QED
    BY <1>1, <1>2, <2>5
<1>8. /\ a \in Seq(E) /\ Len(a) = c + 1
      /\ \A k \in 1 .. c : a[k] = s[k]
      /\ a[c + 1] = index
  BY <1>4, AppendProperties
<1>9. \A k \in 1 .. c + 1 : t[k] = a[k]
  <2> HIDE DEF a
  <2> QED
    BY <1>1, <1>6, <1>7, <1>8
<1>10. t = a
  <2> HIDE DEF a
  <2> QED
    BY <1>5, <1>8, <1>9, SeqEqual
<1> QED
  BY <1>3, <1>10 DEF y, s, t

\* pop_index answers the head of the contents and leaves their tail.
LEMMA PoppedContents ==
  ASSUME NEW n \in Nat, NEW E, NEW x \in Rings(n, E), x.count # 0,
         x.tail = Wrap(x.head + x.count, n)
  PROVE  /\ Contents(x) # <<>>
         /\ x.indices[x.head] = Head(Contents(x))
         /\ Contents(Popped(x)) = Tail(Contents(x))
         /\ Popped(x).tail = Wrap(Popped(x).head + Popped(x).count, n)
<1> DEFINE y == Popped(x)
           s == Contents(x)
           t == Contents(y)
           r == Tail(s)
           c == x.count
<1>1. /\ x.size = n /\ c \in 1 .. n /\ c \in Nat /\ x.head \in 0 .. n - 1
      /\ x.indices \in [0 .. n - 1 -> E]
  BY DEF Rings
<1>2. /\ y \in Rings(n, E) /\ y.size = n /\ y.count = c - 1
      /\ y.head = CircleForward(x.head, n) /\ y.tail = x.tail /\ y.indices = x.indices
  BY PoppedRing
<1>3. y.tail = Wrap(y.head + y.count, n)
  <2>1. Wrap(CircleForward(x.head, n) + (c - 1), n) = Wrap(x.head + c, n)
    BY <1>1, HeadMovesBack
  <2> HIDE DEF y
  <2> QED
    BY <1>2, <2>1
<1>4. s \in Seq(E) /\ Len(s) = c /\ \A k \in 1 .. c : s[k] = x.indices[SlotOf(x, k)]
  BY RingContents
<1>5. t \in Seq(E) /\ Len(t) = c - 1 /\ \A k \in 1 .. c - 1 : t[k] = y.indices[SlotOf(y, k)]
  <2> HIDE DEF y
  <2>1. /\ t \in Seq(E) /\ Len(t) = y.count
        /\ \A k \in 1 .. y.count : t[k] = y.indices[SlotOf(y, k)]
    BY <1>2, RingContents
  <2> QED
    BY <1>2, <2>1
<1> HIDE DEF y, s, t, c
<1>6. s[1] = x.indices[x.head]
  <2>1. SlotOf(x, 1) = x.head /\ 1 \in 1 .. c
    BY <1>1 DEF SlotOf, Wrap
  <2> QED
    BY <1>4, <2>1
<1>7. ASSUME NEW k \in 1 .. c - 1 PROVE t[k] = s[k + 1]
  <2>1. k \in 1 .. n - 1 /\ k + 1 \in 1 .. c
    BY <1>1
  <2>2. Wrap(CircleForward(x.head, n) + k - 1, n) = Wrap(x.head + (k + 1) - 1, n)
    BY <1>1, <2>1, NextSlot
  <2>3. SlotOf(y, k) = SlotOf(x, k + 1)
    BY <1>1, <1>2, <2>2 DEF SlotOf
  <2> QED
    BY <1>2, <1>4, <1>5, <2>1, <2>3
<1>8. s # <<>> /\ Head(s) = s[1]
  BY <1>1, <1>4
<1>9. r \in Seq(E) /\ Len(r) = c - 1 /\ \A k \in 1 .. c - 1 : r[k] = s[k + 1]
  BY <1>1, <1>4, <1>8, HeadTailProperties
<1>10. t = r
  <2> HIDE DEF r
  <2> QED
    BY <1>5, <1>7, <1>9, SeqEqual
<1> QED
  BY <1>3, <1>6, <1>8, <1>10 DEF y, s, t

\* MARK_ALL_FREE leaves every index once, in order.
LEMMA AllFreeContents ==
  ASSUME NEW n \in Nat, n > 0
  PROVE  /\ AllFree(n) \in Rings(n, 1 .. n)
         /\ AllFree(n).tail = Wrap(AllFree(n).head + AllFree(n).count, n)
         /\ AllFree(n).count = n
         /\ Contents(AllFree(n)) = [k \in 1 .. n |-> k]
<1> DEFINE x == AllFree(n)
<1>1. /\ x.size = n /\ x.count = n /\ x.tail = 0 /\ x.head = 0
      /\ x.indices = [i \in 0 .. n - 1 |-> i + 1]
  BY DEF AllFree
<1>2. x \in Rings(n, 1 .. n)
  BY DEF AllFree, Rings
<1> HIDE DEF x
<1>3. x.tail = Wrap(x.head + x.count, n)
  BY <1>1 DEF Wrap
<1>4. ASSUME NEW k \in 1 .. n PROVE x.indices[SlotOf(x, k)] = k
  <2>1. SlotOf(x, k) = k - 1 /\ k - 1 \in 0 .. n - 1
    BY <1>1 DEF SlotOf, Wrap
  <2> QED
    BY <1>1, <2>1
<1>5. Contents(x) = [k \in 1 .. n |-> k]
  BY <1>1, <1>4 DEF Contents
<1> QED
  BY <1>1, <1>2, <1>3, <1>5 DEF x
=============================================================================
