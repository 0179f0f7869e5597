---------------------------- MODULE Devices_proofs ----------------------------
(***************************************************************************)
(* Sleepers and readers among the devices, for every number of threads,    *)
(* every size of the input buffer, every length of a time slice and every  *)
(* duration of sleep.                                                      *)
(***************************************************************************)
EXTENDS Devices, Sequences_proofs

\* The rings of data/types.c, of which uart.c has one more.
Ring == INSTANCE IndexRing_proofs

AsRing(q) == [size |-> q.size, count |-> q.count, tail |-> q.tail, head |-> q.head,
              indices |-> q.chars]

LEMMA Parameters ==
  /\ IsFiniteSet(Threads) /\ None \notin Threads /\ None \notin Chars
  /\ UART_INPUT_BUFFER_SIZE \in Nat \ {0} /\ Slice \in Nat \ {0} /\ Duration \in Nat \ {0}
  BY DevicesAssumption

-----------------------------------------------------------------------------
(* driver/uart.c: the input buffer.                                         *)

\* A place of the ring that has passed its end at most once.
LEMMA Modulo ==
  ASSUME NEW n \in Nat \ {0}, NEW i \in 0 .. 2 * n - 1
  PROVE  i % n = Ring!Wrap(i, n)
  BY DEF Ring!Wrap

\* What the buffer and its ring have in common.
LEMMA BufferFields ==
  ASSUME NEW q \in Buffers
  PROVE  /\ q.size = UART_INPUT_BUFFER_SIZE /\ q.count \in 0 .. UART_INPUT_BUFFER_SIZE
         /\ q.head \in 0 .. UART_INPUT_BUFFER_SIZE - 1 /\ q.tail \in 0 .. UART_INPUT_BUFFER_SIZE - 1
         /\ q.chars \in [0 .. UART_INPUT_BUFFER_SIZE - 1 -> Chars \cup {None}]
         /\ q = [size |-> q.size, count |-> q.count, head |-> q.head, tail |-> q.tail,
                 chars |-> q.chars]
         /\ AsRing(q) = [size |-> q.size, count |-> q.count, tail |-> q.tail, head |-> q.head,
                         indices |-> q.chars]
         /\ AsRing(q) \in Ring!Rings(UART_INPUT_BUFFER_SIZE, Chars \cup {None})
  BY DEF AsRing, Buffers, Ring!Rings

LEMMA AsRingFields ==
  ASSUME NEW q
  PROVE  /\ AsRing(q).size = q.size /\ AsRing(q).count = q.count /\ AsRing(q).tail = q.tail
         /\ AsRing(q).head = q.head /\ AsRing(q).indices = q.chars
  BY DEF AsRing

LEMMA BufferInRing ==
  ASSUME NEW q \in Buffers
  PROVE  /\ AsRing(q) \in Ring!Rings(UART_INPUT_BUFFER_SIZE, Chars \cup {None})
         /\ q.size = UART_INPUT_BUFFER_SIZE /\ q.count \in Nat
<1>1. q.count \in 0 .. UART_INPUT_BUFFER_SIZE /\ UART_INPUT_BUFFER_SIZE \in Nat
  BY Parameters DEF Buffers
<1> QED
  BY <1>1 DEF AsRing, Buffers, Ring!Rings

LEMMA RingFields ==
  ASSUME NEW n, NEW E, NEW x \in Ring!Rings(n, E)
  PROVE  x = [size |-> x.size, count |-> x.count, tail |-> x.tail, head |-> x.head,
              indices |-> x.indices]
  BY DEF Ring!Rings

\* uart_push_char and uart_pop_char are push_index and pop_index.
LEMMA BufferedRing ==
  ASSUME NEW q \in Buffers, NEW c \in Chars, ~BufferFull(q)
  PROVE  /\ Buffered(q, c) \in Buffers
         /\ Buffered(q, c).count = q.count + 1
         /\ AsRing(Buffered(q, c)) = Ring!Pushed(AsRing(q), c)
<1> DEFINE n == UART_INPUT_BUFFER_SIZE
           E == Chars \cup {None}
           x == AsRing(q)
           y == Buffered(q, c)
           z == Ring!Pushed(x, c)
<1>1. /\ q.size = n /\ q.count \in 0 .. n /\ q.head \in 0 .. n - 1 /\ q.tail \in 0 .. n - 1
      /\ q.chars \in [0 .. n - 1 -> E] /\ x \in Ring!Rings(n, E)
      /\ x = [size |-> q.size, count |-> q.count, tail |-> q.tail, head |-> q.head,
              indices |-> q.chars]
  BY BufferFields
<1>2. n \in Nat \ {0} /\ q.count < n /\ c \in E /\ x.count < n
  BY <1>1, Parameters DEF BufferFull
<1> HIDE DEF n, E, x
<1>3. CircleForward(q.tail, n) \in 0 .. n - 1
  BY <1>1, <1>2 DEF CircleForward
<1>4. /\ z \in Ring!Rings(n, E) /\ z.size = n /\ z.count = q.count + 1 /\ z.head = q.head
      /\ z.tail = CircleForward(q.tail, n) /\ z.indices = [q.chars EXCEPT ![q.tail] = c]
  <2>1. /\ z \in Ring!Rings(n, E) /\ z.size = n /\ z.count = x.count + 1 /\ z.head = x.head
        /\ z.tail = Ring!CircleForward(x.tail, n) /\ z.indices = [x.indices EXCEPT ![x.tail] = c]
    BY <1>1, <1>2, Ring!PushedRing
  <2> HIDE DEF z
  <2> QED
    BY <1>1, <2>1 DEF CircleForward, Ring!CircleForward
<1>5. /\ y.size = n /\ y.count = q.count + 1 /\ y.head = q.head
      /\ y.tail = CircleForward(q.tail, n) /\ y.chars = [q.chars EXCEPT ![q.tail] = c]
  BY <1>1 DEF Buffered, Buffers
<1>6. y \in Buffers
  <2>1. y = [q EXCEPT !.chars = [q.chars EXCEPT ![q.tail] = c],
                      !.tail = CircleForward(q.tail, n), !.count = q.count + 1]
    BY <1>1 DEF Buffered
  <2>2. q.count + 1 \in 0 .. n /\ [q.chars EXCEPT ![q.tail] = c] \in [0 .. n - 1 -> E]
    BY <1>1, <1>2
  <2> QED
    BY <1>1, <1>3, <2>1, <2>2 DEF Buffers, n, E
<1> HIDE DEF y, z
<1>7. AsRing(y) = z
  <2>1. z = [size |-> z.size, count |-> z.count, tail |-> z.tail, head |-> z.head,
             indices |-> z.indices]
    BY <1>4, RingFields
  <2> QED
    BY <1>4, <1>5, <2>1 DEF AsRing
<1> QED
  BY <1>5, <1>6, <1>7 DEF x, y, z

LEMMA PoppedRing ==
  ASSUME NEW q \in Buffers, q.count # 0
  PROVE  /\ Popped(q) \in Buffers
         /\ Popped(q).count = q.count - 1
         /\ AsRing(Popped(q)) = Ring!Popped(AsRing(q))
<1> DEFINE n == UART_INPUT_BUFFER_SIZE
           E == Chars \cup {None}
           x == AsRing(q)
           y == Popped(q)
           z == Ring!Popped(x)
<1>1. /\ q.size = n /\ q.count \in 0 .. n /\ q.head \in 0 .. n - 1 /\ q.tail \in 0 .. n - 1
      /\ q.chars \in [0 .. n - 1 -> E] /\ x \in Ring!Rings(n, E)
      /\ x = [size |-> q.size, count |-> q.count, tail |-> q.tail, head |-> q.head,
              indices |-> q.chars]
  BY BufferFields
<1>2. n \in Nat \ {0} /\ x.count # 0
  BY <1>1, Parameters
<1> HIDE DEF n, E, x
<1>3. CircleForward(q.head, n) \in 0 .. n - 1
  BY <1>1, <1>2 DEF CircleForward
<1>4. /\ z \in Ring!Rings(n, E) /\ z.size = n /\ z.count = q.count - 1
      /\ z.head = CircleForward(q.head, n) /\ z.tail = q.tail /\ z.indices = q.chars
  <2>1. /\ z \in Ring!Rings(n, E) /\ z.size = n /\ z.count = x.count - 1
        /\ z.head = Ring!CircleForward(x.head, n) /\ z.tail = x.tail /\ z.indices = x.indices
    BY <1>1, <1>2, Ring!PoppedRing
  <2> HIDE DEF z
  <2> QED
    BY <1>1, <2>1 DEF CircleForward, Ring!CircleForward
<1>5. /\ y.size = n /\ y.count = q.count - 1 /\ y.head = CircleForward(q.head, n)
      /\ y.tail = q.tail /\ y.chars = q.chars
  BY <1>1 DEF Popped, Buffers
<1>6. y \in Buffers
  <2>1. y = [q EXCEPT !.head = CircleForward(q.head, n), !.count = q.count - 1]
    BY <1>1 DEF Popped
  <2>2. q.count - 1 \in 0 .. n
    BY <1>1, <1>2
  <2> QED
    BY <1>1, <1>3, <2>1, <2>2 DEF Buffers, n, E
<1> HIDE DEF y, z
<1>7. AsRing(y) = z
  <2>1. z = [size |-> z.size, count |-> z.count, tail |-> z.tail, head |-> z.head,
             indices |-> z.indices]
    BY <1>4, RingFields
  <2> QED
    BY <1>4, <1>5, <2>1 DEF AsRing
<1> QED
  BY <1>5, <1>6, <1>7 DEF x, y, z

\* The characters of a buffer, oldest first, and a buffer whose tail is behind them.
KeptIn(q) == Ring!Contents(AsRing(q))

Filled(q) ==
    /\ q \in Buffers
    /\ q.tail = Ring!Wrap(q.head + q.count, UART_INPUT_BUFFER_SIZE)
    /\ KeptIn(q) \in Seq(Chars)

LEMMA KeptIsThat ==
  ASSUME NEW q \in Buffers
  PROVE  [k \in 1 .. q.count |-> q.chars[(q.head + k - 1) % q.size]] = KeptIn(q)
<1> DEFINE n == UART_INPUT_BUFFER_SIZE
<1>1. /\ q.size = n /\ q.count \in 0 .. n /\ q.head \in 0 .. n - 1
      /\ AsRing(q) = [size |-> q.size, count |-> q.count, tail |-> q.tail, head |-> q.head,
                      indices |-> q.chars]
  BY BufferFields
<1>2. n \in Nat \ {0}
  BY Parameters
<1> HIDE DEF n
<1>3. ASSUME NEW k \in 1 .. q.count
      PROVE  (q.head + k - 1) % q.size = Ring!SlotOf(AsRing(q), k)
  <2>1. q.head + k - 1 \in 0 .. 2 * n - 1
    BY <1>1, <1>2
  <2>2. (q.head + k - 1) % n = Ring!Wrap(q.head + k - 1, n)
    BY <1>2, <2>1, Modulo
  <2> QED
    BY <1>1, <2>2 DEF Ring!SlotOf
<1> QED
  BY <1>1, <1>3 DEF KeptIn, Ring!Contents

\* A buffer keeps as many characters as it counts.
LEMMA KeptLength ==
  ASSUME NEW q, Filled(q)
  PROVE  KeptIn(q) \in Seq(Chars) /\ Len(KeptIn(q)) = q.count /\ q.count \in Nat
<1>1. q \in Buffers /\ UART_INPUT_BUFFER_SIZE \in Nat
  BY Parameters DEF Filled
<1>2. AsRing(q) \in Ring!Rings(UART_INPUT_BUFFER_SIZE, Chars \cup {None}) /\ q.count \in Nat
  BY <1>1, BufferInRing
<1>3. AsRing(q).count = q.count
  BY AsRingFields
<1> QED
  BY <1>1, <1>2, <1>3, Ring!RingContents DEF Filled, KeptIn

LEMMA BufferedKept ==
  ASSUME NEW q, Filled(q), NEW c \in Chars, ~BufferFull(q)
  PROVE  /\ Filled(Buffered(q, c))
         /\ KeptIn(Buffered(q, c)) = Append(KeptIn(q), c)
<1> DEFINE n == UART_INPUT_BUFFER_SIZE
           E == Chars \cup {None}
           x == AsRing(q)
           y == Buffered(q, c)
<1>1. q \in Buffers /\ n \in Nat /\ c \in E
  BY Parameters DEF Filled
<1>2. /\ x \in Ring!Rings(n, E) /\ x.count < n /\ x.tail = Ring!Wrap(x.head + x.count, n)
  <2>1. x \in Ring!Rings(n, E) /\ q.size = n /\ q.count \in Nat
    BY <1>1, BufferInRing
  <2>2. x.tail = q.tail /\ x.head = q.head /\ x.count = q.count
    BY AsRingFields
  <2> HIDE DEF x, E
  <2> QED
    BY <2>1, <2>2, <1>1 DEF Filled, BufferFull
<1>3. y \in Buffers /\ AsRing(y) = Ring!Pushed(x, c)
  BY <1>1, BufferedRing
<1>4. AsRing(y).tail = y.tail /\ AsRing(y).head = y.head /\ AsRing(y).count = y.count
  BY DEF AsRing
<1> HIDE DEF n, E, x, y
<1>5. /\ Ring!Contents(Ring!Pushed(x, c)) = Append(Ring!Contents(x), c)
      /\ Ring!Pushed(x, c).tail = Ring!Wrap(Ring!Pushed(x, c).head + Ring!Pushed(x, c).count, n)
  BY <1>1, <1>2, Ring!PushedContents
<1>6. KeptIn(y) = Append(KeptIn(q), c)
  BY <1>3, <1>5 DEF KeptIn, x
<1>7. KeptIn(y) \in Seq(Chars)
  BY <1>6, AppendProperties DEF Filled
<1> QED
  BY <1>3, <1>4, <1>5, <1>6, <1>7 DEF Filled, y, n

LEMMA PoppedKept ==
  ASSUME NEW q, Filled(q), q.count # 0
  PROVE  /\ Filled(Popped(q))
         /\ KeptIn(q) # <<>>
         /\ uart_peek_char(q) = Head(KeptIn(q))
         /\ KeptIn(Popped(q)) = Tail(KeptIn(q))
<1> DEFINE n == UART_INPUT_BUFFER_SIZE
           E == Chars \cup {None}
           x == AsRing(q)
           y == Popped(q)
<1>1. q \in Buffers /\ n \in Nat
  BY Parameters DEF Filled
<1>2. /\ x \in Ring!Rings(n, E) /\ x.count # 0 /\ x.tail = Ring!Wrap(x.head + x.count, n)
      /\ x.indices[x.head] = uart_peek_char(q)
  <2>1. x \in Ring!Rings(n, E)
    BY <1>1, BufferInRing
  <2>2. /\ x.tail = q.tail /\ x.head = q.head /\ x.count = q.count
        /\ x.indices = q.chars
    BY AsRingFields
  <2> HIDE DEF x, E
  <2> QED
    BY <2>1, <2>2 DEF Filled, uart_peek_char
<1>3. y \in Buffers /\ AsRing(y) = Ring!Popped(x)
  BY <1>1, PoppedRing
<1>4. AsRing(y).tail = y.tail /\ AsRing(y).head = y.head /\ AsRing(y).count = y.count
  BY DEF AsRing
<1> HIDE DEF n, E, x, y
<1>5. /\ Ring!Contents(x) # <<>>
      /\ x.indices[x.head] = Head(Ring!Contents(x))
      /\ Ring!Contents(Ring!Popped(x)) = Tail(Ring!Contents(x))
      /\ Ring!Popped(x).tail = Ring!Wrap(Ring!Popped(x).head + Ring!Popped(x).count, n)
  BY <1>1, <1>2, Ring!PoppedContents
<1>6. KeptIn(q) # <<>> /\ uart_peek_char(q) = Head(KeptIn(q)) /\ KeptIn(y) = Tail(KeptIn(q))
  BY <1>2, <1>3, <1>5 DEF KeptIn, x
<1>7. KeptIn(y) \in Seq(Chars)
  BY <1>6, HeadTailProperties DEF Filled
<1> QED
  BY <1>3, <1>4, <1>5, <1>6, <1>7 DEF Filled, y, n

LEMMA EmptyFilled == Filled(EmptyBuffer) /\ KeptIn(EmptyBuffer) = <<>>
<1> DEFINE n == UART_INPUT_BUFFER_SIZE
           q == EmptyBuffer
<1>1. /\ q.size = n /\ q.count = 0 /\ q.head = 0 /\ q.tail = 0
      /\ q \in Buffers
  BY Parameters DEF EmptyBuffer, Buffers
<1>2. q.tail = Ring!Wrap(q.head + q.count, n)
  BY <1>1, Parameters DEF Ring!Wrap
<1> HIDE DEF q
<1>3. AsRing(q).count = 0
  BY <1>1 DEF AsRing
<1>4. KeptIn(q) = <<>>
  BY <1>3 DEF KeptIn, Ring!Contents
<1>5. KeptIn(q) \in Seq(Chars)
  BY <1>4
<1> QED
  BY <1>1, <1>2, <1>4, <1>5 DEF Filled, q

-----------------------------------------------------------------------------
(* The invariant.                                                           *)

\* Every thread is in one place at most, and in no queue twice.
Places(rdy, asleep, reading, run) ==
    /\ rdy \in Seq(Threads) /\ asleep \in Seq(Threads) /\ reading \in Seq(Threads)
    /\ IsInjective(rdy) /\ IsInjective(asleep) /\ IsInjective(reading)
    /\ run \in Threads \cup {None}
    /\ \A t \in Threads : /\ ~(t \in Range(rdy) /\ t \in Range(asleep))
                          /\ ~(t \in Range(rdy) /\ t \in Range(reading))
                          /\ ~(t \in Range(asleep) /\ t \in Range(reading))
    /\ run \notin Range(rdy) /\ run \notin Range(asleep) /\ run \notin Range(reading)

Timers == [ticks : 1 .. Slice, flag : BOOLEAN, enabled : BOOLEAN]

\* The ticks until the next interrupt counts down the sleepers: an interrupt
\* that is pending may do so at once.
TicksLeft(tm) == IF tm.flag THEN 0 ELSE tm.ticks

\* The ticks that l time slices take at least, the first being under way.
TicksOf(l) == (l - 1) * Slice

\* The slices a sleeper still waits for are not less than it has still to sleep.
Paid(asleep, lft, owd, tm) ==
    /\ lft \in [Threads -> 0 .. Duration] /\ owd \in [Threads -> 0 .. Duration * Slice]
    /\ \A t \in Threads : IF t \in Range(asleep)
                          THEN lft[t] # 0 /\ owd[t] <= TicksOf(lft[t]) + TicksLeft(tm)
                          ELSE owd[t] = 0

\* Sleepers are in the order in which they wake.
InOrder(asleep, lft) ==
    \A i, j \in 1 .. Len(asleep) : i < j => lft[asleep[i]] <= lft[asleep[j]]

DInv ==
    /\ timer \in Timers
    /\ rx \in Chars \cup {None} /\ tx \in BOOLEAN /\ putting \in BOOLEAN
    /\ given \in {None} \cup (Threads \X Chars)
    /\ Places(ready, sleepers, readers, running)
    /\ Paid(sleepers, left, owed, timer)
    /\ InOrder(sleepers, left)
    /\ Filled(queue)
    /\ readers # <<>> => queue.count = 0

\* Slices and ticks.
LEMMA Slices ==
  /\ TicksOf(1) = 0
  /\ TicksOf(Duration) + Slice = Duration * Slice
  /\ \A l \in Nat : TicksOf(l) \in Int /\ TicksOf(l + 1) = TicksOf(l) + Slice
  /\ Duration * Slice \in Nat
  BY Parameters DEF TicksOf

\* The timer after its reset, which a call ends with, too.
LEMMA TimerIsReset ==
  ASSUME NEW tm \in Timers
  PROVE  /\ TicksLeft(tm) \in 0 .. Slice
         /\ reset_timer(tm) \in Timers /\ TicksLeft(reset_timer(tm)) = Slice
         /\ disable_timer(tm) \in Timers /\ TicksLeft(disable_timer(tm)) = TicksLeft(tm)
         /\ enable_timer(tm) \in Timers /\ TicksLeft(enable_timer(tm)) = TicksLeft(tm)
<1>1. Slice \in 1 .. Slice /\ Slice \in Nat
  BY Parameters
<1>2. tm.ticks \in 1 .. Slice /\ tm.flag \in BOOLEAN /\ tm.enabled \in BOOLEAN
  BY DEF Timers
<1>3. TicksLeft(tm) \in 0 .. Slice
  BY <1>1, <1>2 DEF TicksLeft
<1>4. reset_timer(tm) \in Timers /\ reset_timer(tm).flag = FALSE /\ reset_timer(tm).ticks = Slice
  BY <1>1 DEF Timers, reset_timer
<1>5. /\ disable_timer(tm) \in Timers
      /\ disable_timer(tm).flag = tm.flag /\ disable_timer(tm).ticks = tm.ticks
  BY DEF Timers, disable_timer
<1>6. /\ enable_timer(tm) \in Timers
      /\ enable_timer(tm).flag = tm.flag /\ enable_timer(tm).ticks = tm.ticks
  BY DEF Timers, enable_timer
<1> QED
  BY <1>3, <1>4, <1>5, <1>6 DEF TicksLeft

LEMMA CallResets ==
  ASSUME timer \in Timers
  PROVE  TimerAfterCall \in Timers /\ TicksLeft(TimerAfterCall) = Slice
<1>1. disable_timer(timer) \in Timers
  BY TimerIsReset
<1>2. /\ reset_timer(disable_timer(timer)) \in Timers
      /\ TicksLeft(reset_timer(disable_timer(timer))) = Slice
  BY <1>1, TimerIsReset
<1> QED
  BY <1>2, TimerIsReset DEF TimerAfterCall

\* A sleeper has paid for what the timer of now owes it, and the more if the
\* slice starts anew.
LEMMA PaidByMore ==
  ASSUME NEW asleep, NEW lft, NEW owd, NEW tm \in Timers, NEW tn \in Timers,
         Paid(asleep, lft, owd, tm), TicksLeft(tm) <= TicksLeft(tn)
  PROVE  Paid(asleep, lft, owd, tn)
<1>1. TicksLeft(tm) \in Int /\ TicksLeft(tn) \in Int
  BY TimerIsReset, Parameters
<1>2. ASSUME NEW t \in Threads, owd[t] <= TicksOf(lft[t]) + TicksLeft(tm)
      PROVE  owd[t] <= TicksOf(lft[t]) + TicksLeft(tn)
  <2>1. lft[t] \in Nat /\ owd[t] \in Int
    BY Parameters, Slices DEF Paid
  <2>2. TicksOf(lft[t]) \in Int
    BY <2>1, Slices
  <2> QED
    BY <1>1, <1>2, <2>1, <2>2
<1> QED
  BY <1>2 DEF Paid

-----------------------------------------------------------------------------
(* scheduler.c.                                                             *)

\* What scheduler_cycle makes of the queue and the running thread.
Moved(queued, old, rdy, run) ==
    /\ rdy \in Seq(Threads) /\ IsInjective(rdy)
    /\ run \in Threads \cup {None} /\ run \notin Range(rdy)
    /\ \A t \in Threads : t \in Range(rdy) \/ t = run <=> t \in Range(queued) \/ t = old

LEMMA CycleMoves ==
  ASSUME NEW queued \in Seq(Threads), IsInjective(queued),
         NEW old \in Threads \cup {None}, old \notin Range(queued), Cycle(old, queued)
  PROVE  Moved(queued, old, ready', running')
<1>1. None \notin Threads /\ \A t \in Range(queued) : t \in Threads
  BY Parameters, ElementsOfSeq
<1>2. CASE queued = <<>>
  <2>1. running' = old /\ ready' = <<>>
    BY <1>2 DEF Cycle
  <2> QED
    BY <1>2, <2>1 DEF Moved
<1>3. CASE queued # <<>>
  <2> DEFINE h == Head(queued)
             r == Tail(queued)
  <2>1. /\ h \in Threads /\ h \in Range(queued) /\ r \in Seq(Threads) /\ IsInjective(r)
        /\ \A x : x \in Range(r) <=> x \in Range(queued) /\ x # h
    BY <1>3, TailElements
  <2>2. running' = h /\ ready' = IF old = None THEN r ELSE Append(r, old)
    BY <1>3 DEF Cycle
  <2> HIDE DEF h, r
  <2>3. CASE old = None
    BY <1>1, <2>1, <2>2, <2>3 DEF Moved
  <2>4. CASE old # None
    <3>1. old \in Threads /\ old \notin Range(r)
      BY <2>1, <2>4
    <3>2. /\ Append(r, old) \in Seq(Threads) /\ IsInjective(Append(r, old))
          /\ \A y : y \in Range(Append(r, old)) <=> y \in Range(r) \/ y = old
      BY <2>1, <3>1, AppendElements
    <3> DEFINE a == Append(r, old)
    <3> HIDE DEF a
    <3>3. ready' = a /\ a \in Seq(Threads) /\ IsInjective(a)
          /\ \A y : y \in Range(a) <=> y \in Range(r) \/ y = old
      BY <2>2, <2>4, <3>2 DEF a
    <3> QED
      BY <1>1, <2>1, <2>2, <3>1, <3>3 DEF Moved
  <2> QED
    BY <2>3, <2>4
<1> QED
  BY <1>2, <1>3

\* Sleepers are counted by their places: those due come first.
LEMMA DueComeFirst ==
  ASSUME DInv
  PROVE  /\ Cardinality(Due) \in 0 .. Len(sleepers)
         /\ \A k \in 1 .. Len(sleepers) : left[sleepers[k]] = 1 <=> k <= Cardinality(Due)
<1> DEFINE n == Len(sleepers)
<1>1. n \in Nat /\ \A k \in 1 .. n : sleepers[k] \in Threads /\ sleepers[k] \in Range(sleepers)
  BY ElementsOfSeq DEF DInv, Places
<1>2. \A k \in 1 .. n : left[sleepers[k]] \in Nat \ {0}
  BY <1>1, Parameters DEF DInv, Paid
<1>3. \A i, j \in 1 .. n : i < j => left[sleepers[i]] <= left[sleepers[j]]
  BY DEF DInv, InOrder
<1>4. Due \subseteq 1 .. n /\ \A k \in 1 .. n : k \in Due <=> left[sleepers[k]] = 1
  BY DEF Due
<1> HIDE DEF n
<1>5. ASSUME NEW k \in Due PROVE 1 .. k \subseteq Due
  <2> SUFFICES ASSUME NEW i \in 1 .. k PROVE i \in Due
    OBVIOUS
  <2>1. k \in 1 .. n /\ i \in 1 .. n
    BY <1>1, <1>4
  <2>2. i < k => left[sleepers[i]] = 1
    BY <1>2, <1>3, <1>4, <1>5, <2>1
  <2> QED
    BY <1>4, <2>1, <2>2
<1> DEFINE D == Due
<1>6. D \subseteq 1 .. n /\ \A k \in D : 1 .. k \subseteq D
  BY <1>4, <1>5
<1>7. /\ Cardinality(D) \in 0 .. n
      /\ \A k \in 1 .. n : k \in D <=> k <= Cardinality(D)
  <2> HIDE DEF D
  <2> QED
    BY <1>1, <1>6, FirstPlaces
<1> QED
  BY <1>4, <1>7 DEF n

\* decrement_waits cuts the sleepers in two: those with one slice left are
\* woken, and those behind them sleep on.
LEMMA WokenAreDue ==
  ASSUME DInv, decrement_waits
  PROVE  /\ Woken \in Seq(Threads) /\ IsInjective(Woken)
         /\ sleepers' \in Seq(Threads) /\ IsInjective(sleepers')
         /\ \A t \in Threads : t \in Range(Woken) <=> t \in Range(sleepers) /\ left[t] = 1
         /\ \A t \in Threads : t \in Range(sleepers') <=> t \in Range(sleepers) /\ left[t] # 1
         /\ TicksLeft(timer) = 0 => Paid(sleepers', left', owed, reset_timer(timer))
         /\ InOrder(sleepers', left')
<1> DEFINE n == Len(sleepers)
           c == Cardinality(Due)
           W == Woken
           r == SubSeq(sleepers, c + 1, n)
<1>1. /\ sleepers \in Seq(Threads) /\ IsInjective(sleepers)
      /\ n \in Nat
      /\ \A x \in Range(sleepers) : x \in Threads /\ \E k \in 1 .. n : x = sleepers[k]
      /\ \A k \in 1 .. n : sleepers[k] \in Threads /\ sleepers[k] \in Range(sleepers)
  BY ElementsOfSeq DEF DInv, Places
<1>2. c \in 0 .. n /\ \A k \in 1 .. n : left[sleepers[k]] = 1 <=> k <= c
  BY DueComeFirst
<1>3. /\ W \in Seq(Threads) /\ r \in Seq(Threads) /\ IsInjective(W) /\ IsInjective(r)
      /\ \A k \in 1 .. n : sleepers[k] \in Range(W) <=> k <= c
      /\ \A k \in 1 .. n : sleepers[k] \in Range(r) <=> k > c
      /\ Range(W) \subseteq Range(sleepers) /\ Range(r) \subseteq Range(sleepers)
  BY <1>1, <1>2, SplitOfInjective DEF Woken
<1>4. Len(r) = n - c /\ \A i \in 1 .. n - c : r[i] = sleepers[c + i]
  BY <1>1, <1>2, RestOfSeq
<1>5. sleepers' = r
  BY DEF decrement_waits
<1>6. \A t \in Threads : left'[t] = IF t \in Range(sleepers) THEN left[t] - 1 ELSE left[t]
  BY DEF decrement_waits, ToSet, Range
<1>7. left' = [t \in Threads |-> left'[t]]
  BY DEF decrement_waits
<1> HIDE DEF n, c, W, r
<1>8. ASSUME NEW t \in Threads PROVE t \in Range(W) <=> t \in Range(sleepers) /\ left[t] = 1
  BY <1>1, <1>2, <1>3
<1>9. ASSUME NEW t \in Threads PROVE t \in Range(r) <=> t \in Range(sleepers) /\ left[t] # 1
  <2>1. ASSUME t \in Range(sleepers) PROVE t \in Range(r) <=> left[t] # 1
    <3>1. PICK k \in 1 .. n : t = sleepers[k]
      BY <1>1, <2>1
    <3>2. k > c <=> ~(k <= c)
      BY <1>1, <1>2
    <3> QED
      BY <1>2, <1>3, <3>1, <3>2
  <2> QED
    BY <1>3, <2>1
<1>10. \A t \in Threads : left[t] \in 0 .. Duration /\ (t \in Range(sleepers) => left[t] # 0)
  BY DEF DInv, Paid
<1>11. InOrder(r, left')
  <2> SUFFICES ASSUME NEW i \in 1 .. n - c, NEW j \in 1 .. n - c, i < j
               PROVE  left'[r[i]] <= left'[r[j]]
    BY <1>4 DEF InOrder
  <2>1. c + i \in 1 .. n /\ c + j \in 1 .. n /\ c + i < c + j
    BY <1>1, <1>2
  <2>2. left[r[i]] <= left[r[j]]
    BY <1>4, <2>1 DEF DInv, InOrder, n
  <2>3. /\ r[i] \in Threads /\ r[j] \in Threads
        /\ r[i] \in Range(sleepers) /\ r[j] \in Range(sleepers)
    BY <1>1, <1>4, <2>1
  <2>4. left[r[i]] \in Int /\ left[r[j]] \in Int
    BY <1>10, <2>3, Parameters
  <2> QED
    BY <1>6, <2>2, <2>3, <2>4
<1>12. ASSUME TicksLeft(timer) = 0 PROVE Paid(r, left', owed, reset_timer(timer))
  <2>1. timer \in Timers /\ TicksLeft(reset_timer(timer)) = Slice /\ Slice \in Nat
    BY TimerIsReset, Parameters DEF DInv
  <2>2. left' \in [Threads -> 0 .. Duration]
    <3>1. ASSUME NEW t \in Threads PROVE left'[t] \in 0 .. Duration
      BY <1>6, <1>10, Parameters
    <3> QED
      BY <1>7, <3>1
  <2>3. owed \in [Threads -> 0 .. Duration * Slice] /\ \A t \in Threads : owed[t] \in Nat
    <3> DEFINE m == Duration * Slice
    <3>1. m \in Nat
      BY Slices
    <3>2. owed \in [Threads -> 0 .. m]
      BY DEF DInv, Paid
    <3> HIDE DEF m
    <3>3. \A t \in Threads : owed[t] \in Nat
      BY <3>1, <3>2
    <3> QED
      BY <3>2, <3>3 DEF m
  <2>4. ASSUME NEW t \in Threads, t \in Range(sleepers) PROVE owed[t] <= TicksOf(left[t])
    <3>1. owed[t] <= TicksOf(left[t]) + TicksLeft(timer)
      BY <2>4 DEF DInv, Paid
    <3>2. left[t] \in Nat
      BY <1>10, Parameters
    <3>3. TicksOf(left[t]) \in Int
      BY <3>2, Slices
    <3> QED
      BY <1>12, <2>3, <3>1, <3>3
  <2>5. ASSUME NEW t \in Threads, t \in Range(r)
        PROVE  left'[t] # 0 /\ owed[t] <= TicksOf(left'[t]) + Slice
    <3>1. t \in Range(sleepers) /\ left[t] - 1 \in Nat \ {0} /\ left'[t] = left[t] - 1
          /\ (left[t] - 1) + 1 = left[t]
      BY <1>6, <1>9, <1>10, <2>5, Parameters
    <3>2. TicksOf(left[t]) = TicksOf(left'[t]) + Slice
      BY <3>1, Slices
    <3> QED
      BY <2>4, <3>1, <3>2
  <2>6. ASSUME NEW t \in Threads, t \notin Range(r) PROVE owed[t] = 0
    <3>1. CASE t \in Range(sleepers)
      <4>1. left[t] = 1
        BY <1>9, <2>6, <3>1
      <4>2. owed[t] <= 0
        BY <2>4, <3>1, <4>1, Slices
      <4> QED
        BY <2>3, <4>2
    <3>2. CASE t \notin Range(sleepers)
      BY <3>2 DEF DInv, Paid
    <3> QED
      BY <3>1, <3>2
  <2> QED
    BY <2>1, <2>2, <2>3, <2>5, <2>6 DEF Paid
<1> QED
  BY <1>3, <1>5, <1>8, <1>9, <1>11, <1>12 DEF W

-----------------------------------------------------------------------------
(* isr.c and calls.c: every step keeps the invariant.                       *)

LEMMA TimerIrqKeeps ==
  ASSUME DInv, timer_irq
  PROVE  DInv'
<1> DEFINE W == Woken
           q == ready \o W
           sl == sleepers'
<1>1. /\ ready \in Seq(Threads) /\ IsInjective(ready) /\ running \in Threads \cup {None}
      /\ \A t \in Threads : /\ ~(t \in Range(ready) /\ t \in Range(sleepers))
                            /\ ~(t \in Range(ready) /\ t \in Range(readers))
                            /\ ~(t \in Range(sleepers) /\ t \in Range(readers))
      /\ running \notin Range(ready) /\ running \notin Range(sleepers)
      /\ running \notin Range(readers)
      /\ readers \in Seq(Threads) /\ IsInjective(readers)
      /\ timer \in Timers
  BY DEF DInv, Places
<1>2. /\ decrement_waits /\ Cycle(running, q) /\ timer' = reset_timer(timer)
      /\ UNCHANGED <<rx, tx, queue, putting, readers, owed, given>>
      /\ TicksLeft(timer) = 0
  BY DEF timer_irq, TicksLeft
<1>3. /\ W \in Seq(Threads) /\ IsInjective(W)
      /\ sl \in Seq(Threads) /\ IsInjective(sl)
      /\ \A t \in Threads : t \in Range(W) <=> t \in Range(sleepers) /\ left[t] = 1
      /\ \A t \in Threads : t \in Range(sl) <=> t \in Range(sleepers) /\ left[t] # 1
      /\ Paid(sl, left', owed, reset_timer(timer))
      /\ InOrder(sl, left')
  BY <1>2, WokenAreDue
<1> HIDE DEF W, sl
<1>4. \A x \in Threads : ~(x \in Range(ready) /\ x \in Range(W))
  BY <1>1, <1>3
<1>5. /\ q \in Seq(Threads) /\ IsInjective(q)
      /\ \A x : x \in Range(q) <=> x \in Range(ready) \/ x \in Range(W)
  BY <1>1, <1>3, <1>4, ConcatOfInjective
<1> HIDE DEF q
<1>6. running \notin Range(q)
  <2>1. \A t \in Range(q) : t \in Threads
    BY <1>5, ElementsOfSeq
  <2> QED
    BY <1>1, <1>3, <1>5, <2>1
<1>7. Moved(q, running, ready', running')
  BY <1>1, <1>2, <1>5, <1>6, CycleMoves
<1>8. Places(ready', sl, readers, running')
  <2>1. /\ \A t \in Range(sl) : t \in Threads
        /\ \A t \in Range(readers) : t \in Threads
    BY <1>1, <1>3, ElementsOfSeq
  <2>2. ASSUME NEW t \in Threads, t \in Range(ready') \/ t = running'
        PROVE  t \notin Range(sl) /\ t \notin Range(readers)
    BY <1>1, <1>3, <1>5, <1>7, <2>2 DEF Moved
  <2>3. running' \notin Range(sl) /\ running' \notin Range(readers)
    BY <2>1, <2>2
  <2> QED
    BY <1>1, <1>3, <1>7, <2>2, <2>3 DEF Places, Moved
<1>9. reset_timer(timer) \in Timers
  BY <1>1, TimerIsReset
<1>10. Places(ready, sleepers, readers, running)'
  BY <1>2, <1>8 DEF sl
<1>11. Paid(sleepers, left, owed, timer)' /\ InOrder(sleepers, left)'
  BY <1>2, <1>3 DEF sl
<1>12. Filled(queue)'
  BY <1>2 DEF DInv
<1> QED
  BY <1>2, <1>9, <1>10, <1>11, <1>12 DEF DInv

LEMMA UartIrqKeeps ==
  ASSUME DInv, uart_irq
  PROVE  DInv'
<1>1. /\ rx \in Chars /\ rx' = None
      /\ UNCHANGED <<timer, tx, putting, running, sleepers, left, owed>>
      /\ Filled(queue)
      /\ timer \in Timers /\ tx \in BOOLEAN /\ putting \in BOOLEAN
  BY DEF uart_irq, ReadOut, DInv
<1>2. Paid(sleepers, left, owed, timer)' /\ InOrder(sleepers, left)'
  BY <1>1 DEF DInv
<1>3. CASE UNCHANGED <<queue, readers, ready, given>>
  <2>1. Places(ready, sleepers, readers, running)' /\ Filled(queue)'
    BY <1>1, <1>3 DEF DInv
  <2> QED
    BY <1>1, <1>2, <1>3, <2>1 DEF DInv
<1> DEFINE q == Buffered(queue, rx)
<1>4. ASSUME ~BufferFull(queue), readers = <<>>, queue' = q, UNCHANGED <<readers, ready, given>>
      PROVE  DInv'
  <2>1. Places(ready, sleepers, readers, running)' /\ Filled(queue)'
    BY <1>1, <1>4, BufferedKept DEF DInv
  <2> QED
    BY <1>1, <1>2, <1>4, <2>1 DEF DInv
<1>5. ASSUME ~BufferFull(queue), readers # <<>>, queue' = Popped(q),
             given' = <<Head(readers), uart_peek_char(q)>>, readers' = Tail(readers),
             ready' = Append(ready, Head(readers))
      PROVE  DInv'
  <2>1. queue.count = 0 /\ queue \in Buffers
    BY <1>5 DEF DInv, Filled
  <2>2. Filled(q) /\ q.count = 1
    <3>1. Filled(q) /\ q.count = queue.count + 1
      BY <1>1, <1>5, <2>1, BufferedKept, BufferedRing
    <3> QED
      BY <2>1, <3>1
  <2> HIDE DEF q
  <2>3. /\ Filled(Popped(q)) /\ KeptIn(q) # <<>> /\ uart_peek_char(q) = Head(KeptIn(q))
        /\ Popped(q).count = 0
    <3>1. q \in Buffers
      BY <2>2 DEF Filled
    <3>2. Popped(q).count = q.count - 1
      BY <2>2, <3>1, PoppedRing
    <3> QED
      BY <2>2, <3>2, PoppedKept
  <2>4. uart_peek_char(q) \in Chars
    BY <2>2, <2>3, KeptLength, HeadTailProperties
  <2> DEFINE h == Head(readers)
             r == Tail(readers)
             a == Append(ready, h)
  <2>5. /\ ready \in Seq(Threads) /\ IsInjective(ready) /\ readers \in Seq(Threads)
        /\ IsInjective(readers)
        /\ \A t \in Threads : /\ ~(t \in Range(ready) /\ t \in Range(sleepers))
                              /\ ~(t \in Range(ready) /\ t \in Range(readers))
                              /\ ~(t \in Range(sleepers) /\ t \in Range(readers))
        /\ running \notin Range(ready) /\ running \notin Range(readers)
    BY DEF DInv, Places
  <2>6. /\ h \in Threads /\ h \in Range(readers) /\ r \in Seq(Threads) /\ IsInjective(r)
        /\ \A x : x \in Range(r) <=> x \in Range(readers) /\ x # h
    BY <1>5, <2>5, TailElements
  <2> HIDE DEF h, r
  <2>7. h \notin Range(ready)
    BY <2>5, <2>6
  <2>8. /\ a \in Seq(Threads) /\ IsInjective(a)
        /\ \A y : y \in Range(a) <=> y \in Range(ready) \/ y = h
    BY <2>5, <2>6, <2>7, AppendElements
  <2> HIDE DEF a
  <2>9. Places(a, sleepers, r, running)
    <3>1. running # h
      BY <2>5, <2>6
    <3> QED
      BY <2>5, <2>6, <2>8, <3>1 DEF Places, DInv
  <2>10. /\ ready' = a /\ readers' = r /\ given' = <<h, uart_peek_char(q)>>
    BY <1>5 DEF a, r, h
  <2>11. given' \in Threads \X Chars
    BY <2>4, <2>6, <2>10
  <2>12. Places(ready, sleepers, readers, running)' /\ Filled(queue)' /\ queue'.count = 0
    BY <1>1, <1>5, <2>3, <2>9, <2>10
  <2> QED
    BY <1>1, <1>2, <2>11, <2>12 DEF DInv
<1> QED
  BY <1>3, <1>4, <1>5 DEF uart_irq

\* A call that gives the processor away.
LEMMA NextTakesOver ==
  ASSUME DInv, running # None, Cycle(None, ready)
  PROVE  /\ running \in Threads /\ Moved(ready, None, ready', running')
         /\ \A t \in Threads : t \in Range(ready') \/ t = running' <=> t \in Range(ready)
<1>1. ready \in Seq(Threads) /\ IsInjective(ready) /\ running \in Threads
  BY DEF DInv, Places
<1>2. None \notin Threads /\ None \notin Range(ready)
  BY <1>1, Parameters, ElementsOfSeq
<1>3. None \in Threads \cup {None}
  OBVIOUS
<1>4. Moved(ready, None, ready', running')
  BY <1>1, <1>2, <1>3, CycleMoves
<1> QED
  BY <1>1, <1>2, <1>4 DEF Moved

LEMMA GetCharKeeps ==
  ASSUME DInv, exec_syscall_get_char
  PROVE  DInv'
<1>1. /\ running # None /\ timer' = TimerAfterCall
      /\ UNCHANGED <<rx, tx, putting, sleepers, left, owed>>
      /\ timer \in Timers
      /\ running \in Threads
  BY DEF exec_syscall_get_char, CanCall, DInv, Places
<1>2. timer' \in Timers /\ Paid(sleepers, left, owed, timer)'
  <2>1. /\ TimerAfterCall \in Timers /\ TicksLeft(TimerAfterCall) = Slice
        /\ TicksLeft(timer) <= Slice
    BY <1>1, CallResets, TimerIsReset, Parameters
  <2>2. Paid(sleepers, left, owed, timer)
    BY DEF DInv
  <2>3. Paid(sleepers, left, owed, TimerAfterCall)
    <3> DEFINE tn == TimerAfterCall
    <3>1. tn \in Timers /\ TicksLeft(timer) <= TicksLeft(tn)
      BY <2>1
    <3> HIDE DEF tn
    <3>2. Paid(sleepers, left, owed, tn)
      BY <1>1, <2>2, <3>1, PaidByMore
    <3> QED
      BY <3>2 DEF tn
  <2> QED
    BY <1>1, <2>1, <2>3
<1>3. InOrder(sleepers, left)'
  BY <1>1 DEF DInv
<1>4. ASSUME queue.count = 0, readers' = Append(readers, running), Cycle(None, ready),
             UNCHANGED <<queue, given>>
      PROVE  DInv'
  <2> DEFINE a == Append(readers, running)
  <2>1. /\ Moved(ready, None, ready', running')
        /\ \A t \in Threads : t \in Range(ready') \/ t = running' <=> t \in Range(ready)
    BY <1>1, <1>4, NextTakesOver
  <2>2. /\ sleepers \in Seq(Threads) /\ IsInjective(sleepers)
        /\ readers \in Seq(Threads) /\ IsInjective(readers)
        /\ \A t \in Threads : /\ ~(t \in Range(ready) /\ t \in Range(sleepers))
                              /\ ~(t \in Range(ready) /\ t \in Range(readers))
                              /\ ~(t \in Range(sleepers) /\ t \in Range(readers))
        /\ running \notin Range(ready) /\ running \notin Range(sleepers)
        /\ running \notin Range(readers)
    BY DEF DInv, Places
  <2>3. /\ a \in Seq(Threads) /\ IsInjective(a)
        /\ \A y : y \in Range(a) <=> y \in Range(readers) \/ y = running
    BY <1>1, <2>2, AppendElements
  <2> HIDE DEF a
  <2>4. /\ \A t \in Range(sleepers) : t \in Threads
        /\ \A t \in Range(a) : t \in Threads
    BY <2>2, <2>3, ElementsOfSeq
  <2>5. ASSUME NEW t \in Threads, t \in Range(ready') \/ t = running'
        PROVE  t \notin Range(sleepers) /\ t \notin Range(a)
    BY <2>1, <2>2, <2>3, <2>5
  <2>6. running' \notin Range(sleepers) /\ running' \notin Range(a)
    BY <2>4, <2>5
  <2>7. Places(ready', sleepers, a, running')
    BY <1>1, <2>1, <2>2, <2>3, <2>5, <2>6 DEF Places, Moved
  <2>8. Places(ready, sleepers, readers, running)' /\ Filled(queue)' /\ queue'.count = 0
    BY <1>1, <1>4, <2>7 DEF DInv, a
  <2> QED
    BY <1>1, <1>2, <1>3, <1>4, <2>8 DEF DInv
<1>5. ASSUME queue.count # 0, given' = <<running, uart_peek_char(queue)>>,
             queue' = Popped(queue), UNCHANGED <<readers, running, ready>>
      PROVE  DInv'
  <2>1. Filled(queue) /\ readers = <<>>
    BY <1>5 DEF DInv
  <2>2. /\ Filled(Popped(queue)) /\ KeptIn(queue) # <<>>
        /\ uart_peek_char(queue) = Head(KeptIn(queue))
    BY <1>5, <2>1, PoppedKept
  <2>3. uart_peek_char(queue) \in Chars
    BY <2>1, <2>2, KeptLength, HeadTailProperties
  <2>4. Places(ready, sleepers, readers, running)' /\ Filled(queue)'
    BY <1>1, <1>5, <2>2 DEF DInv
  <2> QED
    BY <1>1, <1>2, <1>3, <1>5, <2>1, <2>3, <2>4 DEF DInv
<1> QED
  BY <1>4, <1>5 DEF exec_syscall_get_char

LEMMA WaitKeeps ==
  ASSUME DInv, exec_syscall_wait
  PROVE  DInv'
<1> DEFINE a == Append(sleepers, running)
           n == Len(sleepers)
           m == Duration * Slice
<1>1. /\ running # None /\ timer' = TimerAfterCall
      /\ UNCHANGED <<rx, tx, queue, putting, readers, given>>
      /\ timer \in Timers
      /\ sleepers' = a /\ Cycle(None, ready)
      /\ left' = [left EXCEPT ![running] = Duration]
      /\ owed' = [owed EXCEPT ![running] = m]
  BY DEF exec_syscall_wait, CanCall, DInv
<1>2. /\ running \in Threads /\ Moved(ready, None, ready', running')
      /\ \A t \in Threads : t \in Range(ready') \/ t = running' <=> t \in Range(ready)
  BY <1>1, NextTakesOver
<1>3. /\ sleepers \in Seq(Threads) /\ IsInjective(sleepers)
      /\ readers \in Seq(Threads) /\ IsInjective(readers)
      /\ \A t \in Threads : /\ ~(t \in Range(ready) /\ t \in Range(sleepers))
                            /\ ~(t \in Range(ready) /\ t \in Range(readers))
                            /\ ~(t \in Range(sleepers) /\ t \in Range(readers))
      /\ running \notin Range(ready) /\ running \notin Range(sleepers)
      /\ running \notin Range(readers)
  BY DEF DInv, Places
<1>4. /\ a \in Seq(Threads) /\ IsInjective(a)
      /\ \A y : y \in Range(a) <=> y \in Range(sleepers) \/ y = running
  BY <1>2, <1>3, AppendElements
<1>5. /\ n \in Nat /\ Len(a) = n + 1 /\ a[n + 1] = running
      /\ \A k \in 1 .. n : a[k] = sleepers[k] /\ sleepers[k] \in Range(sleepers)
                           /\ sleepers[k] \in Threads
  BY <1>2, <1>3, AppendProperties, ElementsOfSeq
<1> HIDE DEF a, n, m
<1>6. Places(ready', a, readers, running')
  <2>1. /\ \A t \in Range(readers) : t \in Threads
        /\ \A t \in Range(a) : t \in Threads
    BY <1>3, <1>4, ElementsOfSeq
  <2>2. ASSUME NEW t \in Threads, t \in Range(ready') \/ t = running'
        PROVE  t \notin Range(readers) /\ t \notin Range(a)
    BY <1>2, <1>3, <1>4, <2>2
  <2>3. running' \notin Range(readers) /\ running' \notin Range(a)
    BY <2>1, <2>2
  <2> QED
    BY <1>2, <1>3, <1>4, <2>2, <2>3 DEF Places, Moved
<1>7. /\ left \in [Threads -> 0 .. Duration] /\ owed \in [Threads -> 0 .. m]
      /\ m \in Nat /\ Duration \in 0 .. Duration /\ Duration # 0
  <2>1. /\ left \in [Threads -> 0 .. Duration] /\ owed \in [Threads -> 0 .. m]
    BY DEF DInv, Paid, m
  <2>2. m \in Nat
    BY Slices DEF m
  <2> QED
    BY <2>1, <2>2, Parameters
<1>8. TimerAfterCall \in Timers /\ Paid(a, left', owed', TimerAfterCall)
  <2> DEFINE tn == TimerAfterCall
  <2>1. tn \in Timers /\ TicksLeft(tn) = Slice /\ TicksLeft(timer) <= TicksLeft(tn)
    BY <1>1, CallResets, TimerIsReset, Parameters
  <2> HIDE DEF tn
  <2>2. Paid(sleepers, left, owed, tn)
    BY <1>1, <2>1, PaidByMore DEF DInv
  <2>3. left' \in [Threads -> 0 .. Duration] /\ owed' \in [Threads -> 0 .. m]
    BY <1>1, <1>2, <1>7
  <2>4. left'[running] = Duration /\ owed'[running] = m /\ m = TicksOf(Duration) + Slice
    BY <1>1, <1>2, <1>7, Slices DEF m
  <2>5. ASSUME NEW t \in Threads, t # running
        PROVE  IF t \in Range(a)
               THEN left'[t] # 0 /\ owed'[t] <= TicksOf(left'[t]) + TicksLeft(tn)
               ELSE owed'[t] = 0
    <3>1. left'[t] = left[t] /\ owed'[t] = owed[t] /\ (t \in Range(a) <=> t \in Range(sleepers))
      BY <1>1, <1>4, <1>7, <2>5
    <3> QED
      BY <2>2, <3>1 DEF Paid
  <2>6. /\ running \in Range(a) /\ left'[running] # 0
        /\ owed'[running] <= TicksOf(left'[running]) + TicksLeft(tn)
    BY <1>4, <1>7, <2>1, <2>4
  <2>7. Paid(a, left', owed', tn)
    BY <2>3, <2>5, <2>6 DEF Paid, m
  <2> QED
    BY <2>1, <2>7 DEF tn
<1>9. InOrder(a, left')
  <2> SUFFICES ASSUME NEW i \in 1 .. n + 1, NEW j \in 1 .. n + 1, i < j
               PROVE  left'[a[i]] <= left'[a[j]]
    BY <1>5 DEF InOrder
  <2>1. \A k \in 1 .. n : left'[a[k]] = left[sleepers[k]] /\ left[sleepers[k]] \in 0 .. Duration
    BY <1>1, <1>3, <1>5, <1>7
  <2>2. i \in 1 .. n
    BY <1>5
  <2>3. CASE j \in 1 .. n
    BY <2>1, <2>2, <2>3 DEF DInv, InOrder, n
  <2>4. CASE j = n + 1
    <3>1. left'[a[j]] = Duration
      BY <1>1, <1>2, <1>5, <1>7, <2>4
    <3> QED
      BY <2>1, <2>2, <3>1, Parameters
  <2> QED
    BY <1>5, <2>3, <2>4
<1>10. /\ Places(ready, sleepers, readers, running)' /\ Paid(sleepers, left, owed, timer)'
       /\ InOrder(sleepers, left)' /\ timer' \in Timers
  BY <1>1, <1>6, <1>8, <1>9
<1>11. Filled(queue)'
  BY <1>1 DEF DInv
<1> QED
  BY <1>1, <1>10, <1>11 DEF DInv

\* The timer is not faster than those who sleep by it.
LEMMA TickKeeps ==
  ASSUME DInv, Tick
  PROVE  DInv'
<1> DEFINE m == Duration * Slice
<1>1. /\ UNCHANGED <<rx, tx, queue, putting, running, ready, sleepers, readers, left, given>>
      /\ owed' = [t \in Threads |-> IF owed[t] = 0 THEN 0 ELSE owed[t] - 1]
      /\ timer \in Timers
      /\ timer' = IF timer.ticks > 1 THEN [timer EXCEPT !.ticks = @ - 1]
                                     ELSE [timer EXCEPT !.ticks = Slice, !.flag = TRUE]
  BY DEF Tick, schedule, DInv
<1>2. /\ timer.ticks \in 1 .. Slice /\ timer.flag \in BOOLEAN /\ Slice \in Nat \ {0}
  BY <1>1, Parameters DEF Timers
<1>3. timer' \in Timers /\ TicksLeft(timer') >= TicksLeft(timer) - 1 /\ TicksLeft(timer') >= 0
      /\ TicksLeft(timer) \in Int /\ TicksLeft(timer') \in Int
  <2>1. CASE timer.ticks > 1
    <3>1. /\ timer' \in Timers /\ timer'.ticks = timer.ticks - 1 /\ timer'.flag = timer.flag
      BY <1>1, <1>2, <2>1 DEF Timers
    <3> QED
      BY <1>2, <2>1, <3>1 DEF TicksLeft
  <2>2. CASE ~(timer.ticks > 1)
    <3>1. timer' = [timer EXCEPT !.ticks = Slice, !.flag = TRUE]
      BY <1>1, <2>2
    <3>2. Slice \in 1 .. Slice
      BY <1>2
    <3>3. timer' \in Timers /\ timer'.flag = TRUE
      BY <1>1, <3>1, <3>2 DEF Timers
    <3> QED
      BY <1>2, <2>2, <3>3 DEF TicksLeft
  <2> QED
    BY <2>1, <2>2
<1>4. m \in Nat /\ owed \in [Threads -> 0 .. m] /\ left \in [Threads -> 0 .. Duration]
  <2>1. m \in Nat
    BY Slices
  <2> QED
    BY <2>1 DEF DInv, Paid
<1> HIDE DEF m
<1>5. Paid(sleepers, left, owed', timer')
  <2>1. owed' \in [Threads -> 0 .. m]
    BY <1>1, <1>4
  <2>2. ASSUME NEW t \in Threads, t \in Range(sleepers)
        PROVE  left[t] # 0 /\ owed'[t] <= TicksOf(left[t]) + TicksLeft(timer')
    <3>1. left[t] # 0 /\ owed[t] <= TicksOf(left[t]) + TicksLeft(timer)
      BY <2>2 DEF DInv, Paid
    <3>2. left[t] \in Nat /\ left[t] - 1 \in Nat /\ owed[t] \in Nat
      BY <1>4, <3>1, Parameters
    <3>3. TicksOf(left[t]) \in Nat
      <4> DEFINE l == left[t] - 1
      <4>1. l \in Nat
        BY <3>2
      <4> HIDE DEF l
      <4>2. l * Slice \in Nat
        BY <1>2, <4>1
      <4> QED
        BY <4>2 DEF TicksOf, l
    <3>4. owed'[t] = IF owed[t] = 0 THEN 0 ELSE owed[t] - 1
      BY <1>1
    <3> QED
      BY <1>3, <3>1, <3>2, <3>3, <3>4
  <2>3. ASSUME NEW t \in Threads, t \notin Range(sleepers) PROVE owed'[t] = 0
    BY <1>1, <2>3 DEF DInv, Paid
  <2> QED
    BY <1>4, <2>1, <2>2, <2>3 DEF Paid, m
<1>6. /\ Paid(sleepers, left, owed, timer)' /\ Places(ready, sleepers, readers, running)'
      /\ InOrder(sleepers, left)' /\ Filled(queue)'
  BY <1>1, <1>5 DEF DInv
<1> QED
  BY <1>1, <1>3, <1>6 DEF DInv

\* What touches neither the threads nor the buffer.
LEMMA OthersKeep ==
  ASSUME DInv, UNCHANGED <<queue, schedule, owed, given>>,
         rx' \in Chars \cup {None}, tx' \in BOOLEAN, putting' \in BOOLEAN,
         timer' \in Timers, TicksLeft(timer) <= TicksLeft(timer')
  PROVE  DInv'
<1>1. Paid(sleepers, left, owed, timer') /\ timer \in Timers
  BY PaidByMore DEF DInv
<1>2. /\ Paid(sleepers, left, owed, timer)' /\ Places(ready, sleepers, readers, running)'
      /\ InOrder(sleepers, left)' /\ Filled(queue)'
  BY <1>1 DEF DInv, schedule
<1> QED
  BY <1>2 DEF DInv, schedule

LEMMA StepDInv == DInv /\ [Next]_vars => DInv'
<1> SUFFICES ASSUME DInv, [Next]_vars PROVE DInv'
  OBVIOUS
<1>1. /\ rx \in Chars \cup {None} /\ tx \in BOOLEAN /\ putting \in BOOLEAN /\ timer \in Timers
      /\ TicksLeft(timer) \in 0 .. Slice /\ Slice \in Nat
  BY TimerIsReset, Parameters DEF DInv
<1>2. /\ TimerAfterCall \in Timers /\ TicksLeft(TimerAfterCall) = Slice
      /\ disable_timer(timer) \in Timers /\ TicksLeft(disable_timer(timer)) = TicksLeft(timer)
  BY <1>1, CallResets, TimerIsReset
<1>3. CASE Tick
  BY <1>3, TickKeeps
<1>4. ASSUME NEW c \in Chars, Receive(c) PROVE DInv'
  <2>1. TicksLeft(timer) <= TicksLeft(timer')
    BY <1>1, <1>4 DEF Receive
  <2> QED
    BY <1>1, <1>4, <2>1, OthersKeep DEF Receive
<1>5. CASE Transmit
  <2>1. TicksLeft(timer) <= TicksLeft(timer')
    BY <1>1, <1>5 DEF Transmit
  <2> QED
    BY <1>1, <1>5, <2>1, OthersKeep DEF Transmit
<1>6. CASE timer_irq
  BY <1>6, TimerIrqKeeps
<1>7. CASE uart_irq
  BY <1>7, UartIrqKeeps
<1>8. CASE exec_syscall_get_char
  BY <1>8, GetCharKeeps
<1>9. CASE exec_syscall_wait
  BY <1>9, WaitKeeps
<1>10. CASE exec_syscall_put_char
  <2>1. timer' \in Timers /\ TicksLeft(timer) <= TicksLeft(timer')
    BY <1>1, <1>2, <1>10 DEF exec_syscall_put_char
  <2> QED
    BY <1>1, <1>10, <2>1, OthersKeep DEF exec_syscall_put_char
<1>11. CASE uart_put_char
  <2>1. timer' \in Timers /\ TicksLeft(timer) <= TicksLeft(timer')
    BY <1>1, <1>2, <1>11 DEF uart_put_char
  <2> QED
    BY <1>1, <1>11, <2>1, OthersKeep DEF uart_put_char
<1>12. CASE UNCHANGED vars
  <2>1. /\ UNCHANGED <<queue, schedule, owed, given, rx, tx, putting, timer>>
        /\ TicksLeft(timer) <= TicksLeft(timer')
    BY <1>1, <1>12 DEF vars
  <2> QED
    BY <1>1, <2>1, OthersKeep
<1> QED
  BY <1>3, <1>4, <1>5, <1>6, <1>7, <1>8, <1>9, <1>10, <1>11, <1>12 DEF Next

\* start_kernel queues every thread once: a list of all that is no longer than
\* there are threads names none of them twice.
LEMMA InitDInv == Init => DInv
<1> SUFFICES ASSUME Init PROVE DInv
  OBVIOUS
<1> DEFINE n == Cardinality(Threads)
<1>1. n \in Nat /\ IsFiniteSet(Threads)
  BY Parameters, FS_CardinalityType
<1>2. ready \in [1 .. n -> Threads] /\ ToSet(ready) = Threads
  BY DEF Init
<1> HIDE DEF n
<1>3. ready \in Seq(Threads) /\ IsInjective(ready)
  <2>1. ready \in Seq(Threads)
    BY <1>1, <1>2, SeqDef, Zenon
  <2>2. ready \in Surjection(1 .. n, Threads)
    BY <1>2 DEF Surjection, ToSet
  <2>3. IsFiniteSet(1 .. n) /\ Cardinality(1 .. n) = n
    BY <1>1, FS_Interval
  <2>4. ready \in Injection(1 .. n, Threads)
    BY <1>1, <2>2, <2>3, FS_Surjection DEF n
  <2> QED
    BY <1>2, <2>1, <2>4 DEF Injection, IsInjective
<1>4. /\ sleepers = <<>> /\ readers = <<>> /\ running = None
      /\ Range(sleepers) = {} /\ Range(readers) = {}
  BY DEF Init, Range
<1>5. Places(ready, sleepers, readers, running)
  <2>1. \A t \in Range(ready) : t \in Threads
    BY <1>3, ElementsOfSeq
  <2> QED
    BY <1>3, <1>4, <2>1, Parameters DEF Places, IsInjective
<1>6. Paid(sleepers, left, owed, timer)
  <2>1. Duration * Slice \in Nat
    BY Slices
  <2>2. left = [t \in Threads |-> 0] /\ owed = [t \in Threads |-> 0]
    BY DEF Init
  <2> QED
    BY <1>4, <2>1, <2>2, Parameters DEF Paid
<1>7. InOrder(sleepers, left)
  BY <1>4 DEF InOrder
<1>8. timer \in Timers
  BY Parameters DEF Init, Timers
<1>9. Filled(queue)
  BY EmptyFilled DEF Init
<1> QED
  BY <1>4, <1>5, <1>6, <1>7, <1>8, <1>9 DEF DInv, Init

LEMMA DevicesInvariant == Spec => []DInv
  BY InitDInv, StepDInv, PTL DEF Spec

-----------------------------------------------------------------------------
(* What follows.                                                            *)

LEMMA LineIsQueue ==
  ASSUME NEW q \in Seq(Threads), IsInjective(q)
  PROVE  q \in Queues
<1> DEFINE l == Len(q)
           n == Cardinality(Threads)
<1>1. l \in Nat /\ q \in [1 .. l -> Threads]
  BY LenProperties
<1>2. IsFiniteSet(Threads) /\ n \in Nat
  BY Parameters, FS_CardinalityType
<1>3. Cardinality(Range(q)) = l /\ Range(q) \subseteq Threads
  BY InjectiveCardinality, ElementsOfSeq
<1>4. l <= n
  BY <1>2, <1>3, FS_Subset
<1> HIDE DEF l, n
<1>5. l \in 0 .. n
  BY <1>1, <1>2, <1>4
<1> QED
  BY <1>1, <1>5 DEF Queues, n

\* The types of the devices, the drivers and the queues of threads: no thread
\* is in a queue twice, no count, head or tail leaves the buffer, and no timer
\* or waiting_duration runs below zero.
THEOREM DeviceTypes == Spec => []TypeOK
<1>1. DInv => TypeOK
  <2> SUFFICES ASSUME DInv PROVE TypeOK
    OBVIOUS
  <2>1. ready \in Queues /\ sleepers \in Queues /\ readers \in Queues
    BY LineIsQueue DEF DInv, Places
  <2>2. running \in Threads \cup {None} /\ queue \in Buffers
    BY DEF DInv, Places, Filled
  <2>3. left \in [Threads -> 0 .. Duration] /\ owed \in [Threads -> 0 .. Duration * Slice]
    BY DEF DInv, Paid
  <2> QED
    BY <2>1, <2>2, <2>3 DEF DInv, TypeOK, Timers
<1> QED
  BY <1>1, DevicesInvariant, PTL

\* wait() sleeps at least the given duration, whatever the length of a slice and
\* however many others sleep, read and write meanwhile.
THEOREM NoSleeperWakesEarly == Spec => []SleepersSleepLongEnough
<1>1. DInv => SleepersSleepLongEnough
  <2> SUFFICES ASSUME DInv, NEW t \in Threads, owed[t] > 0 PROVE t \in ToSet(sleepers)
    BY DEF SleepersSleepLongEnough
  <2>1. t \in Range(sleepers)
    BY DEF DInv, Paid
  <2> QED
    BY <2>1 DEF ToSet, Range
<1> QED
  BY <1>1, DevicesInvariant, PTL

-----------------------------------------------------------------------------
(* getchar() is the stream of characters of module CharStream.              *)

LEMMA KeptOfQueue ==
  /\ DInv => Kept = KeptIn(queue) /\ KeptIn(queue) \in Seq(Chars)
             /\ Len(Kept) = queue.count
             /\ queue.size = UART_INPUT_BUFFER_SIZE
             /\ queue.count \in 0 .. UART_INPUT_BUFFER_SIZE
  /\ queue' \in Buffers => Kept' = KeptIn(queue')
<1>1. DInv => Filled(queue) /\ queue \in Buffers
  BY DEF DInv, Filled
<1>2. queue \in Buffers => Kept = KeptIn(queue)
  BY KeptIsThat DEF Kept
<1>3. queue' \in Buffers => Kept' = KeptIn(queue')
  BY KeptIsThat DEF Kept
<1>4. queue \in Buffers => /\ queue.size = UART_INPUT_BUFFER_SIZE
                           /\ queue.count \in 0 .. UART_INPUT_BUFFER_SIZE
  BY DEF Buffers
<1> QED
  BY <1>1, <1>2, <1>3, <1>4, KeptLength

\* The interrupt: the character comes, to be read, kept or lost.
LEMMA UartIrqComes ==
  ASSUME DInv, uart_irq
  PROVE  \E c \in Chars : Stream!Come(c)
<1>1. /\ rx \in Chars /\ Filled(queue)
      /\ readers # <<>> => queue.count = 0
      /\ UART_INPUT_BUFFER_SIZE \in Nat \ {0}
  BY Parameters DEF uart_irq, DInv
<1>2. /\ Kept = KeptIn(queue) /\ Len(Kept) = queue.count
      /\ KeptIn(queue) \in Seq(Chars)
      /\ queue.size = UART_INPUT_BUFFER_SIZE
      /\ queue.count \in 0 .. UART_INPUT_BUFFER_SIZE
  BY KeptOfQueue
<1> DEFINE q == Buffered(queue, rx)
<1>3. ASSUME BufferFull(queue), UNCHANGED <<queue, readers, ready, given>>
      PROVE  Stream!Come(rx)
  <2>1. readers = <<>> /\ Len(Kept) = UART_INPUT_BUFFER_SIZE
    BY <1>1, <1>2, <1>3 DEF BufferFull
  <2>2. Kept' = Kept
    BY <1>3 DEF Kept
  <2> QED
    BY <1>3, <2>1, <2>2 DEF Stream!Come, Stream!streamVars
<1>4. ASSUME ~BufferFull(queue), readers = <<>>, queue' = q, UNCHANGED <<readers, ready, given>>
      PROVE  Stream!Come(rx)
  <2>1. Filled(q) /\ KeptIn(q) = Append(KeptIn(queue), rx)
    BY <1>1, <1>4, BufferedKept
  <2>2. Kept' = Append(Kept, rx)
    BY <1>2, <1>4, <2>1, KeptOfQueue DEF Filled
  <2>3. Len(Kept) < UART_INPUT_BUFFER_SIZE
    BY <1>1, <1>2, <1>4 DEF BufferFull
  <2> QED
    BY <1>4, <2>2, <2>3 DEF Stream!Come
<1>5. ASSUME ~BufferFull(queue), readers # <<>>, queue' = Popped(q),
             given' = <<Head(readers), uart_peek_char(q)>>, readers' = Tail(readers)
      PROVE  Stream!Come(rx)
  <2>1. Filled(q) /\ KeptIn(q) = Append(KeptIn(queue), rx) /\ q.count = 1
    <3>1. queue.count = 0 /\ queue \in Buffers
      BY <1>1, <1>5 DEF Filled
    <3>2. Filled(q) /\ KeptIn(q) = Append(KeptIn(queue), rx)
      BY <1>1, <1>5, BufferedKept
    <3>3. q.count = queue.count + 1
      BY <1>1, <1>5, <3>1, BufferedRing
    <3> QED
      BY <3>1, <3>2, <3>3
  <2> HIDE DEF q
  <2>2. /\ Filled(Popped(q)) /\ uart_peek_char(q) = Head(KeptIn(q))
        /\ KeptIn(Popped(q)) = Tail(KeptIn(q))
    BY <2>1, PoppedKept
  <2>3. Kept = <<>> /\ KeptIn(q) = <<rx>>
    <3>1. KeptIn(queue) = <<>>
      BY <1>1, <1>2, <1>5, EmptySeq
    <3> QED
      BY <1>2, <2>1, <3>1
  <2>4. uart_peek_char(q) = rx /\ KeptIn(Popped(q)) = <<>>
    BY <2>2, <2>3
  <2>5. Kept' = Kept
    BY <1>5, <2>2, <2>3, <2>4, KeptOfQueue DEF Filled
  <2> QED
    BY <1>5, <2>4, <2>5 DEF Stream!Come
<1>6. Stream!Come(rx)
  BY <1>3, <1>4, <1>5 DEF uart_irq
<1> QED
  BY <1>1, <1>6

\* The call: the running thread reads, or waits for a character.
LEMMA GetCharReads ==
  ASSUME DInv, exec_syscall_get_char
  PROVE  \E t \in Threads : Stream!Read(t)
<1>1. /\ running \in Threads /\ running \notin Range(readers) /\ Filled(queue)
  BY DEF exec_syscall_get_char, CanCall, DInv, Places
<1>2. running \notin Stream!ToSet(readers)
  BY <1>1 DEF Stream!ToSet, Range
<1>3. /\ Kept = KeptIn(queue) /\ Len(Kept) = queue.count /\ KeptIn(queue) \in Seq(Chars)
  BY KeptOfQueue
<1>4. ASSUME queue.count = 0, readers' = Append(readers, running), UNCHANGED <<queue, given>>
      PROVE  Stream!Read(running)
  <2>1. Kept = <<>> /\ Kept' = Kept
    BY <1>3, <1>4, EmptySeq DEF Kept
  <2> QED
    BY <1>2, <1>4, <2>1 DEF Stream!Read
<1>5. ASSUME queue.count # 0, given' = <<running, uart_peek_char(queue)>>,
             queue' = Popped(queue), UNCHANGED <<readers, running, ready>>
      PROVE  Stream!Read(running)
  <2>1. /\ Filled(Popped(queue)) /\ KeptIn(queue) # <<>>
        /\ uart_peek_char(queue) = Head(KeptIn(queue))
        /\ KeptIn(Popped(queue)) = Tail(KeptIn(queue))
    BY <1>1, <1>5, PoppedKept
  <2>2. Kept' = Tail(Kept)
    BY <1>3, <1>5, <2>1, KeptOfQueue DEF Filled
  <2> QED
    BY <1>2, <1>3, <1>5, <2>1, <2>2 DEF Stream!Read
<1> QED
  BY <1>1, <1>4, <1>5 DEF exec_syscall_get_char

LEMMA StepStreams == DInv /\ [Next]_vars => [Stream!Next]_(Stream!streamVars)
<1> SUFFICES ASSUME DInv, [Next]_vars PROVE Stream!Next \/ UNCHANGED Stream!streamVars
  OBVIOUS
<1>1. ASSUME UNCHANGED <<queue, readers, given>> PROVE UNCHANGED Stream!streamVars
  BY <1>1 DEF Stream!streamVars, Kept
<1>2. CASE uart_irq
  BY <1>2, UartIrqComes DEF Stream!Next
<1>3. CASE exec_syscall_get_char
  BY <1>3, GetCharReads DEF Stream!Next
<1>4. CASE ~(uart_irq \/ exec_syscall_get_char)
  <2>1. UNCHANGED <<queue, readers, given>>
    BY <1>4 DEF Next, vars, schedule, Tick, Receive, Transmit, timer_irq, exec_syscall_wait,
                exec_syscall_put_char, uart_put_char
  <2> QED
    BY <1>1, <2>1
<1> QED
  BY <1>2, <1>3, <1>4

\* Whatever the size of the buffer and the number of readers: characters go to
\* readers in the order of both, each one once, and none is lost that has a
\* reader or a free slot.
THEOREM CharactersStream == Spec => ImplementsCharStream
<1>1. Init => Stream!Init
  <2> SUFFICES ASSUME Init PROVE Stream!Init
    OBVIOUS
  <2>1. Kept = <<>>
    BY InitDInv, KeptOfQueue, EmptyFilled DEF Init
  <2> QED
    BY <2>1 DEF Init, Stream!Init
<1> QED
  BY <1>1, StepStreams, DevicesInvariant, PTL DEF Spec, ImplementsCharStream, Stream!Spec
=============================================================================
