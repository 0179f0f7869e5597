--------------------------- MODULE Sequences_proofs ---------------------------
(***************************************************************************)
(* Sequences without a repeated element, and functions on an interval that *)
(* are defined by recursion.  The queues of this kernel hold indices of    *)
(* tables, and that none is in two places at once is what keeps them       *)
(* within their arrays; its loops are functions of how far they have come. *)
(***************************************************************************)
EXTENDS Integers, Sequences, Functions, FiniteSets, SequenceTheorems, FiniteSetTheorems,
        WellFoundedInduction, TLAPS

\* Taking the head away takes it out of the elements.
LEMMA TailOfInjective ==
  ASSUME NEW S, NEW s \in Seq(S), s # <<>>, IsInjective(s)
  PROVE  /\ Head(s) \in S /\ Tail(s) \in Seq(S) /\ IsInjective(Tail(s))
         /\ Range(Tail(s)) = Range(s) \ {Head(s)}
         /\ Head(s) \in Range(s)
<1>1. /\ Head(s) \in S /\ Tail(s) \in Seq(S) /\ Len(Tail(s)) = Len(s) - 1
      /\ \A i \in 1 .. Len(Tail(s)) : Tail(s)[i] = s[i + 1]
  BY HeadTailProperties
<1>2. Len(s) \in Nat \ {0} /\ DOMAIN s = 1 .. Len(s) /\ DOMAIN Tail(s) = 1 .. Len(Tail(s))
  BY <1>1, EmptySeq, LenProperties
<1>3. Head(s) = s[1]
  BY <1>2
<1> DEFINE t == Tail(s)
           h == Head(s)
<1>4. /\ DOMAIN t = 1 .. Len(s) - 1
      /\ \A i \in 1 .. Len(s) - 1 : t[i] = s[i + 1]
      /\ h = s[1]
  BY <1>1, <1>2, <1>3
<1> HIDE DEF t, h
<1>5. IsInjective(t)
  <2> SUFFICES ASSUME NEW i \in 1 .. Len(s) - 1, NEW k \in 1 .. Len(s) - 1, t[i] = t[k]
               PROVE  i = k
    BY <1>4 DEF IsInjective
  <2>1. s[i + 1] = s[k + 1] /\ i + 1 \in DOMAIN s /\ k + 1 \in DOMAIN s
    BY <1>2, <1>4
  <2> QED
    BY <1>2, <2>1 DEF IsInjective
<1>6. ASSUME NEW x \in Range(t) PROVE x \in Range(s) /\ x # h
  <2>1. PICK i \in 1 .. Len(s) - 1 : x = s[i + 1]
    BY <1>4, <1>6 DEF Range
  <2>2. i + 1 \in DOMAIN s /\ 1 \in DOMAIN s /\ i + 1 # 1
    BY <1>2
  <2> QED
    BY <1>4, <2>1, <2>2 DEF Range, IsInjective
<1>7. ASSUME NEW x \in Range(s), x # h PROVE x \in Range(t)
  <2>1. PICK i \in 1 .. Len(s) : x = s[i]
    BY <1>2, <1>7 DEF Range
  <2>2. i # 1
    BY <1>4, <1>7, <2>1
  <2>3. i - 1 \in 1 .. Len(s) - 1 /\ (i - 1) + 1 = i
    BY <1>2, <2>2
  <2>4. x = t[i - 1]
    BY <1>4, <2>1, <2>3
  <2> QED
    BY <1>4, <2>3, <2>4 DEF Range
<1>8. h \in Range(s)
  <2>1. 1 \in DOMAIN s
    BY <1>2
  <2> QED
    BY <1>4, <2>1 DEF Range
<1> QED
  BY <1>1, <1>5, <1>6, <1>7, <1>8 DEF t, h

\* Appending what is not there yet.
LEMMA AppendToInjective ==
  ASSUME NEW S, NEW s \in Seq(S), IsInjective(s), NEW x \in S, x \notin Range(s)
  PROVE  /\ Append(s, x) \in Seq(S) /\ IsInjective(Append(s, x))
         /\ Range(Append(s, x)) = Range(s) \cup {x}
<1> DEFINE t == Append(s, x)
<1>1. /\ t \in Seq(S) /\ Len(t) = Len(s) + 1
      /\ \A i \in 1 .. Len(s) : t[i] = s[i]
      /\ t[Len(s) + 1] = x
  BY AppendProperties
<1> HIDE DEF t
<1>2. Len(s) \in Nat /\ DOMAIN s = 1 .. Len(s) /\ DOMAIN t = 1 .. Len(s) + 1
  BY <1>1, LenProperties
<1>3. IsInjective(t)
  <2> SUFFICES ASSUME NEW i \in 1 .. Len(s) + 1, NEW k \in 1 .. Len(s) + 1, t[i] = t[k]
               PROVE  i = k
    BY <1>2 DEF IsInjective
  <2>1. \A j \in 1 .. Len(s) : t[j] # x
    BY <1>1, <1>2 DEF Range
  <2>2. CASE i \in 1 .. Len(s) /\ k \in 1 .. Len(s)
    BY <1>1, <1>2, <2>2 DEF IsInjective
  <2>3. CASE ~(i \in 1 .. Len(s) /\ k \in 1 .. Len(s))
    BY <1>1, <1>2, <2>1, <2>3
  <2> QED
    BY <2>2, <2>3
<1>4. Range(t) = Range(s) \cup {x}
  <2>1. DOMAIN t = DOMAIN s \cup {Len(s) + 1}
    BY <1>2
  <2> QED
    BY <1>1, <1>2, <2>1 DEF Range
<1> QED
  BY <1>1, <1>3, <1>4 DEF t

\* A sequence without repetitions in 1 .. n is at most n long, and then holds all.
LEMMA InjectiveInInterval ==
  ASSUME NEW n \in Nat, NEW s \in Seq(1 .. n), IsInjective(s)
  PROVE  /\ Len(s) <= n
         /\ Len(s) >= n => Range(s) = 1 .. n
<1> DEFINE S == 1 .. n
           l == Len(s)
<1>1. l \in Nat /\ s \in [1 .. l -> S] /\ DOMAIN s = 1 .. l
  BY LenProperties
<1> HIDE DEF l
<1>2. /\ IsFiniteSet(S) /\ Cardinality(S) = n /\ Cardinality(1 .. l) = l
  <2>1. \A k \in Nat : IsFiniteSet(1 .. k) /\ Cardinality(1 .. k) = k
    BY FS_Interval
  <2> QED
    BY <1>1, <2>1
<1> HIDE DEF S
<1>3. s \in Injection(1 .. l, S)
  BY <1>1 DEF Injection, IsInjective
<1>4. /\ Cardinality(1 .. l) <= Cardinality(S)
      /\ Cardinality(1 .. l) = Cardinality(S) <=> s \in Surjection(1 .. l, S)
  BY <1>2, <1>3, FS_Injection
<1>5. l <= n
  BY <1>2, <1>4
<1>6. ASSUME l >= n PROVE Range(s) = S
  <2>1. s \in Surjection(1 .. l, S)
    BY <1>1, <1>2, <1>4, <1>5, <1>6
  <2> QED
    BY <1>1, <2>1 DEF Surjection, Range
<1> QED
  BY <1>5, <1>6 DEF S, l

\* There is room for one that is not there yet.
LEMMA RoomForAnother ==
  ASSUME NEW n \in Nat, NEW s \in Seq(1 .. n), IsInjective(s),
         NEW x \in 1 .. n, x \notin Range(s)
  PROVE  Len(s) < n
<1>1. Len(s) <= n /\ (Len(s) >= n => x \in Range(s)) /\ Len(s) \in Nat
  BY InjectiveInInterval, LenProperties
<1> QED
  BY <1>1

\* It has as many elements as its length.
LEMMA InjectiveCardinality ==
  ASSUME NEW S, NEW s \in Seq(S), IsInjective(s)
  PROVE  IsFiniteSet(Range(s)) /\ Cardinality(Range(s)) = Len(s)
<1> DEFINE l == Len(s)
           R == Range(s)
<1>1. l \in Nat /\ DOMAIN s = 1 .. l
  BY LenProperties
<1>2. s \in [1 .. l -> R] /\ \A x \in R : \E k \in 1 .. l : s[k] = x
  BY <1>1, LenProperties DEF Range
<1>3. IsFiniteSet(1 .. l) /\ Cardinality(1 .. l) = l
  BY <1>1, FS_Interval
<1> HIDE DEF l, R
<1>4. s \in Surjection(1 .. l, R) /\ s \in Injection(1 .. l, R)
  BY <1>1, <1>2 DEF Surjection, Injection, IsInjective
<1>5. IsFiniteSet(R)
  BY <1>3, <1>4, FS_Surjection
<1>6. Cardinality(1 .. l) = Cardinality(R)
  BY <1>4, <1>5, FS_Injection
<1> QED
  BY <1>3, <1>5, <1>6 DEF l, R

\* Two that share no element, one behind the other.
LEMMA ConcatOfInjective ==
  ASSUME NEW S, NEW s \in Seq(S), NEW t \in Seq(S), IsInjective(s), IsInjective(t),
         \A x \in S : ~(x \in Range(s) /\ x \in Range(t))
  PROVE  /\ s \o t \in Seq(S) /\ IsInjective(s \o t)
         /\ \A x : x \in Range(s \o t) <=> x \in Range(s) \/ x \in Range(t)
<1> DEFINE u == s \o t
           m == Len(s)
           n == Len(t)
<1>1. /\ u \in Seq(S) /\ Len(u) = m + n
      /\ \A i \in 1 .. m + n : u[i] = IF i <= m THEN s[i] ELSE t[i - m]
  BY ConcatProperties
<1>2. m \in Nat /\ n \in Nat /\ DOMAIN s = 1 .. m /\ DOMAIN t = 1 .. n /\ DOMAIN u = 1 .. m + n
  BY <1>1, LenProperties
<1>3. \A x : x \in Range(u) <=> x \in Range(s) \/ x \in Range(t)
  BY RangeConcatenation
<1>4. /\ \A i \in 1 .. m : s[i] \in S /\ s[i] \in Range(s)
      /\ \A i \in 1 .. n : t[i] \in S /\ t[i] \in Range(t)
  BY <1>2, ElementOfSeq DEF Range
<1> HIDE DEF u, m, n
<1>5. IsInjective(u)
  <2> SUFFICES ASSUME NEW i \in 1 .. m + n, NEW k \in 1 .. m + n, u[i] = u[k]
               PROVE  i = k
    BY <1>2 DEF IsInjective
  <2>1. CASE i <= m /\ k <= m
    <3>1. i \in 1 .. m /\ k \in 1 .. m /\ s[i] = s[k]
      BY <1>1, <1>2, <2>1
    <3> QED
      BY <1>2, <3>1 DEF IsInjective
  <2>2. CASE i > m /\ k > m
    <3>1. i - m \in 1 .. n /\ k - m \in 1 .. n /\ t[i - m] = t[k - m]
      BY <1>1, <1>2, <2>2
    <3>2. i - m = k - m
      BY <1>2, <3>1 DEF IsInjective
    <3> QED
      BY <1>2, <3>2
  <2>3. CASE i <= m /\ k > m
    <3>1. i \in 1 .. m /\ k - m \in 1 .. n /\ s[i] = t[k - m]
      BY <1>1, <1>2, <2>3
    <3> QED
      BY <1>4, <3>1
  <2>4. CASE i > m /\ k <= m
    <3>1. k \in 1 .. m /\ i - m \in 1 .. n /\ s[k] = t[i - m]
      BY <1>1, <1>2, <2>4
    <3> QED
      BY <1>4, <3>1
  <2> QED
    BY <1>2, <2>1, <2>2, <2>3, <2>4
<1> QED
  BY <1>1, <1>3, <1>5 DEF u

\* What is behind the n-th element of a sequence.
LEMMA RestOfSeq ==
  ASSUME NEW S, NEW s \in Seq(S), NEW n \in 0 .. Len(s)
  PROVE  /\ SubSeq(s, n + 1, Len(s)) \in Seq(S)
         /\ Len(SubSeq(s, n + 1, Len(s))) = Len(s) - n
         /\ \A i \in 1 .. Len(s) - n : SubSeq(s, n + 1, Len(s))[i] = s[n + i]
<1> DEFINE l == Len(s)
           r == SubSeq(s, n + 1, l)
<1>1. l \in Nat /\ n \in 0 .. l /\ \A k \in 1 .. l : s[k] \in S
  BY ElementOfSeq, LenProperties
<1> HIDE DEF l
<1>2. \A i \in n + 1 .. l : s[i] \in S
  BY <1>1
<1>3. /\ r \in Seq(S) /\ Len(r) = IF n + 1 <= l THEN l - (n + 1) + 1 ELSE 0
      /\ \A i \in 1 .. l - (n + 1) + 1 : r[i] = s[(n + 1) + i - 1]
  BY <1>1, <1>2, SubSeqProperties
<1> HIDE DEF r
<1>4. \A i \in 1 .. l - n : (n + 1) + i - 1 = n + i /\ i \in 1 .. l - (n + 1) + 1
  BY <1>1
<1>5. r \in Seq(S) /\ Len(r) = l - n /\ \A i \in 1 .. l - n : r[i] = s[n + i]
  BY <1>1, <1>3, <1>4
<1> QED
  BY <1>5 DEF r, l

\* Cut in two after its n-th element.
LEMMA SplitOfInjective ==
  ASSUME NEW S, NEW s \in Seq(S), IsInjective(s), NEW n \in 0 .. Len(s)
  PROVE  /\ SubSeq(s, 1, n) \in Seq(S) /\ Len(SubSeq(s, 1, n)) = n
         /\ SubSeq(s, n + 1, Len(s)) \in Seq(S)
         /\ IsInjective(SubSeq(s, 1, n)) /\ IsInjective(SubSeq(s, n + 1, Len(s)))
         /\ \A k \in 1 .. Len(s) : s[k] \in Range(SubSeq(s, 1, n)) <=> k <= n
         /\ \A k \in 1 .. Len(s) : s[k] \in Range(SubSeq(s, n + 1, Len(s))) <=> k > n
         /\ Range(SubSeq(s, 1, n)) \subseteq Range(s)
         /\ Range(SubSeq(s, n + 1, Len(s))) \subseteq Range(s)
<1> DEFINE l == Len(s)
           f == SubSeq(s, 1, n)
           r == SubSeq(s, n + 1, l)
<1>1. l \in Nat /\ DOMAIN s = 1 .. l /\ n \in 0 .. l
  BY LenProperties
<1>2. \A k \in 1 .. l : s[k] \in S
  BY <1>1, ElementOfSeq
<1> HIDE DEF l
<1>3. f \in Seq(S) /\ Len(f) = n /\ \A i \in 1 .. n : f[i] = s[i]
  <2>1. \A i \in 1 .. n : s[i] \in S
    BY <1>1, <1>2
  <2>2. /\ f \in Seq(S) /\ Len(f) = IF 1 <= n THEN n - 1 + 1 ELSE 0
        /\ \A i \in 1 .. n - 1 + 1 : f[i] = s[1 + i - 1]
    BY <1>1, <2>1, SubSeqProperties
  <2> HIDE DEF f
  <2>3. \A i \in 1 .. n : 1 + i - 1 = i /\ i \in 1 .. n - 1 + 1
    BY <1>1
  <2> QED
    BY <1>1, <2>2, <2>3
<1>4. r \in Seq(S) /\ Len(r) = l - n /\ \A i \in 1 .. l - n : r[i] = s[n + i]
  BY <1>1, RestOfSeq DEF l
<1>5. DOMAIN f = 1 .. n /\ DOMAIN r = 1 .. l - n
  BY <1>1, <1>3, <1>4, LenProperties
<1> HIDE DEF f, r
<1>6. IsInjective(f)
  <2> SUFFICES ASSUME NEW i \in 1 .. n, NEW k \in 1 .. n, f[i] = f[k] PROVE i = k
    BY <1>5 DEF IsInjective
  <2>1. s[i] = s[k] /\ i \in DOMAIN s /\ k \in DOMAIN s
    BY <1>1, <1>3
  <2> QED
    BY <2>1 DEF IsInjective
<1>7. IsInjective(r)
  <2> SUFFICES ASSUME NEW i \in 1 .. l - n, NEW k \in 1 .. l - n, r[i] = r[k] PROVE i = k
    BY <1>5 DEF IsInjective
  <2>1. s[n + i] = s[n + k] /\ n + i \in DOMAIN s /\ n + k \in DOMAIN s
    BY <1>1, <1>4
  <2>2. n + i = n + k
    BY <2>1 DEF IsInjective
  <2> QED
    BY <1>1, <2>2
<1>8. ASSUME NEW k \in 1 .. l PROVE s[k] \in Range(f) <=> k <= n
  <2>1. ASSUME k <= n PROVE s[k] \in Range(f)
    <3>1. k \in 1 .. n /\ s[k] = f[k]
      BY <1>1, <1>3, <2>1
    <3> QED
      BY <1>5, <3>1 DEF Range
  <2>2. ASSUME s[k] \in Range(f) PROVE k <= n
    <3>1. PICK i \in 1 .. n : s[k] = s[i]
      BY <1>3, <1>5, <2>2 DEF Range
    <3>2. k \in DOMAIN s /\ i \in DOMAIN s
      BY <1>1
    <3>3. k = i
      BY <3>1, <3>2 DEF IsInjective
    <3> QED
      BY <3>3
  <2> QED
    BY <2>1, <2>2
<1>9. ASSUME NEW k \in 1 .. l PROVE s[k] \in Range(r) <=> k > n
  <2>1. ASSUME k > n PROVE s[k] \in Range(r)
    <3>1. k - n \in 1 .. l - n /\ s[k] = r[k - n]
      BY <1>1, <1>4, <2>1
    <3> QED
      BY <1>5, <3>1 DEF Range
  <2>2. ASSUME s[k] \in Range(r) PROVE k > n
    <3>1. PICK i \in 1 .. l - n : s[k] = s[n + i]
      BY <1>4, <1>5, <2>2 DEF Range
    <3>2. k \in DOMAIN s /\ n + i \in DOMAIN s
      BY <1>1
    <3>3. k = n + i
      BY <3>1, <3>2 DEF IsInjective
    <3> QED
      BY <1>1, <3>3
  <2> QED
    BY <2>1, <2>2
<1>10. Range(f) \subseteq Range(s) /\ Range(r) \subseteq Range(s)
  <2>1. \A i \in 1 .. n : i \in DOMAIN s
    BY <1>1
  <2>2. \A i \in 1 .. l - n : n + i \in DOMAIN s
    BY <1>1
  <2> QED
    BY <1>3, <1>4, <1>5, <2>1, <2>2 DEF Range
<1> QED
  BY <1>3, <1>4, <1>6, <1>7, <1>8, <1>9, <1>10 DEF f, r, l

\* Places of which none is left out are the first ones.
LEMMA FirstPlaces ==
  ASSUME NEW n \in Nat, NEW D, D \subseteq 1 .. n, \A k \in D : 1 .. k \subseteq D
  PROVE  /\ Cardinality(D) \in 0 .. n
         /\ \A k \in 1 .. n : k \in D <=> k <= Cardinality(D)
<1> DEFINE m == Cardinality(D)
<1>1. ASSUME NEW k \in Nat PROVE IsFiniteSet(1 .. k) /\ Cardinality(1 .. k) = k
  BY <1>1, FS_Interval
<1>2. IsFiniteSet(D) /\ m \in Nat /\ m <= n
  <2>1. IsFiniteSet(1 .. n) /\ Cardinality(1 .. n) = n
    BY <1>1
  <2>2. IsFiniteSet(D) /\ Cardinality(D) <= Cardinality(1 .. n)
    BY <2>1, FS_Subset
  <2> QED
    BY <2>1, <2>2, FS_CardinalityType
<1>3. ASSUME NEW k \in D PROVE k <= m
  <2>1. k \in Nat /\ 1 .. k \subseteq D
    OBVIOUS
  <2>2. Cardinality(1 .. k) <= m
    BY <1>2, <2>1, FS_Subset
  <2> QED
    BY <1>1, <2>1, <2>2
<1>4. D = 1 .. m
  <2>1. D \subseteq 1 .. m
    BY <1>2, <1>3
  <2> QED
    BY <1>1, <1>2, <2>1, FS_Subset
<1> HIDE DEF m
<1> QED
  BY <1>2, <1>4 DEF m

\* The elements of a queue after a pop and after a push, one by one.
LEMMA TailElements ==
  ASSUME NEW S, NEW s \in Seq(S), s # <<>>, IsInjective(s)
  PROVE  /\ Head(s) \in S /\ Head(s) \in Range(s)
         /\ Tail(s) \in Seq(S) /\ IsInjective(Tail(s))
         /\ \A x : x \in Range(Tail(s)) <=> x \in Range(s) /\ x # Head(s)
<1> DEFINE h == Head(s)
           t == Tail(s)
<1>1. /\ h \in S /\ t \in Seq(S) /\ IsInjective(t) /\ Range(t) = Range(s) \ {h}
      /\ h \in Range(s)
  BY TailOfInjective
<1> HIDE DEF h, t
<1>2. \A x : x \in Range(t) <=> x \in Range(s) /\ x # h
  BY <1>1
<1> QED
  BY <1>1, <1>2 DEF h, t

LEMMA AppendElements ==
  ASSUME NEW S, NEW s \in Seq(S), IsInjective(s), NEW x \in S, x \notin Range(s)
  PROVE  /\ Append(s, x) \in Seq(S) /\ IsInjective(Append(s, x))
         /\ \A y : y \in Range(Append(s, x)) <=> y \in Range(s) \/ y = x
<1> DEFINE t == Append(s, x)
<1>1. t \in Seq(S) /\ IsInjective(t) /\ Range(t) = Range(s) \cup {x}
  BY AppendToInjective
<1> HIDE DEF t
<1>2. \A y : y \in Range(t) <=> y \in Range(s) \/ y = x
  BY <1>1
<1> QED
  BY <1>1, <1>2 DEF t

\* The elements of a sequence are what is at its places.
LEMMA ElementsOfSeq ==
  ASSUME NEW S, NEW s \in Seq(S)
  PROVE  /\ \A x \in Range(s) : x \in S /\ \E k \in 1 .. Len(s) : x = s[k]
         /\ \A k \in 1 .. Len(s) : s[k] \in S /\ s[k] \in Range(s)
         /\ Len(s) \in Nat /\ DOMAIN s = 1 .. Len(s)
<1>1. Len(s) \in Nat /\ DOMAIN s = 1 .. Len(s)
  BY LenProperties
<1>2. \A k \in 1 .. Len(s) : s[k] \in S
  BY <1>1, ElementOfSeq
<1> QED
  BY <1>1, <1>2 DEF Range

\* SubSeq grows at its end, and shrinks at its beginning.
LEMMA GrownSubSeq ==
  ASSUME NEW S, NEW q \in Seq(S), NEW m \in 0 .. Len(q) - 1
  PROVE  /\ SubSeq(q, 1, m) \in Seq(S)
         /\ SubSeq(q, 1, m + 1) = Append(SubSeq(q, 1, m), q[m + 1])
         /\ SubSeq(q, m + 1, Len(q)) # <<>>
         /\ Head(SubSeq(q, m + 1, Len(q))) = q[m + 1]
         /\ Tail(SubSeq(q, m + 1, Len(q))) = SubSeq(q, (m + 1) + 1, Len(q))
<1> DEFINE l == Len(q)
           a == SubSeq(q, 1, m)
           b == SubSeq(q, 1, m + 1)
           c == Append(a, q[m + 1])
<1>1. l \in Nat /\ m \in Nat /\ m + 1 \in 1 .. l /\ l \in m + 1 .. l
      /\ \A i \in 1 .. l : q[i] \in S
  BY LenProperties, ElementOfSeq
<1>2. /\ a \in Seq(S) /\ Len(a) = IF 1 <= m THEN m - 1 + 1 ELSE 0
      /\ \A i \in 1 .. m - 1 + 1 : a[i] = q[1 + i - 1]
  <2>1. \A i \in 1 .. m : q[i] \in S
    BY <1>1
  <2> QED
    BY <1>1, <2>1, SubSeqProperties
<1>3. /\ b \in Seq(S) /\ Len(b) = IF 1 <= m + 1 THEN (m + 1) - 1 + 1 ELSE 0
      /\ \A i \in 1 .. (m + 1) - 1 + 1 : b[i] = q[1 + i - 1]
  <2>1. \A i \in 1 .. m + 1 : q[i] \in S
    BY <1>1
  <2>2. m + 1 \in Int
    BY <1>1
  <2> QED
    BY <2>1, <2>2, SubSeqProperties
<1> HIDE DEF a, b, l
<1>4. /\ c \in Seq(S) /\ Len(c) = Len(a) + 1
      /\ \A i \in 1 .. Len(a) : c[i] = a[i]
      /\ c[Len(a) + 1] = q[m + 1]
  BY <1>1, <1>2, AppendProperties
<1> HIDE DEF c
<1>5. Len(b) = m + 1 /\ Len(a) = m /\ Len(c) = m + 1
  BY <1>1, <1>2, <1>3, <1>4
<1>6. \A i \in 1 .. Len(b) : b[i] = c[i]
  <2> SUFFICES ASSUME NEW i \in 1 .. m + 1 PROVE b[i] = c[i]
    BY <1>5
  <2>1. b[i] = q[i]
    <3>1. i \in 1 .. (m + 1) - 1 + 1 /\ 1 + i - 1 = i
      BY <1>1
    <3> QED
      BY <1>3, <3>1
  <2>2. CASE i = m + 1
    BY <1>4, <1>5, <2>1, <2>2
  <2>3. CASE i \in 1 .. m
    <3>1. i \in 1 .. m - 1 + 1 /\ 1 + i - 1 = i
      BY <1>1, <2>3
    <3>2. a[i] = q[i]
      BY <1>2, <3>1
    <3> QED
      BY <1>4, <1>5, <2>1, <2>3, <3>2
  <2> QED
    BY <1>1, <2>2, <2>3
<1>7. b = c
  BY <1>3, <1>4, <1>5, <1>6, SeqEqual
<1>8. /\ Head(SubSeq(q, m + 1, l)) = q[m + 1]
      /\ Tail(SubSeq(q, m + 1, l)) = SubSeq(q, (m + 1) + 1, l)
  BY <1>1, HeadTailOfSubSeq DEF l
<1>9. SubSeq(q, m + 1, l) # <<>>
  <2> DEFINE r == SubSeq(q, m + 1, l)
  <2>1. \A i \in m + 1 .. l : q[i] \in S
    BY <1>1
  <2>2. Len(r) = IF m + 1 <= l THEN l - (m + 1) + 1 ELSE 0
    BY <1>1, <2>1, SubSeqProperties
  <2> HIDE DEF r
  <2>3. Len(r) > 0
    BY <1>1, <2>2
  <2>4. Len(<< >>) = 0
    BY EmptySeq
  <2>5. r # <<>>
    BY <2>3, <2>4
  <2> QED
    BY <2>5 DEF r
<1> QED
  BY <1>2, <1>7, <1>8, <1>9 DEF a, b, c, l

\* The ends of a sequence.
LEMMA EmptyPrefix ==
  ASSUME NEW S, NEW q \in Seq(S)
  PROVE  /\ SubSeq(q, 1, 0) = <<>> /\ SubSeq(q, 1, Len(q)) = q
         /\ q \o <<>> = q
<1>1. Len(q) \in Nat /\ (\A i \in 1 .. Len(q) : q[i] \in S) /\ Len(<< >>) = 0
      /\ << >> \in Seq(S)
  BY LenProperties, ElementOfSeq, EmptySeq
<1>2. SubSeq(q, 1, 0) = <<>>
  <2> DEFINE r == SubSeq(q, 1, 0)
  <2>1. r \in Seq(S) /\ Len(r) = IF 1 <= 0 THEN 0 - 1 + 1 ELSE 0
    BY SubSeqProperties
  <2> HIDE DEF r
  <2>2. Len(r) = 0
    BY <2>1
  <2>3. r = << >>
    BY <1>1, <2>1, <2>2, SeqEqual
  <2> QED
    BY <2>3 DEF r
<1>3. SubSeq(q, 1, Len(q)) = q
  <2> DEFINE r == SubSeq(q, 1, Len(q))
  <2>1. /\ r \in Seq(S) /\ Len(r) = IF 1 <= Len(q) THEN Len(q) - 1 + 1 ELSE 0
        /\ \A i \in 1 .. Len(q) - 1 + 1 : r[i] = q[1 + i - 1]
    BY <1>1, SubSeqProperties
  <2> HIDE DEF r
  <2>2. Len(r) = Len(q)
    BY <1>1, <2>1
  <2>3. \A i \in 1 .. Len(r) : r[i] = q[i]
    <3>1. \A i \in 1 .. Len(q) : i \in 1 .. Len(q) - 1 + 1 /\ 1 + i - 1 = i
      BY <1>1
    <3> QED
      BY <2>1, <2>2, <3>1
  <2>4. r = q
    BY <2>1, <2>2, <2>3, SeqEqual
  <2> QED
    BY <2>4 DEF r
<1>4. q \o <<>> = q
  <2> DEFINE r == q \o <<>>
  <2>1. /\ r \in Seq(S) /\ Len(r) = Len(q) + Len(<<>>)
        /\ \A i \in 1 .. Len(q) + Len(<<>>) :
              r[i] = IF i <= Len(q) THEN q[i] ELSE <<>>[i - Len(q)]
    BY <1>1, ConcatProperties
  <2> HIDE DEF r
  <2>2. r = q
    BY <1>1, <2>1, SeqEqual
  <2> QED
    BY <2>2 DEF r
<1> QED
  BY <1>2, <1>3, <1>4

\* Appending to the second of two.
LEMMA ConcatAppend ==
  ASSUME NEW S, NEW q \in Seq(S), NEW w \in Seq(S), NEW t \in S
  PROVE  q \o Append(w, t) = Append(q \o w, t)
<1> DEFINE a == Append(w, t)
           b == q \o w
           l == q \o a
           r == Append(b, t)
<1>1. /\ a \in Seq(S) /\ Len(a) = Len(w) + 1 /\ a[Len(w) + 1] = t
      /\ \A i \in 1 .. Len(w) : a[i] = w[i]
  BY AppendProperties
<1>2. /\ b \in Seq(S) /\ Len(b) = Len(q) + Len(w)
      /\ \A i \in 1 .. Len(q) + Len(w) : b[i] = IF i <= Len(q) THEN q[i] ELSE w[i - Len(q)]
  BY ConcatProperties
<1>3. Len(q) \in Nat /\ Len(w) \in Nat
  BY LenProperties
<1> HIDE DEF a, b
<1>4. /\ l \in Seq(S) /\ Len(l) = Len(q) + Len(a)
      /\ \A i \in 1 .. Len(q) + Len(a) : l[i] = IF i <= Len(q) THEN q[i] ELSE a[i - Len(q)]
  BY <1>1, ConcatProperties
<1>5. /\ r \in Seq(S) /\ Len(r) = Len(b) + 1 /\ r[Len(b) + 1] = t
      /\ \A i \in 1 .. Len(b) : r[i] = b[i]
  BY <1>2, AppendProperties
<1> HIDE DEF l, r
<1>6. Len(l) = Len(r)
  BY <1>1, <1>2, <1>3, <1>4, <1>5
<1>7. \A i \in 1 .. Len(l) : l[i] = r[i]
  <2> SUFFICES ASSUME NEW i \in 1 .. Len(q) + Len(w) + 1 PROVE l[i] = r[i]
    BY <1>1, <1>3, <1>4
  <2>1. CASE i = Len(q) + Len(w) + 1
    <3>1. i - Len(q) = Len(w) + 1 /\ ~(i <= Len(q)) /\ i \in 1 .. Len(q) + Len(a)
      BY <1>1, <1>3, <2>1
    <3>2. l[i] = t
      BY <1>1, <1>4, <3>1
    <3> QED
      BY <1>2, <1>5, <2>1, <3>2
  <2>2. CASE i \in 1 .. Len(q) + Len(w)
    <3>1. i <= Len(q) \/ i - Len(q) \in 1 .. Len(w)
      BY <1>3, <2>2
    <3>2. i \in 1 .. Len(q) + Len(a)
      BY <1>1, <1>3
    <3> QED
      BY <1>1, <1>2, <1>4, <1>5, <2>2, <3>1, <3>2
  <2> QED
    BY <1>3, <2>1, <2>2
<1>8. l = r
  BY <1>4, <1>5, <1>6, <1>7, SeqEqual
<1> QED
  BY <1>8 DEF a, b, l, r

-----------------------------------------------------------------------------
(* Induction.                                                               *)

\* A set of numbers that is not empty has a least one.
LEMMA LeastNumber ==
  ASSUME NEW T \in SUBSET Nat, T # {}
  PROVE  \E m \in T : \A k \in T : m <= k
<1> DEFINE R == OpToRel(<, Nat)
<1>1. IsWellFoundedOn(R, Nat)
  BY NatLessThanWellFounded
<1>2. R = {p \in Nat \X Nat : p[1] < p[2]}
  BY DEF OpToRel
<1> HIDE DEF R
<1>3. PICK m \in T : \A k \in T : <<k, m>> \notin R
  BY <1>1, WFMin
<1>4. ASSUME NEW k \in T PROVE m <= k
  <2>1. k \in Nat /\ m \in Nat /\ <<k, m>> \notin R
    BY <1>3
  <2>2. <<k, m>> \in Nat \X Nat /\ <<k, m>>[1] = k /\ <<k, m>>[2] = m
    BY <2>1
  <2>3. ~(k < m)
    BY <1>2, <2>1, <2>2
  <2> QED
    BY <2>1, <2>3
<1> QED
  BY <1>4

\* What holds at 0 and is handed on from each number to the next holds up to n.
LEMMA UpToInduction ==
  ASSUME NEW n \in Nat, NEW T, 0 \in T,
         \A k \in 0 .. n - 1 : k \in T => k + 1 \in T
  PROVE  \A k \in 0 .. n : k \in T
<1> SUFFICES ASSUME NEW j \in 0 .. n, j \notin T PROVE FALSE
  OBVIOUS
<1> DEFINE U == {k \in 0 .. n : k \notin T}
<1>1. U \in SUBSET Nat /\ U # {}
  OBVIOUS
<1>2. PICK m \in U : \A k \in U : m <= k
  BY <1>1, LeastNumber
<1>3. m \in 0 .. n /\ m \notin T /\ m # 0
  BY <1>2
<1>4. m - 1 \in 0 .. n - 1 /\ (m - 1) + 1 = m
  BY <1>3
<1>5. m - 1 \in T
  BY <1>2, <1>4
<1> QED
  BY <1>3, <1>4, <1>5

\* Counting one place more.
LEMMA CountOneMore ==
  ASSUME NEW T, NEW k \in Nat \ {0}
  PROVE  Cardinality({j \in 1 .. k : j \in T})
             = Cardinality({j \in 1 .. k - 1 : j \in T}) + (IF k \in T THEN 1 ELSE 0)
<1> DEFINE before == {j \in 1 .. k - 1 : j \in T}
           now == {j \in 1 .. k : j \in T}
<1>1. IsFiniteSet(before) /\ Cardinality(before) \in Nat
  <2>1. k - 1 \in Nat /\ before \in SUBSET (1 .. k - 1)
    OBVIOUS
  <2> HIDE DEF before
  <2>2. IsFiniteSet(1 .. k - 1)
    BY <2>1, FS_Interval
  <2> QED
    BY <2>1, <2>2, FS_Subset, FS_CardinalityType
<1>2. k \notin before
  OBVIOUS
<1>3. CASE k \in T
  <2>1. now = before \cup {k}
    BY <1>3
  <2> HIDE DEF now, before
  <2>2. Cardinality(now) = Cardinality(before) + 1
    BY <1>1, <1>2, <2>1, FS_AddElement
  <2> QED
    BY <1>3, <2>2 DEF now, before
<1>4. CASE k \notin T
  <2>1. now = before
    BY <1>4
  <2> HIDE DEF now, before
  <2>2. Cardinality(now) = Cardinality(before) + 0
    BY <1>1, <2>1
  <2> QED
    BY <1>4, <2>2 DEF now, before
<1> QED
  BY <1>3, <1>4

\* Nothing comes of nothing only.
LEMMA EmptyConcat ==
  ASSUME NEW S, NEW s \in Seq(S), NEW t \in Seq(S), s \o t = <<>>
  PROVE  s = <<>>
<1>1. Len(s \o t) = Len(s) + Len(t) /\ Len(s) \in Nat /\ Len(t) \in Nat
  BY ConcatProperties, LenProperties
<1>2. Len(s) = 0
  BY <1>1, EmptySeq
<1> QED
  BY <1>2, EmptySeq
=============================================================================
