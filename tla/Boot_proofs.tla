----------------------------- MODULE Boot_proofs -----------------------------
(***************************************************************************)
(* What holds of booting for every size of the input buffer and for        *)
(* whatever state the processor was reset with.                            *)
(***************************************************************************)
EXTENDS Boot, TLAPS

-----------------------------------------------------------------------------
(* Words.                                                                   *)

LEMMA WordIsShort ==
  ASSUME NEW n
  PROVE  Word(n) \subseteq 0 .. 15
  BY DEF Word

LEMMA WordOfZero == Word(0) = {}
<1>1. /\ (0 \div 2^0) % 2 # 1 /\ (0 \div 2^1) % 2 # 1 /\ (0 \div 2^2) % 2 # 1
      /\ (0 \div 2^3) % 2 # 1 /\ (0 \div 2^4) % 2 # 1 /\ (0 \div 2^5) % 2 # 1
      /\ (0 \div 2^6) % 2 # 1 /\ (0 \div 2^7) % 2 # 1 /\ (0 \div 2^8) % 2 # 1
      /\ (0 \div 2^9) % 2 # 1 /\ (0 \div 2^10) % 2 # 1 /\ (0 \div 2^11) % 2 # 1
      /\ (0 \div 2^12) % 2 # 1 /\ (0 \div 2^13) % 2 # 1 /\ (0 \div 2^14) % 2 # 1
      /\ (0 \div 2^15) % 2 # 1
  BY SMT
<1>2. ASSUME NEW b \in 0 .. 15 PROVE (0 \div 2^b) % 2 # 1
  <2>1. \/ b = 0 \/ b = 1 \/ b = 2 \/ b = 3 \/ b = 4 \/ b = 5 \/ b = 6 \/ b = 7
        \/ b = 8 \/ b = 9 \/ b = 10 \/ b = 11 \/ b = 12 \/ b = 13 \/ b = 14 \/ b = 15
    OBVIOUS
  <2> QED
    BY <1>1, <2>1
<1> QED
  BY <1>2 DEF Word

\* A shifted word lies from the shift on.
LEMMA Shifted ==
  ASSUME NEW w, w \subseteq Int, NEW k \in Nat
  PROVE  /\ \A b \in Int : b \in ShiftedLeft(w, k) <=> b - k \in w /\ b \in Bits
         /\ \A b \in Int : b \in ShiftedRight(w, k) <=> b + k \in w /\ b >= 0
         /\ ShiftedLeft(w, k) \subseteq Bits
<1>1. ASSUME NEW b \in Int PROVE b \in ShiftedLeft(w, k) <=> b - k \in w /\ b \in Bits
  <2>1. \A c \in w : c + k = b <=> c = b - k
    OBVIOUS
  <2>2. b \in ShiftedLeft(w, k) <=> (\E c \in w : b = c + k) /\ b \in Bits
    BY DEF ShiftedLeft
  <2> QED
    BY <2>1, <2>2
<1>2. ASSUME NEW b \in Int PROVE b \in ShiftedRight(w, k) <=> b + k \in w /\ b >= 0
  <2>1. \A c \in w : c - k = b <=> c = b + k
    OBVIOUS
  <2>2. b \in ShiftedRight(w, k) <=> \E c \in w : c >= k /\ b = c - k
    BY DEF ShiftedRight
  <2> QED
    BY <2>1, <2>2
<1>3. ShiftedLeft(w, k) \subseteq Bits
  BY DEF ShiftedLeft
<1> QED
  BY <1>1, <1>2, <1>3

\* Writing bits changes those and no others.
LEMMA BitsSet ==
  ASSUME NEW w \in Words, NEW v, v \subseteq Nat, NEW bit \in Bits, NEW len \in Nat
  PROVE  /\ SetBitTo(w, bit, v, len) \in Words
         /\ \A b \in Bits : b \in SetBitTo(w, bit, v, len)
               <=> IF b \in bit .. bit + len - 1 THEN b - bit \in v ELSE b \in w
<1> DEFINE part == v \cap (0 .. len - 1)
<1>1. part \subseteq Int /\ bit \in Nat
  BY DEF Bits
<1>2. /\ \A b \in Int : b \in ShiftedLeft(part, bit) <=> b - bit \in part /\ b \in Bits
      /\ ShiftedLeft(part, bit) \subseteq Bits
  <2> HIDE DEF part
  <2> QED
    BY <1>1, Shifted
<1>3. SetBitTo(w, bit, v, len) = (w \ (bit .. bit + len - 1)) \cup ShiftedLeft(part, bit)
  BY DEF SetBitTo
<1>4. \A b \in Bits : b \in Int /\ (b - bit \in part <=> b - bit \in v /\ b \in bit .. bit + len - 1)
  BY <1>1 DEF Bits
<1> HIDE DEF part
<1> QED
  BY <1>2, <1>3, <1>4 DEF Words

\* The three bits of a permission, two here and one there.
LEMMA PermissionBits ==
  ASSUME NEW w \in Words, NEW p \in SUBSET {0, 1, 2}, NEW ap_0 \in {4, 10}, NEW ap_2 \in {10, 15},
         ap_0 + 2 <= ap_2
  PROVE  /\ SplitPermission(w, ap_0, ap_2, p) \in Words
         /\ \A b \in Bits : b \in SplitPermission(w, ap_0, ap_2, p)
               <=> IF b \in {ap_0, ap_0 + 1} THEN b - ap_0 \in p
                   ELSE IF b = ap_2 THEN 2 \in p ELSE b \in w
<1> DEFINE first == SetBitTo(w, ap_0, p, 2)
           third == ShiftedRight(p, 2)
           all == SetBitTo(first, ap_2, third, 1)
<1>1. p \subseteq Nat /\ ap_0 \in Bits /\ ap_2 \in Bits
  BY DEF Bits
<1>2. /\ first \in Words
      /\ \A b \in Bits : b \in first
            <=> IF b \in ap_0 .. ap_0 + 2 - 1 THEN b - ap_0 \in p ELSE b \in w
  BY <1>1, BitsSet
<1>3. \A b \in Int : b \in third <=> b + 2 \in p /\ b >= 0
  <2>1. p \subseteq Int
    OBVIOUS
  <2> QED
    BY <2>1, Shifted
<1>4. third \subseteq Nat /\ (0 \in third <=> 2 \in p)
  <2>1. third \subseteq Nat
    BY DEF ShiftedRight
  <2> QED
    BY <1>3, <2>1
<1> HIDE DEF first, third
<1>5. /\ all \in Words
      /\ \A b \in Bits : b \in all
            <=> IF b \in ap_2 .. ap_2 + 1 - 1 THEN b - ap_2 \in third ELSE b \in first
  BY <1>1, <1>2, <1>4, BitsSet
<1>6. SplitPermission(w, ap_0, ap_2, p) = all
  BY DEF SplitPermission, first, third
<1> HIDE DEF all
<1> QED
  BY <1>1, <1>2, <1>4, <1>5, <1>6 DEF Bits

-----------------------------------------------------------------------------
(* Entries.                                                                 *)

\* A section of megabyte mb with the rights of permission p.
LEMMA SectionEntry ==
  ASSUME NEW mb, NEW p \in SUBSET {0, 1, 2}, NEW x \in BOOLEAN, NEW px \in BOOLEAN
  PROVE  LET e == build_l1_1MB_page_entry(mb, p, x, px)
         IN  /\ e \in Words /\ IsSection(e) /\ InDomain0(e)
             /\ SectionRights(e) = RightsOf(p, ~x, ~px)
             /\ e \cap (20 .. 31) = FrameOf(mb)
<1> DEFINE typed == set_page_entry_type({}, OneMbPage)
           based == set_l1_base_address_of_index(typed, mb)
           split == SplitPermission(based, 10, 15, p)
           e == build_l1_1MB_page_entry(mb, p, x, px)
           frame == FrameOf(mb)
<1>1. typed = {1}
  BY DEF set_page_entry_type, SetBit, OneMbPage, Bits
<1>2. frame \subseteq 20 .. 31
  <2> DEFINE w == Word(mb)
  <2>1. w \subseteq 0 .. 15 /\ w \subseteq Int
    BY WordIsShort
  <2>2. frame = ShiftedLeft(w, 20)
    BY DEF FrameOf
  <2> HIDE DEF w, frame
  <2>3. /\ \A b \in Int : b \in ShiftedLeft(w, 20) <=> b - 20 \in w /\ b \in Bits
        /\ ShiftedLeft(w, 20) \subseteq Bits
    BY <2>1, Shifted
  <2> QED
    BY <2>1, <2>2, <2>3 DEF Bits
<1>3. based = {1} \cup frame
  BY <1>1 DEF set_l1_base_address_of_index, FrameOf
<1> HIDE DEF frame, typed, based
<1>4. based \in Words
  BY <1>2, <1>3 DEF Words, Bits
<1>5. /\ split \in Words
      /\ \A b \in Bits : b \in split
            <=> IF b \in {10, 10 + 1} THEN b - 10 \in p
                ELSE IF b = 15 THEN 2 \in p ELSE b \in based
  BY <1>4, PermissionBits
<1>6. e = split \cup (IF x THEN {} ELSE {4}) \cup (IF px THEN {} ELSE {0})
  BY DEF build_l1_1MB_page_entry, set_l1_access_permission, typed, based
<1> HIDE DEF split, e
<1>7. \A b \in Bits : b \in e
            <=> \/ b \in {10, 11} /\ b - 10 \in p
                \/ b = 15 /\ 2 \in p
                \/ b = 1 \/ b \in frame
                \/ b = 4 /\ ~x
                \/ b = 0 /\ ~px
  BY <1>2, <1>3, <1>5, <1>6 DEF Bits
<1>8. e \in Words
  BY <1>5, <1>6 DEF Words, Bits
<1>9. IsSection(e) /\ InDomain0(e) /\ e \cap (20 .. 31) = frame
  <2>1. IsSection(e)
    BY <1>7 DEF IsSection, Bits
  <2>2. InDomain0(e)
    BY <1>2, <1>7 DEF InDomain0, Bits
  <2>3. frame \subseteq Bits /\ e \cap (20 .. 31) \subseteq Bits
    BY <1>2, <1>8 DEF Words, Bits
  <2>4. \A b \in Bits : b \in e \cap (20 .. 31) <=> b \in frame
    BY <1>2, <1>7 DEF Bits
  <2> QED
    BY <2>1, <2>2, <2>3, <2>4
<1>10. (4 \in e <=> ~x) /\ (0 \in e <=> ~px)
  BY <1>2, <1>7 DEF Bits
<1>11. ShiftedRight(e \cap {10, 11}, 10) \cup ShiftedRight(e \cap {15}, 13) = p
  <2> DEFINE low == e \cap {10, 11}
             high == e \cap {15}
  <2>1. low \subseteq Int /\ high \subseteq Int
    OBVIOUS
  <2>2. \A b \in Int : b \in low <=> b \in {10, 11} /\ b - 10 \in p
    BY <1>2, <1>7 DEF Bits
  <2>3. \A b \in Int : b \in high <=> b = 15 /\ 2 \in p
    BY <1>2, <1>7 DEF Bits
  <2>4. ShiftedRight(low, 10) \subseteq Int /\ ShiftedRight(high, 13) \subseteq Int
    BY DEF ShiftedRight
  <2> HIDE DEF low, high
  <2>5. \A b \in Int : b \in ShiftedRight(low, 10) <=> b + 10 \in low /\ b >= 0
    BY <2>1, Shifted
  <2>6. \A b \in Int : b \in ShiftedRight(high, 13) <=> b + 13 \in high /\ b >= 0
    BY <2>1, Shifted
  <2>7. \A b \in Int : b \in ShiftedRight(low, 10) \cup ShiftedRight(high, 13) <=> b \in p
    <3> SUFFICES ASSUME NEW b \in Int
                 PROVE  b \in ShiftedRight(low, 10) \cup ShiftedRight(high, 13) <=> b \in p
      OBVIOUS
    <3>1. b + 10 \in low <=> b \in {0, 1} /\ b \in p
      BY <2>2
    <3>2. b + 13 \in high <=> b = 2 /\ b \in p
      BY <2>3
    <3>3. b \in p => b \in {0, 1, 2}
      OBVIOUS
    <3> QED
      BY <2>5, <2>6, <3>1, <3>2, <3>3
  <2>8. p \subseteq Int
    OBVIOUS
  <2>9. ShiftedRight(low, 10) \cup ShiftedRight(high, 13) = p
    BY <2>4, <2>7, <2>8
  <2> QED
    BY <2>9 DEF low, high
<1>12. SectionRights(e) = RightsOf(p, ~x, ~px)
  BY <1>10, <1>11 DEF SectionRights, RightsOf
<1> QED
  BY <1>8, <1>9, <1>12 DEF e, frame

\* A small page of user memory: what the words in the L2 tables and the TLB are.
UserPage(e) == /\ e \in Words /\ {0, 1, 4, 5} \subseteq e /\ 9 \notin e

LEMMA SmallPageEntry ==
  ASSUME NEW mb, NEW index
  PROVE  LET e == build_l2_4KB_page_entry(mb, index, SysUserFull, FALSE)
         IN  /\ UserPage(e)
             /\ Frame(e) = ShiftedLeft(Word(index), 12) \cup FrameOf(mb)
<1> DEFINE typed == set_page_entry_type({}, SmallPage)
           low == ShiftedLeft(Word(index), 12)
           high == FrameOf(mb)
           based == set_l2_base_address_of_index(mb, index, typed)
           split == SplitPermission(based, 4, 10, SysUserFull)
           e == build_l2_4KB_page_entry(mb, index, SysUserFull, FALSE)
<1>1. typed = {1}
  BY DEF set_page_entry_type, SetBit, SmallPage, OneMbPage, Bits
<1>2. ASSUME NEW n, NEW k \in {12, 20} PROVE ShiftedLeft(Word(n), k) \subseteq 12 .. 31
  <2> DEFINE w == Word(n)
  <2>1. w \subseteq 0 .. 15 /\ w \subseteq Int
    BY WordIsShort
  <2> HIDE DEF w
  <2>2. /\ \A b \in Int : b \in ShiftedLeft(w, k) <=> b - k \in w /\ b \in Bits
        /\ ShiftedLeft(w, k) \subseteq Bits
    BY <2>1, Shifted
  <2>3. ShiftedLeft(w, k) \subseteq 12 .. 31
    BY <2>1, <2>2 DEF Bits
  <2> QED
    BY <2>3 DEF w
<1>3. low \subseteq 12 .. 31 /\ high \subseteq 12 .. 31
  BY <1>2 DEF FrameOf
<1>4. based = {1} \cup low \cup high
  BY <1>1 DEF set_l2_base_address_of_index, FrameOf
<1> HIDE DEF low, high, typed, based
<1>5. based \in Words
  BY <1>3, <1>4 DEF Words, Bits
<1>6. /\ split \in Words
      /\ \A b \in Bits : b \in split
            <=> IF b \in {4, 4 + 1} THEN b - 4 \in SysUserFull
                ELSE IF b = 10 THEN 2 \in SysUserFull ELSE b \in based
  <2>1. SysUserFull \in SUBSET {0, 1, 2}
    BY DEF SysUserFull
  <2> QED
    BY <1>5, <2>1, PermissionBits
<1>7. e = split \cup {0}
  BY DEF build_l2_4KB_page_entry, set_l2_access_permission, typed, based
<1> HIDE DEF split, e
<1>8. \A b \in Bits : b \in e <=> b \in {0, 1, 4, 5} \cup low \cup high
  BY <1>3, <1>4, <1>6, <1>7 DEF Bits, SysUserFull
<1>9. e \in Words
  BY <1>6, <1>7 DEF Words, Bits
<1>10. UserPage(e)
  BY <1>3, <1>8, <1>9 DEF UserPage, Bits
<1>11. Frame(e) = low \cup high
  <2>1. low \cup high \subseteq Bits /\ Frame(e) \subseteq Bits
    BY <1>3, <1>9 DEF Frame, Words, Bits
  <2>2. \A b \in Bits : b \in Frame(e) <=> b \in low \cup high
    BY <1>3, <1>8 DEF Frame, Bits
  <2> QED
    BY <2>1, <2>2
<1> QED
  BY <1>10, <1>11 DEF e, low, high

\* Both sides may read and write such a page and neither may execute it.
LEMMA UserPageRights ==
  ASSUME NEW e, UserPage(e), NEW l
  PROVE  /\ ~IsFault(e) /\ IsSmallPage(e) /\ e \in Words
         /\ PageRights(l, e) = ReadWrite({"system", "user"})
<1> DEFINE low == e \cap {4, 5}
           high == e \cap {9}
<1>1. ~IsFault(e) /\ IsSmallPage(e) /\ e \in Words
  BY DEF UserPage, IsFault, IsSmallPage
<1>2. low = {4, 5} /\ high = {} /\ 0 \in e
  BY DEF UserPage
<1>3. ShiftedRight({4, 5}, 4) \cup ShiftedRight({}, 7) = {0, 1}
  BY DEF ShiftedRight
<1>4. PageRights(l, e) = RightsOf({0, 1}, TRUE, 2 \in l)
  BY <1>2, <1>3 DEF PageRights, RightsOf
<1>5. RightsOf({0, 1}, TRUE, 2 \in l) = ReadWrite({"system", "user"})
  BY DEF RightsOf, Readers, Writers, ReadWrite
<1> QED
  BY <1>1, <1>4, <1>5

\* An entry that points to one of the tables, and what a switch makes of it.
LEMMA PointerEntry ==
  ASSUME NEW table \in Tables, NEW other \in Tables
  PROVE  LET e == build_l1_l2_pointer_entry(table, FALSE)
         IN  /\ e \in Words /\ IsTable(e) /\ TableOf(e) = table /\ InDomain0(e)
             /\ SwitchedEntry(e, other) = build_l1_l2_pointer_entry(other, FALSE)
<1>1. \A t \in Tables : t \subseteq 10 .. 31
  BY DEF Tables, InitTable, NullTable, ProcessTable
<1>2. ASSUME NEW t \in Tables
      PROVE  build_l1_l2_pointer_entry(t, FALSE) = t \cup {0, 2}
  <2> DEFINE set == SetBitTo(t, 0, L2Pointer, 2)
  <2>1. t \in Words /\ L2Pointer \subseteq Nat /\ 0 \in Bits
    BY <1>1 DEF Words, Bits, L2Pointer
  <2>2. /\ set \in Words
        /\ \A b \in Bits : b \in set
              <=> IF b \in 0 .. 0 + 2 - 1 THEN b - 0 \in L2Pointer ELSE b \in t
    BY <2>1, BitsSet
  <2>3. build_l1_l2_pointer_entry(t, FALSE) = set \cup {2}
    BY DEF build_l1_l2_pointer_entry, set_page_entry_type, OneMbPage, SmallPage, L2Pointer
  <2> HIDE DEF set
  <2>4. set = t \cup {0}
    <3>1. t \cup {0} \subseteq Bits /\ set \subseteq Bits
      BY <1>1, <2>2 DEF Bits, Words
    <3>2. \A b \in Bits : b \in set <=> b \in t \cup {0}
      BY <1>1, <2>2 DEF Bits, L2Pointer
    <3> QED
      BY <3>1, <3>2
  <2> QED
    BY <2>3, <2>4
<1> DEFINE e == build_l1_l2_pointer_entry(table, FALSE)
<1>3. e = table \cup {0, 2}
  BY <1>2
<1> HIDE DEF e
<1>4. e \in Words /\ IsTable(e) /\ TableOf(e) = table /\ InDomain0(e)
  BY <1>1, <1>3 DEF Words, Bits, IsTable, TableOf, InDomain0
<1>5. SwitchedEntry(e, other) = other \cup {0, 2}
  BY <1>1, <1>3 DEF SwitchedEntry
<1> QED
  BY <1>2, <1>4, <1>5 DEF e

LEMMA TablesDiffer ==
  /\ InitTable \in Tables /\ NullTable \in Tables /\ ProcessTable \in Tables
  /\ InitTable # NullTable /\ InitTable # ProcessTable /\ NullTable # ProcessTable
<1>1. 10 \in InitTable /\ 10 \notin NullTable /\ 11 \in ProcessTable /\ 11 \notin InitTable
      /\ 10 \in ProcessTable
  BY DEF InitTable, NullTable, ProcessTable
<1> QED
  BY <1>1 DEF Tables

-----------------------------------------------------------------------------
(* The program.                                                             *)

LEMMA ProgramSteps ==
   /\ Program[1] = "init_modes"  /\ Program[2] = "set_vbar"  /\ Program[3] = "init_interrupt_controller"
   /\ Program[4] = "init_uart"  /\ Program[5] = "init_local_timer"  /\ Program[6] = "init_dacr"
   /\ Program[7] = "init_l1"  /\ Program[8] = "enable_mmu"  /\ Program[9] = "copy_udata"
   /\ Program[10] = "init_scheduler"  /\ Program[11] = "register_process"  /\ Program[12] = "init_process_memory"
   /\ Program[13] = "invalidate"  /\ Program[14] = "store"  /\ Program[15] = "copy_in_udata"
   /\ Program[16] = "invalidate"  /\ Program[17] = "store_back"  /\ Program[18] = "init_thread_memory"
   /\ Program[19] = "push_index"  /\ Program[20] = "store_tcb"  /\ Program[21] = "idle"
   /\ Len(Program) = 21
  BY DEF Program

LEMMA StepAt ==
  ASSUME NEW k \in 1 .. 21
  PROVE  /\ Program[k] = "init_modes" <=> k = 1
         /\ Program[k] = "set_vbar" <=> k = 2
         /\ Program[k] = "init_interrupt_controller" <=> k = 3
         /\ Program[k] = "init_uart" <=> k = 4
         /\ Program[k] = "init_local_timer" <=> k = 5
         /\ Program[k] = "init_dacr" <=> k = 6
         /\ Program[k] = "init_l1" <=> k = 7
         /\ Program[k] = "enable_mmu" <=> k = 8
         /\ Program[k] = "copy_udata" <=> k = 9
         /\ Program[k] = "init_scheduler" <=> k = 10
         /\ Program[k] = "register_process" <=> k = 11
         /\ Program[k] = "init_process_memory" <=> k = 12
         /\ Program[k] = "invalidate" <=> k \in {13, 16}
         /\ Program[k] = "store" <=> k = 14
         /\ Program[k] = "copy_in_udata" <=> k = 15
         /\ Program[k] = "store_back" <=> k = 17
         /\ Program[k] = "init_thread_memory" <=> k = 18
         /\ Program[k] = "push_index" <=> k = 19
         /\ Program[k] = "store_tcb" <=> k = 20
         /\ Program[k] = "idle" <=> k = 21
<1>1. \/ k = 1 \/ k = 2 \/ k = 3 \/ k = 4 \/ k = 5 \/ k = 6 \/ k = 7
      \/ k = 8 \/ k = 9 \/ k = 10 \/ k = 11 \/ k = 12 \/ k = 13 \/ k = 14
      \/ k = 15 \/ k = 16 \/ k = 17 \/ k = 18 \/ k = 19 \/ k = 20 \/ k = 21
  OBVIOUS
<1> QED
  BY <1>1, ProgramSteps

LEMMA StepDone ==
  ASSUME NEW k \in 1 .. 21
  PROVE  /\ (\E j \in 1 .. k - 1 : Program[j] = "init_modes") <=> k > 1
         /\ (\E j \in 1 .. k - 1 : Program[j] = "set_vbar") <=> k > 2
         /\ (\E j \in 1 .. k - 1 : Program[j] = "init_uart") <=> k > 4
         /\ (\E j \in 1 .. k - 1 : Program[j] = "enable_mmu") <=> k > 8
<1>1. \A j \in 1 .. k - 1 : j \in 1 .. 21
  OBVIOUS
<1> QED
  BY <1>1, StepAt

-----------------------------------------------------------------------------
(* The invariant.                                                           *)

UserEntry(mb, index) == build_l2_4KB_page_entry(mb, index, SysUserFull, FALSE)

\* What has been done at each position of the program, and what an interrupt
\* may have made of it.
Phases ==
    /\ context = "main" => pc = 21
    /\ ~irqs_masked => pc > 1
    /\ timer # "off" => pc > 5
    /\ rx => pc > 4
    /\ pc > 6 => DomainChecked(dacr)
    /\ running = "none" <=> pc <= 10
    /\ thread_indices_q # <<>> => pc > 19
    /\ stored <=> pc > 20
    /\ context = "lost" => struck \cap {"early tick", "unstored tcb", "wrong state"} # {}

\* The table that user memory is translated with.
CurrentTable ==
    IF context = "main" THEN ProcessTable
    ELSE IF pc <= 14 THEN InitTable ELSE IF pc <= 17 THEN ProcessTable ELSE NullTable

TablesBuilt ==
    /\ pc > 7 => l1 = [mb \in Megabytes |->
                         IF mb = UserMb THEN build_l1_l2_pointer_entry(CurrentTable, FALSE)
                         ELSE InitialEntry(mb)]
    /\ l2_table[InitTable] =
           [v \in Pages |-> IF v = 0 /\ pc > 7 THEN UserEntry(UserMb, 0) ELSE {}]
    /\ l2_table[NullTable] =
           [v \in Pages |-> IF v = 2 /\ pc > 10 THEN UserEntry(UserMb, 1) ELSE {}]
    /\ l2_table[ProcessTable] =
           [v \in Pages |-> IF v = 0 /\ pc > 12 THEN UserEntry(UserMb + 1, 0)
                            ELSE IF v = 4 /\ pc > 18 THEN UserEntry(UserMb + 1, 2) ELSE {}]

\* Only a walk at the wrong moment puts a translation of another table in the TLB.
CacheFollows ==
    /\ tlb \subseteq Pages \X Words
    /\ pc <= 8 => tlb = {}
    /\ \A t \in tlb : UserPage(t[2])
    /\ "refill" \notin struck /\ pc > 7 => tlb \subseteq Walks
    /\ "refill" \notin struck /\ pc \in {14, 17} => tlb = {}
    /\ "refill" \in struck => pc > 13

\* The initial data of the image, its copy, and that of the first process.
DataCopied ==
    /\ ImageData \in data
    /\ pc > 9 => CopiedData \in data
    /\ pc > 15 /\ "refill" \notin struck => ProcessData \in data

IInv == TypeOK /\ Phases /\ TablesBuilt /\ CacheFollows /\ DataCopied

LEMMA TypeParts ==
  ASSUME TypeOK
  PROVE  /\ pc \in 1 .. 21 /\ context \in {"boot", "main", "lost"}
         /\ irqs_masked \in BOOLEAN /\ rx \in BOOLEAN /\ stored \in BOOLEAN
         /\ controller \in Words /\ dacr \in Words /\ data \subseteq Words
         /\ timer \in {"off", "running", "interrupting"}
         /\ buffered \in Nat /\ 0 <= buffered /\ buffered <= UART_INPUT_BUFFER_SIZE
         /\ UART_INPUT_BUFFER_SIZE \in Nat \ {0}
         /\ l1 \in [Megabytes -> Words] /\ l2_table \in [Tables -> [Pages -> Words]]
         /\ running \in {"none", "null", "main"}
         /\ thread_indices_q = <<>> \/ thread_indices_q = <<1>>
<1>1. pc \in 1 .. Len(Program) /\ buffered \in 0 .. UART_INPUT_BUFFER_SIZE
  BY DEF TypeOK
<1>2. UART_INPUT_BUFFER_SIZE \in Nat \ {0}
  BY BootAssumption DEF BootAssumption
<1>3. pc \in 1 .. 21
  BY <1>1, ProgramSteps
<1>4. buffered \in Nat /\ 0 <= buffered /\ buffered <= UART_INPUT_BUFFER_SIZE
  BY <1>1, <1>2
<1> QED
  BY <1>2, <1>3, <1>4 DEF TypeOK

\* What has been checked on the way to a page: that it is the one that the current
\* table has, and that it is either not mapped or a small page.
LEMMA WalkedTable ==
  ASSUME IInv, pc > 7
  PROVE  /\ CurrentTable \in Tables
         /\ l1[UserMb] = build_l1_l2_pointer_entry(CurrentTable, FALSE)
         /\ Walked = l2_table[CurrentTable]
         /\ \A v \in Pages : Walked[v] = {} \/ UserPage(Walked[v])
         /\ \A e \in Walks : e \in Pages \X Words /\ UserPage(e[2]) /\ e[2] = Walked[e[1]]
<1>1. CurrentTable \in Tables
  BY TablesDiffer DEF CurrentTable
<1>2. l1[UserMb] = build_l1_l2_pointer_entry(CurrentTable, FALSE)
  <2>1. UserMb \in Megabytes
    BY DEF Megabytes, UserMb
  <2> QED
    BY <2>1 DEF IInv, TablesBuilt
<1>3. Walked = l2_table[CurrentTable]
  BY <1>1, <1>2, PointerEntry DEF Walked
<1>4. \A mb, index : UserPage(UserEntry(mb, index))
  BY SmallPageEntry DEF UserEntry
<1>5. \A v \in Pages : Walked[v] = {} \/ UserPage(Walked[v])
  BY <1>3, <1>4 DEF CurrentTable, IInv, TablesBuilt
<1>6. \A v \in Pages : ~IsFault(Walked[v]) => UserPage(Walked[v])
  BY <1>5 DEF IsFault
<1>7. \A e \in Walks : e \in Pages \X Words /\ UserPage(e[2]) /\ e[2] = Walked[e[1]]
  BY <1>6 DEF Walks, UserPage
<1> QED
  BY <1>1, <1>2, <1>3, <1>5, <1>7

LEMMA EntriesOfPage ==
  ASSUME IInv, pc > 7, NEW v \in Pages
  PROVE  /\ \A e \in EntriesFor(v) : e = Walked[v] \/ UserPage(e)
         /\ tlb \subseteq Walks => EntriesFor(v) = {Walked[v]}
         /\ Walked[v] # {} => \A e \in EntriesFor(v) : UserPage(e)
<1> DEFINE cached == {t[2] : t \in {u \in tlb : u[1] = v}}
<1>1. EntriesFor(v) = IF cached = {} THEN {Walked[v]} ELSE cached
  BY DEF EntriesFor
<1>2. \A e \in cached : UserPage(e)
  BY DEF IInv, CacheFollows
<1>3. tlb \subseteq Walks => \A e \in cached : e = Walked[v]
  BY WalkedTable
<1>4. Walked[v] = {} \/ UserPage(Walked[v])
  BY WalkedTable
<1> HIDE DEF cached
<1> QED
  BY <1>1, <1>2, <1>3, <1>4

LEMMA InitIInv == Init => IInv
<1> SUFFICES ASSUME Init PROVE IInv
  OBVIOUS
<1>1. TypeOK
  <2>1. {} \in Words /\ Bits \in Words /\ ImageData \in Words
    BY DEF Words, ImageData, FrameOf, ShiftedLeft
  <2>2. 0 \in 0 .. UART_INPUT_BUFFER_SIZE
    BY BootAssumption DEF BootAssumption
  <2>3. l1 \in [Megabytes -> Words] /\ l2_table \in [Tables -> [Pages -> Words]]
    BY <2>1 DEF Init
  <2>4. controller \in Words /\ dacr \in Words /\ data \subseteq Words
    BY <2>1 DEF Init
  <2>5. tlb = {} /\ pc \in 1 .. Len(Program) /\ struck = {}
    BY ProgramSteps DEF Init
  <2> QED
    BY <2>2, <2>3, <2>4, <2>5 DEF Init, TypeOK
<1>2. Phases
  BY DEF Init, Phases
<1>3. TablesBuilt
  <2>1. \A t \in Tables : l2_table[t] = [v \in Pages |-> {}]
    BY DEF Init
  <2> QED
    BY <2>1, TablesDiffer DEF Init, TablesBuilt
<1>4. CacheFollows /\ DataCopied
  BY DEF Init, CacheFollows, DataCopied
<1> QED
  BY <1>1, <1>2, <1>3, <1>4 DEF IInv

-----------------------------------------------------------------------------
(* Steps that leave the tables alone.                                       *)

LEMMA SameTables ==
  ASSUME IInv, UNCHANGED <<l1, l2_table>>, tlb' = tlb \/ tlb' = {}, pc' \in 1 .. 21, pc <= pc',
         "refill" \in struck <=> "refill" \in struck',
         CurrentTable' = CurrentTable,
         pc' > 7 <=> pc > 7, pc' > 10 <=> pc > 10, pc' > 12 <=> pc > 12, pc' > 18 <=> pc > 18,
         pc' \in {14, 17} => pc' = pc \/ tlb' = {}
  PROVE  TablesBuilt' /\ CacheFollows'
<1>1. pc \in 1 .. 21
  BY TypeParts DEF IInv
<1>2. TablesBuilt'
  BY DEF IInv, TablesBuilt
<1>3. Walks' = Walks
  BY DEF Walks, Walked
<1>4. CacheFollows'
  BY <1>1, <1>3 DEF IInv, CacheFollows
<1> QED
  BY <1>2, <1>4

\* The type invariant of what such steps leave alone.
LEMMA SameTypes ==
  ASSUME TypeOK, UNCHANGED <<l1, l2_table>>, tlb' = tlb \/ tlb' = {}
  PROVE  /\ l1' \in [Megabytes -> Words] /\ l2_table' \in [Tables -> [Pages -> Words]]
         /\ \A t \in tlb' : t[1] \in Pages /\ t[2] \in Words /\ ~IsFault(t[2])
         /\ \A t, u \in tlb' : t[1] = u[1] => t = u
  BY DEF TypeOK

\* A statement of the boot code that touches neither tables nor data.
Setup ==
    silent_step \/ _init_modes \/ init_interrupt_controller \/ init_uart \/ init_local_timer
    \/ init_dacr \/ enable_mmu \/ invalidate \/ push_index \/ store_tcb

LEMMA SetupKeeps == IInv /\ Setup => IInv'
<1> SUFFICES ASSUME IInv, Setup PROVE IInv'
  OBVIOUS
<1>1. TypeOK /\ pc \in 1 .. 21
  BY TypeParts DEF IInv
<1>2. \A k \in 1 .. 21 :
        /\ Program[k] = "set_vbar" <=> k = 2
        /\ Program[k] = "register_process" <=> k = 11
        /\ Program[k] = "init_modes" <=> k = 1
        /\ Program[k] = "init_interrupt_controller" <=> k = 3
        /\ Program[k] = "init_uart" <=> k = 4
        /\ Program[k] = "init_local_timer" <=> k = 5
        /\ Program[k] = "init_dacr" <=> k = 6
        /\ Program[k] = "enable_mmu" <=> k = 8
        /\ Program[k] = "invalidate" <=> k \in {13, 16}
        /\ Program[k] = "push_index" <=> k = 19
        /\ Program[k] = "store_tcb" <=> k = 20
  BY StepAt
<1>3. /\ context = "boot" /\ pc' = pc + 1
      /\ \/ pc = 2 /\ silent_step
         \/ pc = 11 /\ silent_step
         \/ pc = 1 /\ _init_modes
         \/ pc = 3 /\ init_interrupt_controller
         \/ pc = 4 /\ init_uart
         \/ pc = 5 /\ init_local_timer
         \/ pc = 6 /\ init_dacr
         \/ pc = 8 /\ enable_mmu
         \/ pc \in {13, 16} /\ invalidate
         \/ pc = 19 /\ push_index
         \/ pc = 20 /\ store_tcb
  BY <1>1, <1>2 DEF Setup, At, silent_step, _init_modes, init_interrupt_controller, init_uart,
     init_local_timer, init_dacr, enable_mmu, invalidate, push_index, store_tcb
<1>4. /\ UNCHANGED <<l1, l2_table, data, running>> /\ (tlb' = tlb \/ tlb' = {})
      /\ pc \in {13, 16} => tlb' = {}
      /\ struck \subseteq struck' /\ struck' \subseteq struck \cup {"masked", "wrong state"}
      /\ context' = context \/ (context' = "lost" /\ "wrong state" \in struck')
  <2> HIDE DEF IInv
  <2>1. CASE pc = 8
    <3>1. enable_mmu
      BY <1>3, <2>1
    <3>2. PICK spsr \in ProcessorStates :
             /\ context' = IF Sound(spsr) THEN context ELSE "lost"
             /\ struck' = struck \cup (IF Sound(spsr) THEN {} ELSE {"wrong state"})
                                \cup (IF spsr.irqs_masked THEN {"masked"} ELSE {})
      BY <3>1 DEF enable_mmu
    <3>3. UNCHANGED <<l1, l2_table, data, running>> /\ tlb' = tlb
      BY <3>1 DEF enable_mmu, tables, threads
    <3>4. struck \subseteq struck' /\ struck' \subseteq struck \cup {"masked", "wrong state"}
      BY <3>2
    <3>5. context' = context \/ (context' = "lost" /\ "wrong state" \in struck')
      BY <3>2
    <3>6. pc \notin {13, 16}
      BY <2>1
    <3> QED
      BY <3>3, <3>4, <3>5, <3>6
  <2>2. CASE pc # 8
    <3>1. context' = context /\ struck' = struck
      BY <1>3, <2>2 DEF silent_step, _init_modes, init_interrupt_controller,
         init_uart, init_local_timer, init_dacr, invalidate, push_index, store_tcb
    <3>2. UNCHANGED <<l1, l2_table, data, running>>
      BY <1>3, <2>2 DEF tables, threads, silent_step, _init_modes, init_interrupt_controller,
         init_uart, init_local_timer, init_dacr, invalidate, push_index, store_tcb
    <3>3. (tlb' = tlb \/ tlb' = {}) /\ (pc \in {13, 16} => tlb' = {})
      BY <1>3, <2>2 DEF tables, silent_step, _init_modes, init_interrupt_controller,
         init_uart, init_local_timer, init_dacr, invalidate, push_index, store_tcb,
         InvalidatedTlb
    <3> QED
      BY <3>1, <3>2, <3>3
  <2> QED
    BY <2>1, <2>2
<1>5. CurrentTable' = CurrentTable
  <2>1. context # "main" /\ context' # "main"
    BY <1>3, <1>4
  <2>2. /\ pc' <= 14 <=> pc <= 14
        /\ pc' <= 17 <=> pc <= 17
    BY <1>1, <1>3
  <2> QED
    BY <2>1, <2>2 DEF CurrentTable
<1>6. TablesBuilt' /\ CacheFollows'
  <2>1. "refill" \in struck <=> "refill" \in struck'
    BY <1>4
  <2>2. /\ pc' \in 1 .. 21 /\ pc <= pc'
        /\ (pc' > 7 <=> pc > 7) /\ (pc' > 10 <=> pc > 10)
        /\ (pc' > 12 <=> pc > 12) /\ (pc' > 18 <=> pc > 18)
        /\ pc' \in {14, 17} => pc \in {13, 16}
    BY <1>1, <1>3
  <2> QED
    BY <1>4, <1>5, <2>1, <2>2, SameTables
<1>7. DataCopied'
  <2>1. /\ pc' > 9 <=> pc > 9
        /\ pc' > 15 <=> pc > 15
    BY <1>1, <1>3
  <2>2. "refill" \in struck <=> "refill" \in struck'
    BY <1>4
  <2> QED
    BY <1>4, <2>1, <2>2 DEF IInv, DataCopied
<1>8. dacr' \in Words /\ (pc = 6 => DomainChecked(dacr')) /\ (pc # 6 => dacr' = dacr)
  <2>1. CASE pc = 6
    <3>1. dacr' = SetBitTo(dacr, 0, {0}, 2)
      BY <1>3, <2>1 DEF init_dacr, get_dacr_init_val, set_dacr_domain_access, ClientAccess
    <3>2. dacr \in Words /\ {0} \subseteq Nat /\ 0 \in Bits
      BY <1>1, TypeParts DEF Bits
    <3>3. /\ dacr' \in Words
          /\ \A b \in Bits : b \in dacr'
                <=> IF b \in 0 .. 0 + 2 - 1 THEN b - 0 \in {0} ELSE b \in dacr
      BY <3>1, <3>2, BitsSet
    <3>4. dacr' \cap {0, 1} = {0}
      BY <3>3 DEF Bits
    <3> QED
      BY <2>1, <3>3, <3>4 DEF DomainChecked, ClientAccess
  <2>2. CASE pc # 6
    <3>1. dacr' = dacr
      BY <1>3, <2>2 DEF devices, tables, threads, silent_step, _init_modes,
         init_interrupt_controller, init_uart, init_local_timer, enable_mmu, invalidate,
         push_index, store_tcb
    <3> QED
      BY <1>1, <2>2, <3>1, TypeParts
  <2> QED
    BY <2>1, <2>2
<1>9. /\ thread_indices_q' = IF pc = 19 THEN <<1>> ELSE thread_indices_q
      /\ stored' = IF pc = 20 THEN TRUE ELSE stored
      /\ timer' = IF pc = 5 THEN "running" ELSE timer
      /\ buffered' \in {buffered, 0} /\ rx' = rx
      /\ irqs_masked' \in BOOLEAN /\ (pc # 1 /\ pc # 8 => irqs_masked' = irqs_masked)
  <2>1. irqs_masked \in BOOLEAN
    BY <1>1, TypeParts
  <2>2. thread_indices_q # <<>> => pc > 19
    BY DEF IInv, Phases
  <2>3. pc = 19 => thread_indices_q = <<>>
    BY <1>1, <2>2
  <2>4. Append(<<>>, 1) = <<1>>
    OBVIOUS
  <2>5. \A state \in ProcessorStates : state.irqs_masked \in BOOLEAN
    BY DEF ProcessorStates
  <2> HIDE DEF IInv
  <2>6. CASE pc = 19
    BY <1>3, <2>1, <2>3, <2>4, <2>6 DEF push_index, devices, tables
  <2>7. CASE pc # 19
    <3>1. thread_indices_q' = thread_indices_q /\ rx' = rx
      BY <1>3, <2>7 DEF TimerStarted, devices, tables, threads,
         silent_step, _init_modes, init_interrupt_controller, init_uart, init_local_timer,
         init_dacr, enable_mmu, invalidate, store_tcb
    <3>2. buffered' \in {buffered, 0}
      BY <1>3, <2>7 DEF TimerStarted, devices, tables, threads,
         silent_step, _init_modes, init_interrupt_controller, init_uart, init_local_timer,
         init_dacr, enable_mmu, invalidate, store_tcb
    <3>3. timer' = IF pc = 5 THEN "running" ELSE timer
      <4>1. CASE pc = 5
        <5>1. init_local_timer
          BY <1>3, <4>1
        <5> QED
          BY <4>1, <5>1 DEF init_local_timer, TimerStarted
      <4>2. CASE pc # 5
        BY <1>3, <2>7, <4>2 DEF devices, tables, threads, silent_step, _init_modes,
           init_interrupt_controller, init_uart, init_dacr, enable_mmu, invalidate, store_tcb
      <4> QED
        BY <4>1, <4>2
    <3>4. irqs_masked' \in BOOLEAN /\ (pc # 1 /\ pc # 8 => irqs_masked' = irqs_masked)
      <4>1. CASE enable_mmu /\ pc = 8
        BY <2>5, <4>1 DEF enable_mmu
      <4>2. CASE pc # 8
        BY <1>3, <2>1, <2>7, <4>2 DEF silent_step, _init_modes, init_interrupt_controller,
           init_uart, init_local_timer, init_dacr, invalidate, store_tcb
      <4> QED
        BY <1>3, <4>1, <4>2
    <3>5. CASE pc = 20
      <4>1. store_tcb
        BY <1>3, <3>5
      <4> QED
        BY <2>7, <3>1, <3>2, <3>3, <3>4, <3>5, <4>1 DEF store_tcb
    <3>6. CASE pc # 20
      <4>1. stored' = stored
        BY <1>3, <2>7, <3>6 DEF TimerStarted, devices, tables, threads,
           silent_step, _init_modes, init_interrupt_controller, init_uart, init_local_timer,
           init_dacr, enable_mmu, invalidate
      <4> QED
        BY <2>7, <3>1, <3>2, <3>3, <3>4, <3>6, <4>1
    <3> QED
      BY <3>5, <3>6
  <2> QED
    BY <2>6, <2>7
<1>10. controller' \in Words
  <2>1. controller' = controller \/ controller' = SetBit(controller, UartIrq)
    BY <1>3 DEF devices, tables, threads, silent_step, _init_modes,
       init_interrupt_controller, init_uart, init_local_timer, init_dacr, enable_mmu, invalidate,
       push_index, store_tcb
  <2> QED
    BY <1>1, <2>1, TypeParts DEF SetBit, Words
<1>11. Phases'
  <2>1. context' = "lost" => struck' \cap {"early tick", "unstored tcb", "wrong state"} # {}
    BY <1>3, <1>4
  <2>2. context' # "main"
    BY <1>3, <1>4
  <2>3. /\ timer' # "off" => pc' > 5
        /\ rx' => pc' > 4
        /\ ~irqs_masked' => pc' > 1
    BY <1>1, <1>3, <1>9 DEF IInv, Phases
  <2>4. /\ pc' > 6 => DomainChecked(dacr')
        /\ running' = "none" <=> pc' <= 10
    <3>1. pc' > 6 => DomainChecked(dacr')
      <4>1. CASE pc = 6
        BY <1>8, <4>1
      <4>2. CASE pc # 6
        <5>1. pc > 6 => DomainChecked(dacr)
          BY DEF IInv, Phases
        <5>2. dacr' = dacr /\ (pc' > 6 => pc > 6)
          BY <1>1, <1>3, <1>8, <4>2
        <5> QED
          BY <5>1, <5>2 DEF DomainChecked
      <4> QED
        BY <4>1, <4>2
    <3>2. pc' <= 10 <=> pc <= 10
      BY <1>1, <1>3
    <3>3. running' = running
      BY <1>4
    <3>4. running = "none" <=> pc <= 10
      BY DEF IInv, Phases
    <3> QED
      BY <3>1, <3>2, <3>3, <3>4
  <2>5. thread_indices_q' # <<>> => pc' > 19
    BY <1>1, <1>3, <1>9 DEF IInv, Phases
  <2>6. stored' <=> pc' > 20
    BY <1>1, <1>3, <1>9 DEF IInv, Phases
  <2> QED
    BY <2>1, <2>2, <2>3, <2>4, <2>5, <2>6 DEF Phases
<1>12. TypeOK'
  <2>1. pc' \in 1 .. Len(Program)
    BY <1>1, <1>3, ProgramSteps
  <2>2. buffered' \in 0 .. UART_INPUT_BUFFER_SIZE
    BY <1>1, <1>9, TypeParts
  <2>3. /\ l1' \in [Megabytes -> Words] /\ l2_table' \in [Tables -> [Pages -> Words]]
        /\ \A t \in tlb' : t[1] \in Pages /\ t[2] \in Words /\ ~IsFault(t[2])
        /\ \A t, u \in tlb' : t[1] = u[1] => t = u
    BY <1>1, <1>4, SameTypes
  <2> QED
    BY <1>1, <1>3, <1>4, <1>8, <1>9, <1>10, <2>1, <2>2, <2>3 DEF TypeOK
<1> QED
  BY <1>6, <1>7, <1>11, <1>12 DEF IInv

\* What an interrupt does without switching to a thread, and what the devices do.
LEMMA DevicesKeep == IInv /\ (uart_irq \/ Tick \/ Receive \/ spin) => IInv'
<1> SUFFICES ASSUME IInv, uart_irq \/ Tick \/ Receive \/ spin PROVE IInv'
  OBVIOUS
<1>1. TypeOK /\ pc \in 1 .. 21
  BY TypeParts DEF IInv
<1>2. UNCHANGED <<pc, context, irqs_masked, controller, tables, data, threads, struck>>
  BY DEF uart_irq, Tick, Receive, spin, vars, tables, threads
<1>3. UNCHANGED <<dacr, l1, l2_table, tlb, running, thread_indices_q, stored>>
  BY <1>2 DEF tables, threads
<1>4. CurrentTable' = CurrentTable
  BY <1>2 DEF CurrentTable
<1>5. TablesBuilt' /\ CacheFollows'
  BY <1>1, <1>2, <1>3, <1>4, SameTables
<1>6. DataCopied'
  BY <1>2 DEF IInv, DataCopied
<1>7. /\ timer' \in {"off", "running", "interrupting"} /\ (timer' # "off" => timer # "off")
      /\ rx' \in BOOLEAN /\ (rx' => rx \/ pc > 4)
      /\ buffered' \in 0 .. UART_INPUT_BUFFER_SIZE
  <2>1. CASE uart_irq
    <3>1. timer' = timer /\ rx' = FALSE /\ buffered' = FilledBuffer(buffered)
      BY <2>1 DEF uart_irq
    <3>2. FilledBuffer(buffered) \in 0 .. UART_INPUT_BUFFER_SIZE
      BY <1>1, TypeParts DEF FilledBuffer
    <3> QED
      BY <1>1, <3>1, <3>2, TypeParts
  <2>2. CASE Tick
    BY <1>1, <2>2 DEF TypeOK, Tick
  <2>3. CASE Receive
    <3>1. pc > 4
      BY <1>1, <2>3, StepDone DEF Receive, Done
    <3> QED
      BY <1>1, <2>3, <3>1 DEF TypeOK, Receive
  <2>4. CASE spin
    BY <1>1, <2>4 DEF TypeOK, spin, vars
  <2> QED
    BY <2>1, <2>2, <2>3, <2>4
<1>8. Phases'
  BY <1>2, <1>3, <1>7 DEF IInv, Phases
<1>9. TypeOK'
  BY <1>1, <1>2, <1>3, <1>7 DEF TypeOK
<1> QED
  BY <1>5, <1>6, <1>8, <1>9 DEF IInv

-----------------------------------------------------------------------------
(* The copies of the initial data.                                          *)

LEMMA FrameOfFirstPage ==
  ASSUME NEW mb
  PROVE  Frame(UserEntry(mb, 0)) = FrameOf(mb)
<1>1. Frame(UserEntry(mb, 0)) = ShiftedLeft(Word(0), 12) \cup FrameOf(mb)
  BY SmallPageEntry DEF UserEntry
<1>2. ShiftedLeft({}, 12) = {}
  BY DEF ShiftedLeft
<1> QED
  BY <1>1, <1>2, WordOfZero

LEMMA CopyKeeps == IInv /\ (copy_udata \/ copy_in_udata) => IInv'
<1> SUFFICES ASSUME IInv, copy_udata \/ copy_in_udata PROVE IInv'
  OBVIOUS
<1>1. TypeOK /\ pc \in 1 .. 21
  BY TypeParts DEF IInv
<1>2. /\ context = "boot" /\ pc' = pc + 1
      /\ (pc = 9 /\ copy_udata) \/ (pc = 15 /\ copy_in_udata)
      /\ pc > 7
  BY <1>1, StepAt DEF At, copy_udata, copy_in_udata
<1>3. UNCHANGED <<irqs_masked, controller, timer, rx, buffered, dacr, l1, l2_table, tlb,
                  running, thread_indices_q, stored, struck>>
  BY <1>2 DEF copy_udata, copy_in_udata, devices, tables, threads
<1>4. PICK e \in EntriesFor(0) :
        \/ pc = 9 /\ Copies(e, Frame(e), CopiedData)
        \/ pc = 15 /\ Copies(e, CopiedData, Frame(e))
  BY <1>2 DEF copy_udata, copy_in_udata
<1>5. 0 \in Pages
  BY DEF Pages
<1>6. pc = 9 => CurrentTable = InitTable
  BY <1>1, <1>2 DEF CurrentTable
<1>7. pc = 15 => CurrentTable = ProcessTable
  BY <1>1, <1>2 DEF CurrentTable
<1>8. Walked[0] = IF pc = 9 THEN UserEntry(UserMb, 0) ELSE UserEntry(UserMb + 1, 0)
  <2>1. Walked = l2_table[CurrentTable]
    BY <1>1, <1>2, WalkedTable
  <2>2. TablesBuilt
    BY DEF IInv
  <2>3. CASE pc = 9
    BY <1>5, <1>6, <2>1, <2>2, <2>3 DEF TablesBuilt
  <2>4. CASE pc = 15
    BY <1>5, <1>7, <2>1, <2>2, <2>4 DEF TablesBuilt
  <2> QED
    BY <1>2, <2>3, <2>4
<1>9. \A mb : UserPage(UserEntry(mb, 0)) /\ UserEntry(mb, 0) # {}
  <2>1. \A mb : UserPage(UserEntry(mb, 0))
    BY SmallPageEntry DEF UserEntry
  <2> QED
    BY <2>1 DEF UserPage
<1>10. UserPage(e)
  BY <1>2, <1>4, <1>5, <1>8, <1>9, EntriesOfPage
<1>11. ~IsFault(e) /\ e \in Words
  BY <1>10 DEF UserPage, IsFault
<1>12. "refill" \notin struck => e = Walked[0]
  <2>1. "refill" \notin struck => tlb \subseteq Walks
    BY <1>2 DEF IInv, CacheFollows
  <2> QED
    BY <1>2, <1>4, <1>5, <2>1, EntriesOfPage
<1>13. pc = 9 => Frame(e) = ImageData
  <2>1. pc = 9 => "refill" \notin struck
    BY DEF IInv, CacheFollows
  <2> QED
    BY <1>8, <1>12, <2>1, FrameOfFirstPage DEF ImageData
<1>14. pc = 15 /\ "refill" \notin struck => Frame(e) = ProcessData
  BY <1>8, <1>12, FrameOfFirstPage DEF ProcessData
<1>15. context' = context
  BY <1>4, <1>11 DEF Copies
<1>16. /\ pc = 9 => data' = data \cup {CopiedData}
       /\ pc = 15 => data' = data \cup {Frame(e)}
  <2>1. ImageData \in data /\ (pc > 9 => CopiedData \in data)
    BY DEF IInv, DataCopied
  <2>2. CASE pc = 9
    BY <1>4, <1>13, <2>1, <2>2 DEF Copies
  <2>3. CASE pc = 15
    BY <1>4, <2>1, <2>3 DEF Copies
  <2> QED
    BY <2>2, <2>3
<1>17. DataCopied'
  <2>1. DataCopied
    BY DEF IInv
  <2>2. CASE pc = 9
    BY <1>2, <1>3, <1>16, <2>1, <2>2 DEF DataCopied
  <2>3. CASE pc = 15
    BY <1>2, <1>3, <1>14, <1>16, <2>1, <2>3 DEF DataCopied
  <2> QED
    BY <1>2, <2>2, <2>3
<1>18. CurrentTable' = CurrentTable
  BY <1>1, <1>2, <1>15 DEF CurrentTable
<1>19. TablesBuilt' /\ CacheFollows'
  <2>1. /\ pc' \in 1 .. 21 /\ pc <= pc' /\ pc' \notin {14, 17}
        /\ (pc' > 7 <=> pc > 7) /\ (pc' > 10 <=> pc > 10)
        /\ (pc' > 12 <=> pc > 12) /\ (pc' > 18 <=> pc > 18)
    BY <1>1, <1>2
  <2> QED
    BY <1>3, <1>18, <2>1, SameTables
<1>20. Phases'
  BY <1>1, <1>2, <1>3, <1>15 DEF IInv, Phases
<1>21. TypeOK'
  <2>1. pc' \in 1 .. Len(Program)
    BY <1>1, <1>2, ProgramSteps
  <2>2. Frame(e) \in Words /\ CopiedData \in Words
    BY <1>11 DEF Frame, Words, CopiedData, FrameOf, ShiftedLeft
  <2>3. data' \subseteq Words
    BY <1>1, <1>2, <1>16, <2>2, TypeParts
  <2>4. UNCHANGED tlb
    BY <1>3
  <2> QED
    BY <1>1, <1>3, <1>15, <2>1, <2>3 DEF TypeOK
<1> QED
  BY <1>17, <1>19, <1>20, <1>21 DEF IInv

-----------------------------------------------------------------------------
(* Steps that write the tables.                                             *)

\* Which entry each megabyte has.
LEMMA EntryKinds ==
  /\ \A mb \in {0, 1} :
        InitialEntry(mb) = build_l1_1MB_page_entry(mb, SysOnlyReadOnly, TRUE, TRUE)
  /\ \A mb \in {2, 3} \cup Devices :
        InitialEntry(mb) = build_l1_1MB_page_entry(mb, SysOnlyFull, FALSE, FALSE)
  /\ InitialEntry(4) = build_l1_1MB_page_entry(4, SysUserReadOnly, TRUE, FALSE)
  /\ InitialEntry(UserMb) = build_l1_l2_pointer_entry(InitTable, FALSE)
  /\ \A mb \in {6, 7} : InitialEntry(mb) = {}
  /\ Megabytes = {0, 1, 4, 6, 7, UserMb} \cup ({2, 3} \cup Devices)
<1>1. ASSUME NEW mb \in {0, 1}
      PROVE  InitialEntry(mb) = build_l1_1MB_page_entry(mb, SysOnlyReadOnly, TRUE, TRUE)
  <2>1. mb \notin {2, 3} \cup Devices /\ mb # 4 /\ mb # UserMb
    BY DEF Devices, UserMb
  <2> QED
    BY <2>1 DEF InitialEntry
<1>2. ASSUME NEW mb \in {2, 3} \cup Devices
      PROVE  InitialEntry(mb) = build_l1_1MB_page_entry(mb, SysOnlyFull, FALSE, FALSE)
  <2>1. mb \notin {0, 1} /\ mb # 4 /\ mb # UserMb
    BY DEF Devices, UserMb
  <2> QED
    BY <2>1 DEF InitialEntry
<1>3. InitialEntry(4) = build_l1_1MB_page_entry(4, SysUserReadOnly, TRUE, FALSE)
  BY DEF InitialEntry, Devices, UserMb
<1>4. InitialEntry(UserMb) = build_l1_l2_pointer_entry(InitTable, FALSE)
  BY DEF InitialEntry, Devices, UserMb
<1>5. ASSUME NEW mb \in {6, 7} PROVE InitialEntry(mb) = {}
  <2>1. mb \notin {0, 1} /\ mb \notin {2, 3} \cup Devices /\ mb # 4 /\ mb # UserMb
    BY DEF Devices, UserMb
  <2> QED
    BY <2>1 DEF InitialEntry
<1>6. Megabytes = {0, 1, 4, 6, 7, UserMb} \cup ({2, 3} \cup Devices)
  BY DEF Megabytes, UserMb
<1> QED
  BY <1>1, <1>2, <1>3, <1>4, <1>5, <1>6

LEMMA InitialEntries ==
  /\ \A mb \in Megabytes : InitialEntry(mb) \in Words
  /\ InitialEntry(UserMb) = build_l1_l2_pointer_entry(InitTable, FALSE)
<1>1. /\ SysOnlyReadOnly \in SUBSET {0, 1, 2} /\ SysOnlyFull \in SUBSET {0, 1, 2}
      /\ SysUserReadOnly \in SUBSET {0, 1, 2}
  BY DEF SysOnlyReadOnly, SysOnlyFull, SysUserReadOnly
<1>2. /\ \A mb : build_l1_1MB_page_entry(mb, SysOnlyReadOnly, TRUE, TRUE) \in Words
      /\ \A mb : build_l1_1MB_page_entry(mb, SysOnlyFull, FALSE, FALSE) \in Words
      /\ \A mb : build_l1_1MB_page_entry(mb, SysUserReadOnly, TRUE, FALSE) \in Words
  BY <1>1, SectionEntry
<1>3. build_l1_l2_pointer_entry(InitTable, FALSE) \in Words /\ {} \in Words
  BY PointerEntry, TablesDiffer DEF Words
<1>4. ASSUME NEW mb \in Megabytes
      PROVE  \/ InitialEntry(mb) = build_l1_1MB_page_entry(mb, SysOnlyReadOnly, TRUE, TRUE)
             \/ InitialEntry(mb) = build_l1_1MB_page_entry(mb, SysOnlyFull, FALSE, FALSE)
             \/ InitialEntry(mb) = build_l1_1MB_page_entry(mb, SysUserReadOnly, TRUE, FALSE)
             \/ InitialEntry(mb) = build_l1_l2_pointer_entry(InitTable, FALSE)
             \/ InitialEntry(mb) = {}
  BY EntryKinds
<1> QED
  BY <1>2, <1>3, <1>4, EntryKinds

LEMMA InitL1Keeps == IInv /\ init_l1 => IInv'
<1> SUFFICES ASSUME IInv, init_l1 PROVE IInv'
  OBVIOUS
<1>1. TypeOK /\ pc \in 1 .. 21
  BY TypeParts DEF IInv
<1>2. /\ context = "boot" /\ pc = 7 /\ pc' = 8
      /\ l1' = [mb \in Megabytes |-> InitialEntry(mb)]
      /\ l2_table' = WithEntry(InitTable, 0, UserMb, 0)
      /\ UNCHANGED <<context, irqs_masked, controller, timer, rx, buffered, dacr, tlb, data,
                     running, thread_indices_q, stored, struck>>
  BY <1>1, StepAt DEF At, init_l1, devices, threads
<1>3. tlb = {}
  BY <1>2 DEF IInv, CacheFollows
<1>4. UserEntry(UserMb, 0) \in Words
  BY SmallPageEntry DEF UserEntry, UserPage
<1>5. l2_table' = [l2_table EXCEPT ![InitTable] = [@ EXCEPT ![0] = UserEntry(UserMb, 0)]]
  BY <1>2 DEF WithEntry, UserEntry
<1>6. 0 \in Pages
  BY DEF Pages
<1>7. l2_table \in [Tables -> [Pages -> Words]]
  BY <1>1, TypeParts
<1>8. l2_table' \in [Tables -> [Pages -> Words]]
  BY <1>4, <1>5, <1>6, <1>7, TablesDiffer
<1>9. TablesBuilt'
  <2>1. TablesBuilt
    BY DEF IInv
  <2>2. l2_table'[NullTable] = l2_table[NullTable] /\ l2_table'[ProcessTable] = l2_table[ProcessTable]
    BY <1>5, <1>7, TablesDiffer
  <2>3. l2_table'[InitTable] = [l2_table[InitTable] EXCEPT ![0] = UserEntry(UserMb, 0)]
    BY <1>5, <1>7, TablesDiffer
  <2>4. l2_table'[InitTable] = [v \in Pages |-> IF v = 0 THEN UserEntry(UserMb, 0) ELSE {}]
    BY <1>2, <1>6, <2>1, <2>3 DEF TablesBuilt
  <2>5. CurrentTable' = InitTable
    BY <1>2 DEF CurrentTable
  <2>6. l1' = [mb \in Megabytes |->
                 IF mb = UserMb THEN build_l1_l2_pointer_entry(InitTable, FALSE)
                 ELSE InitialEntry(mb)]
    BY <1>2, InitialEntries
  <2>7. /\ l2_table[NullTable] = [v \in Pages |-> {}]
        /\ l2_table[ProcessTable] = [v \in Pages |-> {}]
    BY <1>2, <2>1 DEF TablesBuilt
  <2>8. l2_table'[NullTable] = [v \in Pages |-> IF v = 2 /\ pc' > 10 THEN UserEntry(UserMb, 1) ELSE {}]
    BY <1>2, <2>2, <2>7
  <2>9. l2_table'[ProcessTable] =
           [v \in Pages |-> IF v = 0 /\ pc' > 12 THEN UserEntry(UserMb + 1, 0)
                            ELSE IF v = 4 /\ pc' > 18 THEN UserEntry(UserMb + 1, 2) ELSE {}]
    BY <1>2, <2>2, <2>7
  <2>10. l2_table'[InitTable] = [v \in Pages |-> IF v = 0 /\ pc' > 7 THEN UserEntry(UserMb, 0) ELSE {}]
    BY <1>2, <2>4
  <2>11. l1' = [mb \in Megabytes |->
                  IF mb = UserMb THEN build_l1_l2_pointer_entry(CurrentTable', FALSE)
                  ELSE InitialEntry(mb)]
    BY <2>5, <2>6
  <2> QED
    BY <2>8, <2>9, <2>10, <2>11 DEF TablesBuilt
<1>10. CacheFollows'
  BY <1>2, <1>3 DEF IInv, CacheFollows
<1>11. Phases' /\ DataCopied'
  BY <1>2 DEF IInv, Phases, DataCopied
<1>12. TypeOK'
  <2>1. l1' \in [Megabytes -> Words]
    BY <1>2, InitialEntries
  <2>2. pc' \in 1 .. Len(Program)
    BY <1>2, ProgramSteps
  <2> QED
    BY <1>1, <1>2, <1>8, <2>1, <2>2 DEF TypeOK
<1> QED
  BY <1>9, <1>10, <1>11, <1>12 DEF IInv

\* A page is entered in a table that is not the current one.
LEMMA PagesKeep == IInv /\ (init_scheduler \/ init_process_memory \/ init_thread_memory) => IInv'
<1> SUFFICES ASSUME IInv, init_scheduler \/ init_process_memory \/ init_thread_memory PROVE IInv'
  OBVIOUS
<1>1. TypeOK /\ pc \in 1 .. 21
  BY TypeParts DEF IInv
<1>2. /\ context = "boot" /\ pc' = pc + 1 /\ pc > 7
      /\ \/ pc = 10 /\ init_scheduler
         \/ pc = 12 /\ init_process_memory
         \/ pc = 18 /\ init_thread_memory
  BY <1>1, StepAt DEF At, init_scheduler, init_process_memory, init_thread_memory
<1>3. UNCHANGED <<context, irqs_masked, controller, timer, rx, buffered, dacr, l1, tlb, data,
                  thread_indices_q, stored, struck>>
  BY <1>2 DEF init_scheduler, init_process_memory, init_thread_memory, devices, threads
<1>4. running' = IF pc = 10 THEN "null" ELSE running
  BY <1>2 DEF init_scheduler, init_process_memory, init_thread_memory, threads
<1>5. PICK table \in Tables, v \in Pages, mb \in Nat, index \in Nat :
        /\ \/ pc = 10 /\ table = NullTable /\ v = 2 /\ mb = UserMb /\ index = 1
           \/ pc = 12 /\ table = ProcessTable /\ v = 0 /\ mb = UserMb + 1 /\ index = 0
           \/ pc = 18 /\ table = ProcessTable /\ v = 4 /\ mb = UserMb + 1 /\ index = 2
        /\ l2_table' = WithEntry(table, v, mb, index)
  <2>1. /\ 0 \in Pages /\ 2 \in Pages /\ 4 \in Pages /\ 1 * 2 + 1 + 1 = 4 /\ 1 + 1 = 2
        /\ UserMb \in Nat /\ UserMb + 1 \in Nat
    BY DEF Pages, UserMb
  <2>2. CASE pc = 10
    <3>1. l2_table' = WithEntry(NullTable, 2, UserMb, 1)
      BY <1>2, <2>2 DEF init_scheduler
    <3> QED
      BY <2>1, <2>2, <3>1, TablesDiffer
  <2>3. CASE pc = 12
    <3>1. l2_table' = WithEntry(ProcessTable, 0, UserMb + 1, 0)
      BY <1>2, <2>3 DEF init_process_memory
    <3> QED
      BY <2>1, <2>3, <3>1, TablesDiffer
  <2>4. CASE pc = 18
    <3>1. l2_table' = WithEntry(ProcessTable, 4, UserMb + 1, 2)
      BY <1>2, <2>1, <2>4 DEF init_thread_memory
    <3> QED
      BY <2>1, <2>4, <3>1, TablesDiffer
  <2> QED
    BY <1>2, <2>2, <2>3, <2>4
<1> DEFINE e == UserEntry(mb, index)
<1>6. e \in Words
  BY SmallPageEntry DEF UserEntry, UserPage
<1>7. l2_table' = [l2_table EXCEPT ![table] = [@ EXCEPT ![v] = e]]
  BY <1>5 DEF WithEntry, UserEntry
<1>8. l2_table \in [Tables -> [Pages -> Words]] /\ l1 \in [Megabytes -> Words]
  BY <1>1, TypeParts
<1> HIDE DEF e
<1>9. /\ l2_table' \in [Tables -> [Pages -> Words]]
      /\ \A t \in Tables : t # table => l2_table'[t] = l2_table[t]
      /\ l2_table'[table] = [l2_table[table] EXCEPT ![v] = e]
  BY <1>6, <1>7, <1>8
<1>10. CurrentTable' = CurrentTable /\ CurrentTable # table /\ CurrentTable \in Tables
  BY <1>1, <1>2, <1>3, <1>5, TablesDiffer DEF CurrentTable
<1>11. TablesBuilt'
  <2>1. TablesBuilt
    BY DEF IInv
  <2>2. l1' = [m \in Megabytes |->
                 IF m = UserMb THEN build_l1_l2_pointer_entry(CurrentTable', FALSE)
                 ELSE InitialEntry(m)]
    <3>1. l1 = [m \in Megabytes |->
                  IF m = UserMb THEN build_l1_l2_pointer_entry(CurrentTable, FALSE)
                  ELSE InitialEntry(m)]
      BY <1>2, <2>1 DEF TablesBuilt
    <3> QED
      BY <1>3, <1>10, <3>1
  <2>3. CASE pc = 10
    <3>1. l2_table'[InitTable] = l2_table[InitTable] /\ l2_table'[ProcessTable] = l2_table[ProcessTable]
      BY <1>5, <1>9, <2>3, TablesDiffer
    <3>2. l2_table'[NullTable] = [u \in Pages |-> IF u = 2 THEN UserEntry(UserMb, 1) ELSE {}]
      <4>1. l2_table[NullTable] = [u \in Pages |-> {}]
        BY <2>1, <2>3 DEF TablesBuilt
      <4>2. l2_table'[NullTable] = [l2_table[NullTable] EXCEPT ![2] = UserEntry(UserMb, 1)]
        BY <1>5, <1>9, <2>3 DEF e
      <4> QED
        BY <4>1, <4>2
    <3> QED
      BY <1>2, <2>1, <2>2, <2>3, <3>1, <3>2 DEF TablesBuilt
  <2>4. CASE pc = 12
    <3>1. l2_table'[InitTable] = l2_table[InitTable] /\ l2_table'[NullTable] = l2_table[NullTable]
      BY <1>5, <1>9, <2>4, TablesDiffer
    <3>2. l2_table'[ProcessTable] = [u \in Pages |-> IF u = 0 THEN UserEntry(UserMb + 1, 0) ELSE {}]
      <4>1. l2_table[ProcessTable] = [u \in Pages |-> {}]
        BY <2>1, <2>4 DEF TablesBuilt
      <4>2. l2_table'[ProcessTable] = [l2_table[ProcessTable] EXCEPT ![0] = UserEntry(UserMb + 1, 0)]
        BY <1>5, <1>9, <2>4 DEF e
      <4> QED
        BY <4>1, <4>2
    <3> QED
      BY <1>2, <2>1, <2>2, <2>4, <3>1, <3>2 DEF TablesBuilt
  <2>5. CASE pc = 18
    <3>1. l2_table'[InitTable] = l2_table[InitTable] /\ l2_table'[NullTable] = l2_table[NullTable]
      BY <1>5, <1>9, <2>5, TablesDiffer
    <3>2. l2_table'[ProcessTable] =
             [u \in Pages |-> IF u = 0 THEN UserEntry(UserMb + 1, 0)
                              ELSE IF u = 4 THEN UserEntry(UserMb + 1, 2) ELSE {}]
      <4>1. l2_table[ProcessTable] =
               [u \in Pages |-> IF u = 0 THEN UserEntry(UserMb + 1, 0) ELSE {}]
        BY <2>1, <2>5 DEF TablesBuilt
      <4>2. l2_table'[ProcessTable] = [l2_table[ProcessTable] EXCEPT ![4] = UserEntry(UserMb + 1, 2)]
        BY <1>5, <1>9, <2>5 DEF e
      <4> QED
        BY <4>1, <4>2
    <3> QED
      BY <1>2, <2>1, <2>2, <2>5, <3>1, <3>2 DEF TablesBuilt
  <2> QED
    BY <1>2, <2>3, <2>4, <2>5
<1>12. Walks' = Walks
  <2>1. l1[UserMb] = build_l1_l2_pointer_entry(CurrentTable, FALSE) /\ Walked = l2_table[CurrentTable]
    BY <1>1, <1>2, WalkedTable
  <2>2. IsTable(l1[UserMb]) /\ TableOf(l1[UserMb]) = CurrentTable
    BY <1>10, <2>1, PointerEntry
  <2>3. Walked' = l2_table'[CurrentTable]
    BY <1>3, <1>10, <2>2 DEF Walked
  <2>4. Walked' = Walked
    BY <1>9, <1>10, <2>1, <2>3
  <2> QED
    BY <2>4 DEF Walks
<1>13. CacheFollows'
  BY <1>1, <1>2, <1>3, <1>12 DEF IInv, CacheFollows
<1>14. Phases' /\ DataCopied'
  BY <1>1, <1>2, <1>3, <1>4 DEF IInv, Phases, DataCopied
<1>15. TypeOK'
  <2>1. pc' \in 1 .. Len(Program)
    BY <1>1, <1>2, ProgramSteps
  <2>2. running' \in {"none", "null", "main"}
    BY <1>1, <1>4, TypeParts
  <2> QED
    BY <1>1, <1>3, <1>9, <2>1, <2>2 DEF TypeOK
<1> QED
  BY <1>11, <1>13, <1>14, <1>15 DEF IInv

\* The L1 entry of user memory is changed from one table to another.
LEMMA SwitchTypes ==
  ASSUME IInv, pc > 7, NEW table \in Tables,
         l1' = [l1 EXCEPT ![UserMb] = SwitchedEntry(@, table)]
  PROVE  /\ l1' \in [Megabytes -> Words]
         /\ l1' = [mb \in Megabytes |->
                      IF mb = UserMb THEN build_l1_l2_pointer_entry(table, FALSE)
                      ELSE InitialEntry(mb)]
<1>1. l1 = [mb \in Megabytes |->
              IF mb = UserMb THEN build_l1_l2_pointer_entry(CurrentTable, FALSE)
              ELSE InitialEntry(mb)]
  BY DEF IInv, TablesBuilt
<1>2. UserMb \in Megabytes
  BY EntryKinds
<1>3. CurrentTable \in Tables /\ l1[UserMb] = build_l1_l2_pointer_entry(CurrentTable, FALSE)
  BY WalkedTable
<1>4. /\ SwitchedEntry(l1[UserMb], table) = build_l1_l2_pointer_entry(table, FALSE)
      /\ build_l1_l2_pointer_entry(table, FALSE) \in Words
  BY <1>3, PointerEntry
<1>5. l1' = [mb \in Megabytes |->
               IF mb = UserMb THEN build_l1_l2_pointer_entry(table, FALSE)
               ELSE InitialEntry(mb)]
  BY <1>1, <1>2, <1>4
<1>6. l1 \in [Megabytes -> Words]
  BY TypeParts DEF IInv
<1>7. l1' \in [Megabytes -> Words]
  BY <1>2, <1>4, <1>6
<1> QED
  BY <1>5, <1>7

LEMMA StoreKeeps == IInv /\ store => IInv'
<1> SUFFICES ASSUME IInv, store PROVE IInv'
  OBVIOUS
<1>1. TypeOK /\ pc \in 1 .. 21
  BY TypeParts DEF IInv
<1>2. /\ context = "boot" /\ pc' = pc + 1 /\ pc \in {14, 17} /\ pc > 7
      /\ UNCHANGED <<context, irqs_masked, controller, timer, rx, buffered, dacr, l2_table, tlb,
                     data, running, thread_indices_q, stored, struck>>
  BY <1>1, StepAt DEF At, store, devices, threads
<1>3. PICK table \in Tables :
        /\ table = IF pc = 14 THEN ProcessTable ELSE NullTable
        /\ l1' = [l1 EXCEPT ![UserMb] = SwitchedEntry(@, table)]
  <2>1. CASE pc = 14
    <3>1. l1' = [l1 EXCEPT ![UserMb] = SwitchedEntry(@, ProcessTable)]
      BY <1>1, <2>1, StepAt DEF At, store
    <3> QED
      BY <2>1, <3>1, TablesDiffer
  <2>2. CASE pc = 17
    <3>1. l1' = [l1 EXCEPT ![UserMb] = SwitchedEntry(@, NullTable)]
      BY <1>1, <2>2, StepAt DEF At, store
    <3>2. NullTable \in Tables /\ NullTable = IF pc = 14 THEN ProcessTable ELSE NullTable
      BY <2>2, TablesDiffer
    <3> QED
      BY <3>1, <3>2
  <2> QED
    BY <1>2, <2>1, <2>2
<1>4. CurrentTable' = table
  BY <1>1, <1>2, <1>3 DEF CurrentTable
<1>5. /\ l1' \in [Megabytes -> Words]
      /\ l1' = [mb \in Megabytes |->
                   IF mb = UserMb THEN build_l1_l2_pointer_entry(table, FALSE)
                   ELSE InitialEntry(mb)]
  BY <1>2, <1>3, SwitchTypes
<1>6. TablesBuilt'
  <2>1. TablesBuilt
    BY DEF IInv
  <2>2. (pc' > 7 <=> pc > 7) /\ (pc' > 10 <=> pc > 10) /\ (pc' > 12 <=> pc > 12)
        /\ (pc' > 18 <=> pc > 18)
    BY <1>1, <1>2
  <2> QED
    BY <1>2, <1>4, <1>5, <2>1, <2>2 DEF TablesBuilt
<1>7. CacheFollows'
  <2>1. "refill" \notin struck => tlb = {}
    BY <1>2 DEF IInv, CacheFollows
  <2> QED
    BY <1>1, <1>2, <2>1 DEF IInv, CacheFollows
<1>8. Phases' /\ DataCopied'
  BY <1>1, <1>2 DEF IInv, Phases, DataCopied
<1>9. TypeOK'
  <2>1. pc' \in 1 .. Len(Program)
    BY <1>1, <1>2, ProgramSteps
  <2> QED
    BY <1>1, <1>2, <1>5, <2>1 DEF TypeOK
<1> QED
  BY <1>6, <1>7, <1>8, <1>9 DEF IInv

-----------------------------------------------------------------------------
(* The walker and the timer.                                                *)

\* The entries of one table can be in the TLB together.
LEMMA WalksAreSound ==
  ASSUME IInv, pc > 7, NEW c \in SUBSET Walks
  PROVE  /\ c \subseteq Pages \X Words
         /\ \A t \in c : t[1] \in Pages /\ t[2] \in Words /\ ~IsFault(t[2]) /\ UserPage(t[2])
         /\ \A t, u \in c : t[1] = u[1] => t = u
<1>1. \A t \in c : t \in Pages \X Words /\ UserPage(t[2]) /\ t[2] = Walked[t[1]]
  BY WalkedTable
<1>2. \A t \in c : t[1] \in Pages /\ t[2] \in Words /\ t = <<t[1], t[2]>>
  BY <1>1
<1>3. \A t \in c : ~IsFault(t[2])
  BY <1>1 DEF UserPage, IsFault
<1> QED
  BY <1>1, <1>2, <1>3

LEMMA RefillKeeps == IInv /\ Refill => IInv'
<1> SUFFICES ASSUME IInv, Refill PROVE IInv'
  OBVIOUS
<1>1. TypeOK /\ pc \in 1 .. 21
  BY TypeParts DEF IInv
<1>2. pc > 8 /\ pc > 7
  BY <1>1, StepDone DEF Refill, MmuOn, Done
<1>3. PICK walk \in Walks : (\A t \in tlb : t[1] # walk[1]) /\ tlb' = tlb \cup {walk}
  BY DEF Refill
<1>4. /\ context # "lost"
      /\ UNCHANGED <<pc, context, irqs_masked, controller, timer, rx, buffered, dacr, l1,
                     l2_table, data, running, thread_indices_q, stored>>
  BY DEF Refill, devices, threads
<1>5. struck' = IF context = "boot" /\ pc \in {14, 17} THEN struck \cup {"refill"} ELSE struck
  BY <1>1, StepAt DEF Refill
<1>6. walk \in Pages \X Words /\ UserPage(walk[2]) /\ ~IsFault(walk[2])
  <2>1. {walk} \in SUBSET Walks
    OBVIOUS
  <2> QED
    BY <1>2, <2>1, WalksAreSound
<1>7. CurrentTable' = CurrentTable /\ Walks' = Walks
  BY <1>4 DEF CurrentTable, Walks, Walked
<1>8. TablesBuilt'
  BY <1>4, <1>7 DEF IInv, TablesBuilt
<1>9. context = "main" => pc = 21
  BY DEF IInv, Phases
<1>10. CacheFollows'
  <2>1. CacheFollows
    BY DEF IInv
  <2>2. pc \in {14, 17} => "refill" \in struck'
    BY <1>1, <1>4, <1>5, <1>9, TypeParts
  <2>3. "refill" \in struck' => pc > 13
    BY <1>1, <1>5, <2>1 DEF CacheFollows
  <2>4. "refill" \notin struck' => tlb' \subseteq Walks
    BY <1>2, <1>3, <1>5, <2>1 DEF CacheFollows
  <2>5. tlb' \subseteq Pages \X Words /\ \A t \in tlb' : UserPage(t[2])
    BY <1>3, <1>6, <2>1 DEF CacheFollows
  <2>6. ~(pc' <= 8)
    BY <1>1, <1>2, <1>4
  <2> QED
    BY <1>4, <1>7, <2>2, <2>3, <2>4, <2>5, <2>6 DEF CacheFollows
<1>11. Phases' /\ DataCopied'
  BY <1>4, <1>5 DEF IInv, Phases, DataCopied
<1>12. TypeOK'
  <2>1. \A t \in tlb' : t[1] \in Pages /\ t[2] \in Words /\ ~IsFault(t[2])
    BY <1>1, <1>3, <1>6 DEF TypeOK
  <2>2. \A t, u \in tlb' : t[1] = u[1] => t = u
    BY <1>1, <1>3 DEF TypeOK
  <2>3. struck' \subseteq {"early tick", "unstored tcb", "refill", "masked", "wrong state"}
    BY <1>1, <1>5 DEF TypeOK
  <2> QED
    BY <1>1, <1>4, <2>1, <2>2, <2>3 DEF TypeOK
<1> QED
  BY <1>8, <1>10, <1>11, <1>12 DEF IInv

LEMMA TimerKeeps == IInv /\ timer_irq => IInv'
<1> SUFFICES ASSUME IInv, timer_irq PROVE IInv'
  OBVIOUS
<1>1. TypeOK /\ pc \in 1 .. 21
  BY TypeParts DEF IInv
<1>2. /\ UNCHANGED <<pc, irqs_masked, controller, rx, buffered, data, dacr, l2_table, stored>>
      /\ timer = "interrupting" /\ timer' = "running" /\ context # "lost"
  BY DEF timer_irq, Interruptible, tables, threads
<1>3. /\ context = "main" => pc = 21
      /\ stored <=> pc > 20
      /\ thread_indices_q # <<>> => pc > 19
      /\ running = "none" <=> pc <= 10
  BY DEF IInv, Phases
<1>4. \/ /\ running = "none" /\ context' \in {context, "lost"}
         /\ struck' = struck \cup {"early tick"}
         /\ UNCHANGED <<l1, tlb, running, thread_indices_q>>
      \/ UNCHANGED <<context, l1, tlb, running, thread_indices_q, struck>>
      \/ /\ thread_indices_q # <<>> /\ thread_indices_q' = Tail(thread_indices_q)
         /\ running' = "main" /\ stored
         /\ context' = "main" /\ switch_memory(ProcessTable)
      \/ /\ thread_indices_q # <<>> /\ thread_indices_q' = Tail(thread_indices_q)
         /\ running' = "main" /\ ~stored
         /\ context' = "lost" /\ struck' = struck \cup {"unstored tcb"}
         /\ UNCHANGED <<l1, tlb>>
  BY DEF timer_irq, tables, threads
<1>5. thread_indices_q # <<>> => Tail(thread_indices_q) = <<>>
  <2>1. Tail(<<1>>) = <<>>
    OBVIOUS
  <2> QED
    BY <1>1, <2>1, TypeParts
<1>6. DataCopied'
  <2>1. "refill" \notin struck' => "refill" \notin struck
    BY <1>4 DEF switch_memory
  <2> QED
    BY <1>2, <2>1 DEF IInv, DataCopied
<1>7. /\ l2_table' = l2_table /\ pc' \in 1 .. 21 /\ pc <= pc'
       /\ (pc' > 7 <=> pc > 7) /\ (pc' > 10 <=> pc > 10)
       /\ (pc' > 12 <=> pc > 12) /\ (pc' > 18 <=> pc > 18)
       /\ (pc' \in {14, 17} => pc' = pc)
  BY <1>1, <1>2
<1>8. /\ (~irqs_masked' => pc' > 1) /\ (timer' # "off" => pc' > 5) /\ (rx' => pc' > 4)
       /\ (pc' > 6 => DomainChecked(dacr)') /\ (stored' <=> pc' > 20)
  <2>1. Phases
    BY DEF IInv
  <2>2. (~irqs_masked => pc > 1) /\ (timer # "off" => pc > 5) /\ (rx => pc > 4)
        /\ (pc > 6 => DomainChecked(dacr)) /\ (stored <=> pc > 20)
    BY <2>1 DEF Phases
  <2>3. DomainChecked(dacr)' <=> DomainChecked(dacr)
    BY <1>2 DEF DomainChecked
  <2>4. timer # "off"
    BY <1>2
  <2> QED
    BY <1>2, <2>2, <2>3, <2>4
<1>9. CASE /\ running = "none" /\ context' \in {context, "lost"}
           /\ struck' = struck \cup {"early tick"}
           /\ UNCHANGED <<l1, tlb, running, thread_indices_q>>
  <2>1. context # "main" /\ context' # "main"
    <3>1. pc <= 10
      BY <1>3, <1>9
    <3>2. pc # 21
      BY <1>1, <3>1
    <3>3. context # "main"
      BY <1>3, <3>2
    <3> QED
      BY <1>9, <3>3
  <2>2. CurrentTable' = CurrentTable
    BY <1>2, <2>1 DEF CurrentTable
  <2>3. "refill" \in struck <=> "refill" \in struck'
    BY <1>9
  <2>4. TablesBuilt' /\ CacheFollows'
    BY <1>9, <1>7, <2>2, <2>3, SameTables
  <2>5. Phases'
    BY <1>2, <1>9, <2>1 DEF IInv, Phases
  <2>6. TypeOK'
    BY <1>1, <1>2, <1>9 DEF TypeOK
  <2> QED
    BY <1>6, <2>4, <2>5, <2>6 DEF IInv
<1>10. CASE UNCHANGED <<context, l1, tlb, running, thread_indices_q, struck>>
  <2>1. CurrentTable' = CurrentTable
    BY <1>2, <1>10 DEF CurrentTable
  <2>2. TablesBuilt' /\ CacheFollows'
    BY <1>10, <1>7, <2>1, SameTables
  <2>3. Phases'
    BY <1>2, <1>10 DEF IInv, Phases
  <2>4. TypeOK'
    BY <1>1, <1>2, <1>10 DEF TypeOK
  <2> QED
    BY <1>6, <2>2, <2>3, <2>4 DEF IInv
<1>11. CASE /\ thread_indices_q # <<>> /\ thread_indices_q' = Tail(thread_indices_q)
           /\ running' = "main" /\ ~stored
           /\ context' = "lost" /\ struck' = struck \cup {"unstored tcb"}
           /\ UNCHANGED <<l1, tlb>>
  <2>1. context # "main" /\ pc = 20
    <3>1. pc > 19
      BY <1>3, <1>11
    <3>2. ~(pc > 20)
      BY <1>3, <1>11
    <3>3. pc = 20
      BY <1>1, <3>1, <3>2
    <3> QED
      BY <1>3, <3>3
  <2>2. CurrentTable' = CurrentTable
    BY <1>2, <1>11, <2>1 DEF CurrentTable
  <2>3. "refill" \in struck <=> "refill" \in struck'
    BY <1>11
  <2>4. TablesBuilt' /\ CacheFollows'
    BY <1>11, <1>7, <2>2, <2>3, SameTables
  <2>5. Phases'
    <3>1. /\ thread_indices_q' = <<>> /\ running' # "none"
          /\ ~(pc' <= 10)
      <4>1. thread_indices_q' = <<>>
        BY <1>5, <1>11
      <4>2. running' # "none"
        BY <1>11
      <4>3. ~(pc' <= 10)
        BY <1>2, <2>1
      <4> QED
        BY <4>1, <4>2, <4>3
    <3>2. "unstored tcb" \in struck' \cap {"early tick", "unstored tcb", "wrong state"}
      BY <1>11
    <3>3. struck' \cap {"early tick", "unstored tcb", "wrong state"} # {}
      BY <3>2
    <3>4. context' # "main"
      BY <1>11
    <3> QED
      BY <1>8, <3>1, <3>3, <3>4 DEF Phases
  <2>6. TypeOK'
    BY <1>1, <1>2, <1>5, <1>11 DEF TypeOK
  <2> QED
    BY <1>6, <2>4, <2>5, <2>6 DEF IInv
<1>12. CASE /\ thread_indices_q # <<>> /\ thread_indices_q' = Tail(thread_indices_q)
            /\ running' = "main" /\ stored
            /\ context' = "main" /\ switch_memory(ProcessTable)
  <2>1. pc = 21 /\ pc > 7
    BY <1>1, <1>3, <1>12
  <2>2. PICK early \in SUBSET Walks :
          /\ tlb' = early
          /\ l1' = [l1 EXCEPT ![UserMb] = SwitchedEntry(@, ProcessTable)]
          /\ struck' = IF early = {} THEN struck ELSE struck \cup {"refill"}
    BY <1>12 DEF switch_memory, InvalidatedTlb
  <2>3. /\ early \subseteq Pages \X Words
        /\ \A t \in early : t[1] \in Pages /\ t[2] \in Words /\ ~IsFault(t[2]) /\ UserPage(t[2])
        /\ \A t, u \in early : t[1] = u[1] => t = u
    BY <2>1, WalksAreSound
  <2>4. CurrentTable' = ProcessTable
    BY <1>12 DEF CurrentTable
  <2>5. /\ l1' \in [Megabytes -> Words]
        /\ l1' = [mb \in Megabytes |->
                     IF mb = UserMb THEN build_l1_l2_pointer_entry(ProcessTable, FALSE)
                     ELSE InitialEntry(mb)]
    BY <2>1, <2>2, SwitchTypes, TablesDiffer
  <2>6. TablesBuilt'
    <3>1. TablesBuilt
      BY DEF IInv
    <3> QED
      BY <1>2, <2>4, <2>5, <3>1 DEF TablesBuilt
  <2>7. CacheFollows'
    <3>1. "refill" \notin struck' => tlb' = {}
      BY <2>2
    <3> QED
      BY <1>2, <2>1, <2>2, <2>3, <3>1 DEF CacheFollows
  <2>8. Phases'
    <3>1. thread_indices_q' = <<>> /\ running' # "none" /\ ~(pc' <= 10) /\ pc' = 21
      BY <1>2, <1>5, <1>12, <2>1
    <3>2. context' # "lost"
      BY <1>12
    <3> QED
      BY <1>8, <3>1, <3>2 DEF Phases
  <2>9. TypeOK'
    <3>1. struck' \subseteq {"early tick", "unstored tcb", "refill", "masked", "wrong state"}
      BY <1>1, <2>2 DEF TypeOK
    <3>2. /\ \A t \in tlb' : t[1] \in Pages /\ t[2] \in Words /\ ~IsFault(t[2])
          /\ \A t, u \in tlb' : t[1] = u[1] => t = u
      BY <2>2, <2>3
    <3> QED
      BY <1>1, <1>2, <1>5, <1>12, <2>5, <3>1, <3>2 DEF TypeOK
  <2> QED
    BY <1>6, <2>6, <2>7, <2>8, <2>9 DEF IInv
<1> QED
  BY <1>4, <1>9, <1>10, <1>11, <1>12

-----------------------------------------------------------------------------
(* The theorems.                                                            *)

LEMMA StepIInv == IInv /\ [Next]_vars => IInv'
<1> SUFFICES ASSUME IInv, [Next]_vars PROVE IInv'
  OBVIOUS
<1>1. CASE BootCode
  BY <1>1, SetupKeeps, InitL1Keeps, CopyKeeps, PagesKeep, StoreKeeps DEF BootCode, Setup
<1>2. CASE spin \/ uart_irq \/ Tick \/ Receive
  BY <1>2, DevicesKeep
<1>3. CASE timer_irq
  BY <1>3, TimerKeeps
<1>4. CASE Refill
  BY <1>4, RefillKeeps
<1>5. CASE UNCHANGED vars
  <2>1. UNCHANGED <<pc, context, irqs_masked, controller, timer, rx, buffered, dacr, l1,
                    l2_table, tlb, data, running, thread_indices_q, stored, struck>>
    BY <1>5 DEF vars
  <2>2. UNCHANGED CurrentTable /\ UNCHANGED Walks
    BY <2>1 DEF CurrentTable, Walks, Walked
  <2>3. TypeOK'
    BY <2>1 DEF IInv, TypeOK
  <2>4. Phases'
    BY <2>1 DEF IInv, Phases
  <2>5. TablesBuilt'
    BY <2>1, <2>2 DEF IInv, TablesBuilt
  <2>6. CacheFollows' /\ DataCopied'
    BY <2>1, <2>2 DEF IInv, CacheFollows, DataCopied
  <2> QED
    BY <2>3, <2>4, <2>5, <2>6 DEF IInv
<1> QED
  BY <1>1, <1>2, <1>3, <1>4, <1>5 DEF Next

LEMMA InductiveInvariant == Spec => []IInv
  BY InitIInv, StepIInv, PTL DEF Spec

\* What the processor makes of the three kinds of sections.
LEMMA SectionsAsIntended ==
  ASSUME NEW mb
  PROVE  /\ LET e == build_l1_1MB_page_entry(mb, SysOnlyReadOnly, TRUE, TRUE)
            IN  /\ IsSection(e) /\ InDomain0(e) /\ e \cap (20 .. 31) = FrameOf(mb)
                /\ SectionRights(e) = ReadExecute({"system"})
         /\ LET e == build_l1_1MB_page_entry(mb, SysOnlyFull, FALSE, FALSE)
            IN  /\ IsSection(e) /\ InDomain0(e) /\ e \cap (20 .. 31) = FrameOf(mb)
                /\ SectionRights(e) = ReadWrite({"system"})
         /\ LET e == build_l1_1MB_page_entry(mb, SysUserReadOnly, TRUE, FALSE)
            IN  /\ IsSection(e) /\ InDomain0(e) /\ e \cap (20 .. 31) = FrameOf(mb)
                /\ SectionRights(e) = ReadExecute({"user"}) \cup {<<"system", "read">>}
<1>1. /\ SysOnlyReadOnly \in SUBSET {0, 1, 2} /\ SysOnlyFull \in SUBSET {0, 1, 2}
      /\ SysUserReadOnly \in SUBSET {0, 1, 2}
  BY DEF SysOnlyReadOnly, SysOnlyFull, SysUserReadOnly
<1>2. RightsOf(SysOnlyReadOnly, ~TRUE, ~TRUE) = ReadExecute({"system"})
  BY DEF RightsOf, Readers, Writers, SysOnlyReadOnly, ReadExecute
<1>3. RightsOf(SysOnlyFull, ~FALSE, ~FALSE) = ReadWrite({"system"})
  BY DEF RightsOf, Readers, Writers, SysOnlyFull, ReadWrite
<1>4. RightsOf(SysUserReadOnly, ~TRUE, ~FALSE) = ReadExecute({"user"}) \cup {<<"system", "read">>}
  BY DEF RightsOf, Readers, Writers, SysUserReadOnly, ReadExecute
<1>5. LET e == build_l1_1MB_page_entry(mb, SysOnlyReadOnly, TRUE, TRUE)
      IN  /\ IsSection(e) /\ InDomain0(e) /\ e \cap (20 .. 31) = FrameOf(mb)
          /\ SectionRights(e) = RightsOf(SysOnlyReadOnly, ~TRUE, ~TRUE)
  BY <1>1, SectionEntry
<1>6. LET e == build_l1_1MB_page_entry(mb, SysOnlyFull, FALSE, FALSE)
      IN  /\ IsSection(e) /\ InDomain0(e) /\ e \cap (20 .. 31) = FrameOf(mb)
          /\ SectionRights(e) = RightsOf(SysOnlyFull, ~FALSE, ~FALSE)
  BY <1>1, SectionEntry
<1>7. LET e == build_l1_1MB_page_entry(mb, SysUserReadOnly, TRUE, FALSE)
      IN  /\ IsSection(e) /\ InDomain0(e) /\ e \cap (20 .. 31) = FrameOf(mb)
          /\ SectionRights(e) = RightsOf(SysUserReadOnly, ~TRUE, ~FALSE)
  BY <1>1, SectionEntry
<1> QED
  BY <1>2, <1>3, <1>4, <1>5, <1>6, <1>7

LEMMA RightsHold == IInv => RightsAsIntended
<1> SUFFICES ASSUME IInv, MmuOn PROVE RightsAsIntended
  BY DEF RightsAsIntended
<1>1. pc \in 1 .. 21 /\ TypeOK
  BY TypeParts DEF IInv
<1>2. pc > 8 /\ pc > 7 /\ pc > 6
  BY <1>1, StepDone DEF MmuOn, Done
<1>3. DomainChecked(dacr)
  BY <1>2 DEF IInv, Phases
<1>4. l1 = [mb \in Megabytes |->
              IF mb = UserMb THEN build_l1_l2_pointer_entry(CurrentTable, FALSE)
              ELSE InitialEntry(mb)]
  BY <1>2 DEF IInv, TablesBuilt
<1>5. InDomain0(l1[UserMb])
  BY <1>2, WalkedTable, PointerEntry
<1>6. ASSUME NEW mb \in Megabytes \ {UserMb}
      PROVE  /\ InDomain0(l1[mb])
             /\ IF IsSection(l1[mb])
                THEN SectionRights(l1[mb]) = Intended(mb) /\ l1[mb] \cap (20 .. 31) = FrameOf(mb)
                ELSE IsFault(l1[mb]) /\ Intended(mb) = {}
  <2>1. l1[mb] = InitialEntry(mb)
    BY <1>4
  <2>3. CASE mb \in {0, 1}
    <3>1. l1[mb] = build_l1_1MB_page_entry(mb, SysOnlyReadOnly, TRUE, TRUE)
      BY <2>1, <2>3, EntryKinds
    <3>2. mb \notin {2, 3} \cup Devices /\ mb # 4
      BY <2>3 DEF Devices
    <3>3. Intended(mb) = ReadExecute({"system"})
      BY <2>3, <3>2 DEF Intended
    <3> QED
      BY <3>1, <3>3, SectionsAsIntended
  <2>4. CASE mb \in {2, 3} \cup Devices
    <3>1. l1[mb] = build_l1_1MB_page_entry(mb, SysOnlyFull, FALSE, FALSE)
      BY <2>1, <2>4, EntryKinds
    <3>2. mb \notin {0, 1} /\ mb # 4
      BY <2>4 DEF Devices
    <3>3. Intended(mb) = ReadWrite({"system"})
      BY <2>4, <3>2 DEF Intended
    <3> QED
      BY <3>1, <3>3, SectionsAsIntended
  <2>5. CASE mb = 4
    <3>1. l1[mb] = build_l1_1MB_page_entry(mb, SysUserReadOnly, TRUE, FALSE)
      BY <2>1, <2>5, EntryKinds
    <3>2. mb \notin {0, 1} /\ mb \notin {2, 3} \cup Devices
      BY <2>5 DEF Devices
    <3>3. Intended(mb) = ReadExecute({"user"}) \cup {<<"system", "read">>}
      BY <2>5, <3>2 DEF Intended
    <3> QED
      BY <3>1, <3>3, SectionsAsIntended
  <2>6. CASE mb \in {6, 7}
    <3>1. l1[mb] = {}
      BY <2>1, <2>6, EntryKinds
    <3>2. mb \notin {0, 1} /\ mb \notin {2, 3} \cup Devices /\ mb # 4
      BY <2>6 DEF Devices
    <3>3. Intended(mb) = {}
      BY <3>2 DEF Intended
    <3> QED
      BY <3>1, <3>3 DEF IsSection, IsFault, InDomain0
  <2> QED
    BY <2>3, <2>4, <2>5, <2>6, EntryKinds
<1>7. ASSUME NEW v \in Pages, NEW e \in EntriesFor(v), ~IsFault(e)
      PROVE  IsSmallPage(e) /\ PageRights(l1[UserMb], e) = ReadWrite({"system", "user"})
  <2>1. e = {} \/ UserPage(e)
    BY <1>2, EntriesOfPage, WalkedTable
  <2>2. UserPage(e)
    BY <1>7, <2>1 DEF IsFault
  <2> QED
    BY <2>2, UserPageRights
<1> QED
  BY <1>3, <1>5, <1>6, <1>7 DEF RightsAsIntended

LEMMA StrikesHold == IInv => OnlyStrikesLoseIt
<1> SUFFICES ASSUME IInv PROVE OnlyStrikesLoseIt
  OBVIOUS
<1>1. pc \in 1 .. 21
  BY TypeParts DEF IInv
<1>2. Interruptible /\ (timer = "interrupting" \/ (rx /\ UartIrq \in controller)) => pc > 4
  <2>1. (timer # "off" => pc > 5) /\ (rx => pc > 4)
    BY DEF IInv, Phases
  <2>2. timer = "interrupting" => pc > 4
    BY <1>1, <2>1
  <2> QED
    BY <2>1, <2>2
<1>3. pc > 4 => Done("init_modes") /\ Done("set_vbar") /\ Done("init_uart")
  BY <1>1, StepDone DEF Done
<1>4. context = "lost" => struck \cap {"early tick", "unstored tcb", "wrong state"} # {}
  BY DEF IInv, Phases
<1> QED
  BY <1>2, <1>3, <1>4 DEF OnlyStrikesLoseIt

LEMMA MemoryHolds == IInv => MainFindsItsMemory
<1> SUFFICES ASSUME IInv, context = "main", "refill" \notin struck PROVE MainFindsItsMemory
  BY DEF MainFindsItsMemory
<1>1. pc = 21 /\ pc > 7 /\ stored
  BY DEF IInv, Phases
<1>2. CurrentTable = ProcessTable
  BY DEF CurrentTable
<1>3. /\ l1[UserMb] = build_l1_l2_pointer_entry(ProcessTable, FALSE)
      /\ Walked = l2_table[ProcessTable]
  BY <1>1, <1>2, WalkedTable
<1>4. tlb \subseteq Walks
  BY <1>1 DEF IInv, CacheFollows
<1>5. \A v \in Pages : EntriesFor(v) = {l2_table[ProcessTable][v]}
  BY <1>1, <1>3, <1>4, EntriesOfPage
<1>6. Walked = [v \in Pages |-> IF v = 0 THEN UserEntry(UserMb + 1, 0)
                                ELSE IF v = 4 THEN UserEntry(UserMb + 1, 2) ELSE {}]
  BY <1>1, <1>3 DEF IInv, TablesBuilt
<1>7. \A mb, index : ~IsFault(UserEntry(mb, index))
  BY SmallPageEntry, UserPageRights DEF UserEntry
<1>8. {v \in Pages : ~IsFault(Walked[v])} = {0, 4}
  BY <1>6, <1>7 DEF Pages, IsFault
<1>9. Frame(Walked[0]) = ProcessData
  <2>1. Walked[0] = UserEntry(UserMb + 1, 0)
    BY <1>6 DEF Pages
  <2> QED
    BY <2>1, FrameOfFirstPage DEF ProcessData
<1>10. ProcessData \in data
  BY <1>1 DEF IInv, DataCopied
<1> QED
  BY <1>1, <1>3, <1>5, <1>8, <1>9, <1>10 DEF MainFindsItsMemory

\* All of booting keeps its types: words of 32 bits, at most one translation of a
\* page, and an input ring within its bound (mmu.c, uart.c:132).
THEOREM BootTypes == Spec => []TypeOK
  BY InductiveInvariant, PTL DEF IInv

\* From the moment the MMU is on every megabyte has the rights its use calls for,
\* and no page of user memory can be executed (mmu.c:108-151, 185-204, 342-351).
THEOREM MemoryProtected == Spec => []RightsAsIntended
  BY InductiveInvariant, RightsHold, PTL

\* An interrupt finds its handlers set up, and only a tick before the scheduler or
\* the first tcb is ready, or a saved state that kernel code cannot run in, can lose the
\* kernel (entry.S:59, start.c:21-35, mmuasm.S:43).
THEOREM OnlyStrikesLoseTheKernel == Spec => []OnlyStrikesLoseIt
  BY InductiveInvariant, StrikesHold, PTL

\* main_thread runs on a complete tcb and sees the pages and the data of its own
\* process (mmu.c:342-351, process.c:36-39).
THEOREM MainThreadIsAtHome == Spec => []MainFindsItsMemory
  BY InductiveInvariant, MemoryHolds, PTL
=============================================================================
