---------------------------- MODULE PageEntries ----------------------------
(***************************************************************************)
(* The words that driver/mmu.c puts into the page tables, bit for bit, and *)
(* what the processor takes them to mean.                                  *)
(*                                                                         *)
(* A word is the set of the positions of its one bits.                     *)
(***************************************************************************)
EXTENDS Integers

Bits == 0 .. 31
Words == SUBSET Bits

\* The word of a small number, and a word shifted by k positions.
Word(n) == {b \in 0 .. 15 : (n \div 2^b) % 2 = 1}
ShiftedLeft(word, k) == {b + k : b \in word} \cap Bits
ShiftedRight(word, k) == {b - k : b \in {c \in word : c >= k}}

SetBit(word, bit) == word \cup ({bit} \cap Bits)
SetBitTo(word, bit, value, len) ==
    (word \ (bit .. bit + len - 1)) \cup ShiftedLeft(value \cap (0 .. len - 1), bit)

-----------------------------------------------------------------------------
(* enum page_access_permission and enum page_entry_type.                    *)

SysUserFull == {0, 1}
SysUserReadOnly == {0, 1, 2}
SysOnlyReadOnly == {0, 2}
SysOnlyFull == {0}

L2Pointer == {0}       \* of an L1 entry; a large page in an L2 table
OneMbPage == {1}       \* of an L1 entry
SmallPage == {1}       \* of an L2 entry

\* Bit 0 of a 1MB or small page is not its type but a right, and stays.
set_page_entry_type(entry, type) ==
    IF type \in {OneMbPage, SmallPage} THEN SetBit(entry, 1)
    ELSE SetBitTo(entry, 0, type, 2)

\* The third bit without the shift (mutant).
UnsplitPermission(entry, ap_0, ap_2, permission) ==
    SetBitTo(SetBitTo(entry, ap_0, permission, 2), ap_2, permission, 1)

\* A permission has two bits in one place of an entry and the third in another.
SplitPermission(entry, ap_0, ap_2, permission) ==
    SetBitTo(SetBitTo(entry, ap_0, permission, 2), ap_2, ShiftedRight(permission, 2), 1)

set_l1_access_permission(entry, permission) == SplitPermission(entry, 10, 15, permission)

set_l1_base_address_of_index(entry, index) ==
    (entry \cap (0 .. 19)) \cup ShiftedLeft(Word(index), 20)

build_l1_1MB_page_entry(index, permission, allow_execute, allow_privileged_execute) ==
    set_l1_access_permission(
        set_l1_base_address_of_index(set_page_entry_type({}, OneMbPage), index), permission)
    \cup (IF allow_execute THEN {} ELSE {4})
    \cup (IF allow_privileged_execute THEN {} ELSE {0})

build_l1_l2_pointer_entry(l2_table, allow_privileged_execute) ==
    set_page_entry_type(l2_table, L2Pointer)
    \cup (IF allow_privileged_execute THEN {} ELSE {2})

\* AP[2] at bit 10 and S at bit 9: the architecture has them the other way round
\* (PageRights).  No L2 entry is built with a permission that has the third bit.
set_l2_access_permission(entry, permission) == SplitPermission(entry, 4, 10, permission)

set_l2_base_address_of_index(mb, index, entry) ==
    (entry \cap (0 .. 11)) \cup ShiftedLeft(Word(index), 12) \cup ShiftedLeft(Word(mb), 20)

build_l2_4KB_page_entry(mb, index, permission, allow_execute) ==
    set_l2_access_permission(
        set_l2_base_address_of_index(mb, index, set_page_entry_type({}, SmallPage)), permission)
    \cup (IF allow_execute THEN {} ELSE {0})

\* What switch_memory stores for the L1 entry of user memory.
SwitchedEntry(entry, l2_table) == (entry \cap (0 .. 7)) \cup (l2_table \cap (8 .. 31))

set_dacr_domain_access(dacr, domain, access) == SetBitTo(dacr, domain * 2, access, 2)
ClientAccess == {0}
get_dacr_init_val(dacr) == set_dacr_domain_access(dacr, 0, ClientAccess)

-----------------------------------------------------------------------------
(* What the processor does with them: ARMv7-A, short descriptors.           *)

\* Who may do what by the permission bits AP[2:0].
Readers(ap) == (IF ap \in {{}, {2}} THEN {} ELSE {"system"})
               \cup (IF 1 \in ap THEN {"user"} ELSE {})
Writers(ap) == (IF ap # {} /\ 2 \notin ap THEN {"system"} ELSE {})
               \cup (IF ap = {0, 1} THEN {"user"} ELSE {})

RightsOf(ap, xn, pxn) ==
    (Readers(ap) \X {"read"}) \cup (Writers(ap) \X {"write"})
    \cup ((IF xn THEN {} ELSE Readers(ap) \ (IF pxn THEN {"system"} ELSE {})) \X {"execute"})

IsFault(entry) == entry \cap {0, 1} = {}
IsSection(entry) == 1 \in entry
IsTable(entry) == entry \cap {0, 1} = {0}
TableOf(entry) == entry \cap (10 .. 31)
IsSmallPage(entry) == 1 \in entry

SectionRights(entry) ==
    RightsOf(ShiftedRight(entry \cap {10, 11}, 10) \cup ShiftedRight(entry \cap {15}, 13),
             4 \in entry, 0 \in entry)

\* Through an L1 entry that points to a table, a small page.
PageRights(l1_entry, entry) ==
    RightsOf(ShiftedRight(entry \cap {4, 5}, 4) \cup ShiftedRight(entry \cap {9}, 7),
             0 \in entry, 2 \in l1_entry)

\* Where in memory an entry leads.
Frame(entry) == entry \cap (12 .. 31)

\* Rights count in a domain with client access; all entries are in domain 0.
DomainChecked(dacr) == dacr \cap {0, 1} = ClientAccess
InDomain0(entry) == entry \cap (5 .. 8) = {}
=============================================================================
