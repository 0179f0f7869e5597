----------------------------- MODULE Formatting -----------------------------
(***************************************************************************)
(* The pure part of printing: lib/std/util.c, lib/std/strings.c and the    *)
(* helpers of lib/std/io.c.  The user library, user/src/std, is the same   *)
(* code under other names.                                                 *)
(*                                                                         *)
(* A character is a string of length one, a C string a sequence of them    *)
(* without the NUL that ends it.                                           *)
(***************************************************************************)
EXTENDS Integers, Sequences

CONSTANTS
    WordBits,    \* 32
    MAX_NUM_LEN  \* io.c

ASSUME FormattingAssumption ==
    /\ WordBits \in Nat \ {0}
    /\ MAX_NUM_LEN \in Nat

Words == 0 .. 2 ^ WordBits - 1
IsNegative(n) == n >= 2 ^ (WordBits - 1)
Negated(n) == (0 - n) % 2 ^ WordBits

NUL == "NUL"

\* What a pointer to position k reads.  There is nothing behind the NUL.
CharAt(str, k) == Append(str, NUL)[k]

Digits == <<"0", "1", "2", "3", "4", "5", "6", "7", "8", "9", "a", "b", "c", "d", "e", "f">>
IsDigit(c) == \E k \in 1 .. 10 : Digits[k] = c
DigitValue(c) == CHOOSE v \in 0 .. 15 : Digits[v + 1] = c

-----------------------------------------------------------------------------
(* Numbers, util.c.                                                         *)

calc_digits(n, base) ==
    LET count[k \in Nat] == IF k = 0 THEN 0 ELSE 1 + count[k \div base]
    IN  IF n = 0 THEN 1 ELSE count[n]

\* The digits that the loop of utostr writes, in the order they are read.
DigitsOf(n, base) ==
    LET written[k \in Nat] ==
            IF k = 0 THEN <<>> ELSE Append(written[k \div base], Digits[(k % base) + 1])
    IN  IF n = 0 THEN <<"0">> ELSE written[n]

\* Writes into the buffer str from position `from` on.  The length is counted
\* first and the digits are written backwards from there; the rest of the
\* buffer stays as it was.
utostr(n, base, str, from) ==
    LET len    == calc_digits(n, base)
        digits == DigitsOf(n, base)
        end    == from + len
        first  == end - Len(digits)
    IN  [len |-> len,
         str |-> [k \in DOMAIN str |->
                     IF k = end THEN NUL
                     ELSE IF k \in first .. end - 1 THEN digits[k - first + 1] ELSE str[k]]]

itostr(n, base, str) ==
    IF IsNegative(n)
    THEN LET unsigned == utostr(Negated(n), base, [str EXCEPT ![1] = "-"], 2)
         IN  [unsigned EXCEPT !.len = @ + 1]
    ELSE utostr(n, base, str, 1)

\* The C string at position k of a buffer.
StringAt(str, k) ==
    LET end == CHOOSE e \in k .. Len(str) : str[e] = NUL /\ \A j \in k .. e - 1 : str[j] # NUL
    IN  SubSeq(str, k, end - 1)

-----------------------------------------------------------------------------
(* Formats, io.c.                                                           *)

\* The first position from k on that holds no digit.
BehindDigits(str, k) ==
    LET skip[j \in Nat] == IF IsDigit(CharAt(str, j)) THEN skip[j + 1] ELSE j IN skip[k]

PaddedSpecs == {"x", "d", "i", "u", "p", "s"}

\* Widths are accepted for every conversion (mutant).
AnySpec(c, repeat) == c \in PaddedSpecs \cup {"c", "%"}

AcceptedSpec(c, repeat) == c \in PaddedSpecs \/ (c \in {"c", "%"} /\ ~repeat)

check_format_str(str) ==
    LET ok[k \in Nat] ==
            LET spec == BehindDigits(str, k + 1)
            IN  CASE CharAt(str, k) = NUL -> TRUE
                  [] CharAt(str, k) = "%" -> /\ AcceptedSpec(CharAt(str, spec), spec > k + 1)
                                             /\ ok[spec + 1]
                  [] OTHER                -> ok[k + 1]
    IN  ok[1]

\* No blanks once zeros have been asked for (mutant).
StickyPadding(c, padding) == IF c = "0" THEN "0" ELSE padding

PaddingFor(c, padding) == IF c = "0" THEN "0" ELSE IF IsDigit(c) THEN " " ELSE padding

\* From the last digit to the first.
calc_field_width(str, k, padding) ==
    LET c   == CharAt(str, k)
        beg == IF c = "0" THEN k + 1 ELSE k
        end == BehindDigits(str, beg)
        sum[j \in Nat] ==
            IF j <= beg THEN 0 ELSE sum[j - 1] + DigitValue(str[j - 1]) * 10 ^ (end - j)
    IN  [padding     |-> PaddingFor(c, padding),
         flags_len   |-> end - k,
         field_width |-> sum[end] % 2 ^ WordBits]

print_with_padding(str, len, field_width, padding) ==
    [k \in 1 .. (IF field_width > len THEN field_width - len ELSE 0) |-> padding] \o str
=============================================================================
