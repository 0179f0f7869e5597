------------------------------ MODULE Printing ------------------------------
(***************************************************************************)
(* printf of user/src/std/io.c, one system call putchar at a time; kprintf *)
(* of lib/std/io.c is the same code with uart_put_char.                    *)
(*                                                                         *)
(* check_format_str and the walk read a format independently, and the walk *)
(* carries padding and a buffer from one conversion to the next.  Both are *)
(* held against a grammar of formats and the meaning of each directive.    *)
(***************************************************************************)
EXTENDS Formatting, Functions

CONSTANTS
    Alphabet,    \* characters of formats
    MaxLength,   \* bound: length of arbitrary formats
    PairSpecs,   \* bound: conversions in longer formats, of two directives,
    Widths,      \* and their digits
    Arguments    \* records: what one argument is as a word, a character, a string

ASSUME PrintingAssumption ==
    /\ MaxLength \in Nat
    /\ \A arg \in Arguments : arg.word \in Words

-----------------------------------------------------------------------------
(* What formats are, and what they mean.                                    *)

Text(c) == [spec |-> "text", char |-> c, flag |-> <<>>, digits |-> <<>>]
Conversion(c, flag, digits) == [spec |-> c, char |-> c, flag |-> flag, digits |-> digits]

\* A width does not begin with a zero unless one stands before it as a flag.
Padded(specs, widths) ==
    {Conversion(c, <<>>, w) : c \in specs, w \in {v \in widths : v = <<>> \/ v[1] # "0"}}
    \cup {Conversion(c, <<"0">>, w) : c \in specs, w \in widths}

Directives(widths) ==
    {Text(c) : c \in Alphabet \ {"%"}}
    \cup {Conversion(c, <<>>, <<>>) : c \in Alphabet \cap {"c", "%"}}
    \cup Padded(Alphabet \cap PaddedSpecs, widths)

Spelling(d) ==
    IF d.spec = "text" THEN <<d.char>> ELSE <<"%">> \o d.flag \o d.digits \o <<d.spec>>

Spelled(ds) ==
    LET upto[k \in 0 .. Len(ds)] == IF k = 0 THEN <<>> ELSE upto[k - 1] \o Spelling(ds[k])
    IN  upto[Len(ds)]

Strings(n) == [1 .. n -> Alphabet]
ShortDigits == UNION {[1 .. n -> {c \in Alphabet : IsDigit(c)}] : n \in 0 .. MaxLength}

\* The sequences of directives that are spelled with n characters.
Language ==
    LET of[n \in 0 .. MaxLength] ==
            IF n = 0 THEN {<<>>}
            ELSE UNION {{Append(ds, d) : ds \in of[n - Len(Spelling(d))]} :
                           d \in {e \in Directives(ShortDigits) : Len(Spelling(e)) <= n}}
    IN  UNION {of[n] : n \in 0 .. MaxLength}

Grammatical == {Spelled(ds) : ds \in Language}
Ungrammatical == UNION {Strings(n) : n \in 0 .. MaxLength} \ Grammatical

Pairs == Padded(PairSpecs, Widths) \X Padded(PairSpecs, Widths)

\* The number that digits stand for.
Value(digits, base) ==
    LET upto[k \in 0 .. Len(digits)] ==
            IF k = 0 THEN 0 ELSE upto[k - 1] * base + DigitValue(digits[k])
    IN  upto[Len(digits)]

IsNumeral(text, n, base) ==
    /\ text # <<>>
    /\ \A k \in DOMAIN text : text[k] \in {Digits[v] : v \in 1 .. base}
    /\ text[1] = "0" => Len(text) = 1
    /\ Value(text, base) = n

\* A padded text that is Fits but for what stands before it.
IsPadded(text, width, padding, Fits(_)) ==
    \E k \in 0 .. Len(text) :
        /\ \A j \in 1 .. k : text[j] = padding
        /\ Fits(SubSeq(text, k + 1, Len(text)))
        /\ Len(text) >= width
        /\ k > 0 => Len(text) = width

Behind(text, prefix) == SubSeq(text, Len(prefix) + 1, Len(text))
StartsWith(text, prefix) == SubSeq(text, 1, Len(prefix)) = prefix

\* Whether text is what directive d makes of an argument.  A sign counts in the
\* width, the 0x of a pointer does not, and both stand before the padding.
Means(d, arg, text) ==
    LET width   == Value(d.digits, 10)
        padding == IF d.flag = <<>> THEN " " ELSE "0"
        prefix  == CASE d.spec \in {"d", "i"} /\ IsNegative(arg.word) -> <<"-">>
                     [] d.spec = "p" -> <<"0", "x">>
                     [] OTHER -> <<>>
        left    == IF prefix = <<"-">> THEN width - 1 ELSE width
        Fits(body) ==
            CASE d.spec = "s" -> body = arg.string
              [] d.spec \in {"x", "p"} -> IsNumeral(body, arg.word, 16)
              [] d.spec = "u" \/ prefix = <<>> -> IsNumeral(body, arg.word, 10)
              [] OTHER -> IsNumeral(body, Negated(arg.word), 10)
    IN  CASE d.spec \in {"text", "%"} -> text = <<d.char>>
          [] d.spec = "c" -> text = <<arg.char>>
          [] OTHER -> /\ StartsWith(text, prefix)
                      /\ IsPadded(Behind(text, prefix), left, padding, Fits)

-----------------------------------------------------------------------------

VARIABLES
    format,
    phase,     \* "called", "walking", "returned", "rejected"
    cur_char,  \* position in format
    padding,
    num_str,   \* buffer for numbers
    pending,   \* what the conversion at hand still has to print
    printed,   \* what each iteration of the walk has printed
    given,     \* the argument each iteration has taken, if any
    reading    \* what format is by the grammar: directives, or nothing

vars == <<format, phase, cur_char, padding, num_str, pending, printed, given, reading>>

NoReading == <<Text("%")>>
NoArgument == [word |-> 0, char |-> NUL, string |-> <<>>]

-----------------------------------------------------------------------------
(* The switch of printf: the text, and the buffer after it.                 *)

\* The width less the sign, not less than nothing.
LeftWidth(width, offset) == IF IsNegative((width - offset) % 2 ^ WordBits) THEN 0
                            ELSE (width - offset) % 2 ^ WordBits

NumberText(number, prefix, offset, width, pad) ==
    [text |-> prefix \o print_with_padding(StringAt(number.str, 1 + offset),
                                           number.len - offset, width, pad),
     str  |-> number.str]

Converted(c, arg, width, pad) ==
    LET signed == itostr(arg.word, 10, num_str)
        offset == IF signed.str[1] = "-" THEN 1 ELSE 0
    IN  CASE c = "c" -> [text |-> <<arg.char>>, str |-> num_str]
          [] c = "%" -> [text |-> <<"%">>, str |-> num_str]
          [] c = "s" -> [text |-> print_with_padding(arg.string, Len(arg.string), width, pad),
                         str |-> num_str]
          [] c = "x" -> NumberText(utostr(arg.word, 16, num_str, 1), <<>>, 0, width, pad)
          [] c = "p" -> NumberText(utostr(arg.word, 16, num_str, 1), <<"0", "x">>, 0, width, pad)
          [] c = "u" -> NumberText(utostr(arg.word, 10, num_str, 1), <<>>, 0, width, pad)
          [] c \in {"d", "i"} ->
                 NumberText(signed, SubSeq(<<"-">>, 1, offset), offset,
                            LeftWidth(width, offset), pad)

-----------------------------------------------------------------------------
(* Steps.                                                                   *)

check ==
    /\ phase = "called"
    /\ phase' = IF check_format_str(format) THEN "walking" ELSE "rejected"
    /\ UNCHANGED <<format, cur_char, padding, num_str, pending, printed, given, reading>>

Walking == phase = "walking" /\ pending = <<>>

put_text ==
    /\ Walking /\ CharAt(format, cur_char) \notin {"%", NUL}
    /\ printed' = Append(printed, <<format[cur_char]>>)
    /\ given' = Append(given, NoArgument)
    /\ cur_char' = cur_char + 1
    /\ UNCHANGED <<format, phase, padding, num_str, pending, reading>>

\* One character too far (mutant).
BehindNext(k, flags_len) == k + flags_len + 2

\* Behind the specifier of a conversion whose flags begin at k.
BehindSpec(k, flags_len) == k + flags_len + 1

convert ==
    /\ Walking /\ CharAt(format, cur_char) = "%"
    /\ LET flags == calc_field_width(format, cur_char + 1, padding)
           c     == CharAt(format, cur_char + 1 + flags.flags_len)
       IN  \E arg \in IF c = "%" THEN {NoArgument} ELSE Arguments :
               LET result == Converted(c, arg, flags.field_width, flags.padding)
               IN  /\ padding' = flags.padding
                   /\ pending' = result.text
                   /\ num_str' = result.str
                   /\ cur_char' = BehindSpec(cur_char + 1, flags.flags_len)
                   /\ given' = Append(given, arg)
    /\ printed' = Append(printed, <<>>)
    /\ UNCHANGED <<format, phase, reading>>

putchar ==
    /\ pending # <<>>
    /\ printed' = [printed EXCEPT ![Len(printed)] = Append(@, Head(pending))]
    /\ pending' = Tail(pending)
    /\ UNCHANGED <<format, phase, cur_char, padding, num_str, given, reading>>

return ==
    /\ Walking /\ CharAt(format, cur_char) = NUL
    /\ phase' = "returned"
    /\ UNCHANGED <<format, cur_char, padding, num_str, pending, printed, given, reading>>

\* A call with a format of the grammar, or with another one.
Init ==
    /\ \/ reading \in Language \cup Pairs /\ format = Spelled(reading)
       \/ format \in Ungrammatical /\ reading = NoReading
    /\ phase = "called"
    /\ cur_char = 1
    /\ padding = " "
    /\ num_str = [k \in 1 .. MAX_NUM_LEN + 1 |-> "?"]
    /\ pending = <<>> /\ printed = <<>> /\ given = <<>>

Next == check \/ put_text \/ convert \/ putchar \/ return

Spec == Init /\ [][Next]_vars

-----------------------------------------------------------------------------
(* Correctness.                                                             *)

\* The walk does not leave the format, and a number fits its buffer
\* (io.c:110-158, util.c:25-27).
TypeOK ==
    /\ phase \in {"called", "walking", "returned", "rejected"}
    /\ cur_char \in 1 .. Len(format) + 1
    /\ padding \in {" ", "0"}
    /\ num_str \in Seq(Range(Digits) \cup {"-", "?", NUL}) /\ Len(num_str) = MAX_NUM_LEN + 1
    /\ Len(given) = Len(printed)

\* Formats of the grammar, and no others, are printed: text, %%, %c, and %x, %d, %i,
\* %u, %p and %s with or without a flag and a width (io.c:31-66).
AcceptsTheGrammar ==
    phase # "called" => (phase = "rejected" <=> reading = NoReading)

\* Each iteration of the walk prints what its directive means, whatever the
\* conversions before it have left in the buffer and the padding, and all
\* directives have their turn (io.c:97-161, util.c:55-70).
PrintsWhatItMeans ==
    reading # NoReading =>
        /\ \A k \in 1 .. Len(printed) :
              k < Len(printed) \/ pending = <<>> => Means(reading[k], given[k], printed[k])
        /\ phase = "returned" => Len(printed) = Len(reading)
=============================================================================
