----------------------------- MODULE MCPrinting -----------------------------
(* Printing for TLC: formats of up to four characters, and pairs of longer   *)
(* directives.                                                              *)
EXTENDS Printing

Letters == {"%", "0", "2", "A", "c", "d", "i", "p", "s", "u", "x"}
LongWidths == {<<>>, <<"2">>, <<"0", "3">>, <<"1", "0">>}

\* Zero, one, the least and the greatest negative number, and the greatest positive.
Samples ==
    {[word |-> 0, char |-> "A", string |-> <<>>],
     [word |-> 1, char |-> "%", string |-> <<"%", "d">>],
     [word |-> 2 ^ 15, char |-> "A", string |-> <<"A">>],
     [word |-> 2 ^ 16 - 1, char |-> "0", string |-> <<"A">>],
     [word |-> 2 ^ 15 - 1, char |-> "0", string |-> <<"0", "0", "A">>]}
=============================================================================
