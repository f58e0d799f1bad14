------------------------------ MODULE MCLibrary ------------------------------
(* Every small memory, texts in both cases, all small numbers and those at   *)
(* the limits, and formats with each kind of conversion.                     *)
EXTENDS Library, TLC

(* Nothing tells one chunk from another but its size and when it came.       *)
AnyChunks == Permutations(Chunks)

SomeLarge == 16..40
SomeSmall == {2, 15}

SmallMemories == [0..4 -> {0, 1, 2}] \union [0..7 -> {0, 1}]
ShortTexts == UNION {[1..n -> {65, 66, 97, 98}] : n \in 0..2}
SomeNumbers == 0..300 \union {1000, 4095, 4096, 65535, 65536, 2^20 - 1, 2^20, 2^29 + 1}
SomeRates == {1, 3, 4, 7, 25}

(* Conversions as the comments describe them, with arguments of their types; *)
(* none that a comment leaves to be done (widths, precisions, floats).       *)
Piece(fmt, args, text) == [fmt |-> fmt, args |-> args, text |-> text, stored |-> <<>>]
SomePieces ==
    {Piece(<<"a">>, <<>>, <<"a">>), Piece(<<"%", "%">>, <<>>, <<"%">>),
     Piece(<<"%", "d">>, <<-17>>, <<"-", "1", "7">>),
     Piece(<<"%", "+", "h", "h", "i">>, <<7>>, <<"+", "7">>),
     Piece(<<"%", "#", "o">>, <<9>>, <<"0", "1", "1">>),
     Piece(<<"%", "l", "l", "X">>, <<171>>, <<"A", "B">>),
     Piece(<<"%", "#", "h", "x">>, <<63>>, <<"0", "x", "3", "f">>),
     Piece(<<"%", "c">>, <<[high |-> 0, low |-> "b"]>>, <<"b">>),
     Piece(<<"%", "s">>, <<<<"b", "%">>>>, <<"b", "%">>), Piece(<<"%", "s">>, <<<<>>>>, <<>>),
     Piece(<<"%", "p">>, <<20>>, <<"0", "x", "1", "4">>),
     Piece(<<"%", "z", "u", "d">>, <<100>>, <<"1", "0", "0", "d">>),
     [Piece(<<"%", "h", "n">>, <<<<"somewhere">>>>, <<>>) EXCEPT !.stored = <<0>>]}
=============================================================================
