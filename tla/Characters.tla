------------------------------ MODULE Characters ------------------------------
(* Characters are strings of length one, a text is a sequence of them. *)
EXTENDS Naturals, Sequences

Spell(w) == [i \in 1..Len(w) |-> SubSeq(w, i, i)]

Digit == {"0", "1", "2", "3", "4", "5", "6", "7", "8", "9"}
Letter == {"a", "b", "c", "d", "e", "f", "g", "h", "i", "j", "k", "l", "m",
           "n", "o", "p", "q", "r", "s", "t", "u", "v", "w", "x", "y", "z",
           "A", "B", "C", "D", "E", "F", "G", "H", "I", "J", "K", "L", "M",
           "N", "O", "P", "Q", "R", "S", "T", "U", "V", "W", "X", "Y", "Z", "_"}

(* What the parser is given behind the last token. *)
EndOfProgram == [type |-> <<"EOF">>, lexeme |-> <<>>]
===============================================================================
