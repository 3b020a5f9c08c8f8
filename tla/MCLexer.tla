-------------------------------- MODULE MCLexer --------------------------------
(* Texts for Lexer: all short ones over the characters that matter to the  *)
(* automaton, and longer ones put together from pieces around the limits.  *)
EXTENDS Lexer, SequencesExt

Character == {"d", "1", "-", "/", "#", "\"", "\n", " ", "$"}

(* No word of Piece begins with "br", see WordRow. *)
Piece == {Spell(w) : w \in
    {"do", "done", "returns", "functions", "functionss", "1a", "=", "&&&",
     "//x ", "#ab ", "#-", "\"s\"", "\"s", " ", "\n", "$"}}

Sentences == {FlattenSeq(s) : s \in [1..3 -> Piece]}

AllTexts == SeqOf(Character, 4) \cup Sentences
=============================================================================
