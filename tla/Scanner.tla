-------------------------------- MODULE Scanner --------------------------------
(***************************************************************************)
(* What tokenize (src/SapirCompiler/Lexer.c:113) promises, without its     *)
(* automaton and its buffer: from left to right, the longest lexeme that   *)
(* starts here becomes a token, blanks and comments become nothing, and a  *)
(* text that has a character or a lexeme the language does not have is     *)
(* reported.  After an error only the report is promised, not where the    *)
(* scanner goes on.  Lexer is shown to implement this specification.       *)
(***************************************************************************)
EXTENDS Characters

CONSTANTS Texts,            \* the programs that may be scanned
          MaxTokenLength    \* MAX_TOKEN_LENGTH of Lexer.h

VARIABLES text,     \* the program
          start,    \* the first character that is not accounted for yet
          tokens,   \* what was found so far
          failed,   \* an error was reported
          ended     \* the whole text is scanned

vars == <<text, start, tokens, failed, ended>>

-----------------------------------------------------------------------------
(* The language of the lexemes. *)

Blank == {" ", "\n", "\t", "\r"}
Sign == {"+", "-", "*", "/", "=", ">", "<", "%", "&", "|", "!",
         "(", ")", "{", "}", ","}
Known == Blank \cup Digit \cup Letter \cup Sign \cup {"#", "\""}

Keyword == {
    <<"b", "o", "o", "l">>, <<"b", "r", "e", "a", "k">>,
    <<"c", "a", "l", "l">>, <<"c", "h", "a", "n", "g", "e">>, <<"d", "o">>,
    <<"e", "l", "s", "e">>, <<"f", "a", "l", "s", "e">>, <<"f", "o", "r">>,
    <<"f", "u", "n", "c", "t", "i", "o", "n">>, <<"g", "e", "t">>,
    <<"g", "e", "t", "s">>, <<"i", "f">>, <<"i", "n", "t">>,
    <<"p", "r", "i", "n", "t">>, <<"r", "e", "t", "u", "r", "n">>,
    <<"r", "e", "t", "u", "r", "n", "s">>, <<"t", "r", "u", "e">>,
    <<"w", "h", "i", "l", "e">>}

Operator == {<<s>> : s \in Sign} \cup
    {<<"!", "=">>, <<"=", "=">>, <<">", "=">>, <<"<", "=">>, <<"&", "&">>, <<"|", "|">>}

(* The characters s[i], ..., s[j] are all in S. *)
Between(s, i, j, S) == \A k \in i..j : s[k] \in S

IsWord(s) == s[1] \in Letter /\ Between(s, 2, Len(s), Letter \cup Digit)
IsNumber(s) == Between(s, 1, Len(s), Digit)

(* An opening mark, then anything but a closing one, which may be missing. *)
(* A minus ends comments and strings as a line end ends a string.          *)
Delimited(s, open, inside, close) ==
    /\ s[1] = open
    /\ Between(s, 2, Len(s) - 1, inside)
    /\ Len(s) > 1 => s[Len(s)] \in inside \cup {close}

IsString(s) ==
    Delimited(s, "\"", Known \ {"\"", "-", "\n", "\t", "\r"}, "\"")
IsBlockComment(s) == Delimited(s, "#", Known \ {"#", "-"}, "#")
IsLineComment(s) ==
    /\ Len(s) > 1 /\ s[1] = "/" /\ s[2] = "/"
    /\ Between(s, 3, Len(s), Known \ {"\n", "-"})
IsComment(s) == IsBlockComment(s) \/ IsLineComment(s)

IsLexeme(s) ==
    \/ IsWord(s) \/ IsNumber(s) \/ IsString(s) \/ IsComment(s)
    \/ s \in Operator

(* What the parser is told of a lexeme: keywords and operators are their   *)
(* own types.                                                              *)
TypeOf(s) == IF s \in Keyword \cup Operator THEN s
             ELSE IF IsWord(s) THEN <<"IDENTIFIER">>
             ELSE IF IsNumber(s) THEN <<"NUMBER">>
             ELSE <<"STRING_LITERAL">>

-----------------------------------------------------------------------------
(* The last position of the longest lexeme that starts here. *)
LongestEnd ==
    CHOOSE e \in start..Len(text) :
        /\ IsLexeme(SubSeq(text, start, e))
        /\ \A f \in e + 1..Len(text) : ~IsLexeme(SubSeq(text, start, f))

AtLexeme == start <= Len(text) /\ IsLexeme(<<text[start]>>)

Longest == SubSeq(text, start, LongestEnd)

(* The lexeme is broken off by a character the language does not have, or  *)
(* it does not fit (one character more than the limit still does).         *)
Broken == LongestEnd < Len(text) /\ text[LongestEnd + 1] \notin Known
TooLong == Len(Longest) > MaxTokenLength + 1

-----------------------------------------------------------------------------
Init ==
    /\ text \in Texts
    /\ start = 1
    /\ tokens = <<>>
    /\ failed = FALSE
    /\ ended = FALSE

SkipBlank ==
    /\ start <= Len(text) /\ text[start] \in Blank
    /\ start' = start + 1
    /\ UNCHANGED <<text, tokens, failed, ended>>

(* The longest lexeme is taken, and a line end that follows it. *)
TakeLexeme ==
    /\ AtLexeme /\ ~Broken /\ ~TooLong
    /\ tokens' = IF IsComment(Longest) THEN tokens
                 ELSE Append(tokens, [type |-> TypeOf(Longest), lexeme |-> Longest])
    /\ start' = IF LongestEnd < Len(text) /\ text[LongestEnd + 1] = "\n"
                THEN LongestEnd + 2 ELSE LongestEnd + 1
    /\ UNCHANGED <<text, failed, ended>>

Report ==
    /\ start <= Len(text)
    /\ text[start] \notin Known \/ (AtLexeme /\ (Broken \/ TooLong))
    /\ failed' = TRUE
    /\ start' \in start + 1..Len(text) + 1
    /\ UNCHANGED <<text, tokens, ended>>

(* Two ends, one for the parser to shift and one for it to look at. *)
End ==
    /\ start > Len(text) /\ ~ended
    /\ tokens' = tokens \o <<EndOfProgram, EndOfProgram>>
    /\ ended' = TRUE
    /\ UNCHANGED <<text, start, failed>>

Next == SkipBlank \/ TakeLexeme \/ Report \/ End

Spec == Init /\ [][Next]_vars
=============================================================================
