--------------------------------- MODULE Lexer ---------------------------------
(***************************************************************************)
(* src/SapirCompiler/Lexer.c: tokenize runs the automaton of LexerFSM.c    *)
(* over the text, one character per iteration, and collects the characters *)
(* of the current lexeme in a buffer of MAX_TOKEN_LENGTH + 1 characters.   *)
(*                                                                         *)
(* A state of the automaton that stands for a beginning of keywords or for *)
(* an operator is the sequence of the characters that lead to it (BRE is   *)
(* <<"b", "r", "e">>, GREATER_EQUAL is <<">", "=">>); the others are named *)
(* by a sequence of one name.  Rows and columns of tokens, which only      *)
(* messages use, are left out.                                             *)
(***************************************************************************)
EXTENDS Characters

CONSTANTS Texts,            \* the programs that may be tokenized
          MaxTokenLength    \* MAX_TOKEN_LENGTH, 64

ASSUME TextsAssumption == \A t \in Texts : t \in Seq(STRING)
ASSUME MaxTokenLengthAssumption == MaxTokenLength \in Nat \ {0}

VARIABLES text,             \* code, without its terminator
          pos,              \* the character *pos is text[pos]
          state,            \* state and prev_state, equal between iterations
          current_token,    \* the current_token_length characters in the buffer
          tokens,           \* the queue
          failed,           \* current_error_state was set to LEXICAL_ERROR
          phase             \* "scan": in the loop, "last": behind it, "done"

vars == <<text, pos, state, current_token, tokens, failed, phase>>

(* The promise, seen through the buffer: it starts where the current       *)
(* lexeme does.                                                            *)
Promise == INSTANCE Scanner WITH
    start <- IF phase = "scan" THEN pos - Len(current_token) ELSE pos,
    ended <- phase = "done"

-----------------------------------------------------------------------------
(* LexerFSM.c *)

STATE0 == <<>>
NUMBER == <<"NUMBER">>
IDENTIFIER == <<"IDENTIFIER">>
COMMENT == <<"COMMENT">>
COMMENT_END == <<"COMMENT_END">>
COMMENT_SINGLE_LINE == <<"COMMENT_SINGLE_LINE">>
STRING_LITERAL == <<"STRING_LITERAL">>
STRING_LITERAL_END == <<"STRING_LITERAL_END">>
ERROR == <<"ERROR">>

(* The characters that are not an error. *)
Available_Lookup ==
    Letter \cup Digit \cup {"+", "-", "*", "/", "=", ">", "<", "%", "&", "|",
    "!", "(", ")", "{", "}", ",", "#", "\"", "\n", "\t", "\r", " "}

(* The words that have a token type of their own. *)
Reserved == {
    <<"b", "o", "o", "l">>, <<"b", "r", "e", "a", "k">>,
    <<"c", "a", "l", "l">>, <<"c", "h", "a", "n", "g", "e">>, <<"d", "o">>,
    <<"e", "l", "s", "e">>, <<"f", "a", "l", "s", "e">>, <<"f", "o", "r">>,
    <<"f", "u", "n", "c", "t", "i", "o", "n">>, <<"g", "e", "t">>,
    <<"g", "e", "t", "s">>, <<"i", "f">>, <<"i", "n", "t">>,
    <<"p", "r", "i", "n", "t">>, <<"r", "e", "t", "u", "r", "n">>,
    <<"r", "e", "t", "u", "r", "n", "s">>, <<"t", "r", "u", "e">>,
    <<"w", "h", "i", "l", "e">>}

(* B, BR, BRE, ..., WHILE: the beginnings of those words. *)
WordState == UNION {{SubSeq(r, 1, n) : n \in 1..Len(r)} : r \in Reserved}

OneSign == {<<c>> : c \in {"+", "-", "*", "/", "=", ">", "<", "%", "&", "|",
                           "!", "(", ")", "{", "}", ","}}
TwoSigns ==
    {<<"!", "=">>, <<"=", "=">>, <<">", "=">>, <<"<", "=">>, <<"&", "&">>, <<"|", "|">>}

StartRow(c) ==
    IF c \in Digit THEN NUMBER
    ELSE IF <<c>> \in WordState \cup OneSign THEN <<c>>
    ELSE IF c \in Letter THEN IDENTIFIER
    ELSE IF c = "\"" THEN STRING_LITERAL
    ELSE IF c = "#" THEN COMMENT
    ELSE STATE0

NumberRow(c) == IF c \in Digit THEN NUMBER ELSE STATE0

IdentifierRow(c) == IF c \in Letter \cup Digit THEN IDENTIFIER ELSE STATE0

(* One letter on, the beginning of a keyword or an identifier.  The row of *)
(* B sends 'r' to R, not to BR.                                            *)
WordRow(s, c) ==
    IF s = <<"b">> /\ c = "r" THEN <<"r">>
    ELSE IF Append(s, c) \in WordState THEN Append(s, c)
    ELSE IdentifierRow(c)

SignRow(s, c) ==
    IF Append(s, c) \in TwoSigns THEN Append(s, c)
    ELSE IF s = <<"/">> /\ c = "/" THEN COMMENT_SINGLE_LINE
    ELSE STATE0

(* The three rows have no entry for '-'. *)
CommentRow(c) ==
    IF c = "#" THEN COMMENT_END ELSE IF c = "-" THEN STATE0 ELSE COMMENT
SingleLineRow(c) ==
    IF c \in {"\n", "-"} THEN STATE0 ELSE COMMENT_SINGLE_LINE
StringRow(c) ==
    IF c = "\"" THEN STRING_LITERAL_END
    ELSE IF c \in {"-", "\n", "\t", "\r"} THEN STATE0 ELSE STRING_LITERAL

(* States without a row of their own (the second signs, the ends) have     *)
(* only zeros: STATE0.                                                     *)
Lexer_FSM(s, c) ==
    CASE s = STATE0 -> StartRow(c)
      [] s = NUMBER -> NumberRow(c)
      [] s = IDENTIFIER -> IdentifierRow(c)
      [] s \in WordState -> WordRow(s, c)
      [] s \in OneSign -> SignRow(s, c)
      [] s = COMMENT -> CommentRow(c)
      [] s = COMMENT_SINGLE_LINE -> SingleLineRow(c)
      [] s = STRING_LITERAL -> StringRow(c)
      [] OTHER -> STATE0

-----------------------------------------------------------------------------
(* LexerFsmHelper.c *)

get_next_state(s, c) ==
    IF c \in Available_Lookup THEN Lexer_FSM(s, c) ELSE ERROR

is_ignored_state(s) ==
    s \in {STATE0, COMMENT, COMMENT_END, COMMENT_SINGLE_LINE, ERROR}

convert_state_to_token_type(s) ==
    IF s \in Reserved \cup OneSign \cup TwoSigns THEN s
    ELSE IF s \in WordState THEN IDENTIFIER
    ELSE IF s = STRING_LITERAL_END THEN STRING_LITERAL
    ELSE s

add_token(ts, s, lexeme) ==
    Append(ts, [type |-> convert_state_to_token_type(s), lexeme |-> lexeme])

-----------------------------------------------------------------------------
(* Lexer.c *)

Init ==
    /\ text \in Texts
    /\ pos = 1
    /\ state = STATE0
    /\ current_token = <<>>
    /\ tokens = <<>>
    /\ failed = FALSE
    /\ phase = "scan"

(* The state the loop's iteration computes first. *)
Reached == get_next_state(state, text[pos])

Looping == phase = "scan" /\ pos <= Len(text)

handle_end_of_path_passes_by ==
    /\ Looping /\ Reached = STATE0
    /\ tokens' = IF is_ignored_state(state) THEN tokens
                 ELSE add_token(tokens, state, current_token)
    /\ current_token' = <<>>
    /\ pos' = pos + 1
    /\ state' = STATE0
    /\ UNCHANGED <<text, failed, phase>>

handle_end_of_path_waits ==
    /\ Looping /\ Reached = STATE0
    /\ tokens' = IF is_ignored_state(state) THEN tokens
                 ELSE add_token(tokens, state, current_token)
    /\ current_token' = <<>>
    /\ pos' = IF text[pos] = "\n" THEN pos + 1 ELSE pos
    /\ state' = STATE0
    /\ UNCHANGED <<text, failed, phase>>

(* The lexeme cannot go on with this character.  The character is only     *)
(* passed by when there was no lexeme, or when it is the line end.         *)
handle_end_of_path ==
    /\ Looping /\ Reached = STATE0
    /\ tokens' = IF is_ignored_state(state) THEN tokens
                 ELSE add_token(tokens, state, current_token)
    /\ current_token' = <<>>
    /\ pos' = IF state = STATE0 \/ text[pos] = "\n" THEN pos + 1 ELSE pos
    /\ state' = STATE0
    /\ UNCHANGED <<text, failed, phase>>

(* The lexeme the unknown character comes after is lost. *)
handle_error ==
    /\ Looping /\ Reached = ERROR
    /\ failed' = TRUE
    /\ current_token' = <<>>
    /\ state' = STATE0
    /\ pos' = pos + 1
    /\ UNCHANGED <<text, tokens, phase>>

(* How many characters are left up to the next blank: strcspn. *)
Remaining(p) ==
    LET ends == {q \in p..Len(text) : text[q] \in {"\t", "\n", "\r", " "}}
    IN  (IF ends = {} THEN Len(text) + 1
         ELSE CHOOSE q \in ends : \A r \in ends : q <= r) - p

Full_one_later == Len(current_token) > MaxTokenLength + 1
Full == Len(current_token) > MaxTokenLength

add_to_current_token ==
    /\ Looping /\ Reached \notin {STATE0, ERROR} /\ ~Full
    /\ current_token' = Append(current_token, text[pos])
    /\ pos' = pos + 1
    /\ state' = Reached
    /\ UNCHANGED <<text, tokens, failed, phase>>

(* The rest of the lexeme but its last character is skipped; at a blank    *)
(* inside a comment that is one character back.                            *)
handle_above_maximum_token_length ==
    /\ Looping /\ Reached \notin {STATE0, ERROR} /\ Full
    /\ failed' = TRUE
    /\ pos' = (pos + Remaining(pos)) - 1
    /\ current_token' = <<>>
    /\ state' = STATE0
    /\ UNCHANGED <<text, tokens, phase>>

(* Behind the loop: what is in the buffer is the last token. *)
AddLastToken ==
    /\ phase = "scan" /\ pos > Len(text)
    /\ tokens' = IF is_ignored_state(state) THEN tokens
                 ELSE add_token(tokens, state, current_token)
    /\ phase' = "last"
    /\ UNCHANGED <<text, pos, state, current_token, failed>>

insert_eof_token ==
    /\ phase = "last"
    /\ tokens' = tokens \o <<EndOfProgram, EndOfProgram>>
    /\ phase' = "done"
    /\ UNCHANGED <<text, pos, state, current_token, failed>>

Next ==
    \/ handle_end_of_path
    \/ handle_error
    \/ add_to_current_token
    \/ handle_above_maximum_token_length
    \/ AddLastToken
    \/ insert_eof_token

Spec == Init /\ [][Next]_vars

(* Nothing keeps tokenize from running on. *)
FairSpec == Spec /\ WF_vars(Next)

-----------------------------------------------------------------------------
State == {STATE0, NUMBER, IDENTIFIER, COMMENT, COMMENT_END,
          COMMENT_SINGLE_LINE, STRING_LITERAL, STRING_LITERAL_END}
         \cup WordState \cup OneSign \cup TwoSigns

(* Types; the buffer holds the characters before pos, with the terminator  *)
(* at most one more than it has room for (Lexer.c:70).                     *)
TypeOK ==
    /\ text \in Texts
    /\ pos \in 1..Len(text) + 1
    /\ state \in State
    /\ Len(current_token) \in 0..MaxTokenLength + 1
    /\ Len(current_token) < pos
    /\ current_token = SubSeq(text, pos - Len(current_token), pos - 1)
    /\ failed \in BOOLEAN
    /\ phase \in {"scan", "last", "done"}

(* The automaton, its buffer and the rules for moving on together find the *)
(* longest lexemes with their types, skip what is to be skipped, and       *)
(* report every text that has something unknown or too long in it: each    *)
(* step of tokenize is a step of Scanner or changes nothing there.         *)
ScansLongestLexemes == Promise!Spec

(* tokenize ends, although the loop leaves pos where it is when a lexeme   *)
(* ends and moves it back when a comment is too long (the comment "against *)
(* infinite loop", Lexer.c:111).                                           *)
Termination == <>(phase = "done")
=============================================================================
