-------------------------------- MODULE MCParser -------------------------------
(* FrontEnd with the grammar of the language and with two parts of it that    *)
(* have no conflicts.  For those the inputs are all the short sequences of    *)
(* their terminals; for the language they are programs that use each of its   *)
(* statements, and each of them with a token left out or doubled, or with two *)
(* tokens exchanged.                                                          *)
EXTENDS Derivations, Grammar

(* Operators of two levels and parentheses. *)
Expressions ==
    Alternatives("PROGRAM", <<<<"EXPRESSION">>>>)
    \o Alternatives("EXPRESSION", <<<<"EXPRESSION", "+", "TERM">>, <<"TERM">>>>)
    \o Alternatives("TERM", <<<<"TERM", "*", "FACTOR">>, <<"FACTOR">>>>)
    \o Alternatives("FACTOR", <<<<"(", "EXPRESSION", ")">>, <<"identifier">>>>)

(* Calls with and without arguments, and blocks. *)
Calls ==
    Alternatives("PROGRAM", <<<<"STATEMENTS">>>>)
    \o Alternatives("STATEMENTS", <<<<"STATEMENTS", "STATEMENT">>, <<"STATEMENT">>>>)
    \o Alternatives("STATEMENT", <<
          <<"FUNCTION_CALL_STATEMENT">>, <<"FUNCTION_CALL_WITH_NOTHING_STATEMENT">>,
          <<"BLOCK">>>>)
    \o Alternatives("BLOCK", <<<<"{", "STATEMENTS", "}">>, <<"{", "}">>>>)
    \o Alternatives("FUNCTION_CALL_STATEMENT", <<<<"call", "(", "ARGUMENT_LIST", ")">>>>)
    \o Alternatives("FUNCTION_CALL_WITH_NOTHING_STATEMENT", <<<<"call">>>>)
    \o Alternatives("ARGUMENT_LIST", <<
          <<"ARGUMENT_LIST", ",", "EXPRESSION">>, <<"EXPRESSION">>>>)
    \o Alternatives("EXPRESSION", <<
          <<"FUNCTION_CALL_STATEMENT">>, <<"FUNCTION_CALL_WITH_NOTHING_STATEMENT">>>>)

AllGrammars == {add_rules, Expressions, Calls}

Programs == {
    <<"int", "identifier", "=", "number", "-", "number", "*", "identifier">>,
    <<"print", "(", "identifier", "+", "number", ")", "%", "number">>,
    <<"print", "identifier", "/", "(", "(", "number", ")", ")">>,
    <<"get", "bool", "identifier", "get", "identifier">>,
    <<"if", "identifier", "==", "number", "&&", "(", "true", "||", "false", ")", "break">>,
    <<"if", "true", "if", "false", "break", "else", "{", "break", "break", "}">>,
    <<"if", "call", "identifier", "==", "true", "{", "{", "}", "}", "else", "{", "break", "}">>,
    <<"while", "identifier", "<", "number", "{", "identifier", "=", "number", "}">>,
    <<"do", "identifier", "=", "true", "while", "identifier", ">=", "number">>,
    <<"for", "int", "identifier", "=", "number", "while", "identifier", "!=", "number",
      "print", "string_literal", "change", "identifier", "=", "number">>,
    <<"for", "identifier", "=", "number", "while", "false", "{", "break", "}">>,
    <<"function", "identifier", "gets", "int", "identifier", ",", "bool", "identifier",
      "returns", "int", "{", "return", "number", "}">>,
    <<"function", "identifier", "gets", "int", "identifier", "{", "return", "number", "}">>,
    <<"function", "identifier", "returns", "bool", "{", "return", "false", "}">>,
    <<"function", "identifier", "{", "int", "identifier", "call", "identifier", "}">>,
    <<"call", "identifier", "(", "call", "identifier", "(", "number", ")", ",", "number", ")">> }

(* A program that is not quite right. *)
Slips(s) ==
    {SubSeq(s, 1, i - 1) \o SubSeq(s, i + 1, Len(s)) : i \in DOMAIN s}
    \cup {SubSeq(s, 1, i) \o SubSeq(s, i, Len(s)) : i \in DOMAIN s}
    \cup {SubSeq(s, 1, i - 1) \o <<s[i + 1], s[i]>> \o SubSeq(s, i + 2, Len(s)) :
          i \in 1..Len(s) - 1}

(* "START'" and its rule are added by the generator. *)
MCInputs(grammar) ==
    IF ToSet(add_rules) \subseteq ToSet(grammar)
    THEN Programs \cup UNION {Slips(s) : s \in Programs}
    ELSE LET types == UNION {ToSet(r.right) : r \in ToSet(grammar)}
                              \ (NonterminalNames \cup {"$"})
         IN  UNION {[1..n -> types] : n \in 0..4}
=============================================================================
