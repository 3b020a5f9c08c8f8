-------------------------------- MODULE Grammar --------------------------------
(***************************************************************************)
(* The grammar of the language: add_rules (src/SapirCompiler/               *)
(* ParserTableBNFRules.c:19), the rules in their order, which decides       *)
(* between rules that apply to the same tokens, and createAssociationMap,   *)
(* the token types that have a terminal.                                    *)
(***************************************************************************)
EXTENDS Sequences

Alternatives(nonterminal, contents) ==
    [i \in DOMAIN contents |-> [left |-> nonterminal, right |-> contents[i]]]

add_rules ==
    Alternatives("PROGRAM", <<<<"STATEMENTS">>>>)
    \o Alternatives("STATEMENTS", <<
          <<"STATEMENTS", "STATEMENT">>, <<"STATEMENT">>,
          <<"STATEMENTS", "STATEMENT">>, <<"STATEMENT">>>>)
    \o Alternatives("STATEMENT", <<
          <<"VARIABLE_DECLARATION_STATEMENT">>, <<"VARIABLE_ASSIGNMENT_STATEMENT">>,
          <<"VARIABLE_DECLARATION_WITH_ASSIGNMENT_STATEMENT">>, <<"IF_STATEMENT">>,
          <<"IF_ELSE_STATEMENT">>, <<"WHILE_STATEMENT">>, <<"DO_WHILE_STATEMENT">>,
          <<"FOR_STATEMENT">>, <<"FOR_CHANGE_STATEMENT">>, <<"PRINT_STATEMENT">>,
          <<"GET_STATEMENT">>, <<"GET_DECLARE_STATEMENT">>,
          <<"FUNCTION_DECLARATION_STATEMENT">>,
          <<"FUNCTION_DECLARATION_NO_RETURN_STATEMENT">>,
          <<"FUNCTION_DECLARATION_NO_ARGUMENTS_STATEMENT">>,
          <<"FUNCTION_DECLARATION_NO_RETURN_NO_ARGUMENTS_STATEMENT">>,
          <<"FUNCTION_CALL_STATEMENT">>, <<"FUNCTION_CALL_WITH_NOTHING_STATEMENT">>,
          <<"RETURN_STATEMENT">>, <<"RETURN_NONE_STATEMENT">>, <<"BLOCK">>>>)
    \o Alternatives("CONDITION_LIST", <<
          <<"CONDITION">>, <<"CONDITION_LIST", "&&", "CONDITION">>,
          <<"CONDITION_LIST", "||", "CONDITION">>>>)
    \o Alternatives("CONDITION", <<
          <<"(", "CONDITION_LIST", ")">>, <<"EXPRESSION", "==", "EXPRESSION">>,
          <<"EXPRESSION", "!=", "EXPRESSION">>, <<"EXPRESSION", ">", "EXPRESSION">>,
          <<"EXPRESSION", ">=", "EXPRESSION">>, <<"EXPRESSION", "<", "EXPRESSION">>,
          <<"EXPRESSION", "<=", "EXPRESSION">>, <<"FUNCTION_CALL_STATEMENT">>,
          <<"FUNCTION_CALL_WITH_NOTHING_STATEMENT">>, <<"true">>, <<"false">>>>)
    \o Alternatives("EXPRESSION", <<
          <<"EXPRESSION", "+", "TERM">>, <<"EXPRESSION", "-", "TERM">>, <<"TERM">>>>)
    \o Alternatives("TERM", <<
          <<"TERM", "%", "FACTOR">>, <<"TERM", "*", "FACTOR">>,
          <<"TERM", "/", "FACTOR">>, <<"FACTOR">>>>)
    \o Alternatives("FACTOR", <<
          <<"(", "EXPRESSION", ")">>, <<"identifier">>, <<"number">>,
          <<"CONDITION_LIST">>, <<"FUNCTION_CALL_STATEMENT">>,
          <<"FUNCTION_CALL_WITH_NOTHING_STATEMENT">>>>)
    \o Alternatives("VARIABLE_TYPE", <<<<"int">>, <<"bool">>>>)
    \o Alternatives("BLOCK", <<<<"{", "STATEMENTS", "}">>, <<"{", "}">>>>)
    \o Alternatives("IF_STATEMENT", <<<<"if", "CONDITION_LIST", "IF_BLOCK">>>>)
    \o Alternatives("IF_ELSE_STATEMENT", <<
          <<"if", "CONDITION_LIST", "IF_BLOCK", "else", "IF_BLOCK">>>>)
    \o Alternatives("IF_BLOCK", <<<<"{", "STATEMENTS", "}">>, <<"STATEMENT">>>>)
    \o Alternatives("VARIABLE_DECLARATION_STATEMENT", <<
          <<"VARIABLE_TYPE", "identifier">>>>)
    \o Alternatives("VARIABLE_DECLARATION_WITH_ASSIGNMENT_STATEMENT", <<
          <<"VARIABLE_TYPE", "identifier", "=", "EXPRESSION">>>>)
    \o Alternatives("VARIABLE_ASSIGNMENT_STATEMENT", <<
          <<"identifier", "=", "EXPRESSION">>>>)
    \o Alternatives("WHILE_STATEMENT", <<
          <<"while", "CONDITION_LIST", "WHILE_BLOCK">>>>)
    \o Alternatives("DO_WHILE_STATEMENT", <<
          <<"do", "WHILE_BLOCK", "while", "CONDITION_LIST">>>>)
    \o Alternatives("WHILE_BLOCK", <<<<"{", "STATEMENT", "}">>, <<"STATEMENT">>>>)
    \o Alternatives("FOR_STATEMENT", <<
          <<"for", "FOR_ASSIGNMENT", "while", "CONDITION_LIST", "FOR_BLOCK">>>>)
    \o Alternatives("FOR_CHANGE_STATEMENT", <<
          <<"for", "FOR_ASSIGNMENT", "while", "CONDITION_LIST", "FOR_BLOCK", "change", "CHANGE_BLOCK">>>>)
    \o Alternatives("FOR_ASSIGNMENT", <<
          <<"VARIABLE_ASSIGNMENT_STATEMENT">>,
          <<"VARIABLE_DECLARATION_WITH_ASSIGNMENT_STATEMENT">>>>)
    \o Alternatives("FOR_BLOCK", <<<<"{", "STATEMENTS", "}">>, <<"STATEMENT">>>>)
    \o Alternatives("CHANGE_BLOCK", <<<<"VARIABLE_ASSIGNMENT_STATEMENT">>>>)
    \o Alternatives("PRINT_STATEMENT", <<
          <<"print", "string_literal">>, <<"print", "EXPRESSION">>>>)
    \o Alternatives("GET_STATEMENT", <<<<"get", "identifier">>>>)
    \o Alternatives("GET_DECLARE_STATEMENT", <<
          <<"get", "VARIABLE_DECLARATION_STATEMENT">>>>)
    \o Alternatives("FUNCTION_DECLARATION_STATEMENT", <<
          <<"function", "identifier", "gets", "PARAMETER_LIST", "returns", "VARIABLE_TYPE", "FUNCTION_BLOCK">>>>)
    \o Alternatives("FUNCTION_DECLARATION_NO_RETURN_STATEMENT", <<
          <<"function", "identifier", "gets", "PARAMETER_LIST", "FUNCTION_BLOCK">>>>)
    \o Alternatives("FUNCTION_DECLARATION_NO_ARGUMENTS_STATEMENT", <<
          <<"function", "identifier", "returns", "VARIABLE_TYPE", "FUNCTION_BLOCK">>>>)
    \o Alternatives("FUNCTION_DECLARATION_NO_RETURN_NO_ARGUMENTS_STATEMENT", <<
          <<"function", "identifier", "FUNCTION_BLOCK">>>>)
    \o Alternatives("PARAMETER_LIST", <<
          <<"PARAMETER_LIST", ",", "PARAMETER">>, <<"PARAMETER">>>>)
    \o Alternatives("PARAMETER", <<<<"VARIABLE_TYPE", "identifier">>>>)
    \o Alternatives("FUNCTION_BLOCK", <<<<"{", "FUNCTION_STATEMENTS", "}">>>>)
    \o Alternatives("FUNCTION_STATEMENTS", <<
          <<"FUNCTION_STATEMENTS", "FUNCTION_STATEMENT">>,
          <<"FUNCTION_STATEMENT">>>>)
    \o Alternatives("FUNCTION_STATEMENT", <<
          <<"VARIABLE_DECLARATION_STATEMENT">>, <<"VARIABLE_ASSIGNMENT_STATEMENT">>,
          <<"VARIABLE_DECLARATION_WITH_ASSIGNMENT_STATEMENT">>, <<"IF_STATEMENT">>,
          <<"IF_ELSE_STATEMENT">>, <<"WHILE_STATEMENT">>, <<"DO_WHILE_STATEMENT">>,
          <<"FOR_STATEMENT">>, <<"FOR_CHANGE_STATEMENT">>, <<"PRINT_STATEMENT">>,
          <<"GET_STATEMENT">>, <<"GET_DECLARE_STATEMENT">>,
          <<"FUNCTION_CALL_STATEMENT">>, <<"FUNCTION_CALL_WITH_NOTHING_STATEMENT">>,
          <<"RETURN_STATEMENT">>, <<"RETURN_NONE_STATEMENT">>, <<"BLOCK">>>>)
    \o Alternatives("RETURN_STATEMENT", <<<<"return", "EXPRESSION">>>>)
    \o Alternatives("RETURN_NONE_STATEMENT", <<<<"break">>>>)
    \o Alternatives("FUNCTION_CALL_STATEMENT", <<
          <<"call", "identifier", "(", "ARGUMENT_LIST", ")">>>>)
    \o Alternatives("FUNCTION_CALL_WITH_NOTHING_STATEMENT", <<
          <<"call", "identifier">>>>)
    \o Alternatives("ARGUMENT_LIST", <<
          <<"ARGUMENT_LIST", ",", "EXPRESSION">>, <<"EXPRESSION">>>>)

(* Nonterminals begin with a capital. *)
NonterminalNames ==
    {"START'", "PROGRAM", "STATEMENTS", "STATEMENT", "CONDITION_LIST",
     "CONDITION", "EXPRESSION", "TERM", "FACTOR", "VARIABLE_TYPE", "BLOCK",
     "IF_STATEMENT", "IF_ELSE_STATEMENT", "IF_BLOCK",
     "VARIABLE_DECLARATION_STATEMENT",
     "VARIABLE_DECLARATION_WITH_ASSIGNMENT_STATEMENT",
     "VARIABLE_ASSIGNMENT_STATEMENT", "WHILE_STATEMENT", "DO_WHILE_STATEMENT",
     "WHILE_BLOCK", "FOR_STATEMENT", "FOR_CHANGE_STATEMENT", "FOR_ASSIGNMENT",
     "FOR_BLOCK", "CHANGE_BLOCK", "PRINT_STATEMENT", "GET_STATEMENT",
     "GET_DECLARE_STATEMENT", "FUNCTION_DECLARATION_STATEMENT",
     "FUNCTION_DECLARATION_NO_RETURN_STATEMENT",
     "FUNCTION_DECLARATION_NO_ARGUMENTS_STATEMENT",
     "FUNCTION_DECLARATION_NO_RETURN_NO_ARGUMENTS_STATEMENT", "PARAMETER_LIST",
     "PARAMETER", "FUNCTION_BLOCK", "FUNCTION_STATEMENTS", "FUNCTION_STATEMENT",
     "RETURN_STATEMENT", "RETURN_NONE_STATEMENT", "FUNCTION_CALL_STATEMENT",
     "FUNCTION_CALL_WITH_NOTHING_STATEMENT", "ARGUMENT_LIST"}

createAssociationMap ==
    {"{", "}", "&&", "||", "(", ")", "==", "!=", ">", ">=", "<", "<=", "+", "-",
     "*", "/", "if", "$", "identifier", "number", "int", "else", "=", "do",
     "while", "for", "change", "print", "get", "returns", "gets", "function",
     ",", "call", "return", "%", "bool", "string_literal", "true", "false",
     "break"}
================================================================================
