------------------------------ MODULE Derivations ------------------------------
(***************************************************************************)
(* What the grammar derives, and what of it the parser of FrontEnd refuses. *)
(***************************************************************************)
EXTENDS FrontEnd

(* A rest <<r, d, i, j>>: what rule r has behind its first d symbols derives *)
(* the tokens behind the first i, up to j.                                   *)
AnyRest == (1..Len(rules)) \X Nat \X Nat \X Nat

(* Nothing is left of a rule: no token is needed. *)
Ends == {<<r, Len(rules[r].right), k, k>> : r \in 1..Len(rules), k \in 0..Len(tokens)}

(* A symbol derives a token that stands for it, or what one of its rules does. *)
Shows(W, X, i, j) ==
    \/ j = i + 1 /\ j <= Len(tokens) /\ X = associationArray(tokens[j].type)
    \/ \E r \in RulesOf(X) : <<r, 0, i, j>> \in W

(* One symbol more in front of what is left. *)
Grown(W) ==
    W \cup UNION {
        {<<w[1], w[2] - 1, i, w[4]>> :
            i \in {n \in 0..w[3] : Shows(W, rules[w[1]].right[w[2]], n, w[3])}}
        : w \in {v \in W : v[2] # 0}}

(* Every round but the last adds a rest that was not there.  As a symbol    *)
(* derives one token at least, there is never more left of a rule than      *)
(* there are tokens.                                                        *)
Rests ==
    LET most == Len(rules) * (Len(tokens) + 1) * (Len(tokens) + 1) * (Len(tokens) + 1)
        rounds[n \in 0..most] ==
            IF n = 0 THEN [W \in SUBSET AnyRest |-> W]
            ELSE [W \in SUBSET AnyRest |->
                     LET more == Grown(W)
                     IN  IF more = W THEN W ELSE rounds[n - 1][more]]
    IN  rounds[most][Ends]

(* All the tokens but the two ends, from the symbol of a program. *)
Derivable == Shows(Rests, "PROGRAM", 0, Len(tokens) - 2)

(* No cell is of two minds. *)
ConflictFree ==
    \A s \in 1..Len(states) : \A t \in ToSet(terminals) :
        Cardinality(Reduced(s, t)) + (IF Moved(s, t) # {} THEN 1 ELSE 0) <= 1

(* The parser reports the program, or crashes in the attempt. *)
Refused == phase = "crashed" \/ (phase = "done" /\ failed)

(* With a grammar that has no conflicts, a program that is refused is not  *)
(* one of the language, and the compiler only crashes on its first token.  *)
RefusedIsWrong ==
    /\ Refused /\ ConflictFree => ~Derivable
    /\ CrashOnlyAtStart
=================================================================================
