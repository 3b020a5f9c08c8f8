---------------------------- MODULE MCCallFrames ----------------------------
(***************************************************************************)
(* Instances of CallFrames: two functions with word parameters, which call  *)
(* each other and themselves, and a function with a bool parameter.         *)
(***************************************************************************)
EXTENDS CallFrames, TLC

CONSTANTS ping, pong, flag, v1, v2

WordFunctions == {ping, pong}
WordParams    == ping :> <<2, 2>> @@ pong :> <<2>> @@ Main :> <<>>
WordLocals    == ping :> <<1, 2>> @@ pong :> <<2>> @@ Main :> <<2, 1>>

BoolFunctions == {flag}
BoolParams    == flag :> <<1>> @@ Main :> <<>>
BoolLocals    == flag :> <<2>> @@ Main :> <<2>>

MCVal  == {v1, v2}
Values == Permutations(MCVal)

=============================================================================
