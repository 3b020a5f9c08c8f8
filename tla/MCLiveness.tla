----------------------------- MODULE MCLiveness -----------------------------
(***************************************************************************)
(* Instance of IRLiveness: it optimises the flow graphs that IRLowering     *)
(* makes of the programs of Trees.                                          *)
(***************************************************************************)
EXTENDS IRLiveness, Trees

MaxBlocks == 16      \* no program of Trees has more blocks ...
MaxTemps  == 8       \* ... or temporaries

Lowered(m) ==
  LET blocks == m.blocks
      used   == 1 .. Len(blocks)
  IN [entry |-> m.entry,
      code  |-> [b \in 1 .. MaxBlocks |-> IF b \in used THEN blocks[b].code ELSE <<>>],
      succ  |-> [b \in 1 .. MaxBlocks |-> IF b \in used THEN blocks[b].succ ELSE <<>>],
      pred  |-> [b \in 1 .. MaxBlocks |-> IF b \in used THEN blocks[b].pred ELSE <<>>]]

MCPrograms == {Lowered(MainCFG(Tree(q))) : q \in ProgramNames}
MCBlock    == 1 .. MaxBlocks
MCName     == {Id(i) : i \in {"x", "y", "z", "n", "k", "f", "g"}} \cup {Temp(n) : n \in 0 .. MaxTemps}
MCLiteral  == {Lit(c) : c \in {"0", "1", "2", "3", "true", "s"}} \cup {Null}

=============================================================================
