---------------------------- MODULE MCRegisters ----------------------------
(***************************************************************************)
(* Instance of Registers: a place for every temporary and variable of the   *)
(* frame, named after it.  The offsets of the foreign temporaries name the  *)
(* place of a variable and that of a temporary of this frame.               *)
(***************************************************************************)
EXTENDS Registers, TLC

CONSTANTS t1, t2, t3, t4, f1, f2, x, one

Temps      == {t1, t2, t3, t4}
Foreigners == {f1, f2}
Places     == Temps \cup {x}

SharedSlots ==
  [v \in Places \cup Foreigners |-> IF v = f1 THEN x ELSE IF v = f2 THEN t1 ELSE v]

(* t1 is not exchanged: its slot is that of f2. *)
Renamings == Permutations(Temps \ {t1})

(* Any steps, harmless or not, up to the first that loses a value. *)
UntilLoss == Init /\ [][AwaitedKept /\ VariablesKept /\ Next]_vars

=============================================================================
