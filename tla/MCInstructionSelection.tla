----------------------- MODULE MCInstructionSelection -----------------------
(***************************************************************************)
(* An int of 3 bits, a long of 4, a byte of 2: counts up to the width of a *)
(* long fit a byte, and a long has values an int has not. One automatic    *)
(* and one static variable of each type.                                   *)
(***************************************************************************)
EXTENDS InstructionSelection

Objects == {[kind |-> "pseudo", ty |-> "int", name |-> "i"],
            [kind |-> "static", ty |-> "int", name |-> "j"],
            [kind |-> "pseudo", ty |-> "long", name |-> "k"],
            [kind |-> "static", ty |-> "long", name |-> "l"]}
Ints == -4 .. 3
Longs == -8 .. 7
JunkValues == {0, -1}
=============================================================================
