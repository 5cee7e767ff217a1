------------------------------- MODULE CTypes -------------------------------
(* The integer types of type.c and what converting a constant to one does.  *)
EXTENDS Integers

CONSTANT IntModulus   \* how many values an int has (2^32 in the code)

ASSUME IntModulusAssumption == IntModulus \in Nat \ {0}

\* constant_convert: an int keeps the value's residue that lies in
\* -IntModulus/2 .. IntModulus/2 - 1; a long keeps the value.
ConstantConvert(v, base) ==
    LET half == IntModulus \div 2
    IN IF base = "int" THEN ((v + half) % IntModulus) - half ELSE v
=============================================================================
