--------------------------- MODULE MCStackMachine ---------------------------
(***************************************************************************)
(* Four functions for TLC, any of which may call any: `two` leaves two    *)
(* arguments on the stack, `one` leaves one, which needs padding, `none`   *)
(* has no frame. The pseudos are named after their function.               *)
(***************************************************************************)
EXTENDS StackMachine

CONSTANTS main, two, one, none, m1, m2, t1, t2, t3, o1, o2, i1, i2, l1, l2

Owners == [x \in Pseudo |-> CASE x \in {m1, m2} -> main
                              [] x \in {t1, t2, t3} -> two
                              [] x \in {o1, o2} -> one]
Sizes == [x \in Pseudo |-> IF x \in {m1, t2, o1} THEN 8 ELSE 4]
ParamsOf == [x \in Function |-> CASE x = two -> << t1, t2, t3 >>
                                  [] x = one -> << o1, o2 >>
                                  [] x \in {main, none} -> << >>]
ReturnSizes == [x \in Function |-> CASE x = two -> 8
                                     [] x = one -> 4
                                     [] x \in {main, none} -> 0]
=============================================================================
