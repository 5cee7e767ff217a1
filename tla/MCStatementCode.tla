-------------------------- MODULE MCStatementCode --------------------------
(***************************************************************************)
(* All small functions for TLC. Statements weigh by how many of them there *)
(* are, so that a switch with two cases of their own and a loop with a     *)
(* conditional break are both within one bound.                            *)
(***************************************************************************)
EXTENDS StatementCode

Weights == [kind \in Kind \cup {"function"} |->
               CASE kind \in {"for", "null", "return"} -> 3
                 [] kind \in {"function", "block", "switch", "case", "default", "label", "break"} -> 1
                 [] OTHER -> 2]
=============================================================================
