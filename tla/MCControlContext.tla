-------------------------- MODULE MCControlContext --------------------------
(* Small functions for TLC: two case values that an int cannot tell apart. *)
EXTENDS ControlContext

CONSTANTS l1, l2
=============================================================================
