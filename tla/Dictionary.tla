----------------------------- MODULE Dictionary -----------------------------
(***************************************************************************)
(* What a table of names promises its user: a name that was set has the   *)
(* value it was last given, and no other name has one.                     *)
(***************************************************************************)
CONSTANTS
    Key, Value,
    Nullptr       \* no value

VARIABLES
    value,        \* the value of each key that has one
    answer        \* what the last call returned, and of which key

Init == value = [k \in {} |-> Nullptr] /\ answer = << >>

Set(k, v) ==
    /\ value' = [j \in DOMAIN value \cup {k} |-> IF j = k THEN v ELSE value[j]]
    /\ answer' = << >>

Get(k) ==
    /\ answer' = << k, IF k \in DOMAIN value THEN value[k] ELSE Nullptr >>
    /\ UNCHANGED value

Next == \E k \in Key : Get(k) \/ \E v \in Value : Set(k, v)

Spec == Init /\ [][Next]_<< value, answer >>
=============================================================================
