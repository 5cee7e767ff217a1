--------------------------- MODULE ItemSequences ---------------------------
(***************************************************************************)
(* What the lists of the compiler promise, without links: the items of a   *)
(* block, a call or a function in order, of which a pass leaves each, or   *)
(* puts others in its place, once and from the first to the last. The last *)
(* item is known, that more can be added, whenever no pass in place is on. *)
(***************************************************************************)
EXTENDS Integers, Sequences, SequencesExt

CONSTANT Most     \* how many items may take the place of one

VARIABLES
    list,         \* the items
    tail,         \* the last of them, 0 if there are none and in a pass
    more,         \* those of a second list: one to be appended, or one that is being replaced
    passed,       \* how many a pass in place is over with, -1 before it
    made          \* how many items were made: each is a number

Fresh(n) == [i \in 1 .. n |-> made + i]

Init == list = << >> /\ more = << >> /\ passed = -1 /\ made = 0

\* A new item at the end of either list.
Add == /\ \/ list' = list \o Fresh(1) /\ UNCHANGED more
          \/ more' = more \o Fresh(1) /\ UNCHANGED list
       /\ made' = made + 1
       /\ UNCHANGED passed

Concat == /\ list' = list \o more /\ more' = << >>
          /\ UNCHANGED << passed, made >>

\* A pass in place begins, and comes to the next item.
Begin == passed = -1 /\ passed' = 0 /\ UNCHANGED << list, more, made >>

Pass == /\ passed \in 0 .. Len(list) - 1 /\ passed' = passed + 1
        /\ \/ UNCHANGED << list, made >>
           \/ list' = [list EXCEPT ![passed + 1] = made + 1] /\ made' = made + 1
        /\ UNCHANGED more

\* It is over when there are no more, and not before.
End == passed = Len(list) /\ passed' = -1 /\ UNCHANGED << list, more, made >>

\* A pass makes a new list of the old one.
SetAside == /\ list # << >> /\ more = << >>
            /\ more' = list /\ list' = << >>
            /\ UNCHANGED << passed, made >>

Replace == /\ more # << >> /\ more' = Tail(more)
           /\ \/ list' = Append(list, Head(more)) /\ UNCHANGED made
              \/ \E n \in 1 .. Most : list' = list \o Fresh(n) /\ made' = made + n
           /\ UNCHANGED passed

Next == Add \/ Concat \/ Begin \/ Pass \/ End \/ SetAside \/ Replace

\* A pass in place leaves the new last one as the tail.
Tailed == tail = IF passed # -1 \/ list = << >> THEN 0 ELSE Last(list)

Spec == Init /\ Tailed /\ [][Next /\ Tailed']_<< list, tail, more, passed, made >>
=============================================================================
