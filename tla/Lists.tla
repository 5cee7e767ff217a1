------------------------------- MODULE Lists -------------------------------
(***************************************************************************)
(* The lists of base/list.h, whose links are in the nodes themselves, and  *)
(* the two passes that change one while walking it: analyze_call of        *)
(* sema.c, which puts casts in the place of arguments, and fixup_function  *)
(* of x86.c, which moves a function's instructions to a new list or puts   *)
(* others in their place. A node is a number, in the order of allocation.  *)
(***************************************************************************)
EXTENDS Integers, Sequences, SequencesExt

CONSTANTS
    Most,         \* the most instructions fixup_instr makes of one, 4 in the code
    MaxNodes      \* bound: nodes before a pass

ASSUME ListsAssumption == Most \in Nat \ {0} /\ MaxNodes \in Nat

VARIABLES
    use,          \* what the list is of
    next,         \* the next of each node there is
    list,         \* its head and tail
    src,          \* the names of one declaration, for LIST_CONCAT
    slot,         \* analyze_call: the walk has come to the head or to the next of a node
    argCount,     \* analyze_call: arg_count
    last,         \* analyze_call: last
    instr         \* fixup_function: the node the walk has come to

vars == << use, next, list, src, slot, argCount, last, instr >>

Nullptr == 0
NoList == [head |-> Nullptr, tail |-> Nullptr]
Nowhere == -1
HeadSlot == 0     \* a slot that is not in a node

\* The links when n nodes are allocated, and the first of them.
Allocated(n) == next \o [i \in 1 .. n |-> Nullptr]
New == Len(next) + 1

Init == /\ use \in {"declarations", "arguments", "instructions"}
        /\ next = << >> /\ list = NoList /\ src = NoList
        /\ slot = Nowhere /\ argCount = 0 /\ last = Nullptr /\ instr = Nowhere

\* The links and the list when node n was appended.
ListAppend(links, l, n) ==
    LET ended == [links EXCEPT ![n] = Nullptr]
    IN [next |-> IF l.tail = Nullptr THEN ended ELSE [ended EXCEPT ![l.tail] = n],
        list |-> [head |-> IF l.tail = Nullptr THEN n ELSE l.head, tail |-> n]]

-----------------------------------------------------------------------------
Building == slot = Nowhere /\ argCount = 0 /\ instr = Nowhere /\ Len(next) < MaxNodes

\* An argument is parsed, or an instruction lowered.
AppendItem ==
    /\ Building /\ use # "declarations"
    /\ LET made == ListAppend(Allocated(1), list, New)
       IN next' = made.next /\ list' = made.list
    /\ UNCHANGED << use, src, slot, argCount, last, instr >>

\* parse_declaration: a declarator.
AppendName ==
    /\ Building /\ use = "declarations"
    /\ LET made == ListAppend(Allocated(1), src, New)
       IN next' = made.next /\ src' = made.list
    /\ UNCHANGED << use, list, slot, argCount, last, instr >>

\* LIST_CONCAT: the names of a declaration join the program's.
Concat ==
    /\ use = "declarations" /\ src.head # Nullptr
    /\ next' = IF list.tail = Nullptr THEN next ELSE [next EXCEPT ![list.tail] = src.head]
    /\ list' = [head |-> IF list.tail = Nullptr THEN src.head ELSE list.head, tail |-> src.tail]
    /\ src' = NoList
    /\ UNCHANGED << use, slot, argCount, last, instr >>

-----------------------------------------------------------------------------
\* analyze_call comes to the arguments, once.
AnalyzeCall ==
    /\ use = "arguments" /\ slot = Nowhere /\ argCount = 0
    /\ slot' = HeadSlot /\ last' = Nullptr
    /\ UNCHANGED << use, next, list, src, argCount, instr >>

\* *slot
Argument == IF slot = HeadSlot THEN list.head ELSE next[slot]

\* The argument has its parameter's type, has no parameter, or is in error.
KeepArgument ==
    /\ slot # Nowhere /\ Argument # Nullptr
    /\ slot' = Argument /\ last' = Argument /\ argCount' = argCount + 1
    /\ UNCHANGED << use, next, list, src, instr >>

\* convert_to_type: a cast takes the place of the argument, its operand.
ConvertArgument ==
    /\ slot # Nowhere /\ Argument # Nullptr
    /\ LET links == [Allocated(1) EXCEPT ![Argument] = Nullptr, ![New] = next[Argument]]
       IN IF slot = HeadSlot
          THEN next' = links /\ list' = [list EXCEPT !.head = New]
          ELSE next' = [links EXCEPT ![slot] = New] /\ UNCHANGED list
    /\ slot' = New /\ last' = New /\ argCount' = argCount + 1
    /\ UNCHANGED << use, src, instr >>

\* Mutant: the tail stays what it was.
EndArguments_TailKept ==
    /\ slot # Nowhere /\ Argument = Nullptr
    /\ slot' = Nowhere
    /\ UNCHANGED << use, next, list, src, argCount, last, instr >>

\* The old tail may be the operand of a cast now.
EndArguments ==
    /\ slot # Nowhere /\ Argument = Nullptr
    /\ slot' = Nowhere /\ list' = [list EXCEPT !.tail = last]
    /\ UNCHANGED << use, next, src, argCount, last, instr >>

-----------------------------------------------------------------------------
\* fixup_function sets the old list aside.
FixupFunction ==
    /\ use = "instructions" /\ instr = Nowhere
    /\ instr' = list.head /\ list' = NoList
    /\ UNCHANGED << use, next, src, slot, argCount, last >>

\* fixup_instr, where the instruction is valid: the node itself moves. The
\* next one was read before.
MoveInstr ==
    /\ instr \notin {Nowhere, Nullptr}
    /\ LET moved == ListAppend(next, list, instr)
       IN next' = moved.next /\ list' = moved.list
    /\ instr' = next[instr]
    /\ UNCHANGED << use, src, slot, argCount, last >>

\* fixup_instr, where it is made again: n new instructions.
RemakeInstr(n) ==
    /\ instr \notin {Nowhere, Nullptr}
    /\ LET made == FoldLeft(LAMBDA m, i : ListAppend(m.next, m.list, i),
                            [next |-> Allocated(n), list |-> list],
                            [i \in 1 .. n |-> Len(next) + i])
       IN next' = made.next /\ list' = made.list
    /\ instr' = next[instr]
    /\ UNCHANGED << use, src, slot, argCount, last >>

Next == \/ AppendItem \/ AppendName \/ Concat
        \/ AnalyzeCall \/ KeepArgument \/ ConvertArgument \/ EndArguments
        \/ FixupFunction \/ MoveInstr \/ \E n \in 1 .. Most : RemakeInstr(n)

Spec == Init /\ [][Next]_vars

-----------------------------------------------------------------------------
\* The nodes from n on; a ring would be longer than there are nodes.
From(n) ==
    LET At[i \in Nat] ==
            IF i = 0 THEN n
            ELSE LET before == At[i - 1] IN IF before = Nullptr THEN Nullptr ELSE next[before]
        length == CHOOSE k \in 0 .. Len(next) + 1 :
                     (At[k] = Nullptr \/ k = Len(next) + 1) /\ \A i \in 0 .. k - 1 : At[i] # Nullptr
    IN [i \in 1 .. length |-> At[i - 1]]

Promised == INSTANCE ItemSequences WITH
    list <- From(list.head),
    tail <- IF slot = Nowhere THEN list.tail ELSE Nullptr,
    more <- IF instr = Nowhere THEN From(src.head) ELSE From(instr),
    passed <- IF slot = Nowhere THEN -1 ELSE argCount,
    made <- Len(next)

\* Nothing is lost, doubled or put out of order: what hangs together by the
\* links is the sequence of the items, while they are being replaced, moved and
\* joined, whichever of them are, and the tail is the last of them again when
\* analyze_call is done with them.
ImplementsSequences == Promised!Spec
=============================================================================
