-------------------------- MODULE NestedStatements --------------------------
(***************************************************************************)
(* What break, continue, case, default and goto refer to, said of the     *)
(* nesting of the statements alone: a break leaves the innermost loop or  *)
(* switch around it, a case belongs to the innermost switch, a goto to a  *)
(* label of its function. Module ControlContext is sema.c's way to it.    *)
(***************************************************************************)
EXTENDS Integers, Sequences, FiniteSets, CTypes

CONSTANTS
    Label,       \* label names
    Value,       \* values a case expression may have
    MaxStmts,    \* bound: statements of the translation unit
    MaxDepth     \* bound: statements open at once

VARIABLES
    nest,      \* the statements open here, the innermost last: [kind, id, due]
    count,     \* numbered statements so far: those that refer or are referred to
    target,    \* what each break, continue and goto jumps to
    cases,     \* the cases of each switch in order: [stmt, value]
    default,   \* the default of each switch
    type,      \* the type of each switch's condition
    labelled,  \* the labels of this function: <<label, stmt>>
    jumps,     \* the gotos of this function: <<label, stmt>>
    error      \* some statement had no meaning

vars == << nest, count, target, cases, default, type, labelled, jumps, error >>

None == 0
Stmt == 1 .. MaxStmts

\* The innermost open statement of one of these kinds.
Enclosing(kinds) ==
    LET S == {i \in DOMAIN nest : nest[i].kind \in kinds}
    IN IF S = {} THEN None
       ELSE nest[CHOOSE i \in S : \A j \in S : j <= i].id

Here == count + 1    \* the statement being met

\* A statement may stand here: in a block, or as the one body of a statement
\* that has none yet.
Room == nest # << >> /\ nest[Len(nest)].due > 0

\* A block has room for any number of statements.
Used == IF nest[Len(nest)].kind = "block" THEN nest
        ELSE [nest EXCEPT ![Len(nest)].due = @ - 1]

Opening(kind, id, due) == Append(Used, [kind |-> kind, id |-> id, due |-> due])

Open(kind) == /\ Room /\ Len(nest) < MaxDepth /\ count < MaxStmts
              /\ nest' = Opening(kind, Here, 1)
              /\ count' = Here
Meet == Room /\ count < MaxStmts /\ nest' = Used /\ count' = Here

Refer(to) == /\ target' = [target EXCEPT ![Here] = to]
             /\ error' = (error \/ to = None)

Init == /\ nest = << >> /\ count = 0
        /\ target = [s \in Stmt |-> None]
        /\ cases = [s \in Stmt |-> << >>]
        /\ default = [s \in Stmt |-> None]
        /\ type = [s \in Stmt |-> "none"]
        /\ labelled = {} /\ jumps = {}
        /\ error = FALSE

Function == /\ nest = << >>
            /\ nest' = << [kind |-> "block", id |-> None, due |-> 1] >>
            /\ labelled' = {} /\ jumps' = {}
            /\ UNCHANGED << count, target, cases, default, type, error >>

Plain == /\ Room /\ nest' = Used
         /\ UNCHANGED << count, target, cases, default, type, labelled, jumps, error >>

\* Blocks and ifs change nothing about what is enclosed.
Group == /\ Room /\ Len(nest) < MaxDepth
         /\ nest' \in {Opening("block", None, 1), Opening("if", None, 1), Opening("if", None, 2)}
         /\ UNCHANGED << count, target, cases, default, type, labelled, jumps, error >>

Loop == /\ Open("loop")
        /\ UNCHANGED << target, cases, default, type, labelled, jumps, error >>

Switch(ty) == /\ Open("switch")
              /\ type' = [type EXCEPT ![Here] = IF ty = "other" THEN "int" ELSE ty]
              /\ error' = (error \/ ty = "other")
              /\ UNCHANGED << target, cases, default, labelled, jumps >>

\* A case is entered in its switch unless its value is there already. Without
\* a value it is not a constant.
Case(hasValue, v) ==
    LET sw == Enclosing({"switch"})
        w  == ConstantConvert(v, type[sw])
        bad == \/ sw = None \/ ~hasValue
               \/ \E i \in DOMAIN cases[sw] : cases[sw][i].value = w
    IN /\ Open("case")
       /\ cases' = IF bad THEN cases
                   ELSE [cases EXCEPT ![sw] = Append(@, [stmt |-> Here, value |-> w])]
       /\ error' = (error \/ bad)
       /\ UNCHANGED << target, default, type, labelled, jumps >>

Default ==
    LET sw == Enclosing({"switch"})
        bad == sw = None \/ default[sw] # None
    IN /\ Open("default")
       /\ default' = IF bad THEN default ELSE [default EXCEPT ![sw] = Here]
       /\ error' = (error \/ bad)
       /\ UNCHANGED << target, cases, type, labelled, jumps >>

LabelStmt(l) ==
    LET bad == \E s \in Stmt : << l, s >> \in labelled
    IN /\ Open("label")
       /\ labelled' = IF bad THEN labelled ELSE labelled \cup {<< l, Here >>}
       /\ error' = (error \/ bad)
       /\ UNCHANGED << target, cases, default, type, jumps >>

Break == /\ Meet
         /\ Refer(Enclosing({"loop", "switch"}))
         /\ UNCHANGED << cases, default, type, labelled, jumps >>

Continue == /\ Meet
            /\ Refer(Enclosing({"loop"}))
            /\ UNCHANGED << cases, default, type, labelled, jumps >>

Goto(l) == /\ Meet
           /\ jumps' = jumps \cup {<< l, Here >>}
           /\ UNCHANGED << target, cases, default, type, labelled, error >>

Close == /\ Len(nest) > 1
         /\ nest[Len(nest)].kind = "block" \/ nest[Len(nest)].due = 0
         /\ nest' = SubSeq(nest, 1, Len(nest) - 1)
         /\ UNCHANGED << count, target, cases, default, type, labelled, jumps, error >>

\* A goto may go forward: its label is looked for when the function ends.
Destination(s) == {t \in Stmt : \E l \in Label : << l, s >> \in jumps /\ << l, t >> \in labelled}

End == /\ Len(nest) = 1
       /\ nest' = << >>
       /\ target' = [s \in Stmt |->
                        IF Destination(s) = {} THEN target[s]
                        ELSE CHOOSE t \in Destination(s) : TRUE]
       /\ error' = (error \/ \E j \in jumps : Destination(j[2]) = {})
       /\ UNCHANGED << count, cases, default, type, labelled, jumps >>

Next == \/ Function \/ Plain \/ Group \/ Loop \/ Default \/ Break \/ Continue \/ Close \/ End
        \/ \E ty \in {"int", "long", "other"} : Switch(ty)
        \/ \E v \in Value, has \in BOOLEAN : Case(has, v)
        \/ \E l \in Label : LabelStmt(l) \/ Goto(l)

Spec == Init /\ [][Next]_vars
=============================================================================
