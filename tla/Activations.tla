---------------------------- MODULE Activations ----------------------------
(***************************************************************************)
(* What a program of functions and calls promises, without a machine: an  *)
(* activation of a function has variables of its own, a call passes       *)
(* values, a return hands one back to the variable the caller chose. One  *)
(* activation runs at a time.                                              *)
(***************************************************************************)
EXTENDS Integers, Sequences

CONSTANTS
    Function,     \* the functions
    Main,         \* the one the program starts in
    Variable,     \* their variables
    Owner,        \* the function a variable belongs to
    Params,       \* the parameters of a function, in order
    Size,         \* the size of a variable, 4 or 8
    ReturnSize,   \* the size of a function's value, 0 if it has none
    Int4, Long8,  \* the values of either size
    None          \* no variable, no value

VARIABLES
    acts,         \* the activations, the running one last
    result        \* a value on its way from a return to its variable

NoVars == [v \in {} |-> None]

Init == /\ acts = << [fn |-> Main, vars |-> NoVars, dst |-> None] >>
        /\ result = << >>

Running == acts[Len(acts)]
ValueOf(size) == IF size = 4 THEN Int4 ELSE Long8

\* The values of a size the running function may have at hand: constants and
\* those of its variables.
Values(size) ==
    ValueOf(size) \cup {Running.vars[v] : v \in {w \in DOMAIN Running.vars : Size[w] = size}}

With(act, v, value) ==
    [act EXCEPT !.vars = [w \in DOMAIN act.vars \cup {v} |->
                             IF w = v THEN value ELSE act.vars[w]]]

Runs == acts # << >> /\ result = << >>

-----------------------------------------------------------------------------
\* The running function computes a value for one of its variables.
Assign(v, x) ==
    /\ Owner[v] = Running.fn
    /\ acts' = [acts EXCEPT ![Len(acts)] = With(Running, v, x)]
    /\ UNCHANGED result

\* A call: the parameters are variables of the new activation.
Call(g, args, dst) ==
    /\ IF ReturnSize[g] = 0 THEN dst = None
       ELSE dst # None /\ Owner[dst] = Running.fn /\ Size[dst] = ReturnSize[g]
    /\ acts' = Append(acts,
         [fn |-> g, dst |-> dst,
          vars |-> [v \in {Params[g][i] : i \in DOMAIN args} |->
                       args[CHOOSE i \in DOMAIN args : Params[g][i] = v]]])
    /\ UNCHANGED result

\* A return ends the running activation and nothing else.
Return(x) ==
    /\ acts' = SubSeq(acts, 1, Len(acts) - 1)
    /\ result' = IF Len(acts) = 1 THEN << >> ELSE << Running.dst, x >>

\* The caller has its value.
Receive ==
    /\ result # << >>
    /\ acts' = IF result[1] = None THEN acts
               ELSE [acts EXCEPT ![Len(acts)] = With(Running, result[1], result[2])]
    /\ result' = << >>

RunningStep ==
    LET values == [size \in {4, 8} |-> Values(size)]
        returned == ReturnSize[Running.fn]
    IN \/ \E v \in Variable : \E x \in values[Size[v]] : Assign(v, x)
       \/ \E g \in Function :
             \E args \in {a \in [DOMAIN Params[g] -> values[4] \cup values[8]] :
                            \A i \in DOMAIN a : a[i] \in values[Size[Params[g][i]]]},
                dst \in Variable \cup {None} : Call(g, args, dst)
       \/ \E x \in (IF returned = 0 THEN {None} ELSE values[returned]) : Return(x)

Next == (Runs /\ RunningStep) \/ Receive

Spec == Init /\ [][Next]_<< acts, result >>
=============================================================================
