--------------------------- MODULE StatementTrees ---------------------------
(***************************************************************************)
(* The functions parser.c and sema.c hand to ir.c, as far as control goes: *)
(* a tree of statements, numbered as they are met, in which every break,  *)
(* continue, case, default and goto has its target. Module ControlContext *)
(* is how sema.c finds the targets. A declaration is an expression here   *)
(* for each automatic object it initialises and nothing for the others.   *)
(***************************************************************************)
EXTENDS Integers, Sequences, FiniteSets, FiniteSetsExt

CONSTANTS
    Kind,        \* the kinds of statement the functions are made of
    Value,       \* what an expression may evaluate to
    Weight,      \* what a statement of a kind counts
    MaxWeight,   \* bound: the statements of the translation unit together
    MaxFunctions \* bound: functions

LeafKind == {"null", "expr", "return", "break", "continue", "goto"}
LoopKind == {"for", "while", "dowhile"}
PrefixKind == {"case", "default", "label"}
StmtKind == LeafKind \cup LoopKind \cup PrefixKind \cup {"block", "if", "switch"}

ASSUME TreeAssumption == /\ Kind \subseteq StmtKind /\ 0 \in Value /\ Value \subseteq Int
                         /\ MaxWeight \in Nat /\ MaxFunctions \in Nat
                         /\ Weight \in [Kind \cup {"function"} -> Nat \ {0}]

VARIABLES
    ast,         \* the statements: [kind, parent, kids, parts, value, target]
    open,        \* the statement whose sub-statements are being read
    read         \* all are

tree == << ast, open, read >>

None == 0
Stmts == DOMAIN ast
Functions == {n \in Stmts : ast[n].kind = "function"}

\* The expressions a statement has: the initialiser, the condition and the
\* expression after the body of a for, any of which may be missing; the value
\* of a return.
PartsOf(kind) == CASE kind = "for" -> SUBSET {"init", "cond", "post"}
                   [] kind = "return" -> SUBSET {"expr"}
                   [] kind \in {"if", "while", "dowhile", "switch"} -> {{"cond"}}
                   [] kind = "expr" -> {{"expr"}}
                   [] OTHER -> {{}}

\* The innermost statement of some kinds among n and those around it.
Around(n, kinds) ==
    LET Up[m \in Stmts \cup {None}] ==
            IF m = None \/ ast[m].kind \in kinds THEN m ELSE Up[ast[m].parent]
    IN Up[n]

SwitchOf(n) == Around(n, {"switch"})

\* The cases of a switch in order, and its default.
CasesOf(sw) == {n \in Stmts : ast[n].kind = "case" /\ ast[n].target = sw}
DefaultsOf(sw) == {n \in Stmts : ast[n].kind = "default" /\ ast[n].target = sw}

\* What a statement that is read at open refers to.
TargetOf(kind) ==
    CASE kind = "break" -> Around(open, LoopKind \cup {"switch"})
      [] kind = "continue" -> Around(open, LoopKind)
      [] kind \in {"case", "default"} -> SwitchOf(open)
      [] OTHER -> None

TreeInit == ast = << >> /\ open = None /\ read = FALSE

NeedsBody(kind) == kind \notin LeafKind \cup {"function", "block"}

\* The bound leaves room for the bodies still to come, a body of weight 1 each.
Due(kind) == Cardinality({m \in Stmts \ {open} : NeedsBody(ast[m].kind) /\ ast[m].kids = << >>})
                 + IF NeedsBody(kind) THEN 1 ELSE 0
Size(kind) == MapThenSumSet(LAMBDA m : Weight[ast[m].kind], Stmts) + Weight[kind]

Add(kind, parts, value) ==
    LET n == Len(ast) + 1
        node == [kind |-> kind, parent |-> open, kids |-> << >>, parts |-> parts,
                 value |-> value, target |-> TargetOf(kind)]
        siblings == IF open = None THEN ast
                    ELSE [ast EXCEPT ![open].kids = Append(@, n)]
    IN /\ Size(kind) + Due(kind) <= MaxWeight
       /\ ast' = Append(siblings, node)
       /\ open' = IF kind \in LeafKind THEN open ELSE n
       /\ UNCHANGED read

Function == /\ ~read /\ open = None /\ Cardinality(Functions) < MaxFunctions
            /\ Add("function", {}, 0)

\* There is room below open for another statement.
Room == CASE ast[open].kind \in {"function", "block"} -> TRUE
          [] ast[open].kind = "if" -> Len(ast[open].kids) < 2
          [] OTHER -> Len(ast[open].kids) < 1

\* A case has a value no other case of its switch has, a switch one default.
Statement(kind, parts, value) ==
    /\ ~read /\ open # None /\ Room
    /\ kind \in {"break", "continue", "case", "default"} => TargetOf(kind) # None
    /\ kind = "case" => \A n \in CasesOf(SwitchOf(open)) : ast[n].value # value
    /\ kind = "default" => DefaultsOf(SwitchOf(open)) = {}
    /\ Add(kind, parts, value)

Close == /\ ~read /\ open # None
         /\ ast[open].kind \in {"function", "block"} \/ ast[open].kids # << >>
         /\ open' = ast[open].parent
         /\ UNCHANGED << ast, read >>

FunctionOf(n) == Around(n, {"function"})

Gotos == {n \in Stmts : ast[n].kind = "goto"}
LabelsFor(n) == {l \in Stmts : ast[l].kind = "label" /\ FunctionOf(l) = FunctionOf(n)}

\* A goto without a label: the unit is not compiled.
Refused == open = None /\ \E n \in Gotos : LabelsFor(n) = {}

\* The end: every goto gets a label of its function.
Finish == /\ ~read /\ open = None /\ ast # << >>
          /\ \E to \in [Gotos -> Stmts] :
                /\ \A n \in Gotos : to[n] \in LabelsFor(n)
                /\ ast' = [n \in Stmts |-> IF n \in Gotos
                                           THEN [ast[n] EXCEPT !.target = to[n]] ELSE ast[n]]
          /\ read' = TRUE /\ UNCHANGED open

TreeNext == \/ Function \/ Close \/ Finish
            \/ \E kind \in Kind : \E parts \in PartsOf(kind),
                  value \in IF kind = "case" THEN Value ELSE {0} : Statement(kind, parts, value)
=============================================================================
