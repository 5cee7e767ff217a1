--------------------------- MODULE ControlContext ---------------------------
(***************************************************************************)
(* analyze_stmt of sema.c: how the statements of a function find the      *)
(* statement they refer to. The traversal keeps the current targets in    *)
(* sema.fn_ctx and each of its recursive calls saves, in C locals, what   *)
(* it will put back; the cases of a switch are linked through pointers    *)
(* with fn_ctx.last_case at the end; gotos wait for the function's end.   *)
(*                                                                         *)
(* Meeting a statement is one step, so is returning from the call that    *)
(* analyses it. The statements others refer to, and those that refer,     *)
(* are numbered as they are met; the rest are not told apart.             *)
(***************************************************************************)
EXTENDS Integers, Sequences, FiniteSets, CTypes

CONSTANTS
    Label,       \* label names
    Value,       \* values a case expression may have
    Kind,        \* the kinds of statement the functions are made of
    MaxStmts,    \* bound: statements of the translation unit
    MaxDepth,    \* bound: recursive calls of analyze_stmt at once
    MaxGroups    \* bound: those of them for a block or an if

StmtKind == {"plain", "block", "if", "loop", "switch", "case", "default", "break",
             "continue", "label", "goto"}

ASSUME KindAssumption == "block" \in Kind /\ Kind \subseteq StmtKind

ASSUME BoundsAssumption == MaxStmts \in Nat /\ MaxDepth \in Nat /\ Value \subseteq Int

VARIABLES
    stack,       \* the calls of analyze_stmt under way: the statement, how many
                 \* statements it must still analyse, and its saved locals
    ctx,         \* sema.fn_ctx: breakable, loop, sw, lastCase
    labels,      \* fn_ctx.labels
    gotos,       \* fn_ctx.gotos
    count,       \* statements met so far
    target,      \* break_stmt, continue_stmt and goto_stmt.target
    firstCase,   \* switch_stmt.cases
    nextCase,    \* case_stmt.next_case
    caseValue,   \* case_stmt.value
    defaultCase, \* switch_stmt.default_case
    condType,    \* the type of switch_stmt.condition
    error        \* some diagnostic was reported

ast == << target, firstCase, nextCase, caseValue, defaultCase, condType >>
vars == << stack, ctx, labels, gotos, count, ast, error >>

None == 0                  \* a null ast_stmt_t *
Stmt == 1 .. MaxStmts
Here == count + 1
Top == stack[Len(stack)]

NoContext == [breakable |-> None, loop |-> None, sw |-> None, lastCase |-> None]

Init == /\ stack = << >> /\ ctx = NoContext
        /\ labels = [l \in Label |-> None] /\ gotos = << >>
        /\ count = 0
        /\ target = [s \in Stmt |-> None]
        /\ firstCase = [s \in Stmt |-> None]
        /\ nextCase = [s \in Stmt |-> None]
        /\ caseValue = [s \in Stmt |-> 0]
        /\ defaultCase = [s \in Stmt |-> None]
        /\ condType = [s \in Stmt |-> "none"]
        /\ error = FALSE

\* The parser lets another statement stand in a block, and gives every other
\* compound statement its one body (an if may have two).
MayMeet == stack # << >> /\ Top.due > 0

Analyzing == IF Top.kind = "block" THEN stack
             ELSE [stack EXCEPT ![Len(stack)].due = @ - 1]

Meet == MayMeet /\ count < MaxStmts /\ stack' = Analyzing /\ count' = Here

Called(kind, id, due) ==
    Append(Analyzing, [kind |-> kind, id |-> id, due |-> due, saved |-> ctx])

Call(kind) == /\ MayMeet /\ Len(stack) < MaxDepth /\ count < MaxStmts
              /\ stack' = Called(kind, Here, 1)
              /\ count' = Here

-----------------------------------------------------------------------------
\* The start of analyze_function: a new fn_ctx, then the body.
AnalyzeFunction ==
    /\ stack = << >>
    /\ stack' = << [kind |-> "block", id |-> None, due |-> 1, saved |-> NoContext] >>
    /\ ctx' = NoContext
    /\ labels' = [l \in Label |-> None] /\ gotos' = << >>
    /\ UNCHANGED << count, ast, error >>

\* Expressions, declarations, returns and null statements refer to no other.
PlainStmt == /\ MayMeet
             /\ stack' = Analyzing
             /\ UNCHANGED << ctx, labels, gotos, count, ast, error >>

Groups == {i \in DOMAIN stack : stack[i].id = None}

Block == /\ MayMeet /\ Len(stack) < MaxDepth /\ Cardinality(Groups) < MaxGroups
         /\ stack' = Called("block", None, 1)
         /\ UNCHANGED << ctx, labels, gotos, count, ast, error >>

\* With or without an else.
If == /\ MayMeet /\ Len(stack) < MaxDepth /\ Cardinality(Groups) < MaxGroups
      /\ stack' \in {Called("if", None, 1), Called("if", None, 2)}
      /\ UNCHANGED << ctx, labels, gotos, count, ast, error >>

Loop == /\ Call("loop")
        /\ ctx' = [ctx EXCEPT !.breakable = Here, !.loop = Here]
        /\ UNCHANGED << labels, gotos, ast, error >>

\* Mutant: the chain of the outer switch is carried into the inner one.
Switch_KeepsLast(ty) ==
    /\ Call("switch")
    /\ ctx' = [ctx EXCEPT !.breakable = Here, !.sw = Here]
    /\ condType' = [condType EXCEPT ![Here] = IF ty = "other" THEN "int" ELSE ty]
    /\ error' = (error \/ ty = "other")
    /\ UNCHANGED << labels, gotos, target, firstCase, nextCase, caseValue, defaultCase >>

\* A condition that is no integer is reported and taken for an int.
Switch(ty) ==
    /\ Call("switch")
    /\ ctx' = [ctx EXCEPT !.breakable = Here, !.sw = Here, !.lastCase = None]
    /\ condType' = [condType EXCEPT ![Here] = IF ty = "other" THEN "int" ELSE ty]
    /\ error' = (error \/ ty = "other")
    /\ UNCHANGED << labels, gotos, target, firstCase, nextCase, caseValue, defaultCase >>

\* The cases linked to switch s so far, by following next_case; each was met
\* after the one before it.
Chain(s) ==
    LET From[c \in 0 .. MaxStmts] ==
            IF c = None THEN << >>
            ELSE << [stmt |-> c, value |-> caseValue[c]] >> \o From[nextCase[c]]
    IN From[firstCase[s]]

Duplicate(s, v) == \E i \in DOMAIN Chain(s) : Chain(s)[i].value = v

\* What links the case being met at the end of the chain.
LinkCase(v) ==
    /\ caseValue' = [caseValue EXCEPT ![Here] = v]
    /\ IF ctx.lastCase # None
       THEN nextCase' = [nextCase EXCEPT ![ctx.lastCase] = Here] /\ UNCHANGED firstCase
       ELSE firstCase' = [firstCase EXCEPT ![ctx.sw] = Here] /\ UNCHANGED nextCase
    /\ ctx' = [ctx EXCEPT !.lastCase = Here]

\* A case belongs to a switch, its value is a constant and, converted to the
\* type of the condition, not there yet.
Acceptable(constant, v) ==
    /\ ctx.sw # None
    /\ constant
    /\ ~Duplicate(ctx.sw, ConstantConvert(v, condType[ctx.sw]))

\* Any other case is reported; its statement is analysed all the same.
Case(constant, v) ==
    /\ Call("case")
    /\ IF Acceptable(constant, v)
       THEN LinkCase(ConstantConvert(v, condType[ctx.sw])) /\ UNCHANGED error
       ELSE error' = TRUE /\ UNCHANGED << ctx, caseValue, nextCase, firstCase >>
    /\ UNCHANGED << labels, gotos, target, defaultCase, condType >>

Default ==
    /\ Call("default")
    /\ IF ctx.sw = None \/ defaultCase[ctx.sw] # None
       THEN error' = TRUE /\ UNCHANGED defaultCase
       ELSE defaultCase' = [defaultCase EXCEPT ![ctx.sw] = Here] /\ UNCHANGED error
    /\ UNCHANGED << ctx, labels, gotos, target, firstCase, nextCase, caseValue, condType >>

Refer(to) ==
    /\ Meet
    /\ target' = [target EXCEPT ![Here] = to]
    /\ error' = (error \/ to = None)
    /\ UNCHANGED << ctx, labels, gotos, firstCase, nextCase, caseValue, defaultCase, condType >>

Break == Refer(ctx.breakable)

Continue == Refer(ctx.loop)

LabelStmt(l) ==
    /\ Call("label")
    /\ IF labels[l] # None
       THEN error' = TRUE /\ UNCHANGED labels
       ELSE labels' = [labels EXCEPT ![l] = Here] /\ UNCHANGED error
    /\ UNCHANGED << ctx, gotos, ast >>

Goto(l) ==
    /\ Meet
    /\ gotos' = Append(gotos, [stmt |-> Here, label |-> l])
    /\ UNCHANGED << ctx, labels, ast, error >>

-----------------------------------------------------------------------------
\* Mutant: a loop restores what continue refers to and not what break does.
Restored_LoopOnly ==
    IF Top.kind = "loop" THEN [ctx EXCEPT !.loop = Top.saved.loop]
    ELSE IF Top.kind = "switch"
         THEN [ctx EXCEPT !.breakable = Top.saved.breakable, !.sw = Top.saved.sw,
                          !.lastCase = Top.saved.lastCase]
    ELSE ctx

\* What a call puts back before it returns.
Restored ==
    IF Top.kind = "loop"
    THEN [ctx EXCEPT !.breakable = Top.saved.breakable, !.loop = Top.saved.loop]
    ELSE IF Top.kind = "switch"
         THEN [ctx EXCEPT !.breakable = Top.saved.breakable, !.sw = Top.saved.sw,
                          !.lastCase = Top.saved.lastCase]
    ELSE ctx

Return ==
    /\ Len(stack) > 1
    /\ Top.kind = "block" \/ Top.due = 0
    /\ ctx' = Restored
    /\ stack' = SubSeq(stack, 1, Len(stack) - 1)
    /\ UNCHANGED << labels, gotos, count, ast, error >>

\* The end of analyze_function: every goto of the function gets its label.
ResolveGotos ==
    /\ Len(stack) = 1
    /\ stack' = << >>
    /\ target' = [s \in Stmt |->
                     IF \E i \in DOMAIN gotos : gotos[i].stmt = s
                     THEN labels[gotos[CHOOSE i \in DOMAIN gotos : gotos[i].stmt = s].label]
                     ELSE target[s]]
    /\ error' = (error \/ \E i \in DOMAIN gotos : labels[gotos[i].label] = None)
    /\ UNCHANGED << ctx, labels, gotos, count, firstCase, nextCase, caseValue,
                    defaultCase, condType >>

Next == \/ AnalyzeFunction \/ Return \/ ResolveGotos
        \/ "plain" \in Kind /\ PlainStmt
        \/ Block
        \/ "if" \in Kind /\ If
        \/ "loop" \in Kind /\ Loop
        \/ "switch" \in Kind /\ \E ty \in {"int", "long", "other"} : Switch(ty)
        \/ "case" \in Kind /\ \E v \in Value : Case(TRUE, v) \/ Case(FALSE, v)
        \/ "default" \in Kind /\ Default
        \/ "break" \in Kind /\ Break
        \/ "continue" \in Kind /\ Continue
        \/ "label" \in Kind /\ \E l \in Label : LabelStmt(l)
        \/ "goto" \in Kind /\ \E l \in Label : Goto(l)

Spec == Init /\ [][Next]_vars

-----------------------------------------------------------------------------
StmtOrNone == Stmt \cup {None}

Context == [breakable: StmtOrNone, loop: StmtOrNone, sw: StmtOrNone, lastCase: StmtOrNone]

Call_ == [kind: {"block", "if", "loop", "switch", "case", "default", "label"},
          id: StmtOrNone, due: Nat, saved: Context]

\* Every variable has its type.
TypeOK ==
    /\ stack \in Seq(Call_)
    /\ ctx \in Context
    /\ labels \in [Label -> StmtOrNone]
    /\ gotos \in Seq([stmt: Stmt, label: Label])
    /\ count \in 0 .. MaxStmts
    /\ target \in [Stmt -> StmtOrNone]
    /\ firstCase \in [Stmt -> StmtOrNone] /\ nextCase \in [Stmt -> StmtOrNone]
    /\ caseValue \in [Stmt -> Int] /\ defaultCase \in [Stmt -> StmtOrNone]
    /\ condType \in [Stmt -> {"none", "int", "long"}]
    /\ error \in BOOLEAN

\* Of the first n calls of st, the innermost that analyses one of these kinds.
InnermostOf(st, n, kinds) ==
    LET S == {i \in 1 .. n : st[i].kind \in kinds}
    IN IF S = {} THEN None ELSE st[CHOOSE i \in S : \A j \in S : j <= i].id

Innermost(n, kinds) == InnermostOf(stack, n, kinds)

\* Whatever has been entered and left before, fn_ctx names the innermost
\* statement a break, a continue and a case refer to, and so do the values
\* that a call will put back.
ContextIsInnermost ==
    /\ stack # << >> =>
          /\ ctx.breakable = Innermost(Len(stack), {"loop", "switch"})
          /\ ctx.loop = Innermost(Len(stack), {"loop"})
          /\ ctx.sw = Innermost(Len(stack), {"switch"})
    /\ \A n \in DOMAIN stack :
          /\ stack[n].kind \in {"loop", "switch"} =>
                stack[n].saved.breakable = Innermost(n - 1, {"loop", "switch"})
          /\ stack[n].kind = "loop" =>
                stack[n].saved.loop = Innermost(n - 1, {"loop"})
          /\ stack[n].kind = "switch" =>
                stack[n].saved.sw = Innermost(n - 1, {"switch"})

-----------------------------------------------------------------------------
Nested == INSTANCE NestedStatements WITH
    nest <- [i \in DOMAIN stack |->
                [kind |-> stack[i].kind, id |-> stack[i].id, due |-> stack[i].due]],
    cases <- [s \in Stmt |-> Chain(s)],
    default <- defaultCase,
    type <- condType,
    labelled <- {<< l, labels[l] >> : l \in {k \in Label : labels[k] # None}},
    jumps <- {<< gotos[i].label, gotos[i].stmt >> : i \in DOMAIN gotos}

\* The traversal gives every statement the meaning its nesting has: through
\* the saved locals, the linked cases and the deferred gotos it does what
\* module NestedStatements says, diagnostics included.
ImplementsNesting == Nested!Spec
=============================================================================
