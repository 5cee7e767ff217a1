--------------------------- MODULE StatementCode ---------------------------
(***************************************************************************)
(* emit_stmt of ir.c: how the statements of a function become a list of   *)
(* instructions with labels and jumps, and how that list runs.            *)
(*                                                                         *)
(* The list holds, besides instructions, the statements that the calls of *)
(* emit_stmt under way will still visit, each at the place its own        *)
(* instructions will have. Visiting the first of them is one step. An     *)
(* expression is one instruction here, whatever code it has.              *)
(***************************************************************************)
EXTENDS StatementTrees

VARIABLES
    code,         \* the instructions of all functions
    nextLabel,    \* ir.next_label_id
    phase,        \* "parse", "emit" or "run"
    pc,           \* the instruction that runs next, 0 before the run
    val           \* the value of the last expression

vars == << tree, code, nextLabel, phase, pc, val >>

-----------------------------------------------------------------------------
\* Instructions. A label is a kind and an id.
Visit(n) == [op |-> "visit", stmt |-> n]
Eval(n, part) == [op |-> "eval", stmt |-> n, part |-> part]
Return(n) == [op |-> "return", stmt |-> n]
Jump(l) == [op |-> "jump", label |-> l]
JumpIfZero(l) == [op |-> "jump_if_zero", label |-> l]
JumpIfNotZero(l) == [op |-> "jump_if_not_zero", label |-> l]
JumpIfEqual(v, l) == [op |-> "jump_if_equal", value |-> v, label |-> l]  \* EQ, jump_if_not_zero
Label(l) == [op |-> "label", label |-> l]

Temp(id) == << "temp", id >>
BreakOf(n) == << "break", n >>
ContinueOf(n) == << "continue", n >>
CaseOf(n) == << "case", n >>
UserOf(n) == << "user", n >>
SymbolOf(n) == << "symbol", n >>    \* the function's own name, from write_function

\* The elements of a set of numbers, the smallest first.
InOrder(S) == CHOOSE s \in [1 .. Cardinality(S) -> S] : \A i, j \in DOMAIN s : i < j => s[i] < s[j]

\* A part of a for that may be missing, and what comes with it.
Optional(n, part, more) == IF part \in ast[n].parts THEN << Eval(n, part) >> \o more ELSE << >>
Sub(n, i) == Visit(ast[n].kids[i])
Items(n) == [i \in DOMAIN ast[n].kids |-> Sub(n, i)]

-----------------------------------------------------------------------------
\* What visiting n emits; t is the next temporary label.
EmitIf(n, t) ==
    IF Len(ast[n].kids) = 1
    THEN << Eval(n, "cond"), JumpIfZero(Temp(t)), Sub(n, 1), Label(Temp(t)) >>
    ELSE LET end == Temp(t)
             else == Temp(t + 1)
         IN << Eval(n, "cond"), JumpIfZero(else), Sub(n, 1), Jump(end),
               Label(else), Sub(n, 2), Label(end) >>

\* Mutant: continue goes round without the expression after the body.
EmitFor_ContinueAtStart(n, t) ==
    Optional(n, "init", << >>) \o << Label(Temp(t)), Label(ContinueOf(n)) >>
      \o Optional(n, "cond", << JumpIfZero(BreakOf(n)) >>)
      \o << Sub(n, 1) >>
      \o Optional(n, "post", << >>) \o << Jump(Temp(t)), Label(BreakOf(n)) >>

\* Mutant: without a condition nothing leaves the loop, so it has no label.
EmitFor_NoBreak(n, t) ==
    Optional(n, "init", << >>) \o << Label(Temp(t)) >>
      \o Optional(n, "cond", << JumpIfZero(BreakOf(n)) >>)
      \o << Sub(n, 1), Label(ContinueOf(n)) >>
      \o Optional(n, "post", << >>) \o << Jump(Temp(t)) >>
      \o IF "cond" \in ast[n].parts THEN << Label(BreakOf(n)) >> ELSE << >>

EmitFor(n, t) ==
    Optional(n, "init", << >>) \o << Label(Temp(t)) >>
      \o Optional(n, "cond", << JumpIfZero(BreakOf(n)) >>)
      \o << Sub(n, 1), Label(ContinueOf(n)) >>
      \o Optional(n, "post", << >>) \o << Jump(Temp(t)), Label(BreakOf(n)) >>

EmitWhile(n) ==
    << Label(ContinueOf(n)), Eval(n, "cond"), JumpIfZero(BreakOf(n)), Sub(n, 1),
       Jump(ContinueOf(n)), Label(BreakOf(n)) >>

EmitDoWhile(n, t) ==
    << Label(Temp(t)), Sub(n, 1), Label(ContinueOf(n)), Eval(n, "cond"),
       JumpIfNotZero(Temp(t)), Label(BreakOf(n)) >>

\* The switch compares with its cases in the order sema.c linked them.
EmitSwitch(n) ==
    << Eval(n, "cond") >>
      \o [i \in 1 .. Cardinality(CasesOf(n)) |->
             LET c == InOrder(CasesOf(n))[i]
             IN JumpIfEqual(ast[c].value, CaseOf(c))]
      \o << Jump(IF DefaultsOf(n) = {} THEN BreakOf(n)
                 ELSE CaseOf(CHOOSE d \in DefaultsOf(n) : TRUE)),
            Sub(n, 1), Label(BreakOf(n)) >>

\* The body and, for a run that comes to its end, a return of zero.
EmitFunction(n) == << Label(SymbolOf(n)) >> \o Items(n) \o << Return(None) >>

\* emit_stmt
Emitted(n, t) ==
    CASE ast[n].kind = "null" -> << >>
      [] ast[n].kind = "expr" -> << Eval(n, "expr") >>
      [] ast[n].kind = "block" -> Items(n)
      [] ast[n].kind = "return" -> Optional(n, "expr", << >>) \o << Return(n) >>
      [] ast[n].kind = "if" -> EmitIf(n, t)
      [] ast[n].kind = "for" -> EmitFor(n, t)
      [] ast[n].kind = "while" -> EmitWhile(n)
      [] ast[n].kind = "dowhile" -> EmitDoWhile(n, t)
      [] ast[n].kind = "switch" -> EmitSwitch(n)
      [] ast[n].kind \in {"case", "default"} -> << Label(CaseOf(n)), Sub(n, 1) >>
      [] ast[n].kind = "label" -> << Label(UserOf(n)), Sub(n, 1) >>
      [] ast[n].kind = "break" -> << Jump(BreakOf(ast[n].target)) >>
      [] ast[n].kind = "continue" -> << Jump(ContinueOf(ast[n].target)) >>
      [] ast[n].kind = "goto" -> << Jump(UserOf(ast[n].target)) >>
      [] ast[n].kind = "function" -> EmitFunction(n)

\* How many temporary labels it takes.
TempLabels(n) == CASE ast[n].kind = "if" -> Len(ast[n].kids)
                   [] ast[n].kind \in {"for", "dowhile"} -> 1
                   [] OTHER -> 0

-----------------------------------------------------------------------------
Init == /\ TreeInit
        /\ code = << >> /\ nextLabel = 0 /\ phase = "parse" /\ pc = 0 /\ val = 0

Parse == /\ phase = "parse" /\ TreeNext
         /\ UNCHANGED << code, nextLabel, phase, pc, val >>

\* ir_build: every function, in order.
IrBuild == /\ phase = "parse" /\ read
           /\ phase' = "emit"
           /\ code' = [i \in 1 .. Cardinality(Functions) |->
                          Visit(InOrder(Functions)[i])]
           /\ UNCHANGED << tree, nextLabel, pc, val >>

Unvisited == {i \in DOMAIN code : code[i].op = "visit"}

EmitStmt ==
    /\ phase = "emit" /\ Unvisited # {}
    /\ LET i == CHOOSE i \in Unvisited : \A j \in Unvisited : i <= j
           n == code[i].stmt
       IN /\ code' = SubSeq(code, 1, i - 1) \o Emitted(n, nextLabel)
                       \o SubSeq(code, i + 1, Len(code))
          /\ nextLabel' = nextLabel + TempLabels(n)
    /\ UNCHANGED << tree, phase, pc, val >>

Built == /\ phase = "emit" /\ Unvisited = {}
         /\ phase' = "run"
         /\ UNCHANGED << tree, code, nextLabel, pc, val >>

LabelAt(l) == {i \in DOMAIN code : code[i].op = "label" /\ code[i].label = l}
Position(l) == CHOOSE i \in LabelAt(l) : TRUE

\* Some function is called.
Call(f) == /\ phase = "run" /\ pc = 0
           /\ pc' = Position(SymbolOf(f))
           /\ UNCHANGED << tree, code, nextLabel, phase, val >>

\* Whether an instruction jumps when v is the value it looks at.
Jumps(i, v) == CASE i.op = "jump" -> TRUE
                 [] i.op = "jump_if_zero" -> v = 0
                 [] i.op = "jump_if_not_zero" -> v # 0
                 [] i.op = "jump_if_equal" -> v = i.value
                 [] OTHER -> FALSE

Following(p) == IF Jumps(code[p], val) THEN Position(code[p].label) ELSE p + 1

Running == phase = "run" /\ pc # 0

Evaluate(v) == /\ Running /\ code[pc].op = "eval"
               /\ val' = v /\ pc' = pc + 1
               /\ UNCHANGED << tree, code, nextLabel, phase >>

Control == /\ Running /\ code[pc].op \notin {"eval", "return"}
           /\ pc' = Following(pc)
           /\ UNCHANGED << tree, code, nextLabel, phase, val >>

Terminated == (Running /\ code[pc].op = "return") \/ (phase = "parse" /\ Refused)

Stop == Terminated /\ UNCHANGED vars

Next == \/ Parse \/ IrBuild \/ EmitStmt \/ Built
        \/ \E f \in Functions : Call(f)
        \/ \E v \in Value : Evaluate(v)
        \/ Control \/ Stop

Spec == Init /\ [][Next]_vars

-----------------------------------------------------------------------------
FunctionAt(p) == {i \in 1 .. p : code[i].op = "label" /\ code[i].label[1] = "symbol"}

\* No label is written twice in the file, though the ids of temporaries and
\* those of statements overlap and both go on from function to function; and
\* once a unit is built every jump has its label, in the same function.
JumpsResolve ==
    /\ \A i, j \in DOMAIN code :
          code[i].op = "label" /\ code[j].op = "label" /\ code[i].label = code[j].label => i = j
    /\ phase = "run" =>
          \A i \in DOMAIN code :
              code[i].op \in {"jump", "jump_if_zero", "jump_if_not_zero", "jump_if_equal"} =>
                  \E j \in LabelAt(code[i].label) : FunctionAt(i) = FunctionAt(j)

-----------------------------------------------------------------------------
\* The expression the machine comes to next.
Reached ==
    LET Go[p \in DOMAIN code, steps \in 0 .. Len(code)] ==
            IF code[p].op \in {"eval", "return"} \/ steps = 0 THEN p
            ELSE Go[Following(p), steps - 1]
    IN Go[pc, Len(code)]

PlaceOf(p) ==
    CASE code[p].op = "eval" -> << code[p].stmt, code[p].part >>
      [] code[p].op = "return" ->
            IF code[p].stmt # None THEN << code[p].stmt, "return" >>
            ELSE << code[CHOOSE i \in FunctionAt(p) : \A j \in FunctionAt(p) : j <= i].label[2],
                    "end" >>
      [] OTHER -> << None, "diverges" >>

Structured == INSTANCE StructuredControl WITH
    at <- IF Running THEN PlaceOf(Reached) ELSE << None, "start" >>

\* However statements are nested and whatever their conditions give, the code
\* evaluates the expressions the structure asks for, in its order, and ends
\* where it does.
ImplementsStructure == Structured!Spec
=============================================================================
