----------------------------- MODULE Expressions -----------------------------
(***************************************************************************)
(* An expression on its way through the compiler: analyze_expr gives types *)
(* and inserts conversions, eval_constant folds it where a constant is     *)
(* asked for, emit_expr turns it into instructions with temporaries and    *)
(* jumps, and these run. What an instruction does on the processor is      *)
(* module InstructionSelection; how statements use expressions is module   *)
(* StatementCode.                                                          *)
(***************************************************************************)
EXTENDS ExpressionMeaning

CONSTANT Inputs   \* groups of expressions, by size, and the memories they are
                  \* run on: a sequence of [exprs, mems]

VARIABLES
    source,      \* the expression as parsed
    expr,        \* as analysed
    code,        \* its instructions
    value,       \* the IR value of the whole
    phase,       \* "parsed", "analysed", "refused", "crashed", "running",
                 \* "undefined" or "done"
    pc,          \* the instruction that runs next
    mem, temps,  \* the objects; the temporaries that have got a value
    first        \* history: mem before the run

vars == << source, expr, code, value, phase, pc, mem, temps, first >>

-----------------------------------------------------------------------------
\* analyze_expr. A node gets a type; bad says that an error was reported at
\* it or below.
Typed(e, kids, ty, wrong) ==
    [kind |-> e.kind, op |-> e.op, value |-> e.value, kids |-> kids, ty |-> ty, op_ty |-> ty,
     bad |-> wrong \/ \E i \in DOMAIN kids : kids[i].bad]

\* Mutant: every identifier can be stored to.
IsLvalue_Any(e) == e.kind = "identifier"

\* expr->is_lvalue
IsLvalue(e) == e.kind = "identifier" /\ IsObject(e)

\* Mutant: a value is never cut.
ConvertToType_Widens(e, target) ==
    IF e.ty = target \/ target = "int" THEN e
    ELSE Typed(Node("cast", target, << >>), << e >>, target, FALSE)

ConvertToType(e, target) ==
    IF e.ty = target THEN e ELSE Typed(Node("cast", target, << >>), << e >>, target, FALSE)

Both(k, ty) == << ConvertToType(k[1], ty), ConvertToType(k[2], ty) >>

AnalyzeBinary(e, k) ==
    LET l == k[1].ty
        r == k[2].ty
    IN CASE ~IsArithmetic(l) \/ ~IsArithmetic(r) -> Typed(e, k, "int", TRUE)
         [] e.op \in LogicalOps -> Typed(e, k, "int", FALSE)
         [] e.op \in ShiftOps -> Typed(e, k, l, FALSE)
         [] e.op \in ComparisonOps -> Typed(e, Both(k, CommonType(l, r)), "int", FALSE)
         [] OTHER -> Typed(e, Both(k, CommonType(l, r)), CommonType(l, r), FALSE)

AnalyzeAssignment(e, k) ==
    LET l == k[1].ty
        r == k[2].ty
        op_ty == IF e.op \in {"=", "<<=", ">>="} THEN l ELSE CommonType(l, r)
        right == IF e.op \in {"<<=", ">>="} THEN k[2] ELSE ConvertToType(k[2], op_ty)
    IN IF ~IsLvalue(k[1]) \/ ~IsArithmetic(l) \/ ~IsArithmetic(r) THEN Typed(e, k, l, TRUE)
       ELSE [Typed(e, << k[1], right >>, l, FALSE) EXCEPT !.op_ty = op_ty]

AnalyzeConditional(e, k) ==
    LET common == CommonType(k[2].ty, k[3].ty)
    IN CASE IsArithmetic(k[2].ty) /\ IsArithmetic(k[3].ty) ->
                Typed(e, << k[1], ConvertToType(k[2], common), ConvertToType(k[3], common) >>, common, FALSE)
         [] k[2].ty = "void" /\ k[3].ty = "void" -> Typed(e, k, "void", FALSE)
         [] OTHER -> Typed(e, k, "int", TRUE)

\* The arguments that have a parameter are converted in their list.
AnalyzeCall(e, k) ==
    IF k[1].ty # "function" THEN Typed(e, k, "int", TRUE)
    ELSE LET params == Symbols[k[1].op].params
             matched == {i \in 2 .. Len(k) : i - 1 <= Len(params)}
             wrong == {i \in matched : ~IsArithmetic(k[i].ty)}
             converted == [i \in DOMAIN k |-> IF i \in matched \ wrong THEN ConvertToType(k[i], params[i - 1])
                                              ELSE k[i]]
         IN Typed(e, converted, Symbols[k[1].op].returns, wrong # {} \/ Len(k) - 1 # Len(params))

RECURSIVE AnalyzeExpr(_)
AnalyzeExpr(e) ==
    LET k == [i \in DOMAIN e.kids |-> AnalyzeExpr(e.kids[i])]
        declared == e.op \in DOMAIN Symbols
    IN CASE e.kind = "constant" -> Typed(e, k, e.op, FALSE)
         [] e.kind = "identifier" -> Typed(e, k, IF declared THEN Symbols[e.op].ty ELSE "int", ~declared)
         [] e.kind = "unary" -> IF IsArithmetic(k[1].ty)
                                THEN Typed(e, k, IF e.op = "!" THEN "int" ELSE k[1].ty, FALSE)
                                ELSE Typed(e, k, "int", TRUE)
         [] e.kind \in {"pre", "post"} -> Typed(e, k, k[1].ty, ~IsLvalue(k[1]))
         [] e.kind = "binary" -> AnalyzeBinary(e, k)
         [] e.kind = "assignment" -> AnalyzeAssignment(e, k)
         [] e.kind = "conditional" -> AnalyzeConditional(e, k)
         [] e.kind = "call" -> AnalyzeCall(e, k)
         [] e.kind = "cast" -> Typed(e, k, e.op, FALSE)

-----------------------------------------------------------------------------
\* eval_constant, with the 64 bits of the host: the value of an expression
\* that has one at compile time, in a sequence, or no value.
NoConstant == << >>
Long(n) == Wrap(n, "quadword")
ConstantConvert(n, ty) == IF ty = "int" THEN Wrap(n, "longword") ELSE n

\* Mutant: the bits are shifted in as zeros.
ShiftedRight_Unsigned(a, b) == (a % 2 ^ LongBits) \div 2 ^ b

ShiftedRight(a, b) == a \div 2 ^ b

\* a op b, the result to have a type.
FoldBinary(op, a, b, ty) ==
    CASE op \in {"/", "%"} /\ b = 0 -> NoConstant
      [] op = "/" /\ b # 0 -> << IF b = -1 THEN Long(-a) ELSE Quotient(a, b) >>
      [] op = "%" /\ b # 0 -> << IF b = -1 THEN 0 ELSE Remainder(a, b) >>
      [] op \in ShiftOps /\ b \notin 0 .. Bits(SizeOf(ty)) - 1 -> NoConstant
      [] op = "<<" /\ b \in 0 .. Bits(SizeOf(ty)) - 1 -> << Long(a * 2 ^ b) >>
      [] op = ">>" /\ b \in 0 .. Bits(SizeOf(ty)) - 1 -> << ShiftedRight(a, b) >>
      [] op \in LogicalOps -> << Truth(b # 0) >>
      [] OTHER -> << Meaning(BinaryOp[op], "quadword", a, b) >>

FoldUnary(op, a) == CASE op = "+" -> a [] op = "-" -> Long(-a) [] op = "~" -> -1 - a [] op = "!" -> Truth(a = 0)

RECURSIVE EvalConstant(_)
EvalConstant(e) ==
    LET fold(i) == EvalConstant(e.kids[i])
        As(folded) == IF folded = NoConstant THEN NoConstant ELSE << ConstantConvert(folded[1], e.ty) >>
    IN CASE e.kind = "constant" -> << e.value >>
         [] e.kind = "cast" -> IF IsArithmetic(e.ty) THEN As(fold(1)) ELSE NoConstant
         [] e.kind = "unary" -> LET a == fold(1) IN IF a = NoConstant THEN a ELSE As(<< FoldUnary(e.op, a[1]) >>)
         [] e.kind = "conditional" -> LET c == fold(1)
                                      IN IF c = NoConstant THEN c ELSE IF c[1] # 0 THEN fold(2) ELSE fold(3)
         [] e.kind = "binary" ->
                LET a == fold(1)
                    b == fold(2)
                IN CASE a = NoConstant -> a
                     [] a # NoConstant /\ e.op = "&&" /\ a[1] = 0 -> << 0 >>
                     [] a # NoConstant /\ e.op = "||" /\ a[1] # 0 -> << 1 >>
                     [] OTHER -> IF b = NoConstant THEN b ELSE As(FoldBinary(e.op, a[1], b[1], e.ty))
         [] OTHER -> NoConstant

-----------------------------------------------------------------------------
\* IR values and instructions.
IRValue(kind, ty, name, n) == [kind |-> kind, ty |-> ty, name |-> name, n |-> n]
NoValue == IRValue("none", "none", "", 0)
Constant(n, ty) == IRValue("constant", ty, "", n)
Temp(ty, id) == IRValue("pseudo", ty, "", id)
Object(ty, name) == IRValue(IF Symbols[name].sd = "static" THEN "static" ELSE "pseudo", ty, name, 0)

IR(kind, op, lhs, rhs, dst) ==
    [kind |-> kind, op |-> op, lhs |-> lhs, rhs |-> rhs, dst |-> dst, label |-> 0, args |-> << >>]
Copy(src, dst) == IR("copy", "", src, NoValue, dst)
Branch(kind, cond, label) == [IR(kind, "", cond, NoValue, NoValue) EXCEPT !.label = label]
Jump(label) == Branch("jump", NoValue, label)
Label(label) == Branch("label", NoValue, label)
CallTo(callee, args, dst) == [IR("call", callee, NoValue, NoValue, dst) EXCEPT !.args = args]

\* The builder: the code so far, the next temporary and label, and the value
\* returned last.
Builder == [code |-> << >>, pseudo |-> 0, label |-> 0, value |-> NoValue]

Add(b, instrs) == [b EXCEPT !.code = @ \o instrs]
Gives(b, v) == [b EXCEPT !.value = v]
NewTemp(b, ty) == [b EXCEPT !.pseudo = @ + 1, !.value = Temp(ty, b.pseudo)]
NewLabels(b) == [b EXCEPT !.label = @ + 2]     \* b.label and b.label + 1

\* emit_convert
EmitConvert(b, v, ty) ==
    LET t == NewTemp(b, ty)
    IN IF v.ty = ty THEN Gives(b, v)
       ELSE IF v.kind = "constant" THEN Gives(b, Constant(ConstantConvert(v.n, ty), ty))
       ELSE Add(t, << IR("cast", "", v, NoValue, t.value) >>)

RECURSIVE Emit(_, _)     \* emit_expr

EmitUnary(e, b) ==
    LET operand == Emit(e.kids[1], b)
        t == NewTemp(operand, e.ty)
    IN IF e.op = "+" THEN operand ELSE Add(t, << IR("unary", e.op, operand.value, NoValue, t.value) >>)

\* && and ||: short is the value of the left operand that decides.
EmitLogical(e, b) ==
    LET kind == IF e.op = "&&" THEN "jump_if_zero" ELSE "jump_if_not_zero"
        short == b.label
        end == b.label + 1
        t == NewTemp(NewLabels(b), e.ty)
        left == Emit(e.kids[1], t)
        right == Emit(e.kids[2], Add(left, << Branch(kind, left.value, short) >>))
        of == Truth(e.op = "&&")
    IN Gives(Add(right, << Branch(kind, right.value, short), Copy(Constant(of, "int"), t.value), Jump(end),
                           Label(short), Copy(Constant(1 - of, "int"), t.value), Label(end) >>), t.value)

EmitBinary(e, b) ==
    LET left == Emit(e.kids[1], b)
        right == Emit(e.kids[2], left)
        t == NewTemp(right, e.ty)
    IN IF e.op \in LogicalOps THEN EmitLogical(e, b)
       ELSE Add(t, << IR("binary", BinaryOp[e.op], left.value, right.value, t.value) >>)

\* Mutant: the object is read before the right operand is evaluated.
EmitAssignment_ReadsFirst(e, b) ==
    LET object == Object(e.ty, e.kids[1].op)
        old == NewTemp(b, e.ty)
        right == Emit(e.kids[2], Add(old, << Copy(object, old.value) >>))
        left == EmitConvert(right, old.value, e.op_ty)
        result == NewTemp(left, e.op_ty)
        back == EmitConvert(Add(result, << IR("binary", BinaryOp[e.op], left.value, right.value, result.value) >>),
                            result.value, e.ty)
        plain == Emit(e.kids[2], b)
    IN IF e.op = "=" THEN Gives(Add(plain, << Copy(plain.value, object) >>), object)
       ELSE Gives(Add(back, << Copy(back.value, object) >>), object)

EmitAssignment(e, b) ==
    LET object == Object(e.ty, e.kids[1].op)
        right == Emit(e.kids[2], b)
        left == EmitConvert(right, object, e.op_ty)
        result == NewTemp(left, e.op_ty)
        back == EmitConvert(Add(result, << IR("binary", BinaryOp[e.op], left.value, right.value, result.value) >>),
                            result.value, e.ty)
    IN IF e.op = "=" THEN Gives(Add(right, << Copy(right.value, object) >>), object)
       ELSE Gives(Add(back, << Copy(back.value, object) >>), object)

EmitStep(e, b) ==
    LET operand == Emit(e.kids[1], b)
        x == operand.value
        by == IR("binary", IF e.op = "++" THEN "ADD" ELSE "SUB", x, Constant(1, x.ty), x)
        old == NewTemp(operand, x.ty)
    IN IF e.kind = "pre" THEN Add(operand, << by >>) ELSE Add(old, << Copy(x, old.value), by >>)

EmitConditional(e, b) ==
    LET else == b.label
        end == b.label + 1
        hasValue == e.ty # "void"
        t == IF hasValue THEN NewTemp(NewLabels(b), e.ty) ELSE Gives(NewLabels(b), NoValue)
        Result(v) == IF hasValue THEN << Copy(v, t.value) >> ELSE << >>
        cond == Emit(e.kids[1], t)
        then == Emit(e.kids[2], Add(cond, << Branch("jump_if_zero", cond.value, else) >>))
        other == Emit(e.kids[3], Add(then, Result(then.value) \o << Jump(end), Label(else) >>))
    IN Gives(Add(other, Result(other.value) \o << Label(end) >>), t.value)

\* The arguments' values wait for the call.
EmitCall(e, b) ==
    LET Args[i \in 1 .. Len(e.kids)] ==
            IF i = 1 THEN << b, << >> >>
            ELSE LET arg == Emit(e.kids[i], Args[i - 1][1])
                 IN << arg, Append(Args[i - 1][2], arg.value) >>
        all == Args[Len(e.kids)]
        t == IF e.ty = "void" THEN Gives(all[1], NoValue) ELSE NewTemp(all[1], e.ty)
    IN Add(t, << CallTo(e.kids[1].op, all[2], t.value) >>)

EmitCast(e, b) ==
    LET operand == Emit(e.kids[1], b)
    IN IF e.ty = "void" THEN Gives(operand, NoValue) ELSE EmitConvert(operand, operand.value, e.ty)

Emit(e, b) ==
    CASE e.kind = "constant" -> Gives(b, Constant(e.value, e.ty))
      [] e.kind = "identifier" -> Gives(b, Object(e.ty, e.op))
      [] e.kind = "unary" -> EmitUnary(e, b)
      [] e.kind = "binary" -> EmitBinary(e, b)
      [] e.kind = "assignment" -> EmitAssignment(e, b)
      [] e.kind \in {"pre", "post"} -> EmitStep(e, b)
      [] e.kind = "conditional" -> EmitConditional(e, b)
      [] e.kind = "call" -> EmitCall(e, b)
      [] e.kind = "cast" -> EmitCast(e, b)

-----------------------------------------------------------------------------
Init == \E n \in DOMAIN Inputs : \E size \in DOMAIN Inputs[n].exprs :
            /\ source \in Inputs[n].exprs[size]
            /\ mem \in Inputs[n].mems /\ first = mem
            /\ expr = source /\ code = << >> /\ value = NoValue
            /\ phase = "parsed" /\ pc = 0 /\ temps = << >>

Analyze == /\ phase = "parsed"
           /\ expr' = AnalyzeExpr(source)
           /\ phase' = IF expr'.bad THEN "refused" ELSE "analysed"
           /\ UNCHANGED << source, code, value, pc, mem, temps, first >>

\* Lowering takes the size of an operand's type, which a missing value lacks.
Lacking(instrs) == \E i \in DOMAIN instrs :
                       /\ instrs[i].kind \in {"unary", "binary", "copy", "cast", "jump_if_zero", "jump_if_not_zero"}
                       /\ instrs[i].lhs = NoValue

Build == /\ phase = "analysed"
         /\ LET b == Emit(expr, Builder) IN code' = b.code /\ value' = b.value
         /\ phase' = IF Lacking(code') THEN "crashed" ELSE "running"
         /\ pc' = 1
         /\ UNCHANGED << source, expr, mem, temps, first >>

-----------------------------------------------------------------------------
\* The run.
IsTemp(v) == v.kind = "pseudo" /\ v.name = ""
Read(v) == CASE v.kind = "constant" -> v.n
             [] v.kind \in {"pseudo", "static"} /\ ~IsTemp(v) -> mem[v.name]
             [] IsTemp(v) -> temps[v.n]

Executing(kinds) == phase = "running" /\ pc <= Len(code) /\ code[pc].kind \in kinds

Write(dst, n) ==
    LET v == Wrap(n, SizeOf(dst.ty))
    IN IF IsTemp(dst) THEN temps' = (dst.n :> v) @@ temps /\ UNCHANGED mem
       ELSE mem' = [mem EXCEPT ![dst.name] = v] /\ UNCHANGED temps

Compiled == UNCHANGED << source, expr, code, value, first >>
Continue == pc' = pc + 1 /\ UNCHANGED phase

ExecUnary == LET i == code[pc]
                 n == Read(i.lhs)
             IN /\ Executing({"unary"})
                /\ Write(i.dst, CASE i.op = "-" -> -n [] i.op = "~" -> -1 - n [] i.op = "!" -> Truth(n = 0))
                /\ Continue /\ Compiled

ExecBinary == LET i == code[pc]
                  size == SizeOf(i.lhs.ty)
              IN /\ Executing({"binary"})
                 /\ IF HasMeaning(i.op, size, Read(i.lhs), Read(i.rhs))
                    THEN Write(i.dst, Meaning(i.op, size, Read(i.lhs), Read(i.rhs))) /\ Continue
                    ELSE phase' = "undefined" /\ UNCHANGED << pc, mem, temps >>
                 /\ Compiled

ExecMove == /\ Executing({"copy", "cast"})
            /\ Write(code[pc].dst, Read(code[pc].lhs)) /\ Continue /\ Compiled

Taken(i) == CASE i.kind = "jump" -> TRUE
              [] i.kind = "label" -> FALSE
              [] i.kind = "jump_if_zero" -> Read(i.lhs) = 0
              [] i.kind = "jump_if_not_zero" -> Read(i.lhs) # 0

ExecJump == /\ Executing({"jump", "jump_if_zero", "jump_if_not_zero", "label"})
            /\ pc' = IF Taken(code[pc])
                     THEN CHOOSE at \in DOMAIN code : code[at] = Label(code[pc].label)
                     ELSE pc + 1
            /\ UNCHANGED << phase, mem, temps >> /\ Compiled

ExecCall == LET i == code[pc]
                done == Effect(i.op, [k \in DOMAIN i.args |-> Read(i.args[k])], mem)
            IN /\ Executing({"call"})
               /\ mem' = done.mem
               /\ temps' = IF i.dst = NoValue THEN temps ELSE (i.dst.n :> done.value) @@ temps
               /\ Continue /\ Compiled

Finish == /\ phase = "running" /\ pc = Len(code) + 1
          /\ phase' = "done" /\ UNCHANGED << pc, mem, temps >> /\ Compiled

Next == Analyze \/ Build \/ ExecUnary \/ ExecBinary \/ ExecMove \/ ExecJump \/ ExecCall \/ Finish

Spec == Init /\ [][Next]_vars

-----------------------------------------------------------------------------
\* What analyze_expr does not look at: the type of a condition, and of what
\* is cast.
Unchecked(e) == \E part \in Parts(e) :
                    \/ part.kind = "conditional" /\ ~HasValue(part.kids[1])
                    \/ part.kind = "cast" /\ part.op # "void" /\ ~HasValue(part.kids[1])

\* Otherwise exactly the expressions C gives no meaning are refused, whatever
\* an error below made the type of an operand.
RefusedExactly == phase # "parsed" /\ ~Unchecked(source) => (phase = "refused" <=> ~WellTyped(source))

\* What the expression came to: the value as the next instruction would read
\* it, and the memory.
Result == << IF expr.ty = "void" THEN Const("void", 0) ELSE Const(expr.ty, Read(value)), mem >>

\* An expression that C defines evaluates to what C allows, operands in the
\* code's order, conversions, short circuits and all: also where an operand is
\* a variable, which is read only when its value is used.
ComputesAsC ==
    phase \in {"done", "undefined"} /\ WellTyped(source) /\ Defined(source, first) =>
        phase = "done" /\ Result \in Outcomes(source, first)

\* Every instruction is as x86.c takes it for granted: operands of one type
\* but for the count of a shift, values that exist, temporaries that were
\* written, arguments as the parameters.
Operands(i) == ({i.lhs, i.rhs} \union ToSet(i.args)) \ {NoValue}
Fits(i) ==
    CASE i.kind = "unary" -> i.lhs # NoValue /\ i.dst.ty = IF i.op = "!" THEN "int" ELSE i.lhs.ty
      [] i.kind = "binary" -> /\ i.op \in {"SHL", "SHR"} \/ i.lhs.ty = i.rhs.ty
                              /\ i.dst.ty = IF i.op \in Comparison THEN "int" ELSE i.lhs.ty
      [] i.kind = "copy" -> i.lhs.ty = i.dst.ty
      [] i.kind = "cast" -> i.lhs.ty # i.dst.ty /\ i.lhs.kind # "constant"
      [] i.kind \in {"jump_if_zero", "jump_if_not_zero"} -> i.lhs # NoValue
      [] i.kind = "call" -> [k \in DOMAIN i.args |-> i.args[k].ty] = Symbols[i.op].params
      [] OTHER -> TRUE
InstructionsFit ==
    phase \in {"running", "crashed"} /\ ~Unchecked(source) /\ pc <= Len(code) =>
        /\ phase # "crashed" /\ Fits(code[pc])
        /\ \A v \in Operands(code[pc]) : IsArithmetic(v.ty) /\ (IsTemp(v) => v.n \in DOMAIN temps)

\* A constant expression folds, and what folds is what the code would compute.
IsConstantExpr(e) == HasValue(e) /\ \A part \in Parts(e) :
                         part.kind \in {"constant", "unary", "binary", "conditional", "cast"}
FoldedAsRun ==
    phase = "done" /\ WellTyped(source) /\ Defined(source, first) =>
        /\ EvalConstant(expr) # NoConstant => Result[1] = Const(expr.ty, EvalConstant(expr)[1])
        /\ IsConstantExpr(source) => EvalConstant(expr) # NoConstant

=============================================================================
