------------------------ MODULE InstructionSelection ------------------------
(***************************************************************************)
(* One IR instruction on its way through x86.c, and the instructions it   *)
(* becomes on a processor. Phase 1 lowers it as if any operand could      *)
(* stand anywhere, phase 3 (the fixups) repairs what x86-64 cannot        *)
(* encode, with %r10 and %r11 as scratch. Phase 2 is module StackSlots:   *)
(* here a pseudo is memory from the start. Calls are module StackMachine. *)
(*                                                                         *)
(* Lowered code reads no register it has not written, so one instruction  *)
(* from any content of the registers stands for a sequence of them.       *)
(***************************************************************************)
EXTENDS Arithmetic, Sequences

CONSTANTS
    Object,              \* the program's variables: [kind, ty, name]
    IntValue, LongValue, \* values of constants and variables
    Junk                 \* what a register or a fresh temporary may hold

ASSUME SelectionAssumption ==
    /\ Object \subseteq [kind : {"pseudo", "static"}, ty : CType, name : STRING]
    /\ {0, 1} \subseteq IntValue /\ IntValue \subseteq LongValue
    /\ IntValue \subseteq SignedRange("longword")
    /\ LongValue \subseteq SignedRange("quadword")
    /\ Junk \subseteq SignedRange("longword")

VARIABLES
    instr,     \* the IR instruction
    old,       \* lowered instructions the fixups have not reached
    code,      \* the instructions to be written
    phase,     \* "lower", "fixup", "run", "done" or "fault"
    pc,        \* the instruction of code that runs next
    regs, mem, \* registers; variables and the temporary by their value
    flags,     \* << dst, src >> of the last cmp
    outcome,   \* "next", "jumped" or "returned"
    before     \* history: mem when the instruction starts

compiler == << instr, old, code >>
vars == << compiler, phase, pc, regs, mem, flags, outcome, before >>

-----------------------------------------------------------------------------
\* The IR instructions ir.c emits. Operands have the types the conversions of
\* sema.c gave them; constants are never cast at run time.
Constant(ty, n) == [kind |-> "constant", ty |-> ty, constant |-> n]
Temp(ty) == [kind |-> "pseudo", ty |-> ty, name |-> "temp"]
NoValue == [kind |-> "none"]

ObjectsOf(ty) == {o \in Object : o.ty = ty}
ValuesOf(ty) == {Constant(ty, n) : n \in IF ty = "int" THEN IntValue ELSE LongValue}
                    \cup ObjectsOf(ty)

IR(kind, op, lhs, rhs, dst) ==
    [kind |-> kind, op |-> op, lhs |-> lhs, rhs |-> rhs, dst |-> dst]

Arith == {"ADD", "SUB", "MUL", "DIV", "REM", "BIT_AND", "BIT_OR", "BIT_XOR"}
Shift == {"SHL", "SHR"}

UnaryInstr(ty) ==
    {IR("unary", op, src, NoValue, Temp(ty)) : op \in {"NEG", "BIT_NOT"}, src \in ValuesOf(ty)}
        \cup {IR("unary", "LOG_NOT", src, NoValue, Temp("int")) : src \in ValuesOf(ty)}

BinaryInstr(ty) ==
    {IR("binary", op, lhs, rhs, Temp(ty)) : op \in Arith, lhs, rhs \in ValuesOf(ty)}
        \cup {IR("binary", op, lhs, rhs, Temp("int")) :
                 op \in Comparison, lhs, rhs \in ValuesOf(ty)}
        \cup {IR("binary", op, lhs, rhs, Temp(ty)) :
                 op \in Shift, lhs \in ValuesOf(ty), rhs \in ValuesOf("int") \cup ValuesOf("long")}
        \cup {IR("binary", op, x, Constant(ty, 1), x) : op \in {"ADD", "SUB"}, x \in ObjectsOf(ty)}

MoveInstr(ty) ==
    {IR("copy", "none", src, NoValue, dst) : src \in ValuesOf(ty), dst \in ObjectsOf(ty) \cup {Temp(ty)}}
        \cup {IR("cast", "none", src, NoValue, Temp(ty)) :
                 src \in {o \in Object : o.ty # ty}}

JumpInstr(ty) ==
    {IR(kind, "none", cond, NoValue, NoValue) :
        kind \in {"jump_if_zero", "jump_if_not_zero"}, cond \in ValuesOf(ty)}
        \cup {IR("return", "none", src, NoValue, NoValue) : src \in ValuesOf(ty) \cup {NoValue}}
        \cup {IR(kind, "none", NoValue, NoValue, NoValue) : kind \in {"jump", "label"}}

Instr == UNION {UnaryInstr(ty) \cup BinaryInstr(ty) \cup MoveInstr(ty) \cup JumpInstr(ty) :
                   ty \in CType}

Located(v) == v.kind \in {"pseudo", "static"}
Locations(i) == {v \in {i.lhs, i.rhs, i.dst} : Located(v)}

-----------------------------------------------------------------------------
\* Operands and instructions of x86.h. src is also the divisor of idiv.
NoOperand == [kind |-> "none"]
Imm(n) == [kind |-> "imm", imm |-> n]
Reg(r) == [kind |-> "reg", reg |-> r]

\* operand_from_value, after phase 2
Operand(v) == CASE v.kind = "constant" -> Imm(v.constant)
                [] v.kind = "pseudo" -> [kind |-> "stack", loc |-> v]
                [] v.kind = "static" -> [kind |-> "data", loc |-> v]

Asm(kind, size, op, src, dst) ==
    [kind |-> kind, size |-> size, op |-> op, src |-> src, dst |-> dst]
Mov(size, src, dst) == Asm("mov", size, "none", src, dst)
Movsx(src, dst) == Asm("movsx", "quadword", "none", src, dst)
Unary(size, op, dst) == Asm("unary", size, op, NoOperand, dst)
Binary(size, op, src, dst) == Asm("binary", size, op, src, dst)
Cmp(size, src, dst) == Asm("cmp", size, "none", src, dst)
Idiv(size, divisor) == Asm("idiv", size, "none", divisor, NoOperand)
Cdq(size) == Asm("cdq", size, "none", NoOperand, NoOperand)
Setcc(cond, dst) == Asm("setcc", "byte", cond, NoOperand, dst)
Jmp == Asm("jmp", "quadword", "none", NoOperand, NoOperand)
Jmpcc(cond) == Asm("jmpcc", "quadword", cond, NoOperand, NoOperand)
Label == Asm("label", "quadword", "none", NoOperand, NoOperand)
Ret == Asm("ret", "quadword", "none", NoOperand, NoOperand)

\* convert_unary_op, convert_binary_op, convert_cond
ConvertOp ==
    [NEG |-> "neg", BIT_NOT |-> "not", ADD |-> "add", SUB |-> "sub", MUL |-> "imul",
     BIT_AND |-> "and", BIT_OR |-> "or", BIT_XOR |-> "xor", SHL |-> "sal", SHR |-> "sar",
     EQ |-> "e", NE |-> "ne", LT |-> "l", LE |-> "le", GT |-> "g", GE |-> "ge"]

-----------------------------------------------------------------------------
\* Phase 1, lower_ir_instr.
SetFrom(compare, cond, dst) ==
    << compare, Mov(SizeOf(dst.ty), Imm(0), Operand(dst)), Setcc(cond, Operand(dst)) >>

LowerUnary(i) ==
    LET size == SizeOf(i.dst.ty)
    IN IF i.op = "LOG_NOT"
       THEN SetFrom(Cmp(SizeOf(i.lhs.ty), Imm(0), Operand(i.lhs)), "e", i.dst)
       ELSE << Mov(size, Operand(i.lhs), Operand(i.dst)),
               Unary(size, ConvertOp[i.op], Operand(i.dst)) >>

LowerDivision(i) ==
    LET size == SizeOf(i.lhs.ty)
    IN << Mov(size, Operand(i.lhs), Reg("ax")), Cdq(size), Idiv(size, Operand(i.rhs)),
          Mov(size, Reg(IF i.op = "DIV" THEN "ax" ELSE "dx"), Operand(i.dst)) >>

\* Mutant: the operands in the order the IR has them.
LowerComparison_Unswapped(i) ==
    SetFrom(Cmp(SizeOf(i.lhs.ty), Operand(i.lhs), Operand(i.rhs)), ConvertOp[i.op], i.dst)

\* Mutant: dst is cleared with an xor, after the comparison.
LowerComparison_Xor(i) ==
    << Cmp(SizeOf(i.lhs.ty), Operand(i.rhs), Operand(i.lhs)),
       Binary(SizeOf(i.dst.ty), "xor", Operand(i.dst), Operand(i.dst)),
       Setcc(ConvertOp[i.op], Operand(i.dst)) >>

LowerComparison(i) ==
    SetFrom(Cmp(SizeOf(i.lhs.ty), Operand(i.rhs), Operand(i.lhs)), ConvertOp[i.op], i.dst)

\* Mutant: the count is read at the size of what is shifted.
LowerShift_CountSize(i) ==
    LET size == SizeOf(i.dst.ty)
        shift(count) == Binary(size, ConvertOp[i.op], count, Operand(i.dst))
    IN << Mov(size, Operand(i.lhs), Operand(i.dst)) >>
       \o IF i.rhs.kind = "constant" THEN << shift(Imm(i.rhs.constant)) >>
          ELSE << Mov(size, Operand(i.rhs), Reg("cx")), shift(Reg("cx")) >>

LowerShift(i) ==
    LET size == SizeOf(i.dst.ty)
        shift(count) == Binary(size, ConvertOp[i.op], count, Operand(i.dst))
    IN << Mov(size, Operand(i.lhs), Operand(i.dst)) >>
       \o IF i.rhs.kind = "constant" THEN << shift(Imm(i.rhs.constant)) >>
          ELSE << Mov(SizeOf(i.rhs.ty), Operand(i.rhs), Reg("cx")), shift(Reg("cx")) >>

LowerBinary(i) ==
    LET size == SizeOf(i.dst.ty)
    IN CASE i.op \in {"DIV", "REM"} -> LowerDivision(i)
         [] i.op \in Comparison -> LowerComparison(i)
         [] i.op \in Shift -> LowerShift(i)
         [] OTHER -> << Mov(size, Operand(i.lhs), Operand(i.dst)),
                        Binary(size, ConvertOp[i.op], Operand(i.rhs), Operand(i.dst)) >>

LowerCast(i) == IF i.dst.ty = "long" /\ i.lhs.ty = "int"
                THEN << Movsx(Operand(i.lhs), Operand(i.dst)) >>
                ELSE << Mov("longword", Operand(i.lhs), Operand(i.dst)) >>

LowerReturn(i) ==
    (IF i.lhs = NoValue THEN << >>
     ELSE << Mov(SizeOf(i.lhs.ty), Operand(i.lhs), Reg("ax")) >>) \o << Ret >>

LowerCondJump(i) ==
    << Cmp(SizeOf(i.lhs.ty), Imm(0), Operand(i.lhs)),
       Jmpcc(IF i.kind = "jump_if_zero" THEN "e" ELSE "ne") >>

LowerInstr(i) ==
    CASE i.kind = "return" -> LowerReturn(i)
      [] i.kind = "unary" -> LowerUnary(i)
      [] i.kind = "binary" -> LowerBinary(i)
      [] i.kind = "copy" -> << Mov(SizeOf(i.dst.ty), Operand(i.lhs), Operand(i.dst)) >>
      [] i.kind = "cast" -> LowerCast(i)
      [] i.kind = "jump" -> << Jmp >>
      [] i.kind \in {"jump_if_zero", "jump_if_not_zero"} -> LowerCondJump(i)
      [] i.kind = "label" -> << Label >>

-----------------------------------------------------------------------------
\* Phase 3, fixup_instr: one lowered instruction becomes one or more.
IsMemory(o) == o.kind \in {"stack", "data"}
IsImm(o) == o.kind = "imm"
IsLargeImm(o) == IsImm(o) /\ o.imm \notin SignedRange("longword")

R10 == Reg("r10")
R11 == Reg("r11")

FixupMov(i) ==
    LET src == IF i.size = "longword" /\ IsImm(i.src) THEN Imm(Wrap(i.src.imm, "longword"))
               ELSE i.src
    IN IF (IsMemory(src) /\ IsMemory(i.dst)) \/ IsLargeImm(src)
       THEN << Mov(i.size, src, R10), Mov(i.size, R10, i.dst) >>
       ELSE << Mov(i.size, src, i.dst) >>

FixupMovsx(i) ==
    LET src == IF IsImm(i.src) THEN R10 ELSE i.src
    IN (IF IsImm(i.src) THEN << Mov("longword", i.src, R10) >> ELSE << >>)
       \o IF IsMemory(i.dst) THEN << Movsx(src, R11), Mov("quadword", R11, i.dst) >>
          ELSE << Movsx(src, i.dst) >>

\* The source of binary and cmp moves to %r10 if it cannot be encoded.
SrcMoves(i) == (IsMemory(i.src) /\ IsMemory(i.dst)) \/ IsLargeImm(i.src)
FixedSrc(i) == IF SrcMoves(i) THEN R10 ELSE i.src
MoveSrc(i) == IF SrcMoves(i) THEN << Mov(i.size, i.src, R10) >> ELSE << >>

\* Mutant: a source that moves away makes room for imul's memory operand.
FixupBinary_ImulToMemory(i) ==
    MoveSrc(i) \o
    (IF i.op = "imul" /\ IsMemory(i.dst) /\ ~SrcMoves(i)
     THEN << Mov(i.size, i.dst, R11), Binary(i.size, i.op, FixedSrc(i), R11),
             Mov(i.size, R11, i.dst) >>
     ELSE << Binary(i.size, i.op, FixedSrc(i), i.dst) >>)

FixupBinary(i) ==
    MoveSrc(i) \o
    (IF i.op = "imul" /\ IsMemory(i.dst)
     THEN << Mov(i.size, i.dst, R11), Binary(i.size, i.op, FixedSrc(i), R11),
             Mov(i.size, R11, i.dst) >>
     ELSE << Binary(i.size, i.op, FixedSrc(i), i.dst) >>)

FixupIdiv(i) == IF IsImm(i.src) THEN << Mov(i.size, i.src, R10), Idiv(i.size, R10) >>
                ELSE << Idiv(i.size, i.src) >>

FixupCmp(i) ==
    MoveSrc(i) \o
    (IF IsImm(i.dst) THEN << Mov(i.size, i.dst, R11), Cmp(i.size, FixedSrc(i), R11) >>
     ELSE << Cmp(i.size, FixedSrc(i), i.dst) >>)

FixupInstr(i) ==
    CASE i.kind = "mov" -> FixupMov(i)
      [] i.kind = "movsx" -> FixupMovsx(i)
      [] i.kind = "binary" -> FixupBinary(i)
      [] i.kind = "idiv" -> FixupIdiv(i)
      [] i.kind = "cmp" -> FixupCmp(i)
      [] OTHER -> << i >>

-----------------------------------------------------------------------------
\* The processor. A narrow write to memory leaves the rest of the variable, a
\* write of 4 bytes to a register clears the upper half.
Register == {"ax", "cx", "dx", "r10", "r11"}
NoFlags == << >>

Deposit(whole, v, size) == whole - (whole % 2 ^ Bits(size)) + (v % 2 ^ Bits(size))

Read(o, size) == Wrap(CASE IsImm(o) -> o.imm
                        [] o.kind = "reg" -> regs[o.reg]
                        [] IsMemory(o) -> mem[o.loc], size)

Write(o, size, v) ==
    IF IsMemory(o)
    THEN /\ mem' = [mem EXCEPT ![o.loc] = Wrap(Deposit(@, v, size), SizeOf(o.loc.ty))]
         /\ UNCHANGED regs
    ELSE /\ regs' = [regs EXCEPT ![o.reg] =
                        IF size = "longword" THEN v % 2 ^ Bits(size)
                        ELSE Wrap(Deposit(@, v, size), "quadword")]
         /\ UNCHANGED mem

\* The count of a shift is the low byte of %cx, taken modulo the width.
Alu(op, size, src, dst) ==
    CASE op = "add" -> Wrap(dst + src, size)
      [] op = "sub" -> Wrap(dst - src, size)
      [] op = "imul" -> Wrap(dst * src, size)
      [] op \in {"and", "or", "xor"} ->
            Meaning([and |-> "BIT_AND", or |-> "BIT_OR", xor |-> "BIT_XOR"][op], size, dst, src)
      [] op = "sal" -> Wrap(dst * 2 ^ ((src % 2 ^ ByteBits) % Bits(size)), size)
      [] op = "sar" -> dst \div 2 ^ ((src % 2 ^ ByteBits) % Bits(size))

Holds(cond) == Compare(CHOOSE op \in Comparison : ConvertOp[op] = cond, flags[1], flags[2])

At(kinds) == phase = "run" /\ pc <= Len(code) /\ code[pc].kind \in kinds
Cur == code[pc]

Advance == pc' = pc + 1 /\ UNCHANGED << compiler, phase, outcome, before >>
Stop(where, how) == /\ phase' = where /\ outcome' = how
                    /\ UNCHANGED << compiler, pc, mem, regs, flags, before >>

ExecMov == /\ At({"mov"}) /\ Write(Cur.dst, Cur.size, Read(Cur.src, Cur.size))
           /\ Advance /\ UNCHANGED flags

ExecMovsx == /\ At({"movsx"}) /\ Write(Cur.dst, "quadword", Read(Cur.src, "longword"))
             /\ Advance /\ UNCHANGED flags

ExecUnary == /\ At({"unary"})
             /\ LET v == Read(Cur.dst, Cur.size)
                IN Write(Cur.dst, Cur.size, Wrap(IF Cur.op = "neg" THEN -v ELSE -v - 1, Cur.size))
             /\ Advance /\ flags' = NoFlags

ExecBinary == /\ At({"binary"})
              /\ Write(Cur.dst, Cur.size, Alu(Cur.op, Cur.size, Read(Cur.src, Cur.size),
                                              Read(Cur.dst, Cur.size)))
              /\ Advance /\ flags' = NoFlags

ExecCmp == /\ At({"cmp"}) /\ flags' = << Read(Cur.dst, Cur.size), Read(Cur.src, Cur.size) >>
           /\ Advance /\ UNCHANGED << regs, mem >>

ExecSetcc == /\ At({"setcc"}) /\ Write(Cur.dst, "byte", Truth(Holds(Cur.op)))
             /\ Advance /\ UNCHANGED flags

ExecCdq == /\ At({"cdq"})
           /\ Write(Reg("dx"), Cur.size, IF Read(Reg("ax"), Cur.size) < 0 THEN -1 ELSE 0)
           /\ Advance /\ UNCHANGED flags

Dividend(size) == Read(Reg("dx"), size) * 2 ^ Bits(size)
                      + (Read(Reg("ax"), size) % 2 ^ Bits(size))

\* #DE if there is no quotient or it does not fit.
Divides(size, d) == d # 0 /\ Quotient(Dividend(size), d) \in SignedRange(size)

ExecIdiv ==
    /\ At({"idiv"}) /\ Divides(Cur.size, Read(Cur.src, Cur.size))
    /\ LET half(v) == IF Cur.size = "longword" THEN v % 2 ^ IntBits ELSE v
           d == Read(Cur.src, Cur.size)
       IN regs' = [regs EXCEPT !.ax = half(Quotient(Dividend(Cur.size), d)),
                               !.dx = half(Remainder(Dividend(Cur.size), d))]
    /\ Advance /\ flags' = NoFlags /\ UNCHANGED mem

Fault == /\ At({"idiv"}) /\ ~Divides(Cur.size, Read(Cur.src, Cur.size))
         /\ Stop("fault", outcome)

ExecJump == \/ At({"jmp"}) /\ Stop("done", "jumped")
            \/ At({"jmpcc"}) /\ Stop("done", IF Holds(Cur.op) THEN "jumped" ELSE "next")
            \/ At({"ret"}) /\ Stop("done", "returned")

ExecLabel == At({"label"}) /\ Advance /\ UNCHANGED << regs, mem, flags >>

End == phase = "run" /\ pc > Len(code) /\ Stop("done", "next")

Execute == ExecMov \/ ExecMovsx \/ ExecUnary \/ ExecBinary \/ ExecCmp \/ ExecSetcc \/ ExecCdq
               \/ ExecIdiv \/ Fault \/ ExecJump \/ ExecLabel \/ End

-----------------------------------------------------------------------------
Init == /\ instr \in Instr
        /\ old = << >> /\ code = << >> /\ phase = "lower" /\ pc = 1
        /\ \E junk \in Junk :
              /\ regs = [r \in Register |-> junk]
              /\ mem \in {m \in [Locations(instr) -> LongValue \cup Junk] :
                             \A v \in Locations(instr) :
                                m[v] \in IF v.name = "temp" THEN {junk}
                                         ELSE IF v.ty = "int" THEN IntValue ELSE LongValue}
        /\ flags = NoFlags /\ outcome = "next" /\ before = mem

Lower == /\ phase = "lower" /\ phase' = "fixup"
         /\ old' = LowerInstr(instr)
         /\ UNCHANGED << instr, code, pc, regs, mem, flags, outcome, before >>

Fixup == /\ phase = "fixup"
         /\ IF old = << >> THEN phase' = "run" /\ UNCHANGED << old, code >>
            ELSE /\ old' = Tail(old) /\ code' = code \o FixupInstr(Head(old))
                 /\ UNCHANGED phase
         /\ UNCHANGED << instr, pc, regs, mem, flags, outcome, before >>

Terminated == phase \in {"done", "fault"} /\ UNCHANGED vars

Next == Lower \/ Fixup \/ Execute \/ Terminated

Spec == Init /\ [][Next]_vars

-----------------------------------------------------------------------------
\* The operators and conditions x86.h has for a kind of instruction.
OpsOf(kind) ==
    CASE kind = "unary" -> {"neg", "not"}
      [] kind = "binary" -> {"add", "sub", "imul", "and", "or", "xor", "sal", "sar"}
      [] kind \in {"setcc", "jmpcc"} -> {"e", "ne", "g", "ge", "l", "le"}
      [] OTHER -> {"none"}

\* What x86-64 can encode: one memory operand, an immediate of 32 bits except
\* in a 64-bit move to a register, registers where it asks for them.
ImmFits(i) == ~IsImm(i.src) \/ IF i.kind = "mov" /\ i.size = "quadword" /\ i.dst.kind = "reg"
                               THEN i.src.imm \in SignedRange("quadword")
                               ELSE i.src.imm \in SignedRange("longword")

IsShift(i) == i.kind = "binary" /\ i.op \in {"sal", "sar"}

ByteImm == -(2 ^ (ByteBits - 1)) .. 2 ^ ByteBits - 1

Encodable(i) ==
    /\ ~(IsMemory(i.src) /\ IsMemory(i.dst))
    /\ ~IsImm(i.dst) /\ ImmFits(i)
    /\ i.kind \in {"movsx", "idiv"} => ~IsImm(i.src)
    /\ i.kind = "movsx" \/ i.op = "imul" => i.dst.kind = "reg"
    /\ IsShift(i) => i.src = Reg("cx") \/ (IsImm(i.src) /\ i.src.imm \in ByteImm)

\* A shift by a constant that is no byte. The code it becomes is the subject of
\* CountIsImmOrCl.
LargeCount(i) == i.op \in Shift /\ i.rhs.kind = "constant" /\ i.rhs.constant \notin ByteImm

\* After the fixups the assembler can encode every instruction, whatever mix of
\* constants, variables and statics the operands are.
EncodableCode == phase \in {"run", "done", "fault"} /\ ~LargeCount(instr) =>
                    \A k \in DOMAIN code : Encodable(code[k])

\* "The shift count may be immediate or %cl" (lower_binary): in the code that
\* is written it is one of the two.
CountIsImmOrCl == phase = "run" => \A k \in DOMAIN code :
    IsShift(code[k]) => IsImm(code[k].src) \/ code[k].src = Reg("cx")

\* No instruction reaches past the variable it names into its neighbour's slot:
\* an operand is never accessed at a size larger than its own.
AccessesFit ==
    \A k \in DOMAIN code : \A o \in {code[k].src, code[k].dst} :
        IsMemory(o) =>
            Bits(IF code[k].kind = "movsx" /\ o = code[k].src THEN "longword" ELSE code[k].size)
                <= Bits(SizeOf(o.loc.ty))

\* What reads the flags finds those of the comparison it was lowered with: no
\* fixup puts an instruction that changes them in between.
FlagsReachReader == At({"setcc", "jmpcc"}) => flags # NoFlags

-----------------------------------------------------------------------------
\* What the IR instruction means.
Val(v) == IF v.kind = "constant" THEN v.constant ELSE before[v]

Defined == instr.kind = "binary" =>
              HasMeaning(instr.op, SizeOf(instr.lhs.ty), Val(instr.lhs), Val(instr.rhs))

Result == LET a == Val(instr.lhs)
              size == SizeOf(instr.dst.ty)
          IN CASE instr.op = "NEG" -> Wrap(-a, size)
               [] instr.op = "BIT_NOT" -> -a - 1
               [] instr.op = "LOG_NOT" -> Truth(a = 0)
               [] instr.kind = "binary" -> Meaning(instr.op, size, a, Val(instr.rhs))
               [] instr.kind \in {"copy", "cast"} -> Wrap(a, size)

MemAfter == IF Located(instr.dst) THEN [before EXCEPT ![instr.dst] = Result] ELSE before

OutcomeAfter == CASE instr.kind = "return" -> "returned"
                  [] instr.kind = "jump" -> "jumped"
                  [] instr.kind = "jump_if_zero" -> IF Val(instr.lhs) = 0 THEN "jumped" ELSE "next"
                  [] instr.kind = "jump_if_not_zero" -> IF Val(instr.lhs) = 0 THEN "next" ELSE "jumped"
                  [] OTHER -> "next"

\* The instructions do what the IR instruction means: the destination has its
\* value at its own width, every other variable keeps the one it had, the jump
\* is taken exactly when it should be, a return leaves its value in %rax. A
\* division stops the program only where C gives it no value.
ComputesMeaning ==
    /\ phase = "fault" => ~Defined
    /\ phase = "done" /\ Defined =>
          /\ mem = MemAfter /\ outcome = OutcomeAfter
          /\ instr.kind = "return" /\ instr.lhs # NoValue =>
                Read(Reg("ax"), SizeOf(instr.lhs.ty)) = Val(instr.lhs)
=============================================================================
