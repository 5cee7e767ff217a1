--------------------- MODULE InstructionSelection_proof ---------------------
(***************************************************************************)
(* For all widths, variables and constants: what phase 3 writes can be    *)
(* encoded, its accesses stay inside the objects they name, and the flags *)
(* of a comparison reach the instruction that reads them. Phase 1 emits   *)
(* instructions of a few shapes (Fixable), which the fixups turn into     *)
(* instructions the processor has.                                        *)
(***************************************************************************)
EXTENDS InstructionSelection, TLAPS

Location == Object \cup {Temp(ty) : ty \in CType}
IRValue == ValuesOf("int") \cup ValuesOf("long") \cup {Temp(ty) : ty \in CType}

AnyOperand == {NoOperand} \cup {Imm(n) : n \in Int} \cup {Reg(r) : r \in Register}
                  \cup {[kind |-> k, loc |-> v] : k \in {"stack", "data"}, v \in Location}

Size == {"byte", "longword", "quadword"}
Kind == {"mov", "movsx", "unary", "binary", "cmp", "idiv", "cdq", "setcc", "jmp", "jmpcc",
         "label", "ret"}
Op == {"none", "neg", "not", "add", "sub", "imul", "and", "or", "xor", "sal", "sar",
       "e", "ne", "g", "ge", "l", "le"}
AsmInstr == [kind : Kind, size : Size, op : Op, src : AnyOperand, dst : AnyOperand]

Fits(o, size) == IsImm(o) => o.imm \in SignedRange(size)

\* What phase 1 promises the fixups of an instruction.
Fixable(i) ==
    /\ Fits(i.src, i.size) /\ Fits(i.dst, i.size)
    /\ i.kind \in {"mov", "binary", "cmp", "idiv"} => i.size \in {"longword", "quadword"}
    /\ i.kind # "cmp" => ~IsImm(i.dst)
    /\ i.kind = "movsx" => IsMemory(i.src) /\ IsMemory(i.dst)
    /\ i.kind \notin {"mov", "movsx", "binary", "cmp", "idiv"} => i.src = NoOperand
    /\ i.kind = "binary" => i.dst.kind = "reg" \/ IsMemory(i.dst)
    /\ i.op = "imul" => i.kind = "binary"
    /\ IsShift(i) => i.src = Reg("cx") \/ (IsImm(i.src) /\ i.src.imm \in ByteImm)

FixableInstr == {i \in AsmInstr : Fixable(i)}
EncodableInstr == {i \in AsmInstr : Encodable(i)}

-----------------------------------------------------------------------------
\* The ranges lie in one another.
LEMMA Ranges ==
    /\ SignedRange("longword") \subseteq SignedRange("quadword")
    /\ ByteImm \subseteq SignedRange("longword")
    /\ 0 \in SignedRange("longword")
    /\ SignedRange("quadword") \subseteq Int
<1> DEFINE b == 2 ^ ByteBits
           c == 2 ^ (ByteBits - 1)
           h == 2 ^ (IntBits - 1)
           l == 2 ^ (LongBits - 1)
<1>1. /\ b \in Nat \ {0} /\ c \in Nat \ {0} /\ h \in Nat \ {0} /\ l \in Nat \ {0}
      /\ c <= b /\ b <= h /\ h <= l
  BY PowersAssumption
<1>2. /\ SignedRange("longword") = -h .. h - 1
      /\ SignedRange("quadword") = -l .. l - 1
      /\ ByteImm = -c .. b - 1
  BY DEF SignedRange, Bits, ByteImm
<1> HIDE DEF b, c, h, l
<1> QED
  BY <1>1, <1>2

\* A wrapped number is in range.
LEMMA WrapFits ==
    ASSUME NEW v \in Int
    PROVE  Wrap(v, "longword") \in SignedRange("longword")
<1> DEFINE h == 2 ^ (IntBits - 1)
<1>1. h \in Nat \ {0}
  BY PowersAssumption
<1>2. /\ SignedRange("longword") = -h .. h - 1
      /\ Wrap(v, "longword") = ((v + h) % (2 * h)) - h
  BY DEF SignedRange, Bits, Wrap
<1> HIDE DEF h
<1>3. 2 * h \in Nat \ {0} /\ v + h \in Int
  BY <1>1
<1> DEFINE d == 2 * h
           a == v + h
<1> HIDE DEF d, a
<1>4. a % d \in 0 .. d - 1
  BY <1>3 DEF d, a
<1>5. ((v + h) % (2 * h)) \in 0 .. 2 * h - 1
  BY <1>4 DEF d, a
<1> QED
  BY <1>1, <1>2, <1>5

\* An operand of phase 1 fits the size of its type.
LEMMA OperandFits ==
    ASSUME NEW v \in IRValue
    PROVE  /\ v.ty \in CType
           /\ Operand(v) \in AnyOperand
           /\ Fits(Operand(v), SizeOf(v.ty))
           /\ v.kind # "constant" => IsMemory(Operand(v)) /\ v \in Location
           /\ v.kind = "constant" => /\ Operand(v) = Imm(v.constant)
                                     /\ v.constant \in SignedRange("quadword")
           /\ v.kind \in {"constant", "pseudo", "static"}
<1>1. CASE v \in Object \cup {Temp(ty) : ty \in CType}
  <2>1. v.ty \in CType /\ v.kind \in {"pseudo", "static"} /\ v \in Location
    BY <1>1, SelectionAssumption DEF Temp, Location
  <2>2. Operand(v) = [kind |-> "stack", loc |-> v] \/ Operand(v) = [kind |-> "data", loc |-> v]
    BY <2>1 DEF Operand
  <2> QED
    BY <2>1, <2>2 DEF AnyOperand, Fits, IsImm, IsMemory
<1>2. CASE \E ty \in CType : \E n \in Int :
              /\ v = Constant(ty, n)
              /\ ty = "int" => n \in SignedRange("longword")
              /\ n \in SignedRange("quadword")
  <2>1. PICK ty \in CType, n \in Int : /\ v = Constant(ty, n)
                                       /\ ty = "int" => n \in SignedRange("longword")
                                       /\ n \in SignedRange("quadword")
    BY <1>2
  <2>2. v.ty = ty /\ v.kind = "constant" /\ v.constant = n
    BY <2>1 DEF Constant
  <2>3. Operand(v) = Imm(n)
    BY <2>2 DEF Operand
  <2>4. Fits(Operand(v), SizeOf(ty))
    BY <2>1, <2>3 DEF Fits, Imm, SizeOf, CType
  <2> QED
    BY <2>2, <2>3, <2>4, <2>1 DEF AnyOperand
<1> QED
  BY <1>1, <1>2, Ranges, SelectionAssumption DEF IRValue, ValuesOf, ObjectsOf, CType

-----------------------------------------------------------------------------
\* Registers as operands.
LEMMA Scratch ==
    \A r \in Register : /\ Reg(r) \in AnyOperand /\ ~IsMemory(Reg(r)) /\ ~IsImm(Reg(r))
                        /\ Reg(r).kind = "reg"
  BY DEF AnyOperand, Reg, IsMemory, IsImm

LEMMA NoOperandIs == NoOperand \in AnyOperand /\ ~IsMemory(NoOperand) /\ ~IsImm(NoOperand)
  BY DEF AnyOperand, NoOperand, IsMemory, IsImm

\* A mov the assembler takes.
LEMMA MovEncodes ==
    ASSUME NEW size \in {"longword", "quadword"},
           NEW src \in AnyOperand, NEW dst \in AnyOperand,
           ~(IsMemory(src) /\ IsMemory(dst)), ~IsImm(dst), Fits(src, size),
           IsLargeImm(src) => dst.kind = "reg"
    PROVE  Mov(size, src, dst) \in EncodableInstr
<1> DEFINE i == Mov(size, src, dst)
<1>1. /\ i.kind = "mov" /\ i.size = size /\ i.op = "none" /\ i.src = src /\ i.dst = dst
      /\ i \in AsmInstr
  BY DEF Mov, Asm, AsmInstr, Size, Kind, Op
<1>2. ImmFits(i)
  BY <1>1, Ranges DEF ImmFits, Fits, IsLargeImm
<1> QED
  BY <1>1, <1>2 DEF EncodableInstr, Encodable, IsShift

\* One of the others.
LEMMA FixupMovEncodes ==
    ASSUME NEW i \in FixableInstr, i.kind = "mov"
    PROVE  FixupMov(i) \in Seq(EncodableInstr)
<1> DEFINE src == IF i.size = "longword" /\ IsImm(i.src)
                  THEN Imm(Wrap(i.src.imm, "longword")) ELSE i.src
<1>1. /\ i.src \in AnyOperand /\ i.dst \in AnyOperand /\ ~IsImm(i.dst)
      /\ i.size \in {"longword", "quadword"} /\ Fits(i.src, i.size)
  BY DEF FixableInstr, Fixable, AsmInstr
<1>2. src \in AnyOperand /\ Fits(src, i.size)
  <2>1. CASE i.size = "longword" /\ IsImm(i.src)
    <3>1. i.src.imm \in Int
      BY <1>1, <2>1, Ranges DEF Fits
    <3>2. Wrap(i.src.imm, "longword") \in SignedRange("longword")
      BY <3>1, WrapFits
    <3> QED
      BY <2>1, <3>2, Ranges DEF AnyOperand, Fits, Imm
  <2> QED
    BY <1>1, <2>1
<1>3. FixupMov(i) = IF (IsMemory(src) /\ IsMemory(i.dst)) \/ IsLargeImm(src)
                    THEN << Mov(i.size, src, R10), Mov(i.size, R10, i.dst) >>
                    ELSE << Mov(i.size, src, i.dst) >>
  BY DEF FixupMov
<1>4. /\ R10 \in AnyOperand /\ ~IsMemory(R10) /\ ~IsImm(R10) /\ R10.kind = "reg"
  BY Scratch DEF R10, Register
<1> HIDE DEF src
<1>5. Mov(i.size, src, R10) \in EncodableInstr
  BY <1>1, <1>2, <1>4, MovEncodes
<1>6. Fits(R10, i.size) /\ ~IsLargeImm(R10)
  BY <1>4 DEF Fits, IsLargeImm
<1>7. Mov(i.size, R10, i.dst) \in EncodableInstr
  BY <1>1, <1>4, <1>6, MovEncodes
<1>8. ASSUME ~((IsMemory(src) /\ IsMemory(i.dst)) \/ IsLargeImm(src))
      PROVE  Mov(i.size, src, i.dst) \in EncodableInstr
  BY <1>1, <1>2, <1>8, MovEncodes
<1> QED
  BY <1>3, <1>5, <1>7, <1>8

LEMMA FixupMovsxEncodes ==
    ASSUME NEW i \in FixableInstr, i.kind = "movsx"
    PROVE  FixupMovsx(i) \in Seq(EncodableInstr)
<1>1. /\ i.src \in AnyOperand /\ i.dst \in AnyOperand /\ ~IsImm(i.dst)
      /\ IsMemory(i.src) /\ ~IsImm(i.src) /\ IsMemory(i.dst)
  BY DEF FixableInstr, Fixable, AsmInstr, IsMemory, IsImm
<1>2. /\ R11 \in AnyOperand /\ ~IsMemory(R11) /\ ~IsImm(R11) /\ R11.kind = "reg"
  BY Scratch DEF R11, Register
<1>3. FixupMovsx(i) = << Movsx(i.src, R11), Mov("quadword", R11, i.dst) >>
  BY <1>1 DEF FixupMovsx
<1>4. Fits(R11, "quadword") /\ ~IsLargeImm(R11)
  BY <1>2 DEF Fits, IsLargeImm
<1>5. Mov("quadword", R11, i.dst) \in EncodableInstr
  BY <1>1, <1>2, <1>4, MovEncodes
<1>6. Movsx(i.src, R11) \in AsmInstr
  BY <1>1, <1>2 DEF Movsx, Asm, AsmInstr, Size, Kind, Op
<1>7. Encodable(Movsx(i.src, R11))
  BY <1>1, <1>2 DEF Movsx, Asm, Encodable, ImmFits, IsShift
<1> QED
  BY <1>3, <1>5, <1>6, <1>7 DEF EncodableInstr

\* The source of binary and cmp after it has moved, if it must.
LEMMA MoveSrcEncodes ==
    ASSUME NEW i \in FixableInstr, i.kind \in {"binary", "cmp"}
    PROVE  /\ FixedSrc(i) \in AnyOperand /\ ~IsLargeImm(FixedSrc(i))
           /\ ~(IsMemory(FixedSrc(i)) /\ IsMemory(i.dst))
           /\ IsImm(FixedSrc(i)) => FixedSrc(i).imm \in SignedRange("longword")
           /\ MoveSrc(i) \in Seq(EncodableInstr)
           /\ IsShift(i) => FixedSrc(i) = i.src
<1>1. /\ i.src \in AnyOperand /\ i.dst \in AnyOperand
      /\ i.size \in {"longword", "quadword"} /\ Fits(i.src, i.size)
  BY DEF FixableInstr, Fixable, AsmInstr
<1>2. /\ R10 \in AnyOperand /\ ~IsMemory(R10) /\ ~IsImm(R10) /\ R10.kind = "reg"
  BY Scratch DEF R10, Register
<1>3. CASE SrcMoves(i)
  <2>1. FixedSrc(i) = R10 /\ MoveSrc(i) = << Mov(i.size, i.src, R10) >>
    BY <1>3 DEF FixedSrc, MoveSrc
  <2>2. Mov(i.size, i.src, R10) \in EncodableInstr
    BY <1>1, <1>2, MovEncodes
  <2>3. IsShift(i) => ~SrcMoves(i)
    <3>1. ASSUME IsShift(i) PROVE /\ ~IsMemory(i.src)
                                  /\ IsImm(i.src) => i.src.imm \in SignedRange("longword")
      BY <3>1, Ranges, Scratch DEF FixableInstr, Fixable, IsMemory, IsImm, Register
    <3> QED
      BY <3>1 DEF SrcMoves, IsLargeImm
  <2>4. ~IsLargeImm(R10)
    BY <1>2 DEF IsLargeImm
  <2> QED
    BY <1>2, <1>3, <2>1, <2>2, <2>3, <2>4
<1>4. CASE ~SrcMoves(i)
  <2>1. FixedSrc(i) = i.src /\ MoveSrc(i) = << >>
    BY <1>4 DEF FixedSrc, MoveSrc
  <2> QED
    BY <1>1, <1>4, <2>1 DEF SrcMoves, IsLargeImm
<1> QED
  BY <1>3, <1>4

\* A two-operand instruction the assembler takes.
LEMMA BinaryEncodes ==
    ASSUME NEW i \in FixableInstr, i.kind = "binary",
           NEW src \in AnyOperand, NEW dst \in AnyOperand,
           ~(IsMemory(src) /\ IsMemory(dst)), ~IsImm(dst),
           IsImm(src) => src.imm \in SignedRange("longword"),
           i.op = "imul" => dst.kind = "reg",
           IsShift(i) => src = i.src
    PROVE  Binary(i.size, i.op, src, dst) \in EncodableInstr
<1> DEFINE j == Binary(i.size, i.op, src, dst)
<1>1. /\ j.kind = "binary" /\ j.op = i.op /\ j.src = src /\ j.dst = dst /\ j.size = i.size
      /\ j \in AsmInstr
  BY DEF Binary, Asm, AsmInstr, FixableInstr, Kind
<1>2. IsShift(j) = IsShift(i)
  BY <1>1 DEF IsShift
<1>3. IsShift(i) => i.src = Reg("cx") \/ (IsImm(i.src) /\ i.src.imm \in ByteImm)
  BY DEF FixableInstr, Fixable
<1>4. ImmFits(j)
  BY <1>1 DEF ImmFits
<1> HIDE DEF j
<1>5. Encodable(j)
  BY <1>1, <1>2, <1>3, <1>4 DEF Encodable
<1> QED
  BY <1>1, <1>5 DEF j, EncodableInstr

LEMMA FixupBinaryEncodes ==
    ASSUME NEW i \in FixableInstr, i.kind = "binary"
    PROVE  FixupBinary(i) \in Seq(EncodableInstr)
<1>1. /\ i.dst \in AnyOperand /\ ~IsImm(i.dst)
      /\ i.size \in {"longword", "quadword"}
      /\ i.dst.kind = "reg" \/ IsMemory(i.dst)
  BY DEF FixableInstr, Fixable, AsmInstr
<1>2. /\ R11 \in AnyOperand /\ ~IsMemory(R11) /\ ~IsImm(R11) /\ R11.kind = "reg"
  BY Scratch DEF R11, Register
<1> DEFINE src == FixedSrc(i)
<1>3. /\ src \in AnyOperand /\ ~IsLargeImm(src)
      /\ ~(IsMemory(src) /\ IsMemory(i.dst))
      /\ IsImm(src) => src.imm \in SignedRange("longword")
      /\ MoveSrc(i) \in Seq(EncodableInstr)
      /\ IsShift(i) => src = i.src
  BY MoveSrcEncodes
<1>4. FixupBinary(i) = MoveSrc(i) \o
        (IF i.op = "imul" /\ IsMemory(i.dst)
         THEN << Mov(i.size, i.dst, R11), Binary(i.size, i.op, src, R11), Mov(i.size, R11, i.dst) >>
         ELSE << Binary(i.size, i.op, src, i.dst) >>)
  BY DEF FixupBinary
<1> HIDE DEF src
<1>5. /\ Fits(i.dst, i.size) /\ ~IsLargeImm(i.dst)
      /\ Fits(R11, i.size) /\ ~IsLargeImm(R11)
  BY <1>1, <1>2 DEF Fits, IsLargeImm
<1>6. Mov(i.size, i.dst, R11) \in EncodableInstr /\ Mov(i.size, R11, i.dst) \in EncodableInstr
  BY <1>1, <1>2, <1>5, MovEncodes
<1>7. Binary(i.size, i.op, src, R11) \in EncodableInstr
  BY <1>2, <1>3, BinaryEncodes
<1>8. ASSUME ~(i.op = "imul" /\ IsMemory(i.dst))
      PROVE  Binary(i.size, i.op, src, i.dst) \in EncodableInstr
  BY <1>1, <1>3, <1>8, BinaryEncodes
<1> QED
  BY <1>3, <1>4, <1>6, <1>7, <1>8

LEMMA FixupCmpEncodes ==
    ASSUME NEW i \in FixableInstr, i.kind = "cmp"
    PROVE  FixupCmp(i) \in Seq(EncodableInstr)
<1>1. /\ i.dst \in AnyOperand /\ Fits(i.dst, i.size)
      /\ i.size \in {"longword", "quadword"}
  BY DEF FixableInstr, Fixable, AsmInstr
<1>2. /\ R11 \in AnyOperand /\ ~IsMemory(R11) /\ ~IsImm(R11) /\ R11.kind = "reg"
  BY Scratch DEF R11, Register
<1> DEFINE src == FixedSrc(i)
<1>3. /\ src \in AnyOperand /\ ~(IsMemory(src) /\ IsMemory(i.dst))
      /\ IsImm(src) => src.imm \in SignedRange("longword")
      /\ MoveSrc(i) \in Seq(EncodableInstr)
  BY MoveSrcEncodes
<1>4. FixupCmp(i) = MoveSrc(i) \o
        (IF IsImm(i.dst) THEN << Mov(i.size, i.dst, R11), Cmp(i.size, src, R11) >>
         ELSE << Cmp(i.size, src, i.dst) >>)
  BY DEF FixupCmp
<1> HIDE DEF src
<1>5. IsImm(i.dst) => Mov(i.size, i.dst, R11) \in EncodableInstr
  BY <1>1, <1>2, MovEncodes
<1>6. ASSUME NEW dst \in AnyOperand, ~IsImm(dst), ~(IsMemory(src) /\ IsMemory(dst))
      PROVE  Cmp(i.size, src, dst) \in EncodableInstr
  <2> DEFINE j == Cmp(i.size, src, dst)
  <2>1. /\ j.kind = "cmp" /\ j.op = "none" /\ j.src = src /\ j.dst = dst /\ j.size = i.size
        /\ j \in AsmInstr
    BY <1>1, <1>3, <1>6 DEF Cmp, Asm, AsmInstr, Kind, Op, Size
  <2>2. ImmFits(j)
    BY <1>3, <2>1 DEF ImmFits
  <2> HIDE DEF j
  <2>3. Encodable(j)
    BY <1>6, <2>1, <2>2 DEF Encodable, IsShift
  <2> QED
    BY <2>1, <2>3 DEF j, EncodableInstr
<1>7. Cmp(i.size, src, R11) \in EncodableInstr
  BY <1>2, <1>6
<1>8. ~IsImm(i.dst) => Cmp(i.size, src, i.dst) \in EncodableInstr
  BY <1>1, <1>3, <1>6
<1> QED
  BY <1>3, <1>4, <1>5, <1>7, <1>8

LEMMA FixupIdivEncodes ==
    ASSUME NEW i \in FixableInstr, i.kind = "idiv"
    PROVE  FixupIdiv(i) \in Seq(EncodableInstr)
<1>1. /\ i.src \in AnyOperand /\ Fits(i.src, i.size)
      /\ i.size \in {"longword", "quadword"}
  BY DEF FixableInstr, Fixable, AsmInstr
<1>2. /\ R10 \in AnyOperand /\ ~IsMemory(R10) /\ ~IsImm(R10) /\ R10.kind = "reg"
  BY Scratch DEF R10, Register
<1>3. Mov(i.size, i.src, R10) \in EncodableInstr
  BY <1>1, <1>2, MovEncodes
<1>4. ASSUME NEW src \in AnyOperand, ~IsImm(src)
      PROVE  Idiv(i.size, src) \in EncodableInstr
  <2> DEFINE j == Idiv(i.size, src)
  <2>1. /\ j.kind = "idiv" /\ j.op = "none" /\ j.src = src /\ j.dst = NoOperand /\ j.size = i.size
        /\ j \in AsmInstr
    BY <1>1, <1>4, NoOperandIs DEF Idiv, Asm, AsmInstr, Kind, Op, Size
  <2>2. ImmFits(j)
    BY <1>4, <2>1 DEF ImmFits
  <2> HIDE DEF j
  <2>3. Encodable(j)
    BY <1>4, <2>1, <2>2, NoOperandIs DEF Encodable, IsShift
  <2> QED
    BY <2>1, <2>3 DEF j, EncodableInstr
<1>5. FixupIdiv(i) = IF IsImm(i.src) THEN << Mov(i.size, i.src, R10), Idiv(i.size, R10) >>
                     ELSE << Idiv(i.size, i.src) >>
  BY DEF FixupIdiv
<1> QED
  BY <1>1, <1>2, <1>3, <1>4, <1>5

\* The fixups turn what phase 1 emits into what the processor has.
LEMMA FixupEncodes ==
    ASSUME NEW i \in FixableInstr
    PROVE  FixupInstr(i) \in Seq(EncodableInstr)
<1>1. CASE i.kind = "mov"
  BY <1>1, FixupMovEncodes DEF FixupInstr
<1>2. CASE i.kind = "movsx"
  BY <1>2, FixupMovsxEncodes DEF FixupInstr
<1>3. CASE i.kind = "binary"
  BY <1>3, FixupBinaryEncodes DEF FixupInstr
<1>4. CASE i.kind = "idiv"
  BY <1>4, FixupIdivEncodes DEF FixupInstr
<1>5. CASE i.kind = "cmp"
  BY <1>5, FixupCmpEncodes DEF FixupInstr
<1>6. CASE i.kind \notin {"mov", "movsx", "binary", "idiv", "cmp"}
  <2>1. FixupInstr(i) = << i >>
    BY <1>6 DEF FixupInstr
  <2>2. /\ i \in AsmInstr /\ i.src = NoOperand /\ ~IsImm(i.dst) /\ i.op # "imul"
    BY <1>6 DEF FixableInstr, Fixable
  <2>3. Encodable(i)
    BY <1>6, <2>2, NoOperandIs DEF Encodable, ImmFits, IsShift
  <2> QED
    BY <2>1, <2>2, <2>3 DEF EncodableInstr
<1> QED
  BY <1>1, <1>2, <1>3, <1>4, <1>5, <1>6

-----------------------------------------------------------------------------
\* What phase 1 emits, by instruction.
LEMMA MovFixable ==
    ASSUME NEW size \in {"longword", "quadword"},
           NEW src \in AnyOperand, NEW dst \in AnyOperand,
           Fits(src, size), ~IsImm(dst)
    PROVE  Mov(size, src, dst) \in FixableInstr
<1> DEFINE i == Mov(size, src, dst)
<1>1. /\ i.kind = "mov" /\ i.size = size /\ i.op = "none" /\ i.src = src /\ i.dst = dst
      /\ i \in AsmInstr
  BY DEF Mov, Asm, AsmInstr, Size, Kind, Op
<1> HIDE DEF i
<1>2. Fixable(i)
  BY <1>1 DEF Fixable, Fits, IsShift
<1> QED
  BY <1>1, <1>2 DEF i, FixableInstr

LEMMA BinaryFixable ==
    ASSUME NEW size \in {"longword", "quadword"}, NEW op \in OpsOf("binary"),
           NEW src \in AnyOperand, NEW dst \in AnyOperand,
           Fits(src, size), IsMemory(dst),
           op \in {"sal", "sar"} => src = Reg("cx") \/ (IsImm(src) /\ src.imm \in ByteImm)
    PROVE  Binary(size, op, src, dst) \in FixableInstr
<1> DEFINE i == Binary(size, op, src, dst)
<1>1. /\ i.kind = "binary" /\ i.size = size /\ i.op = op /\ i.src = src /\ i.dst = dst
      /\ i \in AsmInstr
  BY DEF Binary, Asm, AsmInstr, Size, Kind, Op, OpsOf
<1>2. ~IsImm(dst)
  BY DEF IsMemory, IsImm
<1> HIDE DEF i
<1>3. Fixable(i)
  BY <1>1, <1>2 DEF Fixable, Fits, IsShift
<1> QED
  BY <1>1, <1>3 DEF i, FixableInstr

LEMMA CmpFixable ==
    ASSUME NEW size \in {"longword", "quadword"},
           NEW src \in AnyOperand, NEW dst \in AnyOperand,
           Fits(src, size), Fits(dst, size)
    PROVE  Cmp(size, src, dst) \in FixableInstr
<1> DEFINE i == Cmp(size, src, dst)
<1>1. /\ i.kind = "cmp" /\ i.size = size /\ i.op = "none" /\ i.src = src /\ i.dst = dst
      /\ i \in AsmInstr
  BY DEF Cmp, Asm, AsmInstr, Size, Kind, Op
<1> HIDE DEF i
<1>2. Fixable(i)
  BY <1>1 DEF Fixable, IsShift
<1> QED
  BY <1>1, <1>2 DEF i, FixableInstr

\* The instructions that no fixup touches.
LEMMA PlainFixable ==
    ASSUME NEW kind \in {"unary", "cdq", "setcc", "jmp", "jmpcc", "label", "ret"},
           NEW size \in Size, NEW op \in Op \ {"imul"}, NEW dst \in AnyOperand, ~IsImm(dst)
    PROVE  Asm(kind, size, op, NoOperand, dst) \in FixableInstr
<1> DEFINE i == Asm(kind, size, op, NoOperand, dst)
<1>1. /\ i.kind = kind /\ i.size = size /\ i.op = op /\ i.src = NoOperand /\ i.dst = dst
      /\ i \in AsmInstr
  BY NoOperandIs DEF Asm, AsmInstr, Kind
<1> HIDE DEF i
<1>2. Fixable(i)
  BY <1>1, NoOperandIs DEF Fixable, Fits, IsShift
<1> QED
  BY <1>1, <1>2 DEF i, FixableInstr

LEMMA IdivFixable ==
    ASSUME NEW size \in {"longword", "quadword"}, NEW src \in AnyOperand, Fits(src, size)
    PROVE  Idiv(size, src) \in FixableInstr
<1> DEFINE i == Idiv(size, src)
<1>1. /\ i.kind = "idiv" /\ i.size = size /\ i.op = "none" /\ i.src = src /\ i.dst = NoOperand
      /\ i \in AsmInstr
  BY NoOperandIs DEF Idiv, Asm, AsmInstr, Size, Kind, Op
<1> HIDE DEF i
<1>2. Fixable(i)
  BY <1>1, NoOperandIs DEF Fixable, Fits, IsShift
<1> QED
  BY <1>1, <1>2 DEF i, FixableInstr

LEMMA MovsxFixable ==
    ASSUME NEW src \in AnyOperand, NEW dst \in AnyOperand, IsMemory(src), IsMemory(dst)
    PROVE  Movsx(src, dst) \in FixableInstr
<1> DEFINE i == Movsx(src, dst)
<1>1. /\ i.kind = "movsx" /\ i.size = "quadword" /\ i.op = "none" /\ i.src = src /\ i.dst = dst
      /\ i \in AsmInstr
  BY DEF Movsx, Asm, AsmInstr, Size, Kind, Op
<1>2. ~IsImm(src) /\ ~IsImm(dst)
  BY DEF IsMemory, IsImm
<1> HIDE DEF i
<1>3. Fixable(i)
  BY <1>1, <1>2 DEF Fixable, Fits, IsShift
<1> QED
  BY <1>1, <1>3 DEF i, FixableInstr

-----------------------------------------------------------------------------
\* The types of an IR instruction.
TypedUnary(i) ==
    /\ i.kind = "unary" /\ i.lhs \in IRValue /\ i.dst \in Location
    /\ i.op = "LOG_NOT" \/ (i.op \in {"NEG", "BIT_NOT"} /\ i.lhs.ty = i.dst.ty)

TypedBinary(i) ==
    /\ i.kind = "binary" /\ i.lhs \in IRValue /\ i.rhs \in IRValue /\ i.dst \in Location
    /\ \/ i.op \in Arith /\ i.lhs.ty = i.dst.ty /\ i.rhs.ty = i.dst.ty
       \/ i.op \in Comparison /\ i.lhs.ty = i.rhs.ty
       \/ i.op \in Shift /\ i.lhs.ty = i.dst.ty

TypedMove(i) ==
    /\ i.lhs \in IRValue /\ i.dst \in Location
    /\ \/ i.kind = "copy" /\ i.lhs.ty = i.dst.ty
       \/ i.kind = "cast" /\ i.lhs \in Object /\ i.lhs.ty # i.dst.ty

TypedJump(i) ==
    \/ i.kind \in {"jump_if_zero", "jump_if_not_zero"} /\ i.lhs \in IRValue
    \/ i.kind = "return" /\ i.lhs \in IRValue \cup {NoValue}
    \/ i.kind \in {"jump", "label"}

LEMMA ValueTypes ==
    ASSUME NEW ty \in CType, NEW v \in ValuesOf(ty)
    PROVE  v \in IRValue /\ v.ty = ty
  BY DEF ValuesOf, ObjectsOf, IRValue, Constant, CType

LEMMA LocationTypes ==
    /\ \A ty \in CType : Temp(ty) \in Location /\ Temp(ty).ty = ty
    /\ \A ty \in CType : \A x \in ObjectsOf(ty) : x \in Location /\ x.ty = ty /\ x \in IRValue
    /\ \A ty \in CType : Constant(ty, 1) \in IRValue /\ Constant(ty, 1).ty = ty
<1>1. \A ty \in CType : Constant(ty, 1) \in ValuesOf(ty)
  BY SelectionAssumption DEF ValuesOf, CType
<1>2. \A ty \in CType : ObjectsOf(ty) \subseteq ValuesOf(ty)
  BY DEF ValuesOf
<1> QED
  BY <1>1, <1>2, ValueTypes DEF Temp, Location, ObjectsOf

LEMMA InstrTyped ==
    ASSUME NEW i \in Instr
    PROVE  TypedUnary(i) \/ TypedBinary(i) \/ TypedMove(i) \/ TypedJump(i)
<1>1. PICK ty \in CType : i \in UnaryInstr(ty) \cup BinaryInstr(ty) \cup MoveInstr(ty) \cup JumpInstr(ty)
  BY DEF Instr
<1>2. ASSUME i \in UnaryInstr(ty) PROVE TypedUnary(i)
  BY <1>2, ValueTypes, LocationTypes DEF UnaryInstr, TypedUnary, IR, CType
<1>3. ASSUME i \in BinaryInstr(ty) PROVE TypedBinary(i)
  <2>1. CASE \E op \in Arith, lhs \in ValuesOf(ty), rhs \in ValuesOf(ty) :
                i = IR("binary", op, lhs, rhs, Temp(ty))
    BY <2>1, ValueTypes, LocationTypes DEF TypedBinary, IR
  <2>2. CASE \E op \in Comparison, lhs \in ValuesOf(ty), rhs \in ValuesOf(ty) :
                i = IR("binary", op, lhs, rhs, Temp("int"))
    BY <2>2, ValueTypes, LocationTypes DEF TypedBinary, IR, CType
  <2>3. CASE \E op \in Shift, lhs \in ValuesOf(ty), rhs \in ValuesOf("int") \cup ValuesOf("long") :
                i = IR("binary", op, lhs, rhs, Temp(ty))
    BY <2>3, ValueTypes, LocationTypes DEF TypedBinary, IR, CType
  <2>4. CASE \E op \in {"ADD", "SUB"}, x \in ObjectsOf(ty) :
                i = IR("binary", op, x, Constant(ty, 1), x)
    BY <2>4, LocationTypes DEF TypedBinary, IR, Arith
  <2> QED
    BY <1>3, <2>1, <2>2, <2>3, <2>4 DEF BinaryInstr
<1>4. ASSUME i \in MoveInstr(ty) PROVE TypedMove(i)
  <2>1. CASE \E src \in ValuesOf(ty), dst \in ObjectsOf(ty) \cup {Temp(ty)} :
                i = IR("copy", "none", src, NoValue, dst)
    <3>1. PICK src \in ValuesOf(ty), dst \in ObjectsOf(ty) \cup {Temp(ty)} :
                  i = IR("copy", "none", src, NoValue, dst)
      BY <2>1
    <3>2. src \in IRValue /\ src.ty = ty
      BY ValueTypes
    <3>3. dst \in Location /\ dst.ty = ty
      BY LocationTypes
    <3>4. i.kind = "copy" /\ i.lhs = src /\ i.dst = dst
      BY <3>1 DEF IR
    <3> QED
      BY <3>2, <3>3, <3>4 DEF TypedMove
  <2>2. CASE \E src \in {o \in Object : o.ty # ty} : i = IR("cast", "none", src, NoValue, Temp(ty))
    <3>1. PICK src \in Object : src.ty # ty /\ i = IR("cast", "none", src, NoValue, Temp(ty))
      BY <2>2
    <3>2. src.ty \in CType
      BY SelectionAssumption
    <3>3. src \in IRValue
      BY <3>2, LocationTypes DEF ObjectsOf
    <3> QED
      BY <3>1, <3>3, LocationTypes DEF TypedMove, IR
  <2>3. \/ \E src \in ValuesOf(ty), dst \in ObjectsOf(ty) \cup {Temp(ty)} :
              i = IR("copy", "none", src, NoValue, dst)
        \/ \E src \in {o \in Object : o.ty # ty} : i = IR("cast", "none", src, NoValue, Temp(ty))
    BY <1>4 DEF MoveInstr
  <2> QED
    BY <2>1, <2>2, <2>3
<1>5. ASSUME i \in JumpInstr(ty) PROVE TypedJump(i)
  <2>1. \/ \E k \in {"jump_if_zero", "jump_if_not_zero"}, cond \in ValuesOf(ty) :
              i = IR(k, "none", cond, NoValue, NoValue)
        \/ \E src \in ValuesOf(ty) \cup {NoValue} : i = IR("return", "none", src, NoValue, NoValue)
        \/ \E k \in {"jump", "label"} : i = IR(k, "none", NoValue, NoValue, NoValue)
    BY <1>5 DEF JumpInstr
  <2>2. ASSUME NEW k \in {"jump_if_zero", "jump_if_not_zero"}, NEW cond \in ValuesOf(ty),
               i = IR(k, "none", cond, NoValue, NoValue)
        PROVE  TypedJump(i)
    <3>1. i.kind = k /\ i.lhs = cond /\ cond \in IRValue
      BY <2>2, ValueTypes DEF IR
    <3> QED
      BY <3>1 DEF TypedJump
  <2>3. ASSUME NEW src \in ValuesOf(ty) \cup {NoValue}, i = IR("return", "none", src, NoValue, NoValue)
        PROVE  TypedJump(i)
    <3>1. i.kind = "return" /\ i.lhs = src /\ src \in IRValue \cup {NoValue}
      BY <2>3, ValueTypes DEF IR
    <3> QED
      BY <3>1 DEF TypedJump
  <2>4. ASSUME NEW k \in {"jump", "label"}, i = IR(k, "none", NoValue, NoValue, NoValue)
        PROVE  TypedJump(i)
    <3>1. i.kind = k
      BY <2>4 DEF IR
    <3> QED
      BY <3>1 DEF TypedJump
  <2> QED
    BY <2>1, <2>2, <2>3, <2>4
<1> QED
  BY <1>1, <1>2, <1>3, <1>4, <1>5

-----------------------------------------------------------------------------
LEMMA SizeType == \A ty \in CType : SizeOf(ty) \in {"longword", "quadword"}
  BY DEF SizeOf, CType

LEMMA ZeroFits == /\ Imm(0) \in AnyOperand
                  /\ \A size \in {"longword", "quadword"} : Fits(Imm(0), size)
  BY Ranges DEF AnyOperand, Imm, Fits

LEMMA RegFits == \A r \in Register : \A size \in Size :
                    Reg(r) \in AnyOperand /\ ~IsImm(Reg(r)) /\ Fits(Reg(r), size)
  BY Scratch DEF Fits

\* A variable as an operand.
LEMMA DstFits ==
    ASSUME NEW v \in Location
    PROVE  /\ v.ty \in CType /\ Operand(v) \in AnyOperand
           /\ IsMemory(Operand(v)) /\ ~IsImm(Operand(v))
<1>1. v.ty \in CType /\ v.kind \in {"pseudo", "static"}
  BY SelectionAssumption DEF Temp, Location
<1>2. Operand(v) = [kind |-> "stack", loc |-> v] \/ Operand(v) = [kind |-> "data", loc |-> v]
  BY <1>1 DEF Operand
<1> QED
  BY <1>1, <1>2 DEF AnyOperand, IsMemory, IsImm

LEMMA SetFromFixable ==
    ASSUME NEW compare \in FixableInstr, NEW dst \in Location,
           NEW cond \in {"e", "ne", "l", "le", "g", "ge"}
    PROVE  SetFrom(compare, cond, dst) \in Seq(FixableInstr)
<1>1. /\ SizeOf(dst.ty) \in {"longword", "quadword"} /\ Operand(dst) \in AnyOperand
      /\ ~IsImm(Operand(dst))
  BY DstFits, SizeType
<1>2. Mov(SizeOf(dst.ty), Imm(0), Operand(dst)) \in FixableInstr
  BY <1>1, ZeroFits, MovFixable
<1>3. Setcc(cond, Operand(dst)) \in FixableInstr
  <2>1. cond \in Op \ {"imul"} /\ "byte" \in Size
    BY DEF Op, Size
  <2> QED
    BY <1>1, <2>1, PlainFixable DEF Setcc
<1> QED
  BY <1>2, <1>3 DEF SetFrom

LEMMA LowerUnaryFixable ==
    ASSUME NEW i, TypedUnary(i)
    PROVE  LowerUnary(i) \in Seq(FixableInstr)
<1>1. /\ i.lhs \in IRValue /\ i.dst \in Location
      /\ i.op = "LOG_NOT" \/ (i.op \in {"NEG", "BIT_NOT"} /\ i.lhs.ty = i.dst.ty)
  BY DEF TypedUnary
<1>2. /\ SizeOf(i.lhs.ty) \in {"longword", "quadword"} /\ Operand(i.lhs) \in AnyOperand
      /\ Fits(Operand(i.lhs), SizeOf(i.lhs.ty))
  BY <1>1, OperandFits, SizeType
<1>3. /\ SizeOf(i.dst.ty) \in {"longword", "quadword"} /\ Operand(i.dst) \in AnyOperand
      /\ ~IsImm(Operand(i.dst))
  BY <1>1, DstFits, SizeType
<1>4. CASE i.op = "LOG_NOT"
  <2>1. Cmp(SizeOf(i.lhs.ty), Imm(0), Operand(i.lhs)) \in FixableInstr
    BY <1>2, ZeroFits, CmpFixable
  <2>2. LowerUnary(i) = SetFrom(Cmp(SizeOf(i.lhs.ty), Imm(0), Operand(i.lhs)), "e", i.dst)
    BY <1>4 DEF LowerUnary
  <2> QED
    BY <1>1, <2>1, <2>2, SetFromFixable
<1>5. CASE i.op \in {"NEG", "BIT_NOT"} /\ i.lhs.ty = i.dst.ty
  <2>1. LowerUnary(i) = << Mov(SizeOf(i.dst.ty), Operand(i.lhs), Operand(i.dst)),
                           Unary(SizeOf(i.dst.ty), ConvertOp[i.op], Operand(i.dst)) >>
    BY <1>5 DEF LowerUnary
  <2>2. Mov(SizeOf(i.dst.ty), Operand(i.lhs), Operand(i.dst)) \in FixableInstr
    BY <1>2, <1>3, <1>5, MovFixable
  <2>3. ConvertOp[i.op] \in Op \ {"imul"} /\ SizeOf(i.dst.ty) \in Size
    BY <1>3, <1>5 DEF ConvertOp, Op, Size
  <2>4. Unary(SizeOf(i.dst.ty), ConvertOp[i.op], Operand(i.dst)) \in FixableInstr
    BY <1>3, <2>3, PlainFixable DEF Unary
  <2> QED
    BY <2>1, <2>2, <2>4
<1> QED
  BY <1>1, <1>4, <1>5

LEMMA LowerDivisionFixable ==
    ASSUME NEW i, TypedBinary(i), i.op \in Arith
    PROVE  LowerDivision(i) \in Seq(FixableInstr)
<1> DEFINE size == SizeOf(i.lhs.ty)
<1>1. /\ i.lhs \in IRValue /\ i.rhs \in IRValue /\ i.dst \in Location
      /\ i.lhs.ty = i.dst.ty /\ i.rhs.ty = i.dst.ty
  BY DEF TypedBinary, Arith, Comparison, Shift
<1>2. /\ size \in {"longword", "quadword"}
      /\ Operand(i.lhs) \in AnyOperand /\ Fits(Operand(i.lhs), size)
      /\ Operand(i.rhs) \in AnyOperand /\ Fits(Operand(i.rhs), size)
  BY <1>1, OperandFits, SizeType
<1>3. Operand(i.dst) \in AnyOperand /\ ~IsImm(Operand(i.dst))
  BY <1>1, DstFits
<1>4. \A r \in Register : Reg(r) \in AnyOperand /\ ~IsImm(Reg(r)) /\ Fits(Reg(r), size)
  BY <1>2, RegFits DEF Size
<1>5. LowerDivision(i) = << Mov(size, Operand(i.lhs), Reg("ax")), Cdq(size),
                            Idiv(size, Operand(i.rhs)),
                            Mov(size, Reg(IF i.op = "DIV" THEN "ax" ELSE "dx"), Operand(i.dst)) >>
  BY DEF LowerDivision
<1> HIDE DEF size
<1>6. Mov(size, Operand(i.lhs), Reg("ax")) \in FixableInstr
  BY <1>2, <1>4, MovFixable DEF Register
<1>7. Cdq(size) \in FixableInstr
  <2>1. size \in Size /\ "none" \in Op \ {"imul"}
    BY <1>2 DEF Size, Op
  <2> QED
    BY <2>1, NoOperandIs, PlainFixable DEF Cdq
<1>8. Idiv(size, Operand(i.rhs)) \in FixableInstr
  BY <1>2, IdivFixable
<1>9. Mov(size, Reg(IF i.op = "DIV" THEN "ax" ELSE "dx"), Operand(i.dst)) \in FixableInstr
  <2>1. (IF i.op = "DIV" THEN "ax" ELSE "dx") \in Register
    BY DEF Register
  <2> QED
    BY <1>2, <1>3, <1>4, <2>1, MovFixable
<1> QED
  BY <1>5, <1>6, <1>7, <1>8, <1>9

LEMMA LowerComparisonFixable ==
    ASSUME NEW i, TypedBinary(i), i.op \in Comparison
    PROVE  LowerComparison(i) \in Seq(FixableInstr)
<1> DEFINE size == SizeOf(i.lhs.ty)
<1>1. i.lhs \in IRValue /\ i.rhs \in IRValue /\ i.dst \in Location /\ i.lhs.ty = i.rhs.ty
  BY DEF TypedBinary, Arith, Comparison, Shift
<1>2. /\ size \in {"longword", "quadword"}
      /\ Operand(i.lhs) \in AnyOperand /\ Fits(Operand(i.lhs), size)
      /\ Operand(i.rhs) \in AnyOperand /\ Fits(Operand(i.rhs), size)
  BY <1>1, OperandFits, SizeType
<1>3. LowerComparison(i) =
        SetFrom(Cmp(size, Operand(i.rhs), Operand(i.lhs)), ConvertOp[i.op], i.dst)
  BY DEF LowerComparison
<1>4. ConvertOp[i.op] \in {"e", "ne", "l", "le", "g", "ge"}
  BY DEF Comparison, ConvertOp
<1> HIDE DEF size
<1>5. Cmp(size, Operand(i.rhs), Operand(i.lhs)) \in FixableInstr
  BY <1>2, CmpFixable
<1> QED
  BY <1>1, <1>3, <1>4, <1>5, SetFromFixable

LEMMA LowerShiftFixable ==
    ASSUME NEW i, TypedBinary(i), i.op \in Shift, ~LargeCount(i)
    PROVE  LowerShift(i) \in Seq(FixableInstr)
<1> DEFINE size == SizeOf(i.dst.ty)
           countSize == SizeOf(i.rhs.ty)
           shift(count) == Binary(size, ConvertOp[i.op], count, Operand(i.dst))
<1>1. i.lhs \in IRValue /\ i.rhs \in IRValue /\ i.dst \in Location /\ i.lhs.ty = i.dst.ty
  BY DEF TypedBinary, Arith, Comparison, Shift
<1>2. /\ size \in {"longword", "quadword"} /\ countSize \in {"longword", "quadword"}
      /\ Operand(i.lhs) \in AnyOperand /\ Fits(Operand(i.lhs), size)
      /\ Operand(i.rhs) \in AnyOperand /\ Fits(Operand(i.rhs), countSize)
  BY <1>1, OperandFits, SizeType
<1>3. Operand(i.dst) \in AnyOperand /\ IsMemory(Operand(i.dst)) /\ ~IsImm(Operand(i.dst))
  BY <1>1, DstFits
<1>4. ConvertOp[i.op] \in {"sal", "sar"} /\ {"sal", "sar"} \subseteq OpsOf("binary")
  BY DEF Shift, ConvertOp, OpsOf
<1>5. LowerShift(i) = << Mov(size, Operand(i.lhs), Operand(i.dst)) >>
         \o IF i.rhs.kind = "constant" THEN << shift(Imm(i.rhs.constant)) >>
            ELSE << Mov(countSize, Operand(i.rhs), Reg("cx")), shift(Reg("cx")) >>
  BY DEF LowerShift
<1>6. /\ Reg("cx") \in AnyOperand /\ ~IsImm(Reg("cx")) /\ Fits(Reg("cx"), size)
  BY <1>2, RegFits DEF Register, Size
<1> HIDE DEF size, countSize
<1>7. Mov(size, Operand(i.lhs), Operand(i.dst)) \in FixableInstr
  BY <1>2, <1>3, MovFixable
<1>8. Mov(countSize, Operand(i.rhs), Reg("cx")) \in FixableInstr
  BY <1>2, <1>6, MovFixable
<1>9. shift(Reg("cx")) \in FixableInstr
  BY <1>2, <1>3, <1>4, <1>6, BinaryFixable
<1>10. ASSUME i.rhs.kind = "constant" PROVE shift(Imm(i.rhs.constant)) \in FixableInstr
  <2> DEFINE src == Imm(i.rhs.constant)
  <2>1. i.rhs.constant \in ByteImm
    BY <1>10 DEF LargeCount
  <2>2. i.rhs.constant \in SignedRange("longword") /\ i.rhs.constant \in SignedRange("quadword")
    BY <2>1, Ranges
  <2>3. src \in AnyOperand /\ IsImm(src) /\ src.imm = i.rhs.constant /\ Fits(src, size)
    BY <1>2, <2>2, Ranges DEF AnyOperand, Imm, IsImm, Fits
  <2> HIDE DEF src
  <2>4. Binary(size, ConvertOp[i.op], src, Operand(i.dst)) \in FixableInstr
    BY <1>2, <1>3, <1>4, <2>1, <2>3, BinaryFixable
  <2> QED
    BY <2>4 DEF src
<1> HIDE DEF shift
<1> QED
  BY <1>5, <1>7, <1>8, <1>9, <1>10

LEMMA LowerBinaryFixable ==
    ASSUME NEW i, TypedBinary(i), ~LargeCount(i)
    PROVE  LowerBinary(i) \in Seq(FixableInstr)
<1>1. CASE i.op \in {"DIV", "REM"}
  <2>1. LowerBinary(i) = LowerDivision(i)
    BY <1>1 DEF LowerBinary, Comparison, Shift
  <2>2. i.op \in Arith
    BY <1>1 DEF Arith
  <2> QED
    BY <2>1, <2>2, LowerDivisionFixable
<1>2. CASE i.op \in Comparison
  <2>1. LowerBinary(i) = LowerComparison(i)
    BY <1>2 DEF LowerBinary, Comparison, Shift
  <2> QED
    BY <1>2, <2>1, LowerComparisonFixable
<1>3. CASE i.op \in Shift
  <2>1. LowerBinary(i) = LowerShift(i)
    BY <1>3 DEF LowerBinary, Comparison, Shift
  <2> QED
    BY <1>3, <2>1, LowerShiftFixable
<1>4. CASE i.op \in Arith \ {"DIV", "REM"}
  <2> DEFINE size == SizeOf(i.dst.ty)
  <2>1. /\ i.lhs \in IRValue /\ i.rhs \in IRValue /\ i.dst \in Location
        /\ i.lhs.ty = i.dst.ty /\ i.rhs.ty = i.dst.ty
    BY <1>4 DEF TypedBinary, Arith, Comparison, Shift
  <2>2. /\ size \in {"longword", "quadword"}
        /\ Operand(i.lhs) \in AnyOperand /\ Fits(Operand(i.lhs), size)
        /\ Operand(i.rhs) \in AnyOperand /\ Fits(Operand(i.rhs), size)
    BY <2>1, OperandFits, SizeType
  <2>3. Operand(i.dst) \in AnyOperand /\ IsMemory(Operand(i.dst)) /\ ~IsImm(Operand(i.dst))
    BY <2>1, DstFits
  <2>4. ConvertOp[i.op] \in OpsOf("binary") \ {"sal", "sar"}
    BY <1>4 DEF Arith, ConvertOp, OpsOf
  <2>5. LowerBinary(i) = << Mov(size, Operand(i.lhs), Operand(i.dst)),
                            Binary(size, ConvertOp[i.op], Operand(i.rhs), Operand(i.dst)) >>
    BY <1>4 DEF LowerBinary, Arith, Comparison, Shift
  <2> HIDE DEF size
  <2>6. Mov(size, Operand(i.lhs), Operand(i.dst)) \in FixableInstr
    BY <2>2, <2>3, MovFixable
  <2>7. Binary(size, ConvertOp[i.op], Operand(i.rhs), Operand(i.dst)) \in FixableInstr
    BY <2>2, <2>3, <2>4, BinaryFixable
  <2> QED
    BY <2>5, <2>6, <2>7
<1> QED
  BY <1>1, <1>2, <1>3, <1>4 DEF TypedBinary

LEMMA LowerMoveFixable ==
    ASSUME NEW i \in Instr, TypedMove(i)
    PROVE  LowerInstr(i) \in Seq(FixableInstr)
<1>1. /\ i.lhs \in IRValue /\ i.dst \in Location
      /\ \/ i.kind = "copy" /\ i.lhs.ty = i.dst.ty
         \/ i.kind = "cast" /\ i.lhs \in Object /\ i.lhs.ty # i.dst.ty
  BY DEF TypedMove
<1>2. /\ SizeOf(i.lhs.ty) \in {"longword", "quadword"} /\ Operand(i.lhs) \in AnyOperand
      /\ Fits(Operand(i.lhs), SizeOf(i.lhs.ty))
  BY <1>1, OperandFits, SizeType
<1>3. Operand(i.dst) \in AnyOperand /\ IsMemory(Operand(i.dst)) /\ ~IsImm(Operand(i.dst))
  BY <1>1, DstFits
<1>4. CASE i.kind = "copy"
  <2>1. LowerInstr(i) = << Mov(SizeOf(i.dst.ty), Operand(i.lhs), Operand(i.dst)) >>
    BY <1>4 DEF LowerInstr
  <2>2. Mov(SizeOf(i.dst.ty), Operand(i.lhs), Operand(i.dst)) \in FixableInstr
    BY <1>1, <1>2, <1>3, <1>4, MovFixable
  <2> QED
    BY <2>1, <2>2
<1>5. CASE i.kind = "cast"
  <2>1. LowerInstr(i) = LowerCast(i)
    BY <1>5 DEF LowerInstr
  <2>2. i.lhs \in Location
    BY <1>1, <1>5 DEF Location
  <2>3. Operand(i.lhs) \in AnyOperand /\ IsMemory(Operand(i.lhs)) /\ ~IsImm(Operand(i.lhs))
    BY <2>2, DstFits
  <2>4. Movsx(Operand(i.lhs), Operand(i.dst)) \in FixableInstr
    BY <1>3, <2>3, MovsxFixable
  <2>5. Fits(Operand(i.lhs), "longword")
    BY <2>3 DEF Fits
  <2>6. Mov("longword", Operand(i.lhs), Operand(i.dst)) \in FixableInstr
    BY <1>3, <2>3, <2>5, MovFixable
  <2> QED
    BY <2>1, <2>4, <2>6 DEF LowerCast
<1> QED
  BY <1>1, <1>4, <1>5

LEMMA LowerJumpFixable ==
    ASSUME NEW i, TypedJump(i)
    PROVE  LowerInstr(i) \in Seq(FixableInstr)
<1>1. \A op \in {"none", "e", "ne"} : \A kind \in {"jmp", "jmpcc", "label", "ret"} :
         Asm(kind, "quadword", op, NoOperand, NoOperand) \in FixableInstr
  <2>1. {"none", "e", "ne"} \subseteq Op \ {"imul"} /\ "quadword" \in Size
    BY DEF Op, Size
  <2> QED
    BY <2>1, NoOperandIs, PlainFixable
<1>2. CASE i.kind \in {"jump_if_zero", "jump_if_not_zero"}
  <2>1. i.lhs \in IRValue
    BY <1>2 DEF TypedJump
  <2>2. /\ SizeOf(i.lhs.ty) \in {"longword", "quadword"} /\ Operand(i.lhs) \in AnyOperand
        /\ Fits(Operand(i.lhs), SizeOf(i.lhs.ty))
    BY <2>1, OperandFits, SizeType
  <2>3. Cmp(SizeOf(i.lhs.ty), Imm(0), Operand(i.lhs)) \in FixableInstr
    BY <2>2, ZeroFits, CmpFixable
  <2>4. LowerInstr(i) = << Cmp(SizeOf(i.lhs.ty), Imm(0), Operand(i.lhs)),
                           Jmpcc(IF i.kind = "jump_if_zero" THEN "e" ELSE "ne") >>
    BY <1>2 DEF LowerInstr, LowerCondJump
  <2> QED
    BY <1>1, <2>3, <2>4 DEF Jmpcc
<1>3. CASE i.kind = "return"
  <2>1. LowerInstr(i) = (IF i.lhs = NoValue THEN << >>
            ELSE << Mov(SizeOf(i.lhs.ty), Operand(i.lhs), Reg("ax")) >>) \o << Ret >>
    BY <1>3 DEF LowerInstr, LowerReturn
  <2>2. ASSUME i.lhs # NoValue
        PROVE  Mov(SizeOf(i.lhs.ty), Operand(i.lhs), Reg("ax")) \in FixableInstr
    <3>1. i.lhs \in IRValue
      BY <1>3, <2>2 DEF TypedJump
    <3>2. /\ SizeOf(i.lhs.ty) \in {"longword", "quadword"} /\ Operand(i.lhs) \in AnyOperand
          /\ Fits(Operand(i.lhs), SizeOf(i.lhs.ty))
      BY <3>1, OperandFits, SizeType
    <3>3. Reg("ax") \in AnyOperand /\ ~IsImm(Reg("ax"))
      BY Scratch DEF Register
    <3> QED
      BY <3>2, <3>3, MovFixable
  <2>3. Ret \in FixableInstr
    BY <1>1 DEF Ret
  <2> QED
    BY <2>1, <2>2, <2>3
<1>4. CASE i.kind \in {"jump", "label"}
  <2>1. LowerInstr(i) = << Jmp >> \/ LowerInstr(i) = << Label >>
    BY <1>4 DEF LowerInstr
  <2>2. Jmp \in FixableInstr /\ Label \in FixableInstr
    BY <1>1 DEF Jmp, Label
  <2>3. << Jmp >> \in Seq(FixableInstr)
    BY <2>2
  <2>4. << Label >> \in Seq(FixableInstr)
    BY <2>2
  <2> QED
    BY <2>1, <2>3, <2>4
<1> QED
  BY <1>2, <1>3, <1>4 DEF TypedJump

LEMMA LowerFixable ==
    ASSUME NEW i \in Instr, ~LargeCount(i)
    PROVE  LowerInstr(i) \in Seq(FixableInstr)
<1>1. CASE TypedUnary(i)
  <2>1. LowerInstr(i) = LowerUnary(i)
    BY <1>1 DEF TypedUnary, LowerInstr
  <2> QED
    BY <1>1, <2>1, LowerUnaryFixable
<1>2. CASE TypedBinary(i)
  <2>1. LowerInstr(i) = LowerBinary(i)
    BY <1>2 DEF TypedBinary, LowerInstr
  <2> QED
    BY <1>2, <2>1, LowerBinaryFixable
<1>3. CASE TypedMove(i)
  BY <1>3, LowerMoveFixable
<1>4. CASE TypedJump(i)
  BY <1>4, LowerJumpFixable
<1> QED
  BY <1>1, <1>2, <1>3, <1>4, InstrTyped

-----------------------------------------------------------------------------
\* What is left for the fixups can be fixed, what they have written can be
\* encoded.
IInv == ~LargeCount(instr) => /\ old \in Seq(FixableInstr)
                              /\ code \in Seq(EncodableInstr)

InstrIs == instr \in Instr

\* The generated code never has an operand combination the processor lacks,
\* whatever the widths, the variables and the constants of the program: the
\* fixups repair all that lowering leaves, and their own code needs no repair.
THEOREM CodeIsEncodable == Spec => []EncodableCode
<1>1. Init => InstrIs /\ IInv
  BY DEF Init, InstrIs, IInv
<1>2. InstrIs /\ IInv /\ [Next]_vars => InstrIs' /\ IInv'
  <2> SUFFICES ASSUME InstrIs, IInv, [Next]_vars PROVE InstrIs' /\ IInv'
    OBVIOUS
  <2>1. CASE Lower
    <3>1. instr' = instr /\ old' = LowerInstr(instr) /\ code' = code
      BY <2>1 DEF Lower
    <3> QED
      BY <3>1, LowerFixable DEF InstrIs, IInv
  <2>2. CASE Fixup
    <3>1. CASE old = << >>
      BY <2>2, <3>1 DEF Fixup, InstrIs, IInv
    <3>2. CASE old # << >>
      <4>1. instr' = instr /\ old' = Tail(old) /\ code' = code \o FixupInstr(Head(old))
        BY <2>2, <3>2 DEF Fixup
      <4>2. ASSUME ~LargeCount(instr)
            PROVE  old' \in Seq(FixableInstr) /\ code' \in Seq(EncodableInstr)
        <5>1. old \in Seq(FixableInstr) /\ code \in Seq(EncodableInstr)
          BY <4>2 DEF IInv
        <5>2. Head(old) \in FixableInstr /\ Tail(old) \in Seq(FixableInstr)
          BY <3>2, <5>1
        <5>3. FixupInstr(Head(old)) \in Seq(EncodableInstr)
          BY <5>2, FixupEncodes
        <5> QED
          BY <4>1, <5>1, <5>2, <5>3
      <4> QED
        BY <4>1, <4>2 DEF InstrIs, IInv
    <3> QED
      BY <3>1, <3>2
  <2>3. CASE Execute \/ Terminated \/ UNCHANGED vars
    <3>1. UNCHANGED compiler
      BY <2>3 DEF Execute, ExecMov, ExecMovsx, ExecUnary, ExecBinary, ExecCmp, ExecSetcc, ExecCdq,
                  ExecIdiv, Fault, ExecJump, ExecLabel, End, Advance, Stop, Terminated, vars
    <3> QED
      BY <3>1 DEF compiler, InstrIs, IInv
  <2> QED
    BY <2>1, <2>2, <2>3 DEF Next
<1>3. IInv => EncodableCode
  <2>1. ASSUME code \in Seq(EncodableInstr) PROVE \A k \in DOMAIN code : Encodable(code[k])
    BY <2>1 DEF EncodableInstr
  <2> QED
    BY <2>1 DEF IInv, EncodableCode
<1> QED
  BY <1>1, <1>2, <1>3, PTL DEF Spec
-----------------------------------------------------------------------------
(* Accesses and flags. These need no condition on shift counts.            *)

\* A variable that is accessed at that size is at least as large.
Takes(o, size) == IsMemory(o) => Bits(size) <= Bits(SizeOf(o.loc.ty))

\* movsx reads less than it writes.
SrcSize(kind, size) == IF kind = "movsx" THEN "longword" ELSE size

FitInstr == {i \in AsmInstr : /\ Takes(i.src, SrcSize(i.kind, i.size)) /\ Takes(i.dst, i.size)
                              /\ i.kind = "movsx" => i.size = "quadword"}

Reader == {"setcc", "jmpcc"}

\* After n instructions of c the flags are those of a comparison: whatever came
\* after it was a mov.
Compared(c, n) == \E j \in 1 .. n : /\ c[j].kind = "cmp"
                                    /\ \A m \in j + 1 .. n : c[m].kind = "mov"

\* What reads the flags comes after a comparison.
ReadersFollow(c) == \A k \in DOMAIN c : c[k].kind \in Reader => Compared(c, k - 1)

\* What the fixup of i may be, as far as the flags are concerned.
KeepsFlow(i, f) ==
    /\ i.kind = "cmp" => Len(f) > 0 /\ f[Len(f)].kind = "cmp"
    /\ i.kind = "mov" => \A k \in DOMAIN f : f[k].kind = "mov"
    /\ \A k \in DOMAIN f : f[k].kind \in Reader => k = 1 /\ i.kind \in Reader

LEMMA BitsOrder == /\ Bits("byte") \in Nat /\ Bits("longword") \in Nat /\ Bits("quadword") \in Nat
                   /\ Bits("byte") < Bits("longword") /\ Bits("longword") < Bits("quadword")
  BY BitsAssumption DEF Bits

LEMMA AsmFits ==
    ASSUME NEW kind \in Kind, NEW size \in Size, NEW op \in Op,
           NEW src \in AnyOperand, NEW dst \in AnyOperand,
           Takes(src, SrcSize(kind, size)), Takes(dst, size), kind = "movsx" => size = "quadword"
    PROVE  Asm(kind, size, op, src, dst) \in FitInstr
  BY DEF FitInstr, AsmInstr, Asm

LEMMA NotInMemory ==
    /\ \A r \in Register : Reg(r) \in AnyOperand /\ \A size : Takes(Reg(r), size)
    /\ \A n \in Int : Imm(n) \in AnyOperand /\ \A size : Takes(Imm(n), size)
    /\ NoOperand \in AnyOperand /\ \A size : Takes(NoOperand, size)
<1>1. \A r \in Register : Reg(r) \in AnyOperand /\ ~IsMemory(Reg(r))
  BY DEF AnyOperand, Reg, IsMemory
<1>2. \A n \in Int : Imm(n) \in AnyOperand /\ ~IsMemory(Imm(n))
  BY DEF AnyOperand, Imm, IsMemory
<1> QED
  BY <1>1, <1>2, NoOperandIs DEF Takes

\* An operand takes accesses of its own size, and narrower ones.
LEMMA ValueTakes ==
    ASSUME NEW v \in IRValue
    PROVE  /\ v.ty \in CType /\ Operand(v) \in AnyOperand
           /\ SizeOf(v.ty) \in {"longword", "quadword"}
           /\ Takes(Operand(v), SizeOf(v.ty))
           /\ Takes(Operand(v), "longword") /\ Takes(Operand(v), "byte")
<1>1. /\ v.ty \in CType /\ Operand(v) \in AnyOperand
      /\ v.kind = "constant" => Operand(v) = Imm(v.constant)
      /\ v.kind \in {"constant", "pseudo", "static"}
  BY OperandFits
<1>2. SizeOf(v.ty) \in {"longword", "quadword"}
  BY <1>1, SizeType
<1>3. IsMemory(Operand(v)) => Operand(v).loc = v
  BY <1>1 DEF Operand, IsMemory, Imm
<1> QED
  BY <1>1, <1>2, <1>3, BitsOrder DEF Takes

LEMMA LocationIsValue == Location \subseteq IRValue
  BY SelectionAssumption DEF Location, IRValue, ValuesOf, ObjectsOf, CType

\* A comparison, a mov of zero and the reader, as lowering has them.
LEMMA SetFromFits ==
    ASSUME NEW compare \in FitInstr, compare.kind = "cmp", NEW dst \in Location,
           NEW cond \in {"e", "ne", "l", "le", "g", "ge"}
    PROVE  /\ SetFrom(compare, cond, dst) \in Seq(FitInstr)
           /\ ReadersFollow(SetFrom(compare, cond, dst))
<1> DEFINE mov == Mov(SizeOf(dst.ty), Imm(0), Operand(dst))
           set == Setcc(cond, Operand(dst))
<1>1. /\ SizeOf(dst.ty) \in {"longword", "quadword"} /\ Operand(dst) \in AnyOperand
      /\ Takes(Operand(dst), SizeOf(dst.ty)) /\ Takes(Operand(dst), "byte")
  BY ValueTakes, LocationIsValue
<1>2. mov \in FitInstr /\ mov.kind = "mov"
  <2>1. "mov" \in Kind /\ SizeOf(dst.ty) \in Size /\ "none" \in Op
    BY <1>1 DEF Kind, Size, Op
  <2> QED
    BY <1>1, <2>1, NotInMemory, AsmFits DEF Mov, Asm
<1>3. set \in FitInstr
  <2>1. "setcc" \in Kind /\ "byte" \in Size /\ cond \in Op
    BY DEF Kind, Size, Op
  <2> QED
    BY <1>1, <2>1, NotInMemory, AsmFits DEF Setcc
<1>4. SetFrom(compare, cond, dst) = << compare, mov, set >>
  BY DEF SetFrom
<1> HIDE DEF mov, set
<1> DEFINE c == << compare, mov, set >>
<1>5. /\ c \in Seq(FitInstr) /\ DOMAIN c = {1, 2, 3}
      /\ c[1].kind = "cmp" /\ c[2].kind = "mov"
  BY <1>2, <1>3
<1> HIDE DEF c
<1>6. Compared(c, 2)
  <2>1. 1 \in 1 .. 2 /\ \A m \in 1 + 1 .. 2 : m = 2
    OBVIOUS
  <2> QED
    BY <1>5, <2>1 DEF Compared
<1>7. \A k \in DOMAIN c : c[k].kind \in Reader => k = 3
  BY <1>5 DEF Reader
<1>8. ReadersFollow(c)
  BY <1>6, <1>7 DEF ReadersFollow
<1> QED
  BY <1>4, <1>5, <1>8 DEF c

\* Code without a reader.
NoReader(c) == \A k \in DOMAIN c : c[k].kind \notin Reader

LEMMA LowerUnaryFits ==
    ASSUME NEW i, TypedUnary(i)
    PROVE  LowerUnary(i) \in Seq(FitInstr) /\ ReadersFollow(LowerUnary(i))
<1>1. /\ i.lhs \in IRValue /\ i.dst \in Location
      /\ i.op = "LOG_NOT" \/ (i.op \in {"NEG", "BIT_NOT"} /\ i.lhs.ty = i.dst.ty)
  BY DEF TypedUnary
<1>2. /\ SizeOf(i.lhs.ty) \in {"longword", "quadword"} /\ Operand(i.lhs) \in AnyOperand
      /\ Takes(Operand(i.lhs), SizeOf(i.lhs.ty))
  BY <1>1, ValueTakes
<1>3. /\ SizeOf(i.dst.ty) \in {"longword", "quadword"} /\ Operand(i.dst) \in AnyOperand
      /\ Takes(Operand(i.dst), SizeOf(i.dst.ty))
  BY <1>1, ValueTakes, LocationIsValue
<1>4. /\ {"cmp", "mov", "unary"} \subseteq Kind /\ "none" \in Op
      /\ SizeOf(i.lhs.ty) \in Size /\ SizeOf(i.dst.ty) \in Size
  BY <1>2, <1>3 DEF Kind, Op, Size
<1>5. CASE i.op = "LOG_NOT"
  <2> DEFINE compare == Cmp(SizeOf(i.lhs.ty), Imm(0), Operand(i.lhs))
  <2>1. compare \in FitInstr /\ compare.kind = "cmp"
    BY <1>2, <1>4, NotInMemory, AsmFits DEF Cmp, SrcSize, Asm
  <2>2. LowerUnary(i) = SetFrom(compare, "e", i.dst)
    BY <1>5 DEF LowerUnary
  <2> HIDE DEF compare
  <2> QED
    BY <1>1, <2>1, <2>2, SetFromFits
<1>6. CASE i.op \in {"NEG", "BIT_NOT"} /\ i.lhs.ty = i.dst.ty
  <2> DEFINE mov == Mov(SizeOf(i.dst.ty), Operand(i.lhs), Operand(i.dst))
             un == Unary(SizeOf(i.dst.ty), ConvertOp[i.op], Operand(i.dst))
  <2>1. mov \in FitInstr /\ mov.kind = "mov"
    BY <1>2, <1>3, <1>4, <1>6, AsmFits DEF Mov, SrcSize, Asm
  <2>2. ConvertOp[i.op] \in Op
    BY <1>6 DEF ConvertOp, Op
  <2>3. un \in FitInstr /\ un.kind = "unary"
    BY <1>3, <1>4, <2>2, NotInMemory, AsmFits DEF Unary, SrcSize, Asm
  <2>4. LowerUnary(i) = << mov, un >>
    BY <1>6 DEF LowerUnary
  <2> HIDE DEF mov, un
  <2> QED
    BY <2>1, <2>3, <2>4 DEF ReadersFollow, Reader
<1> QED
  BY <1>1, <1>5, <1>6

LEMMA LowerDivisionFits ==
    ASSUME NEW i, TypedBinary(i), i.op \in Arith
    PROVE  LowerDivision(i) \in Seq(FitInstr) /\ ReadersFollow(LowerDivision(i))
<1> DEFINE size == SizeOf(i.lhs.ty)
           result == Reg(IF i.op = "DIV" THEN "ax" ELSE "dx")
<1>1. /\ i.lhs \in IRValue /\ i.rhs \in IRValue /\ i.dst \in IRValue
      /\ i.lhs.ty = i.dst.ty /\ i.rhs.ty = i.dst.ty
  BY LocationIsValue DEF TypedBinary, Arith, Comparison, Shift
<1>2. /\ size \in Size /\ size \in {"longword", "quadword"}
      /\ Operand(i.lhs) \in AnyOperand /\ Takes(Operand(i.lhs), size)
      /\ Operand(i.rhs) \in AnyOperand /\ Takes(Operand(i.rhs), size)
      /\ Operand(i.dst) \in AnyOperand /\ Takes(Operand(i.dst), size)
  BY <1>1, ValueTakes DEF Size
<1>3. /\ {"mov", "cdq", "idiv"} \subseteq Kind /\ "none" \in Op
      /\ {"ax", "dx"} \subseteq Register
  BY DEF Kind, Op, Register
<1>4. result \in AnyOperand /\ Takes(result, size) /\ Reg("ax") \in AnyOperand /\ Takes(Reg("ax"), size)
  BY <1>3, NotInMemory
<1> HIDE DEF size, result
<1>5. Mov(size, Operand(i.lhs), Reg("ax")) \in FitInstr
  BY <1>2, <1>3, <1>4, AsmFits DEF Mov, SrcSize
<1>6. Cdq(size) \in FitInstr
  BY <1>2, <1>3, NotInMemory, AsmFits DEF Cdq, SrcSize
<1>7. Idiv(size, Operand(i.rhs)) \in FitInstr
  BY <1>2, <1>3, NotInMemory, AsmFits DEF Idiv, SrcSize
<1>8. Mov(size, result, Operand(i.dst)) \in FitInstr
  BY <1>2, <1>3, <1>4, AsmFits DEF Mov, SrcSize
<1>9. LowerDivision(i) = << Mov(size, Operand(i.lhs), Reg("ax")), Cdq(size),
                            Idiv(size, Operand(i.rhs)), Mov(size, result, Operand(i.dst)) >>
  BY DEF LowerDivision, size, result
<1>10. /\ Mov(size, Operand(i.lhs), Reg("ax")).kind = "mov" /\ Cdq(size).kind = "cdq"
       /\ Idiv(size, Operand(i.rhs)).kind = "idiv" /\ Mov(size, result, Operand(i.dst)).kind = "mov"
  BY DEF Mov, Cdq, Idiv, Asm
<1>11. LowerDivision(i) \in Seq(FitInstr)
  BY <1>5, <1>6, <1>7, <1>8, <1>9
<1>12. NoReader(LowerDivision(i))
  BY <1>9, <1>10 DEF NoReader, Reader
<1> QED
  BY <1>11, <1>12 DEF NoReader, ReadersFollow

LEMMA LowerShiftFits ==
    ASSUME NEW i, TypedBinary(i), i.op \in Shift
    PROVE  LowerShift(i) \in Seq(FitInstr) /\ ReadersFollow(LowerShift(i))
<1> DEFINE size == SizeOf(i.dst.ty)
           countSize == SizeOf(i.rhs.ty)
           op == ConvertOp[i.op]
           mov == Mov(size, Operand(i.lhs), Operand(i.dst))
           count == Mov(countSize, Operand(i.rhs), Reg("cx"))
           shift(src) == Binary(size, op, src, Operand(i.dst))
<1>1. /\ i.lhs \in IRValue /\ i.rhs \in IRValue /\ i.dst \in IRValue /\ i.lhs.ty = i.dst.ty
  BY LocationIsValue DEF TypedBinary, Arith, Comparison, Shift
<1>2. /\ size \in Size /\ countSize \in Size
      /\ Operand(i.lhs) \in AnyOperand /\ Takes(Operand(i.lhs), size)
      /\ Operand(i.rhs) \in AnyOperand /\ Takes(Operand(i.rhs), countSize)
      /\ Operand(i.dst) \in AnyOperand /\ Takes(Operand(i.dst), size)
  BY <1>1, ValueTakes DEF Size
<1>3. /\ "mov" \in Kind /\ "binary" \in Kind /\ "none" \in Op /\ op \in Op /\ "cx" \in Register
  BY DEF Kind, Op, Register, Shift, ConvertOp
<1>4. i.rhs.kind = "constant" => i.rhs.constant \in Int
  BY <1>1, OperandFits, Ranges
<1>5. LowerShift(i) = << mov >> \o IF i.rhs.kind = "constant" THEN << shift(Imm(i.rhs.constant)) >>
                                   ELSE << count, shift(Reg("cx")) >>
  BY DEF LowerShift
<1> HIDE DEF size, countSize, op
<1>6. mov \in FitInstr /\ mov.kind = "mov"
  BY <1>2, <1>3, AsmFits DEF Mov, SrcSize, Asm
<1>7. count \in FitInstr /\ count.kind = "mov"
  BY <1>2, <1>3, NotInMemory, AsmFits DEF Mov, SrcSize, Asm
<1>8. ASSUME NEW src \in AnyOperand, Takes(src, size)
      PROVE  shift(src) \in FitInstr /\ shift(src).kind = "binary"
  BY <1>2, <1>3, <1>8, AsmFits DEF Binary, SrcSize, Asm
<1> DEFINE rest == IF i.rhs.kind = "constant" THEN << shift(Imm(i.rhs.constant)) >>
                   ELSE << count, shift(Reg("cx")) >>
<1>9. rest \in Seq(FitInstr) /\ NoReader(rest)
  <2> DEFINE byImm == shift(Imm(i.rhs.constant))
             byReg == shift(Reg("cx"))
  <2>1. i.rhs.kind = "constant" => byImm \in FitInstr /\ byImm.kind = "binary"
    BY <1>4, <1>8, NotInMemory
  <2>2. byReg \in FitInstr /\ byReg.kind = "binary"
    BY <1>3, <1>8, NotInMemory
  <2> HIDE DEF count, byImm, byReg
  <2>3. rest = IF i.rhs.kind = "constant" THEN << byImm >> ELSE << count, byReg >>
    BY DEF byImm, byReg
  <2> QED
    BY <1>7, <2>1, <2>2, <2>3 DEF NoReader, Reader
<1> HIDE DEF mov, rest
<1>10. << mov >> \in Seq(FitInstr) /\ NoReader(<< mov >>)
  BY <1>6 DEF NoReader, Reader
<1>11. LowerShift(i) = << mov >> \o rest
  BY <1>5 DEF rest
<1> QED
  BY <1>9, <1>10, <1>11 DEF NoReader, ReadersFollow

LEMMA LowerBinaryFits ==
    ASSUME NEW i, TypedBinary(i)
    PROVE  LowerBinary(i) \in Seq(FitInstr) /\ ReadersFollow(LowerBinary(i))
<1>1. CASE i.op \in {"DIV", "REM"}
  <2>1. LowerBinary(i) = LowerDivision(i)
    BY <1>1 DEF LowerBinary, Comparison, Shift
  <2>2. i.op \in Arith
    BY <1>1 DEF Arith
  <2> QED
    BY <2>1, <2>2, LowerDivisionFits
<1>2. CASE i.op \in Comparison
  <2> DEFINE size == SizeOf(i.lhs.ty)
             compare == Cmp(size, Operand(i.rhs), Operand(i.lhs))
  <2>1. LowerBinary(i) = SetFrom(compare, ConvertOp[i.op], i.dst)
    BY <1>2 DEF LowerBinary, LowerComparison, Comparison, Shift
  <2>2. i.lhs \in IRValue /\ i.rhs \in IRValue /\ i.dst \in Location /\ i.lhs.ty = i.rhs.ty
    BY <1>2 DEF TypedBinary, Arith, Comparison, Shift
  <2>3. /\ size \in Size
        /\ Operand(i.lhs) \in AnyOperand /\ Takes(Operand(i.lhs), size)
        /\ Operand(i.rhs) \in AnyOperand /\ Takes(Operand(i.rhs), size)
    BY <2>2, ValueTakes DEF Size
  <2>4. "cmp" \in Kind /\ "none" \in Op
    BY DEF Kind, Op
  <2>5. ConvertOp[i.op] \in {"e", "ne", "l", "le", "g", "ge"}
    BY <1>2 DEF Comparison, ConvertOp
  <2> HIDE DEF size
  <2>6. compare \in FitInstr /\ compare.kind = "cmp"
    BY <2>3, <2>4, AsmFits DEF Cmp, SrcSize, Asm
  <2> HIDE DEF compare
  <2> QED
    BY <2>1, <2>2, <2>5, <2>6, SetFromFits
<1>3. CASE i.op \in Shift
  <2>1. LowerBinary(i) = LowerShift(i)
    BY <1>3 DEF LowerBinary, Comparison, Shift
  <2> QED
    BY <1>3, <2>1, LowerShiftFits
<1>4. CASE i.op \in Arith \ {"DIV", "REM"}
  <2> DEFINE size == SizeOf(i.dst.ty)
             op == ConvertOp[i.op]
             mov == Mov(size, Operand(i.lhs), Operand(i.dst))
             bin == Binary(size, op, Operand(i.rhs), Operand(i.dst))
  <2>1. LowerBinary(i) = << mov, bin >>
    BY <1>4 DEF LowerBinary, Arith, Comparison, Shift
  <2>2. /\ i.lhs \in IRValue /\ i.rhs \in IRValue /\ i.dst \in IRValue
        /\ i.lhs.ty = i.dst.ty /\ i.rhs.ty = i.dst.ty
    BY <1>4, LocationIsValue DEF TypedBinary, Arith, Comparison, Shift
  <2>3. /\ size \in Size
        /\ Operand(i.lhs) \in AnyOperand /\ Takes(Operand(i.lhs), size)
        /\ Operand(i.rhs) \in AnyOperand /\ Takes(Operand(i.rhs), size)
        /\ Operand(i.dst) \in AnyOperand /\ Takes(Operand(i.dst), size)
    BY <2>2, ValueTakes DEF Size
  <2>4. "mov" \in Kind /\ "binary" \in Kind /\ "none" \in Op /\ op \in Op
    BY <1>4 DEF Kind, Op, Arith, ConvertOp
  <2> HIDE DEF size, op
  <2>5. mov \in FitInstr /\ mov.kind = "mov"
    BY <2>3, <2>4, AsmFits DEF Mov, SrcSize, Asm
  <2>6. bin \in FitInstr /\ bin.kind = "binary"
    BY <2>3, <2>4, AsmFits DEF Binary, SrcSize, Asm
  <2> HIDE DEF mov, bin
  <2> QED
    BY <2>1, <2>5, <2>6 DEF ReadersFollow, Reader
<1> QED
  BY <1>1, <1>2, <1>3, <1>4 DEF TypedBinary

LEMMA LowerMoveFits ==
    ASSUME NEW i, TypedMove(i)
    PROVE  LowerInstr(i) \in Seq(FitInstr) /\ ReadersFollow(LowerInstr(i))
<1>1. /\ i.lhs \in IRValue /\ i.dst \in IRValue
      /\ \/ i.kind = "copy" /\ i.lhs.ty = i.dst.ty
         \/ i.kind = "cast" /\ i.lhs.ty # i.dst.ty
  BY LocationIsValue DEF TypedMove
<1>2. /\ i.lhs.ty \in CType /\ i.dst.ty \in CType
      /\ SizeOf(i.dst.ty) \in Size
      /\ Operand(i.lhs) \in AnyOperand /\ Takes(Operand(i.lhs), SizeOf(i.lhs.ty))
      /\ Takes(Operand(i.lhs), "longword")
      /\ Operand(i.dst) \in AnyOperand /\ Takes(Operand(i.dst), SizeOf(i.dst.ty))
      /\ Takes(Operand(i.dst), "longword")
  BY <1>1, ValueTakes DEF Size
<1>3. {"mov", "movsx"} \subseteq Kind /\ {"longword", "quadword"} \subseteq Size /\ "none" \in Op
  BY DEF Kind, Size, Op
<1>4. CASE i.kind = "copy"
  <2> DEFINE mov == Mov(SizeOf(i.dst.ty), Operand(i.lhs), Operand(i.dst))
  <2>1. LowerInstr(i) = << mov >>
    BY <1>4 DEF LowerInstr
  <2>2. mov \in FitInstr /\ mov.kind = "mov"
    BY <1>1, <1>2, <1>3, <1>4, AsmFits DEF Mov, SrcSize, Asm
  <2> HIDE DEF mov
  <2> QED
    BY <2>1, <2>2 DEF ReadersFollow, Reader
<1>5. CASE i.kind = "cast" /\ i.dst.ty = "long" /\ i.lhs.ty = "int"
  <2> DEFINE mov == Movsx(Operand(i.lhs), Operand(i.dst))
  <2>1. LowerInstr(i) = << mov >>
    BY <1>5 DEF LowerInstr, LowerCast
  <2>2. SizeOf(i.dst.ty) = "quadword"
    BY <1>5 DEF SizeOf
  <2>3. mov \in FitInstr /\ mov.kind = "movsx"
    BY <1>2, <1>3, <2>2, AsmFits DEF Movsx, SrcSize, Asm
  <2> HIDE DEF mov
  <2> QED
    BY <2>1, <2>3 DEF ReadersFollow, Reader
<1>6. CASE i.kind = "cast" /\ ~(i.dst.ty = "long" /\ i.lhs.ty = "int")
  <2> DEFINE mov == Mov("longword", Operand(i.lhs), Operand(i.dst))
  <2>1. LowerInstr(i) = << mov >>
    BY <1>6 DEF LowerInstr, LowerCast
  <2>2. mov \in FitInstr /\ mov.kind = "mov"
    BY <1>2, <1>3, AsmFits DEF Mov, SrcSize, Asm
  <2> HIDE DEF mov
  <2> QED
    BY <2>1, <2>2 DEF ReadersFollow, Reader
<1> QED
  BY <1>1, <1>4, <1>5, <1>6

LEMMA LowerJumpFits ==
    ASSUME NEW i, TypedJump(i)
    PROVE  LowerInstr(i) \in Seq(FitInstr) /\ ReadersFollow(LowerInstr(i))
<1>1. /\ {"cmp", "jmpcc", "mov", "ret", "jmp", "label"} \subseteq Kind
      /\ "quadword" \in Size /\ {"none", "e", "ne"} \subseteq Op /\ "ax" \in Register
  BY DEF Kind, Size, Op, Register
<1>2. CASE i.kind \in {"jump_if_zero", "jump_if_not_zero"}
  <2> DEFINE cond == IF i.kind = "jump_if_zero" THEN "e" ELSE "ne"
             compare == Cmp(SizeOf(i.lhs.ty), Imm(0), Operand(i.lhs))
             jump == Jmpcc(cond)
  <2>1. LowerInstr(i) = << compare, jump >>
    BY <1>2 DEF LowerInstr, LowerCondJump
  <2>2. /\ SizeOf(i.lhs.ty) \in Size
        /\ Operand(i.lhs) \in AnyOperand /\ Takes(Operand(i.lhs), SizeOf(i.lhs.ty))
    BY <1>2, ValueTakes DEF TypedJump, Size
  <2>3. compare \in FitInstr /\ compare.kind = "cmp"
    BY <1>1, <2>2, NotInMemory, AsmFits DEF Cmp, SrcSize, Asm
  <2>4. cond \in Op
    BY <1>1
  <2> HIDE DEF cond
  <2>5. jump \in FitInstr /\ jump.kind = "jmpcc"
    BY <1>1, <2>4, NotInMemory, AsmFits DEF Jmpcc, SrcSize, Asm
  <2> HIDE DEF compare, jump
  <2> DEFINE c == << compare, jump >>
  <2>6. c \in Seq(FitInstr) /\ DOMAIN c = {1, 2} /\ c[1].kind = "cmp"
    BY <2>3, <2>5
  <2> HIDE DEF c
  <2>7. Compared(c, 1)
    <3>1. 1 \in 1 .. 1 /\ 1 + 1 .. 1 = {}
      OBVIOUS
    <3> QED
      BY <2>6, <3>1 DEF Compared
  <2>8. \A k \in DOMAIN c : c[k].kind \in Reader => k = 2
    BY <2>6 DEF Reader
  <2>9. ReadersFollow(c)
    BY <2>7, <2>8 DEF ReadersFollow
  <2> QED
    BY <2>1, <2>6, <2>9 DEF c
<1>3. Ret \in FitInstr /\ Ret.kind = "ret"
  BY <1>1, NotInMemory, AsmFits DEF Ret, SrcSize, Asm
<1>4. CASE i.kind = "return" /\ i.lhs = NoValue
  <2>1. LowerInstr(i) = << Ret >>
    BY <1>4 DEF LowerInstr, LowerReturn
  <2> QED
    BY <1>3, <2>1 DEF ReadersFollow, Reader
<1>5. CASE i.kind = "return" /\ i.lhs # NoValue
  <2> DEFINE mov == Mov(SizeOf(i.lhs.ty), Operand(i.lhs), Reg("ax"))
  <2>1. LowerInstr(i) = << mov >> \o << Ret >>
    BY <1>5 DEF LowerInstr, LowerReturn
  <2>2. i.lhs \in IRValue
    BY <1>5 DEF TypedJump
  <2>3. /\ SizeOf(i.lhs.ty) \in Size
        /\ Operand(i.lhs) \in AnyOperand /\ Takes(Operand(i.lhs), SizeOf(i.lhs.ty))
    BY <2>2, ValueTakes DEF Size
  <2>4. mov \in FitInstr /\ mov.kind = "mov"
    BY <1>1, <2>3, NotInMemory, AsmFits DEF Mov, SrcSize, Asm
  <2> HIDE DEF mov
  <2>5. /\ << mov >> \in Seq(FitInstr) /\ NoReader(<< mov >>)
        /\ << Ret >> \in Seq(FitInstr) /\ NoReader(<< Ret >>)
    BY <1>3, <2>4 DEF NoReader, Reader
  <2> QED
    BY <2>1, <2>5 DEF NoReader, ReadersFollow
<1>6. CASE i.kind \in {"jump", "label"}
  <2>1. LowerInstr(i) = << Jmp >> \/ LowerInstr(i) = << Label >>
    BY <1>6 DEF LowerInstr
  <2>2. /\ Jmp \in FitInstr /\ Jmp.kind = "jmp" /\ Label \in FitInstr /\ Label.kind = "label"
    BY <1>1, NotInMemory, AsmFits DEF Jmp, Label, SrcSize, Asm
  <2>3. ASSUME NEW x \in FitInstr, x.kind \notin Reader, LowerInstr(i) = << x >>
        PROVE  LowerInstr(i) \in Seq(FitInstr) /\ ReadersFollow(LowerInstr(i))
    BY <2>3 DEF ReadersFollow
  <2> QED
    BY <2>1, <2>2, <2>3 DEF Reader
<1>7. i.kind \in {"jump_if_zero", "jump_if_not_zero"} \/ i.kind = "return" \/ i.kind \in {"jump", "label"}
  BY DEF TypedJump
<1> QED
  BY <1>2, <1>4, <1>5, <1>6, <1>7

LEMMA LowerFits ==
    ASSUME NEW i \in Instr
    PROVE  LowerInstr(i) \in Seq(FitInstr) /\ ReadersFollow(LowerInstr(i))
<1>1. CASE TypedUnary(i)
  <2>1. LowerInstr(i) = LowerUnary(i)
    BY <1>1 DEF TypedUnary, LowerInstr
  <2> QED
    BY <1>1, <2>1, LowerUnaryFits
<1>2. CASE TypedBinary(i)
  <2>1. LowerInstr(i) = LowerBinary(i)
    BY <1>2 DEF TypedBinary, LowerInstr
  <2> QED
    BY <1>2, <2>1, LowerBinaryFits
<1> QED
  BY <1>1, <1>2, LowerMoveFits, LowerJumpFits, InstrTyped

-----------------------------------------------------------------------------
\* The fixups.
LEMMA ScratchFits ==
    /\ R10 \in AnyOperand /\ ~IsMemory(R10) /\ R11 \in AnyOperand /\ ~IsMemory(R11)
    /\ \A size : Takes(R10, size) /\ Takes(R11, size)
  BY Scratch, NotInMemory DEF R10, R11, Register

\* Code without readers of the flags is what an instruction that is neither
\* a comparison nor a mov may become.
LEMMA FixupMovFits ==
    ASSUME NEW i \in FitInstr, i.kind = "mov"
    PROVE  FixupMov(i) \in Seq(FitInstr) /\ KeepsFlow(i, FixupMov(i))
<1> DEFINE src == IF i.size = "longword" /\ IsImm(i.src)
                  THEN Imm(Wrap(i.src.imm, "longword")) ELSE i.src
<1>1. /\ i.src \in AnyOperand /\ i.dst \in AnyOperand /\ i.size \in Size
      /\ Takes(i.src, i.size) /\ Takes(i.dst, i.size)
  BY DEF FitInstr, AsmInstr, SrcSize
<1>2. src \in AnyOperand /\ Takes(src, i.size)
  <2>1. CASE i.size = "longword" /\ IsImm(i.src)
    <3>1. i.src.imm \in Int
      BY <1>1, <2>1 DEF AnyOperand, IsImm, NoOperand, Imm, Reg
    <3>2. Wrap(i.src.imm, "longword") \in Int
      BY <3>1, WrapFits, Ranges
    <3> QED
      BY <2>1, <3>2, NotInMemory
  <2> QED
    BY <1>1, <2>1
<1> DEFINE away == Mov(i.size, src, R10)
           back == Mov(i.size, R10, i.dst)
           plain == Mov(i.size, src, i.dst)
<1>3. FixupMov(i) = IF (IsMemory(src) /\ IsMemory(i.dst)) \/ IsLargeImm(src)
                    THEN << away, back >> ELSE << plain >>
  BY DEF FixupMov
<1>4. "mov" \in Kind /\ "none" \in Op
  BY DEF Kind, Op
<1> HIDE DEF src
<1>5. away \in FitInstr /\ back \in FitInstr /\ plain \in FitInstr
  BY <1>1, <1>2, <1>4, ScratchFits, AsmFits DEF Mov, SrcSize
<1>6. away.kind = "mov" /\ back.kind = "mov" /\ plain.kind = "mov"
  BY DEF Mov, Asm
<1> HIDE DEF away, back, plain
<1> QED
  BY <1>3, <1>5, <1>6 DEF KeepsFlow, Reader

LEMMA FixupMovsxFits ==
    ASSUME NEW i \in FitInstr, i.kind = "movsx"
    PROVE  FixupMovsx(i) \in Seq(FitInstr) /\ KeepsFlow(i, FixupMovsx(i))
<1>1. /\ i.src \in AnyOperand /\ i.dst \in AnyOperand
      /\ Takes(i.src, "longword") /\ Takes(i.dst, "quadword")
  BY DEF FitInstr, AsmInstr, SrcSize
<1>2. {"mov", "movsx"} \subseteq Kind /\ {"longword", "quadword"} \subseteq Size /\ "none" \in Op
  BY DEF Kind, Size, Op
<1> DEFINE src == IF IsImm(i.src) THEN R10 ELSE i.src
           away == Mov("longword", i.src, R10)
           ext == Movsx(src, R11)
           back == Mov("quadword", R11, i.dst)
           plain == Movsx(src, i.dst)
           head == IF IsImm(i.src) THEN << away >> ELSE << >>
           rest == IF IsMemory(i.dst) THEN << ext, back >> ELSE << plain >>
<1>3. FixupMovsx(i) = head \o rest
  BY DEF FixupMovsx
<1>4. src \in AnyOperand /\ Takes(src, "longword")
  BY <1>1, ScratchFits
<1> HIDE DEF src
<1>5. away \in FitInstr /\ ext \in FitInstr /\ back \in FitInstr /\ plain \in FitInstr
  BY <1>1, <1>2, <1>4, ScratchFits, AsmFits DEF Mov, Movsx, SrcSize
<1>6. away.kind = "mov" /\ ext.kind = "movsx" /\ back.kind = "mov" /\ plain.kind = "movsx"
  BY DEF Mov, Movsx, Asm
<1> HIDE DEF away, ext, back, plain
<1>7. head \in Seq(FitInstr) /\ rest \in Seq(FitInstr) /\ NoReader(head) /\ NoReader(rest)
  BY <1>5, <1>6 DEF NoReader, Reader
<1> HIDE DEF head, rest
<1> QED
  BY <1>3, <1>7 DEF KeepsFlow, NoReader

\* The source that moves away.
LEMMA MoveSrcFits ==
    ASSUME NEW i \in FitInstr, i.kind \in {"binary", "cmp"}
    PROVE  /\ MoveSrc(i) \in Seq(FitInstr) /\ NoReader(MoveSrc(i))
           /\ FixedSrc(i) \in AnyOperand /\ Takes(FixedSrc(i), i.size)
<1>1. /\ i.src \in AnyOperand /\ i.size \in Size /\ Takes(i.src, i.size)
  BY DEF FitInstr, AsmInstr, SrcSize
<1> DEFINE mov == Mov(i.size, i.src, R10)
<1>2. mov \in FitInstr /\ mov.kind = "mov"
  <2>1. "mov" \in Kind /\ "none" \in Op
    BY DEF Kind, Op
  <2> QED
    BY <1>1, <2>1, ScratchFits, AsmFits DEF Mov, SrcSize, Asm
<1>3. MoveSrc(i) = IF SrcMoves(i) THEN << mov >> ELSE << >>
  BY DEF MoveSrc
<1> HIDE DEF mov
<1> QED
  BY <1>1, <1>2, <1>3, ScratchFits DEF FixedSrc, NoReader, Reader

LEMMA FixupBinaryFits ==
    ASSUME NEW i \in FitInstr, i.kind = "binary"
    PROVE  FixupBinary(i) \in Seq(FitInstr) /\ KeepsFlow(i, FixupBinary(i))
<1>1. /\ i.dst \in AnyOperand /\ i.size \in Size /\ i.op \in Op /\ Takes(i.dst, i.size)
  BY DEF FitInstr, AsmInstr
<1>2. {"mov", "binary"} \subseteq Kind /\ "none" \in Op
  BY DEF Kind, Op
<1> DEFINE src == FixedSrc(i)
           load == Mov(i.size, i.dst, R11)
           op == Binary(i.size, i.op, src, R11)
           back == Mov(i.size, R11, i.dst)
           plain == Binary(i.size, i.op, src, i.dst)
           rest == IF i.op = "imul" /\ IsMemory(i.dst) THEN << load, op, back >> ELSE << plain >>
<1>3. FixupBinary(i) = MoveSrc(i) \o rest
  BY DEF FixupBinary
<1>4. /\ MoveSrc(i) \in Seq(FitInstr) /\ NoReader(MoveSrc(i))
      /\ src \in AnyOperand /\ Takes(src, i.size)
  BY MoveSrcFits
<1> HIDE DEF src
<1>5. load \in FitInstr /\ op \in FitInstr /\ back \in FitInstr /\ plain \in FitInstr
  BY <1>1, <1>2, <1>4, ScratchFits, AsmFits DEF Mov, Binary, SrcSize
<1>6. load.kind = "mov" /\ op.kind = "binary" /\ back.kind = "mov" /\ plain.kind = "binary"
  BY DEF Mov, Binary, Asm
<1> HIDE DEF load, op, back, plain
<1>7. rest \in Seq(FitInstr) /\ NoReader(rest)
  BY <1>5, <1>6 DEF NoReader, Reader
<1> HIDE DEF rest
<1> QED
  BY <1>3, <1>4, <1>7 DEF KeepsFlow, NoReader

LEMMA FixupIdivFits ==
    ASSUME NEW i \in FitInstr, i.kind = "idiv"
    PROVE  FixupIdiv(i) \in Seq(FitInstr) /\ KeepsFlow(i, FixupIdiv(i))
<1>1. /\ i.src \in AnyOperand /\ i.size \in Size /\ Takes(i.src, i.size)
  BY DEF FitInstr, AsmInstr, SrcSize
<1>2. {"mov", "idiv"} \subseteq Kind /\ "none" \in Op
  BY DEF Kind, Op
<1> DEFINE away == Mov(i.size, i.src, R10)
           div == Idiv(i.size, R10)
           plain == Idiv(i.size, i.src)
<1>3. FixupIdiv(i) = IF IsImm(i.src) THEN << away, div >> ELSE << plain >>
  BY DEF FixupIdiv
<1>4. away \in FitInstr /\ div \in FitInstr /\ plain \in FitInstr
  BY <1>1, <1>2, ScratchFits, NotInMemory, AsmFits DEF Mov, Idiv, SrcSize
<1>5. away.kind = "mov" /\ div.kind = "idiv" /\ plain.kind = "idiv"
  BY DEF Mov, Idiv, Asm
<1> HIDE DEF away, div, plain
<1>6. FixupIdiv(i) \in Seq(FitInstr) /\ NoReader(FixupIdiv(i))
  BY <1>3, <1>4, <1>5 DEF NoReader, Reader
<1> QED
  BY <1>6 DEF KeepsFlow, NoReader

LEMMA FixupCmpFits ==
    ASSUME NEW i \in FitInstr, i.kind = "cmp"
    PROVE  FixupCmp(i) \in Seq(FitInstr) /\ KeepsFlow(i, FixupCmp(i))
<1>1. /\ i.dst \in AnyOperand /\ i.size \in Size /\ Takes(i.dst, i.size)
  BY DEF FitInstr, AsmInstr
<1>2. {"mov", "cmp"} \subseteq Kind /\ "none" \in Op
  BY DEF Kind, Op
<1> DEFINE src == FixedSrc(i)
           away == Mov(i.size, i.dst, R11)
           cmp == Cmp(i.size, src, R11)
           plain == Cmp(i.size, src, i.dst)
           rest == IF IsImm(i.dst) THEN << away, cmp >> ELSE << plain >>
<1>3. FixupCmp(i) = MoveSrc(i) \o rest
  BY DEF FixupCmp
<1>4. /\ MoveSrc(i) \in Seq(FitInstr) /\ NoReader(MoveSrc(i))
      /\ src \in AnyOperand /\ Takes(src, i.size)
  BY MoveSrcFits
<1> HIDE DEF src
<1>5. away \in FitInstr /\ cmp \in FitInstr /\ plain \in FitInstr
  BY <1>1, <1>2, <1>4, ScratchFits, AsmFits DEF Mov, Cmp, SrcSize
<1>6. away.kind = "mov" /\ cmp.kind = "cmp" /\ plain.kind = "cmp"
  BY DEF Mov, Cmp, Asm
<1> HIDE DEF away, cmp, plain
<1>7. /\ rest \in Seq(FitInstr) /\ NoReader(rest) /\ Len(rest) > 0
      /\ rest[Len(rest)].kind = "cmp"
  BY <1>5, <1>6 DEF NoReader, Reader
<1> HIDE DEF rest
<1> QED
  BY <1>3, <1>4, <1>7 DEF KeepsFlow, NoReader

LEMMA FixupFits ==
    ASSUME NEW i \in FitInstr
    PROVE  FixupInstr(i) \in Seq(FitInstr) /\ KeepsFlow(i, FixupInstr(i))
<1>1. CASE i.kind = "mov"
  BY <1>1, FixupMovFits DEF FixupInstr
<1>2. CASE i.kind = "movsx"
  BY <1>2, FixupMovsxFits DEF FixupInstr
<1>3. CASE i.kind = "binary"
  BY <1>3, FixupBinaryFits DEF FixupInstr
<1>4. CASE i.kind = "idiv"
  BY <1>4, FixupIdivFits DEF FixupInstr
<1>5. CASE i.kind = "cmp"
  BY <1>5, FixupCmpFits DEF FixupInstr
<1>6. CASE i.kind \notin {"mov", "movsx", "binary", "idiv", "cmp"}
  <2>1. FixupInstr(i) = << i >>
    BY <1>6 DEF FixupInstr
  <2> QED
    BY <1>6, <2>1 DEF KeepsFlow
<1> QED
  BY <1>1, <1>2, <1>3, <1>4, <1>5, <1>6

-----------------------------------------------------------------------------
\* Readers that are still to be fixed follow a comparison among what is still
\* to be fixed, or the one the code ends with.
ReadersFollowFrom(c, rest) == \A k \in DOMAIN rest : rest[k].kind \in Reader =>
    \/ Compared(rest, k - 1)
    \/ Compared(c, Len(c)) /\ \A m \in 1 .. k - 1 : rest[m].kind = "mov"

OldReaders == ReadersFollowFrom(code, old)

FlowInv ==
    /\ instr \in Instr /\ old \in Seq(FitInstr) /\ code \in Seq(FitInstr)
    /\ ReadersFollow(code) /\ OldReaders
    /\ pc \in Nat \ {0} /\ (phase \in {"lower", "fixup"} => pc = 1)
    /\ phase = "run" /\ Compared(code, pc - 1) => flags # NoFlags

\* Appending keeps what there is.
LEMMA Joined ==
    ASSUME NEW s \in Seq(FitInstr), NEW t \in Seq(FitInstr)
    PROVE  /\ s \o t \in Seq(FitInstr) /\ Len(s \o t) = Len(s) + Len(t)
           /\ \A k \in 1 .. Len(s) : (s \o t)[k] = s[k]
           /\ \A k \in 1 .. Len(t) : (s \o t)[Len(s) + k] = t[k]
           /\ \A k \in 1 .. Len(s) + Len(t) :
                 k \in 1 .. Len(s) \/ k - Len(s) \in 1 .. Len(t)
  OBVIOUS

LEMMA ComparedJoined ==
    ASSUME NEW s \in Seq(FitInstr), NEW t \in Seq(FitInstr), NEW n \in 0 .. Len(s)
    PROVE  Compared(s \o t, n) <=> Compared(s, n)
<1>1. \A k \in 1 .. n : (s \o t)[k] = s[k]
  BY Joined
<1>2. \A j \in 1 .. n : \A m \in j + 1 .. n : m \in 1 .. n
  OBVIOUS
<1> QED
  BY <1>1, <1>2 DEF Compared

\* A step of phase 3.
LEMMA FixupKeepsFlow ==
    ASSUME NEW i \in FitInstr, NEW rest \in Seq(FitInstr), NEW c \in Seq(FitInstr),
           NEW f \in Seq(FitInstr), KeepsFlow(i, f), ReadersFollow(c),
           ReadersFollowFrom(c, << i >> \o rest)
    PROVE  ReadersFollow(c \o f) /\ ReadersFollowFrom(c \o f, rest)
<1> DEFINE d == c \o f
           whole == << i >> \o rest
<1>1. /\ d \in Seq(FitInstr) /\ Len(d) = Len(c) + Len(f) /\ DOMAIN d = 1 .. Len(d)
      /\ \A k \in 1 .. Len(c) : d[k] = c[k]
      /\ \A k \in 1 .. Len(f) : d[Len(c) + k] = f[k]
      /\ \A k \in 1 .. Len(c) + Len(f) : k \in 1 .. Len(c) \/ k - Len(c) \in 1 .. Len(f)
      /\ Len(c) \in Nat /\ Len(f) \in Nat /\ DOMAIN c = 1 .. Len(c) /\ DOMAIN f = 1 .. Len(f)
  BY Joined
<1>2. /\ Len(whole) = Len(rest) + 1 /\ whole[1] = i /\ Len(rest) \in Nat
      /\ \A k \in 1 .. Len(rest) : whole[k + 1] = rest[k]
      /\ DOMAIN whole = 1 .. Len(whole) /\ DOMAIN rest = 1 .. Len(rest)
  OBVIOUS
<1>6. \A k \in DOMAIN whole : whole[k].kind \in Reader =>
          \/ Compared(whole, k - 1)
          \/ Compared(c, Len(c)) /\ \A m \in 1 .. k - 1 : whole[m].kind = "mov"
  BY DEF ReadersFollowFrom
<1>3. \A n \in 0 .. Len(c) : Compared(d, n) <=> Compared(c, n)
  BY ComparedJoined
<1> HIDE DEF d, whole
<1>4. ReadersFollow(d)
  <2> SUFFICES ASSUME NEW k \in DOMAIN d, d[k].kind \in Reader PROVE Compared(d, k - 1)
    BY DEF ReadersFollow
  <2>1. CASE k \in 1 .. Len(c)
    <3>1. k - 1 \in 0 .. Len(c) /\ Compared(c, k - 1)
      BY <1>1, <2>1 DEF ReadersFollow
    <3> QED
      BY <1>3, <3>1
  <2>2. CASE k - Len(c) \in 1 .. Len(f)
    <3>1. f[k - Len(c)].kind \in Reader
      <4>1. PICK q \in 1 .. Len(f) : q = k - Len(c)
        BY <2>2
      <4>3. k \in Int /\ Len(c) \in Int /\ q \in Int
        BY <1>1
      <4>2. d[Len(c) + q] = f[q] /\ Len(c) + q = k
        BY <1>1, <4>1, <4>3
      <4> QED
        BY <4>1, <4>2
    <3>2. k = Len(c) + 1 /\ i.kind \in Reader
      BY <1>1, <2>2, <3>1 DEF KeepsFlow
    <3>3. ~Compared(whole, 0)
      BY DEF Compared
    <3>4. Compared(c, Len(c))
      <4>1. 1 \in DOMAIN whole /\ whole[1].kind \in Reader /\ 1 - 1 = 0
        BY <1>2, <3>2
      <4> QED
        BY <1>6, <3>3, <4>1
    <3>5. k - 1 = Len(c) /\ Len(c) \in 0 .. Len(c)
      BY <1>1, <3>2
    <3> QED
      BY <1>3, <3>4, <3>5
  <2> QED
    BY <1>1, <2>1, <2>2
<1>5. ASSUME NEW k \in DOMAIN rest, rest[k].kind \in Reader
      PROVE  \/ Compared(rest, k - 1)
             \/ Compared(d, Len(d)) /\ \A m \in 1 .. k - 1 : rest[m].kind = "mov"
  <2>1. k \in 1 .. Len(rest) /\ k + 1 \in DOMAIN whole /\ whole[k + 1] = rest[k] /\ (k + 1) - 1 = k
    BY <1>2
  <2>2. \/ Compared(whole, k)
        \/ Compared(c, Len(c)) /\ \A m \in 1 .. k : whole[m].kind = "mov"
    BY <1>5, <1>6, <2>1
  <2>3. CASE Compared(whole, k)
    <3>1. PICK j \in 1 .. k : whole[j].kind = "cmp" /\ \A m \in j + 1 .. k : whole[m].kind = "mov"
      BY <2>3 DEF Compared
    <3>2. \A m \in 1 .. k - 1 : m \in 1 .. Len(rest) /\ whole[m + 1] = rest[m]
      BY <1>2, <2>1
    <3>3. CASE j = 1
      <4>1. i.kind = "cmp"
        BY <1>2, <3>1, <3>3
      <4>2. Len(f) > 0 /\ f[Len(f)].kind = "cmp"
        BY <4>1 DEF KeepsFlow
      <4>3. d[Len(d)].kind = "cmp" /\ Len(d) \in 1 .. Len(d) /\ Len(d) + 1 .. Len(d) = {}
        <5>1. Len(f) \in 1 .. Len(f) /\ Len(d) = Len(c) + Len(f)
          BY <1>1, <4>2
        <5>2. d[Len(d)] = f[Len(f)]
          BY <1>1, <5>1
        <5> QED
          BY <1>1, <4>2, <5>1, <5>2
      <4>4. Compared(d, Len(d))
        BY <4>3 DEF Compared
      <4>5. \A m \in 1 .. k - 1 : m + 1 \in j + 1 .. k
        BY <2>1, <3>3
      <4> QED
        BY <3>1, <3>2, <4>4, <4>5
    <3>4. CASE j # 1
      <4>1. j - 1 \in 1 .. k - 1 /\ (j - 1) + 1 = j
        BY <2>1, <3>4
      <4>2. rest[j - 1].kind = "cmp"
        BY <3>1, <3>2, <4>1
      <4>3. \A m \in (j - 1) + 1 .. k - 1 : m \in 1 .. k - 1 /\ m + 1 \in j + 1 .. k
        BY <2>1, <4>1
      <4>4. \A m \in (j - 1) + 1 .. k - 1 : rest[m].kind = "mov"
        BY <3>1, <3>2, <4>3
      <4> QED
        BY <4>1, <4>2, <4>4 DEF Compared
    <3> QED
      BY <3>3, <3>4
  <2>4. CASE Compared(c, Len(c)) /\ \A m \in 1 .. k : whole[m].kind = "mov"
    <3>1. 1 \in 1 .. k
      BY <2>1
    <3>2. i.kind = "mov"
      BY <1>2, <2>4, <3>1
    <3>3. \A q \in 1 .. Len(f) : f[q].kind = "mov"
      BY <1>1, <3>2 DEF KeepsFlow
    <3>4. PICK j \in 1 .. Len(c) : c[j].kind = "cmp" /\ \A m \in j + 1 .. Len(c) : c[m].kind = "mov"
      BY <2>4 DEF Compared
    <3>5. d[j].kind = "cmp" /\ j \in 1 .. Len(d)
      BY <1>1, <3>4
    <3>6. ASSUME NEW m \in j + 1 .. Len(d) PROVE d[m].kind = "mov"
      <4>1. m \in 1 .. Len(c) + Len(f)
        BY <1>1
      <4>2. CASE m \in 1 .. Len(c)
        <5>1. m \in j + 1 .. Len(c)
          BY <4>2
        <5> QED
          BY <1>1, <3>4, <4>2, <5>1
      <4>3. CASE m - Len(c) \in 1 .. Len(f)
        <5>1. PICK q \in 1 .. Len(f) : q = m - Len(c)
          BY <4>3
        <5>3. m \in Int /\ Len(c) \in Int /\ q \in Int
          BY <1>1
        <5>4. Len(c) + q = m
          BY <5>1, <5>3
        <5>2. d[Len(c) + q] = f[q]
          BY <1>1
        <5> QED
          BY <3>3, <5>2, <5>4
      <4> QED
        BY <1>1, <4>1, <4>2, <4>3
    <3>7. Compared(d, Len(d))
      BY <3>5, <3>6 DEF Compared
    <3>8. \A m \in 1 .. k - 1 : m + 1 \in 1 .. k /\ m \in 1 .. Len(rest)
      BY <2>1, <1>2
    <3>9. \A m \in 1 .. k - 1 : rest[m].kind = "mov"
      BY <1>2, <2>4, <3>8
    <3> QED
      BY <3>7, <3>9
  <2> QED
    BY <2>2, <2>3, <2>4
<1> QED
  BY <1>4, <1>5 DEF d, ReadersFollowFrom

\* A step of the processor.
LEMMA ExecuteKeepsFlow ==
    ASSUME FlowInv, Execute
    PROVE  FlowInv'
<1>1. UNCHANGED << instr, old, code >>
  BY DEF Execute, ExecMov, ExecMovsx, ExecUnary, ExecBinary, ExecCmp, ExecSetcc, ExecCdq,
         ExecIdiv, Fault, ExecJump, ExecLabel, End, Advance, Stop, compiler
<1>2. phase = "run"
  BY DEF Execute, ExecMov, ExecMovsx, ExecUnary, ExecBinary, ExecCmp, ExecSetcc, ExecCdq,
         ExecIdiv, Fault, ExecJump, ExecLabel, End, At
<1>3. /\ instr' \in Instr /\ old' \in Seq(FitInstr) /\ code' \in Seq(FitInstr)
      /\ ReadersFollow(code)' /\ OldReaders'
  BY <1>1 DEF FlowInv, ReadersFollow, OldReaders, ReadersFollowFrom, Compared
<1>4. CASE pc' = pc /\ phase' \in {"done", "fault"}
  BY <1>3, <1>4 DEF FlowInv
<1>5. CASE /\ pc' = pc + 1 /\ phase' = phase /\ pc <= Len(code)
           /\ code[pc].kind = "mov" => flags' = flags
           /\ code[pc].kind = "cmp" => flags' # NoFlags
  <2>1. pc \in Nat \ {0} /\ pc' \in Nat \ {0} /\ pc' - 1 = pc
    BY <1>5 DEF FlowInv
  <2>2. ASSUME Compared(code, pc) PROVE flags' # NoFlags
    <3>1. PICK j \in 1 .. pc : code[j].kind = "cmp" /\ \A m \in j + 1 .. pc : code[m].kind = "mov"
      BY <2>2 DEF Compared
    <3>2. CASE j = pc
      BY <1>5, <3>1, <3>2
    <3>3. CASE j # pc
      <4>1. j \in 1 .. pc - 1 /\ pc \in j + 1 .. pc /\ j + 1 .. pc - 1 \subseteq j + 1 .. pc
        BY <2>1, <3>3
      <4>2. Compared(code, pc - 1)
        BY <3>1, <4>1 DEF Compared
      <4>3. flags # NoFlags
        BY <1>2, <4>2 DEF FlowInv
      <4> QED
        BY <1>5, <3>1, <4>1, <4>3
    <3> QED
      BY <3>2, <3>3
  <2>3. Compared(code', pc' - 1) => Compared(code, pc)
    BY <1>1, <2>1
  <2> QED
    BY <1>2, <1>3, <1>5, <2>1, <2>2, <2>3 DEF FlowInv
<1>6. CASE ExecMov
  BY <1>5, <1>6 DEF ExecMov, Advance, At
<1>7. CASE ExecCmp
  BY <1>5, <1>7 DEF ExecCmp, Advance, At, NoFlags
<1>8. CASE ExecMovsx \/ ExecUnary \/ ExecBinary \/ ExecSetcc \/ ExecCdq \/ ExecIdiv \/ ExecLabel
  BY <1>5, <1>8 DEF ExecMovsx, ExecUnary, ExecBinary, ExecSetcc, ExecCdq, ExecIdiv, ExecLabel,
                    Advance, At
<1>9. CASE Fault \/ ExecJump \/ End
  BY <1>4, <1>9 DEF Fault, ExecJump, End, Stop
<1> QED
  BY <1>6, <1>7, <1>8, <1>9 DEF Execute

LEMMA FlowInvHolds == Spec => []FlowInv
<1>1. Init => FlowInv
  <2>1. \A c : c = << >> => c \in Seq(FitInstr) /\ DOMAIN c = {}
    OBVIOUS
  <2>2. ~Compared(<< >>, 0)
    BY DEF Compared
  <2> QED
    BY <2>1, <2>2 DEF Init, FlowInv, ReadersFollow, OldReaders, ReadersFollowFrom
<1>2. FlowInv /\ [Next]_vars => FlowInv'
  <2> SUFFICES ASSUME FlowInv, [Next]_vars PROVE FlowInv'
    OBVIOUS
  <2>1. CASE Lower
    <3>1. /\ instr' = instr /\ code' = code /\ pc' = pc /\ old' = LowerInstr(instr)
          /\ phase = "lower" /\ phase' = "fixup"
      BY <2>1 DEF Lower
    <3>2. old' \in Seq(FitInstr) /\ ReadersFollow(old')
      BY <3>1, LowerFits DEF FlowInv
    <3>3. OldReaders'
      BY <3>2 DEF ReadersFollow, OldReaders, ReadersFollowFrom
    <3> QED
      BY <3>1, <3>2, <3>3 DEF FlowInv, ReadersFollow, Compared
  <2>2. CASE Fixup /\ old = << >>
    <3>1. /\ instr' = instr /\ code' = code /\ pc' = pc /\ old' = old /\ pc = 1
          /\ phase' = "run"
      BY <2>2 DEF Fixup, FlowInv
    <3>2. ~Compared(code', pc' - 1)
      BY <3>1 DEF Compared
    <3> QED
      BY <3>1, <3>2 DEF FlowInv, ReadersFollow, OldReaders, ReadersFollowFrom, Compared
  <2>3. CASE Fixup /\ old # << >>
    <3>1. /\ instr' = instr /\ pc' = pc /\ phase' = phase /\ phase = "fixup"
          /\ old' = Tail(old) /\ code' = code \o FixupInstr(Head(old))
      BY <2>3 DEF Fixup
    <3>2. /\ Head(old) \in FitInstr /\ Tail(old) \in Seq(FitInstr) /\ old = << Head(old) >> \o Tail(old)
      BY <2>3 DEF FlowInv
    <3>3. FixupInstr(Head(old)) \in Seq(FitInstr) /\ KeepsFlow(Head(old), FixupInstr(Head(old)))
      BY <3>2, FixupFits
    <3>4. ReadersFollow(code') /\ OldReaders'
      <4>1. code \in Seq(FitInstr) /\ ReadersFollow(code) /\ ReadersFollowFrom(code, old)
        BY DEF FlowInv, OldReaders
      <4> DEFINE i == Head(old)
                 rest == Tail(old)
                 f == FixupInstr(i)
      <4>2. /\ i \in FitInstr /\ rest \in Seq(FitInstr) /\ f \in Seq(FitInstr) /\ KeepsFlow(i, f)
            /\ ReadersFollowFrom(code, << i >> \o rest)
        BY <3>2, <3>3, <4>1
      <4>3. old' = rest /\ code' = code \o f
        BY <3>1
      <4> HIDE DEF i, rest, f
      <4>4. ReadersFollow(code \o f) /\ ReadersFollowFrom(code \o f, rest)
        BY <4>1, <4>2, FixupKeepsFlow
      <4>5. ReadersFollow(code') /\ ReadersFollowFrom(code', old')
        BY <4>3, <4>4
      <4> QED
        BY <4>5 DEF OldReaders, ReadersFollowFrom, Compared
    <3> QED
      BY <3>1, <3>2, <3>3, <3>4 DEF FlowInv
  <2>4. CASE Execute
    BY <2>4, ExecuteKeepsFlow
  <2>5. CASE UNCHANGED vars
    BY <2>5 DEF vars, compiler, FlowInv, ReadersFollow, OldReaders, Compared
  <2> QED
    BY <2>1, <2>2, <2>3, <2>4, <2>5 DEF Next, Terminated
<1> QED
  BY <1>1, <1>2, PTL DEF Spec

\* No instruction of the generated code reaches past the variable it names,
\* whatever the widths, the variables and the constants.
THEOREM AccessesStayInside == Spec => []AccessesFit
<1>1. FlowInv => AccessesFit
  <2> SUFFICES ASSUME FlowInv, NEW k \in DOMAIN code, NEW o \in {code[k].src, code[k].dst},
                      IsMemory(o)
               PROVE  Bits(IF code[k].kind = "movsx" /\ o = code[k].src THEN "longword"
                           ELSE code[k].size) <= Bits(SizeOf(o.loc.ty))
    BY DEF AccessesFit
  <2>1. code[k] \in FitInstr
    BY DEF FlowInv
  <2> QED
    BY <2>1 DEF FitInstr, Takes, SrcSize
<1> QED
  BY <1>1, FlowInvHolds, PTL

\* Whatever reads the flags finds those of the comparison it was lowered with:
\* between the two, lowering puts only movs and the fixups only more movs.
THEOREM FlagsSurvive == Spec => []FlagsReachReader
<1>1. FlowInv => FlagsReachReader
  <2> SUFFICES ASSUME FlowInv, At(Reader) PROVE flags # NoFlags
    BY DEF FlagsReachReader, Reader
  <2>1. pc \in DOMAIN code /\ code[pc].kind \in Reader /\ phase = "run"
    BY DEF At, FlowInv
  <2> QED
    BY <2>1 DEF FlowInv, ReadersFollow
<1> QED
  BY <1>1, FlowInvHolds, PTL
=============================================================================
