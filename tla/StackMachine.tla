---------------------------- MODULE StackMachine ----------------------------
(***************************************************************************)
(* The calling sequence x86.c generates, run on a stack: lower_call and   *)
(* lower_params, the prologue of write_function and the ret of            *)
(* write_instr, over the slots of module StackSlots. The caller pushes    *)
(* what the argument registers do not hold, the callee moves every        *)
(* argument to a slot below its own %rbp, and each finds the rest by      *)
(* addresses alone.                                                        *)
(*                                                                         *)
(* Memory is cut into words of 4 bytes; what lies below %rsp is lost.     *)
(***************************************************************************)
EXTENDS StackSlots

CONSTANTS
    Main,         \* the function the C runtime calls
    ReturnSize,   \* the size of a function's value, 0 for void
    ArgRegCount,  \* ARG_REG_COUNT, 6 in the code
    Int4, Long8,  \* the values an int and a long may have
    Top,          \* %rsp when the runtime is about to call Main
    MaxDepth      \* bound: activations at once

ASSUME MachineAssumption ==
    /\ Main \in Function /\ Params[Main] = << >>
    /\ ReturnSize \in [Function -> {0, 4, 8}]
    /\ ArgRegCount \in Nat /\ MaxDepth \in Nat /\ Top \in Int /\ Top % 16 = 0
    /\ \A f \in Function : \A i \in DOMAIN Params[f] :
          /\ Owner[Params[f][i]] = f
          /\ \A j \in DOMAIN Params[f] : Params[f][i] = Params[f][j] => i = j
    /\ (Int4 \cup Long8) \cap Pseudo = {}

VARIABLES
    pc,           \* the instruction the machine is at
    mem,          \* the words of the stack: << value, which word of it >>
    rsp, rbp,
    args,         \* %rdi, %rsi, ...: what they hold
    rax,
    known         \* history: the variables each activation has given a value

machine == << pc, mem, rsp, rbp, args, rax, known >>
vars == << slots, machine >>

Word == {0, 4}
Junk == << "junk" >>

\* The words an operand of n bytes at a has.
Words(a, n) == {a + w : w \in {v \in Word : v < n}}

Store(m, a, n, v) ==
    [x \in DOMAIN m \cup Words(a, n) |-> IF x \in Words(a, n) THEN << v, x - a >> ELSE m[x]]

Load(m, a, n) ==
    IF Words(a, n) \subseteq DOMAIN m /\ \A x \in Words(a, n) : m[x] = << m[a][1], x - a >>
    THEN m[a][1] ELSE Junk

\* What stays when %rsp moves up to a.
KeptFrom(m, a) == [x \in {y \in DOMAIN m : y >= a} |-> m[x]]

Saved(a) == << "rbp", a >>
Code(at) == << "code", at >>
Exit == Code([at |-> "exit"])

MachineInit ==
    /\ pc = [at |-> "start"]
    /\ mem = Store([x \in {} |-> Junk], Top - 8, 8, Exit)
    /\ rsp = Top - 8 /\ rbp = 0
    /\ args = << >> /\ rax = Junk
    /\ known = << {} >>

ValueOf(size) == IF size = 4 THEN Int4 ELSE Long8

\* An operand: a constant or the slot of a pseudo the program has set.
Operand(size) == ValueOf(size) \cup {p \in known[Len(known)] : Size[p] = size}

Read(x, size) == IF x \in Pseudo THEN Load(mem, rbp + offset[x], size) ELSE x

InBody == pc.at = "body"

\* push rbp; mov rsp, rbp; sub stack_size, rsp, after sp bytes were pushed on m.
Prologue(m, sp, f) ==
    /\ mem' = Store(m, sp - 8, 8, Saved(rbp))
    /\ rbp' = sp - 8
    /\ rsp' = sp - 8 - stackSize[f]

-----------------------------------------------------------------------------
\* The runtime has called Main.
Start ==
    /\ pc.at = "start" /\ done = Function
    /\ Prologue(mem, rsp, Main)
    /\ pc' = [at |-> "body", fn |-> Main]
    /\ UNCHANGED << slots, args, rax, known >>

\* lower_ir_instr, an instruction that gives p a value.
Assign(p, x) ==
    /\ InBody /\ Owner[p] = pc.fn /\ Placed(p) /\ x \in Operand(Size[p])
    /\ mem' = Store(mem, rbp + offset[p], Size[p], Read(x, Size[p]))
    /\ known' = [known EXCEPT ![Len(known)] = @ \cup {p}]
    /\ UNCHANGED << slots, pc, rsp, rbp, args, rax >>

StackCount(n) == IF n > ArgRegCount THEN n - ArgRegCount ELSE 0

\* Mutant: the stack is never padded.
Padding_None(n) == 0

Padding(n) == IF StackCount(n) % 2 # 0 THEN 8 ELSE 0

\* lower_call begins: room to keep %rsp aligned to 16.
BeginCall(g, actual, dst) ==
    /\ InBody /\ Len(known) < MaxDepth
    /\ DOMAIN actual = DOMAIN Params[g]
    /\ \A i \in DOMAIN actual : actual[i] \in Operand(Size[Params[g][i]])
    /\ IF ReturnSize[g] = 0 THEN dst = None
       ELSE dst \in Pseudo /\ Owner[dst] = pc.fn /\ Placed(dst) /\ Size[dst] = ReturnSize[g]
    /\ rsp' = rsp - Padding(Len(actual))
    /\ pc' = [at |-> "call", fn |-> pc.fn, callee |-> g, actual |-> actual, dst |-> dst,
              left |-> StackCount(Len(actual))]
    /\ UNCHANGED << slots, mem, rbp, args, rax, known >>

\* Mutant: the first of the arguments on the stack is pushed first.
NextPushed_First == Len(pc.actual) - pc.left + 1

\* The argument the next push is for: the last one not yet pushed.
NextPushed == ArgRegCount + pc.left

\* pushq: 8 bytes, whatever the size of the operand.
PushArg ==
    /\ pc.at = "call" /\ pc.left > 0
    /\ LET x == pc.actual[NextPushed]
           a == rbp + offset[x]
       IN mem' = IF x \in Pseudo
                 THEN [w \in DOMAIN mem \cup {v \in Words(rsp - 8, 8) :
                                                 a + v - (rsp - 8) \in DOMAIN mem} |->
                          IF w < rsp THEN mem[a + w - (rsp - 8)] ELSE mem[w]]
                 ELSE Store(mem, rsp - 8, 8, x)
    /\ rsp' = rsp - 8
    /\ pc' = [pc EXCEPT !.left = @ - 1]
    /\ UNCHANGED << slots, rbp, args, rax, known >>

\* Mutant: the padding stays on the stack.
Pushed_NotPadding(n) == 8 * StackCount(n)

\* What the call takes from the stack.
Pushed(n) == 8 * StackCount(n) + Padding(n)

\* Where the callee returns to.
After == [at |-> "after", fn |-> pc.fn, dst |-> pc.dst, pushed |-> Pushed(Len(pc.actual))]

\* The argument registers are loaded, call pushes where to return to, and the
\* callee's prologue runs.
EnterCallee ==
    /\ pc.at = "call" /\ pc.left = 0
    /\ LET n == Len(pc.actual)
           g == pc.callee
       IN /\ args' = [i \in 1 .. n - StackCount(n) |->
                         Read(pc.actual[i], Size[Params[g][i]])]
          /\ Prologue(Store(mem, rsp - 8, 8, Code(After)), rsp - 8, g)
          /\ pc' = IF n = 0 THEN [at |-> "body", fn |-> g]
                   ELSE [at |-> "params", fn |-> g, next |-> 1]
          /\ known' = Append(known, {})
    /\ UNCHANGED << slots, rax >>

\* Where the caller left argument i.
Incoming(i) ==
    IF i <= ArgRegCount THEN args[i]
    ELSE Load(mem, rbp + 16 + 8 * (i - 1 - ArgRegCount), Size[Params[pc.fn][i]])

\* lower_params, one parameter.
MoveParam ==
    /\ pc.at = "params"
    /\ LET i == pc.next
           p == Params[pc.fn][i]
       IN /\ mem' = Store(mem, rbp + offset[p], Size[p], Incoming(i))
          /\ known' = [known EXCEPT ![Len(known)] = @ \cup {p}]
          /\ pc' = IF i = Len(Params[pc.fn]) THEN [at |-> "body", fn |-> pc.fn]
                   ELSE [pc EXCEPT !.next = i + 1]
    /\ UNCHANGED << slots, rsp, rbp, args, rax >>

\* mov src, rax; mov rbp, rsp; pop rbp; ret.
Return(x) ==
    /\ InBody
    /\ IF ReturnSize[pc.fn] = 0 THEN x = None /\ UNCHANGED rax
       ELSE x \in Operand(ReturnSize[pc.fn]) /\ rax' = Read(x, ReturnSize[pc.fn])
    /\ rbp' = Load(mem, rbp, 8)[2]
    /\ pc' = Load(mem, rbp + 8, 8)[2]
    /\ rsp' = rbp + 16
    /\ mem' = KeptFrom(mem, rbp + 16)
    /\ known' = SubSeq(known, 1, Len(known) - 1)
    /\ UNCHANGED << slots, args >>

\* The rest of lower_call.
AfterCall ==
    /\ pc.at = "after"
    /\ rsp' = rsp + pc.pushed
    /\ LET m == KeptFrom(mem, rsp')
       IN IF pc.dst = None THEN mem' = m /\ UNCHANGED known
          ELSE /\ mem' = Store(m, rbp + offset[pc.dst], Size[pc.dst], rax)
               /\ known' = [known EXCEPT ![Len(known)] = @ \cup {pc.dst}]
    /\ pc' = [at |-> "body", fn |-> pc.fn]
    /\ UNCHANGED << slots, rbp, args, rax >>

Terminated == pc.at = "exit" /\ UNCHANGED vars

Compile == pc.at = "start" /\ SlotsNext /\ UNCHANGED machine

\* An IR instruction of the running function.
Lowered ==
    \/ \E p \in Pseudo : \E x \in Operand(Size[p]) : Assign(p, x)
    \/ \E g \in Function :
          \E actual \in [DOMAIN Params[g] -> Operand(4) \cup Operand(8)],
             dst \in Pseudo \cup {None} : BeginCall(g, actual, dst)
    \/ \E x \in Operand(4) \cup Operand(8) \cup {None} : Return(x)

Next == \/ Compile \/ Start \/ (InBody /\ Lowered)
        \/ PushArg \/ EnterCallee \/ MoveParam \/ AfterCall
        \/ Terminated

Init == SlotsInit /\ MachineInit
Spec == Init /\ [][Next]_vars

-----------------------------------------------------------------------------
\* The ABI: whatever arguments are on the stack, and however deep the calls,
\* %rsp is a multiple of 16 when a function is called.
AlignedAtCalls == pc.at = "call" /\ pc.left = 0 => rsp % 16 = 0

\* A statement runs with %rsp at the end of its function's frame: calls give
\* back all they took. Nothing the program has set lies below %rsp.
Balanced == /\ InBody => rsp = rbp - stackSize[pc.fn]
            /\ \A a \in DOMAIN mem : a >= rsp

-----------------------------------------------------------------------------
\* %rbp of activation k, by the saved ones.
Base(k) ==
    LET Up[n \in 0 .. Len(known)] == IF n = 0 THEN rbp ELSE Load(mem, Up[n - 1], 8)[2]
    IN Up[Len(known) - k]

ReturnTo(k) == Load(mem, Base(k) + 8, 8)

FunctionOf(k) == IF k = Len(known) THEN pc.fn ELSE ReturnTo(k + 1)[2].fn

Activation(k) ==
    [fn |-> FunctionOf(k),
     vars |-> [p \in known[k] |-> Load(mem, Base(k) + offset[p], Size[p])],
     dst |-> IF k = 1 THEN None ELSE ReturnTo(k)[2].dst]

\* A call counts once the callee has its parameters.
Entered == IF pc.at = "params" THEN Len(known) - 1 ELSE Len(known)

Acts == IF pc.at = "start"
        THEN << [fn |-> Main, vars |-> [p \in {} |-> None], dst |-> None] >>
        ELSE [k \in 1 .. Entered |-> Activation(k)]

\* A returned value that has not reached its variable.
Result == IF pc.at = "after" THEN << pc.dst, IF pc.dst = None THEN None ELSE rax >>
          ELSE << >>

Source == INSTANCE Activations WITH Variable <- Pseudo, acts <- Acts, result <- Result

\* The machine does what calls promise: every argument arrives as the
\* parameter it is for, an activation's variables are what it last gave them
\* whatever was called since, a value returns to the variable that waits.
ImplementsActivations == Source!Spec
=============================================================================
