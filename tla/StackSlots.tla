----------------------------- MODULE StackSlots -----------------------------
(***************************************************************************)
(* Phase 2 of x86.c: every pseudo (a local, a parameter or a temporary)   *)
(* an instruction names gets a stack slot, at the first instruction that  *)
(* names it. Offset 0 means that it has none yet. The table of offsets    *)
(* belongs to the program, the running frame size to one function.        *)
(***************************************************************************)
EXTENDS Integers, Sequences

CONSTANTS
    Function,     \* the functions with a body
    Pseudo,       \* ids of local symbols and temporaries
    Owner,        \* the function whose instructions name a pseudo
    Params,       \* the parameters of a function, in order
    Size,         \* pseudo_size: type_size of the pseudo's type
    None          \* no function, no pseudo

ASSUME SlotsAssumption ==
    /\ None \notin Function /\ None \notin Pseudo
    /\ Owner \in [Pseudo -> Function] /\ Size \in [Pseudo -> {4, 8}]
    /\ Params \in [Function -> Seq(Pseudo)]

VARIABLES
    fn,           \* the function whose instructions are being walked
    offset,       \* pseudo_offset
    frameSize,    \* frame_size
    stackSize,    \* stack_size of each function
    done          \* the functions phase 2 is over with

slots == << fn, offset, frameSize, stackSize, done >>

SlotsInit == /\ fn = None /\ done = {}
             /\ offset = [p \in Pseudo |-> 0] /\ frameSize = 0
             /\ stackSize = [f \in Function |-> 0]

\* Mutant: the remainder is cut off.
RoundUp_Down(n, unit) == (n \div unit) * unit

RoundUp(n, unit) == ((n + unit - 1) \div unit) * unit

-----------------------------------------------------------------------------
\* assign_stack_slots starts on a function.
AssignStackSlots(f) ==
    /\ fn = None /\ f \notin done
    /\ fn' = f /\ frameSize' = 0
    /\ UNCHANGED << offset, stackSize, done >>

\* Mutant: the frame is not rounded to the size of the new slot.
Grown_Packed(p) == frameSize + Size[p]

\* The frame once the next slot, for p, is in it.
Grown(p) == RoundUp(frameSize + Size[p], Size[p])

\* The instructions that store the parameters come first, in order.
MayBeNamed(p) ==
    \A i \in DOMAIN Params[fn] :
        (\A j \in 1 .. i : Params[fn][j] # p) => offset[Params[fn][i]] # 0

\* Mutant: every use takes a new slot.
ReplacePseudo_EachUse(p) ==
    /\ fn # None /\ Owner[p] = fn /\ MayBeNamed(p)
    /\ frameSize' = Grown(p) /\ offset' = [offset EXCEPT ![p] = -frameSize']
    /\ UNCHANGED << fn, stackSize, done >>

\* replace_pseudo: an instruction of fn names p.
ReplacePseudo(p) ==
    /\ fn # None /\ Owner[p] = fn /\ MayBeNamed(p)
    /\ IF offset[p] = 0
       THEN frameSize' = Grown(p) /\ offset' = [offset EXCEPT ![p] = -frameSize']
       ELSE UNCHANGED << frameSize, offset >>
    /\ UNCHANGED << fn, stackSize, done >>

AllParamsPlaced == \A i \in DOMAIN Params[fn] : offset[Params[fn][i]] # 0

\* Mutant: the frame is left as it is.
EndFunction_Unrounded ==
    /\ fn # None /\ AllParamsPlaced
    /\ stackSize' = [stackSize EXCEPT ![fn] = frameSize]
    /\ fn' = None /\ done' = done \cup {fn}
    /\ UNCHANGED << offset, frameSize >>

\* The end of assign_stack_slots.
EndFunction ==
    /\ fn # None /\ AllParamsPlaced
    /\ stackSize' = [stackSize EXCEPT ![fn] = RoundUp(frameSize, 16)]
    /\ fn' = None /\ done' = done \cup {fn}
    /\ UNCHANGED << offset, frameSize >>

SlotsNext == \/ \E f \in Function : AssignStackSlots(f)
             \/ \E p \in Pseudo : ReplacePseudo(p)
             \/ EndFunction

SlotsSpec == SlotsInit /\ [][SlotsNext]_slots

-----------------------------------------------------------------------------
\* Every variable has its type.
SlotsTypeOK == /\ fn \in Function \cup {None} /\ done \subseteq Function
               /\ offset \in [Pseudo -> Int] /\ frameSize \in Nat
               /\ stackSize \in [Function -> Nat]

Placed(p) == offset[p] # 0

\* The bytes of a slot, as offsets from %rbp.
Apart(p, q) == \/ offset[p] + Size[p] <= offset[q]
               \/ offset[q] + Size[q] <= offset[p]

\* Two pseudos of one function never share a byte, whatever their sizes and
\* the order in which the instructions name them.
SlotsApart ==
    \A p, q \in Pseudo :
        p # q /\ Owner[p] = Owner[q] /\ Placed(p) /\ Placed(q) => Apart(p, q)

\* When a function is done its slots lie between the frame's end, where %rsp
\* will be and calls push, and the saved %rbp; its frame keeps %rsp aligned.
SlotsInFrame ==
    /\ \A p \in Pseudo : Placed(p) /\ Owner[p] \in done =>
          offset[p] >= -stackSize[Owner[p]] /\ offset[p] + Size[p] <= 0
    /\ \A f \in done : stackSize[f] % 16 = 0

\* A slot is aligned to its own size, as %rbp is to 16.
SlotsAligned == \A p \in Pseudo : offset[p] % Size[p] = 0

\* An operand that was rewritten stays right: a slot is never given away.
SlotsKept == [][\A p \in Pseudo : Placed(p) => offset'[p] = offset[p]]_slots
=============================================================================
