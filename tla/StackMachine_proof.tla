------------------------- MODULE StackMachine_proof -------------------------
(***************************************************************************)
(* Proofs about the stack slots and the calling sequence, for any          *)
(* functions, parameters, slots and depth of calls. Slots are apart        *)
(* because the frame only grows while a function is walked and every slot  *)
(* given so far lies in it. The running activation's %rbp leads, by the    *)
(* saved ones, to every activation under it and to where each goes on;     *)
(* nothing the program stores touches those words, because its slots lie   *)
(* below the saved %rbp of their frame and what is pushed lies below %rsp. *)
(* Read along that chain the stack is the activations of the source, each  *)
(* variable with the value it was last given, so that a call does what     *)
(* Activations promises.                                                   *)
(***************************************************************************)
EXTENDS StackMachine, WellFoundedInduction, TLAPS

-----------------------------------------------------------------------------
(* The slots by themselves.                                                *)

USE SlotsAssumption

\* Rounding up gives a multiple that is not smaller, and so is its opposite.
LEMMA RoundUpProperties ==
  ASSUME NEW n \in Nat, NEW unit \in {4, 8, 16}
  PROVE  /\ RoundUp(n, unit) \in Nat /\ RoundUp(n, unit) >= n
         /\ RoundUp(n, unit) % unit = 0 /\ (-RoundUp(n, unit)) % unit = 0
<1>1. CASE unit = 4
  BY <1>1 DEF RoundUp
<1>2. CASE unit = 8
  BY <1>2 DEF RoundUp
<1>3. CASE unit = 16
  BY <1>3 DEF RoundUp
<1> QED
  BY <1>1, <1>2, <1>3

-----------------------------------------------------------------------------
\* A function that has slots is done or being walked, not both.
Walked == /\ fn # None => fn \notin done
          /\ \A p \in Pseudo : Placed(p) => Owner[p] \in done \cup {fn}

\* The slots given so far in the function being walked lie in its frame.
InGrowingFrame ==
    \A p \in Pseudo : Placed(p) =>
        /\ offset[p] + Size[p] <= 0
        /\ Owner[p] = fn => offset[p] >= -frameSize

\* The inductive invariant.
LayoutInv == /\ SlotsTypeOK /\ Walked /\ InGrowingFrame
        /\ SlotsApart /\ SlotsInFrame /\ SlotsAligned

LEMMA InitLayoutInv == SlotsInit => LayoutInv
<1> SUFFICES ASSUME SlotsInit PROVE LayoutInv
  OBVIOUS
<1>1. \A p \in Pseudo : offset[p] = 0 /\ offset[p] % Size[p] = 0
  <2> SUFFICES ASSUME NEW p \in Pseudo PROVE offset[p] = 0 /\ offset[p] % Size[p] = 0
    OBVIOUS
  <2>1. Size[p] = 4 \/ Size[p] = 8
    OBVIOUS
  <2> QED
    BY <2>1 DEF SlotsInit
<1>2. SlotsTypeOK
  BY DEF SlotsInit, SlotsTypeOK
<1> QED
  BY <1>1, <1>2 DEF SlotsInit, LayoutInv, Walked, InGrowingFrame, SlotsApart, SlotsInFrame,
     SlotsAligned, Placed

\* A new slot lies below the frame as it was, which has all the others.
LEMMA NewSlot ==
  ASSUME LayoutInv, NEW p \in Pseudo
  PROVE  /\ Grown(p) \in Nat /\ Grown(p) >= frameSize + Size[p]
         /\ (-Grown(p)) % Size[p] = 0
<1>1. Size[p] \in {4, 8, 16} /\ Size[p] \in Nat /\ frameSize \in Nat
  BY DEF LayoutInv, SlotsTypeOK
<1>2. frameSize + Size[p] \in Nat
  BY <1>1
<1> QED
  BY <1>1, <1>2, RoundUpProperties DEF Grown

LEMMA AssignStep ==
  ASSUME LayoutInv, NEW f \in Function, AssignStackSlots(f)
  PROVE  LayoutInv'
<1>1. \A p \in Pseudo : Placed(p) => Owner[p] \in done
  BY DEF LayoutInv, Walked, AssignStackSlots
<1>2. SlotsTypeOK'
  BY DEF LayoutInv, SlotsTypeOK, AssignStackSlots
<1> QED
  BY <1>1, <1>2 DEF LayoutInv, AssignStackSlots, Walked, InGrowingFrame, SlotsApart, Apart,
     SlotsInFrame, SlotsAligned, Placed

LEMMA ReplaceStep ==
  ASSUME LayoutInv, NEW p \in Pseudo, ReplacePseudo(p)
  PROVE  LayoutInv'
<1>1. CASE offset[p] # 0
  <2>1. UNCHANGED slots
    BY <1>1 DEF ReplacePseudo, slots
  <2> QED
    BY <2>1 DEF slots, LayoutInv, SlotsTypeOK, Walked, InGrowingFrame, SlotsApart, Apart,
       SlotsInFrame, SlotsAligned, Placed
<1>2. CASE offset[p] = 0
  <2>1. /\ Grown(p) \in Nat /\ Grown(p) >= frameSize + Size[p]
        /\ (-Grown(p)) % Size[p] = 0
    BY NewSlot
  <2>2. /\ frameSize' = Grown(p) /\ fn' = fn /\ stackSize' = stackSize /\ done' = done
        /\ Owner[p] = fn /\ fn # None
        /\ offset' = [offset EXCEPT ![p] = -Grown(p)]
    BY <1>2 DEF ReplacePseudo
  <2>3. SlotsTypeOK
    BY DEF LayoutInv
  <2>4. /\ offset'[p] = -Grown(p)
        /\ \A q \in Pseudo : q # p => offset'[q] = offset[q]
    BY <2>2, <2>3 DEF SlotsTypeOK
  <2>5. frameSize \in Nat /\ \A q \in Pseudo : offset[q] \in Int /\ Size[q] \in {4, 8}
    BY <2>3 DEF SlotsTypeOK
  <2> DEFINE g == Grown(p)
  <2>13. g \in Nat /\ g >= frameSize + Size[p] /\ frameSize \in Nat
         /\ Size[p] \in Nat /\ Size[p] > 0 /\ offset'[p] = -g
    <3>1. Size[p] = 4 \/ Size[p] = 8
      BY <2>5
    <3> QED
      BY <2>1, <2>4, <2>5, <3>1
  <2>6. SlotsTypeOK'
    <3>1. -Grown(p) \in Int
      BY <2>1
    <3> QED
      BY <2>1, <2>2, <2>3, <3>1 DEF SlotsTypeOK
  <2> HIDE DEF g
  <2>7. Walked'
    BY <2>2, <2>4 DEF LayoutInv, Walked, Placed
  <2>8. InGrowingFrame'
    <3>1. ASSUME NEW q \in Pseudo, offset'[q] # 0
          PROVE  offset'[q] + Size[q] <= 0 /\ (Owner[q] = fn => offset'[q] >= -g)
      <4>1. CASE q = p
        BY <2>13, <4>1
      <4>2. CASE q # p
        <5>1. offset'[q] = offset[q]
          BY <2>4, <4>2
        <5>2. offset[q] + Size[q] <= 0 /\ (Owner[q] = fn => offset[q] >= -frameSize)
          BY <3>1, <5>1 DEF LayoutInv, InGrowingFrame, Placed
        <5>3. offset[q] \in Int
          BY <2>5
        <5> QED
          BY <2>13, <5>1, <5>2, <5>3
      <4> QED
        BY <4>1, <4>2
    <3> QED
      BY <2>2, <3>1 DEF InGrowingFrame, Placed, g
  <2>9. \A q \in Pseudo : q # p /\ Owner[q] = Owner[p] /\ Placed(q) =>
                               offset'[p] + Size[p] <= offset[q]
    <3>1. ASSUME NEW q \in Pseudo, Owner[q] = Owner[p], Placed(q)
          PROVE  offset'[p] + Size[p] <= offset[q]
      <4>1. offset[q] >= -frameSize
        BY <2>2, <3>1 DEF LayoutInv, InGrowingFrame
      <4>2. offset[q] \in Int
        BY <2>5
      <4> QED
        BY <2>13, <4>1, <4>2
    <3> QED
      BY <3>1
  <2>10. SlotsApart'
    BY <2>4, <2>9 DEF LayoutInv, SlotsApart, Apart, Placed
  <2>11. SlotsInFrame'
    BY <2>2, <2>4 DEF LayoutInv, SlotsInFrame, Walked, Placed
  <2>12. SlotsAligned'
    <3>1. \A q \in Pseudo : offset[q] % Size[q] = 0
      BY DEF LayoutInv, SlotsAligned
    <3>2. offset'[p] % Size[p] = 0
      BY <2>1, <2>4
    <3>3. ASSUME NEW q \in Pseudo PROVE offset'[q] % Size[q] = 0
      <4>1. CASE q = p
        BY <3>2, <4>1
      <4>2. CASE q # p
        <5>1. offset'[q] = offset[q]
          BY <2>4, <4>2
        <5> QED
          BY <3>1, <5>1
      <4> QED
        BY <4>1, <4>2
    <3> QED
      BY <3>3 DEF SlotsAligned
  <2> QED
    BY <2>6, <2>7, <2>8, <2>10, <2>11, <2>12 DEF LayoutInv
<1> QED
  BY <1>1, <1>2

LEMMA EndStep ==
  ASSUME LayoutInv, EndFunction
  PROVE  LayoutInv'
<1> DEFINE R == RoundUp(frameSize, 16)
<1>1. frameSize \in Nat /\ \A q \in Pseudo : offset[q] \in Int
  BY DEF LayoutInv, SlotsTypeOK
<1>2. R \in Nat /\ R >= frameSize /\ R % 16 = 0
  BY <1>1, RoundUpProperties
<1>3. /\ fn # None /\ fn \in Function /\ offset' = offset /\ frameSize' = frameSize
      /\ fn' = None /\ done' = done \cup {fn} /\ fn \notin done
      /\ stackSize' = [stackSize EXCEPT ![fn] = R]
  BY DEF EndFunction, LayoutInv, SlotsTypeOK, Walked
<1> HIDE DEF R
<1>4. SlotsTypeOK'
  BY <1>2, <1>3 DEF LayoutInv, SlotsTypeOK
<1>5. /\ stackSize'[fn] = R
      /\ \A f \in done : stackSize'[f] = stackSize[f]
  BY <1>3 DEF LayoutInv, SlotsTypeOK
<1>6. Walked' /\ SlotsApart' /\ SlotsAligned'
  BY <1>3 DEF LayoutInv, Walked, SlotsApart, Apart, SlotsAligned, Placed
<1>7. InGrowingFrame'
  BY <1>3 DEF LayoutInv, InGrowingFrame, Placed
<1>8. SlotsInFrame'
  <2>1. ASSUME NEW q \in Pseudo, Placed(q), Owner[q] \in done'
        PROVE  offset[q] >= -stackSize'[Owner[q]] /\ offset[q] + Size[q] <= 0
    <3>1. CASE Owner[q] = fn
      <4>1. offset[q] >= -frameSize /\ offset[q] + Size[q] <= 0 /\ offset[q] \in Int
        BY <1>1, <2>1, <3>1 DEF LayoutInv, InGrowingFrame
      <4>2. -frameSize >= -R
        BY <1>1, <1>2
      <4>3. stackSize'[Owner[q]] = R /\ -frameSize \in Int /\ -R \in Int
        BY <1>1, <1>2, <1>5, <3>1
      <4> QED
        BY <4>1, <4>2, <4>3
    <3>2. CASE Owner[q] \in done
      BY <1>5, <2>1, <3>2 DEF LayoutInv, SlotsInFrame
    <3> QED
      BY <1>3, <2>1, <3>1, <3>2
  <2>2. \A f \in done' : stackSize'[f] % 16 = 0
    BY <1>2, <1>3, <1>5 DEF LayoutInv, SlotsInFrame
  <2> QED
    BY <1>3, <2>1, <2>2 DEF SlotsInFrame, Placed
<1> QED
  BY <1>4, <1>6, <1>7, <1>8 DEF LayoutInv

LEMMA NextLayoutInv == LayoutInv /\ [SlotsNext]_slots => LayoutInv'
<1> SUFFICES ASSUME LayoutInv, [SlotsNext]_slots PROVE LayoutInv'
  OBVIOUS
<1>1. CASE UNCHANGED slots
  BY <1>1 DEF slots, LayoutInv, SlotsTypeOK, Walked, InGrowingFrame, SlotsApart, Apart,
     SlotsInFrame, SlotsAligned, Placed
<1> QED
  BY <1>1, AssignStep, ReplaceStep, EndStep DEF SlotsNext

-----------------------------------------------------------------------------
\* The types of the variables of phase 2 hold in every state.
THEOREM SlotTypesCorrect == SlotsSpec => []SlotsTypeOK
<1>1. LayoutInv => SlotsTypeOK
  BY DEF LayoutInv
<1> QED
  BY <1>1, InitLayoutInv, NextLayoutInv, PTL DEF SlotsSpec

\* replace_pseudo never gives two pseudos of a function a common byte.
THEOREM SlotsNeverOverlap == SlotsSpec => []SlotsApart
<1>1. LayoutInv => SlotsApart
  BY DEF LayoutInv
<1> QED
  BY <1>1, InitLayoutInv, NextLayoutInv, PTL DEF SlotsSpec

\* The stack_size of a function that is done covers its slots and keeps the
\* stack aligned to 16.
THEOREM FrameCoversSlots == SlotsSpec => []SlotsInFrame
<1>1. LayoutInv => SlotsInFrame
  BY DEF LayoutInv
<1> QED
  BY <1>1, InitLayoutInv, NextLayoutInv, PTL DEF SlotsSpec

\* Every slot is aligned to the size of what it holds.
THEOREM SlotsNaturallyAligned == SlotsSpec => []SlotsAligned
<1>1. LayoutInv => SlotsAligned
  BY DEF LayoutInv
<1> QED
  BY <1>1, InitLayoutInv, NextLayoutInv, PTL DEF SlotsSpec

\* A pseudo keeps its slot, so operands rewritten before stay right.
THEOREM SlotsStay == SlotsSpec => SlotsKept
<1>1. ASSUME LayoutInv, [SlotsNext]_slots
      PROVE  [\A p \in Pseudo : Placed(p) => offset'[p] = offset[p]]_slots
  <2>1. ASSUME NEW q \in Pseudo, ReplacePseudo(q)
        PROVE  \A p \in Pseudo : Placed(p) => offset'[p] = offset[p]
    BY <1>1, <2>1 DEF ReplacePseudo, Placed, LayoutInv, SlotsTypeOK
  <2>2. ASSUME NEW f \in Function, AssignStackSlots(f)
        PROVE  \A p \in Pseudo : Placed(p) => offset'[p] = offset[p]
    BY <2>2 DEF AssignStackSlots
  <2>3. CASE EndFunction
    BY <2>3 DEF EndFunction
  <2> QED
    BY <1>1, <2>1, <2>2, <2>3 DEF SlotsNext
<1> QED
  BY <1>1, InitLayoutInv, NextLayoutInv, PTL DEF SlotsSpec, SlotsKept

HIDE SlotsAssumption

-----------------------------------------------------------------------------
(* The slots, while the machine runs.                                      *)

\* Every step of the program walks its instructions or leaves the slots.
LEMMA MachineRefinesSlots == ASSUME Next PROVE [SlotsNext]_slots
<1>1. CASE Compile
  BY <1>1 DEF Compile
<1>2. CASE Start
  BY <1>2 DEF Start
<1>3. CASE Lowered
  BY <1>3 DEF Lowered, Assign, BeginCall, Return
<1>4. CASE PushArg
  BY <1>4 DEF PushArg
<1>5. CASE EnterCallee
  BY <1>5 DEF EnterCallee
<1>6. CASE MoveParam
  BY <1>6 DEF MoveParam
<1>7. CASE AfterCall
  BY <1>7 DEF AfterCall
<1>8. CASE Terminated
  BY <1>8 DEF Terminated, vars
<1> QED
  BY <1>1, <1>2, <1>3, <1>4, <1>5, <1>6, <1>7, <1>8 DEF Next

\* The slots of the machine are those phase 2 lays out, so that all that holds of
\* slots by themselves (SlotsSpec) holds of every program that runs.
THEOREM SlotsAreLaidOut == Spec => SlotsSpec
<1>1. Init => SlotsInit
  BY DEF Init
<1>2. [Next]_vars => [SlotsNext]_slots
  BY MachineRefinesSlots DEF vars
<1> QED
  BY <1>1, <1>2, PTL DEF Spec, SlotsSpec

-----------------------------------------------------------------------------
(* The chain of activations.                                               *)

\* m has the 8 bytes of v at a.
Holds(m, a, v) == /\ a \in DOMAIN m /\ a + 4 \in DOMAIN m
                  /\ m[a] = << v, 0 >> /\ m[a + 4] = << v, 4 >>

\* What m has from a on, m2 has too.
KeepsFrom(m, m2, a) == \A x \in DOMAIN m : x >= a => x \in DOMAIN m2 /\ m2[x] = m[x]

\* A variable of f that may wait for a value, or none.
MayWait(o, dst, f) == dst = None \/ (dst \in Pseudo /\ Owner[dst] = f /\ o[dst] # 0)

\* Where a function that was called by f goes on.
Resumed(f, dst, n) == [at |-> "after", fn |-> f, dst |-> dst, pushed |-> n]

\* The base c leads to that of its caller f, a; s and o are the frame sizes and
\* the offsets. What f pushed lies between its frame and the return address.
Called(m, s, o, c, a, f) ==
    \E dst \in Pseudo \cup {None}, n \in Nat :
        /\ Holds(m, c, Saved(a)) /\ Holds(m, c + 8, Code(Resumed(f, dst, n)))
        /\ MayWait(o, dst, f) /\ c + 16 + n = a - s[f]

\* The bases b of d activations, of the functions g.
Linked(m, s, o, d, b, g) ==
    /\ b \in [Nat -> Int] /\ g \in [Nat -> Function]
    /\ \A k \in 1 .. d : b[k] % 16 = 0 /\ \A j \in 1 .. k : b[j] >= b[k]
    /\ Holds(m, b[1], Saved(0)) /\ Holds(m, b[1] + 8, Exit)
    /\ \A k \in 1 .. d - 1 : Called(m, s, o, b[k + 1], b[k], g[k])

\* What a memory holds above an address is kept by what only writes below it.
LEMMA KeepsHolds ==
  ASSUME NEW m, NEW m2, NEW c \in Int, NEW a \in Int, NEW v, KeepsFrom(m, m2, c),
         a >= c, Holds(m, a, v)
  PROVE  Holds(m2, a, v)
BY DEF KeepsFrom, Holds

LEMMA KeepsFromHigher ==
  ASSUME NEW m, NEW m2, NEW a \in Int, NEW c \in Int, c >= a, DOMAIN m \subseteq Int,
         KeepsFrom(m, m2, a)
  PROVE  KeepsFrom(m, m2, c)
BY DEF KeepsFrom

LEMMA StoreKeeps ==
  ASSUME NEW m, DOMAIN m \subseteq Int, NEW a \in Int, NEW n \in {4, 8}, NEW v,
         NEW c \in Int, a + n <= c
  PROVE  KeepsFrom(m, Store(m, a, n, v), c)
BY DEF KeepsFrom, Store, Words, Word

LEMMA StoreDomain ==
  ASSUME NEW m, DOMAIN m \subseteq Int, NEW a \in Int, NEW n \in {4, 8}, NEW v
  PROVE  /\ DOMAIN Store(m, a, n, v) \subseteq Int
         /\ \A x \in DOMAIN Store(m, a, n, v) : x \in DOMAIN m \/ x >= a
BY DEF Store, Words, Word

LEMMA StoreHolds ==
  ASSUME NEW m, NEW a \in Int, NEW v
  PROVE  Holds(Store(m, a, 8, v), a, v)
BY DEF Holds, Store, Words, Word

LEMMA LoadHeld ==
  ASSUME NEW m, NEW a \in Int, NEW v, Holds(m, a, v)
  PROVE  Load(m, a, 8) = v
<1>1. Words(a, 8) = {a, a + 4}
  <2>1. {w \in Word : w < 8} = {0, 4}
    BY DEF Word
  <2>2. a + 0 = a
    OBVIOUS
  <2> QED
    BY <2>1, <2>2 DEF Words
<1>2. m[a][1] = v /\ a - a = 0 /\ (a + 4) - a = 4
  BY DEF Holds
<1> QED
  BY <1>1, <1>2 DEF Load, Holds

LEMMA KeepsTransitive ==
  ASSUME NEW m, NEW m2, NEW m3, NEW a \in Int, NEW c \in Int, c >= a,
         DOMAIN m \subseteq Int, KeepsFrom(m, m2, a), KeepsFrom(m2, m3, c)
  PROVE  KeepsFrom(m, m3, c)
BY DEF KeepsFrom

\* Memory that still has all from the innermost base on has the same chain.
LEMMA KeepsLinked ==
  ASSUME NEW m, NEW m2, NEW s \in [Function -> Nat], NEW o, NEW d \in Nat \ {0}, NEW b, NEW g,
         Linked(m, s, o, d, b, g), KeepsFrom(m, m2, b[d])
  PROVE  Linked(m2, s, o, d, b, g)
<1>1. /\ b \in [Nat -> Int] /\ g \in [Nat -> Function]
      /\ \A k \in 1 .. d : b[k] >= b[d]
  BY DEF Linked
<1>2. Holds(m2, b[1], Saved(0)) /\ Holds(m2, b[1] + 8, Exit)
  <2>1. 1 \in 1 .. d /\ b[1] \in Int /\ b[d] \in Int /\ b[1] + 8 \in Int
    BY <1>1
  <2>2. b[1] >= b[d] /\ b[1] + 8 >= b[d]
    BY <1>1, <2>1
  <2> QED
    BY <2>1, <2>2, KeepsHolds DEF Linked
<1>3. ASSUME NEW k \in 1 .. d - 1 PROVE Called(m2, s, o, b[k + 1], b[k], g[k])
  <2>1. k + 1 \in 1 .. d /\ k + 1 \in Nat /\ k \in Nat
    OBVIOUS
  <2>2. b[k + 1] \in Int /\ b[d] \in Int /\ b[k + 1] + 8 \in Int /\ b[k + 1] >= b[d]
        /\ b[k + 1] + 8 >= b[d]
    BY <1>1, <2>1
  <2>3. PICK dst \in Pseudo \cup {None}, n \in Nat :
           /\ Holds(m, b[k + 1], Saved(b[k])) /\ Holds(m, b[k + 1] + 8, Code(Resumed(g[k], dst, n)))
           /\ MayWait(o, dst, g[k]) /\ b[k + 1] + 16 + n = b[k] - s[g[k]]
    BY DEF Linked, Called
  <2>4. Holds(m2, b[k + 1], Saved(b[k])) /\ Holds(m2, b[k + 1] + 8, Code(Resumed(g[k], dst, n)))
    BY <2>2, <2>3, KeepsHolds
  <2> QED
    BY <2>3, <2>4 DEF Called
<1> QED
  BY <1>1, <1>2, <1>3 DEF Linked

\* The chain under the innermost activation.
LEMMA PopLinked ==
  ASSUME NEW m, NEW s \in [Function -> Nat], NEW o, NEW d \in Nat, d > 1, NEW b, NEW g,
         Linked(m, s, o, d, b, g)
  PROVE  Linked(m, s, o, d - 1, b, g)
<1>1. d - 1 \in Nat /\ 1 .. d - 1 \subseteq 1 .. d /\ 1 .. (d - 1) - 1 \subseteq 1 .. d - 1
  OBVIOUS
<1> QED
  BY <1>1 DEF Linked

\* Entry e at d + 1, the others as they are.
Extended(h, d, e) == [h EXCEPT ![d + 1] = e]

\* A call puts one more activation on the chain of frames.
LEMMA PushLinked ==
  ASSUME NEW m, NEW s \in [Function -> Nat], NEW o, NEW d \in Nat \ {0}, NEW b, NEW g,
         Linked(m, s, o, d, b, g), NEW c \in Int, NEW f \in Function,
         c % 16 = 0, c <= b[d], Called(m, s, o, c, b[d], g[d])
  PROVE  Linked(m, s, o, d + 1, Extended(b, d, c), Extended(g, d, f))
<1> DEFINE b2 == Extended(b, d, c)
           g2 == Extended(g, d, f)
<1>1. /\ b \in [Nat -> Int] /\ g \in [Nat -> Function]
      /\ \A k \in 1 .. d : b[k] % 16 = 0 /\ \A j \in 1 .. k : b[j] >= b[k]
      /\ Holds(m, b[1], Saved(0)) /\ Holds(m, b[1] + 8, Exit)
      /\ \A k \in 1 .. d - 1 : Called(m, s, o, b[k + 1], b[k], g[k])
  BY DEF Linked
<1>2. /\ b2 \in [Nat -> Int] /\ g2 \in [Nat -> Function]
      /\ b2[d + 1] = c /\ \A k \in 1 .. d : b2[k] = b[k] /\ g2[k] = g[k]
  BY <1>1 DEF Extended
<1> HIDE DEF b2, g2
<1>3. ASSUME NEW k \in 1 .. d + 1
      PROVE  b2[k] % 16 = 0 /\ \A j \in 1 .. k : b2[j] >= b2[k]
  <2>1. CASE k \in 1 .. d
    <3>1. 1 .. k \subseteq 1 .. d
      BY <2>1
    <3> QED
      BY <1>1, <1>2, <2>1, <3>1
  <2>2. CASE k = d + 1
    <3>1. \A j \in 1 .. d : b[j] >= b[d] /\ b[j] \in Int /\ b[d] \in Int
      BY <1>1
    <3>2. \A j \in 1 .. d : b2[j] >= c
      BY <1>2, <3>1
    <3> QED
      BY <1>2, <2>2, <3>2
  <2> QED
    BY <2>1, <2>2
<1>4. ASSUME NEW k \in 1 .. (d + 1) - 1
      PROVE  Called(m, s, o, b2[k + 1], b2[k], g2[k])
  <2>1. CASE k = d
    BY <1>2, <2>1
  <2>2. CASE k \in 1 .. d - 1
    <3>1. k \in 1 .. d /\ k + 1 \in 1 .. d
      BY <2>2
    <3>2. b2[k] = b[k] /\ g2[k] = g[k] /\ b2[k + 1] = b[k + 1]
      BY <1>2, <3>1
    <3> QED
      BY <1>1, <2>2, <3>2
  <2> QED
    BY <2>1, <2>2
<1>5. b2[1] = b[1]
  BY <1>2
<1>6. Linked(m, s, o, d + 1, b2, g2)
  BY <1>1, <1>2, <1>3, <1>4, <1>5 DEF Linked
<1> QED
  BY <1>6 DEF b2, g2

-----------------------------------------------------------------------------
(* The inductive invariant of the machine, by where it is.                 *)

\* The parameters of a function that is done have slots.
ParamsPlaced == \A f \in done : \A i \in DOMAIN Params[f] : Placed(Params[f][i])

\* The chain from %rbp, where f is running.
Frames(f) == \E b \in [Nat -> Int], g \in [Nat -> Function] :
                /\ Linked(mem, stackSize, offset, Len(known), b, g)
                /\ b[Len(known)] = rbp /\ g[Len(known)] = f

Running(f) == /\ f \in Function /\ done = Function /\ rbp \in Int /\ Len(known) \in Nat \ {0}
              /\ Frames(f)

AtStart == /\ pc = [at |-> "start"] /\ Len(known) = 1
           /\ rsp = Top - 8 /\ rbp = 0 /\ Holds(mem, Top - 8, Exit)

AtBody == /\ pc = [at |-> "body", fn |-> pc.fn] /\ Running(pc.fn)
          /\ rsp = rbp - stackSize[pc.fn]

AtParams == /\ pc = [at |-> "params", fn |-> pc.fn, next |-> pc.next] /\ Running(pc.fn)
            /\ rsp = rbp - stackSize[pc.fn]
            /\ pc.next \in DOMAIN Params[pc.fn]

AtCall == /\ pc = [at |-> "call", fn |-> pc.fn, callee |-> pc.callee, actual |-> pc.actual,
                   dst |-> pc.dst, left |-> pc.left]
          /\ Running(pc.fn) /\ pc.callee \in Function
          /\ pc.dst \in Pseudo \cup {None} /\ MayWait(offset, pc.dst, pc.fn)
          /\ Len(pc.actual) = Len(Params[pc.callee])
          /\ pc.left \in 0 .. StackCount(Len(pc.actual))
          /\ rsp = rbp - stackSize[pc.fn] - Pushed(Len(pc.actual)) + 8 * pc.left

AtAfter == /\ pc = Resumed(pc.fn, pc.dst, pc.pushed) /\ Running(pc.fn)
           /\ pc.dst \in Pseudo \cup {None} /\ MayWait(offset, pc.dst, pc.fn)
           /\ pc.pushed \in Nat /\ rsp + pc.pushed = rbp - stackSize[pc.fn]

AtExit == pc = [at |-> "exit"]

\* The words of m are at a or above.
Above(m, a) == DOMAIN m \subseteq Int /\ \A x \in DOMAIN m : x >= a

MachineInv == /\ LayoutInv /\ ParamsPlaced
              /\ known \in Seq(SUBSET Pseudo) /\ rsp \in Int /\ Above(mem, rsp)
              /\ AtStart \/ AtBody \/ AtParams \/ AtCall \/ AtAfter \/ AtExit

LEMMA ParamsArePseudos ==
  \A f \in Function : /\ Len(Params[f]) \in Nat /\ DOMAIN Params[f] = 1 .. Len(Params[f])
                      /\ \A i \in DOMAIN Params[f] : /\ Params[f][i] \in Pseudo
                                                     /\ Owner[Params[f][i]] = f
<1> SUFFICES ASSUME NEW f \in Function
             PROVE  /\ Len(Params[f]) \in Nat /\ DOMAIN Params[f] = 1 .. Len(Params[f])
                    /\ \A i \in DOMAIN Params[f] : /\ Params[f][i] \in Pseudo
                                                   /\ Owner[Params[f][i]] = f
  OBVIOUS
<1>1. Params[f] \in Seq(Pseudo)
  BY SlotsAssumption
<1> QED
  BY <1>1, MachineAssumption

\* The frame of the running function.
LEMMA FrameOfRunning ==
  ASSUME LayoutInv, NEW f, Running(f)
  PROVE  /\ f \in Function /\ stackSize[f] \in Nat /\ stackSize[f] % 16 = 0
         /\ rbp \in Int /\ rbp % 16 = 0
         /\ \A p \in Pseudo : Owner[p] = f /\ Placed(p) =>
               /\ offset[p] \in Int /\ offset[p] >= -stackSize[f]
               /\ Size[p] \in {4, 8} /\ offset[p] + Size[p] <= 0
<1>1. f \in Function /\ done = Function /\ rbp \in Int /\ Len(known) \in Nat \ {0}
  BY DEF Running
<1>2. stackSize[f] \in Nat /\ stackSize[f] % 16 = 0
  BY <1>1 DEF LayoutInv, SlotsTypeOK, SlotsInFrame
<1>3. ASSUME NEW p \in Pseudo, Owner[p] = f, Placed(p)
      PROVE  /\ offset[p] \in Int /\ offset[p] >= -stackSize[f]
             /\ Size[p] \in {4, 8} /\ offset[p] + Size[p] <= 0
  <2>1. offset[p] \in Int /\ Size[p] \in {4, 8}
    BY SlotsAssumption DEF LayoutInv, SlotsTypeOK
  <2>2. offset[p] >= -stackSize[f] /\ offset[p] + Size[p] <= 0
    BY <1>1, <1>3 DEF LayoutInv, SlotsInFrame
  <2> QED
    BY <2>1, <2>2
<1>4. rbp % 16 = 0
  <2>1. PICK b \in [Nat -> Int], g \in [Nat -> Function] :
           Linked(mem, stackSize, offset, Len(known), b, g) /\ b[Len(known)] = rbp
    BY DEF Running, Frames
  <2>2. Len(known) \in 1 .. Len(known)
    BY <1>1
  <2>3. b[Len(known)] % 16 = 0
    BY <2>1, <2>2 DEF Linked
  <2> QED
    BY <2>1, <2>3
<1> QED
  BY <1>1, <1>2, <1>3, <1>4

LEMMA SameFrames ==
  ASSUME LayoutInv, NEW f, Running(f), KeepsFrom(mem, mem', rbp), rbp' = rbp,
         Len(known') = Len(known), UNCHANGED slots, known \in Seq(SUBSET Pseudo)
  PROVE  Running(f)'
<1>1. PICK b \in [Nat -> Int], g \in [Nat -> Function] :
         /\ Linked(mem, stackSize, offset, Len(known), b, g)
         /\ b[Len(known)] = rbp /\ g[Len(known)] = f
  BY DEF Running, Frames
<1>2. Len(known) \in Nat \ {0} /\ stackSize \in [Function -> Nat]
  BY DEF Running, LayoutInv, SlotsTypeOK
<1>3. Linked(mem', stackSize, offset, Len(known), b, g)
  BY <1>1, <1>2, KeepsLinked
<1> QED
  BY <1>1, <1>3 DEF Running, Frames, slots

\* A value for a variable of the running function lands in its frame.
LEMMA StoreInFrame ==
  ASSUME LayoutInv, NEW f, Running(f), Above(mem, rsp), NEW p \in Pseudo, Owner[p] = f, Placed(p),
         NEW a \in Int, a <= rbp - stackSize[f], NEW m, Above(m, a), KeepsFrom(mem, m, rbp),
         NEW v
  PROVE  /\ Above(Store(m, rbp + offset[p], Size[p], v), a)
         /\ KeepsFrom(mem, Store(m, rbp + offset[p], Size[p], v), rbp)
<1> DEFINE w == rbp + offset[p]
<1>1. w \in Int /\ rbp \in Int /\ Size[p] \in {4, 8} /\ w >= a /\ w + Size[p] <= rbp
  BY FrameOfRunning
<1> HIDE DEF w
<1>2. Above(Store(m, w, Size[p], v), a)
  BY <1>1, StoreDomain DEF Above
<1>3. KeepsFrom(m, Store(m, w, Size[p], v), rbp)
  BY <1>1, StoreKeeps DEF Above
<1>4. KeepsFrom(mem, Store(m, w, Size[p], v), rbp)
  BY <1>1, <1>3, KeepsTransitive DEF Above
<1> QED
  BY <1>2, <1>4 DEF w

-----------------------------------------------------------------------------
(* Every step keeps the invariant.                                         *)

LEMMA InitMachine == Init => MachineInv
<1> SUFFICES ASSUME Init PROVE MachineInv
  OBVIOUS
<1>1. LayoutInv /\ ParamsPlaced
  BY InitLayoutInv DEF Init, SlotsInit, ParamsPlaced
<1>2. known = << {} >> /\ Len(known) = 1 /\ known \in Seq(SUBSET Pseudo)
  BY DEF Init, MachineInit
<1>3. Top - 8 \in Int /\ rsp = Top - 8 /\ mem = Store([x \in {} |-> Junk], Top - 8, 8, Exit)
  BY MachineAssumption DEF Init, MachineInit
<1>4. Holds(mem, Top - 8, Exit)
  BY <1>3, StoreHolds
<1>5. Above(mem, rsp)
  BY <1>3 DEF Above, Store, Words, Word
<1>6. AtStart
  BY <1>2, <1>3, <1>4 DEF Init, MachineInit, AtStart
<1> QED
  BY <1>1, <1>2, <1>3, <1>5, <1>6 DEF MachineInv

LEMMA CompileKeeps ==
  ASSUME MachineInv, Compile
  PROVE  MachineInv'
<1>1. LayoutInv'
  BY NextLayoutInv DEF MachineInv, Compile
<1>2. AtStart
  BY DEF Compile, MachineInv, AtBody, AtParams, AtCall, AtAfter, AtExit, Resumed
<1>3. ParamsPlaced'
  <2>1. ASSUME NEW f \in Function, AssignStackSlots(f) PROVE ParamsPlaced'
    BY <2>1 DEF MachineInv, ParamsPlaced, AssignStackSlots, Placed
  <2>2. ASSUME NEW p \in Pseudo, ReplacePseudo(p) PROVE ParamsPlaced'
    <3>1. done' = done /\ \A q \in Pseudo : Placed(q) => offset'[q] = offset[q]
      BY <2>2 DEF MachineInv, LayoutInv, SlotsTypeOK, ReplacePseudo, Placed
    <3>2. \A f \in done : \A i \in DOMAIN Params[f] : Params[f][i] \in Pseudo
      BY ParamsArePseudos DEF MachineInv, LayoutInv, SlotsTypeOK
    <3> QED
      BY <3>1, <3>2 DEF MachineInv, ParamsPlaced, Placed
  <2>3. CASE EndFunction
    BY <2>3 DEF MachineInv, ParamsPlaced, EndFunction, AllParamsPlaced, Placed
  <2> QED
    BY <2>1, <2>2, <2>3 DEF Compile, SlotsNext
<1>4. AtStart' /\ known' \in Seq(SUBSET Pseudo) /\ rsp' \in Int /\ Above(mem', rsp')
  BY <1>2 DEF Compile, machine, AtStart, MachineInv
<1> QED
  BY <1>1, <1>3, <1>4 DEF MachineInv

\* What the machine is at says which part of the invariant holds.
LEMMA Shapes ==
  ASSUME MachineInv
  PROVE  /\ pc.at = "start" => AtStart
         /\ pc.at = "body" => AtBody
         /\ pc.at = "params" => AtParams
         /\ pc.at = "call" => AtCall
         /\ pc.at = "after" => AtAfter
         /\ LayoutInv /\ ParamsPlaced /\ known \in Seq(SUBSET Pseudo) /\ rsp \in Int /\ Above(mem, rsp)
BY DEF MachineInv, AtStart, AtBody, AtParams, AtCall, AtAfter, AtExit, Resumed

\* Outside of phase 2 the slots stay as they are.
LEMMA SlotsUnchanged ==
  ASSUME MachineInv, UNCHANGED slots
  PROVE  LayoutInv' /\ ParamsPlaced'
<1>1. LayoutInv'
  BY NextLayoutInv DEF MachineInv
<1> QED
  BY <1>1 DEF MachineInv, ParamsPlaced, Placed, slots

LEMMA PrologueDoes ==
  ASSUME LayoutInv, NEW m, NEW sp \in Int, NEW f \in Function, Above(m, sp), Prologue(m, sp, f)
  PROVE  /\ Above(mem', rsp') /\ KeepsFrom(m, mem', sp)
         /\ rbp' = sp - 8 /\ rbp' \in Int /\ rsp' = rbp' - stackSize[f] /\ rsp' \in Int
         /\ Holds(mem', rbp', Saved(rbp))
<1>1. stackSize[f] \in Nat
  BY DEF LayoutInv, SlotsTypeOK
<1>2. sp - 8 \in Int /\ (sp - 8) + 8 <= sp /\ 8 \in {4, 8}
  OBVIOUS
<1>3. mem' = Store(m, sp - 8, 8, Saved(rbp)) /\ rbp' = sp - 8 /\ rsp' = sp - 8 - stackSize[f]
  BY DEF Prologue
<1>4. KeepsFrom(m, mem', sp) /\ Holds(mem', sp - 8, Saved(rbp))
  BY <1>2, <1>3, StoreKeeps, StoreHolds DEF Above
<1>5. DOMAIN mem' \subseteq Int /\ \A x \in DOMAIN mem' : x \in DOMAIN m \/ x >= sp - 8
  BY <1>2, <1>3, StoreDomain DEF Above
<1>6. Above(mem', rsp')
  BY <1>1, <1>3, <1>5 DEF Above
<1> QED
  BY <1>1, <1>2, <1>3, <1>4, <1>6

LEMMA StartKeeps ==
  ASSUME MachineInv, Start
  PROVE  MachineInv'
<1>1. AtStart /\ LayoutInv /\ Above(mem, rsp) /\ Main \in Function /\ rsp \in Int
  BY Shapes, MachineAssumption DEF Start
<1>2. Prologue(mem, rsp, Main) /\ pc' = [at |-> "body", fn |-> Main] /\ done = Function
      /\ UNCHANGED slots /\ known' = known
  BY DEF Start
<1>3. /\ Above(mem', rsp') /\ KeepsFrom(mem, mem', rsp) /\ rbp' = rsp - 8 /\ rbp' \in Int
      /\ rsp' = rbp' - stackSize[Main] /\ rsp' \in Int /\ Holds(mem', rbp', Saved(0))
  BY <1>1, <1>2, PrologueDoes DEF AtStart
<1>4. Holds(mem', rbp' + 8, Exit)
  <2>1. rbp' + 8 = rsp /\ rsp = Top - 8
    BY <1>1, <1>3 DEF AtStart
  <2> QED
    BY <1>1, <1>3, <2>1, KeepsHolds DEF AtStart
<1>5. rbp' % 16 = 0
  BY <1>1, <1>3, MachineAssumption DEF AtStart
<1>6. Running(Main)'
  <2> DEFINE b == [n \in Nat |-> rbp']
             g == [n \in Nat |-> Main]
  <2>1. b \in [Nat -> Int] /\ g \in [Nat -> Function] /\ b[1] = rbp' /\ g[1] = Main
    BY <1>1, <1>3
  <2> HIDE DEF b, g
  <2>2. 1 .. 1 - 1 = {} /\ 1 .. 1 = {1}
    OBVIOUS
  <2>3. Linked(mem', stackSize', offset', 1, b, g)
    BY <1>3, <1>4, <1>5, <2>1, <2>2 DEF Linked
  <2>4. Len(known') = 1
    BY <1>1, <1>2 DEF AtStart
  <2>5. Frames(Main)'
    BY <2>1, <2>3, <2>4 DEF Frames
  <2> QED
    BY <1>1, <1>2, <1>3, <2>4, <2>5 DEF Running, slots
<1>7. AtBody'
  BY <1>2, <1>3, <1>6 DEF AtBody, slots
<1> QED
  BY <1>2, <1>3, <1>7, SlotsUnchanged DEF MachineInv

\* An instruction stores a value for p and stays in the body.
LEMMA AssignKeeps ==
  ASSUME MachineInv, NEW p \in Pseudo, NEW x, Assign(p, x)
  PROVE  MachineInv'
<1>1. /\ AtBody /\ LayoutInv /\ known \in Seq(SUBSET Pseudo) /\ rsp \in Int /\ Above(mem, rsp)
      /\ Running(pc.fn) /\ rsp = rbp - stackSize[pc.fn]
  BY Shapes DEF Assign, InBody, AtBody
<1>2. /\ Owner[p] = pc.fn /\ Placed(p) /\ UNCHANGED slots /\ pc' = pc /\ rsp' = rsp /\ rbp' = rbp
      /\ mem' = Store(mem, rbp + offset[p], Size[p], Read(x, Size[p]))
      /\ known' = [known EXCEPT ![Len(known)] = @ \cup {p}]
  BY DEF Assign
<1>3. known' \in Seq(SUBSET Pseudo) /\ Len(known') = Len(known)
  BY <1>1, <1>2 DEF Running
<1>4. rbp \in Int /\ rsp <= rbp - stackSize[pc.fn] /\ KeepsFrom(mem, mem, rbp)
  BY <1>1, FrameOfRunning DEF KeepsFrom
<1>5. Above(mem', rsp) /\ KeepsFrom(mem, mem', rbp)
  BY <1>1, <1>2, <1>4, StoreInFrame
<1>6. Running(pc.fn)'
  BY <1>1, <1>2, <1>3, <1>5, SameFrames
<1>7. AtBody'
  BY <1>1, <1>2, <1>6 DEF AtBody, slots
<1> QED
  BY <1>1, <1>2, <1>3, <1>5, <1>7, SlotsUnchanged DEF MachineInv

\* What a call takes from the stack is a multiple of 16.
LEMMA PushedIsAligned ==
  ASSUME NEW n \in Nat
  PROVE  /\ StackCount(n) \in Nat /\ Padding(n) \in Nat /\ Pushed(n) \in Nat
         /\ Pushed(n) = 8 * StackCount(n) + Padding(n) /\ Pushed(n) % 16 = 0
<1>1. StackCount(n) \in Nat
  BY MachineAssumption DEF StackCount
<1> DEFINE k == StackCount(n)
<1> HIDE DEF k
<1>2. k \in Nat
  BY <1>1 DEF k
<1>3. Padding(n) = IF k % 2 # 0 THEN 8 ELSE 0
  BY DEF Padding, k
<1>4. Padding(n) \in Nat /\ (8 * k + Padding(n)) % 16 = 0 /\ 8 * k + Padding(n) \in Nat
  BY <1>2, <1>3
<1>5. Pushed(n) = 8 * k + Padding(n)
  BY DEF Pushed, k
<1> QED
  BY <1>2, <1>4, <1>5 DEF k

\* The actions, one by one.
LEMMA BeginCallKeeps ==
  ASSUME MachineInv, NEW g \in Function, NEW actual \in [DOMAIN Params[g] -> Operand(4) \cup Operand(8)],
         NEW dst \in Pseudo \cup {None}, BeginCall(g, actual, dst)
  PROVE  MachineInv'
<1>1. /\ AtBody /\ LayoutInv /\ known \in Seq(SUBSET Pseudo) /\ rsp \in Int /\ Above(mem, rsp)
      /\ Running(pc.fn) /\ rsp = rbp - stackSize[pc.fn]
  BY Shapes DEF BeginCall, InBody, AtBody
<1>2. /\ UNCHANGED slots /\ mem' = mem /\ rbp' = rbp /\ known' = known
      /\ rsp' = rsp - Padding(Len(actual))
      /\ pc' = [at |-> "call", fn |-> pc.fn, callee |-> g, actual |-> actual, dst |-> dst,
                left |-> StackCount(Len(actual))]
  BY DEF BeginCall
<1>3. MayWait(offset, dst, pc.fn)
  BY DEF BeginCall, MayWait, Placed
<1>4. Len(actual) = Len(Params[g]) /\ Len(actual) \in Nat
  <2>1. DOMAIN Params[g] = 1 .. Len(Params[g]) /\ Len(Params[g]) \in Nat
    BY ParamsArePseudos
  <2> QED
    BY <2>1
<1> DEFINE n == Len(actual)
<1>5. /\ StackCount(n) \in Nat /\ Padding(n) \in Nat /\ Pushed(n) = 8 * StackCount(n) + Padding(n)
  BY <1>4, PushedIsAligned
<1>6. rbp \in Int /\ stackSize[pc.fn] \in Nat
  BY <1>1, FrameOfRunning
<1> HIDE DEF n
<1>7. rsp' \in Int /\ rsp' <= rsp /\ rsp' = rbp - stackSize[pc.fn] - Pushed(n) + 8 * StackCount(n)
  <2>1. rsp' = rsp - Padding(n)
    BY <1>2 DEF n
  <2>2. rsp \in Int /\ rsp = rbp - stackSize[pc.fn]
    BY <1>1
  <2> QED
    BY <1>5, <1>6, <2>1, <2>2
<1>8. Above(mem', rsp')
  BY <1>1, <1>2, <1>7 DEF Above
<1>9. KeepsFrom(mem, mem', rbp)
  BY <1>2 DEF KeepsFrom
<1>10. Running(pc.fn)'
  BY <1>1, <1>2, <1>9, SameFrames
<1>11. pc'.fn = pc.fn /\ pc'.callee = g /\ pc'.actual = actual /\ pc'.dst = dst
       /\ pc'.left = StackCount(n)
  BY <1>2 DEF n
<1>12. StackCount(n) \in 0 .. StackCount(n)
  BY <1>5
<1>13. AtCall'
  BY <1>2, <1>3, <1>4, <1>7, <1>11, <1>12, <1>10 DEF AtCall, slots, n, Running
<1> QED
  BY <1>1, <1>2, <1>7, <1>8, <1>13, SlotsUnchanged DEF MachineInv

\* A push writes below %rsp, which is at or below the frame's end.
LEMMA PushArgDoes ==
  ASSUME MachineInv, PushArg
  PROVE  /\ rsp' = rsp - 8 /\ rsp' \in Int /\ rsp <= rbp - stackSize[pc.fn] /\ rsp <= rbp
         /\ Above(mem', rsp') /\ KeepsFrom(mem, mem', rsp)
<1>1. /\ AtCall /\ LayoutInv /\ known \in Seq(SUBSET Pseudo) /\ rsp \in Int /\ Above(mem, rsp)
      /\ Running(pc.fn)
  BY Shapes DEF PushArg, AtCall
<1> DEFINE n == Len(pc.actual)
<1>2. /\ UNCHANGED slots /\ rsp' = rsp - 8 /\ rbp' = rbp /\ known' = known
      /\ pc.left > 0 /\ pc' = [pc EXCEPT !.left = @ - 1]
  BY DEF PushArg
<1>3. n \in Nat
  BY <1>1, ParamsArePseudos DEF AtCall
<1>4. /\ StackCount(n) \in Nat /\ Padding(n) \in Nat /\ Pushed(n) \in Nat
      /\ Pushed(n) = 8 * StackCount(n) + Padding(n)
  BY <1>3, PushedIsAligned
<1>5. rbp \in Int /\ stackSize[pc.fn] \in Nat
  BY <1>1, FrameOfRunning
<1>6. /\ pc.left \in 0 .. StackCount(n)
      /\ rsp = rbp - stackSize[pc.fn] - Pushed(n) + 8 * pc.left
  BY <1>1 DEF AtCall
<1> HIDE DEF n
<1>7. rsp' \in Int /\ rsp <= rbp /\ rsp <= rbp - stackSize[pc.fn]
  <2>1. rsp \in Int /\ rsp' = rsp - 8
    BY <1>1, <1>2
  <2>2. pc.left \in Nat /\ pc.left <= StackCount(n)
    BY <1>4, <1>6
  <2> QED
    BY <1>4, <1>5, <1>6, <2>1, <2>2
<1>8. Above(mem', rsp') /\ KeepsFrom(mem, mem', rsp)
  <2> DEFINE x == pc.actual[NextPushed]
             a == rbp + offset[x]
  <2>1. CASE x \in Pseudo
    <3> DEFINE W == {v \in Words(rsp - 8, 8) : a + v - (rsp - 8) \in DOMAIN mem}
    <3>1. mem' = [w \in DOMAIN mem \cup W |->
                     IF w < rsp THEN mem[a + w - (rsp - 8)] ELSE mem[w]]
      BY <2>1 DEF PushArg
    <3>2. \A v \in W : v \in Int /\ v >= rsp - 8
      BY <1>1 DEF Words, Word
    <3> HIDE DEF W, a, x
    <3> QED
      BY <1>1, <1>2, <3>1, <3>2 DEF Above, KeepsFrom
  <2>2. CASE x \notin Pseudo
    <3>1. mem' = Store(mem, rsp - 8, 8, x)
      BY <2>2 DEF PushArg
    <3> HIDE DEF x
    <3>2. rsp - 8 \in Int /\ (rsp - 8) + 8 <= rsp /\ 8 \in {4, 8}
      BY <1>1
    <3>3. KeepsFrom(mem, mem', rsp)
      BY <1>1, <3>1, <3>2, StoreKeeps DEF Above
    <3>4. DOMAIN mem' \subseteq Int /\ \A y \in DOMAIN mem' : y \in DOMAIN mem \/ y >= rsp - 8
      BY <1>1, <3>1, <3>2, StoreDomain DEF Above
    <3> QED
      BY <1>1, <1>2, <3>3, <3>4 DEF Above
  <2> QED
    BY <2>1, <2>2
<1> QED
  BY <1>2, <1>7, <1>8

LEMMA PushArgKeeps ==
  ASSUME MachineInv, PushArg
  PROVE  MachineInv'
<1>1. /\ AtCall /\ LayoutInv /\ known \in Seq(SUBSET Pseudo) /\ rsp \in Int /\ Above(mem, rsp)
      /\ Running(pc.fn)
  BY Shapes DEF PushArg, AtCall
<1> DEFINE n == Len(pc.actual)
<1>2. /\ UNCHANGED slots /\ rsp' = rsp - 8 /\ rbp' = rbp /\ known' = known
      /\ pc.left > 0 /\ pc' = [pc EXCEPT !.left = @ - 1]
  BY DEF PushArg
<1>3. n \in Nat
  BY <1>1, ParamsArePseudos DEF AtCall
<1>4. /\ StackCount(n) \in Nat /\ Padding(n) \in Nat /\ Pushed(n) \in Nat
      /\ Pushed(n) = 8 * StackCount(n) + Padding(n)
  BY <1>3, PushedIsAligned
<1>5. rbp \in Int /\ stackSize[pc.fn] \in Nat
  BY <1>1, FrameOfRunning
<1>6. /\ pc.left \in 0 .. StackCount(n)
      /\ rsp = rbp - stackSize[pc.fn] - Pushed(n) + 8 * pc.left
  BY <1>1 DEF AtCall
<1> HIDE DEF n
<1>7. rsp' \in Int /\ rsp <= rbp
  BY PushArgDoes
<1>8. Above(mem', rsp') /\ KeepsFrom(mem, mem', rsp)
  BY PushArgDoes
<1>9. KeepsFrom(mem, mem', rbp)
  BY <1>1, <1>5, <1>7, <1>8 DEF KeepsFrom, Above
<1>10. pc' = [at |-> "call", fn |-> pc.fn, callee |-> pc.callee, actual |-> pc.actual,
              dst |-> pc.dst, left |-> pc.left - 1]
  BY <1>1, <1>2 DEF AtCall
<1>11. Running(pc.fn)'
  BY <1>1, <1>2, <1>9, <1>10, SameFrames
<1>12. /\ pc.left - 1 \in 0 .. StackCount(n)
       /\ rsp' = rbp - stackSize[pc.fn] - Pushed(n) + 8 * (pc.left - 1)
  BY <1>2, <1>4, <1>5, <1>6
<1>13. AtCall'
  BY <1>1, <1>2, <1>10, <1>11, <1>12 DEF AtCall, slots, n
<1> QED
  BY <1>1, <1>2, <1>7, <1>8, <1>13, SlotsUnchanged DEF MachineInv

\* A call leaves on the stack, below %rsp, where to return to and %rbp.
LEMMA EnterCalleeDoes ==
  ASSUME MachineInv, EnterCallee
  PROVE  /\ Above(mem', rsp') /\ KeepsFrom(mem, mem', rsp) /\ KeepsFrom(mem, mem', rbp)
         /\ rbp' = rsp - 16 /\ rbp' \in Int /\ rbp' % 16 = 0 /\ rbp' <= rbp
         /\ rsp' = rbp' - stackSize[pc.callee] /\ rsp' \in Int
         /\ rsp = rbp - stackSize[pc.fn] - Pushed(Len(pc.actual))
         /\ Pushed(Len(pc.actual)) \in Nat
         /\ Holds(mem', rbp' + 8, Code(Resumed(pc.fn, pc.dst, Pushed(Len(pc.actual)))))
         /\ Called(mem', stackSize, offset, rbp', rbp, pc.fn)
<1>1. /\ AtCall /\ LayoutInv /\ known \in Seq(SUBSET Pseudo) /\ rsp \in Int /\ Above(mem, rsp)
      /\ Running(pc.fn) /\ pc.callee \in Function /\ pc.left = 0
  BY Shapes DEF EnterCallee, AtCall
<1>0. PICK g \in Function : g = pc.callee
  BY <1>1
<1> DEFINE n == Len(pc.actual)
           m == Store(mem, rsp - 8, 8, Code(After))
<1>2. /\ UNCHANGED slots /\ Prologue(m, rsp - 8, g) /\ known' = Append(known, {})
      /\ pc' = IF n = 0 THEN [at |-> "body", fn |-> g] ELSE [at |-> "params", fn |-> g, next |-> 1]
  BY <1>0 DEF EnterCallee
<1>3. n \in Nat /\ n = Len(Params[g]) /\ DOMAIN Params[g] = 1 .. n
  BY <1>0, <1>1, ParamsArePseudos DEF AtCall
<1>4. Pushed(n) \in Nat /\ Pushed(n) % 16 = 0
  BY <1>3, PushedIsAligned
<1>5. rbp \in Int /\ rbp % 16 = 0 /\ stackSize[pc.fn] \in Nat /\ stackSize[pc.fn] % 16 = 0
  BY <1>1, FrameOfRunning
<1>6. rsp = rbp - stackSize[pc.fn] - Pushed(n) /\ After = Resumed(pc.fn, pc.dst, Pushed(n))
  <2>1. rsp = rbp - stackSize[pc.fn] - Pushed(n) + 8 * 0
    BY <1>1 DEF AtCall
  <2> QED
    BY <1>4, <1>5, <2>1 DEF After, Resumed
<1> HIDE DEF n
<1>7. /\ rsp - 8 \in Int /\ (rsp - 8) + 8 <= rsp /\ 8 \in {4, 8} /\ (rsp - 8) - 8 = rsp - 16
      /\ (rsp - 16) + 8 = rsp - 8 /\ rsp - 16 \in Int
  BY <1>1
<1>8. KeepsFrom(mem, m, rsp) /\ Holds(m, rsp - 8, Code(After))
  BY <1>1, <1>7, StoreKeeps, StoreHolds DEF Above
<1>9. Above(m, rsp - 8)
  BY <1>1, <1>7, StoreDomain DEF Above
<1> HIDE DEF m
<1>10. /\ Above(mem', rsp') /\ KeepsFrom(m, mem', rsp - 8)
       /\ rbp' = rsp - 16 /\ rsp' = rbp' - stackSize[g] /\ rsp' \in Int
       /\ Holds(mem', rbp', Saved(rbp))
  BY <1>1, <1>2, <1>7, <1>9, PrologueDoes
<1>11. Holds(mem', rbp' + 8, Code(Resumed(pc.fn, pc.dst, Pushed(n))))
  BY <1>6, <1>7, <1>8, <1>10, KeepsHolds
<1>12. KeepsFrom(mem, mem', rbp)
  <2>1. rsp <= rbp /\ rsp - 8 <= rbp
    <3>1. rsp \in Int
      BY <1>1
    <3> QED
      BY <1>4, <1>5, <1>6, <3>1
  <2> QED
    BY <1>1, <1>5, <1>8, <1>10, <2>1 DEF KeepsFrom, Above
<1>13. Called(mem', stackSize, offset, rbp', rbp, pc.fn)
  <2>1. rbp' + 16 + Pushed(n) = rbp - stackSize[pc.fn]
    BY <1>4, <1>5, <1>6, <1>10
  <2>2. pc.dst \in Pseudo \cup {None} /\ MayWait(offset, pc.dst, pc.fn)
    BY <1>1 DEF AtCall
  <2> QED
    BY <1>4, <1>10, <1>11, <2>1, <2>2 DEF Called
<1>14. rbp' \in Int /\ rbp' % 16 = 0 /\ rbp' <= rbp
  BY <1>4, <1>5, <1>6, <1>10, <1>7
<1>15. KeepsFrom(mem, mem', rsp)
  <2>1. rsp \in Int /\ rsp - 8 \in Int /\ rsp >= rsp - 8
    BY <1>1
  <2>2. KeepsFrom(m, mem', rsp)
    BY <1>9, <1>10, <2>1, KeepsFromHigher DEF Above
  <2> QED
    BY <1>1, <1>8, <2>1, <2>2, KeepsTransitive DEF Above
<1> QED
  BY <1>0, <1>4, <1>6, <1>10, <1>11, <1>12, <1>13, <1>14, <1>15 DEF n

LEMMA EnterCalleeKeeps ==
  ASSUME MachineInv, EnterCallee
  PROVE  MachineInv'
<1>1. /\ AtCall /\ LayoutInv /\ known \in Seq(SUBSET Pseudo) /\ rsp \in Int /\ Above(mem, rsp)
      /\ Running(pc.fn) /\ pc.callee \in Function /\ pc.left = 0
  BY Shapes DEF EnterCallee, AtCall
<1>0. PICK g \in Function : g = pc.callee
  BY <1>1
<1> DEFINE n == Len(pc.actual)
<1>2. /\ UNCHANGED slots /\ known' = Append(known, {})
      /\ pc' = IF n = 0 THEN [at |-> "body", fn |-> g] ELSE [at |-> "params", fn |-> g, next |-> 1]
  BY <1>0 DEF EnterCallee
<1>3. n \in Nat /\ n = Len(Params[g]) /\ DOMAIN Params[g] = 1 .. n
  BY <1>0, <1>1, ParamsArePseudos DEF AtCall
<1> HIDE DEF n
<1>10. /\ Above(mem', rsp') /\ rsp' = rbp' - stackSize[g] /\ rsp' \in Int
  BY <1>0, EnterCalleeDoes
<1>12. KeepsFrom(mem, mem', rbp)
  BY EnterCalleeDoes
<1>13. Called(mem', stackSize, offset, rbp', rbp, pc.fn)
  BY EnterCalleeDoes
<1>14. rbp' \in Int /\ rbp' % 16 = 0 /\ rbp' <= rbp
  BY EnterCalleeDoes
<1>15. Len(known) \in Nat \ {0} /\ Len(known') = Len(known) + 1 /\ known' \in Seq(SUBSET Pseudo)
  BY <1>1, <1>2 DEF Running
<1>16. Frames(g)'
  <2>1. PICK b \in [Nat -> Int], h \in [Nat -> Function] :
           /\ Linked(mem, stackSize, offset, Len(known), b, h)
           /\ b[Len(known)] = rbp /\ h[Len(known)] = pc.fn
    BY <1>1 DEF Running, Frames
  <2>2. stackSize \in [Function -> Nat]
    BY <1>1 DEF LayoutInv, SlotsTypeOK
  <2>3. Linked(mem', stackSize, offset, Len(known), b, h)
    BY <1>12, <1>15, <2>1, <2>2, KeepsLinked
  <2> DEFINE b2 == Extended(b, Len(known), rbp')
             h2 == Extended(h, Len(known), g)
  <2>4. Linked(mem', stackSize, offset, Len(known) + 1, b2, h2)
    BY <1>13, <1>14, <1>15, <2>1, <2>2, <2>3, PushLinked
  <2>5. /\ b2 \in [Nat -> Int] /\ h2 \in [Nat -> Function]
        /\ b2[Len(known) + 1] = rbp' /\ h2[Len(known) + 1] = g
    BY <1>14, <1>15, <2>1 DEF Extended
  <2> HIDE DEF b2, h2
  <2> QED
    BY <1>2, <1>15, <2>4, <2>5 DEF Frames, slots
<1>17. Running(g)'
  BY <1>1, <1>2, <1>14, <1>15, <1>16 DEF Running, slots
<1>18. AtBody' \/ AtParams'
  <2>1. CASE n = 0
    BY <1>2, <1>10, <1>17, <2>1 DEF AtBody, slots
  <2>2. CASE n # 0
    <3>1. pc' = [at |-> "params", fn |-> g, next |-> 1]
      BY <1>2, <2>2
    <3>2. 1 \in DOMAIN Params[g]
      BY <1>3, <2>2
    <3> QED
      BY <1>2, <1>10, <1>17, <3>1, <3>2 DEF AtParams, slots
  <2> QED
    BY <2>1, <2>2
<1> QED
  BY <1>2, <1>10, <1>15, <1>18, SlotsUnchanged DEF MachineInv

LEMMA MoveParamKeeps ==
  ASSUME MachineInv, MoveParam
  PROVE  MachineInv'
<1>1. /\ AtParams /\ LayoutInv /\ ParamsPlaced /\ known \in Seq(SUBSET Pseudo) /\ rsp \in Int
      /\ Above(mem, rsp) /\ Running(pc.fn) /\ pc.fn \in Function /\ done = Function
      /\ rsp = rbp - stackSize[pc.fn] /\ pc.next \in DOMAIN Params[pc.fn]
  BY Shapes DEF MoveParam, AtParams, Running
<1>2. PICK p \in Pseudo : p = Params[pc.fn][pc.next] /\ Owner[p] = pc.fn /\ Placed(p)
  BY <1>1, ParamsArePseudos DEF ParamsPlaced
<1>3. /\ UNCHANGED slots /\ rsp' = rsp /\ rbp' = rbp
      /\ mem' = Store(mem, rbp + offset[p], Size[p], Incoming(pc.next))
      /\ known' = [known EXCEPT ![Len(known)] = @ \cup {p}]
      /\ pc' = IF pc.next = Len(Params[pc.fn]) THEN [at |-> "body", fn |-> pc.fn]
               ELSE [pc EXCEPT !.next = pc.next + 1]
  BY <1>2 DEF MoveParam
<1>4. known' \in Seq(SUBSET Pseudo) /\ Len(known') = Len(known)
  BY <1>1, <1>3 DEF Running
<1>5. rbp \in Int /\ rsp <= rbp - stackSize[pc.fn] /\ KeepsFrom(mem, mem, rbp)
  BY <1>1, FrameOfRunning DEF KeepsFrom
<1>6. Above(mem', rsp) /\ KeepsFrom(mem, mem', rbp)
  BY <1>1, <1>2, <1>3, <1>5, StoreInFrame
<1>7. AtBody' \/ AtParams'
  <2>1. CASE pc.next = Len(Params[pc.fn])
    <3>1. pc' = [at |-> "body", fn |-> pc.fn]
      BY <1>3, <2>1
    <3>2. Running(pc.fn)'
      BY <1>1, <1>3, <1>4, <1>6, <3>1, SameFrames
    <3> QED
      BY <1>1, <1>3, <3>1, <3>2 DEF AtBody, slots
  <2>2. CASE pc.next # Len(Params[pc.fn])
    <3>1. pc' = [at |-> "params", fn |-> pc.fn, next |-> pc.next + 1]
      BY <1>1, <1>3, <2>2 DEF AtParams
    <3>2. Running(pc.fn)'
      BY <1>1, <1>3, <1>4, <1>6, <3>1, SameFrames
    <3>3. pc.next + 1 \in DOMAIN Params[pc.fn]
      BY <1>1, <2>2, ParamsArePseudos
    <3> QED
      BY <1>1, <1>3, <3>1, <3>2, <3>3 DEF AtParams, slots
  <2> QED
    BY <2>1, <2>2
<1> QED
  BY <1>1, <1>3, <1>4, <1>6, <1>7, SlotsUnchanged DEF MachineInv

\* What lies below a is lost, the rest stays.
LEMMA KeptFromKeeps ==
  ASSUME NEW m, NEW a \in Int, DOMAIN m \subseteq Int
  PROVE  Above(KeptFrom(m, a), a) /\ KeepsFrom(m, KeptFrom(m, a), a)
BY DEF Above, KeepsFrom, KeptFrom

LEMMA ReturnKeeps ==
  ASSUME MachineInv, NEW x, Return(x)
  PROVE  MachineInv'
<1>1. /\ AtBody /\ LayoutInv /\ known \in Seq(SUBSET Pseudo) /\ rsp \in Int
      /\ Above(mem, rsp) /\ Running(pc.fn)
  BY Shapes DEF Return, InBody, AtBody
<1>2. /\ UNCHANGED slots /\ rsp' = rbp + 16 /\ mem' = KeptFrom(mem, rbp + 16)
      /\ rbp' = Load(mem, rbp, 8)[2] /\ pc' = Load(mem, rbp + 8, 8)[2]
      /\ known' = SubSeq(known, 1, Len(known) - 1)
  BY DEF Return
<1>3. PICK b \in [Nat -> Int], g \in [Nat -> Function] :
         /\ Linked(mem, stackSize, offset, Len(known), b, g)
         /\ b[Len(known)] = rbp /\ g[Len(known)] = pc.fn
  BY <1>1 DEF Running, Frames
<1>4. /\ rbp \in Int /\ rbp + 8 \in Int /\ rbp + 16 \in Int /\ Len(known) \in Nat \ {0}
      /\ stackSize \in [Function -> Nat]
  BY <1>1 DEF Running, LayoutInv, SlotsTypeOK
<1>5. Above(mem', rsp') /\ KeepsFrom(mem, mem', rbp + 16) /\ rsp' \in Int
  BY <1>1, <1>2, <1>4, KeptFromKeeps DEF Above
<1>6. PICK d \in Nat : Len(known) = d + 1
  <2>1. Len(known) - 1 \in Nat /\ Len(known) = (Len(known) - 1) + 1
    BY <1>4
  <2> QED
    BY <2>1
<1>7. known' \in Seq(SUBSET Pseudo) /\ Len(known') = d
  <2>1. known' = SubSeq(known, 1, d)
    BY <1>2, <1>6
  <2> QED
    BY <1>1, <1>6, <2>1
<1>8. CASE d = 0
  <2>1. Holds(mem, rbp + 8, Exit)
    BY <1>3, <1>6, <1>8 DEF Linked
  <2>2. Load(mem, rbp + 8, 8) = Exit
    BY <1>4, <2>1, LoadHeld
  <2>3. AtExit'
    BY <1>2, <2>2 DEF AtExit, Exit, Code
  <2> QED
    BY <1>1, <1>2, <1>5, <1>7, <2>3, SlotsUnchanged DEF MachineInv
<1>9. CASE d # 0
  <2>1. d \in Nat \ {0} /\ d + 1 = Len(known) /\ d \in 1 .. Len(known) - 1
    BY <1>6, <1>9
  <2>2. Called(mem, stackSize, offset, b[d + 1], b[d], g[d])
    BY <1>3, <2>1 DEF Linked
  <2>3. PICK dst \in Pseudo \cup {None}, n \in Nat :
          /\ Holds(mem, rbp, Saved(b[d])) /\ Holds(mem, rbp + 8, Code(Resumed(g[d], dst, n)))
          /\ MayWait(offset, dst, g[d]) /\ rbp + 16 + n = b[d] - stackSize[g[d]]
    BY <1>3, <2>1, <2>2 DEF Called
  <2>4. rbp' = b[d] /\ pc' = Resumed(g[d], dst, n)
    <3>1. Load(mem, rbp, 8) = Saved(b[d]) /\ Load(mem, rbp + 8, 8) = Code(Resumed(g[d], dst, n))
      BY <1>4, <2>3, LoadHeld
    <3> QED
      BY <1>2, <3>1 DEF Saved, Code
  <2>5. Linked(mem, stackSize, offset, d, b, g)
    <3>1. Len(known) \in Nat /\ Len(known) > 1 /\ Len(known) - 1 = d
      BY <1>6, <2>1
    <3>2. /\ stackSize \in [Function -> Nat]
          /\ Linked(mem, stackSize, offset, Len(known), b, g)
      BY <1>3, <1>4
    <3>3. Linked(mem, stackSize, offset, Len(known) - 1, b, g)
      BY <3>1, <3>2, PopLinked
    <3> QED
      BY <3>1, <3>3
  <2>6. b[d] \in Int /\ g[d] \in Function /\ stackSize[g[d]] \in Nat /\ rbp + 16 <= b[d]
    <3>1. b[d] \in Int /\ g[d] \in Function /\ stackSize[g[d]] \in Nat
      BY <1>3, <1>4, <2>1
    <3> DEFINE e == b[d]
               w == stackSize[g[d]]
    <3>2. e \in Int /\ w \in Nat /\ rbp + 16 + n = e - w
      BY <2>3, <3>1
    <3> HIDE DEF e, w
    <3>3. rbp + 16 <= e
      BY <1>4, <3>2
    <3> QED
      BY <3>1, <3>3 DEF e
  <2>7. KeepsFrom(mem, mem', b[d])
    BY <1>1, <1>4, <1>5, <2>6, KeepsFromHigher DEF Above
  <2>8. Linked(mem', stackSize, offset, d, b, g)
    BY <1>4, <2>1, <2>5, <2>7, KeepsLinked
  <2>9. PICK f \in Function : f = g[d]
    BY <2>6
  <2>10. Running(f)'
    BY <1>1, <1>2, <1>3, <2>1, <2>4, <2>6, <2>8, <2>9, <1>7 DEF Running, Frames, slots
  <2>11. AtAfter'
    <3>1. pc' = Resumed(f, dst, n) /\ rsp' + n = rbp' - stackSize[f] /\ MayWait(offset, dst, f)
      BY <1>2, <2>3, <2>4, <2>9
    <3>2. pc'.fn = f /\ pc'.dst = dst /\ pc'.pushed = n
      BY <3>1 DEF Resumed
    <3> QED
      BY <1>2, <2>10, <3>1, <3>2 DEF AtAfter, slots
  <2> QED
    BY <1>1, <1>2, <1>5, <1>7, <2>11, SlotsUnchanged DEF MachineInv
<1> QED
  BY <1>8, <1>9

LEMMA AfterCallKeeps ==
  ASSUME MachineInv, AfterCall
  PROVE  MachineInv'
<1>1. /\ AtAfter /\ LayoutInv /\ known \in Seq(SUBSET Pseudo) /\ rsp \in Int
      /\ Above(mem, rsp) /\ Running(pc.fn) /\ pc.pushed \in Nat
      /\ rsp + pc.pushed = rbp - stackSize[pc.fn]
  BY Shapes DEF AfterCall, AtAfter
<1> DEFINE m == KeptFrom(mem, rsp')
<1>2. /\ UNCHANGED slots /\ rsp' = rsp + pc.pushed /\ rbp' = rbp
      /\ pc' = [at |-> "body", fn |-> pc.fn]
      /\ IF pc.dst = None THEN mem' = m /\ UNCHANGED known
         ELSE /\ mem' = Store(m, rbp + offset[pc.dst], Size[pc.dst], rax)
              /\ known' = [known EXCEPT ![Len(known)] = @ \cup {pc.dst}]
  BY DEF AfterCall
<1>3. rbp \in Int /\ stackSize[pc.fn] \in Nat
  BY <1>1, FrameOfRunning
<1>4. rsp' \in Int /\ rsp' = rbp - stackSize[pc.fn] /\ rsp' <= rbp
  BY <1>1, <1>2, <1>3
<1>5. Above(m, rsp') /\ KeepsFrom(mem, m, rsp')
  BY <1>1, <1>4, KeptFromKeeps DEF Above
<1>6. KeepsFrom(mem, m, rbp)
  BY <1>1, <1>3, <1>4, <1>5, KeepsFromHigher DEF Above
<1> HIDE DEF m
<1>7. /\ Above(mem', rsp') /\ KeepsFrom(mem, mem', rbp)
      /\ known' \in Seq(SUBSET Pseudo) /\ Len(known') = Len(known)
  <2>1. CASE pc.dst = None
    BY <1>1, <1>2, <1>5, <1>6, <2>1
  <2>2. CASE pc.dst # None
    <3>1. PICK p \in Pseudo : p = pc.dst /\ Owner[p] = pc.fn /\ Placed(p)
      BY <1>1, <2>2 DEF AtAfter, MayWait, Placed
    <3>2. mem' = Store(m, rbp + offset[p], Size[p], rax)
      BY <1>2, <2>2, <3>1
    <3>3. Above(mem', rsp') /\ KeepsFrom(mem, mem', rbp)
      <4>1. rsp' <= rbp - stackSize[pc.fn] /\ rsp' \in Int
        BY <1>3, <1>4
      <4>2. PICK f \in Function : f = pc.fn
        BY <1>1 DEF Running
      <4>3. Running(f) /\ Owner[p] = f /\ rsp' <= rbp - stackSize[f]
        BY <1>1, <3>1, <4>1, <4>2
      <4> QED
        BY <1>1, <1>5, <1>6, <3>1, <3>2, <4>1, <4>3, StoreInFrame
    <3>4. known' = [known EXCEPT ![Len(known)] = @ \cup {p}]
      BY <1>2, <2>2, <3>1
    <3>5. known' \in Seq(SUBSET Pseudo) /\ Len(known') = Len(known)
      BY <1>1, <3>4 DEF Running
    <3> QED
      BY <3>3, <3>5
  <2> QED
    BY <2>1, <2>2
<1>8. Running(pc.fn)'
  BY <1>1, <1>2, <1>7, SameFrames
<1>9. AtBody'
  BY <1>1, <1>2, <1>4, <1>8 DEF AtBody, slots
<1> QED
  BY <1>2, <1>4, <1>7, <1>9, SlotsUnchanged DEF MachineInv

LEMMA NextMachine == MachineInv /\ [Next]_vars => MachineInv'
<1> SUFFICES ASSUME MachineInv, [Next]_vars PROVE MachineInv'
  OBVIOUS
<1>1. CASE UNCHANGED vars
  <2>1. LayoutInv' /\ ParamsPlaced'
    BY <1>1, SlotsUnchanged DEF vars
  <2>2. \A f : Running(f) => Running(f)'
    BY <1>1 DEF vars, slots, machine, Running, Frames
  <2> QED
    BY <1>1, <2>1, <2>2 DEF MachineInv, vars, slots, machine, AtStart, AtBody, AtParams, AtCall,
       AtAfter, AtExit
<1>2. CASE Compile
  BY <1>2, CompileKeeps
<1>3. CASE Start
  BY <1>3, StartKeeps
<1>4. CASE Lowered
  BY <1>4, AssignKeeps, BeginCallKeeps, ReturnKeeps DEF Lowered
<1>5. CASE PushArg
  BY <1>5, PushArgKeeps
<1>6. CASE EnterCallee
  BY <1>6, EnterCalleeKeeps
<1>7. CASE MoveParam
  BY <1>7, MoveParamKeeps
<1>8. CASE AfterCall
  BY <1>8, AfterCallKeeps
<1> QED
  BY <1>1, <1>2, <1>3, <1>4, <1>5, <1>6, <1>7, <1>8 DEF Next, Terminated

-----------------------------------------------------------------------------
\* lower_call keeps the ABI: %rsp is a multiple of 16 at every call, for any
\* number of arguments, any frames and any depth.
THEOREM StackAlignedAtCalls == Spec => []AlignedAtCalls
<1>1. MachineInv => AlignedAtCalls
  <2> SUFFICES ASSUME MachineInv, pc.at = "call", pc.left = 0 PROVE rsp % 16 = 0
    BY DEF AlignedAtCalls
  <2>1. AtCall /\ LayoutInv /\ Running(pc.fn)
    BY Shapes DEF AtCall
  <2>2. Len(pc.actual) \in Nat
    BY <2>1, ParamsArePseudos DEF AtCall
  <2>3. Pushed(Len(pc.actual)) \in Nat /\ Pushed(Len(pc.actual)) % 16 = 0
    BY <2>2, PushedIsAligned
  <2>4. rbp \in Int /\ rbp % 16 = 0 /\ stackSize[pc.fn] \in Nat /\ stackSize[pc.fn] % 16 = 0
    BY <2>1, FrameOfRunning
  <2>5. rsp = rbp - stackSize[pc.fn] - Pushed(Len(pc.actual)) + 8 * pc.left
    BY <2>1 DEF AtCall
  <2>6. pc.left = 0
    OBVIOUS
  <2> DEFINE a == stackSize[pc.fn]
             b == Pushed(Len(pc.actual))
  <2>7. rsp = rbp - a - b
    BY <2>3, <2>4, <2>5, <2>6
  <2>8. a \in Nat /\ a % 16 = 0 /\ b \in Nat /\ b % 16 = 0
    BY <2>3, <2>4
  <2> HIDE DEF a, b
  <2> QED
    BY <2>4, <2>7, <2>8
<1> QED
  BY <1>1, InitMachine, NextMachine, PTL DEF Spec

\* Calls give back all they take from the stack, and nothing the program has
\* set is left below %rsp.
THEOREM StackBalanced == Spec => []Balanced
<1>1. MachineInv => Balanced
  BY Shapes DEF AtBody, InBody, Above, Balanced
<1> QED
  BY <1>1, InitMachine, NextMachine, PTL DEF Spec

-----------------------------------------------------------------------------
(* What memory holds, word by word.                                        *)

\* m has the n bytes of v at a.
HoldsBytes(m, a, n, v) == /\ Words(a, n) \subseteq DOMAIN m
                          /\ \A x \in Words(a, n) : m[x] = << v, x - a >>

LEMMA WordsOf ==
  ASSUME NEW a \in Int
  PROVE  Words(a, 4) = {a} /\ Words(a, 8) = {a, a + 4}
<1>1. {w \in Word : w < 8} = {0, 4} /\ {w \in Word : w < 4} = {0}
  BY DEF Word
<1>2. a + 0 = a
  OBVIOUS
<1> QED
  BY <1>1, <1>2 DEF Words

LEMMA LoadBytes ==
  ASSUME NEW m, NEW a \in Int, NEW n \in {4, 8}, NEW v, HoldsBytes(m, a, n, v)
  PROVE  Load(m, a, n) = v
<1>1. a \in Words(a, n) /\ Words(a, n) \subseteq Int /\ a - a = 0
  BY WordsOf
<1>2. m[a] = << v, a - a >> /\ m[a][1] = v
  BY <1>1 DEF HoldsBytes
<1>3. \A x \in Words(a, n) : m[x] = << m[a][1], x - a >>
  BY <1>2 DEF HoldsBytes
<1> QED
  BY <1>2, <1>3 DEF Load, HoldsBytes

LEMMA HoldsEightBytes ==
  ASSUME NEW m, NEW a \in Int, NEW v, Holds(m, a, v)
  PROVE  HoldsBytes(m, a, 8, v)
<1>1. Words(a, 8) = {a, a + 4} /\ a - a = 0 /\ (a + 4) - a = 4
  BY WordsOf
<1> QED
  BY <1>1 DEF Holds, HoldsBytes

LEMMA StoreHoldsBytes ==
  ASSUME NEW m, NEW a \in Int, NEW n \in {4, 8}, NEW v
  PROVE  HoldsBytes(Store(m, a, n, v), a, n, v)
BY DEF HoldsBytes, Store

\* A store leaves what lies beside it.
LEMMA StoreBeside ==
  ASSUME NEW m, NEW a \in Int, NEW n \in {4, 8}, NEW u, NEW c \in Int, NEW k \in {4, 8}, NEW v,
         HoldsBytes(m, c, k, v), c + k <= a \/ a + n <= c
  PROVE  HoldsBytes(Store(m, a, n, u), c, k, v)
<1>1. \A x \in Words(c, k) : x \notin Words(a, n)
  <2>1. \A x \in Words(c, k) : x \in Int /\ x >= c /\ x + 4 <= c + k
    BY DEF Words, Word
  <2>2. \A x \in Words(a, n) : x \in Int /\ x >= a /\ x + 4 <= a + n
    BY DEF Words, Word
  <2> QED
    BY <2>1, <2>2
<1> QED
  BY <1>1 DEF HoldsBytes, Store

LEMMA KeepsHoldsBytes ==
  ASSUME NEW m, NEW m2, NEW c \in Int, NEW a \in Int, NEW n \in {4, 8}, NEW v,
         KeepsFrom(m, m2, c), a >= c, HoldsBytes(m, a, n, v)
  PROVE  HoldsBytes(m2, a, n, v)
<1>1. \A x \in Words(a, n) : x \in Int /\ x >= c
  BY DEF Words, Word
<1> QED
  BY <1>1 DEF HoldsBytes, KeepsFrom

-----------------------------------------------------------------------------
(* The activations on the stack.                                           *)

\* dst waits, in f, for what h returns.
Waits(dst, f, h) == IF ReturnSize[h] = 0 THEN dst = None
                    ELSE dst \in Pseudo /\ Owner[dst] = f /\ Size[dst] = ReturnSize[h]

\* The slots of an activation of f with base a hold its variables.
InSlots(m, o, a, f, vs) ==
    /\ vs = [p \in DOMAIN vs |-> vs[p]]
    /\ \A p \in DOMAIN vs : /\ p \in Pseudo /\ Owner[p] = f /\ o[p] # 0
                            /\ HoldsBytes(m, a + o[p], Size[p], vs[p])

\* No variables.
NoVars == [p \in {} |-> None]

\* The call from f, with base a, to h, with base c: its value is for dst.
CalledFor(m, s, c, a, f, h, dst) ==
    /\ \E n \in Nat : /\ Holds(m, c + 8, Code(Resumed(f, dst, n)))
                      /\ c + 16 + n = a - s[f]
    /\ Waits(dst, f, h)

\* d activations: their bases b, functions g, variables V, of the names kn, and
\* the variable in the caller that waits for each, D.
Stacked(m, s, o, d, kn, b, g, D, V) ==
    /\ Linked(m, s, o, d, b, g) /\ D[1] = None
    /\ \A k \in 1 .. d - 1 : CalledFor(m, s, b[k + 1], b[k], g[k], g[k + 1], D[k + 1])
    /\ \A k \in 1 .. d : DOMAIN V[k] = kn[k] /\ InSlots(m, o, b[k], g[k], V[k])

\* Slots lie within the frame of their function.
Framed(s, o) == \A p \in Pseudo : o[p] # 0 =>
                   /\ o[p] \in Int /\ o[p] >= -s[Owner[p]] /\ o[p] + Size[p] <= 0

\* What is kept from the end of its frame on keeps an activation's variables.
LEMMA KeepsInSlots ==
  ASSUME NEW m, NEW m2, NEW s \in [Function -> Nat], NEW o, Framed(s, o), NEW a \in Int,
         NEW f \in Function, NEW c \in Int, c <= a - s[f], KeepsFrom(m, m2, c), NEW vs,
         InSlots(m, o, a, f, vs)
  PROVE  InSlots(m2, o, a, f, vs)
<1>1. ASSUME NEW p \in DOMAIN vs PROVE HoldsBytes(m2, a + o[p], Size[p], vs[p])
  <2>1. p \in Pseudo /\ Owner[p] = f /\ HoldsBytes(m, a + o[p], Size[p], vs[p]) /\ o[p] # 0
    BY DEF InSlots
  <2>2. o[p] \in Int /\ o[p] >= -s[f] /\ Size[p] \in {4, 8} /\ s[f] \in Nat
    BY <2>1, SlotsAssumption DEF Framed
  <2>3. a + o[p] \in Int /\ a + o[p] >= c
    BY <2>2
  <2> QED
    BY <2>1, <2>2, <2>3, KeepsHoldsBytes
<1> QED
  BY <1>1 DEF InSlots

\* A change to the innermost activation leaves the others.
LEMMA ChangeTop ==
  ASSUME NEW m, NEW m2, NEW s \in [Function -> Nat], NEW o, Framed(s, o), NEW d \in Nat \ {0},
         NEW kn, NEW kn2, NEW b, NEW g, NEW D, NEW V, NEW V2, Stacked(m, s, o, d, kn, b, g, D, V),
         KeepsFrom(m, m2, b[d]), \A k \in 1 .. d - 1 : kn2[k] = kn[k] /\ V2[k] = V[k],
         DOMAIN V2[d] = kn2[d], InSlots(m2, o, b[d], g[d], V2[d])
  PROVE  Stacked(m2, s, o, d, kn2, b, g, D, V2)
<1>1. /\ b \in [Nat -> Int] /\ g \in [Nat -> Function] /\ \A k \in 1 .. d : b[k] >= b[d]
      /\ Linked(m, s, o, d, b, g)
  <2>1. Linked(m, s, o, d, b, g)
    BY DEF Stacked
  <2>2. b \in [Nat -> Int] /\ g \in [Nat -> Function]
    BY <2>1 DEF Linked
  <2>3. d \in 1 .. d
    OBVIOUS
  <2>4. \A k \in 1 .. d : b[k] >= b[d]
    BY <2>1, <2>3 DEF Linked
  <2> QED
    BY <2>1, <2>2, <2>4
<1>2. Linked(m2, s, o, d, b, g)
  BY <1>1, KeepsLinked
<1>3. ASSUME NEW k \in 1 .. d - 1
      PROVE  /\ CalledFor(m2, s, b[k + 1], b[k], g[k], g[k + 1], D[k + 1])
             /\ InSlots(m2, o, b[k], g[k], V[k])
  <2>1. k + 1 \in 1 .. d /\ k \in 1 .. d /\ k \in Nat /\ k + 1 \in Nat
    OBVIOUS
  <2>2. /\ b[k] \in Int /\ b[k + 1] \in Int /\ b[d] \in Int /\ b[k + 1] >= b[d]
        /\ g[k] \in Function /\ s[g[k]] \in Nat
    BY <1>1, <2>1
  <2>3. PICK n \in Nat : /\ Holds(m, b[k + 1] + 8, Code(Resumed(g[k], D[k + 1], n)))
                         /\ b[k + 1] + 16 + n = b[k] - s[g[k]]
    BY DEF Stacked, CalledFor
  <2>4. b[k + 1] + 8 \in Int /\ b[k + 1] + 8 >= b[d] /\ b[d] <= b[k] - s[g[k]]
    BY <2>2, <2>3
  <2>5. Holds(m2, b[k + 1] + 8, Code(Resumed(g[k], D[k + 1], n)))
    BY <2>2, <2>3, <2>4, KeepsHolds
  <2>6. InSlots(m, o, b[k], g[k], V[k]) /\ Waits(D[k + 1], g[k], g[k + 1])
    BY <2>1 DEF Stacked, CalledFor
  <2>7. InSlots(m2, o, b[k], g[k], V[k])
    BY <2>2, <2>4, <2>6, KeepsInSlots
  <2> QED
    BY <2>3, <2>5, <2>6, <2>7 DEF CalledFor
<1>4. ASSUME NEW k \in 1 .. d
      PROVE  DOMAIN V2[k] = kn2[k] /\ InSlots(m2, o, b[k], g[k], V2[k])
  <2>1. CASE k = d
    BY <2>1
  <2>2. CASE k # d
    <3>1. k \in 1 .. d - 1
      BY <2>2
    <3>2. DOMAIN V[k] = kn[k]
      BY DEF Stacked
    <3> QED
      BY <1>3, <3>1, <3>2
  <2> QED
    BY <2>1, <2>2
<1> QED
  BY <1>2, <1>3, <1>4 DEF Stacked

LEMMA ExtendedAt ==
  ASSUME NEW h, DOMAIN h = Nat, NEW d \in Nat, NEW e
  PROVE  /\ DOMAIN Extended(h, d, e) = Nat /\ Extended(h, d, e)[d + 1] = e
         /\ \A k \in 1 .. d : Extended(h, d, e)[k] = h[k]
BY DEF Extended

\* A call puts an activation without variables on the others.
LEMMA PushStacked ==
  ASSUME NEW m, NEW s \in [Function -> Nat], NEW o, NEW d \in Nat \ {0},
         NEW kn, NEW kn2, NEW b, NEW g, NEW D, DOMAIN D = Nat,
         NEW V, DOMAIN V = Nat, Stacked(m, s, o, d, kn, b, g, D, V), NEW c \in Int, NEW f \in Function,
         NEW dst \in Pseudo \cup {None}, NEW vs, vs = NoVars,
         c % 16 = 0, c <= b[d], Called(m, s, o, c, b[d], g[d]),
         CalledFor(m, s, c, b[d], g[d], f, dst),
         \A k \in 1 .. d : kn2[k] = kn[k], kn2[d + 1] = {}
  PROVE  Stacked(m, s, o, d + 1, kn2, Extended(b, d, c), Extended(g, d, f), Extended(D, d, dst),
                 Extended(V, d, vs))
<1> DEFINE b2 == Extended(b, d, c)
           g2 == Extended(g, d, f)
           D2 == Extended(D, d, dst)
           V2 == Extended(V, d, vs)
<1>1. Linked(m, s, o, d, b, g) /\ b \in [Nat -> Int] /\ g \in [Nat -> Function]
  BY DEF Stacked, Linked
<1>2. Linked(m, s, o, d + 1, b2, g2)
  BY <1>1, PushLinked
<1>3. /\ b2[d + 1] = c /\ g2[d + 1] = f /\ D2[d + 1] = dst /\ V2[d + 1] = vs
      /\ \A k \in 1 .. d : b2[k] = b[k] /\ g2[k] = g[k] /\ D2[k] = D[k] /\ V2[k] = V[k]
  <2>1. DOMAIN b = Nat /\ DOMAIN g = Nat
    BY <1>1
  <2>2. b2[d + 1] = c /\ \A k \in 1 .. d : b2[k] = b[k]
    BY <2>1, ExtendedAt
  <2>3. g2[d + 1] = f /\ \A k \in 1 .. d : g2[k] = g[k]
    BY <2>1, ExtendedAt
  <2>4. D2[d + 1] = dst /\ \A k \in 1 .. d : D2[k] = D[k]
    BY ExtendedAt
  <2>5. V2[d + 1] = vs /\ \A k \in 1 .. d : V2[k] = V[k]
    BY ExtendedAt
  <2> HIDE DEF b2, g2, D2, V2
  <2> QED
    BY <2>2, <2>3, <2>4, <2>5
<1> HIDE DEF b2, g2, D2, V2
<1>4. ASSUME NEW k \in 1 .. (d + 1) - 1
      PROVE  CalledFor(m, s, b2[k + 1], b2[k], g2[k], g2[k + 1], D2[k + 1])
  <2>1. CASE k = d
    BY <1>3, <2>1
  <2>2. CASE k # d
    <3>1. k \in 1 .. d - 1 /\ k \in 1 .. d /\ k + 1 \in 1 .. d
      BY <2>2
    <3>2. CalledFor(m, s, b[k + 1], b[k], g[k], g[k + 1], D[k + 1])
      BY <3>1 DEF Stacked
    <3>3. /\ b2[k] = b[k] /\ g2[k] = g[k] /\ b2[k + 1] = b[k + 1] /\ g2[k + 1] = g[k + 1]
          /\ D2[k + 1] = D[k + 1]
      BY <1>3, <3>1
    <3> QED
      BY <3>2, <3>3
  <2> QED
    BY <2>1, <2>2
<1>5. ASSUME NEW k \in 1 .. d + 1
      PROVE  DOMAIN V2[k] = kn2[k] /\ InSlots(m, o, b2[k], g2[k], V2[k])
  <2>1. CASE k = d + 1
    BY <1>3, <2>1 DEF InSlots, NoVars
  <2>2. CASE k # d + 1
    <3>1. k \in 1 .. d
      BY <2>2
    <3>2. DOMAIN V[k] = kn[k] /\ InSlots(m, o, b[k], g[k], V[k])
      BY <3>1 DEF Stacked
    <3>3. b2[k] = b[k] /\ g2[k] = g[k] /\ V2[k] = V[k] /\ kn2[k] = kn[k]
      BY <1>3, <3>1
    <3> QED
      BY <3>2, <3>3
  <2> QED
    BY <2>1, <2>2
<1>6. D2[1] = None
  BY <1>3 DEF Stacked
<1>7. Stacked(m, s, o, d + 1, kn2, b2, g2, D2, V2)
  BY <1>2, <1>4, <1>5, <1>6 DEF Stacked
<1> QED
  BY <1>7 DEF b2, g2, D2, V2

\* A return takes the innermost one off.
LEMMA PopStacked ==
  ASSUME NEW m, NEW s \in [Function -> Nat], NEW o, NEW d \in Nat, d > 1,
         NEW kn, NEW kn2, NEW b, NEW g, NEW D, NEW V, Stacked(m, s, o, d, kn, b, g, D, V),
         \A k \in 1 .. d - 1 : kn2[k] = kn[k]
  PROVE  Stacked(m, s, o, d - 1, kn2, b, g, D, V)
<1>1. 1 .. d - 1 \subseteq 1 .. d /\ 1 .. (d - 1) - 1 \subseteq 1 .. d - 1
  OBVIOUS
<1>2. Linked(m, s, o, d - 1, b, g)
  BY PopLinked DEF Stacked
<1> QED
  BY <1>1, <1>2 DEF Stacked

\* vs with v for p.
Put(vs, p, v) == [q \in DOMAIN vs \cup {p} |-> IF q = p THEN v ELSE vs[q]]

\* A variable gets a value and no other changes, for their slots are apart.
LEMMA StoreVariable ==
  ASSUME LayoutInv, NEW m, NEW a \in Int, NEW f, NEW vs, InSlots(m, offset, a, f, vs),
         NEW p \in Pseudo, Owner[p] = f, Placed(p), NEW v
  PROVE  InSlots(Store(m, a + offset[p], Size[p], v), offset, a, f, Put(vs, p, v))
<1> DEFINE m2 == Store(m, a + offset[p], Size[p], v)
           vs2 == Put(vs, p, v)
<1>1. \A q \in Pseudo : offset[q] \in Int /\ Size[q] \in {4, 8}
  BY SlotsAssumption DEF LayoutInv, SlotsTypeOK
<1>2. DOMAIN vs2 = DOMAIN vs \cup {p} /\ vs2[p] = v /\ \A q \in DOMAIN vs : q # p => vs2[q] = vs[q]
  BY DEF Put
<1> HIDE DEF vs2
<1>3. ASSUME NEW q \in DOMAIN vs2
      PROVE  /\ q \in Pseudo /\ Owner[q] = f /\ offset[q] # 0
             /\ HoldsBytes(m2, a + offset[q], Size[q], vs2[q])
  <2>1. CASE q = p
    <3>1. a + offset[p] \in Int /\ Size[p] \in {4, 8}
      BY <1>1
    <3> QED
      BY <1>2, <2>1, <3>1, StoreHoldsBytes DEF Placed
  <2>2. CASE q # p
    <3>1. /\ q \in Pseudo /\ Owner[q] = f /\ offset[q] # 0 /\ vs2[q] = vs[q]
          /\ HoldsBytes(m, a + offset[q], Size[q], vs[q])
      BY <1>2, <2>2 DEF InSlots
    <3>2. offset[p] + Size[p] <= offset[q] \/ offset[q] + Size[q] <= offset[p]
      BY <2>2, <3>1 DEF LayoutInv, SlotsApart, Apart, Placed
    <3>3. /\ offset[p] \in Int /\ offset[q] \in Int /\ Size[p] \in {4, 8} /\ Size[q] \in {4, 8}
          /\ a + offset[p] \in Int /\ a + offset[q] \in Int
      BY <1>1, <3>1
    <3>4. \/ (a + offset[q]) + Size[q] <= a + offset[p]
          \/ (a + offset[p]) + Size[p] <= a + offset[q]
      BY <3>2, <3>3
    <3> QED
      BY <3>1, <3>3, <3>4, StoreBeside
  <2> QED
    BY <2>1, <2>2
<1>4. InSlots(m2, offset, a, f, vs2)
  <2>1. vs2 = [q \in DOMAIN vs2 |-> vs2[q]]
    BY DEF vs2, Put
  <2> QED
    BY <1>3, <2>1 DEF InSlots
<1> QED
  BY <1>4 DEF vs2

-----------------------------------------------------------------------------
(* What the machine's memory stands for.                                   *)

\* The values of a size an activation with variables vs has at hand.
Hand(vs, size) == ValueOf(size) \cup {vs[p] : p \in {q \in DOMAIN vs : Size[q] = size}}

\* What an operand stands for.
Meant(x, vs) == IF x \in Pseudo THEN vs[x] ELSE x

Depth == Len(known)

\* The stack has activations of the functions g, with variables V, that wait for D.
Stands(b, g, D, V) ==
    /\ DOMAIN D = Nat /\ DOMAIN V = Nat
    /\ Stacked(mem, stackSize, offset, Depth, known, b, g, D, V)
    /\ b[Depth] = rbp /\ g[Depth] = pc.fn

\* Where lower_call has pushed argument i.
PushedAt(i) == rsp + 8 * (i - 1 - ArgRegCount - pc.left)

\* A call under way, by a function with variables vs.
Calling(vs) ==
    /\ DOMAIN pc.actual = DOMAIN Params[pc.callee] /\ Waits(pc.dst, pc.fn, pc.callee)
    /\ \A i \in DOMAIN pc.actual : pc.actual[i] \in Operand(Size[Params[pc.callee][i]])
    /\ \A i \in DOMAIN pc.actual : i > ArgRegCount + pc.left =>
          HoldsBytes(mem, PushedAt(i), Size[Params[pc.callee][i]], Meant(pc.actual[i], vs))

\* Argument i has come, and is v.
Arrived(i, v) == IF i <= ArgRegCount THEN args[i] = v
                 ELSE HoldsBytes(mem, rbp + 16 + 8 * (i - 1 - ArgRegCount), Size[Params[pc.fn][i]], v)

\* The callee, with variables vs, gets the values A of a caller with variables ws.
Receiving(A, vs, ws) ==
    /\ Depth > 1 /\ DOMAIN A = DOMAIN Params[pc.fn]
    /\ \A i \in DOMAIN A : A[i] \in Hand(ws, Size[Params[pc.fn][i]]) /\ Arrived(i, A[i])
    /\ DOMAIN vs = {Params[pc.fn][j] : j \in 1 .. pc.next - 1}
    /\ \A j \in 1 .. pc.next - 1 : vs[Params[pc.fn][j]] = A[j]

Describes(b, g, D, V, A) ==
    /\ Stands(b, g, D, V)
    /\ pc.at = "call" => Calling(V[Depth])
    /\ pc.at = "params" => Receiving(A, V[Depth], V[Depth - 1])

InProgram == pc.at \in {"body", "call", "params", "after"}

CallsInv == /\ pc.at = "start" => known = << {} >>
            /\ InProgram => \E b, g, D, V, A : Describes(b, g, D, V, A)

LEMMA SlotsAreFramed ==
  ASSUME LayoutInv, done = Function
  PROVE  Framed(stackSize, offset) /\ stackSize \in [Function -> Nat]
BY SlotsAssumption DEF LayoutInv, SlotsTypeOK, SlotsInFrame, Framed, Placed

\* While the program runs: the innermost activation.
Innermost(b, g, V) ==
    /\ LayoutInv /\ Running(pc.fn) /\ Depth \in Nat \ {0} /\ rbp \in Int /\ rsp \in Int
    /\ Depth = Len(known) /\ known \in Seq(SUBSET Pseudo) /\ DOMAIN known = 1 .. Depth
    /\ pc.fn \in Function /\ done = Function /\ Above(mem, rsp)
    /\ Framed(stackSize, offset) /\ stackSize \in [Function -> Nat]
    /\ b[Depth] = rbp /\ g[Depth] = pc.fn /\ Depth \in 1 .. Depth
    /\ b \in [Nat -> Int] /\ g \in [Nat -> Function]
    /\ DOMAIN V[Depth] = known[Depth] /\ InSlots(mem, offset, rbp, pc.fn, V[Depth])

LEMMA InnermostStands ==
  ASSUME MachineInv, InProgram, NEW b, NEW g, NEW D, NEW V, Stands(b, g, D, V)
  PROVE  Innermost(b, g, V)
<1>1. /\ LayoutInv /\ Running(pc.fn) /\ known \in Seq(SUBSET Pseudo) /\ rsp \in Int /\ Above(mem, rsp)
  BY Shapes DEF InProgram, AtBody, AtCall, AtParams, AtAfter
<1>2. Depth \in Nat \ {0} /\ rbp \in Int /\ pc.fn \in Function /\ done = Function
  BY <1>1 DEF Running, Depth
<1>3. Depth \in 1 .. Depth /\ Depth = Len(known) /\ DOMAIN known = 1 .. Depth
  BY <1>1, <1>2 DEF Depth
<1> QED
  BY <1>1, <1>2, <1>3, SlotsAreFramed DEF Innermost, Stands, Stacked, Linked

\* An operand reads as what it stands for.
LEMMA ReadsAsMeant ==
  ASSUME MachineInv, InProgram, NEW b, NEW g, NEW D, NEW V, Stands(b, g, D, V),
         NEW size \in {4, 8}, NEW x \in Operand(size)
  PROVE  /\ Read(x, size) = Meant(x, V[Depth]) /\ Meant(x, V[Depth]) \in Hand(V[Depth], size)
         /\ x \in Pseudo => HoldsBytes(mem, rbp + offset[x], size, V[Depth][x])
<1>1. DOMAIN V[Depth] = known[Len(known)] /\ InSlots(mem, offset, rbp, pc.fn, V[Depth])
      /\ rbp \in Int /\ LayoutInv
  <2>1. Innermost(b, g, V)
    BY InnermostStands
  <2> QED
    BY <2>1 DEF Innermost
<1>2. CASE x \in Pseudo
  <2>1. x \notin ValueOf(size)
    BY <1>2, MachineAssumption DEF ValueOf
  <2>2. x \in known[Len(known)] /\ Size[x] = size
    BY <2>1 DEF Operand
  <2>3. HoldsBytes(mem, rbp + offset[x], size, V[Depth][x])
    BY <1>1, <2>2 DEF InSlots
  <2>4. rbp + offset[x] \in Int
    BY <1>1, <1>2 DEF LayoutInv, SlotsTypeOK
  <2>5. Read(x, size) = V[Depth][x]
    BY <1>2, <2>3, <2>4, LoadBytes DEF Read
  <2> QED
    BY <1>1, <1>2, <2>2, <2>3, <2>5 DEF Meant, Hand
<1>3. CASE x \notin Pseudo
  <2>1. x \in ValueOf(size)
    <3>1. ASSUME x \in known[Len(known)] PROVE FALSE
      BY <1>1, <1>3, <3>1 DEF InSlots
    <3> QED
      BY <3>1 DEF Operand
  <2> QED
    BY <1>3, <2>1 DEF Read, Meant, Hand
<1> QED
  BY <1>2, <1>3

\* V with v for p in its entry at d.
PutAt(V, d, p, v) == [V EXCEPT ![d] = Put(@, p, v)]

\* A value the running function stores is its variable's, and only that.
LEMMA StoresForVariable ==
  ASSUME MachineInv, InProgram, NEW b, NEW g, NEW D, NEW V, Stands(b, g, D, V),
         NEW p \in Pseudo, Owner[p] = pc.fn, Placed(p), NEW v,
         NEW m, NEW c \in Int, c <= rbp - stackSize[pc.fn], KeepsFrom(mem, m, c), DOMAIN m \subseteq Int
  PROVE  /\ Stacked(Store(m, rbp + offset[p], Size[p], v), stackSize, offset, Depth,
                    [known EXCEPT ![Depth] = @ \cup {p}], b, g, D, PutAt(V, Depth, p, v))
         /\ KeepsFrom(mem, Store(m, rbp + offset[p], Size[p], v), rbp)
         /\ DOMAIN PutAt(V, Depth, p, v) = Nat
         /\ PutAt(V, Depth, p, v)[Depth] = Put(V[Depth], p, v)
         /\ \A k \in 1 .. Depth - 1 : PutAt(V, Depth, p, v)[k] = V[k]
<1> DEFINE m2 == Store(m, rbp + offset[p], Size[p], v)
           V2 == PutAt(V, Depth, p, v)
           kn2 == [known EXCEPT ![Depth] = @ \cup {p}]
<1>1. /\ LayoutInv /\ Running(pc.fn) /\ Depth \in Nat \ {0} /\ rbp \in Int /\ DOMAIN known = 1 .. Depth
      /\ Framed(stackSize, offset) /\ stackSize \in [Function -> Nat] /\ pc.fn \in Function
      /\ b[Depth] = rbp /\ g[Depth] = pc.fn /\ DOMAIN V[Depth] = known[Depth]
      /\ InSlots(mem, offset, rbp, pc.fn, V[Depth]) /\ DOMAIN mem \subseteq Int
      /\ Depth \in 1 .. Depth
  <2>1. Innermost(b, g, V)
    BY InnermostStands
  <2> QED
    BY <2>1 DEF Innermost, Above
<1>2. DOMAIN V = Nat /\ Stacked(mem, stackSize, offset, Depth, known, b, g, D, V)
  BY DEF Stands
<1>3. DOMAIN V2 = Nat /\ V2[Depth] = Put(V[Depth], p, v) /\ \A k \in 1 .. Depth - 1 : V2[k] = V[k]
  BY <1>1, <1>2 DEF PutAt
<1>4. kn2[Depth] = known[Depth] \cup {p} /\ \A k \in 1 .. Depth - 1 : kn2[k] = known[k]
  BY <1>1
<1>5. DOMAIN V2[Depth] = kn2[Depth]
  BY <1>1, <1>3, <1>4 DEF Put
<1> HIDE DEF V2, kn2
<1>6. rbp + offset[p] \in Int /\ Size[p] \in {4, 8} /\ (rbp + offset[p]) + Size[p] <= rbp
      /\ c <= rbp
  <2>1. offset[p] \in Int /\ Size[p] \in {4, 8} /\ offset[p] + Size[p] <= 0 /\ stackSize[pc.fn] \in Nat
    BY <1>1, FrameOfRunning
  <2>2. PICK o \in Int, n \in {4, 8}, a \in Int, w \in Nat :
           o = offset[p] /\ n = Size[p] /\ a = rbp /\ w = stackSize[pc.fn]
    BY <1>1, <2>1
  <2>3. o + n <= 0 /\ c <= a - w
    BY <2>1, <2>2
  <2>4. a + o \in Int /\ (a + o) + n <= a /\ c <= a
    BY <2>3
  <2> QED
    BY <2>2, <2>4
<1>7. KeepsFrom(mem, m2, rbp)
  <2>1. KeepsFrom(m, m2, rbp)
    BY <1>1, <1>6, StoreKeeps
  <2> QED
    BY <1>1, <1>6, <2>1, KeepsTransitive
<1>8. InSlots(m, offset, rbp, pc.fn, V[Depth])
  BY <1>1, KeepsInSlots
<1>9. InSlots(m2, offset, b[Depth], g[Depth], V2[Depth])
  BY <1>1, <1>3, <1>8, StoreVariable
<1>10. Stacked(m2, stackSize, offset, Depth, kn2, b, g, D, V2)
  <2>1. KeepsFrom(mem, m2, b[Depth])
    BY <1>1, <1>7
  <2>2. \A k \in 1 .. Depth - 1 : kn2[k] = known[k] /\ V2[k] = V[k]
    BY <1>3, <1>4
  <2> HIDE DEF m2, Depth
  <2> QED
    BY <1>1, <1>2, <1>5, <1>9, <2>1, <2>2, ChangeTop
<1> QED
  BY <1>3, <1>7, <1>10 DEF V2, kn2

-----------------------------------------------------------------------------
(* Every step, on what the stack stands for.                               *)

LEMMA StartDescribes ==
  ASSUME MachineInv, CallsInv, Start, NEW c, c = rbp'
  PROVE  Describes([k \in Nat |-> c], [k \in Nat |-> Main], [k \in Nat |-> None],
                   [k \in Nat |-> NoVars], << >>)'
<1> DEFINE b == [k \in Nat |-> c]
           g == [k \in Nat |-> Main]
           D == [k \in Nat |-> None]
           V == [k \in Nat |-> NoVars]
<1>1. MachineInv' /\ pc' = [at |-> "body", fn |-> Main] /\ known' = known
  BY StartKeeps DEF Start
<1>2. known = << {} >> /\ Depth = 1 /\ Depth' = 1
  BY <1>1 DEF CallsInv, Start, Depth
<1>3. /\ b \in [Nat -> Int] /\ g \in [Nat -> Function] /\ DOMAIN D = Nat /\ DOMAIN V = Nat
      /\ b[1] = rbp' /\ g[1] = Main /\ D[1] = None /\ V[1] = NoVars
  <2>1. rbp' \in Int
    BY <1>1, Shapes, StartKeeps DEF AtBody, Running, MachineInv, AtStart, AtParams, AtCall, AtAfter, AtExit, Resumed
  <2> QED
    BY <2>1, MachineAssumption
<1> HIDE DEF b, g, D, V
<1>4. Linked(mem', stackSize', offset', 1, b, g)
  <2>1. PICK b1 \in [Nat -> Int], g1 \in [Nat -> Function] :
           Linked(mem', stackSize', offset', Len(known'), b1, g1) /\ b1[Len(known')] = rbp'
    BY <1>1 DEF MachineInv, AtStart, AtBody, AtParams, AtCall, AtAfter, AtExit, Resumed, Running, Frames
  <2>2. Linked(mem', stackSize', offset', 1, b1, g1) /\ b1[1] = rbp'
    BY <1>2, <2>1 DEF Depth
  <2>3. 1 .. 1 - 1 = {} /\ 1 .. 1 = {1}
    OBVIOUS
  <2> QED
    BY <1>3, <2>2, <2>3 DEF Linked
<1>5. Stacked(mem', stackSize', offset', 1, known', b, g, D, V)
  <2>1. 1 .. 1 - 1 = {} /\ 1 .. 1 = {1} /\ known'[1] = {}
    BY <1>1, <1>2
  <2> QED
    BY <1>3, <1>4, <2>1 DEF Stacked, InSlots, NoVars
<1>6. Stands(b, g, D, V)'
  <2>1. pc'.fn = Main
    BY <1>1
  <2> QED
    BY <1>2, <1>3, <1>5, <2>1 DEF Stands
<1>7. Describes(b, g, D, V, << >>)'
  BY <1>1, <1>6 DEF Describes
<1> QED
  BY <1>7 DEF b, g, D, V

LEMMA AssignDescribes ==
  ASSUME MachineInv, NEW b, NEW g, NEW D, NEW V, NEW A, Describes(b, g, D, V, A),
         NEW p \in Pseudo, NEW x, Assign(p, x), NEW v, v = Meant(x, V[Depth]),
         NEW V2, V2 = PutAt(V, Depth, p, v)
  PROVE  /\ Describes(b, g, D, V2, A)'
         /\ Depth' = Depth /\ v \in Hand(V[Depth], Size[p])
<1>1. /\ pc.at = "body" /\ pc' = pc /\ rbp' = rbp /\ UNCHANGED slots
      /\ Owner[p] = pc.fn /\ Placed(p) /\ x \in Operand(Size[p])
      /\ mem' = Store(mem, rbp + offset[p], Size[p], Read(x, Size[p]))
      /\ known' = [known EXCEPT ![Depth] = @ \cup {p}]
  BY DEF Assign, InBody, Depth
<1>2. Stands(b, g, D, V) /\ InProgram
  BY <1>1 DEF Describes, InProgram
<1>3. AtBody /\ LayoutInv /\ Running(pc.fn) /\ Depth \in Nat \ {0} /\ known \in Seq(SUBSET Pseudo)
      /\ DOMAIN mem \subseteq Int /\ rbp \in Int
  <2>1. Innermost(b, g, V)
    BY <1>1, <1>2, InnermostStands
  <2> QED
    BY <1>1, <1>2, <2>1, Shapes DEF Innermost, Above
<1>4. Size[p] \in {4, 8}
  BY SlotsAssumption
<1>5. Read(x, Size[p]) = v /\ v \in Hand(V[Depth], Size[p])
  BY <1>1, <1>2, <1>4, ReadsAsMeant
<1>6. /\ Stacked(mem', stackSize, offset, Depth, known', b, g, D, V2) /\ DOMAIN V2 = Nat
  <2>1. /\ rbp - stackSize[pc.fn] \in Int /\ KeepsFrom(mem, mem, rbp - stackSize[pc.fn])
        /\ rbp - stackSize[pc.fn] <= rbp - stackSize[pc.fn]
    BY <1>3, FrameOfRunning DEF KeepsFrom
  <2> QED
    BY <1>1, <1>2, <1>3, <1>5, <2>1, StoresForVariable
<1>7. Depth' = Depth
  BY <1>1 DEF Depth
<1>8. Describes(b, g, D, V2, A)'
  BY <1>1, <1>2, <1>6, <1>7 DEF Describes, Stands, slots
<1> QED
  BY <1>5, <1>7, <1>8

LEMMA BeginCallDescribes ==
  ASSUME MachineInv, NEW b, NEW g, NEW D, NEW V, NEW A, Describes(b, g, D, V, A),
         NEW h \in Function, NEW actual \in [DOMAIN Params[h] -> Operand(4) \cup Operand(8)],
         NEW dst \in Pseudo \cup {None}, BeginCall(h, actual, dst)
  PROVE  Describes(b, g, D, V, A)' /\ Depth' = Depth
<1>1. /\ pc.at = "body" /\ rbp' = rbp /\ mem' = mem /\ UNCHANGED slots /\ known' = known
      /\ pc' = [at |-> "call", fn |-> pc.fn, callee |-> h, actual |-> actual, dst |-> dst,
                left |-> StackCount(Len(actual))]
      /\ \A i \in DOMAIN actual : actual[i] \in Operand(Size[Params[h][i]])
      /\ Waits(dst, pc.fn, h)
  BY DEF BeginCall, InBody, Waits
<1>2. Depth' = Depth /\ pc'.fn = pc.fn
  BY <1>1 DEF Depth
<1>3. Stands(b, g, D, V)'
  BY <1>1, <1>2 DEF Describes, Stands, slots
<1>4. pc'.callee = h /\ pc'.actual = actual /\ pc'.dst = dst /\ pc'.left = StackCount(Len(actual))
      /\ pc'.at = "call"
  BY <1>1
<1>5. DOMAIN actual = 1 .. Len(actual) /\ Len(actual) \in Nat /\ DOMAIN actual = DOMAIN Params[h]
  BY ParamsArePseudos
<1>6. \A i \in DOMAIN actual : ~(i > ArgRegCount + StackCount(Len(actual)))
  <2>1. ArgRegCount \in Nat
    BY MachineAssumption
  <2> QED
    BY <1>5, <2>1 DEF StackCount
<1>7. \A n : Operand(n)' = Operand(n)
  BY <1>1 DEF Operand
<1>8. Calling(V[Depth])'
  BY <1>1, <1>2, <1>4, <1>5, <1>6, <1>7 DEF Calling
<1> QED
  BY <1>2, <1>3, <1>4, <1>8 DEF Describes

\* Memory that is kept from the end of the running function's frame on stands
\* for the same.
LEMMA StandsWhereKept ==
  ASSUME MachineInv, InProgram, NEW b, NEW g, NEW D, NEW V, Stands(b, g, D, V),
         NEW c \in Int, c <= rbp - stackSize[pc.fn], KeepsFrom(mem, mem', c)
  PROVE  Stacked(mem', stackSize, offset, Depth, known, b, g, D, V)
<1>1. /\ Depth \in Nat \ {0} /\ rbp \in Int /\ Running(pc.fn) /\ LayoutInv /\ Above(mem, rsp)
      /\ Framed(stackSize, offset) /\ stackSize \in [Function -> Nat] /\ pc.fn \in Function
      /\ b[Depth] = rbp /\ g[Depth] = pc.fn /\ DOMAIN V[Depth] = known[Depth]
      /\ InSlots(mem, offset, rbp, pc.fn, V[Depth])
  <2>1. Innermost(b, g, V)
    BY InnermostStands
  <2> QED
    BY <2>1 DEF Innermost
<1>2. KeepsFrom(mem, mem', rbp)
  <2>1. c <= rbp
    BY <1>1, FrameOfRunning
  <2> QED
    BY <1>1, <2>1, KeepsFromHigher DEF Above
<1>3. InSlots(mem', offset, rbp, pc.fn, V[Depth])
  BY <1>1, KeepsInSlots
<1>4. Stacked(mem, stackSize, offset, Depth, known, b, g, D, V)
  BY DEF Stands
<1>5. \A k \in 1 .. Depth - 1 : known[k] = known[k] /\ V[k] = V[k]
  OBVIOUS
<1> HIDE DEF Depth
<1> QED
  BY <1>1, <1>2, <1>3, <1>4, <1>5, ChangeTop

\* A push copies 8 bytes, of which the callee will look at those that mean something.
LEMMA PushHolds ==
  ASSUME NEW m, NEW m2, NEW sp \in Int, NEW a \in Int, NEW n \in {4, 8}, NEW v,
         HoldsBytes(m, a, n, v), Above(m, sp),
         m2 = [w \in DOMAIN m \cup {u \in Words(sp - 8, 8) : a + u - (sp - 8) \in DOMAIN m} |->
                   IF w < sp THEN m[a + w - (sp - 8)] ELSE m[w]]
  PROVE  HoldsBytes(m2, sp - 8, n, v)
<1>1. /\ Words(sp - 8, 8) = {sp - 8, (sp - 8) + 4} /\ Words(sp - 8, 4) = {sp - 8}
      /\ Words(a, 8) = {a, a + 4} /\ Words(a, 4) = {a}
  BY WordsOf
<1>2. /\ a + (sp - 8) - (sp - 8) = a /\ a + ((sp - 8) + 4) - (sp - 8) = a + 4
      /\ sp - 8 < sp /\ (sp - 8) + 4 < sp /\ (sp - 8) - (sp - 8) = 0
      /\ ((sp - 8) + 4) - (sp - 8) = 4 /\ a - a = 0 /\ (a + 4) - a = 4
  OBVIOUS
<1> DEFINE lo == sp - 8
           hi == (sp - 8) + 4
<1>3. a \in DOMAIN m /\ m[a] = << v, 0 >> /\ (n = 8 => a + 4 \in DOMAIN m /\ m[a + 4] = << v, 4 >>)
  BY <1>1, <1>2 DEF HoldsBytes
<1>4. lo \in DOMAIN m2 /\ m2[lo] = << v, 0 >>
  BY <1>1, <1>2, <1>3
<1>5. ASSUME n = 8 PROVE hi \in DOMAIN m2 /\ m2[hi] = << v, 4 >>
  BY <1>1, <1>2, <1>3, <1>5
<1> QED
  BY <1>1, <1>2, <1>4, <1>5 DEF HoldsBytes

LEMMA PushArgDescribes ==
  ASSUME MachineInv, NEW b, NEW g, NEW D, NEW V, NEW A, Describes(b, g, D, V, A), PushArg
  PROVE  Describes(b, g, D, V, A)' /\ Depth' = Depth
<1>1. /\ pc.at = "call" /\ rbp' = rbp /\ UNCHANGED slots /\ known' = known /\ args' = args
      /\ pc' = [pc EXCEPT !.left = @ - 1] /\ pc.left > 0 /\ AtCall
  BY Shapes DEF PushArg
<1>2. /\ rsp' = rsp - 8 /\ rsp' \in Int /\ rsp <= rbp - stackSize[pc.fn]
      /\ KeepsFrom(mem, mem', rsp)
  BY PushArgDoes
<1>3. Stands(b, g, D, V) /\ InProgram /\ Calling(V[Depth])
  BY <1>1 DEF Describes, InProgram
<1>4. rsp \in Int /\ rbp \in Int /\ DOMAIN mem \subseteq Int /\ LayoutInv /\ Depth \in Nat \ {0}
      /\ Above(mem, rsp) /\ DOMAIN V[Depth] = known[Depth]
      /\ InSlots(mem, offset, rbp, pc.fn, V[Depth])
  <2>1. Innermost(b, g, V)
    BY <1>3, InnermostStands
  <2> QED
    BY <1>3, <2>1 DEF Innermost, Above
<1>5. Stacked(mem', stackSize, offset, Depth, known, b, g, D, V)
  BY <1>2, <1>3, <1>4, StandsWhereKept
<1>6. Depth' = Depth
  BY <1>1 DEF Depth
<1>7. /\ pc'.at = "call" /\ pc'.fn = pc.fn /\ pc'.callee = pc.callee /\ pc'.actual = pc.actual
      /\ pc'.dst = pc.dst /\ pc'.left = pc.left - 1
  BY <1>1 DEF AtCall
<1>8. Stands(b, g, D, V)'
  BY <1>1, <1>3, <1>5, <1>6, <1>7 DEF Stands, slots
<1>9. /\ pc.callee \in Function /\ pc.left \in Nat /\ ArgRegCount \in Nat
      /\ DOMAIN pc.actual = 1 .. Len(Params[pc.callee])
      /\ \A i \in DOMAIN pc.actual : Params[pc.callee][i] \in Pseudo /\ Size[Params[pc.callee][i]] \in {4, 8}
  <2>1. pc.callee \in Function /\ pc.left \in Nat
    <3>1. Len(pc.actual) \in Nat /\ pc.callee \in Function
      BY <1>1, ParamsArePseudos DEF AtCall
    <3>2. StackCount(Len(pc.actual)) \in Nat /\ pc.left \in 0 .. StackCount(Len(pc.actual))
      BY <1>1, <3>1, PushedIsAligned DEF AtCall
    <3> QED
      BY <3>1, <3>2
  <2>2. DOMAIN pc.actual = DOMAIN Params[pc.callee]
    BY <1>3 DEF Calling
  <2> QED
    BY <2>1, <2>2, ParamsArePseudos, MachineAssumption, SlotsAssumption
<1> DEFINE size(i) == Size[Params[pc.callee][i]]
           v(i) == Meant(pc.actual[i], V[Depth])
<1>10. ASSUME NEW i \in DOMAIN pc.actual, i > ArgRegCount + (pc.left - 1)
       PROVE  HoldsBytes(mem', rsp' + 8 * (i - 1 - ArgRegCount - (pc.left - 1)), size(i), v(i))
  <2>1. i \in Nat /\ size(i) \in {4, 8} /\ pc.actual[i] \in Operand(size(i))
    BY <1>3, <1>9 DEF Calling
  <2>2. CASE i > ArgRegCount + pc.left
    <3>1. HoldsBytes(mem, rsp + 8 * (i - 1 - ArgRegCount - pc.left), size(i), v(i))
      BY <1>3, <2>2 DEF Calling, PushedAt
    <3> DEFINE a == rsp + 8 * (i - 1 - ArgRegCount - pc.left)
    <3>2. a \in Int /\ a >= rsp /\ rsp' + 8 * (i - 1 - ArgRegCount - (pc.left - 1)) = a
      <4>1. PICK l \in Nat, r \in Nat, s \in Int : l = pc.left /\ r = ArgRegCount /\ s = rsp /\ rsp' = s - 8
        BY <1>2, <1>4, <1>9
      <4>2. i \in Nat /\ i > r + l
        BY <2>1, <2>2, <4>1
      <4>3. s + 8 * (i - 1 - r - l) \in Int /\ s + 8 * (i - 1 - r - l) >= s
            /\ (s - 8) + 8 * (i - 1 - r - (l - 1)) = s + 8 * (i - 1 - r - l)
        BY <4>2
      <4> QED
        BY <4>1, <4>3
    <3> HIDE DEF a, v, size
    <3>3. HoldsBytes(mem', a, size(i), v(i))
      BY <1>2, <1>4, <2>1, <3>1, <3>2, KeepsHoldsBytes DEF a
    <3> QED
      BY <3>2, <3>3
  <2>3. CASE ~(i > ArgRegCount + pc.left)
    <3>1. i = NextPushed /\ rsp' + 8 * (i - 1 - ArgRegCount - (pc.left - 1)) = rsp - 8
      <4>1. PICK l \in Nat, r \in Nat, s \in Int : l = pc.left /\ r = ArgRegCount /\ s = rsp /\ rsp' = s - 8
        BY <1>2, <1>4, <1>9
      <4>2. i \in Nat /\ ~(i > r + l) /\ i > r + (l - 1)
        BY <1>10, <2>1, <2>3, <4>1
      <4>3. i = r + l /\ (s - 8) + 8 * (i - 1 - r - (l - 1)) = s - 8
        BY <4>2
      <4> QED
        BY <4>1, <4>3 DEF NextPushed
    <3> DEFINE x == pc.actual[i]
    <3>2. x \in Pseudo => HoldsBytes(mem, rbp + offset[x], size(i), v(i))
      <4>1. x \in Pseudo => HoldsBytes(mem, rbp + offset[x], size(i), V[Depth][x])
        BY <1>3, <2>1, ReadsAsMeant
      <4> QED
        BY <4>1 DEF Meant
    <3>3. CASE x \in Pseudo
      <4>1. mem' = [w \in DOMAIN mem \cup {u \in Words(rsp - 8, 8) :
                                 (rbp + offset[x]) + u - (rsp - 8) \in DOMAIN mem} |->
                      IF w < rsp THEN mem[(rbp + offset[x]) + w - (rsp - 8)] ELSE mem[w]]
        BY <3>1, <3>3 DEF PushArg
      <4>2. rbp + offset[x] \in Int
        BY <1>4, <3>3 DEF LayoutInv, SlotsTypeOK
      <4> HIDE DEF x, v, size
      <4>3. PICK a \in Int : a = rbp + offset[x]
        BY <4>2
      <4>4. mem' = [w \in DOMAIN mem \cup {u \in Words(rsp - 8, 8) : a + u - (rsp - 8) \in DOMAIN mem} |->
                      IF w < rsp THEN mem[a + w - (rsp - 8)] ELSE mem[w]]
        BY <4>1, <4>3
      <4>5. HoldsBytes(mem, a, size(i), v(i))
        BY <3>2, <3>3, <4>3
      <4>6. HoldsBytes(mem', rsp - 8, size(i), v(i))
        BY <1>4, <2>1, <4>4, <4>5, PushHolds
      <4> QED
        BY <3>1, <4>6
    <3>4. CASE x \notin Pseudo
      <4>1. mem' = Store(mem, rsp - 8, 8, x) /\ v(i) = x
        BY <3>1, <3>4 DEF PushArg, Meant
      <4>2. rsp - 8 \in Int
        BY <1>4
      <4>3. HoldsBytes(mem', rsp - 8, 8, x)
        BY <4>1, <4>2, StoreHoldsBytes
      <4>4. HoldsBytes(mem', rsp - 8, size(i), x)
        <5>1. Words(rsp - 8, 4) \subseteq Words(rsp - 8, 8)
          BY <4>2, WordsOf
        <5> QED
          BY <2>1, <4>3, <5>1 DEF HoldsBytes
      <4> QED
        BY <3>1, <4>1, <4>4
    <3> QED
      BY <3>3, <3>4
  <2> QED
    BY <2>2, <2>3
<1>11. \A n : Operand(n)' = Operand(n)
  BY <1>1 DEF Operand
<1> HIDE DEF size, v
<1>12. Calling(V[Depth])'
  <2>2. \A i : PushedAt(i)' = rsp' + 8 * (i - 1 - ArgRegCount - (pc.left - 1))
    BY <1>7 DEF PushedAt
  <2>3. DOMAIN pc.actual = DOMAIN Params[pc.callee] /\ Waits(pc.dst, pc.fn, pc.callee)
    BY <1>3 DEF Calling
  <2>4. \A i \in DOMAIN pc.actual : pc.actual[i] \in Operand(Size[Params[pc.callee][i]])
    BY <1>3 DEF Calling
  <2>5. \A i \in DOMAIN pc.actual : i > ArgRegCount + (pc.left - 1) =>
           HoldsBytes(mem', PushedAt(i)', Size[Params[pc.callee][i]], Meant(pc.actual[i], V[Depth]))
    BY <1>10, <2>2 DEF size, v
  <2> QED
    BY <1>6, <1>7, <1>11, <2>3, <2>4, <2>5 DEF Calling
<1> QED
  BY <1>6, <1>7, <1>8, <1>12 DEF Describes

LEMMA EnterCalleeDescribes ==
  ASSUME MachineInv, NEW b, NEW g, NEW D, NEW V, NEW A, Describes(b, g, D, V, A), EnterCallee,
         NEW b2, NEW g2, NEW D2, NEW V2, NEW A2,
         b2 = Extended(b, Depth, rbp'), g2 = Extended(g, Depth, pc.callee),
         D2 = Extended(D, Depth, pc.dst), V2 = Extended(V, Depth, NoVars),
         A2 = [i \in DOMAIN pc.actual |-> Meant(pc.actual[i], V[Depth])]
  PROVE  /\ Describes(b2, g2, D2, V2, A2)' /\ Depth' = Depth + 1
         /\ DOMAIN A2 = DOMAIN Params[pc.callee]
         /\ \A i \in DOMAIN A2 : A2[i] \in Hand(V[Depth], Size[Params[pc.callee][i]])
<1>1. /\ pc.at = "call" /\ UNCHANGED slots /\ known' = Append(known, {}) /\ pc.left = 0 /\ AtCall
      /\ pc' = IF Len(pc.actual) = 0 THEN [at |-> "body", fn |-> pc.callee]
               ELSE [at |-> "params", fn |-> pc.callee, next |-> 1]
      /\ args' = [i \in 1 .. Len(pc.actual) - StackCount(Len(pc.actual)) |->
                     Read(pc.actual[i], Size[Params[pc.callee][i]])]
  BY Shapes DEF EnterCallee
<1>2. Stands(b, g, D, V) /\ InProgram /\ Calling(V[Depth]) /\ DOMAIN D = Nat /\ DOMAIN V = Nat
  BY <1>1 DEF Describes, InProgram, Stands
<1>3. /\ rsp \in Int /\ rbp \in Int /\ DOMAIN mem \subseteq Int /\ LayoutInv /\ Depth \in Nat \ {0}
      /\ Running(pc.fn) /\ known \in Seq(SUBSET Pseudo) /\ stackSize \in [Function -> Nat]
      /\ b \in [Nat -> Int] /\ g \in [Nat -> Function] /\ b[Depth] = rbp /\ g[Depth] = pc.fn
      /\ DOMAIN known = 1 .. Depth /\ Depth = Len(known)
  <2>1. Innermost(b, g, V)
    BY <1>2, InnermostStands
  <2> QED
    BY <1>2, <2>1 DEF Innermost, Above
<1>4. /\ KeepsFrom(mem, mem', rsp) /\ rbp' = rsp - 16 /\ rbp' \in Int /\ rbp' % 16 = 0 /\ rbp' <= rbp
      /\ rsp = rbp - stackSize[pc.fn] - Pushed(Len(pc.actual)) /\ Pushed(Len(pc.actual)) \in Nat
      /\ Holds(mem', rbp' + 8, Code(Resumed(pc.fn, pc.dst, Pushed(Len(pc.actual)))))
      /\ Called(mem', stackSize, offset, rbp', rbp, pc.fn)
  BY EnterCalleeDoes
<1>5. rsp <= rbp - stackSize[pc.fn] /\ rbp' + 16 + Pushed(Len(pc.actual)) = rbp - stackSize[pc.fn]
  <2>1. stackSize[pc.fn] \in Nat
    BY <1>3, FrameOfRunning
  <2> DEFINE u == Pushed(Len(pc.actual))
             w == stackSize[pc.fn]
  <2>2. u \in Nat /\ w \in Nat /\ rsp = rbp - w - u /\ rbp' = rsp - 16
    BY <1>4, <2>1
  <2> HIDE DEF u, w
  <2>3. rsp <= rbp - w /\ rbp' + 16 + u = rbp - w
    BY <1>3, <2>2
  <2> QED
    BY <2>3 DEF u, w
<1>6. Stacked(mem', stackSize, offset, Depth, known, b, g, D, V)
  BY <1>2, <1>3, <1>4, <1>5, StandsWhereKept
<1>7. CalledFor(mem', stackSize, rbp', rbp, pc.fn, pc.callee, pc.dst)
  BY <1>2, <1>4, <1>5 DEF CalledFor, Calling
<1>8. /\ \A k \in 1 .. Depth : known'[k] = known[k]
      /\ known'[Depth + 1] = {} /\ Len(known') = Depth + 1 /\ Depth' = Depth + 1
  BY <1>1, <1>3 DEF Depth
<1>9. pc.callee \in Function /\ pc.dst \in Pseudo \cup {None} /\ DOMAIN NoVars = {}
  BY <1>1 DEF AtCall, NoVars
<1>10. Stacked(mem', stackSize, offset, Depth + 1, known', b2, g2, D2, V2)
  <2>1. PICK d \in Nat \ {0} : d = Depth
    BY <1>3
  <2>2. PICK c \in Int : c = rbp'
    BY <1>4
  <2> HIDE DEF Depth
  <2>3. Called(mem', stackSize, offset, c, b[d], g[d]) /\ c % 16 = 0 /\ c <= b[d]
    BY <1>3, <1>4, <2>1, <2>2
  <2>4. CalledFor(mem', stackSize, c, b[d], g[d], pc.callee, pc.dst)
    BY <1>3, <1>7, <2>1, <2>2
  <2>5. Stacked(mem', stackSize, offset, d, known, b, g, D, V)
    BY <1>6, <2>1
  <2>6. \A k \in 1 .. d : known'[k] = known[k]
    BY <1>8, <2>1
  <2>7. known'[d + 1] = {}
    BY <1>8, <2>1
  <2>8. PICK m : m = mem'
    OBVIOUS
  <2>9. PICK s \in [Function -> Nat] : s = stackSize
    BY <1>3
  <2>10. PICK o, kn, kn2 : o = offset /\ kn = known /\ kn2 = known'
    OBVIOUS
  <2>11. PICK f \in Function, t \in Pseudo \cup {None} : f = pc.callee /\ t = pc.dst
    BY <1>9
  <2>12. /\ Stacked(m, s, o, d, kn, b, g, D, V) /\ Called(m, s, o, c, b[d], g[d])
        /\ CalledFor(m, s, c, b[d], g[d], f, t)
        /\ \A k \in 1 .. d : kn2[k] = kn[k]
        /\ kn2[d + 1] = {} /\ c % 16 = 0 /\ c <= b[d]
    BY <2>3, <2>4, <2>5, <2>6, <2>7, <2>8, <2>9, <2>10, <2>11
  <2>13. DOMAIN D = Nat /\ DOMAIN V = Nat
    BY <1>2
  <2>14. Stacked(m, s, o, d + 1, kn2, Extended(b, d, c), Extended(g, d, f), Extended(D, d, t),
                 Extended(V, d, NoVars))
    BY <2>12, <2>13, PushStacked
  <2> QED
    BY <2>1, <2>2, <2>8, <2>14, <2>9, <2>10, <2>11
<1>11. /\ DOMAIN D2 = Nat /\ DOMAIN V2 = Nat /\ b2[Depth + 1] = rbp' /\ g2[Depth + 1] = pc.callee
       /\ V2[Depth + 1] = NoVars /\ V2[Depth] = V[Depth]
  <2>1. DOMAIN b = Nat /\ DOMAIN g = Nat /\ Depth \in Nat /\ Depth \in 1 .. Depth
    BY <1>3
  <2> HIDE DEF Depth
  <2>2. b2[Depth + 1] = rbp'
    BY <2>1, ExtendedAt
  <2>3. g2[Depth + 1] = pc.callee
    BY <2>1, ExtendedAt
  <2>4. DOMAIN D2 = Nat
    BY <1>2, <2>1, ExtendedAt
  <2>5. DOMAIN V2 = Nat /\ V2[Depth + 1] = NoVars /\ V2[Depth] = V[Depth]
    BY <1>2, <2>1, ExtendedAt
  <2> QED
    BY <2>2, <2>3, <2>4, <2>5
<1>12. pc'.fn = pc.callee
  BY <1>1
<1>13. Stands(b2, g2, D2, V2)'
  BY <1>1, <1>8, <1>10, <1>11, <1>12 DEF Stands, slots
<1> DEFINE n == Len(pc.actual)
           size(i) == Size[Params[pc.callee][i]]
<1>14. /\ n \in Nat /\ n = Len(Params[pc.callee]) /\ DOMAIN pc.actual = 1 .. n
       /\ DOMAIN Params[pc.callee] = 1 .. n /\ DOMAIN A2 = 1 .. n /\ ArgRegCount \in Nat
       /\ \A i \in 1 .. n : size(i) \in {4, 8}
  <2>1. n = Len(Params[pc.callee]) /\ DOMAIN pc.actual = DOMAIN Params[pc.callee]
    BY <1>1, <1>2 DEF AtCall, Calling
  <2>2. /\ Len(Params[pc.callee]) \in Nat /\ DOMAIN Params[pc.callee] = 1 .. Len(Params[pc.callee])
        /\ \A i \in DOMAIN Params[pc.callee] : Params[pc.callee][i] \in Pseudo
    BY <1>9, ParamsArePseudos
  <2> QED
    BY <2>1, <2>2, MachineAssumption, SlotsAssumption
<1>15. ASSUME NEW i \in 1 .. n
       PROVE  /\ A2[i] = Meant(pc.actual[i], V[Depth]) /\ A2[i] \in Hand(V[Depth], size(i))
              /\ Read(pc.actual[i], size(i)) = A2[i]
  <2>1. pc.actual[i] \in Operand(size(i)) /\ size(i) \in {4, 8}
    BY <1>2, <1>14 DEF Calling
  <2> HIDE DEF size
  <2> QED
    BY <1>2, <1>14, <2>1, ReadsAsMeant
<1>16. ASSUME NEW i \in 1 .. n
       PROVE  IF i <= ArgRegCount THEN args'[i] = A2[i]
              ELSE HoldsBytes(mem', rbp' + 16 + 8 * (i - 1 - ArgRegCount), size(i), A2[i])
  <2>1. CASE i <= ArgRegCount
    <3>1. i \in 1 .. n - StackCount(n)
      BY <1>14, <2>1 DEF StackCount
    <3> QED
      BY <1>1, <1>15, <2>1, <3>1
  <2>2. CASE ~(i <= ArgRegCount)
    <3>1. i > ArgRegCount + pc.left
      BY <1>1, <1>14, <2>2
    <3>2. HoldsBytes(mem, rsp + 8 * (i - 1 - ArgRegCount - 0), size(i), A2[i])
      BY <1>1, <1>2, <1>14, <1>15, <3>1 DEF Calling, PushedAt
    <3> DEFINE a == rsp + 8 * (i - 1 - ArgRegCount - 0)
    <3>3. a \in Int /\ a >= rsp /\ a = rbp' + 16 + 8 * (i - 1 - ArgRegCount)
      <4>1. PICK r \in Nat, s \in Int : r = ArgRegCount /\ s = rsp /\ rbp' = s - 16
        BY <1>3, <1>4, <1>14
      <4>2. i \in Nat /\ i > r
        BY <1>14, <2>2, <4>1
      <4>3. /\ s + 8 * (i - 1 - r - 0) \in Int /\ s + 8 * (i - 1 - r - 0) >= s
            /\ s + 8 * (i - 1 - r - 0) = (s - 16) + 16 + 8 * (i - 1 - r)
        BY <4>2
      <4> QED
        BY <4>1, <4>3
    <3>4. size(i) \in {4, 8} /\ HoldsBytes(mem, a, size(i), A2[i])
      BY <1>14, <3>2
    <3> HIDE DEF a, size
    <3>5. PICK z \in {4, 8} : z = size(i)
      BY <3>4
    <3>6. PICK w : w = A2[i]
      OBVIOUS
    <3>7. a \in Int /\ a >= rsp /\ rsp \in Int /\ KeepsFrom(mem, mem', rsp) /\ HoldsBytes(mem, a, z, w)
      BY <1>3, <1>4, <3>3, <3>4, <3>5, <3>6
    <3>8. HoldsBytes(mem', a, z, w)
      BY <3>7, KeepsHoldsBytes
    <3> QED
      BY <2>2, <3>3, <3>5, <3>6, <3>8
  <2> QED
    BY <2>1, <2>2
<1>17. PICK d \in Nat \ {0} : d = Depth /\ Depth' = d + 1
  BY <1>3, <1>8
<1>18. pc'.at = "params" => Receiving(A2, V2[d + 1], V2[d])'
  <2> SUFFICES ASSUME pc'.at = "params" PROVE Receiving(A2, V2[d + 1], V2[d])'
    OBVIOUS
  <2>1. pc'.next = 1 /\ pc'.fn = pc.callee
    BY <1>1
  <2>2. 1 .. 1 - 1 = {}
    OBVIOUS
  <2>3. Depth' > 1
    BY <1>17
  <2>4. DOMAIN A2 = DOMAIN Params[pc'.fn]
    BY <1>14, <2>1
  <2>5. \A i \in DOMAIN A2 : A2[i] \in Hand(V2[d], Size[Params[pc'.fn][i]])
    BY <1>11, <1>14, <1>15, <1>17, <2>1
  <2>6. \A i \in DOMAIN A2 : Arrived(i, A2[i])'
    BY <1>14, <1>16, <2>1 DEF Arrived
  <2>7. DOMAIN V2[d + 1] = {}
    BY <1>9, <1>11, <1>17
  <2> HIDE DEF Depth
  <2> QED
    BY <2>1, <2>2, <2>3, <2>4, <2>5, <2>6, <2>7 DEF Receiving
<1>19. Describes(b2, g2, D2, V2, A2)'
  <2>1. V2[Depth'] = V2[d + 1] /\ V2[Depth' - 1] = V2[d] /\ pc'.at # "call"
    BY <1>1, <1>17
  <2> HIDE DEF Depth
  <2> QED
    BY <1>13, <1>18, <2>1 DEF Describes
<1> QED
  BY <1>8, <1>14, <1>15, <1>19

\* The first n parameters of f have the values A in vs.
Filled(f, n, A, vs) == /\ DOMAIN vs = {Params[f][j] : j \in 1 .. n}
                       /\ \A j \in 1 .. n : vs[Params[f][j]] = A[j]

LEMMA MoveParamDescribes ==
  ASSUME MachineInv, NEW b, NEW g, NEW D, NEW V, NEW A, Describes(b, g, D, V, A), MoveParam,
         NEW V2, V2 = PutAt(V, Depth, Params[pc.fn][pc.next], A[pc.next])
  PROVE  /\ Describes(b, g, D, V2, A)' /\ Depth' = Depth /\ Depth > 1
         /\ \A k \in 1 .. Depth - 1 : V2[k] = V[k]
         /\ Filled(pc.fn, pc.next, A, V2[Depth])
<1>1. /\ pc.at = "params" /\ rbp' = rbp /\ UNCHANGED slots /\ args' = args /\ AtParams
      /\ pc' = IF pc.next = Len(Params[pc.fn]) THEN [at |-> "body", fn |-> pc.fn]
               ELSE [pc EXCEPT !.next = pc.next + 1]
  BY Shapes DEF MoveParam
<1>2. Stands(b, g, D, V) /\ InProgram /\ Receiving(A, V[Depth], V[Depth - 1])
  BY <1>1 DEF Describes, InProgram
<1>3. /\ rsp \in Int /\ rbp \in Int /\ Above(mem, rsp) /\ LayoutInv /\ Depth \in Nat \ {0}
      /\ Running(pc.fn) /\ known \in Seq(SUBSET Pseudo) /\ pc.fn \in Function /\ done = Function
      /\ DOMAIN mem \subseteq Int
  <2>1. Innermost(b, g, V)
    BY <1>2, InnermostStands
  <2> QED
    BY <1>2, <2>1 DEF Innermost, Above
<1>4. PICK p \in Pseudo, i \in Nat :
         /\ p = Params[pc.fn][i] /\ Owner[p] = pc.fn /\ Placed(p) /\ i = pc.next
         /\ i \in DOMAIN Params[pc.fn]
  <2>1. pc.next \in DOMAIN Params[pc.fn] /\ ParamsPlaced
    BY <1>1, Shapes DEF AtParams
  <2> QED
    BY <1>3, <2>1, ParamsArePseudos DEF ParamsPlaced
<1>5. DOMAIN Params[pc.fn] = 1 .. Len(Params[pc.fn]) /\ Len(Params[pc.fn]) \in Nat
      /\ \A j \in DOMAIN Params[pc.fn] : Params[pc.fn][j] \in Pseudo /\ Size[Params[pc.fn][j]] \in {4, 8}
  BY <1>3, ParamsArePseudos, SlotsAssumption
<1>6. PICK v : v = A[i]
  OBVIOUS
<1>7. Incoming(i) = v
  <2>1. i \in DOMAIN A /\ Arrived(i, v)
    BY <1>2, <1>4, <1>6 DEF Receiving
  <2>2. CASE i <= ArgRegCount
    BY <1>4, <2>1, <2>2 DEF Arrived, Incoming
  <2>3. CASE ~(i <= ArgRegCount)
    <3>1. PICK n \in {4, 8}, a \in Int :
             n = Size[Params[pc.fn][i]] /\ a = rbp + 16 + 8 * (i - 1 - ArgRegCount)
      <4>1. ArgRegCount \in Nat /\ Size[Params[pc.fn][i]] \in {4, 8}
        BY <1>4, <1>5, MachineAssumption
      <4>2. rbp + 16 + 8 * (i - 1 - ArgRegCount) \in Int
        BY <1>3, <1>4, <4>1
      <4> QED
        BY <4>1, <4>2
    <3>2. HoldsBytes(mem, a, n, v)
      BY <2>1, <2>3, <3>1 DEF Arrived
    <3> QED
      BY <2>3, <3>1, <3>2, LoadBytes DEF Incoming
  <2> QED
    BY <2>2, <2>3
<1>8. /\ mem' = Store(mem, rbp + offset[p], Size[p], v)
      /\ known' = [known EXCEPT ![Depth] = @ \cup {p}] /\ V2 = PutAt(V, Depth, p, v)
  BY <1>4, <1>6, <1>7 DEF MoveParam, Depth
<1>9. /\ Stacked(mem', stackSize, offset, Depth, known', b, g, D, V2) /\ DOMAIN V2 = Nat
      /\ KeepsFrom(mem, mem', rbp) /\ V2[Depth] = Put(V[Depth], p, v)
      /\ \A k \in 1 .. Depth - 1 : V2[k] = V[k]
  <2>1. PICK c \in Int : c = rbp - stackSize[pc.fn] /\ KeepsFrom(mem, mem, c)
    BY <1>3, FrameOfRunning DEF KeepsFrom
  <2>2. /\ c <= rbp - stackSize[pc.fn] /\ KeepsFrom(mem, mem, c) /\ DOMAIN mem \subseteq Int
        /\ Owner[p] = pc.fn /\ Placed(p)
    <3>1. rbp - stackSize[pc.fn] \in Int
      BY <1>3, FrameOfRunning
    <3> QED
      BY <1>3, <1>4, <2>1, <3>1
  <2> HIDE DEF Depth
  <2>3. /\ Stacked(Store(mem, rbp + offset[p], Size[p], v), stackSize, offset, Depth,
                   [known EXCEPT ![Depth] = @ \cup {p}], b, g, D, PutAt(V, Depth, p, v))
        /\ KeepsFrom(mem, Store(mem, rbp + offset[p], Size[p], v), rbp)
        /\ DOMAIN PutAt(V, Depth, p, v) = Nat
        /\ PutAt(V, Depth, p, v)[Depth] = Put(V[Depth], p, v)
        /\ \A k \in 1 .. Depth - 1 : PutAt(V, Depth, p, v)[k] = V[k]
    BY <1>2, <2>2, StoresForVariable
  <2> QED
    BY <1>8, <2>3
<1>10. Depth' = Depth /\ pc'.fn = pc.fn
  BY <1>1, <1>8 DEF Depth, AtParams
<1>11. Stands(b, g, D, V2)'
  BY <1>1, <1>2, <1>9, <1>10 DEF Stands, slots
<1>12. Filled(pc.fn, i, A, V2[Depth])
  <2>1. Filled(pc.fn, i - 1, A, V[Depth])
    BY <1>2, <1>4 DEF Receiving, Filled
  <2>2. 1 .. i = (1 .. i - 1) \cup {i} /\ i \in 1 .. i /\ 1 .. i \subseteq DOMAIN Params[pc.fn]
    BY <1>4, <1>5
  <2>3. DOMAIN V2[Depth] = {Params[pc.fn][j] : j \in 1 .. i}
    <3>1. DOMAIN V2[Depth] = DOMAIN V[Depth] \cup {p}
      BY <1>9 DEF Put
    <3>2. PICK P : P = Params[pc.fn]
      OBVIOUS
    <3>3. PICK S, S1 : S = 1 .. i /\ S1 = 1 .. i - 1
      OBVIOUS
    <3>4. S = S1 \cup {i} /\ p = P[i]
      BY <1>4, <2>2, <3>2, <3>3
    <3>5. {P[j] : j \in S} = {P[j] : j \in S1} \cup {p}
      BY <3>4
    <3>6. DOMAIN V[Depth] = {P[j] : j \in S1}
      BY <2>1, <3>2, <3>3 DEF Filled
    <3>7. DOMAIN V2[Depth] = {P[j] : j \in S}
      BY <3>1, <3>5, <3>6
    <3> QED
      BY <3>2, <3>3, <3>7
  <2>4. ASSUME NEW j \in 1 .. i PROVE V2[Depth][Params[pc.fn][j]] = A[j]
    <3>1. CASE j = i
      BY <1>4, <1>6, <1>9, <3>1 DEF Put
    <3>2. CASE j # i
      <4>1. j \in 1 .. i - 1
        BY <2>2, <3>2
      <4>2. Params[pc.fn][j] # p
        BY <1>3, <1>4, <2>2, <3>2, MachineAssumption
      <4>3. V[Depth][Params[pc.fn][j]] = A[j] /\ Params[pc.fn][j] \in DOMAIN V[Depth]
        BY <2>1, <4>1 DEF Filled
      <4> QED
        BY <1>9, <4>2, <4>3 DEF Put
    <3> QED
      BY <3>1, <3>2
  <2> QED
    BY <2>3, <2>4 DEF Filled
<1>13. PICK d \in Nat \ {0} : d = Depth /\ Depth' = d
  BY <1>3, <1>10
<1>14. ASSUME pc'.at = "params" PROVE Receiving(A, V2[d], V2[d - 1])'
  <2>1. pc' = [pc EXCEPT !.next = i + 1] /\ pc'.next = i + 1 /\ (i + 1) - 1 = i
    BY <1>1, <1>4, <1>14 DEF AtParams
  <2>2. Depth > 1 /\ DOMAIN A = DOMAIN Params[pc.fn]
        /\ \A j \in DOMAIN A : A[j] \in Hand(V[Depth - 1], Size[Params[pc.fn][j]]) /\ Arrived(j, A[j])
    BY <1>2 DEF Receiving
  <2>3. ASSUME NEW j \in DOMAIN A PROVE Arrived(j, A[j])'
    <3>1. CASE j <= ArgRegCount
      BY <1>1, <1>10, <2>2, <3>1 DEF Arrived
    <3>2. CASE ~(j <= ArgRegCount)
      <4>1. PICK n \in {4, 8}, a \in Int :
               /\ n = Size[Params[pc.fn][j]] /\ a = rbp + 16 + 8 * (j - 1 - ArgRegCount)
               /\ a >= rbp
        <5>1. j \in Nat /\ ArgRegCount \in Nat /\ Size[Params[pc.fn][j]] \in {4, 8}
          BY <1>5, <2>2, MachineAssumption
        <5>2. rbp + 16 + 8 * (j - 1 - ArgRegCount) \in Int /\ rbp + 16 + 8 * (j - 1 - ArgRegCount) >= rbp
          BY <1>3, <3>2, <5>1
        <5> QED
          BY <5>1, <5>2
      <4>2. HoldsBytes(mem, a, n, A[j])
        BY <2>2, <3>2, <4>1 DEF Arrived
      <4>3. HoldsBytes(mem', a, n, A[j])
        BY <1>3, <1>9, <4>1, <4>2, KeepsHoldsBytes
      <4> QED
        BY <1>1, <1>10, <3>2, <4>1, <4>3 DEF Arrived
    <3> QED
      BY <3>1, <3>2
  <2>4. V2[d - 1] = V[d - 1] /\ d > 1
    <3>1. d > 1 /\ d - 1 \in 1 .. d - 1
      BY <1>13, <2>2
    <3> QED
      BY <1>9, <1>13, <3>1
  <2>5. DOMAIN V2[d] = {Params[pc.fn][j] : j \in 1 .. i} /\ \A j \in 1 .. i : V2[d][Params[pc.fn][j]] = A[j]
    BY <1>12, <1>13 DEF Filled
  <2>6. \A j \in DOMAIN A : A[j] \in Hand(V2[d - 1], Size[Params[pc.fn][j]])
    BY <1>13, <2>2, <2>4
  <2>7. PICK f, us, ws : f = pc.fn /\ us = V2[d] /\ ws = V2[d - 1]
    OBVIOUS
  <2>8. pc'.fn = f /\ Depth' > 1 /\ pc'.next - 1 = i
    BY <1>10, <1>13, <2>1, <2>4, <2>7
  <2>9. DOMAIN A = DOMAIN Params[f] /\ \A j \in DOMAIN A : A[j] \in Hand(ws, Size[Params[f][j]])
    BY <2>2, <2>6, <2>7
  <2>10. DOMAIN us = {Params[f][j] : j \in 1 .. i} /\ \A j \in 1 .. i : us[Params[f][j]] = A[j]
    BY <2>5, <2>7
  <2> HIDE DEF Depth
  <2>11. /\ DOMAIN A = DOMAIN Params[pc'.fn]
         /\ \A j \in DOMAIN A : A[j] \in Hand(ws, Size[Params[pc'.fn][j]]) /\ Arrived(j, A[j])'
    BY <2>3, <2>8, <2>9
  <2>12. /\ DOMAIN us = {Params[pc'.fn][j] : j \in 1 .. pc'.next - 1}
         /\ \A j \in 1 .. pc'.next - 1 : us[Params[pc'.fn][j]] = A[j]
    BY <2>8, <2>10
  <2>13. Receiving(A, us, ws)'
    BY <2>8, <2>11, <2>12 DEF Receiving
  <2> QED
    BY <2>7, <2>13
<1>15. Describes(b, g, D, V2, A)'
  <2>1. pc'.at # "call"
    BY <1>1 DEF AtParams
  <2> HIDE DEF Depth
  <2> QED
    BY <1>11, <1>13, <1>14, <2>1 DEF Describes
<1>16. Depth > 1
  BY <1>2 DEF Receiving
<1> QED
  BY <1>4, <1>9, <1>10, <1>12, <1>15, <1>16

\* A return from the first activation ends the program.
LEMMA LastReturn ==
  ASSUME MachineInv, NEW b, NEW g, NEW D, NEW V, NEW A, Describes(b, g, D, V, A),
         NEW x, Return(x), Depth = 1
  PROVE  pc'.at = "exit" /\ Len(known') = 0
<1>1. Stands(b, g, D, V) /\ InProgram /\ rbp \in Int /\ known \in Seq(SUBSET Pseudo)
  <2>1. Innermost(b, g, V)
    BY InnermostStands DEF Describes, Return, InBody, InProgram
  <2> QED
    BY <2>1 DEF Innermost, Describes, Return, InBody, InProgram
<1>2. Holds(mem, rbp + 8, Exit) /\ rbp + 8 \in Int
  BY <1>1 DEF Stands, Stacked, Linked
<1>3. Load(mem, rbp + 8, 8) = Exit
  BY <1>2, LoadHeld
<1>4. pc'.at = "exit"
  BY <1>3 DEF Return, Exit, Code
<1>5. known' = SubSeq(known, 1, 0) /\ Len(known) = 1
  BY DEF Return, Depth
<1> QED
  BY <1>1, <1>4, <1>5

LEMMA ReturnDescribes ==
  ASSUME MachineInv, NEW b, NEW g, NEW D, NEW V, NEW A, Describes(b, g, D, V, A),
         NEW x, Return(x), NEW d \in Nat \ {0}, Depth = d + 1
  PROVE  /\ Describes(b, g, D, V, A)' /\ Depth' = d
         /\ pc'.at = "after" /\ pc'.dst = D[d + 1] /\ Waits(D[d + 1], g[d], g[d + 1])
         /\ IF ReturnSize[pc.fn] = 0 THEN x = None
            ELSE rax' = Meant(x, V[d + 1]) /\ rax' \in Hand(V[d + 1], ReturnSize[pc.fn])
<1>1. /\ pc.at = "body" /\ UNCHANGED slots /\ mem' = KeptFrom(mem, rbp + 16)
      /\ rbp' = Load(mem, rbp, 8)[2] /\ pc' = Load(mem, rbp + 8, 8)[2]
      /\ known' = SubSeq(known, 1, d)
      /\ IF ReturnSize[pc.fn] = 0 THEN x = None
         ELSE x \in Operand(ReturnSize[pc.fn]) /\ rax' = Read(x, ReturnSize[pc.fn])
  BY DEF Return, InBody, Depth
<1>2. Stands(b, g, D, V) /\ InProgram
  BY <1>1 DEF Describes, InProgram
<1>3. /\ rbp \in Int /\ Above(mem, rsp) /\ LayoutInv /\ Running(pc.fn) /\ known \in Seq(SUBSET Pseudo)
      /\ pc.fn \in Function /\ DOMAIN mem \subseteq Int /\ Framed(stackSize, offset)
      /\ stackSize \in [Function -> Nat] /\ b \in [Nat -> Int] /\ g \in [Nat -> Function]
      /\ b[d + 1] = rbp /\ g[d + 1] = pc.fn
  <2>1. Innermost(b, g, V)
    BY <1>2, InnermostStands
  <2> QED
    BY <1>2, <2>1 DEF Innermost, Above
<1>4. /\ Stacked(mem, stackSize, offset, d + 1, known, b, g, D, V)
      /\ DOMAIN D = Nat /\ DOMAIN V = Nat
  BY <1>2 DEF Stands
<1>5. d \in 1 .. (d + 1) - 1 /\ d + 1 > 1 /\ (d + 1) - 1 = d /\ d + 1 \in Nat /\ d \in 1 .. d + 1
  OBVIOUS
<1>6. Called(mem, stackSize, offset, rbp, b[d], g[d])
      /\ CalledFor(mem, stackSize, rbp, b[d], g[d], g[d + 1], D[d + 1])
  BY <1>3, <1>4, <1>5 DEF Stacked, Linked
<1>7. rbp' = b[d]
  <2>1. Holds(mem, rbp, Saved(b[d]))
    BY <1>6 DEF Called
  <2>2. Load(mem, rbp, 8) = Saved(b[d])
    BY <1>3, <2>1, LoadHeld
  <2> QED
    BY <1>1, <2>2 DEF Saved
<1>8. PICK n \in Nat : /\ Holds(mem, rbp + 8, Code(Resumed(g[d], D[d + 1], n)))
                       /\ rbp + 16 + n = b[d] - stackSize[g[d]]
  BY <1>6 DEF CalledFor
<1>9. pc' = Resumed(g[d], D[d + 1], n)
  <2>1. rbp + 8 \in Int
    BY <1>3
  <2>2. Load(mem, rbp + 8, 8) = Code(Resumed(g[d], D[d + 1], n))
    BY <1>8, <2>1, LoadHeld
  <2> QED
    BY <1>1, <2>2 DEF Code
<1>10. pc'.at = "after" /\ pc'.fn = g[d] /\ pc'.dst = D[d + 1]
  BY <1>9 DEF Resumed
<1>11. Len(known') = d /\ Depth' = d /\ \A k \in 1 .. d : known'[k] = known[k]
  <2>1. Len(known) = d + 1
    BY DEF Depth
  <2> QED
    BY <1>1, <1>3, <2>1 DEF Depth
<1>12. Stacked(mem, stackSize, offset, d, known', b, g, D, V)
  <2>1. Stacked(mem, stackSize, offset, (d + 1) - 1, known', b, g, D, V)
    BY <1>3, <1>4, <1>5, <1>11, PopStacked
  <2> QED
    BY <1>5, <2>1
<1>13. PICK c \in Int : c = rbp + 16
  BY <1>3
<1>14. KeepsFrom(mem, mem', c)
  BY <1>1, <1>3, <1>13, KeptFromKeeps
<1>15. b[d] \in Int /\ g[d] \in Function /\ c <= b[d] - stackSize[g[d]] /\ c <= b[d]
  <2>1. b[d] \in Int /\ g[d] \in Function
    BY <1>3
  <2>2. PICK w \in Nat, e \in Int : w = stackSize[g[d]] /\ e = b[d]
    BY <1>3, <2>1
  <2>3. c + n = e - w
    BY <1>8, <1>13, <2>2
  <2>4. c <= e - w /\ c <= e
    BY <2>3
  <2> QED
    BY <2>1, <2>2, <2>4
<1>16. KeepsFrom(mem, mem', b[d])
  BY <1>3, <1>14, <1>15, KeepsFromHigher
<1>17. InSlots(mem', offset, b[d], g[d], V[d]) /\ DOMAIN V[d] = known'[d]
  <2>1. InSlots(mem, offset, b[d], g[d], V[d]) /\ DOMAIN V[d] = known'[d]
    BY <1>12 DEF Stacked
  <2> QED
    BY <1>3, <1>14, <1>15, <2>1, KeepsInSlots
<1>18. Stacked(mem', stackSize, offset, d, known', b, g, D, V)
  <2>1. \A k \in 1 .. d - 1 : known'[k] = known'[k] /\ V[k] = V[k]
    OBVIOUS
  <2> QED
    BY <1>3, <1>12, <1>16, <1>17, <2>1, ChangeTop
<1>19. Stands(b, g, D, V)'
  BY <1>1, <1>4, <1>7, <1>10, <1>11, <1>18 DEF Stands, slots
<1>20. Describes(b, g, D, V, A)'
  BY <1>10, <1>19 DEF Describes
<1>21. ASSUME ReturnSize[pc.fn] # 0
       PROVE  rax' = Meant(x, V[d + 1]) /\ rax' \in Hand(V[d + 1], ReturnSize[pc.fn])
  <2>1. ReturnSize[pc.fn] \in {4, 8}
    <3>1. ReturnSize \in [Function -> {0, 4, 8}]
      BY MachineAssumption
    <3> QED
      BY <1>3, <1>21, <3>1
  <2>2. x \in Operand(ReturnSize[pc.fn])
    BY <1>1, <1>21
  <2>3. Read(x, ReturnSize[pc.fn]) = Meant(x, V[Depth])
        /\ Meant(x, V[Depth]) \in Hand(V[Depth], ReturnSize[pc.fn])
    BY <1>2, <2>1, <2>2, ReadsAsMeant
  <2> QED
    BY <1>1, <1>21, <2>3
<1> QED
  BY <1>1, <1>6, <1>10, <1>11, <1>20, <1>21 DEF CalledFor

LEMMA AfterCallDescribes ==
  ASSUME MachineInv, NEW b, NEW g, NEW D, NEW V, NEW A, Describes(b, g, D, V, A), AfterCall,
         NEW V2, V2 = IF pc.dst = None THEN V ELSE PutAt(V, Depth, pc.dst, rax)
  PROVE  Describes(b, g, D, V2, A)' /\ Depth' = Depth
<1>1. /\ pc.at = "after" /\ UNCHANGED slots /\ rbp' = rbp /\ pc' = [at |-> "body", fn |-> pc.fn]
      /\ rsp' = rsp + pc.pushed /\ AtAfter
  BY Shapes DEF AfterCall
<1>2. Stands(b, g, D, V) /\ InProgram
  BY <1>1 DEF Describes, InProgram
<1>3. /\ rbp \in Int /\ rsp \in Int /\ LayoutInv /\ Running(pc.fn) /\ known \in Seq(SUBSET Pseudo)
      /\ DOMAIN mem \subseteq Int /\ Depth \in Nat \ {0} /\ stackSize[pc.fn] \in Nat
  <2>1. Innermost(b, g, V)
    BY <1>2, InnermostStands
  <2> QED
    BY <1>2, <2>1, FrameOfRunning DEF Innermost, Above
<1>4. PICK c \in Int : c = rsp' /\ c <= rbp - stackSize[pc.fn]
  <2>1. rsp + pc.pushed = rbp - stackSize[pc.fn]
    BY <1>1 DEF AtAfter
  <2> QED
    BY <1>1, <1>3, <2>1
<1>5. PICK m : m = KeptFrom(mem, c)
  OBVIOUS
<1>6. KeepsFrom(mem, m, c) /\ DOMAIN m \subseteq Int
  BY <1>3, <1>5, KeptFromKeeps DEF Above
<1>7. IF pc.dst = None THEN mem' = m /\ known' = known
      ELSE /\ mem' = Store(m, rbp + offset[pc.dst], Size[pc.dst], rax)
           /\ known' = [known EXCEPT ![Depth] = @ \cup {pc.dst}]
  BY <1>4, <1>5 DEF AfterCall, Depth
<1>8. Stacked(mem', stackSize, offset, Depth, known', b, g, D, V2) /\ DOMAIN V2 = Nat
  <2>1. CASE pc.dst = None
    <3>1. mem' = m /\ known' = known /\ V2 = V
      BY <1>7, <2>1
    <3>2. Stacked(mem', stackSize, offset, Depth, known, b, g, D, V)
      BY <1>2, <1>4, <1>6, <3>1, StandsWhereKept
    <3> QED
      BY <1>2, <3>1, <3>2 DEF Stands
  <2>2. CASE pc.dst # None
    <3>1. PICK p \in Pseudo : p = pc.dst /\ Owner[p] = pc.fn /\ Placed(p)
      BY <1>1, <2>2 DEF AtAfter, MayWait, Placed
    <3>2. PICK v : v = rax
      OBVIOUS
    <3>3. /\ Stacked(Store(m, rbp + offset[p], Size[p], v), stackSize, offset, Depth,
                     [known EXCEPT ![Depth] = @ \cup {p}], b, g, D, PutAt(V, Depth, p, v))
          /\ DOMAIN PutAt(V, Depth, p, v) = Nat
      BY <1>2, <1>4, <1>6, <3>1, StoresForVariable
    <3> QED
      BY <1>7, <2>2, <3>1, <3>2, <3>3
  <2> QED
    BY <2>1, <2>2
<1>9. Depth' = Depth /\ pc'.fn = pc.fn /\ pc'.at = "body"
  BY <1>1, <1>7 DEF Depth
<1>10. Stands(b, g, D, V2)'
  BY <1>1, <1>2, <1>8, <1>9 DEF Stands, slots
<1> QED
  BY <1>9, <1>10 DEF Describes

-----------------------------------------------------------------------------
(* The refinement: what the machine's memory is read as.                   *)

\* The innermost e activations the stack stands for.
ActsOf(g, D, V, e) == [k \in 1 .. e |-> [fn |-> g[k], vars |-> V[k], dst |-> D[k]]]

\* The bases that the saved ones lead to.
LEMMA BaseIs ==
  ASSUME NEW d \in Nat \ {0}, Len(known) = d, NEW b \in [Nat -> Int], b[d] = rbp,
         \A k \in 1 .. d - 1 : Load(mem, b[k + 1], 8)[2] = b[k]
  PROVE  \A k \in 1 .. d : Base(k) = b[k]
<1> DEFINE Up[n \in 0 .. Len(known)] == IF n = 0 THEN rbp ELSE Load(mem, Up[n - 1], 8)[2]
<1> DEFINE W == [n \in 0 .. d |-> IF n < d THEN b[d - n] ELSE Load(mem, b[1], 8)[2]]
<1>1. W = [n \in 0 .. d |-> IF n = 0 THEN rbp ELSE Load(mem, W[n - 1], 8)[2]]
  <2>1. ASSUME NEW n \in 0 .. d
        PROVE  W[n] = IF n = 0 THEN rbp ELSE Load(mem, W[n - 1], 8)[2]
    <3>1. CASE n = 0
      BY <3>1
    <3>2. CASE n # 0 /\ n < d
      <4>1. n - 1 \in 0 .. d /\ n - 1 < d /\ d - (n - 1) = (d - n) + 1 /\ d - n \in 1 .. d - 1
        BY <3>2
      <4>2. W[n] = b[d - n] /\ W[n - 1] = b[(d - n) + 1]
        BY <3>2, <4>1
      <4> QED
        BY <3>2, <4>1, <4>2
    <3>3. CASE n = d
      <4>1. n - 1 \in 0 .. d /\ n - 1 < d /\ d - (n - 1) = 1 /\ n # 0
        BY <3>3
      <4>2. W[n] = Load(mem, b[1], 8)[2] /\ W[n - 1] = b[1]
        BY <3>3, <4>1
      <4> QED
        BY <4>1, <4>2
    <3> QED
      BY <3>1, <3>2, <3>3
  <2>2. DOMAIN W = 0 .. d
    OBVIOUS
  <2> HIDE DEF W
  <2> QED
    BY <2>1, <2>2 DEF W
<1> HIDE DEF W
<1>2. Up = [n \in 0 .. d |-> IF n = 0 THEN rbp ELSE Load(mem, Up[n - 1], 8)[2]]
  BY <1>1, Zenon
<1>3. ASSUME NEW k \in 1 .. d PROVE Base(k) = Up[d - k]
  BY DEF Base
<1> HIDE DEF Up
<1>4. \A n \in 0 .. d - 1 : Up[n] = b[d - n]
  <2> DEFINE T == {n \in 0 .. d - 1 : Up[n] # b[d - n]}
  <2>1. ASSUME T # {} PROVE FALSE
    <3>1. PICK n \in T : \A i \in T : n <= i
      <4>1. T \subseteq Nat
        OBVIOUS
      <4> HIDE DEF T
      <4> DEFINE R == OpToRel(<, Nat)
      <4>2. PICK n \in T : \A i \in T : ~(<< i, n >> \in R)
        BY <2>1, <4>1, NatLessThanWellFounded, WFMin, Zenon
      <4>3. \A p, q \in Nat : p < q => << p, q >> \in R
        BY DEF OpToRel
      <4> HIDE DEF R
      <4>4. \A i \in T : i \in Nat /\ n \in Nat /\ ~(i < n)
        BY <4>1, <4>2, <4>3
      <4> QED
        BY <4>4
    <3>2. n \in 0 .. d - 1 /\ Up[n] # b[d - n] /\ n \in 0 .. d
      OBVIOUS
    <3>3. n # 0
      BY <1>2, <3>2
    <3>4. n - 1 \in 0 .. d - 1 /\ n - 1 \notin T /\ d - n \in 1 .. d - 1 /\ d - (n - 1) = (d - n) + 1
      BY <3>1, <3>2, <3>3
    <3>5. Up[n - 1] = b[(d - n) + 1]
      BY <3>4
    <3>6. Up[n] = Load(mem, Up[n - 1], 8)[2]
      BY <1>2, <3>2, <3>3
    <3> QED
      BY <3>2, <3>4, <3>5, <3>6
  <2> QED
    BY <2>1
<1>5. ASSUME NEW k \in 1 .. d PROVE Base(k) = b[k]
  <2>1. d - k \in 0 .. d - 1 /\ d - (d - k) = k
    OBVIOUS
  <2> QED
    BY <1>3, <1>4, <2>1
<1> QED
  BY <1>5

\* The refinement mapping reads what the stack stands for.
Mapped == \A b, g, D, V, A :
              MachineInv /\ InProgram /\ Describes(b, g, D, V, A) => Acts = ActsOf(g, D, V, Entered)

LEMMA Mapping == Mapped
<1> SUFFICES ASSUME NEW b, NEW g, NEW D, NEW V, NEW A, MachineInv, InProgram,
                    Describes(b, g, D, V, A)
             PROVE  Acts = ActsOf(g, D, V, Entered)
  BY DEF Mapped
<1>1. Stands(b, g, D, V)
  BY DEF Describes
<1>2. PICK d \in Nat \ {0} : d = Depth
  <2>1. Innermost(b, g, V)
    BY <1>1, InnermostStands
  <2> QED
    BY <1>1, <2>1 DEF Innermost
<1>3. /\ b \in [Nat -> Int] /\ g \in [Nat -> Function] /\ b[d] = rbp /\ g[d] = pc.fn
      /\ Len(known) = d /\ LayoutInv
      /\ Stacked(mem, stackSize, offset, d, known, b, g, D, V)
  <2>1. Innermost(b, g, V)
    BY <1>1, <1>2, InnermostStands DEF Stands
  <2> QED
    BY <1>1, <1>2, <2>1 DEF Innermost, Stands, Depth
<1>4. ASSUME NEW k \in 1 .. d - 1
      PROVE  /\ Load(mem, b[k + 1], 8)[2] = b[k]
             /\ Load(mem, b[k + 1] + 8, 8)[2].fn = g[k]
             /\ Load(mem, b[k + 1] + 8, 8)[2].dst = D[k + 1]
  <2>1. b[k + 1] \in Int /\ b[k + 1] + 8 \in Int
    BY <1>3
  <2>2. Called(mem, stackSize, offset, b[k + 1], b[k], g[k])
        /\ CalledFor(mem, stackSize, b[k + 1], b[k], g[k], g[k + 1], D[k + 1])
    BY <1>3 DEF Stacked, Linked
  <2>3. Load(mem, b[k + 1], 8) = Saved(b[k])
    BY <2>1, <2>2, LoadHeld DEF Called
  <2>4. PICK n \in Nat : Holds(mem, b[k + 1] + 8, Code(Resumed(g[k], D[k + 1], n)))
    BY <2>2 DEF CalledFor
  <2>5. Load(mem, b[k + 1] + 8, 8) = Code(Resumed(g[k], D[k + 1], n))
    BY <2>1, <2>4, LoadHeld
  <2> QED
    BY <2>3, <2>5 DEF Saved, Code, Resumed
<1>5. \A k \in 1 .. d : Base(k) = b[k]
  BY <1>3, <1>4, BaseIs
<1>6. ASSUME NEW k \in 1 .. d
      PROVE  Activation(k) = [fn |-> g[k], vars |-> V[k], dst |-> D[k]]
  <2>1. FunctionOf(k) = g[k]
    <3>1. CASE k = d
      BY <1>3, <3>1 DEF FunctionOf
    <3>2. CASE k # d
      <4>1. k \in 1 .. d - 1 /\ k + 1 \in 1 .. d
        BY <3>2
      <4> QED
        BY <1>3, <1>4, <1>5, <3>2, <4>1 DEF FunctionOf, ReturnTo
    <3> QED
      BY <3>1, <3>2
  <2>2. (IF k = 1 THEN None ELSE ReturnTo(k)[2].dst) = D[k]
    <3>1. CASE k = 1
      BY <1>3, <3>1 DEF Stacked
    <3>2. CASE k # 1
      <4>1. k - 1 \in 1 .. d - 1 /\ (k - 1) + 1 = k
        BY <3>2
      <4>2. Load(mem, b[k] + 8, 8)[2].dst = D[k]
        BY <1>4, <4>1
      <4> QED
        BY <1>5, <3>2, <4>2 DEF ReturnTo
    <3> QED
      BY <3>1, <3>2
  <2>3. [p \in known[k] |-> Load(mem, Base(k) + offset[p], Size[p])] = V[k]
    <3>1. DOMAIN V[k] = known[k] /\ InSlots(mem, offset, b[k], g[k], V[k]) /\ b[k] \in Int
      BY <1>3 DEF Stacked
    <3>2. ASSUME NEW p \in known[k] PROVE Load(mem, Base(k) + offset[p], Size[p]) = V[k][p]
      <4>1. p \in Pseudo /\ HoldsBytes(mem, b[k] + offset[p], Size[p], V[k][p])
        BY <3>1 DEF InSlots
      <4>2. Size[p] \in {4, 8} /\ b[k] + offset[p] \in Int
        <5>1. offset \in [Pseudo -> Int] /\ Size \in [Pseudo -> {4, 8}]
          BY <1>3, SlotsAssumption DEF LayoutInv, SlotsTypeOK
        <5> QED
          BY <3>1, <4>1, <5>1
      <4> QED
        BY <1>5, <4>1, <4>2, LoadBytes
    <3> QED
      BY <3>1, <3>2 DEF InSlots
  <2> QED
    BY <2>1, <2>2, <2>3 DEF Activation
<1>7. Entered \in 0 .. d
  BY <1>3 DEF Entered
<1>8. pc.at # "start"
  BY DEF InProgram
<1> QED
  BY <1>6, <1>7, <1>8 DEF Acts, ActsOf

LEMMA MappedNext == Mapped'
BY Mapping, PTL

\* The invariant of the refinement.
LEMMA InitCallsInv == Init => CallsInv
BY DEF Init, MachineInit, CallsInv, InProgram

\* The running activation and the values it has at hand are what the stack says.
LEMMA RunningIs ==
  ASSUME NEW g, NEW D, NEW V, NEW d \in Nat \ {0}, Acts = ActsOf(g, D, V, d)
  PROVE  /\ Len(Acts) = d /\ Acts # << >>
         /\ Source!Running = [fn |-> g[d], vars |-> V[d], dst |-> D[d]]
         /\ \A size : Source!Values(size) = Hand(V[d], size)
<1>1. Len(Acts) = d /\ Acts # << >>
  BY DEF ActsOf
<1>2. Source!Running = [fn |-> g[d], vars |-> V[d], dst |-> D[d]]
  BY <1>1 DEF ActsOf, Source!Running
<1>3. ASSUME NEW size PROVE Source!Values(size) = Hand(V[d], size)
  BY <1>2 DEF Source!Values, Source!ValueOf, Hand, ValueOf
<1> QED
  BY <1>1, <1>2, <1>3

LEMMA WithPut ==
  ASSUME NEW f, NEW vs, NEW dst, NEW p, NEW v
  PROVE  Source!With([fn |-> f, vars |-> vs, dst |-> dst], p, v)
            = [fn |-> f, vars |-> Put(vs, p, v), dst |-> dst]
BY DEF Source!With, Put

LEMMA WithIs ==
  ASSUME NEW g, NEW D, NEW V, DOMAIN V = Nat, NEW d \in Nat \ {0}, NEW p, NEW v
  PROVE  ActsOf(g, D, PutAt(V, d, p, v), d)
            = [ActsOf(g, D, V, d) EXCEPT ![d] = Source!With(ActsOf(g, D, V, d)[d], p, v)]
<1> DEFINE a == ActsOf(g, D, V, d)
           V2 == PutAt(V, d, p, v)
           new == Source!With(a[d], p, v)
<1>1. /\ a = [k \in 1 .. d |-> [fn |-> g[k], vars |-> V[k], dst |-> D[k]]]
      /\ a[d] = [fn |-> g[d], vars |-> V[d], dst |-> D[d]]
  BY DEF ActsOf
<1>2. V2[d] = Put(V[d], p, v) /\ \A k \in 1 .. d : k # d => V2[k] = V[k]
  BY DEF PutAt
<1>3. new = [fn |-> g[d], vars |-> Put(V[d], p, v), dst |-> D[d]]
  BY <1>1, WithPut
<1> HIDE DEF V2, new
<1>4. [k \in 1 .. d |-> [fn |-> g[k], vars |-> V2[k], dst |-> D[k]]] = [a EXCEPT ![d] = new]
  BY <1>1, <1>2, <1>3
<1> QED
  BY <1>4 DEF V2, new, ActsOf

LEMMA AssignSimulates ==
  ASSUME MachineInv, CallsInv, NEW p \in Pseudo, NEW x, Assign(p, x)
  PROVE  CallsInv' /\ Source!Next
<1>1. /\ pc.at = "body" /\ pc' = pc /\ InProgram /\ InProgram' /\ MachineInv'
      /\ Owner[p] = pc.fn /\ x \in Operand(Size[p])
  BY AssignKeeps DEF Assign, InBody, InProgram
<1>2. PICK b, g, D, V, A : Describes(b, g, D, V, A)
  BY <1>1 DEF CallsInv
<1>3. PICK d \in Nat \ {0} : d = Depth
  <2>1. Innermost(b, g, V)
    BY <1>1, <1>2, InnermostStands DEF Describes
  <2> QED
    BY <1>1, <1>2, <2>1 DEF Innermost, Describes
<1>4. PICK v : v = Meant(x, V[d])
  OBVIOUS
<1>5. PICK V2 : V2 = PutAt(V, d, p, v)
  OBVIOUS
<1>6. Describes(b, g, D, V2, A)' /\ Depth' = Depth /\ v \in Hand(V[d], Size[p])
  BY <1>2, <1>3, <1>4, <1>5, AssignDescribes
<1>7. Entered = d /\ Entered' = d /\ g[d] = pc.fn /\ DOMAIN V = Nat
  BY <1>1, <1>2, <1>3, <1>6 DEF Entered, Depth, Describes, Stands
<1>8. Acts = ActsOf(g, D, V, d) /\ Acts' = ActsOf(g, D, V2, d)
  BY <1>1, <1>2, <1>6, <1>7, Mapping, MappedNext DEF Mapped
<1>9. Result = << >> /\ Result' = << >>
  BY <1>1 DEF Result
<1>10. /\ Len(Acts) = d /\ Acts # << >>
       /\ Source!Running = [fn |-> g[d], vars |-> V[d], dst |-> D[d]]
       /\ Source!Values(Size[p]) = Hand(V[d], Size[p])
  BY <1>8, RunningIs
<1>11. Source!Running = Acts[d] /\ Acts' = [Acts EXCEPT ![d] = Source!With(Acts[d], p, v)]
  BY <1>5, <1>7, <1>8, <1>10, WithIs DEF Source!Running
<1>12. Source!Assign(p, v)
  <2>1. Owner[p] = Source!Running.fn
    BY <1>1, <1>7, <1>10
  <2>2. Acts' = [Acts EXCEPT ![Len(Acts)] = Source!With(Source!Running, p, v)]
    BY <1>10, <1>11
  <2> QED
    BY <1>9, <2>1, <2>2 DEF Source!Assign
<1>13. Source!RunningStep
  <2>1. Size[p] \in {4, 8}
    BY SlotsAssumption
  <2>2. v \in [size \in {4, 8} |-> Source!Values(size)][Size[p]]
    BY <1>6, <1>10, <2>1
  <2> QED
    BY <1>12, <2>2 DEF Source!RunningStep
<1>14. CallsInv'
  BY <1>1, <1>6 DEF CallsInv
<1> QED
  BY <1>9, <1>10, <1>13, <1>14 DEF Source!Next, Source!Runs

\* A callee that has its parameters has been called, as far as the promise goes.
LEMMA CallSimulates ==
  ASSUME NEW g, NEW D, NEW V, NEW d \in Nat \ {0}, Acts = ActsOf(g, D, V, d), Result = << >>,
         NEW g2, NEW D2, NEW V2, Acts' = ActsOf(g2, D2, V2, d + 1), Result' = << >>,
         \A k \in 1 .. d : g2[k] = g[k] /\ D2[k] = D[k] /\ V2[k] = V[k],
         NEW h \in Function, h = g2[d + 1], NEW dst \in Pseudo \cup {None}, dst = D2[d + 1],
         Waits(dst, g[d], h), NEW A, DOMAIN A = DOMAIN Params[h],
         \A i \in DOMAIN A : A[i] \in Hand(V[d], Size[Params[h][i]]),
         NEW vs, vs = V2[d + 1], vs = [p \in DOMAIN vs |-> vs[p]], Filled(h, Len(Params[h]), A, vs)
  PROVE  Source!Next
<1>1. /\ Len(Acts) = d /\ Acts # << >>
      /\ Source!Running = [fn |-> g[d], vars |-> V[d], dst |-> D[d]]
      /\ \A size : Source!Values(size) = Hand(V[d], size)
  BY RunningIs
<1> DEFINE a == [i \in DOMAIN Params[h] |-> A[i]]
           n == Len(Params[h])
           values == [size \in {4, 8} |-> Source!Values(size)]
<1>2. /\ n \in Nat /\ DOMAIN Params[h] = 1 .. n /\ DOMAIN a = 1 .. n
      /\ \A i \in 1 .. n : a[i] = A[i] /\ Params[h][i] \in Pseudo /\ Size[Params[h][i]] \in {4, 8}
  BY ParamsArePseudos, SlotsAssumption
<1>3. a \in {c \in [DOMAIN Params[h] -> values[4] \cup values[8]] :
                \A i \in DOMAIN c : c[i] \in values[Size[Params[h][i]]]}
  <2>1. \A i \in DOMAIN a : a[i] \in values[Size[Params[h][i]]]
    BY <1>1, <1>2
  <2>2. \A i \in DOMAIN a : a[i] \in values[4] \cup values[8]
    BY <1>2, <2>1
  <2> HIDE DEF values
  <2> QED
    BY <1>2, <2>1, <2>2
<1>4. vs = [v \in {Params[h][i] : i \in DOMAIN a} |-> a[CHOOSE i \in DOMAIN a : Params[h][i] = v]]
  <2>1. DOMAIN vs = {Params[h][i] : i \in DOMAIN a}
    BY <1>2 DEF Filled
  <2>2. ASSUME NEW v \in DOMAIN vs PROVE vs[v] = a[CHOOSE i \in DOMAIN a : Params[h][i] = v]
    <3>1. PICK i : i = CHOOSE j \in DOMAIN a : Params[h][j] = v
      OBVIOUS
    <3>2. i \in 1 .. n /\ Params[h][i] = v
      BY <1>2, <2>1, <3>1
    <3>3. vs[Params[h][i]] = A[i]
      BY <3>2 DEF Filled
    <3> QED
      BY <1>2, <3>1, <3>2, <3>3
  <2>3. PICK S : S = {Params[h][i] : i \in DOMAIN a} /\ DOMAIN vs = S /\ vs = [v \in S |-> vs[v]]
    BY <2>1
  <2> DEFINE at(v) == a[CHOOSE i \in DOMAIN a : Params[h][i] = v]
  <2>4. \A v \in S : vs[v] = at(v)
    BY <2>2, <2>3
  <2> HIDE DEF a, at
  <2>5. vs = [v \in S |-> at(v)]
    BY <2>3, <2>4
  <2>6. vs = [v \in {Params[h][i] : i \in DOMAIN a} |-> at(v)]
    BY <2>3, <2>5
  <2> QED
    BY <2>6 DEF at
<1>5. Acts' = Append(Acts, [fn |-> h, dst |-> dst, vars |-> vs])
  <2>1. Acts = [k \in 1 .. d |-> [fn |-> g[k], vars |-> V[k], dst |-> D[k]]]
    BY DEF ActsOf
  <2>2. Acts' = [k \in 1 .. d + 1 |-> [fn |-> g2[k], vars |-> V2[k], dst |-> D2[k]]]
    BY DEF ActsOf
  <2>3. PICK e : e = [fn |-> h, dst |-> dst, vars |-> vs]
    OBVIOUS
  <2>4. ASSUME NEW k \in 1 .. d PROVE Acts'[k] = Acts[k]
    <3>1. k \in 1 .. d + 1
      OBVIOUS
    <3>2. Acts[k] = [fn |-> g[k], vars |-> V[k], dst |-> D[k]]
      BY <2>1
    <3>3. Acts'[k] = [fn |-> g2[k], vars |-> V2[k], dst |-> D2[k]]
      BY <2>2, <3>1
    <3>4. g2[k] = g[k] /\ D2[k] = D[k] /\ V2[k] = V[k]
      OBVIOUS
    <3> QED
      BY <3>2, <3>3, <3>4
  <2>5. Acts'[d + 1] = e
    BY <2>2, <2>3
  <2>6. PICK s : s = Acts /\ DOMAIN s = 1 .. d /\ Len(s) = d /\ s = [k \in 1 .. d |-> s[k]]
    BY <1>1, <2>1
  <2>7. PICK s2 : s2 = Acts' /\ DOMAIN s2 = 1 .. d + 1 /\ s2 = [k \in 1 .. d + 1 |-> s2[k]]
    BY <2>2
  <2>8. Append(s, e) = [k \in 1 .. d + 1 |-> IF k = d + 1 THEN e ELSE s[k]]
    <3>1. s \in Seq({s[k] : k \in 1 .. d})
      BY <2>6
    <3> QED
      BY <2>6, <3>1
  <2>9. s2 = [k \in 1 .. d + 1 |-> IF k = d + 1 THEN e ELSE s[k]]
    <3>1. ASSUME NEW k \in 1 .. d + 1 PROVE s2[k] = IF k = d + 1 THEN e ELSE s[k]
      <4>1. CASE k = d + 1
        BY <2>5, <2>7, <4>1
      <4>2. CASE k # d + 1
        <5>1. k \in 1 .. d
          BY <4>2
        <5> QED
          BY <2>4, <2>6, <2>7, <4>2, <5>1
      <4> QED
        BY <4>1, <4>2
    <3>2. s2 = [k \in 1 .. d + 1 |-> s2[k]]
      BY <2>7
    <3> QED
      BY <3>1, <3>2
  <2> QED
    BY <2>3, <2>6, <2>7, <2>8, <2>9
<1>6. IF ReturnSize[h] = 0 THEN dst = None
      ELSE dst # None /\ Owner[dst] = Source!Running.fn /\ Size[dst] = ReturnSize[h]
  BY <1>1, SlotsAssumption DEF Waits
<1>7. Source!Call(h, a, dst)
  BY <1>4, <1>5, <1>6 DEF Source!Call
<1>8. Source!RunningStep
  <2> HIDE DEF a
  <2> QED
    BY <1>3, <1>7 DEF Source!RunningStep
<1> QED
  BY <1>1, <1>8 DEF Source!Next, Source!Runs

Simulated == CallsInv' /\ (Source!Next \/ UNCHANGED << Acts, Result >>)

\* The steps within a call are no steps of the promise.
LEMMA StaysMapped ==
  ASSUME MachineInv, MachineInv', InProgram, InProgram', NEW b, NEW g, NEW D, NEW V, NEW A,
         Describes(b, g, D, V, A), NEW b2, NEW g2, NEW D2, NEW V2, NEW A2,
         Describes(b2, g2, D2, V2, A2)', NEW e, e = Entered, Entered' = e,
         \A k \in 1 .. e : g2[k] = g[k] /\ D2[k] = D[k] /\ V2[k] = V[k],
         pc.at # "after", pc'.at # "after"
  PROVE  Simulated
<1>1. Acts = ActsOf(g, D, V, e) /\ Acts' = ActsOf(g2, D2, V2, e)
  BY Mapping, MappedNext DEF Mapped
<1>2. Acts' = Acts
  BY <1>1 DEF ActsOf
<1>3. Result' = Result
  BY DEF Result
<1>4. pc'.at # "start"
  BY DEF InProgram
<1> QED
  BY <1>2, <1>3, <1>4 DEF Simulated, CallsInv

LEMMA BeginCallSimulates ==
  ASSUME MachineInv, CallsInv, NEW h \in Function,
         NEW actual \in [DOMAIN Params[h] -> Operand(4) \cup Operand(8)],
         NEW dst \in Pseudo \cup {None}, BeginCall(h, actual, dst)
  PROVE  Simulated
<1>1. /\ pc.at = "body" /\ pc'.at = "call" /\ InProgram /\ InProgram' /\ MachineInv' /\ known' = known
  BY BeginCallKeeps DEF BeginCall, InBody, InProgram
<1>2. PICK b, g, D, V, A : Describes(b, g, D, V, A)
  BY <1>1 DEF CallsInv
<1>3. Describes(b, g, D, V, A)'
  BY <1>2, BeginCallDescribes
<1>4. PICK e : e = Entered /\ Entered' = e
  BY <1>1 DEF Entered
<1> QED
  BY <1>1, <1>2, <1>3, <1>4, StaysMapped

LEMMA PushArgSimulates ==
  ASSUME MachineInv, CallsInv, PushArg
  PROVE  Simulated
<1>1. /\ pc.at = "call" /\ pc'.at = "call" /\ InProgram /\ InProgram' /\ MachineInv' /\ known' = known
  <2>1. AtCall
    BY Shapes DEF PushArg
  <2> QED
    BY <2>1, PushArgKeeps DEF PushArg, AtCall, InProgram
<1>2. PICK b, g, D, V, A : Describes(b, g, D, V, A)
  BY <1>1 DEF CallsInv
<1>3. Describes(b, g, D, V, A)'
  BY <1>2, PushArgDescribes
<1>4. PICK e : e = Entered /\ Entered' = e
  BY <1>1 DEF Entered
<1> QED
  BY <1>1, <1>2, <1>3, <1>4, StaysMapped

LEMMA EnterCalleeSimulates ==
  ASSUME MachineInv, CallsInv, EnterCallee
  PROVE  Simulated
<1>1. /\ pc.at = "call" /\ InProgram /\ MachineInv' /\ AtCall /\ pc.callee \in Function
      /\ pc' = IF Len(pc.actual) = 0 THEN [at |-> "body", fn |-> pc.callee]
               ELSE [at |-> "params", fn |-> pc.callee, next |-> 1]
  <2>1. AtCall /\ pc.at = "call"
    BY Shapes DEF EnterCallee
  <2> QED
    BY <2>1, EnterCalleeKeeps DEF EnterCallee, AtCall, InProgram
<1>2. PICK b, g, D, V, A : Describes(b, g, D, V, A)
  BY <1>1 DEF CallsInv
<1>3. PICK d \in Nat \ {0} : d = Depth
  <2>1. Innermost(b, g, V)
    BY <1>1, <1>2, InnermostStands DEF Describes
  <2> QED
    BY <1>1, <1>2, <2>1 DEF Innermost, Describes
<1>4. PICK b2, g2, D2, V2 :
         /\ b2 = Extended(b, d, rbp') /\ g2 = Extended(g, d, pc.callee)
         /\ D2 = Extended(D, d, pc.dst) /\ V2 = Extended(V, d, NoVars)
  OBVIOUS
<1>5. PICK A2 : A2 = [i \in DOMAIN pc.actual |-> Meant(pc.actual[i], V[d])]
  OBVIOUS
<1>6. /\ Describes(b2, g2, D2, V2, A2)' /\ Depth' = d + 1 /\ DOMAIN A2 = DOMAIN Params[pc.callee]
      /\ \A i \in DOMAIN A2 : A2[i] \in Hand(V[d], Size[Params[pc.callee][i]])
  BY <1>2, <1>3, <1>4, <1>5, EnterCalleeDescribes
<1>7. DOMAIN D = Nat /\ DOMAIN V = Nat /\ DOMAIN g = Nat /\ g[d] = pc.fn
  <2>1. Innermost(b, g, V)
    BY <1>1, <1>2, <1>3, InnermostStands DEF Describes, Stands
  <2> QED
    BY <1>1, <1>2, <1>3, <2>1 DEF Innermost, Describes, Stands
<1>8. /\ \A k \in 1 .. d : g2[k] = g[k] /\ D2[k] = D[k] /\ V2[k] = V[k]
      /\ g2[d + 1] = pc.callee /\ D2[d + 1] = pc.dst /\ V2[d + 1] = NoVars
  <2>1. g2[d + 1] = pc.callee /\ \A k \in 1 .. d : g2[k] = g[k]
    BY <1>4, <1>7, ExtendedAt
  <2>2. D2[d + 1] = pc.dst /\ \A k \in 1 .. d : D2[k] = D[k]
    BY <1>4, <1>7, ExtendedAt
  <2>3. V2[d + 1] = NoVars /\ \A k \in 1 .. d : V2[k] = V[k]
    BY <1>4, <1>7, ExtendedAt
  <2> QED
    BY <2>1, <2>2, <2>3
<1>9. Entered = d /\ Result = << >> /\ Acts = ActsOf(g, D, V, d)
  <2>1. Entered = d /\ Result = << >>
    BY <1>1, <1>3 DEF Entered, Depth, Result
  <2> QED
    BY <1>1, <1>2, <2>1, Mapping DEF Mapped
<1>10. CASE Len(pc.actual) # 0
  <2>1. pc'.at = "params" /\ InProgram'
    BY <1>1, <1>10 DEF InProgram
  <2>2. Entered' = d
    BY <1>6, <2>1 DEF Entered, Depth
  <2> QED
    BY <1>1, <1>2, <1>6, <1>8, <1>9, <2>1, <2>2, StaysMapped
<1>11. CASE Len(pc.actual) = 0
  <2>1. pc'.at = "body" /\ InProgram' /\ Result' = << >>
    BY <1>1, <1>11 DEF InProgram, Result
  <2>2. Entered' = d + 1
    BY <1>6, <2>1 DEF Entered, Depth
  <2>3. Acts' = ActsOf(g2, D2, V2, d + 1)
    BY <1>1, <1>6, <2>1, <2>2, MappedNext DEF Mapped
  <2>4. /\ pc.dst \in Pseudo \cup {None} /\ Waits(pc.dst, g[d], pc.callee)
        /\ Len(Params[pc.callee]) = 0
    BY <1>1, <1>2, <1>7, <1>11 DEF Describes, Calling, AtCall
  <2>5. Filled(pc.callee, Len(Params[pc.callee]), A2, NoVars) /\ NoVars = [p \in DOMAIN NoVars |-> NoVars[p]]
    <3>1. 1 .. 0 = {}
      OBVIOUS
    <3> QED
      BY <2>4, <3>1 DEF Filled, NoVars
  <2>6. PICK h \in Function : h = pc.callee
    BY <1>1
  <2>7. PICK dst \in Pseudo \cup {None} : dst = pc.dst
    BY <2>4
  <2>8. PICK vs : vs = NoVars
    OBVIOUS
  <2>9. /\ h = g2[d + 1] /\ dst = D2[d + 1] /\ vs = V2[d + 1] /\ Waits(dst, g[d], h)
        /\ DOMAIN A2 = DOMAIN Params[h] /\ Filled(h, Len(Params[h]), A2, vs)
        /\ vs = [p \in DOMAIN vs |-> vs[p]]
        /\ \A i \in DOMAIN A2 : A2[i] \in Hand(V[d], Size[Params[h][i]])
    BY <1>6, <1>8, <2>4, <2>5, <2>6, <2>7, <2>8
  <2>10. Source!Next
    BY <1>8, <1>9, <2>1, <2>3, <2>9, CallSimulates
  <2>11. CallsInv'
    BY <1>6, <2>1 DEF CallsInv
  <2> QED
    BY <2>10, <2>11 DEF Simulated
<1> QED
  BY <1>10, <1>11

LEMMA MoveParamSimulates ==
  ASSUME MachineInv, CallsInv, MoveParam
  PROVE  Simulated
<1>1. /\ pc.at = "params" /\ InProgram /\ MachineInv' /\ AtParams
      /\ pc' = IF pc.next = Len(Params[pc.fn]) THEN [at |-> "body", fn |-> pc.fn]
               ELSE [pc EXCEPT !.next = pc.next + 1]
  <2>1. AtParams
    BY Shapes DEF MoveParam
  <2> QED
    BY <2>1, MoveParamKeeps DEF MoveParam, InProgram
<1>2. PICK b, g, D, V, A : Describes(b, g, D, V, A)
  BY <1>1 DEF CallsInv
<1>3. PICK V2 : V2 = PutAt(V, Depth, Params[pc.fn][pc.next], A[pc.next])
  OBVIOUS
<1>4. /\ Describes(b, g, D, V2, A)' /\ Depth' = Depth /\ Depth > 1
      /\ \A k \in 1 .. Depth - 1 : V2[k] = V[k]
      /\ Filled(pc.fn, pc.next, A, V2[Depth])
  BY <1>2, <1>3, MoveParamDescribes
<1>5. Stands(b, g, D, V) /\ Receiving(A, V[Depth], V[Depth - 1])
  BY <1>1, <1>2 DEF Describes
<1>6. Depth \in Nat \ {0} /\ pc.fn \in Function /\ Depth = Len(known)
      /\ Stacked(mem, stackSize, offset, Depth, known, b, g, D, V)
  <2>1. Innermost(b, g, V)
    BY <1>1, <1>5, InnermostStands DEF Stands
  <2> QED
    BY <1>1, <1>5, <2>1 DEF Innermost, Stands
<1>7. PICK d \in Nat \ {0} : Depth = d + 1 /\ Depth - 1 = d
  <2>1. Depth - 1 \in Nat \ {0} /\ Depth = (Depth - 1) + 1
    BY <1>4, <1>6
  <2> QED
    BY <2>1
<1>8. Entered = d /\ Result = << >> /\ Acts = ActsOf(g, D, V, d)
  <2>1. Entered = d /\ Result = << >>
    BY <1>1, <1>6, <1>7 DEF Entered, Result
  <2> QED
    BY <1>1, <1>2, <2>1, Mapping DEF Mapped
<1>9. \A k \in 1 .. d : g[k] = g[k] /\ D[k] = D[k] /\ V2[k] = V[k]
  BY <1>4, <1>7
<1>10. CASE pc.next # Len(Params[pc.fn])
  <2>1. pc'.at = "params" /\ InProgram'
    BY <1>1, <1>10 DEF AtParams, InProgram
  <2>2. Entered' = d
    BY <1>4, <1>7, <2>1 DEF Entered, Depth
  <2> QED
    BY <1>1, <1>2, <1>4, <1>8, <1>9, <2>1, <2>2, StaysMapped
<1>11. CASE pc.next = Len(Params[pc.fn])
  <2>1. pc'.at = "body" /\ InProgram' /\ Result' = << >>
    BY <1>1, <1>11 DEF InProgram, Result
  <2>2. Entered' = d + 1
    BY <1>4, <1>7, <2>1 DEF Entered, Depth
  <2>3. Acts' = ActsOf(g, D, V2, d + 1)
    BY <1>1, <1>4, <2>1, <2>2, MappedNext DEF Mapped
  <2>4. CalledFor(mem, stackSize, b[d + 1], b[d], g[d], g[d + 1], D[d + 1])
    <3>1. d \in 1 .. (d + 1) - 1
      OBVIOUS
    <3> QED
      BY <1>6, <1>7, <3>1 DEF Stacked
  <2>5. PICK h \in Function : h = pc.fn /\ h = g[d + 1]
    BY <1>5, <1>6, <1>7 DEF Stands
  <2>6. PICK dst \in Pseudo \cup {None} : dst = D[d + 1] /\ Waits(dst, g[d], h)
    BY <2>4, <2>5 DEF CalledFor, Waits
  <2>7. PICK vs : vs = V2[d + 1]
    OBVIOUS
  <2>8. vs = [p \in DOMAIN vs |-> vs[p]] /\ Filled(h, Len(Params[h]), A, vs)
    <3>1. Stands(b, g, D, V2)'
      BY <1>4 DEF Describes
    <3>2. Stacked(mem', stackSize', offset', d + 1, known', b, g, D, V2) /\ d + 1 \in 1 .. d + 1
      BY <1>4, <1>7, <3>1 DEF Stands
    <3>3. InSlots(mem', offset', b[d + 1], g[d + 1], V2[d + 1])
      BY <3>2 DEF Stacked
    <3> QED
      BY <1>4, <1>7, <1>11, <2>5, <2>7, <3>3 DEF InSlots
  <2>9. DOMAIN A = DOMAIN Params[h] /\ \A i \in DOMAIN A : A[i] \in Hand(V[d], Size[Params[h][i]])
    BY <1>5, <1>7, <2>5 DEF Receiving
  <2>10. Source!Next
    BY <1>8, <1>9, <2>1, <2>3, <2>5, <2>6, <2>7, <2>8, <2>9, CallSimulates
  <2>11. CallsInv'
    BY <1>4, <2>1 DEF CallsInv
  <2> QED
    BY <2>10, <2>11 DEF Simulated
<1> QED
  BY <1>10, <1>11

LEMMA ReturnSimulates ==
  ASSUME MachineInv, CallsInv, NEW x, Return(x)
  PROVE  Simulated
<1>1. pc.at = "body" /\ InProgram /\ MachineInv'
  BY ReturnKeeps DEF Return, InBody, InProgram
<1>2. PICK b, g, D, V, A : Describes(b, g, D, V, A)
  BY <1>1 DEF CallsInv
<1>3. PICK d \in Nat : Depth = d + 1 /\ d + 1 \in Nat \ {0} /\ (d + 1) - 1 = d
  <2>1. Depth \in Nat \ {0}
    <3>1. Innermost(b, g, V)
      BY <1>1, <1>2, InnermostStands DEF Describes
    <3> QED
      BY <1>1, <1>2, <3>1 DEF Innermost, Describes
  <2>2. Depth - 1 \in Nat /\ Depth = (Depth - 1) + 1
    BY <2>1
  <2> QED
    BY <2>1, <2>2
<1>4. Entered = d + 1 /\ Result = << >> /\ Acts = ActsOf(g, D, V, d + 1)
  <2>1. Entered = d + 1 /\ Result = << >>
    BY <1>1, <1>3 DEF Entered, Depth, Result
  <2> QED
    BY <1>1, <1>2, <2>1, Mapping DEF Mapped
<1>5. /\ Len(Acts) = d + 1 /\ Acts # << >>
      /\ Source!Running = [fn |-> g[d + 1], vars |-> V[d + 1], dst |-> D[d + 1]]
      /\ \A size : Source!Values(size) = Hand(V[d + 1], size)
  BY <1>3, <1>4, RunningIs
<1>6. g[d + 1] = pc.fn /\ pc.fn \in Function
  <2>1. Innermost(b, g, V)
    BY <1>1, <1>2, <1>3, InnermostStands DEF Describes
  <2> QED
    BY <1>1, <1>2, <1>3, <2>1 DEF Innermost, Describes
<1>7. SubSeq(Acts, 1, d) = ActsOf(g, D, V, d)
  <2>1. PICK s : s = Acts /\ s = [k \in 1 .. d + 1 |-> [fn |-> g[k], vars |-> V[k], dst |-> D[k]]]
    BY <1>4 DEF ActsOf
  <2>2. SubSeq(s, 1, d) = [k \in 1 .. d |-> s[k]]
    <3>1. s \in Seq({s[k] : k \in 1 .. d + 1}) /\ Len(s) = d + 1
      BY <1>3, <1>5, <2>1
    <3> QED
      BY <3>1
  <2>3. \A k \in 1 .. d : s[k] = [fn |-> g[k], vars |-> V[k], dst |-> D[k]]
    BY <2>1
  <2> QED
    BY <2>1, <2>2, <2>3 DEF ActsOf
<1>8. CASE d = 0
  <2>1. pc'.at = "exit" /\ Len(known') = 0
    BY <1>2, <1>3, <1>8, LastReturn
  <2>2. Acts' = << >> /\ Result' = << >> /\ CallsInv'
    BY <2>1 DEF Acts, Entered, Result, CallsInv, InProgram
  <2>3. ActsOf(g, D, V, 0) = << >>
    BY DEF ActsOf
  <2>4. Acts' = SubSeq(Acts, 1, Len(Acts) - 1)
    BY <1>3, <1>5, <1>7, <1>8, <2>2, <2>3
  <2>5. IF ReturnSize[pc.fn] = 0 THEN x = None ELSE Meant(x, V[d + 1]) \in Hand(V[d + 1], ReturnSize[pc.fn])
    <3>1. ASSUME ReturnSize[pc.fn] # 0
          PROVE  Meant(x, V[d + 1]) \in Hand(V[d + 1], ReturnSize[pc.fn])
      <4>1. ReturnSize \in [Function -> {0, 4, 8}]
        BY MachineAssumption
      <4>2. ReturnSize[pc.fn] \in {4, 8}
        BY <1>6, <3>1, <4>1
      <4>3. x \in Operand(ReturnSize[pc.fn])
        BY <3>1 DEF Return
      <4> QED
        BY <1>1, <1>2, <1>3, <4>2, <4>3, ReadsAsMeant DEF Describes
    <3> QED
      BY <3>1 DEF Return
  <2>6. PICK w : /\ w = IF ReturnSize[pc.fn] = 0 THEN None ELSE Meant(x, V[d + 1])
                 /\ ReturnSize[pc.fn] # 0 => w \in Hand(V[d + 1], ReturnSize[pc.fn])
                 /\ ReturnSize[pc.fn] = 0 => w = None
    BY <2>5
  <2>7. Source!Return(w)
    BY <1>5, <1>8, <2>2, <2>4 DEF Source!Return
  <2>8. Source!RunningStep
    <3>1. ReturnSize[pc.fn] \in {0, 4, 8} /\ Source!Running.fn = pc.fn
      BY <1>5, <1>6, MachineAssumption
    <3>2. w \in IF ReturnSize[Source!Running.fn] = 0 THEN {None}
                ELSE [size \in {4, 8} |-> Source!Values(size)][ReturnSize[Source!Running.fn]]
      BY <1>5, <2>6, <3>1
    <3> QED
      BY <2>7, <3>2 DEF Source!RunningStep
  <2> QED
    BY <1>4, <1>5, <2>2, <2>8 DEF Simulated, Source!Next, Source!Runs
<1>9. CASE d # 0
  <2>1. PICK c \in Nat \ {0} : c = d
    BY <1>9
  <2>2. /\ Describes(b, g, D, V, A)' /\ Depth' = d
        /\ pc'.at = "after" /\ pc'.dst = D[d + 1] /\ Waits(D[d + 1], g[d], g[d + 1])
        /\ IF ReturnSize[pc.fn] = 0 THEN x = None
           ELSE rax' = Meant(x, V[d + 1]) /\ rax' \in Hand(V[d + 1], ReturnSize[pc.fn])
    BY <1>2, <1>3, <2>1, ReturnDescribes
  <2>3. InProgram' /\ Entered' = d
    BY <2>2 DEF InProgram, Entered, Depth
  <2>4. Acts' = SubSeq(Acts, 1, Len(Acts) - 1)
    <3>1. Acts' = ActsOf(g, D, V, d)
      BY <1>1, <2>2, <2>3, MappedNext DEF Mapped
    <3> QED
      BY <1>3, <1>5, <1>7, <3>1
  <2>5. PICK w : /\ w = IF ReturnSize[pc.fn] = 0 THEN None ELSE rax'
                 /\ ReturnSize[pc.fn] # 0 => w \in Hand(V[d + 1], ReturnSize[pc.fn])
                 /\ ReturnSize[pc.fn] = 0 => w = None
    BY <2>2
  <2>6. Result' = << D[d + 1], w >>
    <3>1. (D[d + 1] = None) <=> ReturnSize[pc.fn] = 0
      BY <1>6, <2>2, SlotsAssumption DEF Waits
    <3> QED
      BY <2>2, <2>5, <3>1 DEF Result
  <2>7. Source!Return(w)
    <3>1. Len(Acts) # 1 /\ Source!Running.dst = D[d + 1]
      BY <1>5, <1>9
    <3> QED
      BY <2>4, <2>6, <3>1 DEF Source!Return
  <2>8. Source!RunningStep
    <3>1. ReturnSize[pc.fn] \in {0, 4, 8} /\ Source!Running.fn = pc.fn
      BY <1>5, <1>6, MachineAssumption
    <3>2. w \in IF ReturnSize[Source!Running.fn] = 0 THEN {None}
                ELSE [size \in {4, 8} |-> Source!Values(size)][ReturnSize[Source!Running.fn]]
      BY <1>5, <2>5, <3>1
    <3> QED
      BY <2>7, <3>2 DEF Source!RunningStep
  <2>9. CallsInv'
    BY <2>2, <2>3 DEF CallsInv
  <2> QED
    BY <1>4, <1>5, <2>8, <2>9 DEF Simulated, Source!Next, Source!Runs
<1> QED
  BY <1>8, <1>9

LEMMA AfterCallSimulates ==
  ASSUME MachineInv, CallsInv, AfterCall
  PROVE  Simulated
<1>1. /\ pc.at = "after" /\ pc'.at = "body" /\ InProgram /\ InProgram' /\ MachineInv'
  BY AfterCallKeeps DEF AfterCall, InProgram
<1>2. PICK b, g, D, V, A : Describes(b, g, D, V, A)
  BY <1>1 DEF CallsInv
<1>3. PICK d \in Nat \ {0} : d = Depth
  <2>1. Innermost(b, g, V)
    BY <1>1, <1>2, InnermostStands DEF Describes
  <2> QED
    BY <1>1, <1>2, <2>1 DEF Innermost, Describes
<1>4. PICK V2 : V2 = IF pc.dst = None THEN V ELSE PutAt(V, d, pc.dst, rax)
  OBVIOUS
<1>5. Describes(b, g, D, V2, A)' /\ Depth' = d
  BY <1>2, <1>3, <1>4, AfterCallDescribes
<1>6. Entered = d /\ Entered' = d /\ DOMAIN V = Nat
  BY <1>1, <1>2, <1>3, <1>5 DEF Entered, Depth, Describes, Stands
<1>7. Acts = ActsOf(g, D, V, d) /\ Acts' = ActsOf(g, D, V2, d)
  BY <1>1, <1>2, <1>5, <1>6, Mapping, MappedNext DEF Mapped
<1>8. /\ Result = << pc.dst, IF pc.dst = None THEN None ELSE rax >> /\ Result' = << >>
      /\ Result[1] = pc.dst /\ Result # << >>
  BY <1>1 DEF Result
<1>9. /\ Len(Acts) = d /\ Source!Running = Acts[d]
  BY <1>7, RunningIs DEF Source!Running
<1>10. Acts' = IF Result[1] = None THEN Acts
               ELSE [Acts EXCEPT ![Len(Acts)] = Source!With(Source!Running, Result[1], Result[2])]
  <2>1. CASE pc.dst = None
    BY <1>4, <1>7, <1>8, <2>1
  <2>2. CASE pc.dst # None
    <3>1. Result[2] = rax /\ V2 = PutAt(V, d, pc.dst, rax)
      BY <1>4, <1>8, <2>2
    <3>2. Acts' = [Acts EXCEPT ![d] = Source!With(Acts[d], pc.dst, rax)]
      BY <1>6, <1>7, <3>1, WithIs
    <3> QED
      BY <1>8, <1>9, <2>2, <3>1, <3>2
  <2> QED
    BY <2>1, <2>2
<1>11. Source!Receive
  BY <1>8, <1>10 DEF Source!Receive
<1>12. CallsInv'
  BY <1>1, <1>5 DEF CallsInv
<1> QED
  BY <1>11, <1>12 DEF Simulated, Source!Next

LEMMA StartSimulates ==
  ASSUME MachineInv, CallsInv, Start
  PROVE  Simulated
<1>1. pc.at = "start" /\ pc'.at = "body" /\ InProgram' /\ MachineInv'
  BY StartKeeps DEF Start, InProgram
<1>2. PICK c : c = rbp'
  OBVIOUS
<1>3. PICK b, g, D, V : /\ b = [k \in Nat |-> c] /\ g = [k \in Nat |-> Main]
                        /\ D = [k \in Nat |-> None] /\ V = [k \in Nat |-> NoVars]
  OBVIOUS
<1>4. Describes(b, g, D, V, << >>)'
  BY <1>2, <1>3, StartDescribes
<1>5. Entered' = 1
  BY <1>1 DEF Start, CallsInv, Entered
<1>6. Acts' = ActsOf(g, D, V, 1)
  BY <1>1, <1>4, <1>5, MappedNext DEF Mapped
<1>7. Acts = << [fn |-> Main, vars |-> NoVars, dst |-> None] >>
  BY <1>1 DEF Acts, NoVars
<1>8. Acts' = Acts
  <2>1. g[1] = Main /\ D[1] = None /\ V[1] = NoVars
    BY <1>3
  <2> QED
    BY <1>6, <1>7, <2>1 DEF ActsOf
<1>9. Result' = Result
  BY <1>1 DEF Result
<1>10. CallsInv'
  BY <1>1, <1>4 DEF CallsInv
<1> QED
  BY <1>8, <1>9, <1>10 DEF Simulated

LEMMA NextSimulates ==
  MachineInv /\ CallsInv /\ [Next]_vars => CallsInv' /\ [Source!Next]_<< Acts, Result >>
<1> SUFFICES ASSUME MachineInv, CallsInv, [Next]_vars
             PROVE  Simulated
  BY DEF Simulated
<1>1. CASE UNCHANGED vars
  <2>1. /\ pc' = pc /\ mem' = mem /\ rbp' = rbp /\ rsp' = rsp /\ args' = args /\ rax' = rax
        /\ known' = known /\ offset' = offset /\ stackSize' = stackSize
    BY <1>1 DEF vars, slots, machine
  <2>2. \A b, g, D, V, A : Describes(b, g, D, V, A) => Describes(b, g, D, V, A)'
    BY <2>1 DEF Describes, Stands, Depth, Calling, PushedAt, Operand, Receiving, Arrived
  <2>3. \A k : Activation(k)' = Activation(k)
    BY <2>1 DEF Activation, FunctionOf, ReturnTo, Base
  <2>4. Acts' = Acts /\ Result' = Result
    BY <2>1, <2>3 DEF Acts, Entered, Result
  <2> QED
    BY <2>1, <2>2, <2>4 DEF Simulated, CallsInv, InProgram
<1>2. CASE Compile
  <2>1. pc.at = "start" /\ pc' = pc /\ known' = known /\ rax' = rax
    BY <1>2 DEF Compile, machine
  <2> QED
    BY <2>1 DEF Simulated, CallsInv, InProgram, Acts, Result
<1>3. CASE Start
  BY <1>3, StartSimulates
<1>4. CASE Lowered
  <2>1. ASSUME NEW p \in Pseudo, NEW x \in Operand(Size[p]), Assign(p, x) PROVE Simulated
    BY <2>1, AssignSimulates DEF Simulated
  <2> QED
    BY <1>4, <2>1, BeginCallSimulates, ReturnSimulates DEF Lowered
<1>5. CASE PushArg
  BY <1>5, PushArgSimulates
<1>6. CASE EnterCallee
  BY <1>6, EnterCalleeSimulates
<1>7. CASE MoveParam
  BY <1>7, MoveParamSimulates
<1>8. CASE AfterCall
  BY <1>8, AfterCallSimulates
<1> QED
  BY <1>1, <1>2, <1>3, <1>4, <1>5, <1>6, <1>7, <1>8 DEF Next, Terminated

LEMMA InitSimulates == Init => Source!Init
BY DEF Init, MachineInit, Acts, Result, Source!Init, Source!NoVars

\* The calling sequence does what calls promise, for any functions, parameters,
\* sizes and depth of calls: every argument arrives as the parameter it is for,
\* what an activation's variables hold outlives every call it makes, and a value
\* returns to the variable that waits for it.
THEOREM CallsKeepPromises == Spec => ImplementsActivations
<1>1. MachineInv /\ CallsInv /\ [Next]_vars
         => (MachineInv /\ CallsInv)' /\ [Source!Next]_<< Acts, Result >>
  BY NextMachine, NextSimulates
<1>2. Spec => [](MachineInv /\ CallsInv)
  BY <1>1, InitMachine, InitCallsInv, PTL DEF Spec
<1>3. Spec => Source!Init /\ [][Source!Next]_<< Acts, Result >>
  BY <1>1, <1>2, InitSimulates, PTL DEF Spec
<1> QED
  BY <1>3, PTL DEF ImplementsActivations, Source!Spec
=============================================================================
