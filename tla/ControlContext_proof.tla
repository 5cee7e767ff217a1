------------------------ MODULE ControlContext_proof ------------------------
(***************************************************************************)
(* Proofs about module ControlContext, for any labels, case values, kinds *)
(* of statement and bounds: the values that the calls of analyze_stmt     *)
(* save and put back keep fn_ctx at the innermost enclosing statements,   *)
(* and the traversal gives every statement the meaning its nesting has.   *)
(***************************************************************************)
EXTENDS ControlContext, WellFoundedInduction, TLAPS

-----------------------------------------------------------------------------
(* Smallest and largest numbers *)

\* The least-number principle, from the well-foundedness of < on Nat.
LEMMA SmallestInNat ==
  ASSUME NEW T, T \subseteq Nat, T # {}
  PROVE  \E m \in T : \A k \in T : m <= k
<1> DEFINE R == OpToRel(<, Nat)
<1>1. \A p, q \in Nat : p < q => << p, q >> \in R
  BY DEF OpToRel
<1>2. IsWellFoundedOn(R, Nat)
  BY NatLessThanWellFounded, Zenon
<1> HIDE DEF R
<1>3. PICK m \in T : \A k \in T : ~(<< k, m >> \in R)
  BY <1>2, WFMin, Zenon
<1>4. \A k \in T : k \in Nat /\ m \in Nat /\ ~(k < m)
  BY <1>1, <1>3
<1> QED
  BY <1>4

\* The innermost of a non-empty set of scopes exists.
LEMMA LargestInInterval ==
  ASSUME NEW n \in Nat, NEW S, S \subseteq 1 .. n, S # {}
  PROVE  \E i \in S : \A j \in S : j <= i
<1> DEFINE T == {n - i : i \in S}
<1>1. \A i \in S : i \in Int /\ i <= n /\ n - i \in Nat
  OBVIOUS
<1>2. PICK t \in T : \A u \in T : t <= u
  <2>1. T \subseteq Nat /\ T # {}
    BY <1>1
  <2> HIDE DEF T
  <2> QED
    BY <2>1, SmallestInNat
<1>3. PICK i \in S : t = n - i
  OBVIOUS
<1>4. \A j \in S : n - i <= n - j
  BY <1>2, <1>3
<1> QED
  BY <1>1, <1>4

-----------------------------------------------------------------------------
(* The innermost call of a kind *)

\* It depends on the kinds and the statements of the calls alone.
LEMMA InnermostSame ==
  ASSUME NEW r, NEW t, NEW n \in Nat, NEW kinds,
         \A i \in 1 .. n : r[i].kind = t[i].kind /\ r[i].id = t[i].id
  PROVE  InnermostOf(r, n, kinds) = InnermostOf(t, n, kinds)
<1> DEFINE S == {i \in 1 .. n : r[i].kind \in kinds}
<1>1. S = {i \in 1 .. n : t[i].kind \in kinds}
  OBVIOUS
<1>2. CASE S = {}
  BY <1>1, <1>2 DEF InnermostOf
<1>3. CASE S # {}
  <2>1. S \subseteq 1 .. n
    OBVIOUS
  <2>2. \E i \in S : \A j \in S : j <= i
    <3> HIDE DEF S
    <3> QED
      BY <1>3, <2>1, LargestInInterval
  <2> DEFINE m == CHOOSE i \in S : \A j \in S : j <= i
  <2>3. m \in S
    BY <2>2
  <2>4. r[m].id = t[m].id
    BY <2>3
  <2>5. InnermostOf(r, n, kinds) = r[m].id
    BY <1>3 DEF InnermostOf
  <2>6. InnermostOf(t, n, kinds) = t[m].id
    BY <1>1, <1>3 DEF InnermostOf
  <2> QED
    BY <2>4, <2>5, <2>6
<1> QED
  BY <1>2, <1>3

\* One call more is the innermost if it is of that kind, and changes nothing
\* if it is not.
LEMMA InnermostNext ==
  ASSUME NEW t, NEW n \in Nat, NEW kinds
  PROVE  InnermostOf(t, n + 1, kinds) =
            IF t[n + 1].kind \in kinds THEN t[n + 1].id ELSE InnermostOf(t, n, kinds)
<1> DEFINE S == {i \in 1 .. n + 1 : t[i].kind \in kinds}
<1>1. CASE t[n + 1].kind \in kinds
  <2>1. n + 1 \in S /\ \A j \in S : j \in Int /\ j <= n + 1
    BY <1>1
  <2> DEFINE m == CHOOSE i \in S : \A j \in S : j <= i
  <2>2. m = n + 1
    <3>1. m \in S /\ \A j \in S : j <= m
      <4>1. \E i \in S : \A j \in S : j <= i
        BY <2>1
      <4> HIDE DEF S
      <4> QED
        BY <4>1
    <3> HIDE DEF m
    <3>2. m \in Int /\ m <= n + 1 /\ n + 1 <= m
      BY <2>1, <3>1
    <3> QED
      BY <3>2
  <2>3. InnermostOf(t, n + 1, kinds) = t[m].id
    BY <2>1 DEF InnermostOf
  <2> QED
    BY <1>1, <2>2, <2>3
<1>2. CASE t[n + 1].kind \notin kinds
  <2>1. S = {i \in 1 .. n : t[i].kind \in kinds}
    <3>1. \A i \in 1 .. n + 1 : i = n + 1 \/ i \in 1 .. n
      OBVIOUS
    <3> QED
      BY <1>2, <3>1
  <2> DEFINE Q == {i \in 1 .. n : t[i].kind \in kinds}
             Id(U) == IF U = {} THEN None
                      ELSE t[CHOOSE i \in U : \A j \in U : j <= i].id
  <2>2. InnermostOf(t, n + 1, kinds) = Id(S) /\ InnermostOf(t, n, kinds) = Id(Q)
    BY DEF InnermostOf
  <2>3. S = Q
    BY <2>1
  <2>4. Id(S) = Id(Q)
    <3> HIDE DEF S, Q
    <3> QED
      BY <2>3
  <2> QED
    BY <1>2, <2>2, <2>4
<1> QED
  BY <1>1, <1>2

\* No call, no statement.
LEMMA InnermostNone ==
  ASSUME NEW t, NEW kinds
  PROVE  InnermostOf(t, 0, kinds) = None
BY DEF InnermostOf

-----------------------------------------------------------------------------
(* The stack of calls *)

\* What meeting a statement does to the calls under way: it may use up the
\* body that the innermost one still waits for, and nothing else.
LEMMA AnalyzingType ==
  ASSUME TypeOK, MayMeet
  PROVE  /\ Analyzing \in Seq(Call_) /\ Len(Analyzing) = Len(stack)
         /\ Len(stack) \in Nat \ {0}
         /\ \A i \in 1 .. Len(stack) :
               /\ Analyzing[i].kind = stack[i].kind /\ Analyzing[i].id = stack[i].id
               /\ Analyzing[i].saved = stack[i].saved
<1> DEFINE n == Len(stack)
           t == [stack[n] EXCEPT !.due = @ - 1]
           st == [stack EXCEPT ![n] = t]
<1>1. stack \in Seq(Call_) /\ stack # << >>
  BY DEF TypeOK, MayMeet
<1>2. n \in Nat \ {0}
  BY <1>1
<1>3. stack[n] \in Call_ /\ stack[n].due > 0
  BY <1>1, <1>2 DEF MayMeet, Top
<1>4. stack[n].due \in Nat
  BY <1>3 DEF Call_
<1>5. stack[n].due - 1 \in Nat
  BY <1>3, <1>4
<1>6. t \in Call_ /\ t.kind = stack[n].kind /\ t.id = stack[n].id /\ t.saved = stack[n].saved
  BY <1>3, <1>5 DEF Call_
<1>7. Analyzing = stack \/ Analyzing = st
  BY DEF Analyzing, Top
<1> HIDE DEF t
<1>8. st \in Seq(Call_) /\ Len(st) = n
  BY <1>1, <1>2, <1>6
<1>9. \A i \in 1 .. n : st[i] = IF i = n THEN t ELSE stack[i]
  BY <1>1, <1>2
<1> QED
  BY <1>1, <1>2, <1>6, <1>7, <1>8, <1>9

\* A statement that is met is numbered and the numbers stay in range.
LEMMA HereType ==
  ASSUME TypeOK, count < MaxStmts
  PROVE  Here \in Stmt /\ Here \in 0 .. MaxStmts
BY BoundsAssumption DEF TypeOK, Here, Stmt

CallKind == {"block", "if", "loop", "switch", "case", "default", "label"}

\* A new call goes on top of the others.
LEMMA CalledType ==
  ASSUME TypeOK, MayMeet, NEW k \in CallKind, NEW id \in StmtOrNone, NEW due \in Nat
  PROVE  /\ Called(k, id, due) \in Seq(Call_)
         /\ Len(Called(k, id, due)) = Len(stack) + 1
         /\ Called(k, id, due)[Len(stack) + 1].kind = k
         /\ Called(k, id, due)[Len(stack) + 1].id = id
         /\ Called(k, id, due)[Len(stack) + 1].saved = ctx
         /\ \A i \in 1 .. Len(stack) :
               /\ Called(k, id, due)[i].kind = stack[i].kind
               /\ Called(k, id, due)[i].id = stack[i].id
               /\ Called(k, id, due)[i].saved = stack[i].saved
<1> DEFINE c == [kind |-> k, id |-> id, due |-> due, saved |-> ctx]
<1>1. c \in Call_ /\ c.kind = k /\ c.id = id /\ c.saved = ctx
  BY DEF Call_, TypeOK, CallKind
<1>2. Called(k, id, due) = Append(Analyzing, c)
  BY DEF Called
<1> HIDE DEF c
<1> QED
  BY <1>1, <1>2, AnalyzingType

\* The call that returns leaves those below it.
LEMMA ReturnType ==
  ASSUME TypeOK, Return
  PROVE  /\ Len(stack) \in Nat /\ Len(stack) > 1
         /\ Top \in Call_ /\ Top = stack[Len(stack)]
         /\ stack' \in Seq(Call_) /\ Len(stack') = Len(stack) - 1
         /\ \A i \in 1 .. Len(stack) - 1 : stack'[i] = stack[i]
<1>1. stack \in Seq(Call_) /\ Len(stack) \in Nat
  BY DEF TypeOK
<1>2. Len(stack) > 1
  BY DEF Return
<1>3. stack' = SubSeq(stack, 1, Len(stack) - 1)
  BY DEF Return
<1>4. stack[Len(stack)] \in Call_
  BY <1>1, <1>2
<1> QED
  BY <1>1, <1>2, <1>3, <1>4 DEF Top

-----------------------------------------------------------------------------
(* Types *)

\* Linking a case keeps the types of the chain.
LEMMA CaseType ==
  ASSUME TypeOK, NEW c \in BOOLEAN, NEW v \in Value, Case(c, v)
  PROVE  TypeOK'
<1> DEFINE w == ConstantConvert(v, condType[ctx.sw])
<1>1. w \in Int
  BY BoundsAssumption, IntModulusAssumption DEF ConstantConvert
<1>2. MayMeet /\ count < MaxStmts /\ stack' = Called("case", Here, 1) /\ count' = Here
  BY DEF Case, Call
<1>3. stack' \in Seq(Call_) /\ count' \in 0 .. MaxStmts /\ Here \in Stmt
  BY <1>2, CalledType, HereType DEF CallKind, StmtOrNone
<1>4. UNCHANGED << labels, gotos, target, defaultCase, condType >>
  BY DEF Case
<1> HIDE DEF w
<1>5. CASE Acceptable(c, v)
  <2>1. LinkCase(w) /\ UNCHANGED error
    BY <1>5 DEF Case, w
  <2>2. caseValue' \in [Stmt -> Int]
    BY <1>1, <2>1 DEF LinkCase, TypeOK
  <2>3. nextCase' \in [Stmt -> StmtOrNone] /\ firstCase' \in [Stmt -> StmtOrNone]
    BY <1>3, <2>1 DEF LinkCase, TypeOK, StmtOrNone
  <2>4. ctx' \in Context
    BY <1>3, <2>1 DEF LinkCase, TypeOK, Context, StmtOrNone
  <2> QED
    BY <1>3, <1>4, <2>1, <2>2, <2>3, <2>4 DEF TypeOK
<1>6. CASE ~Acceptable(c, v)
  BY <1>3, <1>4, <1>6 DEF Case, TypeOK
<1> QED
  BY <1>5, <1>6

\* Every variable keeps its type.
THEOREM TypeCorrect == Spec => []TypeOK
<1>1. Init => TypeOK
  <2> SUFFICES ASSUME Init PROVE TypeOK
    OBVIOUS
  <2>1. NoContext \in Context /\ 0 \in 0 .. MaxStmts /\ None \in StmtOrNone
    BY BoundsAssumption DEF NoContext, Context, StmtOrNone
  <2>2. stack \in Seq(Call_) /\ gotos \in Seq([stmt: Stmt, label: Label])
    BY DEF Init
  <2>3. /\ labels \in [Label -> StmtOrNone] /\ target \in [Stmt -> StmtOrNone]
        /\ firstCase \in [Stmt -> StmtOrNone] /\ nextCase \in [Stmt -> StmtOrNone]
        /\ defaultCase \in [Stmt -> StmtOrNone]
    BY <2>1 DEF Init
  <2>4. caseValue \in [Stmt -> Int] /\ condType \in [Stmt -> {"none", "int", "long"}]
    BY DEF Init
  <2> QED
    BY <2>1, <2>2, <2>3, <2>4 DEF Init, TypeOK
<1>2. TypeOK /\ [Next]_vars => TypeOK'
  <2> SUFFICES ASSUME TypeOK, [Next]_vars PROVE TypeOK'
    OBVIOUS
  <2> USE DEF CallKind
  <2>1. ASSUME AnalyzeFunction PROVE TypeOK'
    <3>1. NoContext \in Context /\ None \in StmtOrNone
      BY DEF NoContext, Context, StmtOrNone
    <3>2. [kind |-> "block", id |-> None, due |-> 1, saved |-> NoContext] \in Call_
      BY <3>1 DEF Call_
    <3> QED
      BY <2>1, <3>1, <3>2 DEF AnalyzeFunction, TypeOK, ast
  <2>2. ASSUME PlainStmt PROVE TypeOK'
    BY <2>2, AnalyzingType DEF PlainStmt, TypeOK, ast
  <2>3. ASSUME Block PROVE TypeOK'
    <3>1. stack' \in Seq(Call_)
      BY <2>3, CalledType DEF Block, StmtOrNone
    <3> QED
      BY <2>3, <3>1 DEF Block, TypeOK, ast
  <2>4. ASSUME If PROVE TypeOK'
    <3>1. stack' \in Seq(Call_)
      BY <2>4, CalledType DEF If, StmtOrNone
    <3> QED
      BY <2>4, <3>1 DEF If, TypeOK, ast
  <2>5. ASSUME Loop PROVE TypeOK'
    <3>1. stack' \in Seq(Call_) /\ count' \in 0 .. MaxStmts /\ Here \in StmtOrNone
      BY <2>5, CalledType, HereType DEF Loop, Call, StmtOrNone
    <3>2. ctx' \in Context
      BY <2>5, <3>1 DEF Loop, TypeOK, Context
    <3> QED
      BY <2>5, <3>1, <3>2 DEF Loop, TypeOK, ast
  <2>6. ASSUME NEW ty \in {"int", "long", "other"}, Switch(ty) PROVE TypeOK'
    <3>1. stack' \in Seq(Call_) /\ count' \in 0 .. MaxStmts /\ Here \in StmtOrNone
      BY <2>6, CalledType, HereType DEF Switch, Call, StmtOrNone
    <3>2. ctx' \in Context
      BY <2>6, <3>1 DEF Switch, TypeOK, Context, StmtOrNone
    <3>3. condType' \in [Stmt -> {"none", "int", "long"}] /\ error' \in BOOLEAN
      BY <2>6 DEF Switch, TypeOK
    <3> QED
      BY <2>6, <3>1, <3>2, <3>3 DEF Switch, TypeOK
  <2>7. ASSUME NEW v \in Value, NEW c \in BOOLEAN, Case(c, v) PROVE TypeOK'
    BY <2>7, CaseType
  <2>8. ASSUME Default PROVE TypeOK'
    <3>1. stack' \in Seq(Call_) /\ count' \in 0 .. MaxStmts /\ Here \in StmtOrNone
      BY <2>8, CalledType, HereType DEF Default, Call, StmtOrNone
    <3>2. defaultCase' \in [Stmt -> StmtOrNone] /\ error' \in BOOLEAN
      BY <2>8, <3>1 DEF Default, TypeOK
    <3> QED
      BY <2>8, <3>1, <3>2 DEF Default, TypeOK
  <2>9. ASSUME NEW to \in StmtOrNone, Refer(to) PROVE TypeOK'
    <3>1. stack' \in Seq(Call_) /\ count' \in 0 .. MaxStmts
      BY <2>9, AnalyzingType, HereType DEF Refer, Meet
    <3>2. target' \in [Stmt -> StmtOrNone] /\ error' \in BOOLEAN
      BY <2>9 DEF Refer, TypeOK
    <3> QED
      BY <2>9, <3>1, <3>2 DEF Refer, TypeOK
  <2>10. ctx.breakable \in StmtOrNone /\ ctx.loop \in StmtOrNone
    BY DEF TypeOK, Context
  <2>11. ASSUME NEW l \in Label, LabelStmt(l) PROVE TypeOK'
    <3>1. stack' \in Seq(Call_) /\ count' \in 0 .. MaxStmts /\ Here \in StmtOrNone
      BY <2>11, CalledType, HereType DEF LabelStmt, Call, StmtOrNone
    <3>2. labels' \in [Label -> StmtOrNone] /\ error' \in BOOLEAN
      BY <2>11, <3>1 DEF LabelStmt, TypeOK
    <3> QED
      BY <2>11, <3>1, <3>2 DEF LabelStmt, TypeOK, ast
  <2>12. ASSUME NEW l \in Label, Goto(l) PROVE TypeOK'
    <3>1. stack' \in Seq(Call_) /\ count' \in 0 .. MaxStmts /\ Here \in Stmt
      BY <2>12, AnalyzingType, HereType DEF Goto, Meet
    <3>2. gotos' \in Seq([stmt: Stmt, label: Label])
      BY <2>12, <3>1 DEF Goto, TypeOK
    <3> QED
      BY <2>12, <3>1, <3>2 DEF Goto, TypeOK, ast
  <2>13. ASSUME Return PROVE TypeOK'
    <3>1. stack' \in Seq(Call_) /\ Top \in Call_
      BY <2>13, ReturnType
    <3>2. ctx' \in Context
      BY <2>13, <3>1 DEF Return, Restored, TypeOK, Context, Call_
    <3> QED
      BY <2>13, <3>1, <3>2 DEF Return, TypeOK, ast
  <2>14. ASSUME ResolveGotos PROVE TypeOK'
    <3>1. \A i \in DOMAIN gotos : gotos[i].label \in Label
      <4> DEFINE Jump == [stmt: Stmt, label: Label]
      <4>1. gotos \in Seq(Jump) /\ \A j \in Jump : j.label \in Label
        BY DEF TypeOK
      <4> HIDE DEF Jump
      <4> QED
        BY <4>1
    <3>2. \A i \in DOMAIN gotos : labels[gotos[i].label] \in StmtOrNone
      BY <3>1 DEF TypeOK
    <3>3. target' \in [Stmt -> StmtOrNone]
      <4>1. ASSUME NEW s \in Stmt, \E i \in DOMAIN gotos : gotos[i].stmt = s
            PROVE  (CHOOSE i \in DOMAIN gotos : gotos[i].stmt = s) \in DOMAIN gotos
        BY <4>1
      <4> QED
        BY <2>14, <3>2, <4>1 DEF ResolveGotos, TypeOK
    <3> QED
      BY <2>14, <3>3 DEF ResolveGotos, TypeOK
  <2>15. ASSUME UNCHANGED vars PROVE TypeOK'
    BY <2>15 DEF vars, TypeOK, ast
  <2> QED
    BY <2>1, <2>2, <2>3, <2>4, <2>5, <2>6, <2>7, <2>8, <2>9, <2>10, <2>11, <2>12,
       <2>13, <2>14, <2>15 DEF Next, Break, Continue
<1> QED
  BY <1>1, <1>2, PTL DEF Spec

-----------------------------------------------------------------------------
(* fn_ctx stays at the innermost statements                                *)

BreakTarget == {"loop", "switch"}

\* What ContextIsInnermost says of fn_ctx and of each call's saved locals.
CtxIs(c, st, n) == /\ c.breakable = InnermostOf(st, n, BreakTarget)
                   /\ c.loop = InnermostOf(st, n, {"loop"})
                   /\ c.sw = InnermostOf(st, n, {"switch"})

SavedIs(st, n) ==
    /\ st[n].kind \in BreakTarget => st[n].saved.breakable = InnermostOf(st, n - 1, BreakTarget)
    /\ st[n].kind = "loop" => st[n].saved.loop = InnermostOf(st, n - 1, {"loop"})
    /\ st[n].kind = "switch" => st[n].saved.sw = InnermostOf(st, n - 1, {"switch"})

Inv == /\ stack # << >> => CtxIs(ctx, stack, Len(stack))
       /\ \A n \in 1 .. Len(stack) : SavedIs(stack, n)

\* The two say the same.
LEMMA InvIsInnermost ==
  ASSUME TypeOK
  PROVE  Inv <=> ContextIsInnermost
<1>1. DOMAIN stack = 1 .. Len(stack)
  BY DEF TypeOK
<1> QED
  BY <1>1 DEF Inv, ContextIsInnermost, CtxIs, SavedIs, Innermost, BreakTarget

\* They survive what leaves the kinds, statements and saved locals of the
\* first n calls alone.
LEMMA CtxIsSame ==
  ASSUME NEW r, NEW t, NEW n \in Nat, NEW c,
         \A i \in 1 .. n : r[i].kind = t[i].kind /\ r[i].id = t[i].id,
         CtxIs(c, r, n)
  PROVE  CtxIs(c, t, n)
<1>1. \A kinds : InnermostOf(r, n, kinds) = InnermostOf(t, n, kinds)
  BY InnermostSame
<1> QED
  BY <1>1, Zenon DEF CtxIs

LEMMA SavedIsSame ==
  ASSUME NEW r, NEW t, NEW n \in Nat, NEW k \in 1 .. n,
         \A i \in 1 .. n : /\ r[i].kind = t[i].kind /\ r[i].id = t[i].id
                           /\ r[i].saved = t[i].saved,
         SavedIs(r, k)
  PROVE  SavedIs(t, k)
<1>1. k - 1 \in Nat /\ \A i \in 1 .. k - 1 : i \in 1 .. n
  OBVIOUS
<1>2. \A kinds : InnermostOf(r, k - 1, kinds) = InnermostOf(t, k - 1, kinds)
  BY <1>1, InnermostSame
<1> QED
  BY <1>2, Zenon DEF SavedIs

\* A call that changes neither the kinds nor fn_ctx.
LEMMA MeetInv ==
  ASSUME TypeOK, Inv, MayMeet, stack' = Analyzing, ctx' = ctx
  PROVE  Inv'
<1> DEFINE n == Len(stack)
<1>1. /\ n \in Nat /\ Len(stack') = n
      /\ \A i \in 1 .. n : /\ stack[i].kind = stack'[i].kind /\ stack[i].id = stack'[i].id
                            /\ stack[i].saved = stack'[i].saved
  BY AnalyzingType
<1>2. CtxIs(ctx, stack, n)
  BY DEF Inv, MayMeet
<1> HIDE DEF n
<1>3. CtxIs(ctx', stack', n)
  BY <1>1, <1>2, CtxIsSame
<1>4. ASSUME NEW k \in 1 .. n PROVE SavedIs(stack', k)
  <2>1. SavedIs(stack, k)
    BY DEF Inv, n
  <2>2. n \in Nat
    BY <1>1
  <2>3. \A i \in 1 .. n : /\ stack[i].kind = stack'[i].kind /\ stack[i].id = stack'[i].id
                            /\ stack[i].saved = stack'[i].saved
    BY <1>1
  <2> QED
    BY <2>1, <2>2, <2>3, SavedIsSame
<1> QED
  BY <1>1, <1>3, <1>4 DEF Inv

\* A call on top of the others: fn_ctx must name it if it is a target.
LEMMA CallInv ==
  ASSUME TypeOK, Inv, MayMeet,
         NEW k \in CallKind, NEW id \in StmtOrNone, NEW due \in Nat,
         stack' = Called(k, id, due),
         ctx'.breakable = IF k \in BreakTarget THEN id ELSE ctx.breakable,
         ctx'.loop = IF k = "loop" THEN id ELSE ctx.loop,
         ctx'.sw = IF k = "switch" THEN id ELSE ctx.sw
  PROVE  Inv'
<1> DEFINE n == Len(stack)
<1>1. n \in Nat
  BY DEF TypeOK
<1>2. /\ Len(stack') = n + 1
      /\ stack'[n + 1].kind = k /\ stack'[n + 1].id = id /\ stack'[n + 1].saved = ctx
      /\ \A i \in 1 .. n : /\ stack[i].kind = stack'[i].kind /\ stack[i].id = stack'[i].id
                            /\ stack[i].saved = stack'[i].saved
  BY CalledType
<1>3. CtxIs(ctx, stack, n)
  BY DEF Inv, MayMeet
<1>4. \A i \in 1 .. n : SavedIs(stack, i)
  BY DEF Inv
<1> HIDE DEF n
<1>5. CtxIs(ctx, stack', n)
  <2>1. \A i \in 1 .. n : stack[i].kind = stack'[i].kind /\ stack[i].id = stack'[i].id
    BY <1>2
  <2> QED
    BY <1>1, <1>3, <2>1, CtxIsSame, Zenon
<1>6. \A kinds : InnermostOf(stack', n + 1, kinds) =
                    IF k \in kinds THEN id ELSE InnermostOf(stack', n, kinds)
  <2>1. \A kinds : InnermostOf(stack', n + 1, kinds) =
                      IF stack'[n + 1].kind \in kinds
                      THEN stack'[n + 1].id ELSE InnermostOf(stack', n, kinds)
    BY <1>1, InnermostNext
  <2>2. stack'[n + 1].kind = k /\ stack'[n + 1].id = id
    BY <1>2
  <2> QED
    BY <2>1, <2>2, Zenon
<1>7. CtxIs(ctx', stack', n + 1)
  BY <1>5, <1>6 DEF CtxIs
<1>8. ASSUME NEW i \in 1 .. n PROVE SavedIs(stack', i)
  <2>1. SavedIs(stack, i)
    BY <1>4
  <2>2. \A j \in 1 .. n : /\ stack[j].kind = stack'[j].kind /\ stack[j].id = stack'[j].id
                            /\ stack[j].saved = stack'[j].saved
    BY <1>2
  <2> QED
    BY <1>1, <2>1, <2>2, SavedIsSame
<1>9. SavedIs(stack', n + 1)
  <2>1. (n + 1) - 1 = n
    BY <1>1
  <2> QED
    BY <1>2, <1>5, <2>1 DEF SavedIs, CtxIs
<1>10. \A i \in 1 .. n + 1 : i \in 1 .. n \/ i = n + 1
  BY <1>1
<1> QED
  BY <1>2, <1>7, <1>8, <1>9, <1>10 DEF Inv

\* A call that returns puts back what the calls below it need.
LEMMA ReturnInv ==
  ASSUME TypeOK, Inv, Return
  PROVE  Inv'
<1> DEFINE n == Len(stack)
           m == n - 1
<1>1. /\ n \in Nat /\ n > 1
      /\ Top \in Call_ /\ Top = stack[n]
      /\ Len(stack') = m /\ \A i \in 1 .. m : stack'[i] = stack[i]
  BY ReturnType
<1>2. CtxIs(ctx, stack, n)
  BY <1>1 DEF Inv
<1>3. SavedIs(stack, n) /\ \A i \in 1 .. n : SavedIs(stack, i)
  BY <1>1 DEF Inv
<1>4. ctx' = Restored /\ ctx \in Context /\ Top.saved \in Context
  BY <1>1 DEF Return, TypeOK, Call_
<1> HIDE DEF n
<1>5. m \in Nat /\ m + 1 = n /\ \A i \in 1 .. m : i \in 1 .. n
  BY <1>1
<1> HIDE DEF m
<1>6. \A kinds : InnermostOf(stack, n, kinds) =
                    IF stack[n].kind \in kinds THEN stack[n].id ELSE InnermostOf(stack, m, kinds)
  BY <1>5, InnermostNext
<1>7. n - 1 = m
  BY <1>5
<1>8. CtxIs(ctx', stack, m)
  <2>1. CASE Top.kind = "loop"
    <3>1. /\ ctx'.breakable = Top.saved.breakable /\ ctx'.loop = Top.saved.loop
          /\ ctx'.sw = ctx.sw
      BY <1>4, <2>1 DEF Restored, Context
    <3> QED
      BY <1>1, <1>2, <1>3, <1>6, <1>7, <2>1, <3>1 DEF CtxIs, SavedIs, BreakTarget
  <2>2. CASE Top.kind = "switch"
    <3>1. /\ ctx'.breakable = Top.saved.breakable /\ ctx'.sw = Top.saved.sw
          /\ ctx'.loop = ctx.loop
      BY <1>4, <2>2 DEF Restored, Context
    <3> QED
      BY <1>1, <1>2, <1>3, <1>6, <1>7, <2>2, <3>1 DEF CtxIs, SavedIs, BreakTarget
  <2>3. CASE Top.kind \notin BreakTarget
    <3>1. ctx' = ctx
      BY <1>4, <2>3 DEF Restored, BreakTarget
    <3> QED
      BY <1>1, <1>2, <1>6, <2>3, <3>1 DEF CtxIs, BreakTarget
  <2> QED
    BY <2>1, <2>2, <2>3 DEF BreakTarget
<1>9. CtxIs(ctx', stack', m)
  BY <1>1, <1>5, <1>8, CtxIsSame
<1>10. \A i \in 1 .. m : SavedIs(stack', i)
  BY <1>1, <1>3, <1>5, SavedIsSame
<1> QED
  BY <1>1, <1>9, <1>10 DEF Inv

\* Whatever statements a function is made of, fn_ctx and every saved local
\* name the innermost enclosing loop and switch.
THEOREM ContextFollowsNesting == Spec => []ContextIsInnermost
<1>1. Init => Inv
  BY DEF Init, Inv
<1>2. TypeOK /\ Inv /\ [Next]_vars => Inv'
  <2> SUFFICES ASSUME TypeOK, Inv, [Next]_vars PROVE Inv'
    OBVIOUS
  <2> USE DEF CallKind, BreakTarget
  <2>0. None \in StmtOrNone /\ (count < MaxStmts => Here \in StmtOrNone) /\ ctx \in Context
    BY HereType DEF StmtOrNone, TypeOK
  <2>1. ASSUME AnalyzeFunction PROVE Inv'
    <3>1. Len(stack') = 1 /\ stack'[1].kind = "block" /\ ctx' = NoContext
      BY <2>1 DEF AnalyzeFunction
    <3>2. \A kinds : "block" \notin kinds => InnermostOf(stack', 1, kinds) = None
      <4>1. 0 \in Nat /\ 0 + 1 = 1
        OBVIOUS
      <4>2. \A kinds : InnermostOf(stack', 0 + 1, kinds) =
               IF stack'[0 + 1].kind \in kinds THEN stack'[0 + 1].id
               ELSE InnermostOf(stack', 0, kinds)
        BY <4>1, InnermostNext
      <4> QED
        BY <3>1, <4>1, <4>2, InnermostNone
    <3>3. CtxIs(ctx', stack', 1)
      BY <3>1, <3>2 DEF CtxIs, NoContext
    <3>4. SavedIs(stack', 1) /\ \A i \in 1 .. 1 : i = 1
      BY <3>1 DEF SavedIs
    <3> QED
      BY <3>1, <3>3, <3>4 DEF Inv
  <2>2. ASSUME PlainStmt PROVE Inv'
    BY <2>2, MeetInv DEF PlainStmt
  <2>3. ASSUME Block PROVE Inv'
    BY <2>0, <2>3, CallInv DEF Block
  <2>4. ASSUME If PROVE Inv'
    BY <2>0, <2>4, CallInv DEF If
  <2>5. ASSUME Loop PROVE Inv'
    <3>1. ctx'.breakable = Here /\ ctx'.loop = Here /\ ctx'.sw = ctx.sw
      BY <2>0, <2>5 DEF Loop, Context
    <3>2. MayMeet /\ count < MaxStmts /\ stack' = Called("loop", Here, 1)
      BY <2>5 DEF Loop, Call
    <3> QED
      BY <2>0, <3>1, <3>2, CallInv
  <2>6. ASSUME NEW ty \in {"int", "long", "other"}, Switch(ty) PROVE Inv'
    <3>1. ctx'.breakable = Here /\ ctx'.loop = ctx.loop /\ ctx'.sw = Here
      BY <2>0, <2>6 DEF Switch, Context
    <3>2. MayMeet /\ count < MaxStmts /\ stack' = Called("switch", Here, 1)
      BY <2>6 DEF Switch, Call
    <3> QED
      BY <2>0, <3>1, <3>2, CallInv
  <2>7. ASSUME NEW v \in Value, NEW c \in BOOLEAN, Case(c, v) PROVE Inv'
    <3>1. ctx' = ctx \/ ctx' = [ctx EXCEPT !.lastCase = Here]
      BY <2>7 DEF Case, LinkCase
    <3>2. ctx'.breakable = ctx.breakable /\ ctx'.loop = ctx.loop /\ ctx'.sw = ctx.sw
      BY <2>0, <3>1 DEF Context
    <3>3. MayMeet /\ count < MaxStmts /\ stack' = Called("case", Here, 1)
      BY <2>7 DEF Case, Call
    <3> QED
      BY <2>0, <3>2, <3>3, CallInv
  <2>8. ASSUME Default PROVE Inv'
    BY <2>0, <2>8, CallInv DEF Default, Call
  <2>9. ASSUME NEW to, Refer(to) PROVE Inv'
    BY <2>9, MeetInv DEF Refer, Meet
  <2>10. ASSUME NEW l \in Label, LabelStmt(l) PROVE Inv'
    BY <2>0, <2>10, CallInv DEF LabelStmt, Call
  <2>11. ASSUME NEW l \in Label, Goto(l) PROVE Inv'
    BY <2>11, MeetInv DEF Goto, Meet
  <2>12. ASSUME Return PROVE Inv'
    BY <2>12, ReturnInv
  <2>13. ASSUME ResolveGotos PROVE Inv'
    BY <2>13 DEF ResolveGotos, Inv
  <2>14. ASSUME UNCHANGED vars PROVE Inv'
    BY <2>14 DEF vars, Inv
  <2> QED
    BY <2>1, <2>2, <2>3, <2>4, <2>5, <2>6, <2>7, <2>8, <2>9, <2>10, <2>11, <2>12,
       <2>13, <2>14 DEF Next, Break, Continue
<1> QED
  BY <1>1, <1>2, TypeCorrect, InvIsInnermost, PTL DEF Spec

-----------------------------------------------------------------------------
(* The cases of a switch, by following the links                           *)

CaseOf == [stmt: Stmt, value: Int]

\* Chain, with the links and the values as parameters.
Linked(f, nc, cv, c) == IF c = None THEN << >>
                        ELSE << [stmt |-> c, value |-> cv[c]] >> \o f[nc[c]]

FromOf(nc, cv) == CHOOSE f : f = [c \in 0 .. MaxStmts |-> Linked(f, nc, cv, c)]

\* Links lead to statements met later.
Forward(nc) == \A c \in Stmt : nc[c] \in StmtOrNone /\ (nc[c] = None \/ c < nc[c])

LEMMA ChainIs ==
  ASSUME NEW s
  PROVE  /\ Chain(s) = FromOf(nextCase, caseValue)[firstCase[s]]
         /\ Chain(s)' = FromOf(nextCase', caseValue')[firstCase'[s]]
BY DEF Chain, FromOf, Linked

\* They come to an end, so that there is a chain from every case.
LEMMA FromDefined ==
  ASSUME NEW nc, Forward(nc), NEW cv
  PROVE  \A c \in StmtOrNone : FromOf(nc, cv)[c] = Linked(FromOf(nc, cv), nc, cv, c)
<1> DEFINE M == MaxStmts
           Last(k) == {c \in 0 .. M : c = None \/ M - k < c}
           Upto(k, g) == g = [c \in Last(k) |-> Linked(g, nc, cv, c)]
           T == {k \in 0 .. M : ~ \E g : Upto(k, g)}
<1>0. M \in Nat /\ Stmt = 1 .. M /\ StmtOrNone = 0 .. M /\ None = 0
  BY BoundsAssumption DEF Stmt, StmtOrNone, None
<1>1. ASSUME T # {} PROVE FALSE
  <2>1. PICK k \in T : \A j \in T : k <= j
    <3>1. T \subseteq Nat
      BY <1>0
    <3> HIDE DEF T
    <3> QED
      BY <1>1, <3>1, SmallestInNat
  <2>2. k # 0
    <3>1. Last(0) = {0}
      BY <1>0
    <3>2. Upto(0, [c \in {0} |-> << >>])
      BY <1>0, <3>1 DEF Linked
    <3> HIDE DEF Upto
    <3> QED
      BY <3>2
  <2>3. k \in Nat /\ k <= M /\ k - 1 \in 0 .. M
    BY <1>0, <2>2
  <2>4. PICK g : Upto(k - 1, g)
    <3>1. k - 1 \notin T
      <4> HIDE DEF T
      <4>1. k - 1 \in T => k <= k - 1
        BY <2>1
      <4> QED
        BY <2>3, <4>1
    <3> HIDE DEF Upto
    <3> QED
      BY <2>3, <3>1
  <2> PICK m : m = M - k + 1
    OBVIOUS
  <2>5. /\ m \in Stmt /\ Last(k) = Last(k - 1) \cup {m} /\ m \notin Last(k - 1)
        /\ \A c \in Last(k) : c # None => c \in Stmt /\ nc[c] \in Last(k - 1)
    <3>1. m \in 1 .. M /\ M - (k - 1) = m /\ M - k = m - 1
      BY <1>0, <2>3
    <3>2. \A c \in 0 .. M : m - 1 < c <=> c = m \/ m < c
      BY <1>0, <3>1
    <3>3. \A c \in Last(k) : c # None => c \in Stmt /\ nc[c] \in Last(k - 1)
      BY <1>0, <3>1, <3>2 DEF Forward
    <3> QED
      BY <1>0, <3>1, <3>2, <3>3
  <2> DEFINE h == [c \in Last(k) |-> IF c = m THEN Linked(g, nc, cv, m) ELSE g[c]]
  <2> HIDE DEF Last
  <2>6. \A c \in Last(k - 1) : h[c] = g[c] /\ g[c] = Linked(g, nc, cv, c)
    BY <2>4, <2>5
  <2>7. ASSUME NEW c \in Last(k) PROVE h[c] = Linked(h, nc, cv, c)
    <3>1. Linked(h, nc, cv, c) = Linked(g, nc, cv, c)
      <4> HIDE DEF h
      <4> QED
        BY <2>5, <2>6 DEF Linked
    <3>2. h[c] = Linked(g, nc, cv, c)
      BY <2>5, <2>6
    <3> QED
      BY <3>1, <3>2
  <2>8. Upto(k, h)
    <3>1. h = [c \in Last(k) |-> h[c]]
      OBVIOUS
    <3> HIDE DEF h
    <3> QED
      BY <2>7, <3>1
  <2> HIDE DEF Upto, h
  <2> QED
    BY <2>8
<1>2. \E g : Upto(M, g)
  <2> HIDE DEF Upto
  <2>1. M \in 0 .. M
    BY <1>0
  <2> QED
    BY <1>1, <2>1
<1>3. Last(M) = 0 .. M
  BY <1>0
<1>4. FromOf(nc, cv) = [c \in 0 .. M |-> Linked(FromOf(nc, cv), nc, cv, c)]
  <2> HIDE DEF Last
  <2> QED
    BY <1>2, <1>3, Zenon DEF FromOf
<1> HIDE DEF M
<1> QED
  BY <1>0, <1>4

\* The two cases of the definition.
LEMMA FromStep ==
  ASSUME NEW nc, Forward(nc), NEW cv
  PROVE  /\ FromOf(nc, cv)[None] = << >>
         /\ \A c \in Stmt : /\ nc[c] \in StmtOrNone
                            /\ FromOf(nc, cv)[c] = << [stmt |-> c, value |-> cv[c]] >> \o FromOf(nc, cv)[nc[c]]
<1>1. None \in StmtOrNone /\ \A c \in Stmt : c \in StmtOrNone /\ c # None
  BY DEF StmtOrNone, Stmt, None
<1> QED
  BY <1>1, FromDefined DEF Linked, Forward

\* What holds where nothing is linked, and of a case if it holds of the next
\* one, holds of all.
LEMMA AlongLinks ==
  ASSUME NEW nc, Forward(nc), NEW G,
         \A c \in Stmt : nc[c] \in G \/ nc[c] = None => c \in G
  PROVE  Stmt \subseteq G
<1> DEFINE B == {c \in Stmt : c \notin G}
<1>1. ASSUME B # {} PROVE FALSE
  <2>1. B \subseteq 1 .. MaxStmts /\ MaxStmts \in Nat
    BY BoundsAssumption DEF Stmt
  <2>2. PICK c \in B : \A d \in B : d <= c
    <3> HIDE DEF B
    <3> QED
      BY <1>1, <2>1, LargestInInterval
  <2>3. nc[c] \in StmtOrNone /\ (nc[c] = None \/ c < nc[c]) /\ ~(nc[c] \in G \/ nc[c] = None)
    BY DEF Forward
  <2>4. nc[c] \in B
    BY <2>3 DEF StmtOrNone
  <2> QED
    BY <2>1, <2>2, <2>3, <2>4
<1> QED
  BY <1>1

Member(q, l) == \E i \in DOMAIN q : q[i].stmt = l

\* A case before others: what it does to their list.
LEMMA Prefixed ==
  ASSUME NEW q \in Seq(CaseOf), NEW x \in CaseOf, NEW y \in CaseOf
  PROVE  /\ << x >> \o q \in Seq(CaseOf)
         /\ << x >> \o Append(q, y) = Append(<< x >> \o q, y)
         /\ \A l : Member(<< x >> \o q, l) <=> x.stmt = l \/ Member(q, l)
<1>1. << x >> \o Append(q, y) = Append(<< x >> \o q, y)
  OBVIOUS
<1>2. /\ << x >> \o q \in Seq(CaseOf) /\ Len(<< x >> \o q) = Len(q) + 1 /\ Len(q) \in Nat
      /\ DOMAIN q = 1 .. Len(q) /\ DOMAIN (<< x >> \o q) = 1 .. Len(q) + 1
      /\ (<< x >> \o q)[1] = x /\ \A i \in 1 .. Len(q) : (<< x >> \o q)[i + 1] = q[i]
  OBVIOUS
<1>3. ASSUME NEW l PROVE Member(<< x >> \o q, l) <=> x.stmt = l \/ Member(q, l)
  <2> PICK r : r = << x >> \o q
    OBVIOUS
  <2>1. /\ Len(q) \in Nat /\ DOMAIN q = 1 .. Len(q) /\ DOMAIN r = 1 .. Len(q) + 1
        /\ r[1] = x /\ \A i \in 1 .. Len(q) : r[i + 1] = q[i]
    BY <1>2
  <2>2. \A j \in 1 .. Len(q) + 1 : j = 1 \/ (j - 1 \in 1 .. Len(q) /\ (j - 1) + 1 = j)
    BY <2>1
  <2>3. \A i \in 1 .. Len(q) : i + 1 \in 1 .. Len(q) + 1
    BY <2>1
  <2>4. 1 \in 1 .. Len(q) + 1
    BY <2>1
  <2>5. Member(r, l) => x.stmt = l \/ Member(q, l)
    BY <2>1, <2>2 DEF Member
  <2>6. x.stmt = l \/ Member(q, l) => Member(r, l)
    BY <2>1, <2>3, <2>4 DEF Member
  <2> QED
    BY <2>5, <2>6
<1> QED
  BY <1>1, <1>2, <1>3

\* A chain lists cases with their values.
LEMMA FromType ==
  ASSUME NEW nc, Forward(nc), NEW cv \in [Stmt -> Int]
  PROVE  \A c \in StmtOrNone : FromOf(nc, cv)[c] \in Seq(CaseOf)
<1> DEFINE f == FromOf(nc, cv)
           G == {c \in Stmt : f[c] \in Seq(CaseOf)}
<1>1. f[None] \in Seq(CaseOf)
  <2>1. f[None] = << >>
    BY FromStep
  <2> HIDE DEF f
  <2> QED
    BY <2>1
<1>2. ASSUME NEW c \in Stmt, nc[c] \in G \/ nc[c] = None PROVE c \in G
  <2>1. f[nc[c]] \in Seq(CaseOf)
    BY <1>1, <1>2
  <2>2. [stmt |-> c, value |-> cv[c]] \in CaseOf
    BY DEF CaseOf
  <2>3. f[c] = << [stmt |-> c, value |-> cv[c]] >> \o f[nc[c]]
    BY FromStep
  <2> HIDE DEF f
  <2>4. << [stmt |-> c, value |-> cv[c]] >> \o f[nc[c]] \in Seq(CaseOf)
    BY <2>1, <2>2, Prefixed
  <2> QED
    BY <2>3, <2>4
<1>3. Stmt \subseteq G
  <2> HIDE DEF G
  <2> QED
    BY <1>2, AlongLinks
<1> QED
  BY <1>1, <1>3 DEF StmtOrNone

\* A case in a list.
Entry(c, v) == [stmt |-> c, value |-> v]

\* Statement h is linked after case l, the last one of its list; with no l
\* nothing is linked to it.
LinksTo(nc, cv, l, h, v, nd, cw) ==
    /\ nc \in [Stmt -> StmtOrNone] /\ Forward(nc) /\ cv \in [Stmt -> Int]
    /\ h \in Stmt /\ v \in Int /\ l \in StmtOrNone
    /\ nc[h] = None /\ \A c \in Stmt : nc[c] # h
    /\ l # None => l < h /\ nc[l] = None
    /\ nd = IF l = None THEN nc ELSE [nc EXCEPT ![l] = h]
    /\ cw = [cv EXCEPT ![h] = v]

\* This puts it at the end of the lists with l and changes no other.
LEMMA FromLinked ==
  ASSUME NEW nc, NEW cv, NEW h, NEW v, NEW l, NEW nd, NEW cw, LinksTo(nc, cv, l, h, v, nd, cw)
  PROVE  /\ Forward(nd)
         /\ FromOf(nd, cw)[h] = << Entry(h, v) >>
         /\ \A c \in StmtOrNone \ {h} :
               FromOf(nd, cw)[c] = IF Member(FromOf(nc, cv)[c], l)
                                   THEN Append(FromOf(nc, cv)[c], Entry(h, v))
                                   ELSE FromOf(nc, cv)[c]
<1> USE DEF LinksTo
<1> DEFINE f == FromOf(nc, cv)
           g == FromOf(nd, cw)
           y == Entry(h, v)
           Same(c) == g[c] = IF Member(f[c], l) THEN Append(f[c], y) ELSE f[c]
           G == {c \in Stmt : c # h => Same(c)}
<1>0. h \in Int /\ h # None /\ y \in CaseOf /\ (\A c \in Stmt : c # None)
  BY DEF Stmt, None, CaseOf, Entry
<1>1. /\ \A c \in Stmt : nd[c] = IF c = l THEN h ELSE nc[c]
      /\ \A c \in Stmt : cw[c] = IF c = h THEN v ELSE cv[c]
      /\ cw \in [Stmt -> Int]
  BY <1>0 DEF StmtOrNone
<1>2. Forward(nd)
  BY <1>0, <1>1 DEF Forward, StmtOrNone
<1>3. /\ f[None] = << >> /\ g[None] = << >>
      /\ \A c \in Stmt : /\ nc[c] \in StmtOrNone /\ nd[c] \in StmtOrNone
                         /\ f[c] = << [stmt |-> c, value |-> cv[c]] >> \o f[nc[c]]
                         /\ g[c] = << [stmt |-> c, value |-> cw[c]] >> \o g[nd[c]]
  <2>1. /\ f[None] = << >>
        /\ \A c \in Stmt : /\ nc[c] \in StmtOrNone
                           /\ f[c] = << [stmt |-> c, value |-> cv[c]] >> \o f[nc[c]]
    BY FromStep
  <2>2. /\ g[None] = << >>
        /\ \A c \in Stmt : /\ nd[c] \in StmtOrNone
                           /\ g[c] = << [stmt |-> c, value |-> cw[c]] >> \o g[nd[c]]
    BY <1>2, FromStep
  <2> HIDE DEF f, g
  <2> QED
    BY <2>1, <2>2
<1>4. \A c \in StmtOrNone : f[c] \in Seq(CaseOf) /\ g[c] \in Seq(CaseOf)
  BY <1>1, <1>2, FromType
<1> HIDE DEF f, g
<1>5. g[h] = << y >>
  <2>1. nd[h] = None /\ cw[h] = v
    BY <1>0, <1>1
  <2>2. g[h] = << y >> \o << >>
    BY <1>3, <2>1 DEF Entry
  <2> QED
    BY <1>0, <2>2
<1>6. Same(None)
  BY <1>3 DEF Member
<1>7. ASSUME NEW c \in Stmt, nc[c] \in G \/ nc[c] = None, c # h PROVE Same(c)
  <2> PICK x : x = [stmt |-> c, value |-> cv[c]]
    OBVIOUS
  <2>1. x \in CaseOf /\ x.stmt = c
    BY DEF CaseOf
  <2>2. f[c] = << x >> \o f[nc[c]] /\ g[c] = << x >> \o g[nd[c]]
    BY <1>1, <1>3, <1>7
  <2>3. f[nc[c]] \in Seq(CaseOf)
    BY <1>3, <1>4
  <2>4. CASE c = l
    <3>1. f[nc[c]] = << >> /\ g[nd[c]] = << y >>
      BY <1>0, <1>1, <1>3, <1>5, <2>4
    <3>2. << >> \in Seq(CaseOf) /\ Append(<< >>, y) = << y >>
      BY <1>0
    <3>3. << x >> \o Append(<< >>, y) = Append(<< x >> \o << >>, y)
      BY <1>0, <2>1, <3>2, Prefixed
    <3>4. Member(<< x >> \o << >>, l)
      BY <1>0, <2>1, <2>4, <3>2, Prefixed
    <3> HIDE DEF y
    <3> QED
      BY <2>2, <3>1, <3>2, <3>3, <3>4
  <2>5. CASE c # l
    <3>1. nd[c] = nc[c] /\ nc[c] # h
      BY <1>1, <2>5
    <3>2. Same(nc[c])
      BY <1>6, <1>7, <3>1
    <3>3. Member(f[c], l) <=> Member(f[nc[c]], l)
      BY <1>0, <2>1, <2>2, <2>3, <2>5, Prefixed
    <3>4. << x >> \o Append(f[nc[c]], y) = Append(<< x >> \o f[nc[c]], y)
      BY <1>0, <2>1, <2>3, Prefixed
    <3> HIDE DEF y
    <3> QED
      BY <2>2, <3>1, <3>2, <3>3, <3>4
  <2> QED
    BY <2>4, <2>5
<1>8. Stmt \subseteq G
  <2>1. \A c \in Stmt : nc[c] \in G \/ nc[c] = None => c \in G
    <3> HIDE DEF Same
    <3> QED
      BY <1>7
  <2> HIDE DEF G
  <2> QED
    BY <2>1, AlongLinks
<1>9. \A c \in StmtOrNone \ {h} : Same(c)
  <2> HIDE DEF Same
  <2> QED
    BY <1>6, <1>8 DEF StmtOrNone
<1> QED
  BY <1>2, <1>5, <1>9 DEF f, g

-----------------------------------------------------------------------------
(* The links                                                               *)

\* The case that ends a list.
LastIs(l, q) == IF q = << >> THEN l = None ELSE l = q[Len(q)].stmt

\* Links lead forward to statements met, a list of cases ends where nothing is
\* linked, and no case is in two of them.
CasesInv ==
    /\ \A c \in Stmt : /\ nextCase[c] = None \/ (c < nextCase[c] /\ nextCase[c] <= count)
                       /\ firstCase[c] <= count
                       /\ count < c => nextCase[c] = None /\ firstCase[c] = None
    /\ \A s \in Stmt : Chain(s) # << >> => nextCase[Chain(s)[Len(Chain(s))].stmt] = None
    /\ \A s, c \in Stmt : Member(Chain(s), c) => c <= count
    /\ \A s, t \in Stmt : s # t => \A c \in Stmt : ~(Member(Chain(s), c) /\ Member(Chain(t), c))

\* l ends the list of switch w.
EndsList(l, w) == \A s \in Stmt : s = w => LastIs(l, Chain(s))

\* last_case ends the list of the current switch, and what a switch saved of it
\* ends that of the switch around it.
LastInv ==
    /\ EndsList(ctx.lastCase, ctx.sw)
    /\ \A n \in 1 .. Len(stack) :
          stack[n].kind = "switch" => EndsList(stack[n].saved.lastCase, stack[n].saved.sw)

\* The switches around a statement were met in the order they are nested.
OrderInv ==
    /\ ctx.sw <= count
    /\ \A n \in 1 .. Len(stack) : stack[n].kind = "switch" =>
          /\ stack[n].saved.sw < stack[n].id /\ stack[n].id <= ctx.sw
          /\ \A m \in 1 .. n - 1 : stack[m].kind = "switch" => stack[m].id <= stack[n].saved.sw

\* The links of a switch give a list of its cases.
LEMMA ChainType ==
  ASSUME TypeOK, CasesInv
  PROVE  /\ Forward(nextCase)
         /\ \A s \in Stmt : /\ Chain(s) \in Seq(CaseOf)
                            /\ firstCase[s] = None => Chain(s) = << >>
<1>1. Forward(nextCase) /\ caseValue \in [Stmt -> Int] /\ firstCase \in [Stmt -> StmtOrNone]
  BY DEF TypeOK, CasesInv, Forward
<1> QED
  BY <1>1, FromType, FromStep, ChainIs

LEMMA ChainSame ==
  ASSUME UNCHANGED << firstCase, nextCase, caseValue >>
  PROVE  \A s : Chain(s)' = Chain(s)
BY ChainIs

\* A case more at the end of a list.
LEMMA Appended ==
  ASSUME NEW q \in Seq(CaseOf), NEW y \in CaseOf
  PROVE  /\ Append(q, y) \in Seq(CaseOf) /\ Append(q, y) # << >>
         /\ Append(q, y)[Len(Append(q, y))] = y
         /\ \A l : Member(Append(q, y), l) <=> Member(q, l) \/ y.stmt = l
<1>1. /\ Append(q, y) \in Seq(CaseOf) /\ Len(Append(q, y)) = Len(q) + 1 /\ Len(q) \in Nat
      /\ DOMAIN q = 1 .. Len(q) /\ DOMAIN Append(q, y) = 1 .. Len(q) + 1
      /\ Append(q, y)[Len(q) + 1] = y /\ \A i \in 1 .. Len(q) : Append(q, y)[i] = q[i]
  OBVIOUS
<1>2. Append(q, y) # << >>
  BY <1>1
<1> QED
  BY <1>1, <1>2 DEF Member

\* The last case of a list is one of it.
LEMMA LastMember ==
  ASSUME NEW q \in Seq(CaseOf), q # << >>
  PROVE  q[Len(q)].stmt \in Stmt /\ Member(q, q[Len(q)].stmt)
<1>1. Len(q) \in DOMAIN q /\ q[Len(q)] \in CaseOf
  OBVIOUS
<1> QED
  BY <1>1 DEF Member, CaseOf

\* Linking a case puts it at the end of the list of its switch.
LEMMA LinkingCase ==
  ASSUME TypeOK, CasesInv, LastInv, OrderInv, ctx.sw # None, count < MaxStmts,
         NEW v \in Int, LinkCase(v)
  PROVE  /\ Forward(nextCase')
         /\ \A s \in Stmt : Chain(s)' = IF s = ctx.sw
                                        THEN Append(Chain(s), Entry(Here, v))
                                        ELSE Chain(s)
<1> PICK l : l = ctx.lastCase
  OBVIOUS
<1> PICK w : w = ctx.sw
  OBVIOUS
<1>1. /\ w \in Stmt /\ l \in StmtOrNone /\ Here \in Stmt /\ count \in Nat /\ Here = count + 1
      /\ nextCase \in [Stmt -> StmtOrNone] /\ firstCase \in [Stmt -> StmtOrNone]
      /\ caseValue \in [Stmt -> Int]
  BY HereType DEF TypeOK, Context, StmtOrNone, Here
<1>2. /\ LastIs(l, Chain(w)) /\ w <= count
      /\ Forward(nextCase) /\ \A s \in Stmt : Chain(s) \in Seq(CaseOf)
  BY <1>1, ChainType DEF LastInv, EndsList, OrderInv
<1>3. l # None => l \in Stmt /\ l < Here /\ nextCase[l] = None /\ Member(Chain(w), l)
  <2>1. l # None => l = Chain(w)[Len(Chain(w))].stmt /\ Chain(w) # << >>
    BY <1>2 DEF LastIs
  <2>2. l # None => l \in Stmt /\ Member(Chain(w), l)
    BY <1>1, <1>2, <2>1, LastMember
  <2>3. l # None => l <= count /\ nextCase[l] = None
    BY <1>1, <2>1, <2>2 DEF CasesInv
  <2> QED
    BY <1>1, <2>2, <2>3 DEF StmtOrNone, Stmt
<1>4. nextCase[Here] = None /\ \A c \in Stmt : nextCase[c] # Here
  <2>1. count < Here /\ Here # None /\ \A c \in Stmt : nextCase[c] = None \/ nextCase[c] <= count
    BY <1>1 DEF CasesInv, None
  <2>2. \A c \in Stmt : nextCase[c] \in Int
    BY <1>1 DEF StmtOrNone, Stmt, None
  <2> QED
    BY <1>1, <2>1, <2>2 DEF CasesInv
<1>5. /\ nextCase' = IF l = None THEN nextCase ELSE [nextCase EXCEPT ![l] = Here]
      /\ caseValue' = [caseValue EXCEPT ![Here] = v]
      /\ firstCase' = IF l = None THEN [firstCase EXCEPT ![w] = Here] ELSE firstCase
  BY DEF LinkCase
<1>6. /\ Forward(nextCase')
      /\ FromOf(nextCase', caseValue')[Here] = << Entry(Here, v) >>
      /\ \A c \in StmtOrNone \ {Here} :
            FromOf(nextCase', caseValue')[c] =
               IF Member(FromOf(nextCase, caseValue)[c], l)
               THEN Append(FromOf(nextCase, caseValue)[c], Entry(Here, v))
               ELSE FromOf(nextCase, caseValue)[c]
  <2> PICK nd : nd = nextCase'
    OBVIOUS
  <2> PICK cw : cw = caseValue'
    OBVIOUS
  <2>1. nd = IF l = None THEN nextCase ELSE [nextCase EXCEPT ![l] = Here]
    BY <1>5
  <2>2. cw = [caseValue EXCEPT ![Here] = v]
    BY <1>5
  <2>3. Forward(nextCase) /\ (l # None => l < Here /\ nextCase[l] = None)
    BY <1>2, <1>3
  <2>4. /\ Forward(nd)
        /\ FromOf(nd, cw)[Here] = << Entry(Here, v) >>
        /\ \A c \in StmtOrNone \ {Here} :
              FromOf(nd, cw)[c] = IF Member(FromOf(nextCase, caseValue)[c], l)
                                  THEN Append(FromOf(nextCase, caseValue)[c], Entry(Here, v))
                                  ELSE FromOf(nextCase, caseValue)[c]
    <3>1. LinksTo(nextCase, caseValue, l, Here, v, nd, cw)
      BY <1>1, <1>4, <2>1, <2>2, <2>3 DEF LinksTo
    <3> QED
      BY <3>1, FromLinked
  <2> QED
    BY <2>4
<1>7. ASSUME NEW s \in Stmt, firstCase'[s] = firstCase[s]
      PROVE  Chain(s)' = IF Member(Chain(s), l) THEN Append(Chain(s), Entry(Here, v))
                         ELSE Chain(s)
  <2>1. firstCase[s] \in StmtOrNone \ {Here}
    <3>1. firstCase[s] <= count /\ firstCase[s] \in StmtOrNone
      BY <1>1 DEF CasesInv
    <3> QED
      BY <1>1, <3>1 DEF StmtOrNone
  <2> PICK c : c = firstCase[s]
    OBVIOUS
  <2>2. Chain(s) = FromOf(nextCase, caseValue)[c] /\ Chain(s)' = FromOf(nextCase', caseValue')[c]
    BY <1>7, ChainIs
  <2> QED
    BY <1>6, <2>1, <2>2, Zenon
<1>8. CASE l = None
  <2>1. \A s \in Stmt : ~Member(Chain(s), l)
    <3>1. \A s \in Stmt : \A i \in DOMAIN Chain(s) : Chain(s)[i] \in CaseOf
      BY <1>2
    <3> QED
      BY <1>8, <3>1 DEF CaseOf, Stmt, Member, None
  <2>2. Chain(w)' = << Entry(Here, v) >>
    BY <1>1, <1>5, <1>6, <1>8, ChainIs
  <2>3. Chain(w) = << >>
    <3>1. Chain(w) # << >> => l \in Stmt
      BY <1>1, <1>2, LastMember DEF LastIs
    <3> QED
      BY <1>8, <3>1 DEF Stmt, None
  <2>4. Append(<< >>, Entry(Here, v)) = << Entry(Here, v) >>
    OBVIOUS
  <2>5. \A s \in Stmt : s # w => firstCase'[s] = firstCase[s]
    BY <1>1, <1>5, <1>8
  <2> QED
    BY <1>6, <1>7, <2>1, <2>2, <2>3, <2>4, <2>5
<1>9. CASE l # None
  <2>1. \A s \in Stmt : Member(Chain(s), l) <=> s = w
    BY <1>1, <1>3, <1>9 DEF CasesInv
  <2> QED
    BY <1>5, <1>6, <1>7, <1>9, <2>1
<1> QED
  BY <1>8, <1>9

\* It keeps the lists in order.
LEMMA LinkingCases ==
  ASSUME TypeOK, CasesInv, LastInv, OrderInv, ctx.sw # None, count < MaxStmts, count' = Here,
         NEW v \in Int, LinkCase(v)
  PROVE  CasesInv'
<1> PICK l : l = ctx.lastCase
  OBVIOUS
<1> PICK w : w = ctx.sw
  OBVIOUS
<1> PICK y : y = Entry(Here, v)
  OBVIOUS
<1>1. /\ w \in Stmt /\ l \in StmtOrNone /\ Here \in Stmt /\ count \in Nat /\ Here = count + 1
      /\ nextCase \in [Stmt -> StmtOrNone] /\ firstCase \in [Stmt -> StmtOrNone]
      /\ y \in CaseOf /\ y.stmt = Here
      /\ \A c \in Stmt : c \in Nat /\ c # None
  <2>1. w \in Stmt /\ l \in StmtOrNone
    BY DEF TypeOK, Context, StmtOrNone
  <2>2. Here \in Stmt /\ count \in Nat /\ Here = count + 1
    BY HereType DEF TypeOK, Here
  <2>3. y \in CaseOf /\ y.stmt = Here
    BY <2>2 DEF CaseOf, Entry
  <2>4. \A c \in Stmt : c \in Nat /\ c # None
    BY DEF Stmt, None
  <2> QED
    BY <2>1, <2>2, <2>3, <2>4 DEF TypeOK
<1>2. /\ LastIs(l, Chain(w)) /\ w <= count
      /\ \A s \in Stmt : Chain(s) \in Seq(CaseOf)
  BY <1>1, ChainType DEF LastInv, EndsList, OrderInv
<1>3. l # None => l \in Stmt /\ l <= count /\ Member(Chain(w), l)
  <2>1. l # None => l = Chain(w)[Len(Chain(w))].stmt /\ Chain(w) # << >>
    BY <1>2 DEF LastIs
  <2>2. l # None => l \in Stmt /\ Member(Chain(w), l)
    BY <1>1, <1>2, <2>1, LastMember
  <2> QED
    BY <1>1, <2>2 DEF CasesInv
<1>4. /\ nextCase' = IF l = None THEN nextCase ELSE [nextCase EXCEPT ![l] = Here]
      /\ firstCase' = IF l = None THEN [firstCase EXCEPT ![w] = Here] ELSE firstCase
  BY DEF LinkCase
<1>5. \A s \in Stmt : Chain(s)' = IF s = w THEN Append(Chain(s), y) ELSE Chain(s)
  BY LinkingCase
<1>6. ASSUME NEW c \in Stmt
      PROVE  /\ nextCase'[c] = None \/ (c < nextCase'[c] /\ nextCase'[c] <= count')
             /\ firstCase'[c] <= count'
             /\ count' < c => nextCase'[c] = None /\ firstCase'[c] = None
  <2>1. /\ nextCase[c] = None \/ (c < nextCase[c] /\ nextCase[c] <= count)
        /\ firstCase[c] <= count
        /\ count < c => nextCase[c] = None /\ firstCase[c] = None
    BY DEF CasesInv
  <2>2. nextCase[c] \in Nat /\ firstCase[c] \in Nat
    BY <1>1 DEF StmtOrNone, Stmt, None
  <2>3. nextCase'[c] = IF l = c THEN Here ELSE nextCase[c]
    BY <1>1, <1>4
  <2>4. firstCase'[c] = firstCase[c] \/ (c = w /\ firstCase'[c] = Here)
    BY <1>1, <1>4
  <2> QED
    BY <1>1, <1>2, <1>3, <2>1, <2>2, <2>3, <2>4
<1>7. ASSUME NEW s \in Stmt, Chain(s)' # << >>
      PROVE  nextCase'[Chain(s)'[Len(Chain(s)')].stmt] = None
  <2>1. CASE s = w
    <3>1. Chain(s)' = Append(Chain(s), y)
      BY <1>5, <2>1
    <3>2. Chain(s)'[Len(Chain(s)')] = y
      BY <1>1, <1>2, <3>1, Appended
    <3>3. nextCase[Here] = None /\ Here # l
      BY <1>1, <1>3 DEF CasesInv
    <3> QED
      BY <1>1, <1>4, <3>2, <3>3
  <2>2. CASE s # w
    <3>1. Chain(s)' = Chain(s)
      BY <1>5, <2>2
    <3> PICK x : x = Chain(s)[Len(Chain(s))].stmt
      OBVIOUS
    <3>2. x \in Stmt /\ Member(Chain(s), x) /\ nextCase[x] = None
      BY <1>2, <1>7, <3>1, LastMember DEF CasesInv
    <3>3. x # l
      BY <1>1, <1>3, <2>2, <3>2 DEF CasesInv
    <3>4. nextCase'[x] = None
      BY <1>1, <1>4, <3>2, <3>3
    <3> QED
      BY <3>1, <3>4
  <2> QED
    BY <2>1, <2>2
<1>8. ASSUME NEW s \in Stmt, NEW c \in Stmt
      PROVE  Member(Chain(s)', c) <=> Member(Chain(s), c) \/ (s = w /\ c = Here)
  <2>1. CASE s = w
    <3>1. Chain(s)' = Append(Chain(s), y) /\ Chain(s) \in Seq(CaseOf)
      BY <1>2, <1>5, <2>1
    <3>2. Member(Append(Chain(s), y), c) <=> Member(Chain(s), c) \/ y.stmt = c
      BY <1>1, <3>1, Appended
    <3> QED
      BY <1>1, <2>1, <3>1, <3>2
  <2>2. CASE s # w
    BY <1>5, <2>2
  <2> QED
    BY <2>1, <2>2
<1>9. \A s, c \in Stmt : Member(Chain(s)', c) => c <= count'
  BY <1>1, <1>8 DEF CasesInv
<1>10. ASSUME NEW s \in Stmt, NEW t \in Stmt, s # t, NEW c \in Stmt
       PROVE  ~(Member(Chain(s)', c) /\ Member(Chain(t)', c))
  <2>1. ~(Member(Chain(s), c) /\ Member(Chain(t), c))
    BY <1>10 DEF CasesInv
  <2>2. ~Member(Chain(s), Here) /\ ~Member(Chain(t), Here)
    BY <1>1 DEF CasesInv
  <2> QED
    BY <1>8, <1>10, <2>1, <2>2
<1> QED
  BY <1>6, <1>7, <1>9, <1>10 DEF CasesInv, Member

\* A statement that links nothing leaves the lists as they are.
LEMMA CasesSame ==
  ASSUME TypeOK, CasesInv, UNCHANGED << firstCase, nextCase, caseValue >>, count' \in {count, Here}
  PROVE  CasesInv'
<1>1. \A s : Chain(s)' = Chain(s)
  BY ChainSame
<1>2. /\ count \in Nat /\ count' \in Nat /\ count <= count' /\ \A c \in Stmt : c \in Nat
      /\ \A c \in Stmt : nextCase[c] \in Nat /\ firstCase[c] \in Nat
  <2>1. count \in Nat /\ count' \in Nat /\ count <= count'
    BY DEF TypeOK, Here
  <2>2. \A c \in Stmt : c \in Nat
    BY DEF Stmt
  <2>3. \A c \in StmtOrNone : c \in Nat
    BY DEF Stmt, StmtOrNone, None
  <2>4. \A c \in Stmt : nextCase[c] \in StmtOrNone /\ firstCase[c] \in StmtOrNone
    BY DEF TypeOK
  <2> QED
    BY <2>1, <2>2, <2>3, <2>4
<1>3. ASSUME NEW c \in Stmt
      PROVE  /\ nextCase'[c] = None \/ (c < nextCase'[c] /\ nextCase'[c] <= count')
             /\ firstCase'[c] <= count'
             /\ count' < c => nextCase'[c] = None /\ firstCase'[c] = None
  BY <1>2 DEF CasesInv
<1>4. \A s \in Stmt : Chain(s)' # << >> => nextCase'[Chain(s)'[Len(Chain(s)')].stmt] = None
  BY <1>1 DEF CasesInv
<1>5. \A s, c \in Stmt : Member(Chain(s)', c) => c <= count'
  BY <1>1, <1>2 DEF CasesInv
<1>6. \A s, t \in Stmt : s # t => \A c \in Stmt : ~(Member(Chain(s)', c) /\ Member(Chain(t)', c))
  BY <1>1 DEF CasesInv
<1> QED
  BY <1>3, <1>4, <1>5, <1>6 DEF CasesInv, Member

-----------------------------------------------------------------------------
(* The switches under way                                                  *)

\* The calls that analyse a switch are ones that did before.
SwitchesStay ==
    \A i \in 1 .. Len(stack') : stack'[i].kind = "switch" =>
       /\ i \in 1 .. Len(stack) /\ stack[i].kind = "switch"
       /\ stack[i].id = stack'[i].id /\ stack[i].saved = stack'[i].saved

\* What the frames of switches hold.
LEMMA SwitchFrame ==
  ASSUME TypeOK, NEW n \in 1 .. Len(stack)
  PROVE  stack[n].saved.sw \in StmtOrNone /\ stack[n].id \in StmtOrNone
<1>1. stack[n] \in Call_
  BY DEF TypeOK
<1> QED
  BY <1>1 DEF Call_, Context

LEMMA OrderKept ==
  ASSUME TypeOK, OrderInv, SwitchesStay, ctx'.sw = ctx.sw, count' \in {count, Here}
  PROVE  OrderInv'
<1>1. ctx'.sw <= count'
  <2>1. ctx.sw \in Nat /\ count \in Nat
    BY DEF TypeOK, Context, StmtOrNone, Stmt, None
  <2> QED
    BY <2>1 DEF OrderInv, Here
<1>2. ASSUME NEW n \in 1 .. Len(stack'), stack'[n].kind = "switch"
      PROVE  /\ stack'[n].saved.sw < stack'[n].id /\ stack'[n].id <= ctx'.sw
             /\ \A m \in 1 .. n - 1 : stack'[m].kind = "switch" => stack'[m].id <= stack'[n].saved.sw
  <2>1. /\ n \in 1 .. Len(stack) /\ stack[n].kind = "switch"
        /\ stack[n].id = stack'[n].id /\ stack[n].saved = stack'[n].saved
    BY <1>2 DEF SwitchesStay
  <2>2. \A m \in 1 .. n - 1 : m \in 1 .. Len(stack')
    BY <2>1
  <2> QED
    BY <2>1, <2>2 DEF SwitchesStay, OrderInv
<1> QED
  BY <1>1, <1>2 DEF OrderInv

LEMMA LastKept ==
  ASSUME LastInv, SwitchesStay, ctx'.sw = ctx.sw, ctx'.lastCase = ctx.lastCase,
         UNCHANGED << firstCase, nextCase, caseValue >>
  PROVE  LastInv'
<1>1. \A s : Chain(s)' = Chain(s)
  BY ChainSame
<1>2. EndsList(ctx.lastCase, ctx.sw)'
  BY <1>1 DEF LastInv, EndsList
<1>3. ASSUME NEW n \in 1 .. Len(stack'), stack'[n].kind = "switch"
      PROVE  EndsList(stack[n].saved.lastCase, stack[n].saved.sw)'
  <2>1. /\ n \in 1 .. Len(stack) /\ stack[n].kind = "switch"
        /\ stack[n].saved = stack'[n].saved
    BY <1>3 DEF SwitchesStay
  <2> QED
    BY <1>1, <2>1 DEF LastInv, EndsList
<1> QED
  BY <1>2, <1>3 DEF LastInv

\* Meeting a statement that has no body, and entering one that is no switch.
LEMMA MeetStays ==
  ASSUME TypeOK, MayMeet, stack' = Analyzing
  PROVE  SwitchesStay
BY AnalyzingType DEF SwitchesStay

LEMMA CallStays ==
  ASSUME TypeOK, MayMeet, NEW k \in CallKind, k # "switch",
         NEW id \in StmtOrNone, NEW due \in Nat, stack' = Called(k, id, due)
  PROVE  SwitchesStay
<1> DEFINE n == Len(stack)
<1>1. /\ n \in Nat /\ Len(stack') = n + 1 /\ stack'[n + 1].kind = k
      /\ \A i \in 1 .. n : /\ stack[i].kind = stack'[i].kind /\ stack[i].id = stack'[i].id
                            /\ stack[i].saved = stack'[i].saved
  BY CalledType DEF TypeOK
<1>2. \A i \in 1 .. n + 1 : i \in 1 .. n \/ i = n + 1
  BY <1>1
<1> QED
  BY <1>1, <1>2 DEF SwitchesStay

\* Entering a switch: its list is still empty.
LEMMA SwitchLast ==
  ASSUME TypeOK, CasesInv, LastInv, OrderInv, NEW ty, Switch(ty)
  PROVE  LastInv' /\ OrderInv'
<1> DEFINE n == Len(stack)
<1>1. /\ MayMeet /\ stack' = Called("switch", Here, 1) /\ count' = Here /\ count < MaxStmts
      /\ ctx' = [ctx EXCEPT !.breakable = Here, !.sw = Here, !.lastCase = None]
      /\ UNCHANGED << firstCase, nextCase, caseValue >>
  BY DEF Switch, Call
<1>2. /\ Here \in Stmt /\ Here = count + 1 /\ count \in Nat /\ ctx.sw \in Nat /\ ctx \in Context
  <2>1. ctx.sw \in StmtOrNone
    BY DEF TypeOK, Context
  <2> QED
    BY <1>1, <2>1, HereType DEF Here, TypeOK, Context, StmtOrNone, Stmt, None
<1>3. /\ n \in Nat /\ Len(stack') = n + 1
      /\ stack'[n + 1].id = Here /\ stack'[n + 1].saved = ctx
      /\ \A i \in 1 .. n : /\ stack[i].kind = stack'[i].kind /\ stack[i].id = stack'[i].id
                            /\ stack[i].saved = stack'[i].saved
  <2>1. "switch" \in CallKind /\ Here \in StmtOrNone /\ 1 \in Nat /\ n \in Nat
    BY <1>2 DEF CallKind, StmtOrNone, TypeOK
  <2> QED
    BY <1>1, <2>1, CalledType
<1>4. ctx'.sw = Here /\ ctx'.lastCase = None
  BY <1>1, <1>2 DEF Context
<1>5. \A i \in 1 .. n + 1 : i \in 1 .. n \/ i = n + 1
  BY <1>3
<1>6. \A i \in 1 .. n : stack[i].id \in Nat
  BY SwitchFrame DEF StmtOrNone, Stmt, None
<1>7. \A s : Chain(s)' = Chain(s)
  BY <1>1, ChainSame
<1> HIDE DEF n
<1>8. OrderInv'
  <2>1. ctx'.sw <= count'
    BY <1>1, <1>2, <1>4
  <2>2. ASSUME NEW i \in 1 .. n, stack'[i].kind = "switch"
        PROVE  /\ stack'[i].saved.sw < stack'[i].id /\ stack'[i].id <= ctx'.sw
               /\ \A m \in 1 .. i - 1 : stack'[m].kind = "switch" => stack'[m].id <= stack'[i].saved.sw
    <3>1. /\ stack[i].saved.sw < stack[i].id /\ stack[i].id <= ctx.sw /\ ctx.sw <= count
          /\ \A m \in 1 .. i - 1 : stack[m].kind = "switch" => stack[m].id <= stack[i].saved.sw
      BY <1>3, <2>2 DEF OrderInv, n
    <3>2. \A m \in 1 .. i - 1 : m \in 1 .. n
      BY <1>3
    <3>3. stack[i].id <= Here
      BY <1>2, <1>6, <3>1
    <3> QED
      BY <1>3, <1>4, <3>1, <3>2, <3>3
  <2>3. /\ stack'[n + 1].saved.sw < stack'[n + 1].id /\ stack'[n + 1].id <= ctx'.sw
        /\ \A m \in 1 .. (n + 1) - 1 : stack'[m].kind = "switch" => stack'[m].id <= stack'[n + 1].saved.sw
    <3>1. ctx.sw < Here /\ Here <= Here /\ (n + 1) - 1 = n
      BY <1>2, <1>3 DEF OrderInv
    <3>2. \A m \in 1 .. n : stack[m].kind = "switch" => stack[m].id <= ctx.sw
      BY DEF OrderInv, n
    <3> QED
      BY <1>3, <1>4, <3>1, <3>2
  <2> QED
    BY <1>3, <1>5, <2>1, <2>2, <2>3 DEF OrderInv
<1>9. LastInv'
  <2>1. EndsList(ctx.lastCase, ctx.sw)'
    <3>1. Chain(Here) = << >>
      BY <1>2, ChainType DEF CasesInv
    <3> QED
      BY <1>4, <1>7, <3>1 DEF EndsList, LastIs
  <2>2. ASSUME NEW i \in 1 .. n + 1, stack'[i].kind = "switch"
        PROVE  EndsList(stack[i].saved.lastCase, stack[i].saved.sw)'
    <3>1. CASE i = n + 1
      <4>1. stack'[i].saved = ctx /\ EndsList(ctx.lastCase, ctx.sw)
        BY <1>3, <3>1 DEF LastInv
      <4> QED
        BY <1>7, <4>1 DEF EndsList
    <3>2. CASE i \in 1 .. n
      <4>1. stack'[i].saved = stack[i].saved /\ EndsList(stack[i].saved.lastCase, stack[i].saved.sw)
        BY <1>3, <2>2, <3>2 DEF LastInv, n
      <4> QED
        BY <1>7, <4>1 DEF EndsList
    <3> QED
      BY <1>5, <3>1, <3>2
  <2> QED
    BY <1>3, <2>1, <2>2 DEF LastInv
<1> QED
  BY <1>8, <1>9

\* Linking a case: it ends the list of the current switch, and the switches
\* around that one are others.
LEMMA LinkingLast ==
  ASSUME TypeOK, CasesInv, LastInv, OrderInv, ctx.sw # None, count < MaxStmts,
         NEW v \in Int, LinkCase(v), SwitchesStay
  PROVE  LastInv'
<1>1. \A s \in Stmt : Chain(s)' = IF s = ctx.sw THEN Append(Chain(s), Entry(Here, v)) ELSE Chain(s)
  BY LinkingCase
<1>2. /\ Here \in Stmt /\ Entry(Here, v) \in CaseOf /\ Entry(Here, v).stmt = Here
      /\ \A s \in Stmt : Chain(s) \in Seq(CaseOf)
  BY HereType, ChainType DEF Entry, CaseOf
<1>3. ctx'.sw = ctx.sw /\ ctx'.lastCase = Here /\ ctx.sw \in Nat
  <2>1. ctx \in Context /\ ctx' = [ctx EXCEPT !.lastCase = Here]
    BY DEF LinkCase, TypeOK
  <2> QED
    BY <2>1 DEF Context, StmtOrNone, Stmt, None
<1>4. EndsList(ctx.lastCase, ctx.sw)'
  <2>1. ASSUME NEW s \in Stmt, s = ctx.sw PROVE LastIs(Here, Chain(s)')
    <3>1. Chain(s)' = Append(Chain(s), Entry(Here, v))
      BY <1>1, <2>1
    <3>2. /\ Chain(s)' # << >> /\ Chain(s)'[Len(Chain(s)')] = Entry(Here, v)
      BY <1>2, <3>1, Appended
    <3> QED
      BY <1>2, <3>2 DEF LastIs
  <2> QED
    BY <1>3, <2>1 DEF EndsList, LastIs
<1>5. ASSUME NEW n \in 1 .. Len(stack'), stack'[n].kind = "switch"
      PROVE  EndsList(stack[n].saved.lastCase, stack[n].saved.sw)'
  <2>1. /\ n \in 1 .. Len(stack) /\ stack[n].kind = "switch"
        /\ stack[n].saved = stack'[n].saved
    BY <1>5 DEF SwitchesStay
  <2>2. stack[n].saved.sw < stack[n].id /\ stack[n].id <= ctx.sw
    BY <2>1 DEF OrderInv
  <2>3. stack[n].saved.sw \in Nat /\ stack[n].id \in Nat
    BY <2>1, SwitchFrame DEF StmtOrNone, Stmt, None
  <2>4. stack[n].saved.sw # ctx.sw
    BY <1>3, <2>2, <2>3
  <2> QED
    BY <1>1, <2>1, <2>4 DEF LastInv, EndsList
<1> QED
  BY <1>4, <1>5 DEF LastInv

\* Returning from a switch puts back what the one around it needs.
LEMMA ReturnLast ==
  ASSUME TypeOK, LastInv, OrderInv, Return
  PROVE  LastInv' /\ OrderInv'
<1> DEFINE n == Len(stack)
           m == n - 1
<1>1. /\ n \in Nat /\ n > 1
      /\ Top \in Call_ /\ Top = stack[n]
      /\ Len(stack') = m /\ \A i \in 1 .. m : stack'[i] = stack[i]
  BY ReturnType
<1>2. /\ ctx' = Restored /\ ctx \in Context /\ Top.saved \in Context
      /\ UNCHANGED << count, firstCase, nextCase, caseValue >>
  BY <1>1 DEF Return, TypeOK, Call_, ast
<1>3. SwitchesStay
  BY <1>1 DEF SwitchesStay
<1>4. CASE Top.kind # "switch"
  <2>1. ctx'.sw = ctx.sw /\ ctx'.lastCase = ctx.lastCase
    BY <1>2, <1>4 DEF Restored, Context
  <2> QED
    BY <1>2, <1>3, <2>1, OrderKept, LastKept
<1>5. CASE Top.kind = "switch"
  <2>1. ctx'.sw = Top.saved.sw /\ ctx'.lastCase = Top.saved.lastCase
    BY <1>2, <1>5 DEF Restored, Context
  <2>2. \A s : Chain(s)' = Chain(s)
    BY <1>2, ChainSame
  <2>3. n \in 1 .. Len(stack) /\ stack[n].kind = "switch" /\ stack[n] = Top
    BY <1>1, <1>5
  <2>4. /\ Top.saved.sw < Top.id /\ Top.id <= ctx.sw /\ ctx.sw <= count
        /\ \A i \in 1 .. n - 1 : stack[i].kind = "switch" => stack[i].id <= Top.saved.sw
    BY <2>3 DEF OrderInv
  <2>5. Top.saved.sw \in Nat /\ Top.id \in Nat /\ ctx.sw \in Nat /\ count \in Nat
    <3>1. Top.saved.sw \in StmtOrNone /\ Top.id \in StmtOrNone /\ ctx.sw \in StmtOrNone
      BY <1>1, <1>2 DEF Call_, Context
    <3> QED
      BY <3>1 DEF TypeOK, StmtOrNone, Stmt, None
  <2>6. OrderInv'
    <3>1. ctx'.sw <= count'
      BY <1>2, <2>1, <2>4, <2>5
    <3>2. ASSUME NEW i \in 1 .. m, stack'[i].kind = "switch"
          PROVE  /\ stack'[i].saved.sw < stack'[i].id /\ stack'[i].id <= ctx'.sw
                 /\ \A j \in 1 .. i - 1 : stack'[j].kind = "switch" => stack'[j].id <= stack'[i].saved.sw
      <4>1. stack'[i] = stack[i] /\ i \in 1 .. n
        BY <1>1
      <4>2. \A j \in 1 .. i - 1 : j \in 1 .. m /\ stack'[j] = stack[j]
        BY <1>1
      <4>3. stack[i].kind = "switch" /\ stack[i].id <= Top.saved.sw
        BY <2>4, <3>2, <4>1
      <4> QED
        BY <2>1, <4>1, <4>2, <4>3 DEF OrderInv
    <3> QED
      BY <1>1, <3>1, <3>2 DEF OrderInv
  <2>7. LastInv'
    <3>1. EndsList(ctx.lastCase, ctx.sw)'
      <4>1. EndsList(Top.saved.lastCase, Top.saved.sw)
        BY <2>3 DEF LastInv
      <4> QED
        BY <2>1, <2>2, <4>1 DEF EndsList
    <3>2. ASSUME NEW i \in 1 .. m, stack'[i].kind = "switch"
          PROVE  EndsList(stack[i].saved.lastCase, stack[i].saved.sw)'
      <4>1. stack'[i] = stack[i] /\ i \in 1 .. n
        BY <1>1
      <4>2. EndsList(stack[i].saved.lastCase, stack[i].saved.sw)
        BY <3>2, <4>1 DEF LastInv
      <4> QED
        BY <2>2, <4>1, <4>2 DEF EndsList
    <3> QED
      BY <1>1, <3>1, <3>2 DEF LastInv
  <2> QED
    BY <2>6, <2>7
<1> QED
  BY <1>4, <1>5

-----------------------------------------------------------------------------
(* The gotos                                                               *)

\* Every goto met is listed once, and has no target until the function ends.
GotosInv ==
    /\ \A i \in 1 .. Len(gotos) : /\ gotos[i].stmt <= count
                                  /\ stack # << >> => target[gotos[i].stmt] = None
    /\ \A i, j \in 1 .. Len(gotos) : gotos[i].stmt = gotos[j].stmt => i = j
    /\ \A s \in Stmt : count < s => target[s] = None

LEMMA GotosType ==
  ASSUME TypeOK
  PROVE  /\ Len(gotos) \in Nat /\ DOMAIN gotos = 1 .. Len(gotos)
         /\ \A i \in 1 .. Len(gotos) : /\ gotos[i].stmt \in Stmt /\ gotos[i].stmt \in Nat
                                       /\ gotos[i].label \in Label
<1> DEFINE Jump == [stmt: Stmt, label: Label]
<1>1. gotos \in Seq(Jump) /\ \A j \in Jump : j.stmt \in Stmt /\ j.stmt \in Nat /\ j.label \in Label
  BY DEF TypeOK, Stmt
<1> HIDE DEF Jump
<1> QED
  BY <1>1

LEMMA GotosSame ==
  ASSUME TypeOK, GotosInv, stack # << >>, UNCHANGED << gotos, target >>, count' \in {count, Here}
  PROVE  GotosInv'
<1>1. count \in Nat /\ count' \in Nat /\ count <= count' /\ \A s \in Stmt : s \in Nat
  BY DEF TypeOK, Here, Stmt
<1>2. \A i \in 1 .. Len(gotos) : gotos[i].stmt \in Nat
  BY GotosType
<1> QED
  BY <1>1, <1>2 DEF GotosInv

LEMMA ReferGotos ==
  ASSUME TypeOK, GotosInv, NEW to, Refer(to)
  PROVE  GotosInv'
<1>1. /\ MayMeet /\ count' = Here /\ target' = [target EXCEPT ![Here] = to] /\ gotos' = gotos
      /\ stack # << >>
  BY DEF Refer, Meet, MayMeet
<1>2. count \in Nat /\ Here = count + 1 /\ \A s \in Stmt : s \in Nat
  BY DEF TypeOK, Here, Stmt
<1>3. \A s \in Stmt : s # Here => target'[s] = target[s]
  BY <1>1 DEF TypeOK
<1>4. \A i \in 1 .. Len(gotos) : gotos[i].stmt \in Nat /\ gotos[i].stmt \in Stmt
  BY GotosType
<1>5. ASSUME NEW i \in 1 .. Len(gotos)
      PROVE  gotos[i].stmt <= count' /\ target'[gotos[i].stmt] = None
  <2>1. gotos[i].stmt <= count /\ target[gotos[i].stmt] = None
    BY <1>1 DEF GotosInv
  <2>2. gotos[i].stmt # Here /\ gotos[i].stmt <= Here
    BY <1>2, <1>4, <2>1
  <2> QED
    BY <1>1, <1>3, <1>4, <2>1, <2>2
<1>6. \A s \in Stmt : count' < s => target'[s] = None
  BY <1>1, <1>2, <1>3 DEF GotosInv
<1> QED
  BY <1>1, <1>5, <1>6 DEF GotosInv

LEMMA GotoGotos ==
  ASSUME TypeOK, GotosInv, NEW l \in Label, Goto(l)
  PROVE  GotosInv'
<1> DEFINE n == Len(gotos)
<1>1. /\ count' = Here /\ target' = target /\ gotos' = Append(gotos, [stmt |-> Here, label |-> l])
      /\ stack # << >> /\ count < MaxStmts
  BY DEF Goto, Meet, MayMeet, ast
<1>2. count \in Nat /\ Here = count + 1 /\ Here \in Stmt /\ \A s \in Stmt : s \in Nat
  BY <1>1, HereType DEF TypeOK, Here, Stmt
<1>3. /\ n \in Nat /\ \A i \in 1 .. n : gotos[i].stmt \in Nat
  BY GotosType
<1>4. /\ Len(gotos') = n + 1 /\ gotos'[n + 1].stmt = Here
      /\ \A i \in 1 .. n : gotos'[i] = gotos[i]
  BY <1>1 DEF TypeOK
<1>5. \A i \in 1 .. n : gotos[i].stmt <= count /\ target[gotos[i].stmt] = None
  BY <1>1 DEF GotosInv
<1>6. \A i, j \in 1 .. n : gotos[i].stmt = gotos[j].stmt => i = j
  BY DEF GotosInv
<1>7. target[Here] = None /\ \A s \in Stmt : count' < s => target'[s] = None
  BY <1>1, <1>2 DEF GotosInv
<1> HIDE DEF n
<1>8. \A i \in 1 .. n + 1 : i \in 1 .. n \/ i = n + 1
  BY <1>3
<1>9. \A i \in 1 .. n : gotos[i].stmt <= Here /\ gotos[i].stmt # Here
  BY <1>2, <1>3, <1>5
<1>10. \A i \in 1 .. n + 1 : gotos'[i].stmt <= count' /\ target'[gotos'[i].stmt] = None
  BY <1>1, <1>2, <1>4, <1>5, <1>7, <1>8, <1>9
<1>11. \A i, j \in 1 .. n + 1 : gotos'[i].stmt = gotos'[j].stmt => i = j
  BY <1>4, <1>6, <1>8, <1>9
<1> QED
  BY <1>4, <1>7, <1>10, <1>11 DEF GotosInv

LEMMA EndGotos ==
  ASSUME TypeOK, GotosInv, ResolveGotos
  PROVE  GotosInv'
<1>1. /\ stack' = << >> /\ UNCHANGED << gotos, count >>
      /\ \A s \in Stmt : ~(\E i \in DOMAIN gotos : gotos[i].stmt = s) => target'[s] = target[s]
  BY DEF ResolveGotos
<1>2. /\ DOMAIN gotos = 1 .. Len(gotos) /\ \A i \in 1 .. Len(gotos) : gotos[i].stmt \in Nat
  BY GotosType
<1>3. count \in Nat /\ \A s \in Stmt : s \in Nat
  BY DEF TypeOK, Stmt
<1>4. ASSUME NEW s \in Stmt, count < s PROVE target'[s] = None
  <2>1. ~(\E i \in DOMAIN gotos : gotos[i].stmt = s)
    BY <1>2, <1>3, <1>4 DEF GotosInv
  <2> QED
    BY <1>1, <1>4, <2>1 DEF GotosInv
<1> QED
  BY <1>1, <1>4 DEF GotosInv

-----------------------------------------------------------------------------
(* All of it                                                               *)

NestingInv == CasesInv /\ LastInv /\ OrderInv /\ GotosInv

\* A step that enters and leaves no switch and links no case.
LEMMA NestingKept ==
  ASSUME TypeOK, NestingInv, SwitchesStay, ctx'.sw = ctx.sw, ctx'.lastCase = ctx.lastCase,
         UNCHANGED << firstCase, nextCase, caseValue >>, count' \in {count, Here}
  PROVE  CasesInv' /\ LastInv' /\ OrderInv'
BY CasesSame, LastKept, OrderKept DEF NestingInv

LEMMA CaseNesting ==
  ASSUME TypeOK, NestingInv, NEW c \in BOOLEAN, NEW v \in Value, Case(c, v)
  PROVE  NestingInv'
<1> PICK w : w = ConstantConvert(v, condType[ctx.sw])
  OBVIOUS
<1>1. w \in Int
  BY BoundsAssumption, IntModulusAssumption DEF ConstantConvert
<1>2. MayMeet /\ count < MaxStmts /\ stack' = Called("case", Here, 1) /\ count' = Here
  BY DEF Case, Call
<1>3. stack # << >> /\ UNCHANGED << gotos, target >> /\ ctx \in Context
  BY <1>2 DEF Case, MayMeet, TypeOK
<1>4. Here \in StmtOrNone
  BY <1>2, HereType DEF StmtOrNone
<1>5. SwitchesStay
  BY <1>2, <1>4, CallStays DEF CallKind
<1>6. GotosInv'
  BY <1>2, <1>3, GotosSame DEF NestingInv
<1>7. CASE Acceptable(c, v)
  <2>1. LinkCase(w) /\ ctx.sw # None
    BY <1>7 DEF Case, Acceptable
  <2>2. ctx'.sw = ctx.sw
    BY <1>3, <2>1 DEF LinkCase, Context
  <2>3. CasesInv'
    BY <1>1, <1>2, <2>1, LinkingCases DEF NestingInv
  <2>4. LastInv'
    BY <1>1, <1>2, <1>5, <2>1, LinkingLast DEF NestingInv
  <2>5. OrderInv'
    BY <1>2, <1>5, <2>2, OrderKept DEF NestingInv
  <2> QED
    BY <1>6, <2>3, <2>4, <2>5 DEF NestingInv
<1>8. CASE ~Acceptable(c, v)
  <2>1. UNCHANGED << ctx, caseValue, nextCase, firstCase >>
    BY <1>8 DEF Case
  <2> QED
    BY <1>2, <1>5, <1>6, <2>1, NestingKept DEF NestingInv
<1> QED
  BY <1>7, <1>8

\* What the statements of a unit do keeps the lists and the gotos in order.
LEMMA NestingNext ==
  ASSUME TypeOK, NestingInv, [Next]_vars
  PROVE  NestingInv'
<1> USE DEF CallKind
<1>0. None \in StmtOrNone /\ (count < MaxStmts => Here \in StmtOrNone) /\ ctx \in Context
  BY HereType DEF StmtOrNone, TypeOK
<1>1. ASSUME AnalyzeFunction PROVE NestingInv'
  <2>1. /\ Len(stack') = 1 /\ stack'[1].kind = "block" /\ ctx' = NoContext
        /\ gotos' = << >> /\ UNCHANGED << count, target, firstCase, nextCase, caseValue >>
    BY <1>1 DEF AnalyzeFunction, ast
  <2>2. ctx'.sw = None /\ None <= count /\ \A s \in Stmt : s # None
    BY <2>1 DEF NoContext, None, TypeOK, Stmt
  <2>3. \A n \in 1 .. Len(stack') : stack'[n].kind # "switch"
    <3>1. \A n \in 1 .. 1 : n = 1
      OBVIOUS
    <3> QED
      BY <2>1, <3>1
  <2>4. CasesInv'
    BY <2>1, CasesSame DEF NestingInv
  <2>5. LastInv' /\ OrderInv'
    BY <2>1, <2>2, <2>3 DEF LastInv, OrderInv, EndsList
  <2>6. GotosInv'
    <3>1. 1 .. Len(gotos') = {}
      BY <2>1
    <3> QED
      BY <2>1, <3>1 DEF NestingInv, GotosInv
  <2> QED
    BY <2>4, <2>5, <2>6 DEF NestingInv
<1>2. ASSUME PlainStmt PROVE NestingInv'
  <2>1. MayMeet /\ stack' = Analyzing /\ stack # << >> /\ SwitchesStay
    BY <1>2, MeetStays DEF PlainStmt, MayMeet
  <2> QED
    BY <1>2, <2>1, NestingKept, GotosSame DEF PlainStmt, ast, NestingInv
<1>3. ASSUME Block PROVE NestingInv'
  <2>1. stack # << >> /\ SwitchesStay
    BY <1>0, <1>3, CallStays DEF Block, MayMeet
  <2> QED
    BY <1>3, <2>1, NestingKept, GotosSame DEF Block, ast, NestingInv
<1>4. ASSUME If PROVE NestingInv'
  <2>1. stack # << >> /\ SwitchesStay
    BY <1>0, <1>4, CallStays DEF If, MayMeet
  <2> QED
    BY <1>4, <2>1, NestingKept, GotosSame DEF If, ast, NestingInv
<1>5. ASSUME Loop PROVE NestingInv'
  <2>1. stack # << >> /\ SwitchesStay
    BY <1>0, <1>5, CallStays DEF Loop, Call, MayMeet
  <2>2. ctx'.sw = ctx.sw /\ ctx'.lastCase = ctx.lastCase
    BY <1>0, <1>5 DEF Loop, Context
  <2> QED
    BY <1>5, <2>1, <2>2, NestingKept, GotosSame DEF Loop, Call, ast, NestingInv
<1>6. ASSUME NEW ty, Switch(ty) PROVE NestingInv'
  <2>1. /\ stack # << >> /\ count' = Here
        /\ UNCHANGED << gotos, target, firstCase, nextCase, caseValue >>
    BY <1>6 DEF Switch, Call, MayMeet
  <2> QED
    BY <1>6, <2>1, SwitchLast, CasesSame, GotosSame DEF NestingInv
<1>7. ASSUME NEW v \in Value, NEW c \in BOOLEAN, Case(c, v) PROVE NestingInv'
  BY <1>7, CaseNesting
<1>8. ASSUME Default PROVE NestingInv'
  <2>1. stack # << >> /\ SwitchesStay
    BY <1>0, <1>8, CallStays DEF Default, Call, MayMeet
  <2> QED
    BY <1>8, <2>1, NestingKept, GotosSame DEF Default, Call, NestingInv
<1>9. ASSUME NEW to, Refer(to) PROVE NestingInv'
  <2>1. SwitchesStay /\ GotosInv'
    BY <1>9, MeetStays, ReferGotos DEF Refer, Meet, NestingInv
  <2> QED
    BY <1>9, <2>1, NestingKept DEF Refer, Meet, NestingInv
<1>10. ASSUME NEW l \in Label, LabelStmt(l) PROVE NestingInv'
  <2>1. stack # << >> /\ SwitchesStay
    BY <1>0, <1>10, CallStays DEF LabelStmt, Call, MayMeet
  <2> QED
    BY <1>10, <2>1, NestingKept, GotosSame DEF LabelStmt, Call, ast, NestingInv
<1>11. ASSUME NEW l \in Label, Goto(l) PROVE NestingInv'
  <2>1. SwitchesStay /\ GotosInv'
    BY <1>11, MeetStays, GotoGotos DEF Goto, Meet, NestingInv
  <2> QED
    BY <1>11, <2>1, NestingKept DEF Goto, Meet, ast, NestingInv
<1>12. ASSUME Return PROVE NestingInv'
  <2>1. stack # << >> /\ UNCHANGED << gotos, target, count, firstCase, nextCase, caseValue >>
    BY <1>12 DEF Return, ast
  <2> QED
    BY <1>12, <2>1, ReturnLast, CasesSame, GotosSame DEF NestingInv
<1>13. ASSUME ResolveGotos PROVE NestingInv'
  <2>1. SwitchesStay
    BY <1>13 DEF ResolveGotos, SwitchesStay
  <2> QED
    BY <1>13, <2>1, NestingKept, EndGotos DEF ResolveGotos, NestingInv
<1>14. ASSUME UNCHANGED vars PROVE NestingInv'
  <2>1. \A s : Chain(s)' = Chain(s)
    BY <1>14, ChainSame DEF vars, ast
  <2> QED
    BY <1>14, <2>1, CasesSame DEF vars, ast, NestingInv, LastInv, EndsList, OrderInv, GotosInv
<1> QED
  BY <1>1, <1>2, <1>3, <1>4, <1>5, <1>6, <1>7, <1>8, <1>9, <1>10, <1>11, <1>12,
     <1>13, <1>14 DEF Next, Break, Continue

LEMMA NestingInit ==
  ASSUME Init
  PROVE  NestingInv
<1>1. /\ stack = << >> /\ gotos = << >> /\ count = 0 /\ ctx.sw = None
      /\ \A s \in Stmt : /\ target[s] = None /\ firstCase[s] = None /\ nextCase[s] = None
  BY DEF Init, NoContext
<1>2. Forward(nextCase)
  BY <1>1 DEF Forward, StmtOrNone
<1>3. \A s \in Stmt : Chain(s) = << >>
  BY <1>1, <1>2, FromStep, ChainIs
<1>4. CasesInv
  BY <1>1, <1>3 DEF CasesInv, Member, None
<1>5. LastInv /\ OrderInv /\ GotosInv
  BY <1>1 DEF LastInv, OrderInv, GotosInv, EndsList, None, Stmt
<1> QED
  BY <1>4, <1>5 DEF NestingInv

-----------------------------------------------------------------------------
(* The statements open, as the calls under way                             *)

\* What a call says of its statement.
Opened(c) == [kind |-> c.kind, id |-> c.id, due |-> c.due]

NestOf(st) == [i \in DOMAIN st |-> Opened(st[i])]

OpenStmt == [kind: CallKind, id: StmtOrNone, due: Nat]

LEMMA NestType ==
  ASSUME NEW st \in Seq(Call_)
  PROVE  /\ NestOf(st) \in Seq(OpenStmt)
         /\ Len(NestOf(st)) = Len(st) /\ DOMAIN NestOf(st) = 1 .. Len(st) /\ Len(st) \in Nat
         /\ \A i \in 1 .. Len(st) : NestOf(st)[i] = Opened(st[i]) /\ Opened(st[i]) \in OpenStmt
<1>1. DOMAIN st = 1 .. Len(st) /\ Len(st) \in Nat
  OBVIOUS
<1>2. \A i \in 1 .. Len(st) : Opened(st[i]) \in OpenStmt
  <2>1. \A c \in Call_ : Opened(c) \in OpenStmt
    BY DEF Opened, OpenStmt, Call_, CallKind
  <2> QED
    BY <2>1
<1>3. NestOf(st) = [i \in 1 .. Len(st) |-> Opened(st[i])]
  BY <1>1 DEF NestOf
<1> QED
  BY <1>1, <1>2, <1>3

\* Lists of open statements are equal when their elements are.
LEMMA OpenEqual ==
  ASSUME NEW q \in Seq(OpenStmt), NEW r \in Seq(OpenStmt), Len(q) = Len(r),
         \A i \in 1 .. Len(q) : q[i] = r[i]
  PROVE  q = r
OBVIOUS

\* A call more, a call less.
LEMMA NestAppend ==
  ASSUME NEW st \in Seq(Call_), NEW c \in Call_
  PROVE  NestOf(Append(st, c)) = Append(NestOf(st), Opened(c))
<1> PICK x : x = Opened(c)
  OBVIOUS
<1> PICK s : s = Append(st, c)
  OBVIOUS
<1>1. /\ s \in Seq(Call_) /\ Len(s) = Len(st) + 1 /\ Len(st) \in Nat
      /\ s[Len(st) + 1] = c /\ \A i \in 1 .. Len(st) : s[i] = st[i]
  OBVIOUS
<1> PICK q : q = NestOf(s)
  OBVIOUS
<1>2. /\ q \in Seq(OpenStmt) /\ Len(q) = Len(st) + 1
      /\ q[Len(st) + 1] = x /\ x \in OpenStmt /\ \A i \in 1 .. Len(st) : q[i] = Opened(st[i])
  <2>1. /\ q \in Seq(OpenStmt) /\ Len(q) = Len(s)
        /\ \A i \in 1 .. Len(s) : q[i] = Opened(s[i]) /\ Opened(s[i]) \in OpenStmt
    BY <1>1, NestType
  <2> QED
    BY <1>1, <2>1
<1> PICK p : p = NestOf(st)
  OBVIOUS
<1>3. /\ p \in Seq(OpenStmt) /\ Len(p) = Len(st) /\ \A i \in 1 .. Len(st) : p[i] = Opened(st[i])
  BY NestType
<1> PICK r : r = Append(p, x)
  OBVIOUS
<1>4. /\ r \in Seq(OpenStmt) /\ Len(r) = Len(st) + 1
      /\ r[Len(st) + 1] = x /\ \A i \in 1 .. Len(st) : r[i] = p[i]
  BY <1>2, <1>3
<1>5. \A i \in 1 .. Len(st) + 1 : i \in 1 .. Len(st) \/ i = Len(st) + 1
  BY <1>1
<1>6. q = r
  BY <1>2, <1>3, <1>4, <1>5, OpenEqual
<1> QED
  BY <1>6

LEMMA NestReturn ==
  ASSUME TypeOK, Return
  PROVE  NestOf(stack') = SubSeq(NestOf(stack), 1, Len(NestOf(stack)) - 1)
<1> DEFINE n == Len(stack)
           m == n - 1
<1>1. /\ n \in Nat /\ n > 1 /\ stack \in Seq(Call_)
      /\ stack' \in Seq(Call_) /\ Len(stack') = m /\ \A i \in 1 .. m : stack'[i] = stack[i]
  BY ReturnType DEF TypeOK
<1> PICK p : p = NestOf(stack)
  OBVIOUS
<1> PICK q : q = NestOf(stack')
  OBVIOUS
<1>2. /\ p \in Seq(OpenStmt) /\ Len(p) = n /\ \A i \in 1 .. n : p[i] = Opened(stack[i])
      /\ q \in Seq(OpenStmt) /\ Len(q) = m /\ \A i \in 1 .. m : q[i] = Opened(stack'[i])
  BY <1>1, NestType
<1> PICK r : r = SubSeq(p, 1, m)
  OBVIOUS
<1> HIDE DEF n
<1>3. m \in Nat /\ m + 1 = n
  BY <1>1
<1>4. r \in Seq(OpenStmt) /\ Len(r) = m /\ \A i \in 1 .. m : r[i] = p[i]
  BY <1>1, <1>2
<1>5. \A i \in 1 .. m : q[i] = r[i]
  BY <1>1, <1>2, <1>4
<1>6. q = r
  BY <1>2, <1>4, <1>5, OpenEqual
<1> QED
  BY <1>2, <1>6

\* The nest of the abstract specification.
Nest == NestOf(stack)

LEMMA NestIs ==
  /\ [i \in DOMAIN stack |-> [kind |-> stack[i].kind, id |-> stack[i].id, due |-> stack[i].due]] = Nest
  /\ [i \in DOMAIN stack |-> [kind |-> stack[i].kind, id |-> stack[i].id, due |-> stack[i].due]]' = NestOf(stack')
BY DEF Nest, NestOf, Opened

\* There is room where there was, and meeting a statement uses it up alike.
LEMMA NestRoom ==
  ASSUME TypeOK, MayMeet
  PROVE  /\ Nested!Room
         /\ NestOf(Analyzing) = Nested!Used
         /\ NestOf(Analyzing) \in Seq(OpenStmt)
         /\ Len(Nest) = Len(stack)
<1> DEFINE n == Len(stack)
<1>1. /\ stack \in Seq(Call_) /\ n \in Nat \ {0} /\ n \in 1 .. n
      /\ stack[n] \in Call_ /\ stack[n].due > 0 /\ stack[n].due \in Nat
  <2>1. stack \in Seq(Call_) /\ stack # << >> /\ stack[n].due > 0
    BY DEF TypeOK, MayMeet, Top
  <2>2. n \in Nat \ {0} /\ stack[n] \in Call_
    BY <2>1
  <2> QED
    BY <2>1, <2>2 DEF Call_
<1>2. /\ Nest \in Seq(OpenStmt) /\ Len(Nest) = n /\ DOMAIN Nest = 1 .. n
      /\ \A i \in 1 .. n : Nest[i] = Opened(stack[i])
  BY <1>1, NestType DEF Nest
<1>3. Nested!Room
  <2>1. Nest # << >> /\ Nest[Len(Nest)].due > 0
    BY <1>1, <1>2 DEF Opened
  <2> QED
    BY <2>1, NestIs DEF Nested!Room
<1>4. Nested!Used = IF Nest[n].kind = "block" THEN Nest ELSE [Nest EXCEPT ![n].due = @ - 1]
  BY <1>2, NestIs DEF Nested!Used
<1>5. /\ Analyzing \in Seq(Call_) /\ Len(Analyzing) = n
      /\ NestOf(Analyzing) \in Seq(OpenStmt)
      /\ Len(NestOf(Analyzing)) = n
      /\ \A i \in 1 .. n : NestOf(Analyzing)[i] = Opened(Analyzing[i])
  BY AnalyzingType, NestType
<1>6. Nest[n].kind = stack[n].kind
  BY <1>1, <1>2 DEF Opened
<1>7. CASE stack[n].kind = "block"
  <2>1. Analyzing = stack
    BY <1>7 DEF Analyzing, Top
  <2> QED
    BY <1>2, <1>3, <1>4, <1>5, <1>6, <1>7, <2>1 DEF Nest
<1>8. CASE stack[n].kind # "block"
  <2> PICK t : t = [stack[n] EXCEPT !.due = @ - 1]
    OBVIOUS
  <2> PICK u : u = [Nest[n] EXCEPT !.due = @ - 1]
    OBVIOUS
  <2>1. Analyzing = [stack EXCEPT ![n] = t]
    BY <1>8 DEF Analyzing, Top
  <2>2. Nested!Used = [Nest EXCEPT ![n] = u]
    BY <1>4, <1>6, <1>8
  <2>3. Opened(t) = u
    <3>1. Nest[n] = Opened(stack[n])
      BY <1>1, <1>2
    <3> QED
      BY <1>1, <3>1 DEF Opened, Call_
  <2>4. u \in OpenStmt
    <3>1. Nest[n] \in OpenStmt /\ Nest[n].due \in Nat /\ Nest[n].due > 0
      BY <1>1, <1>2, NestType DEF Opened
    <3> QED
      BY <3>1 DEF OpenStmt
  <2> PICK r : r = [Nest EXCEPT ![n] = u]
    OBVIOUS
  <2>5. /\ r \in Seq(OpenStmt) /\ Len(r) = n
        /\ \A i \in 1 .. n : r[i] = IF i = n THEN u ELSE Nest[i]
    BY <1>1, <1>2, <2>4
  <2>6. \A i \in 1 .. n : NestOf(Analyzing)[i] = r[i]
    <3>1. \A i \in 1 .. n : Analyzing[i] = IF i = n THEN t ELSE stack[i]
      BY <1>1, <2>1
    <3>2. \A i \in 1 .. n : NestOf(Analyzing)[i] = IF i = n THEN Opened(t) ELSE Opened(stack[i])
      BY <1>5, <3>1
    <3> QED
      BY <1>2, <2>3, <2>5, <3>2
  <2>7. NestOf(Analyzing) = r
    <3> HIDE DEF n
    <3> QED
      BY <1>5, <2>5, <2>6, OpenEqual
  <2> QED
    BY <1>2, <1>3, <1>5, <2>2, <2>7
<1> QED
  BY <1>7, <1>8

\* A call for a statement opens it.
LEMMA NestCalled ==
  ASSUME TypeOK, MayMeet, NEW k \in CallKind, NEW id \in StmtOrNone, NEW due \in Nat
  PROVE  NestOf(Called(k, id, due)) = Nested!Opening(k, id, due)
<1> PICK c : c = [kind |-> k, id |-> id, due |-> due, saved |-> ctx]
  OBVIOUS
<1>1. c \in Call_ /\ Opened(c) = [kind |-> k, id |-> id, due |-> due]
  BY DEF Call_, TypeOK, CallKind, Opened
<1>2. Called(k, id, due) = Append(Analyzing, c)
  BY DEF Called
<1>3. NestOf(Called(k, id, due)) = Append(NestOf(Analyzing), Opened(c))
  BY <1>1, <1>2, AnalyzingType, NestAppend
<1>4. Nested!Opening(k, id, due) = Append(Nested!Used, [kind |-> k, id |-> id, due |-> due])
  BY DEF Nested!Opening
<1> QED
  BY <1>1, <1>3, <1>4, NestRoom

\* Enclosing, with the open statements as a parameter.
EnclosingIn(nest, kinds) ==
    LET S == {i \in DOMAIN nest : nest[i].kind \in kinds}
    IN IF S = {} THEN None ELSE nest[CHOOSE i \in S : \A j \in S : j <= i].id

\* The innermost open statement is the one of the innermost call.
LEMMA NestEnclosing ==
  ASSUME TypeOK, NEW kinds
  PROVE  Nested!Enclosing(kinds) = Innermost(Len(stack), kinds)
<1> DEFINE n == Len(stack)
           S == {i \in 1 .. n : stack[i].kind \in kinds}
           R == {i \in DOMAIN Nest : Nest[i].kind \in kinds}
<1>1. /\ n \in Nat /\ DOMAIN Nest = 1 .. n
      /\ \A i \in 1 .. n : Nest[i].kind = stack[i].kind /\ Nest[i].id = stack[i].id
  <2>1. /\ n \in Nat /\ DOMAIN Nest = 1 .. n /\ \A i \in 1 .. n : Nest[i] = Opened(stack[i])
    BY NestType DEF Nest, TypeOK
  <2> QED
    BY <2>1 DEF Opened
<1>2. R = S /\ S \subseteq 1 .. n
  BY <1>1
<1>3. Nested!Enclosing(kinds) = IF R = {} THEN None
                                ELSE Nest[CHOOSE i \in R : \A j \in R : j <= i].id
  <2>1. Nested!Enclosing(kinds) =
           EnclosingIn([i \in DOMAIN stack |-> [kind |-> stack[i].kind, id |-> stack[i].id,
                                                 due |-> stack[i].due]], kinds)
    BY Zenon DEF Nested!Enclosing, EnclosingIn, Nested!None, None
  <2>2. Nested!Enclosing(kinds) = EnclosingIn(Nest, kinds)
    BY <2>1, NestIs
  <2> QED
    BY <2>2 DEF EnclosingIn
<1>4. Innermost(n, kinds) = IF S = {} THEN None
                            ELSE stack[CHOOSE i \in S : \A j \in S : j <= i].id
  BY DEF Innermost, InnermostOf
<1> HIDE DEF R, S, n
<1>5. CASE S = {}
  BY <1>2, <1>3, <1>4, <1>5 DEF n
<1>6. CASE S # {}
  <2>1. \E i \in S : \A j \in S : j <= i
    BY <1>1, <1>2, <1>6, LargestInInterval
  <2> PICK m : m = CHOOSE i \in S : \A j \in S : j <= i
    OBVIOUS
  <2>2. m \in S
    BY <2>1
  <2>3. m \in 1 .. n
    BY <1>2, <2>2
  <2>4. Nest[m].id = stack[m].id
    BY <1>1, <2>3
  <2> QED
    BY <1>2, <1>3, <1>4, <1>6, <2>4 DEF n
<1> QED
  BY <1>5, <1>6

-----------------------------------------------------------------------------
(* The steps                                                               *)

LabelledOf(lb) == {<< l, lb[l] >> : l \in {k \in Label : lb[k] # None}}

JumpsOf(gt) == {<< gt[i].label, gt[i].stmt >> : i \in DOMAIN gt}

\* The labels and the gotos of the abstract specification.
LEMMA MarksAre ==
  /\ {<< l, labels[l] >> : l \in {k \in Label : labels[k] # None}} = LabelledOf(labels)
  /\ {<< l, labels[l] >> : l \in {k \in Label : labels[k] # None}}' = LabelledOf(labels')
  /\ {<< gotos[i].label, gotos[i].stmt >> : i \in DOMAIN gotos} = JumpsOf(gotos)
  /\ {<< gotos[i].label, gotos[i].stmt >> : i \in DOMAIN gotos}' = JumpsOf(gotos')
BY DEF LabelledOf, JumpsOf

\* What a step leaves alone stays, in the abstract specification, as it is.
LEMMA MarksStay ==
  /\ labels' = labels =>
        {<< l, labels[l] >> : l \in {k \in Label : labels[k] # None}}' =
        {<< l, labels[l] >> : l \in {k \in Label : labels[k] # None}}
  /\ gotos' = gotos =>
        {<< gotos[i].label, gotos[i].stmt >> : i \in DOMAIN gotos}' =
        {<< gotos[i].label, gotos[i].stmt >> : i \in DOMAIN gotos}
  /\ UNCHANGED << firstCase, nextCase, caseValue >> =>
        [s \in Stmt |-> Chain(s)]' = [s \in Stmt |-> Chain(s)]
<1>1. /\ labels' = labels => LabelledOf(labels') = LabelledOf(labels)
      /\ gotos' = gotos => JumpsOf(gotos') = JumpsOf(gotos)
  OBVIOUS
<1>2. UNCHANGED << firstCase, nextCase, caseValue >> =>
        [s \in Stmt |-> Chain(s)]' = [s \in Stmt |-> Chain(s)]
  BY ChainSame
<1> QED
  BY <1>1, <1>2, MarksAre, Zenon

\* Meeting a statement, and entering one.
LEMMA NestMeet ==
  ASSUME TypeOK, Meet
  PROVE  Nested!Meet
<1>1. /\ MayMeet /\ count < MaxStmts /\ count' = Here
      /\ NestOf(stack') = Nested!Used /\ Nested!Room
  BY NestRoom DEF Meet
<1> QED
  BY <1>1, NestIs DEF Nested!Meet, Nested!Here, Here

LEMMA NestOpen ==
  ASSUME TypeOK, NEW k \in CallKind, Call(k)
  PROVE  Nested!Open(k)
<1>1. /\ MayMeet /\ count < MaxStmts /\ count' = Here /\ Len(stack) < MaxDepth
      /\ stack' = Called(k, Here, 1) /\ Here \in StmtOrNone
  BY HereType DEF Call, StmtOrNone
<1>2. NestOf(stack') = Nested!Opening(k, Here, 1) /\ Nested!Room /\ Len(Nest) < MaxDepth
  BY <1>1, NestRoom, NestCalled
<1> QED
  BY <1>1, <1>2, NestIs DEF Nested!Open, Nested!Here, Here

LEMMA FunctionNests ==
  ASSUME TypeOK, AnalyzeFunction
  PROVE  Nested!Function
<1> PICK c : c = [kind |-> "block", id |-> None, due |-> 1, saved |-> NoContext]
  OBVIOUS
<1>1. /\ stack = << >> /\ stack' = << c >>
      /\ labels' = [l \in Label |-> None] /\ gotos' = << >>
      /\ UNCHANGED << count, target, firstCase, nextCase, caseValue, defaultCase, condType, error >>
  BY DEF AnalyzeFunction, ast
<1>2. NestOf(stack) = << >>
  BY <1>1 DEF NestOf
<1>3. NestOf(stack') = << [kind |-> "block", id |-> None, due |-> 1] >>
  <2>1. Opened(c) = [kind |-> "block", id |-> None, due |-> 1]
    BY DEF Opened
  <2>2. stack' = << c >> /\ DOMAIN << c >> = {1} /\ << c >>[1] = c
    BY <1>1
  <2>3. NestOf(stack') = [i \in {1} |-> Opened(c)]
    BY <2>2 DEF NestOf
  <2> HIDE DEF NestOf
  <2>4. [i \in {1} |-> Opened(c)] = << Opened(c) >>
    OBVIOUS
  <2> QED
    BY <2>1, <2>3, <2>4
<1>4. LabelledOf(labels') = {} /\ JumpsOf(gotos') = {}
  BY <1>1 DEF LabelledOf, JumpsOf
<1>5. /\ [i \in DOMAIN stack |-> [kind |-> stack[i].kind, id |-> stack[i].id, due |-> stack[i].due]] = << >>
      /\ [i \in DOMAIN stack |-> [kind |-> stack[i].kind, id |-> stack[i].id, due |-> stack[i].due]]' =
            << [kind |-> "block", id |-> None, due |-> 1] >>
  BY <1>2, <1>3, NestIs, Zenon DEF Nest
<1>6. /\ {<< l, labels[l] >> : l \in {k \in Label : labels[k] # None}}' = {}
      /\ {<< gotos[i].label, gotos[i].stmt >> : i \in DOMAIN gotos}' = {}
  BY <1>4, MarksAre, Zenon
<1>7. [s \in Stmt |-> Chain(s)]' = [s \in Stmt |-> Chain(s)]
  BY <1>1, MarksStay
<1> QED
  BY <1>1, <1>5, <1>6, <1>7, Zenon DEF Nested!Function, Nested!None, None

LEMMA PlainNests ==
  ASSUME TypeOK, PlainStmt
  PROVE  Nested!Plain
<1>1. /\ MayMeet /\ NestOf(stack') = Nested!Used /\ Nested!Room
      /\ UNCHANGED << count, target, firstCase, nextCase, caseValue, defaultCase, condType, error >>
      /\ UNCHANGED << labels, gotos >>
  BY NestRoom DEF PlainStmt, ast
<1> QED
  BY <1>1, NestIs, MarksStay DEF Nested!Plain

LEMMA GroupNests ==
  ASSUME TypeOK, Block \/ If
  PROVE  Nested!Group
<1>1. /\ MayMeet /\ Len(stack) < MaxDepth
      /\ UNCHANGED << count, target, firstCase, nextCase, caseValue, defaultCase, condType, error >>
      /\ UNCHANGED << labels, gotos >>
      /\ stack' \in {Called("block", None, 1), Called("if", None, 1), Called("if", None, 2)}
  BY DEF Block, If, ast
<1>2. NestOf(stack') \in {Nested!Opening("block", None, 1), Nested!Opening("if", None, 1),
                          Nested!Opening("if", None, 2)}
  BY <1>1, NestCalled DEF CallKind, StmtOrNone
<1>3. Nested!Room /\ Len(Nest) < MaxDepth
  BY <1>1, NestRoom
<1> QED
  BY <1>1, <1>2, <1>3, NestIs, MarksStay DEF Nested!Group, Nested!None, None

LEMMA LoopNests ==
  ASSUME TypeOK, Loop
  PROVE  Nested!Loop
<1>1. Nested!Open("loop")
  BY NestOpen DEF Loop, CallKind
<1>2. /\ UNCHANGED << target, firstCase, nextCase, caseValue, defaultCase, condType, error >>
      /\ UNCHANGED << labels, gotos >>
  BY DEF Loop, ast
<1> QED
  BY <1>1, <1>2, MarksStay DEF Nested!Loop

LEMMA SwitchNests ==
  ASSUME TypeOK, NEW ty, Switch(ty)
  PROVE  Nested!Switch(ty)
<1>1. Nested!Open("switch")
  BY NestOpen DEF Switch, CallKind
<1>2. /\ UNCHANGED << target, firstCase, nextCase, caseValue, defaultCase, labels, gotos >>
      /\ condType' = [condType EXCEPT ![Here] = IF ty = "other" THEN "int" ELSE ty]
      /\ error' = (error \/ ty = "other")
  BY DEF Switch
<1> QED
  BY <1>1, <1>2, MarksStay DEF Nested!Switch, Nested!Here, Here

\* The statements a break, a continue and a case refer to.
LEMMA NestContext ==
  ASSUME TypeOK, ContextIsInnermost, stack # << >>
  PROVE  /\ Nested!Enclosing({"loop", "switch"}) = ctx.breakable
         /\ Nested!Enclosing({"loop"}) = ctx.loop
         /\ Nested!Enclosing({"switch"}) = ctx.sw
BY NestEnclosing DEF ContextIsInnermost

LEMMA BreakNests ==
  ASSUME TypeOK, ContextIsInnermost, Break \/ Continue
  PROVE  Nested!Break \/ Nested!Continue
<1>1. stack # << >>
  BY DEF Break, Continue, Refer, Meet, MayMeet
<1>2. Nested!Meet
  BY NestMeet DEF Break, Continue, Refer
<1>3. /\ UNCHANGED << firstCase, nextCase, caseValue, defaultCase, condType, labels, gotos >>
      /\ \/ Break /\ Nested!Refer(ctx.breakable)
         \/ Continue /\ Nested!Refer(ctx.loop)
  BY DEF Break, Continue, Refer, Nested!Refer, Nested!Here, Here, Nested!None, None
<1>4. /\ Break /\ Nested!Refer(ctx.breakable) => Nested!Refer(Nested!Enclosing({"loop", "switch"}))
      /\ Continue /\ Nested!Refer(ctx.loop) => Nested!Refer(Nested!Enclosing({"loop"}))
  BY <1>1, NestContext
<1> QED
  BY <1>2, <1>3, <1>4, MarksStay DEF Nested!Break, Nested!Continue

LEMMA DefaultNests ==
  ASSUME TypeOK, ContextIsInnermost, Default
  PROVE  Nested!Default
<1>1. stack # << >> /\ error \in BOOLEAN
  BY DEF Default, Call, MayMeet, TypeOK
<1>2. Nested!Open("default")
  BY NestOpen DEF Default, CallKind
<1>3. Nested!Enclosing({"switch"}) = ctx.sw
  BY <1>1, NestContext
<1>4. /\ UNCHANGED << target, firstCase, nextCase, caseValue, condType, labels, gotos >>
      /\ defaultCase' = IF ctx.sw = None \/ defaultCase[ctx.sw] # None THEN defaultCase
                        ELSE [defaultCase EXCEPT ![ctx.sw] = Here]
      /\ error' = (error \/ (ctx.sw = None \/ defaultCase[ctx.sw] # None))
  BY <1>1 DEF Default
<1> QED
  BY <1>2, <1>3, <1>4, MarksStay DEF Nested!Default, Nested!Here, Here, Nested!None, None

LEMMA ReturnNests ==
  ASSUME TypeOK, Return
  PROVE  Nested!Close
<1> DEFINE n == Len(stack)
<1>1. /\ n \in Nat /\ n > 1 /\ stack \in Seq(Call_) /\ n \in 1 .. n
      /\ stack[n].kind = "block" \/ stack[n].due = 0
      /\ UNCHANGED << count, target, firstCase, nextCase, caseValue, defaultCase, condType, error >>
      /\ UNCHANGED << labels, gotos >>
  BY ReturnType DEF Return, ast, Top, TypeOK
<1>2. /\ Len(Nest) = n /\ Nest[n] = Opened(stack[n])
  BY <1>1, NestType DEF Nest
<1>3. /\ Len(Nest) > 1 /\ (Nest[Len(Nest)].kind = "block" \/ Nest[Len(Nest)].due = 0)
      /\ NestOf(stack') = SubSeq(Nest, 1, Len(Nest) - 1)
  BY <1>1, <1>2, NestReturn DEF Opened, Nest
<1> QED
  BY <1>1, <1>3, NestIs, MarksStay DEF Nested!Close

-----------------------------------------------------------------------------

LEMMA LabelledIs ==
  ASSUME TypeOK, NEW l \in Label
  PROVE  /\ \A s \in Stmt : << l, s >> \in LabelledOf(labels) <=> labels[l] = s
         /\ (\E s \in Stmt : << l, s >> \in LabelledOf(labels)) <=> labels[l] # None
<1>1. labels[l] \in StmtOrNone /\ \A s \in Stmt : s # None
  BY DEF TypeOK, Stmt, None
<1>2. \A s \in Stmt : << l, s >> \in LabelledOf(labels) <=> labels[l] = s
  BY <1>1 DEF LabelledOf
<1> QED
  BY <1>1, <1>2 DEF StmtOrNone

LEMMA LabelNests ==
  ASSUME TypeOK, NEW l \in Label, LabelStmt(l)
  PROVE  Nested!LabelStmt(l)
<1>1. error \in BOOLEAN /\ Here \in Stmt /\ Here # None /\ labels \in [Label -> StmtOrNone]
  <2>1. Here \in Stmt
    BY HereType DEF LabelStmt, Call
  <2> QED
    BY <2>1 DEF TypeOK, Stmt, None
<1>2. Nested!Open("label")
  BY NestOpen DEF LabelStmt, CallKind
<1>3. /\ UNCHANGED << target, firstCase, nextCase, caseValue, condType, defaultCase, gotos >>
      /\ labels' = IF labels[l] # None THEN labels ELSE [labels EXCEPT ![l] = Here]
      /\ error' = (error \/ labels[l] # None)
  BY <1>1 DEF LabelStmt, ast
<1> PICK L : L = LabelledOf(labels)
  OBVIOUS
<1>4. LabelledOf(labels') = IF labels[l] # None THEN L ELSE L \cup {<< l, Here >>}
  <2>1. CASE labels[l] # None
    BY <1>3, <2>1
  <2>2. CASE labels[l] = None
    <3>1. /\ {k \in Label : labels'[k] # None} = {k \in Label : labels[k] # None} \cup {l}
          /\ \A k \in Label : labels[k] # None => labels'[k] = labels[k]
          /\ labels'[l] = Here
      BY <1>1, <1>3, <2>2
    <3> QED
      BY <2>2, <3>1 DEF LabelledOf
  <2> QED
    BY <2>1, <2>2
<1>5. (\E s \in Stmt : << l, s >> \in L) <=> labels[l] # None
  BY LabelledIs
<1>6. L = {<< m, labels[m] >> : m \in {k \in Label : labels[k] # None}}
  BY MarksAre
<1>7. {<< m, labels[m] >> : m \in {k \in Label : labels[k] # None}}' = LabelledOf(labels')
  BY MarksAre
<1>8. Nested!Stmt = Stmt /\ Nested!Here = Here
  BY DEF Nested!Stmt, Stmt, Nested!Here, Here
<1>9. /\ {<< m, labels[m] >> : m \in {k \in Label : labels[k] # None}}' =
            IF \E s \in Nested!Stmt : << l, s >> \in {<< m, labels[m] >> : m \in {k \in Label : labels[k] # None}}
            THEN {<< m, labels[m] >> : m \in {k \in Label : labels[k] # None}}
            ELSE {<< m, labels[m] >> : m \in {k \in Label : labels[k] # None}} \cup {<< l, Nested!Here >>}
      /\ error' = (error \/ \E s \in Nested!Stmt : << l, s >> \in {<< m, labels[m] >> : m \in {k \in Label : labels[k] # None}})
  <2>1. /\ LabelledOf(labels') = IF \E s \in Nested!Stmt : << l, s >> \in L THEN L
                                 ELSE L \cup {<< l, Nested!Here >>}
        /\ error' = (error \/ \E s \in Nested!Stmt : << l, s >> \in L)
    BY <1>3, <1>4, <1>5, <1>8
  <2> QED
    BY <1>6, <1>7, <2>1, Zenon
<1> QED
  BY <1>2, <1>3, <1>9, MarksStay, Zenon DEF Nested!LabelStmt

LEMMA GotoNests ==
  ASSUME TypeOK, NEW l \in Label, Goto(l)
  PROVE  Nested!Goto(l)
<1>1. Nested!Meet
  BY NestMeet DEF Goto
<1>2. /\ UNCHANGED << target, firstCase, nextCase, caseValue, condType, defaultCase, labels, error >>
      /\ gotos' = Append(gotos, [stmt |-> Here, label |-> l])
  BY DEF Goto, ast
<1>3. JumpsOf(gotos') = JumpsOf(gotos) \cup {<< l, Here >>}
  <2> DEFINE n == Len(gotos)
  <2>1. /\ n \in Nat /\ DOMAIN gotos = 1 .. n /\ DOMAIN gotos' = 1 .. n + 1
        /\ gotos'[n + 1].stmt = Here /\ gotos'[n + 1].label = l
        /\ \A i \in 1 .. n : gotos'[i] = gotos[i]
    BY <1>2 DEF TypeOK
  <2> HIDE DEF n
  <2>2. \A i \in 1 .. n + 1 : i \in 1 .. n \/ i = n + 1
    BY <2>1
  <2>3. \A i \in 1 .. n : i \in 1 .. n + 1
    BY <2>1
  <2>4. n + 1 \in 1 .. n + 1
    BY <2>1
  <2>5. \A x : x \in JumpsOf(gotos') <=> \E i \in 1 .. n + 1 : x = << gotos'[i].label, gotos'[i].stmt >>
    BY <2>1 DEF JumpsOf
  <2>6. \A x : x \in JumpsOf(gotos) <=> \E i \in 1 .. n : x = << gotos[i].label, gotos[i].stmt >>
    BY <2>1 DEF JumpsOf
  <2>7. \A x : x \in JumpsOf(gotos') <=> x \in JumpsOf(gotos) \/ x = << l, Here >>
    BY <2>1, <2>2, <2>3, <2>4, <2>5, <2>6
  <2> QED
    BY <2>7
<1>4. {<< gotos[i].label, gotos[i].stmt >> : i \in DOMAIN gotos}' =
         {<< gotos[i].label, gotos[i].stmt >> : i \in DOMAIN gotos} \cup {<< l, Here >>}
  BY <1>3, MarksAre, Zenon
<1>5. Nested!Here = Here
  BY DEF Nested!Here, Here
<1> QED
  BY <1>1, <1>2, <1>4, <1>5, MarksStay, Zenon DEF Nested!Goto

LEMMA CaseNests ==
  ASSUME TypeOK, ContextIsInnermost, NestingInv, NEW c \in BOOLEAN, NEW v \in Value, Case(c, v)
  PROVE  Nested!Case(c, v)
<1> PICK sw : sw = ctx.sw
  OBVIOUS
<1> PICK w : w = ConstantConvert(v, condType[sw])
  OBVIOUS
<1> PICK C : C = [s \in Stmt |-> Chain(s)]
  OBVIOUS
<1> PICK D : D = [s \in Stmt |-> Chain(s)']
  OBVIOUS
<1>1. /\ stack # << >> /\ error \in BOOLEAN /\ count < MaxStmts /\ sw \in StmtOrNone
      /\ Nested!Open("case") /\ w \in Int
      /\ UNCHANGED << labels, gotos, target, defaultCase, condType >>
  <2>1. Nested!Open("case")
    BY NestOpen DEF Case, CallKind
  <2>2. w \in Int
    BY BoundsAssumption, IntModulusAssumption DEF ConstantConvert
  <2> QED
    BY <2>1, <2>2 DEF Case, Call, MayMeet, TypeOK, Context
<1>2. Nested!Enclosing({"switch"}) = sw
  BY <1>1, NestContext
<1> PICK bad : bad = (sw = None \/ ~c \/ \E i \in DOMAIN C[sw] : C[sw][i].value = w)
  OBVIOUS
<1>3. Acceptable(c, v) <=> ~bad
  <2>1. CASE sw = None
    BY <2>1 DEF Acceptable
  <2>2. CASE sw # None
    <3>1. sw \in Stmt /\ C[sw] = Chain(sw)
      BY <1>1, <2>2 DEF StmtOrNone
    <3>2. Acceptable(c, v) <=> c /\ ~Duplicate(sw, w)
      BY <2>2 DEF Acceptable
    <3>3. Duplicate(sw, w) <=> \E i \in DOMAIN Chain(sw) : Chain(sw)[i].value = w
      BY DEF Duplicate
    <3> QED
      BY <2>2, <3>1, <3>2, <3>3
  <2> QED
    BY <2>1, <2>2
<1>4. error' = (error \/ bad)
  BY <1>1, <1>3 DEF Case
<1>5. D = IF bad THEN C ELSE [C EXCEPT ![sw] = Append(@, [stmt |-> Here, value |-> w])]
  <2>1. CASE bad
    <3>1. UNCHANGED << firstCase, nextCase, caseValue >>
      BY <1>3, <2>1 DEF Case
    <3>2. \A s : Chain(s)' = Chain(s)
      BY <3>1, ChainSame
    <3> QED
      BY <2>1, <3>2
  <2>2. CASE ~bad
    <3>1. LinkCase(w) /\ sw # None
      BY <1>3, <2>2 DEF Case, Acceptable
    <3>2. \A s \in Stmt : Chain(s)' = IF s = sw THEN Append(Chain(s), Entry(Here, w)) ELSE Chain(s)
      BY <1>1, <3>1, LinkingCase DEF NestingInv
    <3>3. sw \in Stmt
      BY <1>1, <3>1 DEF StmtOrNone
    <3> PICK e : e = Entry(Here, w)
      OBVIOUS
    <3>4. D = [C EXCEPT ![sw] = Append(@, e)]
      <4>1. D = [s \in Stmt |-> IF s = sw THEN Append(Chain(s), e) ELSE Chain(s)]
        BY <3>2
      <4> QED
        BY <3>3, <4>1
    <3>5. e = [stmt |-> Here, value |-> w]
      BY DEF Entry
    <3> QED
      BY <2>2, <3>4, <3>5
  <2> QED
    BY <2>1, <2>2
<1>6. Nested!Here = Here /\ Nested!None = None
  BY DEF Nested!Here, Here, Nested!None, None
<1> DEFINE E == Nested!Enclosing({"switch"})
           W == Nested!ConstantConvert(v, condType[E])
<1>7. sw = E /\ w = W
  BY <1>2 DEF ConstantConvert, Nested!ConstantConvert
<1>8. /\ [s \in Stmt |-> Chain(s)]' =
           IF \/ E = Nested!None \/ ~c
              \/ \E i \in DOMAIN [s \in Stmt |-> Chain(s)][E] : [s \in Stmt |-> Chain(s)][E][i].value = W
           THEN [s \in Stmt |-> Chain(s)]
           ELSE [[s \in Stmt |-> Chain(s)] EXCEPT ![E] = Append(@, [stmt |-> Nested!Here, value |-> W])]
      /\ error' = (error \/ (\/ E = Nested!None \/ ~c
              \/ \E i \in DOMAIN [s \in Stmt |-> Chain(s)][E] : [s \in Stmt |-> Chain(s)][E][i].value = W))
  <2> HIDE DEF E, W
  <2> QED
    BY <1>4, <1>5, <1>6, <1>7
<1> QED
  BY <1>1, <1>8, MarksStay, Zenon DEF Nested!Case

\* Where a statement goes: the labels that its gotos name.
LEMMA DestinationIs ==
  ASSUME TypeOK, NEW s \in Stmt
  PROVE  Nested!Destination(s) =
            {t \in Stmt : \E i \in 1 .. Len(gotos) : gotos[i].stmt = s /\ labels[gotos[i].label] = t}
<1>1. Nested!Stmt = Stmt
  BY DEF Nested!Stmt, Stmt
<1>2. Nested!Destination(s) =
         {t \in Nested!Stmt : \E l \in Label : /\ << l, s >> \in JumpsOf(gotos)
                                               /\ << l, t >> \in LabelledOf(labels)}
  <2> DEFINE Dest(J, L) == {t \in Nested!Stmt : \E l \in Label : << l, s >> \in J /\ << l, t >> \in L}
  <2>1. Nested!Destination(s) =
           Dest({<< gotos[i].label, gotos[i].stmt >> : i \in DOMAIN gotos},
                {<< l, labels[l] >> : l \in {k \in Label : labels[k] # None}})
    BY Zenon DEF Nested!Destination
  <2> HIDE DEF Dest
  <2>2. Nested!Destination(s) = Dest(JumpsOf(gotos), LabelledOf(labels))
    BY <2>1, MarksAre
  <2> QED
    BY <2>2 DEF Dest
<1>3. \A l \in Label : << l, s >> \in JumpsOf(gotos) <=>
                       \E i \in 1 .. Len(gotos) : gotos[i].stmt = s /\ gotos[i].label = l
  <2>1. DOMAIN gotos = 1 .. Len(gotos)
    BY GotosType
  <2> QED
    BY <2>1 DEF JumpsOf
<1>4. \A l \in Label, t \in Stmt : << l, t >> \in LabelledOf(labels) <=> labels[l] = t
  BY LabelledIs
<1>5. \A i \in 1 .. Len(gotos) : gotos[i].label \in Label
  BY GotosType
<1>6. ASSUME NEW t \in Stmt
      PROVE  (\E l \in Label : << l, s >> \in JumpsOf(gotos) /\ << l, t >> \in LabelledOf(labels)) <=>
             \E i \in 1 .. Len(gotos) : gotos[i].stmt = s /\ labels[gotos[i].label] = t
  <2> DEFINE InJ(l) == << l, s >> \in JumpsOf(gotos)
             InL(l) == << l, t >> \in LabelledOf(labels)
  <2>1. \A l \in Label : InJ(l) <=> \E i \in 1 .. Len(gotos) : gotos[i].stmt = s /\ gotos[i].label = l
    BY <1>3
  <2>2. \A l \in Label : InL(l) <=> labels[l] = t
    BY <1>4
  <2> HIDE DEF InJ, InL
  <2>3. ASSUME NEW l \in Label, InJ(l), InL(l)
        PROVE  \E i \in 1 .. Len(gotos) : gotos[i].stmt = s /\ labels[gotos[i].label] = t
    BY <2>1, <2>2, <2>3
  <2>4. ASSUME NEW i \in 1 .. Len(gotos), gotos[i].stmt = s, labels[gotos[i].label] = t
        PROVE  \E l \in Label : InJ(l) /\ InL(l)
    BY <1>5, <2>1, <2>2, <2>4
  <2>5. (\E l \in Label : InJ(l) /\ InL(l)) <=>
        \E i \in 1 .. Len(gotos) : gotos[i].stmt = s /\ labels[gotos[i].label] = t
    BY <2>3, <2>4
  <2> QED
    BY <2>5 DEF InJ, InL
<1> DEFINE P(t) == \E l \in Label : << l, s >> \in JumpsOf(gotos) /\ << l, t >> \in LabelledOf(labels)
           Q(t) == \E i \in 1 .. Len(gotos) : gotos[i].stmt = s /\ labels[gotos[i].label] = t
<1>7. /\ Nested!Destination(s) = {t \in Stmt : P(t)}
      /\ \A t \in Stmt : P(t) <=> Q(t)
  BY <1>1, <1>2, <1>6
<1>8. Nested!Destination(s) = {t \in Stmt : Q(t)}
  <2> HIDE DEF P, Q
  <2> QED
    BY <1>7
<1> QED
  BY <1>8

LEMMA EndNests ==
  ASSUME TypeOK, NestingInv, ResolveGotos
  PROVE  Nested!End
<1> DEFINE n == Len(gotos)
           To(i) == labels[gotos[i].label]
<1>1. /\ Len(stack) = 1 /\ stack' = << >> /\ stack # << >> /\ error \in BOOLEAN
      /\ UNCHANGED << count, firstCase, nextCase, caseValue, defaultCase, condType, labels, gotos >>
      /\ target' = [s \in Stmt |->
                     IF \E i \in DOMAIN gotos : gotos[i].stmt = s
                     THEN labels[gotos[CHOOSE i \in DOMAIN gotos : gotos[i].stmt = s].label]
                     ELSE target[s]]
      /\ error' = (error \/ \E i \in DOMAIN gotos : labels[gotos[i].label] = None)
  <2>1. Len(stack) = 1 /\ error \in BOOLEAN
    BY DEF ResolveGotos, TypeOK
  <2>2. stack # << >>
    BY <2>1
  <2> QED
    BY <2>1, <2>2, Zenon DEF ResolveGotos
<1>2. /\ n \in Nat /\ DOMAIN gotos = 1 .. n
      /\ \A i \in 1 .. n : gotos[i].stmt \in Stmt /\ To(i) \in StmtOrNone
  BY GotosType DEF TypeOK
<1>3. /\ \A i \in 1 .. n : target[gotos[i].stmt] = None
      /\ \A i, j \in 1 .. n : gotos[i].stmt = gotos[j].stmt => i = j
  BY <1>1 DEF NestingInv, GotosInv
<1>4. ASSUME NEW s \in Stmt
      PROVE  target'[s] = IF Nested!Destination(s) = {} THEN target[s]
                          ELSE CHOOSE t \in Nested!Destination(s) : TRUE
  <2>1. CASE \E i \in 1 .. n : gotos[i].stmt = s
    <3>1. PICK i \in 1 .. n : gotos[i].stmt = s
      BY <2>1
    <3>2. (CHOOSE j \in DOMAIN gotos : gotos[j].stmt = s) = i
      BY <1>2, <1>3, <3>1
    <3>3. target'[s] = To(i)
      BY <1>1, <1>2, <3>1, <3>2
    <3>4. Nested!Destination(s) = {t \in Stmt : To(i) = t}
      BY <1>3, <3>1, DestinationIs
    <3>5. CASE To(i) = None
      <4>1. Nested!Destination(s) = {}
        BY <3>4, <3>5 DEF Stmt, None
      <4> QED
        BY <1>3, <3>1, <3>3, <3>5, <4>1
    <3>6. CASE To(i) # None
      <4>1. To(i) \in Stmt
        BY <1>2, <3>6 DEF StmtOrNone
      <4>2. Nested!Destination(s) = {To(i)}
        BY <3>4, <4>1
      <4> QED
        BY <3>3, <4>2
    <3> QED
      BY <3>5, <3>6
  <2>2. CASE ~(\E i \in 1 .. n : gotos[i].stmt = s)
    <3>1. Nested!Destination(s) = {}
      BY <2>2, DestinationIs
    <3> QED
      BY <1>1, <1>2, <2>2, <3>1
  <2> QED
    BY <2>1, <2>2
<1>5. Nested!Stmt = Stmt
  BY DEF Nested!Stmt, Stmt
<1>6. target' = [s \in Nested!Stmt |-> IF Nested!Destination(s) = {} THEN target[s]
                                       ELSE CHOOSE t \in Nested!Destination(s) : TRUE]
  BY <1>1, <1>4, <1>5
<1>7. (\E i \in 1 .. n : To(i) = None) <=> \E j \in JumpsOf(gotos) : Nested!Destination(j[2]) = {}
  <2>1. ASSUME NEW i \in 1 .. n PROVE To(i) = None <=> Nested!Destination(gotos[i].stmt) = {}
    <3>1. Nested!Destination(gotos[i].stmt) = {t \in Stmt : To(i) = t}
      <4>1. gotos[i].stmt \in Stmt
        BY <1>2
      <4> QED
        BY <1>3, <4>1, DestinationIs
    <3>2. To(i) \in StmtOrNone /\ None \notin Stmt
      BY <1>2 DEF Stmt, None
    <3> QED
      BY <3>1, <3>2 DEF StmtOrNone
  <2>2. \A j : j \in JumpsOf(gotos) <=> \E i \in 1 .. n : j = << gotos[i].label, gotos[i].stmt >>
    BY <1>2 DEF JumpsOf
  <2> DEFINE D(s) == Nested!Destination(s)
             J(i) == << gotos[i].label, gotos[i].stmt >>
  <2>3. \A i \in 1 .. n : J(i)[2] = gotos[i].stmt /\ J(i) \in JumpsOf(gotos)
    BY <2>2
  <2>4. \A i \in 1 .. n : To(i) = None <=> D(J(i)[2]) = {}
    BY <2>1, <2>3
  <2>5. \A j \in JumpsOf(gotos) : \E i \in 1 .. n : j = J(i)
    BY <2>2
  <2> HIDE DEF D, J, To, n
  <2>6. (\E i \in 1 .. n : To(i) = None) <=> \E j \in JumpsOf(gotos) : D(j[2]) = {}
    BY <2>3, <2>4, <2>5
  <2> QED
    BY <2>6 DEF D
<1>8. error' = (error \/ \E j \in {<< gotos[i].label, gotos[i].stmt >> : i \in DOMAIN gotos} :
                            Nested!Destination(j[2]) = {})
  <2>1. error' = (error \/ \E j \in JumpsOf(gotos) : Nested!Destination(j[2]) = {})
    BY <1>1, <1>2, <1>7
  <2> QED
    BY <2>1, MarksAre
<1>9. Len(Nest) = 1 /\ NestOf(stack') = << >>
  <2>1. NestOf(stack') = << >>
    BY <1>1 DEF NestOf
  <2> QED
    BY <1>1, <2>1, NestType DEF Nest, TypeOK
<1> QED
  BY <1>1, <1>6, <1>8, <1>9, NestIs, MarksStay DEF Nested!End

\* Every step of the traversal is one of the nested statements.
LEMMA StepNests ==
  ASSUME TypeOK, ContextIsInnermost, NestingInv, [Next]_vars
  PROVE  [Nested!Next]_Nested!vars
<1>1. ASSUME Next PROVE Nested!Next
  <2>1. AnalyzeFunction => Nested!Function
    BY FunctionNests
  <2>2. PlainStmt => Nested!Plain
    BY PlainNests
  <2>3. Block \/ If => Nested!Group
    BY GroupNests
  <2>4. Loop => Nested!Loop
    BY LoopNests
  <2>5. \A ty : Switch(ty) => Nested!Switch(ty)
    BY SwitchNests
  <2>6. \A c \in BOOLEAN, v \in Value : Case(c, v) => Nested!Case(c, v)
    BY CaseNests
  <2>7. Default => Nested!Default
    BY DefaultNests
  <2>8. Break \/ Continue => Nested!Break \/ Nested!Continue
    BY BreakNests
  <2>9. \A l \in Label : LabelStmt(l) => Nested!LabelStmt(l)
    BY LabelNests
  <2>10. \A l \in Label : Goto(l) => Nested!Goto(l)
    BY GotoNests
  <2>11. Return => Nested!Close
    BY ReturnNests
  <2>12. ResolveGotos => Nested!End
    BY EndNests
  <2> QED
    BY <1>1, <2>1, <2>2, <2>3, <2>4, <2>5, <2>6, <2>7, <2>8, <2>9, <2>10, <2>11, <2>12
       DEF Next, Nested!Next
<1>2. ASSUME UNCHANGED vars PROVE UNCHANGED Nested!vars
  <2>1. /\ NestOf(stack') = NestOf(stack)
        /\ UNCHANGED << count, target, firstCase, nextCase, caseValue, defaultCase, condType, error >>
        /\ UNCHANGED << labels, gotos >>
    BY <1>2 DEF vars, ast
  <2> QED
    BY <2>1, NestIs, MarksStay DEF Nested!vars, Nest
<1> QED
  BY <1>1, <1>2

LEMMA InitNests ==
  ASSUME Init
  PROVE  Nested!Init
<1>1. /\ stack = << >> /\ gotos = << >> /\ count = 0 /\ error = FALSE
      /\ labels = [l \in Label |-> None]
      /\ target = [s \in Stmt |-> None] /\ defaultCase = [s \in Stmt |-> None]
      /\ condType = [s \in Stmt |-> "none"]
      /\ \A s \in Stmt : firstCase[s] = None /\ nextCase[s] = None
  BY DEF Init
<1>2. NestOf(stack) = << >> /\ LabelledOf(labels) = {} /\ JumpsOf(gotos) = {}
  BY <1>1 DEF NestOf, LabelledOf, JumpsOf
<1>3. Forward(nextCase)
  BY <1>1 DEF Forward, StmtOrNone
<1>4. \A s \in Stmt : Chain(s) = << >>
  BY <1>1, <1>3, FromStep, ChainIs
<1>5. [s \in Stmt |-> Chain(s)] = [s \in Stmt |-> << >>]
  BY <1>4
<1>6. Nested!Stmt = Stmt /\ Nested!None = None
  BY DEF Nested!Stmt, Stmt, Nested!None, None
<1> QED
  BY <1>1, <1>2, <1>5, <1>6, NestIs, MarksAre DEF Nested!Init, Nest

\* Through saved locals, linked cases and deferred gotos analyze_stmt gives
\* every statement the meaning its nesting has, diagnostics included.
THEOREM NestingDecides == Spec => ImplementsNesting
<1>1. Init => NestingInv /\ Nested!Init
  BY NestingInit, InitNests
<1>2. TypeOK /\ NestingInv /\ [Next]_vars => NestingInv'
  BY NestingNext
<1>3. TypeOK /\ ContextIsInnermost /\ NestingInv /\ [Next]_vars => [Nested!Next]_Nested!vars
  BY StepNests
<1>4. Spec => Nested!Init /\ [][Nested!Next]_Nested!vars
  BY <1>1, <1>2, <1>3, TypeCorrect, ContextFollowsNesting, PTL DEF Spec
<1> QED
  BY <1>4, PTL DEF ImplementsNesting, Nested!Spec

=============================================================================
