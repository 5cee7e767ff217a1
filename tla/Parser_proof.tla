---------------------------- MODULE Parser_proof ----------------------------
(***************************************************************************)
(* Proofs about module Parser, for every file and every language: how the  *)
(* diagnostics are bounded by the tokens. Every report but the first of a  *)
(* panic is suppressed; a panic ends only where a token was taken since    *)
(* the item that failed was begun, or one is taken for it there; and the   *)
(* brace that closes a block, which may be reported at the end of the file *)
(* once for every block, is paid for by the one that opened it. And how the *)
(* steps that are left to do use the trees returned: each takes some of     *)
(* them and leaves one, so that what each tree is can be told from what is  *)
(* left to do.                                                             *)
(***************************************************************************)
EXTENDS Parser, FiniteSetTheorems, WellFoundedInduction, SequenceTheorems, TLAPS

-----------------------------------------------------------------------------
(* What is left to do, as a sequence.                                      *)

\* Members of todo are of many shapes: it is a sequence over some set.
IsSeq(s) == \E S : s \in Seq(S)

\* A loop of parse_block or parse_translation_unit, between two rounds.
LoopHeads == {"item", "unit", "synchronize"}

\* A step that begins no round, ends none and opens no block.
Plain(s) == s.do \notin LoopHeads \cup {"recover", "block", "operand"}

\* What belongs to a block that is open: exactly one step for each.
OfBlock(s) == \/ s.do = "item"
              \/ s.do \in {"recover", "synchronize"} /\ s.scope = "item"

BlockSteps(t) == {i \in DOMAIN t : OfBlock(t[i])}
Depth(t) == Cardinality(BlockSteps(t))

\* The innermost round under way began at token c.
Fresh(t, c) == \E r \in DOMAIN t : /\ t[r].do = "recover" /\ t[r].before = c
                                   /\ \A i \in 1 .. r - 1 : t[i].do # "recover"

LEMMA SeqFacts ==
  ASSUME NEW s, IsSeq(s)
  PROVE  /\ Len(s) \in Nat /\ DOMAIN s = 1 .. Len(s)
         /\ s # << >> => /\ Len(s) > 0 /\ Head(s) = s[1] /\ IsSeq(Tail(s))
                         /\ Len(Tail(s)) = Len(s) - 1
                         /\ \A i \in 1 .. Len(s) - 1 : Tail(s)[i] = s[i + 1]
<1>1. PICK S : s \in Seq(S)
  BY DEF IsSeq
<1>2. s # << >> => Tail(s) \in Seq(S)
  BY <1>1
<1> QED
  BY <1>1, <1>2 DEF IsSeq

LEMMA ConcatFacts ==
  ASSUME NEW s, NEW t, IsSeq(s), IsSeq(t)
  PROVE  /\ IsSeq(s \o t) /\ Len(s \o t) = Len(s) + Len(t)
         /\ \A i \in 1 .. Len(s) : (s \o t)[i] = s[i]
         /\ \A i \in 1 .. Len(t) : (s \o t)[Len(s) + i] = t[i]
<1>1. PICK S : s \in Seq(S)
  BY DEF IsSeq
<1>2. PICK T : t \in Seq(T)
  BY DEF IsSeq
<1> DEFINE U == S \cup T
<1>3. s \in Seq(U) /\ t \in Seq(U)
  BY <1>1, <1>2
<1> HIDE DEF U
<1>4. s \o t \in Seq(U)
  BY <1>3
<1> QED
  BY <1>3, <1>4 DEF IsSeq

LEMMA DepthIsNat ==
  ASSUME NEW t, IsSeq(t)
  PROVE  IsFiniteSet(BlockSteps(t)) /\ Depth(t) \in Nat
<1>1. BlockSteps(t) \subseteq 1 .. Len(t) /\ Len(t) \in Nat
  BY SeqFacts DEF BlockSteps
<1>2. IsFiniteSet(1 .. Len(t))
  BY <1>1, FS_Interval
<1>3. IsFiniteSet(BlockSteps(t))
  BY <1>1, <1>2, FS_Subset
<1> QED
  BY <1>3, FS_CardinalityType DEF Depth

\* Putting steps that belong to no block before others leaves the depth.
LEMMA DepthOfConcat ==
  ASSUME NEW s, NEW t, IsSeq(s), IsSeq(t), \A i \in DOMAIN s : ~OfBlock(s[i])
  PROVE  Depth(s \o t) = Depth(t)
<1> DEFINE n == Len(s)
           f == [i \in BlockSteps(t) |-> n + i]
<1>1. n \in Nat /\ Len(t) \in Nat /\ DOMAIN s = 1 .. n /\ DOMAIN t = 1 .. Len(t)
  BY SeqFacts
<1>2. IsSeq(s \o t) /\ Len(s \o t) = n + Len(t)
  BY ConcatFacts
<1>3. DOMAIN (s \o t) = 1 .. n + Len(t)
  BY <1>2, SeqFacts
<1>4. \A i \in 1 .. n : (s \o t)[i] = s[i]
  BY ConcatFacts
<1>5. \A i \in 1 .. Len(t) : (s \o t)[n + i] = t[i]
  BY ConcatFacts
<1>6. \A i \in BlockSteps(t) : i \in 1 .. Len(t) /\ n + i \in BlockSteps(s \o t)
  BY <1>1, <1>3, <1>5 DEF BlockSteps
<1>7. \A j \in BlockSteps(s \o t) : \E i \in BlockSteps(t) : j = n + i
  <2> SUFFICES ASSUME NEW j \in BlockSteps(s \o t) PROVE \E i \in BlockSteps(t) : j = n + i
    OBVIOUS
  <2>1. j \in 1 .. n + Len(t) /\ OfBlock((s \o t)[j])
    BY <1>3 DEF BlockSteps
  <2>2. ~(j \in 1 .. n)
    BY <2>1, <1>1, <1>4
  <2>3. j - n \in 1 .. Len(t) /\ j = n + (j - n)
    BY <2>1, <2>2, <1>1
  <2>4. OfBlock(t[j - n])
    BY <2>1, <2>3, <1>5
  <2> QED
    BY <2>3, <2>4, <1>1 DEF BlockSteps
<1>8. \A i \in BlockSteps(t) : i \in Int
  BY <1>6
<1> HIDE DEF n
<1>9. f \in Bijection(BlockSteps(t), BlockSteps(s \o t))
  <2>1. f \in [BlockSteps(t) -> BlockSteps(s \o t)]
    BY <1>6
  <2>2. \A i, j \in BlockSteps(t) : f[i] = f[j] => i = j
    BY <1>8, <1>1
  <2>3. \A j \in BlockSteps(s \o t) : \E i \in BlockSteps(t) : f[i] = j
    BY <1>7
  <2> HIDE DEF f
  <2> QED
    BY <2>1, <2>2, <2>3 DEF Bijection, Injection, Surjection, IsInjective
<1>10. IsFiniteSet(BlockSteps(t))
  BY DepthIsNat
<1> HIDE DEF f
<1>11. ExistsBijection(BlockSteps(t), BlockSteps(s \o t))
  BY <1>9 DEF ExistsBijection
<1> QED
  BY <1>10, <1>11, FS_Bijection DEF Depth

\* The head counts if it belongs to a block.
LEMMA DepthOfTail ==
  ASSUME NEW t, IsSeq(t), t # << >>
  PROVE  Depth(t) = Depth(Tail(t)) + (IF OfBlock(t[1]) THEN 1 ELSE 0)
<1> DEFINE u == Tail(t)
           A == {i + 1 : i \in BlockSteps(u)}
           f == [i \in BlockSteps(u) |-> i + 1]
<1>1. /\ Len(t) \in Nat /\ Len(t) > 0 /\ DOMAIN t = 1 .. Len(t) /\ IsSeq(u)
      /\ Len(u) = Len(t) - 1 /\ \A i \in 1 .. Len(t) - 1 : u[i] = t[i + 1]
  BY SeqFacts
<1>2. DOMAIN u = 1 .. Len(t) - 1
  BY <1>1, SeqFacts
<1>3. \A i \in BlockSteps(u) : i \in 1 .. Len(t) - 1 /\ OfBlock(t[i + 1])
  BY <1>1, <1>2 DEF BlockSteps
<1> HIDE DEF u
<1>4. f \in Bijection(BlockSteps(u), A)
  <2>1. f \in [BlockSteps(u) -> A]
    OBVIOUS
  <2>2. \A i, j \in BlockSteps(u) : f[i] = f[j] => i = j
    BY <1>3, <1>1
  <2>3. \A j \in A : \E i \in BlockSteps(u) : f[i] = j
    OBVIOUS
  <2> HIDE DEF f, A
  <2> QED
    BY <2>1, <2>2, <2>3 DEF Bijection, Injection, Surjection, IsInjective
<1>5. IsFiniteSet(BlockSteps(u)) /\ Depth(u) \in Nat
  BY <1>1, DepthIsNat
<1>6. IsFiniteSet(A) /\ Cardinality(A) = Depth(u)
  <2> HIDE DEF f, A
  <2>1. ExistsBijection(BlockSteps(u), A)
    BY <1>4 DEF ExistsBijection
  <2> QED
    BY <2>1, <1>5, FS_Bijection DEF Depth
<1>7. \A x \in A : x \in 2 .. Len(t) /\ OfBlock(t[x])
  BY <1>3, <1>1
<1>8. \A x \in BlockSteps(t) : x = 1 \/ x \in A
  <2> SUFFICES ASSUME NEW x \in BlockSteps(t), x # 1 PROVE x \in A
    OBVIOUS
  <2>1. x \in 2 .. Len(t) /\ OfBlock(t[x])
    BY <1>1 DEF BlockSteps
  <2>2. x - 1 \in 1 .. Len(t) - 1 /\ (x - 1) + 1 = x
    BY <2>1, <1>1
  <2>3. OfBlock(u[x - 1])
    BY <2>1, <2>2, <1>1
  <2>4. x - 1 \in BlockSteps(u)
    BY <2>2, <2>3, <1>2 DEF BlockSteps
  <2> QED
    BY <2>2, <2>4
<1>9. 1 \notin A
  BY <1>7
<1> HIDE DEF A
<1>10. CASE OfBlock(t[1])
  <2>1. BlockSteps(t) = A \cup {1}
    BY <1>10, <1>1, <1>7, <1>8 DEF BlockSteps
  <2> QED
    BY <2>1, <1>10, <1>6, <1>9, FS_AddElement DEF Depth, u
<1>11. CASE ~OfBlock(t[1])
  <2>1. BlockSteps(t) = A
    BY <1>11, <1>1, <1>7, <1>8 DEF BlockSteps
  <2> QED
    BY <2>1, <1>11, <1>6, <1>5 DEF Depth, u
<1> QED
  BY <1>10, <1>11

\* The same of a step put in front.
LEMMA DepthOfCons ==
  ASSUME NEW x, NEW u, IsSeq(u)
  PROVE  Depth(<< x >> \o u) = Depth(u) + (IF OfBlock(x) THEN 1 ELSE 0)
<1>1. IsSeq(<< x >>) /\ Len(<< x >>) = 1 /\ << x >>[1] = x
  <2>1. << x >> \in Seq({x})
    OBVIOUS
  <2> QED
    BY <2>1 DEF IsSeq
<1> DEFINE t == << x >> \o u
<1>2. IsSeq(t) /\ Len(t) = 1 + Len(u) /\ t[1] = x /\ \A i \in 1 .. Len(u) : t[1 + i] = u[i]
  BY <1>1, ConcatFacts
<1>3. Tail(t) = u
  <2>1. PICK U : u \in Seq(U)
    BY DEF IsSeq
  <2> QED
    BY <2>1
<1>4. t # << >>
  BY <1>2, SeqFacts
<1> HIDE DEF t
<1> QED
  BY <1>2, <1>3, <1>4, DepthOfTail DEF t

\* Where the innermost round began does not depend on the steps before it.
LEMMA FreshInConcat ==
  ASSUME NEW s, NEW t, NEW c, IsSeq(s), IsSeq(t), \A i \in DOMAIN s : s[i].do # "recover"
  PROVE  Fresh(t, c) => Fresh(s \o t, c)
<1> SUFFICES ASSUME Fresh(t, c) PROVE Fresh(s \o t, c)
  OBVIOUS
<1> DEFINE n == Len(s)
<1>1. n \in Nat /\ Len(t) \in Nat /\ DOMAIN s = 1 .. n /\ DOMAIN t = 1 .. Len(t)
  BY SeqFacts
<1>2. IsSeq(s \o t) /\ Len(s \o t) = n + Len(t)
  BY ConcatFacts
<1>3. DOMAIN (s \o t) = 1 .. n + Len(t)
  BY <1>2, SeqFacts
<1>4. \A i \in 1 .. n : (s \o t)[i] = s[i]
  BY ConcatFacts
<1>5. \A i \in 1 .. Len(t) : (s \o t)[n + i] = t[i]
  BY ConcatFacts
<1>6. PICK r \in 1 .. Len(t) : /\ t[r].do = "recover" /\ t[r].before = c
                               /\ \A i \in 1 .. r - 1 : t[i].do # "recover"
  BY <1>1 DEF Fresh
<1> HIDE DEF n
<1>7. n + r \in 1 .. n + Len(t) /\ (s \o t)[n + r] = t[r]
  BY <1>1, <1>5, <1>6
<1>8. \A i \in 1 .. (n + r) - 1 : (s \o t)[i].do # "recover"
  <2> SUFFICES ASSUME NEW i \in 1 .. (n + r) - 1 PROVE (s \o t)[i].do # "recover"
    OBVIOUS
  <2>1. CASE i <= n
    BY <2>1, <1>1, <1>4
  <2>2. CASE i > n
    <3>1. i - n \in 1 .. r - 1 /\ i - n \in 1 .. Len(t) /\ n + (i - n) = i
      BY <2>2, <1>1, <1>6
    <3> QED
      BY <3>1, <1>5, <1>6
  <2> QED
    BY <2>1, <2>2, <1>1
<1> QED
  BY <1>3, <1>6, <1>7, <1>8 DEF Fresh

LEMMA FreshInTail ==
  ASSUME NEW t, NEW c, IsSeq(t), t # << >>, t[1].do # "recover", Fresh(t, c)
  PROVE  Fresh(Tail(t), c)
<1>1. /\ Len(t) \in Nat /\ Len(t) > 0 /\ DOMAIN t = 1 .. Len(t) /\ IsSeq(Tail(t))
      /\ Len(Tail(t)) = Len(t) - 1 /\ \A i \in 1 .. Len(t) - 1 : Tail(t)[i] = t[i + 1]
  BY SeqFacts
<1>2. DOMAIN Tail(t) = 1 .. Len(t) - 1
  BY <1>1, SeqFacts
<1>3. PICK r \in 1 .. Len(t) : /\ t[r].do = "recover" /\ t[r].before = c
                               /\ \A i \in 1 .. r - 1 : t[i].do # "recover"
  BY <1>1 DEF Fresh
<1>4. r # 1 /\ r - 1 \in 1 .. Len(t) - 1 /\ (r - 1) + 1 = r
  BY <1>1, <1>3
<1>5. Tail(t)[r - 1] = t[r]
  BY <1>1, <1>4
<1>6. \A i \in 1 .. (r - 1) - 1 : Tail(t)[i].do # "recover"
  <2> SUFFICES ASSUME NEW i \in 1 .. (r - 1) - 1 PROVE Tail(t)[i].do # "recover"
    OBVIOUS
  <2>1. i \in 1 .. Len(t) - 1 /\ i + 1 \in 1 .. r - 1
    BY <1>1, <1>3
  <2> QED
    BY <2>1, <1>1, <1>3
<1> QED
  BY <1>2, <1>3, <1>4, <1>5, <1>6 DEF Fresh

-----------------------------------------------------------------------------
(* What a step does with the tokens and the diagnostics.                   *)

USE FilesAssumption

\* What a token may be.
FrameText == {"int", "ident", "(", ")", "{", "}", ";", "eof"}
Text == FrameText \cup UNION {Files[f].kinds : f \in DOMAIN Files}

ParserState == [current : Nat, previous : Text, panic : BOOLEAN, errors : Nat]

\* No error is reported while it does.
InPanic(p) == p.panic = TRUE

\* p stands in the file, and the token it would take has been read.
AtToken(p) == /\ source \in Seq(Text) /\ p \in ParserState /\ p.current <= Len(source)
              /\ (p.current > 0 /\ Kind(p) = "eof") \/ After(p.current) # 0

\* From p to q nothing happened, or tokens were taken, an error reported on
\* the way or not, or an error was reported where p stands. In a panic none is.
Progress(p, q) ==
    \/ q.current = p.current /\ q.errors = p.errors /\ (InPanic(q) <=> InPanic(p))
    \/ q.current > p.current /\ q.errors = p.errors /\ (InPanic(q) <=> InPanic(p))
    \/ q.current >= p.current /\ ~InPanic(p) /\ InPanic(q) /\ q.errors <= p.errors + 1

LEMMA AfterIsLater ==
  ASSUME source \in Seq(Text), NEW i \in Nat
  PROVE  After(i) = 0 \/ After(i) \in i + 1 .. Len(source)
<1> DEFINE L == {j \in i + 1 .. Len(source) : source[j] # "error"}
<1>1. CASE L = {}
  BY <1>1 DEF After
<1>2. CASE L # {}
  <2>1. L \subseteq Nat /\ L \subseteq i + 1 .. Len(source)
    OBVIOUS
  <2>2. After(i) = Min(L)
    BY <1>2 DEF After
  <2> HIDE DEF L
  <2>3. \E x \in L : \A y \in L : x <= y
    <3> DEFINE R == OpToRel(<, Nat)
    <3>1. PICK x \in L : \A y \in L : ~(<< y, x >> \in R)
      BY <1>2, <2>1, NatLessThanWellFounded, WFMin, Zenon
    <3>3. \A p, q \in Nat : p < q => << p, q >> \in R
      BY DEF OpToRel
    <3> HIDE DEF R
    <3>4. \A y \in L : y \in Nat /\ x \in Nat /\ ~(y < x)
      BY <2>1, <3>1, <3>3
    <3> QED
      BY <3>4
  <2>4. Min(L) \in L
    BY <2>3 DEF Min
  <2> QED
    BY <2>1, <2>2, <2>4
<1> QED
  BY <1>1, <1>2

\* A state after it was changed, and its fields.
Reporting(p, n) == [p EXCEPT !.panic = TRUE, !.errors = n]
Calmed(p) == [p EXCEPT !.panic = FALSE]
Reading(p, w, d) == [p EXCEPT !.previous = w, !.current = d]

LEMMA ReportedState ==
  ASSUME NEW p \in ParserState, NEW n \in Nat
  PROVE  /\ Reporting(p, n) \in ParserState /\ Reporting(p, n).current = p.current
         /\ Reporting(p, n).errors = n /\ InPanic(Reporting(p, n))
BY DEF Reporting, ParserState, InPanic

LEMMA CalmState ==
  ASSUME NEW p \in ParserState
  PROVE  /\ Calmed(p) \in ParserState /\ Calmed(p).current = p.current
         /\ Calmed(p).errors = p.errors /\ ~InPanic(Calmed(p))
BY DEF Calmed, ParserState, InPanic

LEMMA ReadState ==
  ASSUME NEW p \in ParserState, NEW w \in Text, NEW d \in Nat
  PROVE  /\ Reading(p, w, d) \in ParserState /\ Reading(p, w, d).current = d
         /\ Reading(p, w, d).errors = p.errors
         /\ (InPanic(Reading(p, w, d)) <=> InPanic(p))
<1> DEFINE q == Reading(p, w, d)
<1>1. PICK c \in Nat, v \in Text, b \in BOOLEAN, e \in Nat :
          p = [current |-> c, previous |-> v, panic |-> b, errors |-> e]
  BY DEF ParserState
<1>0. q = [p EXCEPT !.previous = w, !.current = d]
  BY DEF Reading
<1> HIDE DEF q
<1>2. q = [current |-> d, previous |-> w, panic |-> b, errors |-> e]
  BY <1>0, <1>1
<1>3. q \in ParserState
  BY <1>2 DEF ParserState
<1>4. q.current = d /\ q.errors = p.errors /\ q.panic = b /\ p.panic = b
  BY <1>1, <1>2
<1>5. InPanic(q) <=> InPanic(p)
  BY <1>4 DEF InPanic
<1> QED
  BY <1>3, <1>4, <1>5 DEF q

LEMMA FieldTypes ==
  ASSUME NEW p \in ParserState
  PROVE  p.current \in Nat /\ p.errors \in Nat /\ p.previous \in Text
BY DEF ParserState

LEMMA ErrorReports ==
  ASSUME NEW p \in ParserState
  PROVE  /\ Error(p) \in ParserState
         /\ Error(p).current = p.current
         /\ Kind(Error(p)) = Kind(p)
         /\ InPanic(p) => Error(p) = p
         /\ ~InPanic(p) => InPanic(Error(p)) /\ Error(p).errors \in p.errors .. p.errors + 1
         /\ Progress(p, Error(p))
<1>1. p.errors \in Nat /\ p.current \in Nat
  BY FieldTypes
<1>2. CASE InPanic(p)
  <2>1. Error(p) = p
    BY <1>2 DEF Error, InPanic
  <2> QED
    BY <2>1, <1>2 DEF Progress
<1>3. CASE ~InPanic(p)
  <2> DEFINE n == IF p.errors < MaxErrors THEN p.errors + 1 ELSE p.errors
             q == Error(p)
  <2>1. q = Reporting(p, n)
    <3>1. ~p.panic
      BY <1>3 DEF ParserState, InPanic
    <3> QED
      BY <3>1 DEF Error, Reporting
  <2>2. n \in Nat /\ n \in p.errors .. p.errors + 1
    BY <1>1
  <2> HIDE DEF n, q
  <2>3. q \in ParserState /\ q.current = p.current /\ q.errors = n /\ InPanic(q)
    BY <2>1, <2>2, ReportedState
  <2>4. Progress(p, q) /\ Kind(q) = Kind(p)
    BY <2>2, <2>3, <1>1, <1>3 DEF Progress, Kind
  <2> QED
    BY <2>2, <2>3, <2>4, <1>3 DEF q
<1> QED
  BY <1>2, <1>3

LEMMA AdvanceTakes ==
  ASSUME NEW p, AtToken(p)
  PROVE  /\ Advance(p) \in ParserState
         /\ Advance(p).current <= Len(source)
         /\ Advance(p).current >= p.current
         /\ Advance(p).current > 0
         /\ Progress(p, Advance(p))
         /\ p.current = 0 \/ Kind(p) # "eof" => Advance(p).current > p.current
         /\ Advance(p).errors # p.errors => Advance(p).current > p.current + 1
         /\ (InPanic(p) /\ ~InPanic(Advance(p))) => FALSE
         /\ (InPanic(Advance(p)) /\ ~InPanic(p)) => Advance(p).current > p.current + 1
<1> DEFINE next == IF p.current > 0 /\ Kind(p) = "eof" THEN p.current ELSE After(p.current)
           w == IF p.current = 0 THEN "(" ELSE Kind(p)
           read == [p EXCEPT !.previous = w, !.current = next]
<1>1. /\ source \in Seq(Text) /\ p \in ParserState /\ p.current <= Len(source)
      /\ Len(source) \in Nat /\ p.current \in Nat /\ p.errors \in Nat
  BY FieldTypes DEF AtToken
<1>2. next \in p.current .. Len(source) /\ next > 0
  BY <1>1, AfterIsLater DEF AtToken
<1>3. p.current = 0 \/ Kind(p) # "eof" => next > p.current
  BY <1>1, AfterIsLater DEF AtToken
<1>4. w \in Text
  <2>1. "(" \in FrameText
    BY DEF FrameText
  <2>2. p.current > 0 => Kind(p) \in Text
    <3> HIDE DEF next, w, read
    <3> QED
      BY <1>1 DEF Kind
  <2>3. FrameText \subseteq Text
    BY DEF Text
  <2> QED
    BY <2>1, <2>2, <2>3, <1>1
<1>5. Advance(p) = IF next > p.current + 1 THEN Error(read) ELSE read
  BY DEF Advance
<1> HIDE DEF next, w
<1>6. /\ read \in ParserState
      /\ read.current = next /\ read.errors = p.errors
      /\ InPanic(read) <=> InPanic(p)
  <2>1. read = Reading(p, w, next)
    BY DEF Reading
  <2>2. next \in Nat
    BY <1>1, <1>2
  <2> HIDE DEF read
  <2> QED
    BY <2>1, <2>2, <1>1, <1>4, ReadState
<1> HIDE DEF read
<1>7. CASE ~(next > p.current + 1)
  <2>1. Advance(p) = read
    BY <1>5, <1>7
  <2> QED
    BY <2>1, <1>1, <1>2, <1>3, <1>6, <1>7 DEF Progress
<1>8. CASE next > p.current + 1
  <2>1. Advance(p) = Error(read)
    BY <1>5, <1>8
  <2>2. /\ Advance(p) \in ParserState
        /\ Advance(p).current = next
        /\ InPanic(p) => Advance(p).errors = p.errors /\ InPanic(Advance(p))
        /\ ~InPanic(p) => InPanic(Advance(p)) /\ Advance(p).errors \in p.errors .. p.errors + 1
    BY <2>1, <1>6, ErrorReports
  <2> QED
    BY <2>2, <1>1, <1>2, <1>8 DEF Progress
<1> QED
  BY <1>7, <1>8

\* What the parser is after a step.
Moved(p, q) == /\ q \in ParserState /\ q.current <= Len(source) /\ Progress(p, q)
               /\ p.current > 0 => q.current > 0

LEMMA AdvanceMoves ==
  ASSUME NEW p, AtToken(p)
  PROVE  Moved(p, Advance(p))
BY AdvanceTakes DEF Moved

LEMMA ErrorMoves ==
  ASSUME NEW p, AtToken(p)
  PROVE  Moved(p, Error(p))
BY ErrorReports DEF Moved, AtToken

LEMMA StayMoves ==
  ASSUME NEW p, AtToken(p)
  PROVE  Moved(p, p)
BY DEF Moved, AtToken, Progress

LEMMA ConsumeMoves ==
  ASSUME NEW p, AtToken(p), NEW kind
  PROVE  Moved(p, Consume(p, kind))
BY AdvanceMoves, ErrorMoves DEF Consume

\* The token taken is the wrong one: it is not the end of the file.
LEMMA ErrorAfterAdvanceMoves ==
  ASSUME NEW p, AtToken(p), Kind(p) # "eof"
  PROVE  Moved(p, Error(Advance(p)))
<1> DEFINE q == Advance(p)
           r == Error(q)
<1>1. /\ q \in ParserState /\ q.current <= Len(source) /\ q.current > p.current
      /\ Progress(p, q)
  BY AdvanceTakes
<1> HIDE DEF q
<1>2. /\ r \in ParserState
      /\ r.current = q.current
      /\ InPanic(q) => r = q
      /\ ~InPanic(q) => InPanic(r) /\ r.errors \in q.errors .. q.errors + 1
  BY <1>1, ErrorReports
<1> HIDE DEF r
<1>3. /\ p.errors \in Nat /\ q.errors \in Nat /\ r.errors \in Nat
      /\ p.current \in Nat /\ q.current \in Nat /\ Len(source) \in Nat
  BY <1>1, <1>2, FieldTypes DEF AtToken
<1>4. Moved(p, r)
  BY <1>1, <1>2, <1>3 DEF Moved, Progress
<1> QED
  BY <1>4 DEF r, q

-----------------------------------------------------------------------------
(* The invariant.                                                          *)

Ordinary(s) == s.do \notin LoopHeads \cup {"recover"}

\* What belongs to the loop over the file.
OfUnit(s) == \/ s.do = "unit"
             \/ s.do \in {"recover", "synchronize"} /\ s.scope = "unit"

\* Rounds begin and blocks open only at the head; an operand has its node
\* next; a round began at a token that is not the end of the file; the loop
\* over the file is the outermost.
Ordered(t, text) ==
    \A i \in DOMAIN t :
        /\ i > 1 => t[i].do \notin LoopHeads \cup {"block"}
        /\ t[i].do = "operand" => i < Len(t) /\ t[i + 1].do = "make"
        /\ t[i].do \in {"recover", "synchronize"} => t[i].scope \in {"item", "unit"}
        /\ t[i].do = "recover" => t[i].before \in 1 .. Len(text) /\ text[t[i].before] # "eof"
        /\ OfUnit(t[i]) => i = Len(t)

Typed == /\ input \in DOMAIN Files
         /\ source \in Seq(Text) /\ parser \in ParserState /\ parser.current <= Len(source)
         /\ IsSeq(todo)

AtStart == /\ parser.current = 0 /\ parser.errors = 0 /\ ~InPanic(parser)
           /\ todo = << Do("advance"), Do("unit") >>

BlockAhead == todo # << >> /\ todo[1].do = "block" => Current = "{"

AtLoop(t) == t = << >> \/ t[1].do \in LoopHeads

\* What the tokens taken leave after the errors and the open blocks. Between
\* two rounds nothing is owed, but for the block that opens in a panic.
LoopBudget(p, t) ==
    \/ p.errors + Depth(t) <= p.current
    \/ InPanic(p) /\ t # << >> /\ t[1].do = "item" /\ p.errors + Depth(t) <= p.current + 1

\* In a round a token is left for an error, or the round is still where it
\* began and a token will be taken to end the panic.
StepBudget(p, t, text) ==
    \/ p.errors + Depth(t) + 1 <= p.current
    \/ p.errors + Depth(t) <= p.current /\ (InPanic(p) \/ Fresh(t, p.current))
    \/ /\ p.errors + Depth(t) <= p.current + 1 /\ InPanic(p) /\ Fresh(t, p.current)
       /\ Len(text) > p.current \/ Depth(t) > 0

Budget == IF AtLoop(todo) THEN LoopBudget(parser, todo) ELSE StepBudget(parser, todo, source)

Underway == parser.current > 0 /\ Ordered(todo, source) /\ BlockAhead /\ Budget

ReportInv == Typed /\ (AtStart \/ Underway)

\* What stays of the steps t when the head is done, and an operand's node.
Rest(t, u, text) ==
    /\ IsSeq(u) /\ Ordered(u, text) /\ \A i \in DOMAIN u : u[i].do \notin LoopHeads \cup {"block"}
    /\ Depth(u) = Depth(t) /\ \A c \in Nat : Fresh(t, c) => Fresh(u, c)

LEMMA OrderedTail ==
  ASSUME NEW t, NEW text, IsSeq(t), t # << >>, Ordered(t, text)
  PROVE  /\ IsSeq(Tail(t)) /\ Ordered(Tail(t), text)
         /\ \A i \in DOMAIN Tail(t) : Tail(t)[i].do \notin LoopHeads \cup {"block"}
<1> DEFINE u == Tail(t)
<1>1. /\ Len(t) \in Nat /\ Len(t) > 0 /\ DOMAIN t = 1 .. Len(t) /\ IsSeq(u)
      /\ Len(u) = Len(t) - 1 /\ \A i \in 1 .. Len(t) - 1 : u[i] = t[i + 1]
  BY SeqFacts
<1>2. DOMAIN u = 1 .. Len(t) - 1
  BY <1>1, SeqFacts
<1> HIDE DEF u
<1>5. \A i \in DOMAIN u : i + 1 \in DOMAIN t /\ i + 1 > 1 /\ u[i] = t[i + 1]
  BY <1>1, <1>2
<1>6. \A i \in DOMAIN u : u[i].do \notin LoopHeads \cup {"block"}
  BY <1>5 DEF Ordered
<1>7. Ordered(u, text)
  <2> SUFFICES ASSUME NEW i \in DOMAIN u
               PROVE  /\ i > 1 => u[i].do \notin LoopHeads \cup {"block"}
                      /\ u[i].do = "operand" => i < Len(u) /\ u[i + 1].do = "make"
                      /\ u[i].do \in {"recover", "synchronize"} => u[i].scope \in {"item", "unit"}
                      /\ u[i].do = "recover" => u[i].before \in 1 .. Len(text) /\ text[u[i].before] # "eof"
                      /\ OfUnit(u[i]) => i = Len(u)
    BY DEF Ordered
  <2>1. i + 1 \in DOMAIN t /\ u[i] = t[i + 1]
    BY <1>5
  <2>2. u[i].do = "operand" => i < Len(u) /\ u[i + 1].do = "make"
    <3> SUFFICES ASSUME u[i].do = "operand" PROVE i < Len(u) /\ u[i + 1].do = "make"
      OBVIOUS
    <3>1. i + 1 < Len(t) /\ t[(i + 1) + 1].do = "make"
      BY <2>1 DEF Ordered
    <3>2. i + 1 \in 1 .. Len(t) - 1
      BY <3>1, <1>1, <1>2
    <3>3. u[i + 1] = t[(i + 1) + 1]
      BY <3>2, <1>1
    <3> QED
      BY <3>1, <3>2, <3>3, <1>1
  <2>3. OfUnit(u[i]) => i = Len(u)
    BY <2>1, <1>1, <1>2 DEF Ordered
  <2> QED
    BY <2>1, <2>2, <2>3, <1>6 DEF Ordered
<1> QED
  BY <1>1, <1>6, <1>7 DEF u

LEMMA RestOfTail ==
  ASSUME NEW t, NEW text, IsSeq(t), t # << >>, Ordered(t, text), Ordinary(t[1])
  PROVE  Rest(t, Tail(t), text)
<1> DEFINE u == Tail(t)
<1>1. IsSeq(u) /\ Ordered(u, text) /\ \A i \in DOMAIN u : u[i].do \notin LoopHeads \cup {"block"}
  BY OrderedTail
<1>3. Depth(u) = Depth(t)
  <2>1. ~OfBlock(t[1])
    BY DEF OfBlock, Ordinary, LoopHeads
  <2>2. Depth(u) \in Nat
    BY <1>1, DepthIsNat
  <2> QED
    BY <2>1, <2>2, DepthOfTail
<1>4. \A c \in Nat : Fresh(t, c) => Fresh(u, c)
  BY FreshInTail DEF Ordinary
<1> HIDE DEF u
<1> QED
  BY <1>1, <1>3, <1>4 DEF Rest, u

\* An operand that is missing takes its node with it.
LEMMA RestAfterOperand ==
  ASSUME NEW t, NEW text, IsSeq(t), t # << >>, Ordered(t, text), t[1].do = "operand"
  PROVE  Rest(t, SubSeq(t, 3, Len(t)), text)
<1> DEFINE u == Tail(t)
<1>1. /\ Len(t) \in Nat /\ Len(t) > 0 /\ DOMAIN t = 1 .. Len(t) /\ IsSeq(u)
      /\ Len(u) = Len(t) - 1 /\ \A i \in 1 .. Len(t) - 1 : u[i] = t[i + 1]
  BY SeqFacts
<1>2. 1 < Len(t) /\ t[2].do = "make"
  BY <1>1 DEF Ordered
<1>3. Rest(t, u, text)
  BY RestOfTail DEF Ordinary, LoopHeads
<1>4. u # << >> /\ u[1].do = "make"
  BY <1>1, <1>2, SeqFacts
<1>5. Tail(u) = SubSeq(t, 3, Len(t))
  <2>1. PICK S : t \in Seq(S)
    BY DEF IsSeq
  <2> QED
    BY <2>1, <1>2
<1> HIDE DEF u
<1>6. Rest(u, Tail(u), text)
  BY <1>3, <1>4, RestOfTail DEF Rest, Ordinary, LoopHeads
<1> QED
  BY <1>3, <1>5, <1>6 DEF Rest

\* Steps that may be put before the rest, p being where the parser is then.
AtBrace(p) == Kind(p) = "{"
BlockAt(t) == t # << >> /\ t[1].do = "block"
RoundAt(t) == t # << >> /\ t[1].do \in LoopHeads

Steps(s, p) ==
    /\ IsSeq(s)
    /\ \A i \in DOMAIN s : /\ Ordinary(s[i])
                           /\ s[i].do = "block" => i = 1 /\ AtBrace(p)
                           /\ s[i].do = "operand" => i < Len(s) /\ s[i + 1].do = "make"

\* Steps put before others.
Followed(s, u) == s \o u

LEMMA StepsBeforeRest ==
  ASSUME NEW t, NEW text, NEW u, Rest(t, u, text), NEW p, NEW s, Steps(s, p), NEW v, v = Followed(s, u)
  PROVE  /\ IsSeq(v) /\ Ordered(v, text) /\ ~RoundAt(v)
         /\ BlockAt(v) => AtBrace(p)
         /\ Depth(v) = Depth(t) /\ \A c \in Nat : Fresh(t, c) => Fresh(v, c)
<1> DEFINE n == Len(s)
<1>1. /\ IsSeq(s) /\ IsSeq(u) /\ n \in Nat /\ Len(u) \in Nat
      /\ DOMAIN s = 1 .. n /\ DOMAIN u = 1 .. Len(u)
  BY SeqFacts DEF Steps, Rest
<1>2. /\ IsSeq(v) /\ Len(v) = n + Len(u)
      /\ \A i \in 1 .. n : v[i] = s[i]
      /\ \A i \in 1 .. Len(u) : v[n + i] = u[i]
  BY <1>1, ConcatFacts DEF Followed
<1>3. DOMAIN v = 1 .. n + Len(u)
  BY <1>2, SeqFacts
<1> HIDE DEF n
<1>4. Depth(v) = Depth(t)
  <2>1. \A i \in DOMAIN s : ~OfBlock(s[i])
    BY DEF Steps, Ordinary, OfBlock, LoopHeads
  <2> QED
    BY <2>1, <1>1, DepthOfConcat DEF Rest, Followed
<1>5. \A c \in Nat : Fresh(t, c) => Fresh(v, c)
  <2>1. \A i \in DOMAIN s : s[i].do # "recover"
    BY DEF Steps, Ordinary
  <2> QED
    BY <2>1, <1>1, FreshInConcat DEF Rest, Followed
<1>6. \A i \in 1 .. n + Len(u) : i > n => i - n \in DOMAIN u /\ v[i] = u[i - n]
  <2> SUFFICES ASSUME NEW i \in 1 .. n + Len(u), i > n
               PROVE  i - n \in DOMAIN u /\ v[i] = u[i - n]
    OBVIOUS
  <2>1. i - n \in 1 .. Len(u) /\ n + (i - n) = i
    BY <1>1
  <2> QED
    BY <2>1, <1>1, <1>2
<1>7. v # << >> => Len(v) > 0
  BY <1>2, SeqFacts
<1>8. v # << >> => 1 \in 1 .. n + Len(u)
  BY <1>1, <1>2, <1>7
<1>9. ~RoundAt(v) /\ (BlockAt(v) => AtBrace(p))
  <2> SUFFICES ASSUME v # << >>
               PROVE  v[1].do \notin LoopHeads /\ (v[1].do = "block" => AtBrace(p))
    BY DEF RoundAt, BlockAt
  <2>1. CASE n >= 1
    <3>1. 1 \in DOMAIN s /\ v[1] = s[1]
      BY <2>1, <1>1, <1>2
    <3> QED
      BY <3>1 DEF Steps, Ordinary
  <2>2. CASE n = 0
    <3>1. 1 - n \in DOMAIN u /\ v[1] = u[1 - n]
      BY <2>2, <1>6, <1>8
    <3> QED
      BY <3>1 DEF Rest
  <2>3. n >= 1 \/ n = 0
    BY <1>1
  <2> QED
    BY <2>1, <2>2, <2>3
<1>10. Ordered(v, text)
  <2> SUFFICES ASSUME NEW i \in 1 .. n + Len(u)
               PROVE  /\ i > 1 => v[i].do \notin LoopHeads \cup {"block"}
                      /\ v[i].do = "operand" => i < Len(v) /\ v[i + 1].do = "make"
                      /\ v[i].do \in {"recover", "synchronize"} => v[i].scope \in {"item", "unit"}
                      /\ v[i].do = "recover" => v[i].before \in 1 .. Len(text) /\ text[v[i].before] # "eof"
                      /\ OfUnit(v[i]) => i = Len(v)
    BY <1>3 DEF Ordered
  <2>1. CASE i <= n
    <3>1. i \in DOMAIN s /\ v[i] = s[i]
      BY <2>1, <1>1, <1>2
    <3>2. s[i].do = "operand" => i < Len(v) /\ v[i + 1].do = "make"
      <4> SUFFICES ASSUME s[i].do = "operand" PROVE i < Len(v) /\ v[i + 1].do = "make"
        OBVIOUS
      <4>1. i < n /\ s[i + 1].do = "make"
        BY <3>1 DEF Steps, n
      <4>2. i + 1 \in 1 .. n
        BY <4>1, <1>1
      <4> QED
        BY <4>1, <4>2, <1>1, <1>2
    <3>3. Ordinary(s[i]) /\ (s[i].do = "block" => i = 1)
      BY <3>1 DEF Steps
    <3>4. s[i].do \notin LoopHeads /\ s[i].do \notin {"recover", "synchronize"}
      BY <3>3 DEF Ordinary, LoopHeads
    <3>5. ~OfUnit(v[i])
      BY <3>1, <3>4 DEF OfUnit, LoopHeads
    <3> QED
      BY <3>1, <3>2, <3>3, <3>4, <3>5
  <2>2. CASE i > n
    <3> DEFINE j == i - n
    <3>1. j \in DOMAIN u /\ v[i] = u[j] /\ j \in Nat /\ i = n + j
      BY <2>2, <1>1, <1>6
    <3> HIDE DEF j
    <3>2. u[j].do = "operand" => i < Len(v) /\ v[i + 1].do = "make"
      <4> SUFFICES ASSUME u[j].do = "operand" PROVE i < Len(v) /\ v[i + 1].do = "make"
        OBVIOUS
      <4>1. j < Len(u) /\ u[j + 1].do = "make"
        BY <3>1 DEF Rest, Ordered
      <4>2. n \in Nat /\ Len(u) \in Nat /\ j \in Nat /\ i = n + j /\ Len(v) = n + Len(u)
        BY <3>1, <1>1, <1>2
      <4>3. j + 1 \in 1 .. Len(u) /\ n + (j + 1) = i + 1 /\ i < Len(v)
        BY <4>1, <4>2
      <4>4. v[n + (j + 1)] = u[j + 1]
        BY <4>3, <1>2
      <4> QED
        BY <4>1, <4>3, <4>4
    <3>3. u[j].do \notin LoopHeads \cup {"block"}
      BY <3>1 DEF Rest
    <3>4. /\ u[j].do \in {"recover", "synchronize"} => u[j].scope \in {"item", "unit"}
          /\ u[j].do = "recover" => u[j].before \in 1 .. Len(text) /\ text[u[j].before] # "eof"
      BY <3>1 DEF Rest, Ordered
    <3>5. OfUnit(v[i]) => i = Len(v)
      <4>1. OfUnit(u[j]) => j = Len(u)
        BY <3>1 DEF Rest, Ordered
      <4> QED
        BY <4>1, <3>1, <1>2
    <3> QED
      BY <3>1, <3>2, <3>3, <3>4, <3>5
  <2> QED
    BY <2>1, <2>2, <1>1
<1> QED
  BY <1>2, <1>4, <1>5, <1>9, <1>10

\* The token a fresh round stands at is not the last of what was read.
LEMMA FreshIsNotLast ==
  ASSUME NEW p, AtToken(p), p.current > 0, NEW t, Ordered(t, source), Fresh(t, p.current)
  PROVE  Kind(p) # "eof" /\ Len(source) > p.current
<1>1. Kind(p) # "eof"
  BY DEF Fresh, Ordered, Kind
<1>2. After(p.current) # 0
  BY <1>1 DEF AtToken
<1> QED
  BY <1>1, <1>2, AfterIsLater, FieldTypes DEF AtToken

\* Moving on keeps the budget of a round: a token taken is one more for it,
\* and an error costs at most what was left.
LEMMA BudgetKept ==
  ASSUME NEW p, AtToken(p), p.current > 0, NEW q, Moved(p, q),
         NEW t, Ordered(t, source), IsSeq(t), NEW v, IsSeq(v), Depth(v) = Depth(t),
         \A c \in Nat : Fresh(t, c) => Fresh(v, c), StepBudget(p, t, source)
  PROVE  /\ StepBudget(q, v, source)
         /\ v = << >> => q.errors + Depth(v) <= q.current
<1>1. /\ p \in ParserState /\ q \in ParserState /\ Len(source) \in Nat /\ q.current <= Len(source)
      /\ p.current \in Nat /\ p.errors \in Nat /\ q.current \in Nat /\ q.errors \in Nat
      /\ Depth(t) \in Nat
  BY FieldTypes, DepthIsNat DEF AtToken, Moved
<1>2. Fresh(t, p.current) => Len(source) > p.current
  BY FreshIsNotLast
<1>3. v = << >> => ~Fresh(v, p.current)
  BY DEF Fresh
<1>4. Fresh(t, p.current) => Fresh(v, p.current)
  BY <1>1
<1>5. v = << >> => ~Fresh(t, p.current)
  BY <1>3, <1>4
<1>6. Progress(p, q)
  BY DEF Moved
<1> DEFINE d == Depth(t)
<1>7. Depth(v) = d /\ d \in Nat
  BY <1>1
<1>8. \/ p.errors + d + 1 <= p.current
      \/ p.errors + d <= p.current /\ (InPanic(p) \/ Fresh(t, p.current))
      \/ /\ p.errors + d <= p.current + 1 /\ InPanic(p) /\ Fresh(t, p.current)
         /\ Len(source) > p.current \/ d > 0
  BY DEF StepBudget
<1> HIDE DEF d
<1>9. CASE q.current = p.current /\ q.errors = p.errors /\ (InPanic(q) <=> InPanic(p))
  <2>2. q.current = p.current /\ q.errors = p.errors /\ (InPanic(q) <=> InPanic(p))
    BY <1>9
  <2>3. v = << >> => q.errors + Depth(v) <= q.current
    BY <2>2, <1>1, <1>5, <1>7, <1>8
  <2>4. CASE p.errors + d + 1 <= p.current
    BY <2>2, <2>3, <2>4, <1>1, <1>7 DEF StepBudget
  <2>5. CASE p.errors + d <= p.current /\ (InPanic(p) \/ Fresh(t, p.current))
    BY <2>2, <2>3, <2>5, <1>1, <1>4, <1>7 DEF StepBudget
  <2>6. CASE /\ p.errors + d <= p.current + 1 /\ InPanic(p) /\ Fresh(t, p.current)
             /\ Len(source) > p.current \/ d > 0
    BY <2>2, <2>3, <2>6, <1>1, <1>4, <1>7 DEF StepBudget
  <2> QED
    BY <1>8, <2>4, <2>5, <2>6
<1>10. CASE q.current > p.current /\ q.errors = p.errors /\ (InPanic(q) <=> InPanic(p))
  BY <1>1, <1>4, <1>5, <1>7, <1>8, <1>10 DEF StepBudget
<1>11. CASE q.current >= p.current /\ ~InPanic(p) /\ InPanic(q) /\ q.errors <= p.errors + 1
  <2>1. CASE p.errors + d + 1 <= p.current
    <3>1. q.errors + d <= q.current
      <4>1. /\ p.errors \in Nat /\ p.current \in Nat /\ q.errors \in Nat /\ q.current \in Nat
            /\ d \in Nat /\ q.errors <= p.errors + 1 /\ q.current >= p.current
        BY <1>1, <1>7, <1>11
      <4> QED
        BY <2>1, <4>1
    <3> QED
      BY <3>1, <1>7, <1>11 DEF StepBudget
  <2>2. CASE p.errors + d <= p.current /\ Fresh(t, p.current)
    <3>1. CASE q.current > p.current
      <4>1. q.errors + d <= q.current
        BY <2>2, <3>1, <1>1, <1>7, <1>11
      <4> QED
        BY <4>1, <1>7, <1>11 DEF StepBudget
    <3>2. CASE q.current = p.current
      <4>1. q.errors + d <= q.current + 1 /\ Len(source) > q.current /\ Fresh(v, q.current)
        BY <2>2, <3>2, <1>1, <1>2, <1>4, <1>7, <1>11
      <4> QED
        BY <4>1, <2>2, <1>5, <1>7, <1>11 DEF StepBudget
    <3> QED
      BY <3>1, <3>2, <1>1, <1>11
  <2> QED
    BY <2>1, <2>2, <1>8, <1>11
<1> QED
  BY <1>6, <1>9, <1>10, <1>11 DEF Progress

\* Every step of a round keeps the invariant.
LEMMA StepKeeps ==
  ASSUME Typed, Underway, Ready, todo # << >>, Ordinary(todo[1]), source' = source, input' = input,
         Moved(parser, parser'), NEW u, Rest(todo, u, source), NEW s, Steps(s, parser'),
         todo' = s \o u
  PROVE  ReportInv'
<1>0. PICK q, v : q = parser' /\ v = todo'
  OBVIOUS
<1>1. /\ AtToken(parser) /\ IsSeq(todo) /\ parser.current > 0 /\ Ordered(todo, source)
  BY DEF Typed, Underway, AtToken, Ready, Kind
<1>2. StepBudget(parser, todo, source)
  BY DEF Underway, Budget, AtLoop, Ordinary
<1>3. /\ IsSeq(v) /\ Ordered(v, source) /\ ~RoundAt(v)
      /\ BlockAt(v) => source[q.current] = "{"
      /\ Depth(v) = Depth(todo) /\ \A c \in Nat : Fresh(todo, c) => Fresh(v, c)
  <2>1. v = Followed(s, u) /\ Steps(s, q) /\ Rest(todo, u, source)
    BY <1>0 DEF Followed
  <2>2. /\ IsSeq(v) /\ Ordered(v, source) /\ ~RoundAt(v)
        /\ BlockAt(v) => AtBrace(q)
        /\ Depth(v) = Depth(todo) /\ \A c \in Nat : Fresh(todo, c) => Fresh(v, c)
    BY <2>1, StepsBeforeRest
  <2> QED
    BY <2>2 DEF AtBrace, Kind
<1>4. Moved(parser, q)
  BY <1>0
<1>5. /\ StepBudget(q, v, source)
      /\ v = << >> => q.errors + Depth(v) <= q.current
  BY <1>1, <1>2, <1>3, <1>4, BudgetKept
<1>6. q \in ParserState /\ q.current <= Len(source) /\ q.current > 0
  BY <1>1, <1>4 DEF Moved
<1>7. Typed'
  BY <1>0, <1>3, <1>6 DEF Typed
<1>8. Budget'
  <2>1. CASE v = << >>
    BY <2>1, <1>0, <1>5 DEF Budget, AtLoop, LoopBudget
  <2>2. CASE v # << >>
    BY <2>2, <1>0, <1>3, <1>5 DEF Budget, AtLoop, RoundAt
  <2> QED
    BY <2>1, <2>2
<1>9. BlockAhead'
  <2>1. BlockAt(v) => source'[q.current] = "{"
    BY <1>3, source' = source
  <2> QED
    BY <2>1, <1>0 DEF BlockAhead, Current, Kind, BlockAt
<1> QED
  BY <1>0, <1>3, <1>6, <1>7, <1>8, <1>9 DEF ReportInv, Underway

-----------------------------------------------------------------------------
(* What a step may leave to do in its place.                               *)

\* None of these begins a round or opens a block.
PlainSteps(s) ==
    /\ IsSeq(s)
    /\ \A i \in DOMAIN s : \/ Plain(s[i])
                           \/ s[i].do = "operand" /\ i < Len(s) /\ s[i + 1].do = "make"

\* No step, or a few, each plain.
LEMMA Steps0 == PlainSteps(<< >>)
<1>1. << >> \in Seq({}) /\ DOMAIN << >> = {}
  OBVIOUS
<1> QED
  BY <1>1 DEF PlainSteps, IsSeq

LEMMA AppendSteps ==
  ASSUME NEW s, PlainSteps(s), NEW x, Plain(x)
  PROVE  PlainSteps(Append(s, x))
<1> DEFINE t == Append(s, x)
           n == Len(s)
<1>1. PICK S : s \in Seq(S)
  BY DEF PlainSteps, IsSeq
<1>2. IsSeq(t)
  <2> DEFINE U == S \cup {x}
  <2>1. s \in Seq(U) /\ x \in U
    BY <1>1
  <2> HIDE DEF U
  <2>2. t \in Seq(U)
    BY <2>1
  <2> QED
    BY <2>2 DEF IsSeq
<1>3. /\ n \in Nat /\ DOMAIN s = 1 .. n /\ Len(t) = n + 1 /\ DOMAIN t = 1 .. n + 1
      /\ t[n + 1] = x /\ \A i \in 1 .. n : t[i] = s[i]
  BY <1>1
<1> HIDE DEF t, n
<1>4. ASSUME NEW i \in 1 .. n + 1
      PROVE  Plain(t[i]) \/ (t[i].do = "operand" /\ i < Len(t) /\ t[i + 1].do = "make")
  <2>1. CASE i = n + 1
    BY <2>1, <1>3
  <2>2. CASE i \in 1 .. n
    <3>1. t[i] = s[i]
      BY <2>2, <1>3
    <3>2. CASE Plain(s[i])
      BY <3>1, <3>2
    <3>3. CASE s[i].do = "operand" /\ i < Len(s) /\ s[i + 1].do = "make"
      <4>1. i + 1 \in 1 .. n
        BY <3>3, <2>2, <1>3 DEF n
      <4> QED
        BY <4>1, <3>1, <3>3, <2>2, <1>3
    <3> QED
      BY <3>2, <3>3, <2>2, <1>3 DEF PlainSteps
  <2> QED
    BY <2>1, <2>2, <1>3
<1> QED
  BY <1>2, <1>3, <1>4 DEF PlainSteps, t

LEMMA PlainAreSteps == ASSUME NEW s, PlainSteps(s), NEW p PROVE Steps(s, p)
  BY DEF PlainSteps, Steps, Plain, Ordinary, LoopHeads

\* A block that begins where the parser is.
LEMMA BlockIsStep == ASSUME NEW p, AtBrace(p) PROVE Steps(<< Do("block") >>, p)
<1> DEFINE s == << Do("block") >>
<1>1. s \in Seq({Do("block")}) /\ Len(s) = 1 /\ DOMAIN s = {1} /\ s[1].do = "block"
  BY DEF Do
<1> HIDE DEF s
<1>9. Steps(s, p)
  BY <1>1 DEF Steps, IsSeq, Ordinary, LoopHeads
<1> QED
  BY <1>9 DEF s

LEMMA BlockAndDefineAreSteps ==
  ASSUME NEW p, AtBrace(p)
  PROVE  Steps(<< Do("block"), Do("define") >>, p)
<1> DEFINE s == << Do("block"), Do("define") >>
<1>1. s \in Seq({Do("block"), Do("define")}) /\ Len(s) = 2
  BY DEF Do
<1>2. s[1].do = "block" /\ s[2].do = "define" /\ (1 # 2)
  BY DEF Do
<1>3. \A i \in DOMAIN s : i = 1 \/ i = 2
  OBVIOUS
<1> HIDE DEF s
<1>4. IsSeq(s)
  BY <1>1 DEF IsSeq
<1>5. ASSUME NEW i \in DOMAIN s
      PROVE  /\ Ordinary(s[i])
             /\ s[i].do = "block" => i = 1
             /\ s[i].do # "operand"
  <2>1. CASE i = 1
    BY <2>1, <1>2 DEF Ordinary, LoopHeads
  <2>2. CASE i = 2
    BY <2>2, <1>2 DEF Ordinary, LoopHeads
  <2> QED
    BY <2>1, <2>2, <1>3
<1>9. Steps(s, p)
  BY <1>4, <1>5 DEF Steps
<1> QED
  BY <1>9 DEF s

LEMMA PlainKinds ==
  /\ \A w \in {"advance", "grouping", "statement", "else"} : Plain(Do(w))
  /\ \A k : /\ Plain(Take(k)) /\ Plain(Expression(k)) /\ Plain(Infix(k)) /\ Plain(Unless(k))
            /\ Plain(Declaration(k))
  /\ \A k, n : /\ Plain(Make(k, n)) /\ Plain(Specs(k, n)) /\ Plain(Declarator(k, n))
               /\ Make(k, n).do = "make"
  /\ Plain(Condition) /\ Do("operand").do = "operand"
BY DEF Plain, LoopHeads, Do, Take, Expression, Infix, Unless, Declaration, Make, Specs, Declarator, Condition

LEMMA Steps1 ==
  ASSUME NEW a, Plain(a)
  PROVE  PlainSteps(<< a >>)
<1> DEFINE s == << a >>
<1>1. s \in Seq({a})
  OBVIOUS
<1>2. \A i \in DOMAIN s : Plain(s[i])
  OBVIOUS
<1> HIDE DEF s
<1>9. PlainSteps(s)
  BY <1>1, <1>2 DEF PlainSteps, IsSeq
<1> QED
  BY <1>9 DEF s

LEMMA Steps2 ==
  ASSUME NEW a, Plain(a), NEW b, Plain(b)
  PROVE  PlainSteps(<< a, b >>)
<1> DEFINE s == << a, b >>
<1>1. s \in Seq({a, b})
  OBVIOUS
<1>2. \A i \in DOMAIN s : Plain(s[i])
  OBVIOUS
<1> HIDE DEF s
<1>9. PlainSteps(s)
  BY <1>1, <1>2 DEF PlainSteps, IsSeq
<1> QED
  BY <1>9 DEF s

LEMMA Steps3 ==
  ASSUME NEW a, Plain(a), NEW b, Plain(b), NEW c, Plain(c)
  PROVE  PlainSteps(<< a, b, c >>)
<1> DEFINE s == << a, b, c >>
<1>1. s \in Seq({a, b, c})
  OBVIOUS
<1>2. \A i \in DOMAIN s : Plain(s[i])
  OBVIOUS
<1> HIDE DEF s
<1>9. PlainSteps(s)
  BY <1>1, <1>2 DEF PlainSteps, IsSeq
<1> QED
  BY <1>9 DEF s

LEMMA Steps4 ==
  ASSUME NEW a, Plain(a), NEW b, Plain(b), NEW c, Plain(c), NEW d, Plain(d)
  PROVE  PlainSteps(<< a, b, c, d >>)
<1> DEFINE s == << a, b, c, d >>
<1>1. s \in Seq({a, b, c, d})
  OBVIOUS
<1>2. \A i \in DOMAIN s : Plain(s[i])
  OBVIOUS
<1> HIDE DEF s
<1>9. PlainSteps(s)
  BY <1>1, <1>2 DEF PlainSteps, IsSeq
<1> QED
  BY <1>9 DEF s

LEMMA Steps5 ==
  ASSUME NEW a, Plain(a), NEW b, Plain(b), NEW c, Plain(c), NEW d, Plain(d), NEW e, Plain(e)
  PROVE  PlainSteps(<< a, b, c, d, e >>)
<1> DEFINE s == << a, b, c, d, e >>
<1>1. s \in Seq({a, b, c, d, e})
  OBVIOUS
<1>2. \A i \in DOMAIN s : Plain(s[i])
  OBVIOUS
<1> HIDE DEF s
<1>9. PlainSteps(s)
  BY <1>1, <1>2 DEF PlainSteps, IsSeq
<1> QED
  BY <1>9 DEF s

LEMMA Steps7 ==
  ASSUME NEW a, Plain(a), NEW b, Plain(b), NEW c, Plain(c), NEW d, Plain(d), NEW e, Plain(e), NEW f, Plain(f), NEW g, Plain(g)
  PROVE  PlainSteps(<< a, b, c, d, e, f, g >>)
<1> DEFINE s == << a, b, c, d, e, f, g >>
<1>1. s \in Seq({a, b, c, d, e, f, g})
  OBVIOUS
<1>2. \A i \in DOMAIN s : Plain(s[i])
  OBVIOUS
<1> HIDE DEF s
<1>9. PlainSteps(s)
  BY <1>1, <1>2 DEF PlainSteps, IsSeq
<1> QED
  BY <1>9 DEF s

LEMMA Steps8 ==
  ASSUME NEW a, Plain(a), NEW b, Plain(b), NEW c, Plain(c), NEW d, Plain(d), NEW e, Plain(e), NEW f, Plain(f), NEW g, Plain(g), NEW h, Plain(h)
  PROVE  PlainSteps(<< a, b, c, d, e, f, g, h >>)
<1> DEFINE s == << a, b, c, d, e, f, g, h >>
<1>1. s \in Seq({a, b, c, d, e, f, g, h})
  OBVIOUS
<1>2. \A i \in DOMAIN s : Plain(s[i])
  OBVIOUS
<1> HIDE DEF s
<1>9. PlainSteps(s)
  BY <1>1, <1>2 DEF PlainSteps, IsSeq
<1> QED
  BY <1>9 DEF s

\* An operand to be looked at, and its node.
LEMMA OperandSteps3 ==
  ASSUME NEW a, Plain(a), NEW c, Plain(c),
         NEW b, b.do = "operand", c.do = "make"
  PROVE  PlainSteps(<< a, b, c >>)
<1> DEFINE s == << a, b, c >>
<1>1. s \in Seq({a, b, c}) /\ Len(s) = 3
  OBVIOUS
<1>2. \A i \in DOMAIN s : Plain(s[i]) \/ i = 2
  OBVIOUS
<1>3. s[2].do = "operand" /\ s[2 + 1].do = "make"
  OBVIOUS
<1> HIDE DEF s
<1>4. IsSeq(s) /\ s[2 + 1] = s[3]
  BY <1>1 DEF IsSeq
<1>5. ASSUME NEW i \in DOMAIN s
      PROVE  Plain(s[i]) \/ (s[i].do = "operand" /\ i < Len(s) /\ s[i + 1].do = "make")
  <2>1. CASE i = 2
    BY <2>1, <1>1, <1>3
  <2> QED
    BY <2>1, <1>2
<1>9. PlainSteps(s)
  BY <1>4, <1>5 DEF PlainSteps
<1> QED
  BY <1>9 DEF s

LEMMA OperandSteps4 ==
  ASSUME NEW a, Plain(a), NEW b, Plain(b), NEW d, Plain(d),
         NEW c, c.do = "operand", d.do = "make"
  PROVE  PlainSteps(<< a, b, c, d >>)
<1> DEFINE s == << a, b, c, d >>
<1>1. s \in Seq({a, b, c, d}) /\ Len(s) = 4
  OBVIOUS
<1>2. \A i \in DOMAIN s : Plain(s[i]) \/ i = 3
  OBVIOUS
<1>3. s[3].do = "operand" /\ s[3 + 1].do = "make"
  OBVIOUS
<1> HIDE DEF s
<1>9. PlainSteps(s)
  BY <1>1, <1>2, <1>3 DEF PlainSteps, IsSeq
<1> QED
  BY <1>9 DEF s

LEMMA OperandSteps6 ==
  ASSUME NEW a, Plain(a), NEW b, Plain(b), NEW c, Plain(c), NEW d, Plain(d), NEW f, Plain(f),
         NEW e, e.do = "operand", f.do = "make"
  PROVE  PlainSteps(<< a, b, c, d, e, f >>)
<1> DEFINE s == << a, b, c, d, e, f >>
<1>1. s \in Seq({a, b, c, d, e, f}) /\ Len(s) = 6
  OBVIOUS
<1>2. \A i \in DOMAIN s : Plain(s[i]) \/ i = 5
  OBVIOUS
<1>3. s[5].do = "operand" /\ s[5 + 1].do = "make"
  OBVIOUS
<1> HIDE DEF s
<1>9. PlainSteps(s)
  BY <1>1, <1>2, <1>3 DEF PlainSteps, IsSeq
<1> QED
  BY <1>9 DEF s

-----------------------------------------------------------------------------
(* The steps of a round: they take tokens or report, and leave plain steps. *)

\* What a step does to the parser.
OneMove == \/ parser' = parser
           \/ parser' = Advance(parser)
           \/ parser' = Error(parser)
           \/ \E k : parser' = Consume(parser, k)
           \/ Current # "eof" /\ parser' = Error(Advance(parser))

LEMMA OneMoveMoves ==
  ASSUME AtToken(parser), OneMove
  PROVE  Moved(parser, parser')
BY StayMoves, AdvanceMoves, ErrorMoves, ConsumeMoves, ErrorAfterAdvanceMoves DEF OneMove, Current

LEMMA AtHead ==
  ASSUME Typed, NEW w, Now(w)
  PROVE  todo # << >> /\ Ready /\ todo[1].do = w /\ AtToken(parser)
<1>1. todo # << >> /\ Head(todo) = todo[1] /\ Ready
  BY SeqFacts DEF Now, Typed
<1>2. AtToken(parser)
  BY <1>1 DEF Typed, AtToken, Ready, Kind
<1> QED
  BY <1>1, <1>2 DEF Now

\* All but the first step.
LEMMA GoingOn ==
  ASSUME ReportInv, NEW w, Now(w), w # "advance"
  PROVE  Typed /\ Underway
<1>1. todo[1].do = w
  BY AtHead DEF ReportInv
<1>2. ~AtStart
  BY <1>1 DEF AtStart, Do
<1> QED
  BY <1>2 DEF ReportInv

LEMMA RoundStep ==
  ASSUME Typed, Underway, NEW w, Now(w), w \notin LoopHeads \cup {"recover"}, Keep, OneMove,
         NEW s, Steps(s, parser'), Then(s)
  PROVE  ReportInv'
<1>1. todo # << >> /\ Ready /\ Ordinary(todo[1]) /\ AtToken(parser)
  BY AtHead DEF Ordinary
<1>2. Moved(parser, parser')
  BY <1>1, OneMoveMoves
<1>3. Rest(todo, Tail(todo), source)
  BY <1>1, RestOfTail DEF Typed, Underway
<1>4. todo' = s \o Tail(todo) /\ source' = source /\ input' = input
  BY DEF Then, Keep
<1> QED
  BY <1>1, <1>2, <1>3, <1>4, StepKeeps

LEMMA PlainStep ==
  ASSUME ReportInv, NEW w, Now(w), w \notin LoopHeads \cup {"recover", "advance"}, Keep, OneMove,
         NEW s, PlainSteps(s), Then(s)
  PROVE  ReportInv'
BY GoingOn, RoundStep, PlainAreSteps

\* One lemma for each action of Parse.
LEMMA ConsumedKeeps == ASSUME ReportInv, Consumed PROVE ReportInv'
BY PlainStep, Steps0 DEF Consumed, OneMove, LoopHeads

LEMMA OptionalKeeps == ASSUME ReportInv, Optional PROVE ReportInv'
BY PlainStep, Steps0, Steps1, PlainKinds DEF Optional, OneMove, LoopHeads

LEMMA MadeKeeps == ASSUME ReportInv, Made PROVE ReportInv'
BY PlainStep, Steps0 DEF Made, OneMove, LoopHeads

LEMMA PrefixSteps == ASSUME NEW k PROVE PlainSteps(Prefix(k))
<1>1. PlainSteps(<< Expression(PrecUnary), Do("operand"), Make(<< "unary", k >>, 1) >>)
  BY PlainKinds, OperandSteps3
<1>2. PlainSteps(<< Expression(PrecUnary), Do("operand"), Make(<< "pre", k >>, 1) >>)
  BY PlainKinds, OperandSteps3
<1>3. PlainSteps(<< Do("grouping") >>)
  BY PlainKinds, Steps1
<1> QED
  BY <1>1, <1>2, <1>3, Steps0 DEF Prefix

LEMMA InfixSteps == ASSUME NEW k PROVE PlainSteps(InfixRule(k))
<1>1. PlainSteps(<< Condition, Do("operand"), Make(<< "assignment", k >>, 2) >>)
  BY PlainKinds, OperandSteps3
<1>2. PlainSteps(<< Condition, Do("colon") >>)
  BY PlainKinds, Steps2 DEF Plain, Do, LoopHeads
<1>3. PlainSteps(<< Make(<< "post", k >>, 1) >>)
  BY PlainKinds, Steps1
<1>4. PlainSteps(<< Do("arguments") >>)
  BY Steps1 DEF Plain, Do, LoopHeads
<1>5. PlainSteps(<< Expression(RightPrec(k)), Do("operand"), Make(<< "binary", k >>, 2) >>)
  BY PlainKinds, OperandSteps3
<1> QED
  BY <1>1, <1>2, <1>3, <1>4, <1>5 DEF InfixRule

LEMMA KeywordSteps ==
  ASSUME NEW k \in Keywords
  PROVE  PlainSteps(AfterKeyword(k))
<1>1. PlainSteps(<< Unless(";"), Take(";"), Make(<< "return" >>, 1) >>)
  BY PlainKinds, Steps3
<1>2. PlainSteps(<< Take("("), Condition, Take(")"), Do("statement"), Do("else") >>)
  BY PlainKinds, Steps5
<1>3. PlainSteps(<< Take("("), Condition, Take(")"), Do("statement"), Make(<< k >>, 2) >>)
  BY PlainKinds, Steps5
<1>4. PlainSteps(<< Do("statement"), Take("while"), Take("("), Condition, Take(")"), Take(";"),
                    Make(<< "dowhile" >>, 2) >>)
  BY PlainKinds, Steps7
<1>5. PlainSteps(<< Take("("), Do("forinit"), Unless(";"), Take(";"), Unless(")"), Take(")"),
                    Do("statement"), Make(<< "for" >>, 4) >>)
  <2>1. Plain(Do("forinit"))
    BY DEF Plain, Do, LoopHeads
  <2> QED
    BY <2>1, PlainKinds, Steps8
<1>6. PlainSteps(<< Expression(PrecTernary), Take(":"), Do("statement"), Make(<< "case" >>, 2) >>)
  BY PlainKinds, Steps4
<1>7. PlainSteps(<< Take(":"), Do("statement"), Make(<< "default" >>, 1) >>)
  BY PlainKinds, Steps3
<1>8. PlainSteps(<< Take("ident"), Take(";"), Make(<< "goto" >>, 0) >>)
  BY PlainKinds, Steps3
<1>9. PlainSteps(<< Take(";"), Make(<< k >>, 0) >>)
  BY PlainKinds, Steps2
<1>10. PlainSteps(<< Make(<< "null" >>, 0) >>)
  BY PlainKinds, Steps1
<1> QED
  BY <1>1, <1>2, <1>3, <1>4, <1>5, <1>6, <1>7, <1>8, <1>9, <1>10 DEF AfterKeyword, Keywords

LEMMA ParseExpressionKeeps == ASSUME ReportInv, ParseExpression PROVE ReportInv'
<1> DEFINE prec == Head(todo).prec
<1>1. CASE ~HasPrefixRule(Current)
  BY <1>1, PlainStep, Steps0 DEF ParseExpression, OneMove, LoopHeads
<1>2. CASE HasPrefixRule(Current)
  <2>1. PlainSteps(Append(Prefix(Current), Infix(prec)))
    BY PrefixSteps, PlainKinds, AppendSteps
  <2>2. OneMove
    BY <1>2 DEF ParseExpression, OneMove
  <2>3. Then(Append(Prefix(Current), Infix(prec))) /\ Now("expression") /\ Keep
    BY <1>2 DEF ParseExpression
  <2> QED
    BY <2>1, <2>2, <2>3, PlainStep DEF LoopHeads
<1> QED
  BY <1>1, <1>2

LEMMA OperandKeeps == ASSUME ReportInv, Operand PROVE ReportInv'
<1>1. CASE Missing(Top)
  <2>1. /\ todo # << >> /\ Ready /\ todo[1].do = "operand" /\ AtToken(parser) /\ Typed /\ Underway
    BY AtHead, GoingOn DEF Operand, ReportInv
  <2>2. Rest(todo, SubSeq(todo, 3, Len(todo)), source)
    BY <2>1, RestAfterOperand DEF Typed, Underway
  <2>3. todo' = << >> \o SubSeq(todo, 3, Len(todo))
    <3>1. IsSeq(SubSeq(todo, 3, Len(todo)))
      BY <2>2 DEF Rest
    <3>2. PICK v : v = SubSeq(todo, 3, Len(todo))
      OBVIOUS
    <3>3. PICK S : v \in Seq(S)
      BY <3>1, <3>2 DEF IsSeq
    <3>4. << >> \o v = v
      BY <3>3
    <3> QED
      BY <3>2, <3>4, <1>1 DEF Operand
  <2>4. Moved(parser, parser')
    BY <2>1, StayMoves DEF Operand
  <2> QED
    BY <2>1, <2>2, <2>3, <2>4, StepKeeps, Steps0, PlainAreSteps DEF Operand, Ordinary, LoopHeads, Keep
<1>2. CASE ~Missing(Top)
  BY <1>2, PlainStep, Steps0 DEF Operand, OneMove, LoopHeads
<1> QED
  BY <1>1, <1>2

LEMMA GroupingOrCastKeeps == ASSUME ReportInv, GroupingOrCast PROVE ReportInv'
<1>1. PlainSteps(<< Specs(<< >>, "none"), Do("typename"), Take(")"), Expression(PrecUnary), Do("operand"),
                    Make(<< "cast" >>, 2) >>)
  <2>1. Plain(Do("typename"))
    BY DEF Plain, Do, LoopHeads
  <2> QED
    BY <2>1, PlainKinds, OperandSteps6
<1>2. PlainSteps(<< Condition, Take(")") >>)
  BY PlainKinds, Steps2
<1> QED
  BY <1>1, <1>2, PlainStep DEF GroupingOrCast, OneMove, LoopHeads

LEMMA ParseInfixKeeps == ASSUME ReportInv, ParseInfix PROVE ReportInv'
<1> DEFINE prec == Head(todo).prec
<1>1. PlainSteps(Append(InfixRule(Current), Infix(prec)))
  BY InfixSteps, PlainKinds, AppendSteps
<1> QED
  BY <1>1, PlainStep, Steps0 DEF ParseInfix, OneMove, LoopHeads

LEMMA ColonKeeps == ASSUME ReportInv, Colon PROVE ReportInv'
<1>1. PlainSteps(<< Take(":"), Expression(PrecTernary), Do("operand"), Make(<< "conditional" >>, 3) >>)
  BY PlainKinds, OperandSteps4
<1> QED
  BY <1>1, PlainStep, Steps0 DEF Colon, OneMove, LoopHeads

LEMMA ArgumentSteps ==
  /\ PlainSteps(<< Take(")"), Make(<< "call" >>, 2) >>) /\ PlainSteps(<< Condition, Do("argument") >>)
<1>1. Plain(Do("argument"))
  BY DEF Plain, Do, LoopHeads
<1> QED
  BY <1>1, PlainKinds, Steps2

LEMMA ArgumentsKeeps == ASSUME ReportInv, Arguments PROVE ReportInv'
BY ArgumentSteps, PlainStep DEF Arguments, OneMove, LoopHeads

LEMMA ArgumentKeeps == ASSUME ReportInv, Argument PROVE ReportInv'
BY ArgumentSteps, Steps0, PlainStep DEF Argument, OneMove, LoopHeads

LEMMA ParseStatementKeeps == ASSUME ReportInv, ParseStatement PROVE ReportInv'
<1>1. CASE Current \in DeclarationStarts /\ parser' = Error(parser) /\ Then(<< >>)
  BY <1>1, Steps0, PlainStep DEF ParseStatement, OneMove, LoopHeads
<1>2. CASE Current = "{" /\ Then(<< Do("block") >>) /\ parser' = parser
  <2>1. AtBrace(parser')
    <3>1. PICK q : q = parser'
      OBVIOUS
    <3>2. source[q.current] = "{" /\ source' = source
      BY <1>2, <3>1 DEF ParseStatement, Keep, Current, Kind
    <3> QED
      BY <3>1, <3>2 DEF AtBrace, Kind
  <2>2. Steps(<< Do("block") >>, parser')
    BY <2>1, BlockIsStep
  <2> QED
    BY <1>2, <2>2, GoingOn, RoundStep DEF ParseStatement, OneMove, LoopHeads
<1>3. CASE Current \in Keywords /\ parser' = Advance(parser) /\ Then(AfterKeyword(Current))
  BY <1>3, KeywordSteps, PlainStep DEF ParseStatement, OneMove, LoopHeads
<1>4. CASE parser' = Advance(parser) /\ Then(<< Do("advance"), Do("statement"), Make(<< "label" >>, 1) >>)
  BY <1>4, PlainKinds, Steps3, PlainStep DEF ParseStatement, OneMove, LoopHeads
<1>5. CASE parser' = parser /\ Then(<< Condition, Take(";"), Make(<< "expr" >>, 1) >>)
  BY <1>5, PlainKinds, Steps3, PlainStep DEF ParseStatement, OneMove, LoopHeads
<1> QED
  BY <1>1, <1>2, <1>3, <1>4, <1>5 DEF ParseStatement

LEMMA ElseKeeps == ASSUME ReportInv, Else PROVE ReportInv'
<1>1. PlainSteps(<< Do("statement"), Make(<< "ifelse" >>, 3) >>) /\ PlainSteps(<< Make(<< "if" >>, 2) >>)
  BY PlainKinds, Steps1, Steps2
<1> QED
  BY <1>1, PlainStep DEF Else, OneMove, LoopHeads

LEMMA ForInitKeeps == ASSUME ReportInv, ForInit PROVE ReportInv'
<1>1. PlainSteps(<< Declaration(FALSE) >>) /\ PlainSteps(<< Condition, Take(";"), Make(<< "expr" >>, 1) >>)
  BY PlainKinds, Steps1, Steps3
<1> QED
  BY <1>1, Steps0, PlainStep DEF ForInit, OneMove, LoopHeads

LEMMA ParseDeclarationSpecsKeeps ==
  ASSUME ReportInv, ParseDeclarationSpecs
  PROVE  ReportInv'
<1> DEFINE types == Head(todo).types
           class == Head(todo).class
<1>1. \A k, n : PlainSteps(<< Specs(k, n) >>)
  BY PlainKinds, Steps1
<1>2. Now("specs") /\ Keep
  BY DEF ParseDeclarationSpecs
<1>3. CASE parser' = Advance(parser) /\ Then(<< Specs(Append(types, Current), class) >>)
  BY <1>1, <1>2, <1>3, PlainStep DEF OneMove, LoopHeads
<1>4. CASE /\ Current \in StorageSpecifiers /\ Then(<< Specs(types, Current) >>)
           /\ parser' = IF class = "none" THEN Advance(parser) ELSE Error(Advance(parser))
  <2>1. OneMove
    BY <1>4 DEF OneMove, StorageSpecifiers
  <2> QED
    BY <1>1, <1>2, <1>4, <2>1, PlainStep DEF LoopHeads
<1>5. CASE (parser' = Error(parser) \/ parser' = parser) /\ Then(<< >>)
  BY <1>2, <1>5, Steps0, PlainStep DEF OneMove, LoopHeads
<1> QED
  BY <1>3, <1>4, <1>5 DEF ParseDeclarationSpecs

LEMMA TypeNameKeeps == ASSUME ReportInv, TypeName PROVE ReportInv'
BY Steps0, PlainStep DEF TypeName, OneMove, LoopHeads

LEMMA ParseDeclaratorKeeps == ASSUME ReportInv, ParseDeclarator PROVE ReportInv'
<1> DEFINE d == Head(todo)
           named == Current = "ident"
           s == << [do |-> "declared", specs |-> d.specs, name |-> IF named THEN << "ident" >> ELSE << >>] >>
<1>1. PlainSteps(s)
  BY Steps1 DEF Plain, LoopHeads
<1>2. Then(s)
  BY DEF ParseDeclarator
<1> HIDE DEF s
<1> QED
  BY <1>1, <1>2, PlainStep DEF ParseDeclarator, OneMove, LoopHeads

LEMMA DeclaredKeeps == ASSUME ReportInv, Declared PROVE ReportInv'
<1> DEFINE d == Head(todo)
           s == << Do("parameters"), [do |-> "function", specs |-> d.specs, name |-> d.name] >>
<1>1. PlainSteps(s)
  BY Steps2 DEF Plain, LoopHeads, Do
<1>2. Then(s) \/ Then(<< >>)
  BY DEF Declared
<1> HIDE DEF s
<1> QED
  BY <1>1, <1>2, Steps0, PlainStep DEF Declared, OneMove, LoopHeads

LEMMA FunctionDeclaredKeeps ==
  ASSUME ReportInv, FunctionDeclared
  PROVE  ReportInv'
BY Steps0, PlainStep DEF FunctionDeclared, OneMove, LoopHeads

LEMMA ParameterSteps == PlainSteps(Parameter)
<1>1. Plain(Do("parameter")) /\ Plain(Do("nextparameter"))
  BY DEF Plain, Do, LoopHeads
<1> QED
  BY <1>1, PlainKinds, Steps3 DEF Parameter

LEMMA ParseParameterListKeeps ==
  ASSUME ReportInv, ParseParameterList
  PROVE  ReportInv'
<1>1. PlainSteps(<< Do("advance"), Do("advance") >>)
  BY PlainKinds, Steps2
<1> QED
  BY <1>1, ParameterSteps, Steps0, PlainStep DEF ParseParameterList, OneMove, LoopHeads

LEMMA ParameterDeclaratorKeeps ==
  ASSUME ReportInv, ParameterDeclarator
  PROVE  ReportInv'
<1>1. PlainSteps(<< Declarator(Top, TRUE) >>)
  BY PlainKinds, Steps1
<1> QED
  BY <1>1, PlainStep DEF ParameterDeclarator, OneMove, LoopHeads

LEMMA NextParameterKeeps == ASSUME ReportInv, NextParameter PROVE ReportInv'
BY ParameterSteps, Steps0, PlainStep DEF NextParameter, OneMove, LoopHeads

LEMMA InitDeclaratorKeeps == ASSUME ReportInv, InitDeclarator PROVE ReportInv'
<1>1. PlainSteps(<< Condition, Do("initializer") >>)
  BY PlainKinds, Steps2 DEF Plain, Do, LoopHeads
<1> QED
  BY <1>1, Steps0, PlainStep DEF InitDeclarator, OneMove, LoopHeads

LEMMA InitializerKeeps == ASSUME ReportInv, Initializer PROVE ReportInv'
BY Steps0, PlainStep DEF Initializer, OneMove, LoopHeads

LEMMA ParseDeclarationKeeps ==
  ASSUME ReportInv, ParseDeclaration
  PROVE  ReportInv'
<1> DEFINE s == << Specs(<< >>, "none"), [do |-> "first", fileScope |-> Head(todo).fileScope] >>
<1>1. PlainSteps(s)
  BY PlainKinds, Steps2 DEF Plain, LoopHeads
<1>2. Then(s)
  BY DEF ParseDeclaration
<1> HIDE DEF s
<1> QED
  BY <1>1, <1>2, PlainStep DEF ParseDeclaration, OneMove, LoopHeads

LEMMA FirstDeclaratorKeeps == ASSUME ReportInv, FirstDeclarator PROVE ReportInv'
<1> DEFINE s == << Declarator(Top, FALSE), Do("init"), [do |-> "body", fileScope |-> Head(todo).fileScope] >>
<1>1. PlainSteps(s)
  BY PlainKinds, Steps3 DEF Plain, LoopHeads, Do
<1>2. Then(s)
  BY DEF FirstDeclarator
<1> HIDE DEF s
<1> QED
  BY <1>1, <1>2, PlainStep DEF FirstDeclarator, OneMove, LoopHeads

\* A body is reported where no function may stand, and read all the same.
LEMMA FunctionBodyKeeps == ASSUME ReportInv, FunctionBody PROVE ReportInv'
<1>1. CASE Top[1] = "function" /\ Current = "{"
  <2>1. OneMove /\ (parser' = parser \/ parser' = Error(parser))
    BY <1>1 DEF FunctionBody, OneMove
  <2>2. AtBrace(parser')
    <3>1. PICK q : q = parser'
      OBVIOUS
    <3>2. parser \in ParserState
      BY DEF ReportInv, Typed
    <3>3. source[q.current] = "{" /\ source' = source
      BY <1>1, <2>1, <3>1, <3>2, ErrorReports DEF FunctionBody, Keep, Current, Kind
    <3> QED
      BY <3>1, <3>3 DEF AtBrace, Kind
  <2>3. Steps(<< Do("block"), Do("define") >>, parser')
    BY <2>2, BlockAndDefineAreSteps
  <2> QED
    BY <1>1, <2>1, <2>3, GoingOn, RoundStep DEF FunctionBody, LoopHeads
<1>2. CASE ~(Top[1] = "function" /\ Current = "{")
  <2>1. PlainSteps(<< Do("declarators") >>)
    BY Steps1 DEF Plain, Do, LoopHeads
  <2> QED
    BY <1>2, <2>1, PlainStep DEF FunctionBody, OneMove, LoopHeads
<1> QED
  BY <1>1, <1>2

LEMMA DefineKeeps == ASSUME ReportInv, Define PROVE ReportInv'
BY Steps0, PlainStep DEF Define, OneMove, LoopHeads

LEMMA DeclaratorsKeeps == ASSUME ReportInv, Declarators PROVE ReportInv'
<1>1. PlainSteps(<< Declarator(values[2], FALSE), Do("init"), Do("nextdeclarator") >>)
  BY PlainKinds, Steps3 DEF Plain, LoopHeads, Do
<1> QED
  BY <1>1, Steps0, PlainStep DEF Declarators, OneMove, LoopHeads

LEMMA NextDeclaratorKeeps == ASSUME ReportInv, NextDeclarator PROVE ReportInv'
<1>1. PlainSteps(<< Do("declarators") >>)
  BY Steps1 DEF Plain, Do, LoopHeads
<1> QED
  BY <1>1, PlainStep DEF NextDeclarator, OneMove, LoopHeads

LEMMA ConcatKeeps == ASSUME ReportInv, Concat PROVE ReportInv'
BY Steps0, PlainStep DEF Concat, OneMove, LoopHeads

-----------------------------------------------------------------------------
(* The steps that begin and end rounds, and open and close blocks.         *)

\* A step that takes the place of the head of a loop.
MayStand(x, u, text) ==
    /\ x.do # "operand"
    /\ x.do \in {"recover", "synchronize"} => x.scope \in {"item", "unit"}
    /\ x.do = "recover" => x.before \in 1 .. Len(text) /\ text[x.before] # "eof"
    /\ OfUnit(x) => Len(u) = 0

LEMMA OneBefore ==
  ASSUME NEW u, NEW text, IsSeq(u), Ordered(u, text),
         \A i \in DOMAIN u : u[i].do \notin LoopHeads \cup {"block"},
         NEW x, MayStand(x, u, text),
         NEW v, v = Cons(x, u)
  PROVE  /\ IsSeq(v) /\ v # << >> /\ v[1] = x /\ Ordered(v, text)
         /\ Depth(v) = Depth(u) + (IF OfBlock(x) THEN 1 ELSE 0) /\ Depth(u) \in Nat
         /\ x.do = "recover" => Fresh(v, x.before)
         /\ x.do \notin LoopHeads \cup {"block"} =>
               \A i \in DOMAIN v : v[i].do \notin LoopHeads \cup {"block"}
<1>1. IsSeq(<< x >>) /\ Len(<< x >>) = 1 /\ << x >>[1] = x
  <2>1. << x >> \in Seq({x})
    OBVIOUS
  <2> QED
    BY <2>1 DEF IsSeq
<1>2. /\ IsSeq(v) /\ Len(v) = 1 + Len(u) /\ v[1] = x
      /\ \A i \in 1 .. Len(u) : v[1 + i] = u[i]
  BY <1>1, ConcatFacts DEF Cons
<1>3. /\ Len(u) \in Nat /\ DOMAIN u = 1 .. Len(u) /\ DOMAIN v = 1 .. 1 + Len(u)
  BY <1>2, SeqFacts
<1>4. v # << >>
  BY <1>2, <1>3
<1>5. Depth(v) = Depth(u) + (IF OfBlock(x) THEN 1 ELSE 0) /\ Depth(u) \in Nat
  BY DepthOfCons, DepthIsNat DEF Cons
<1>6. x.do = "recover" => Fresh(v, x.before)
  <2>1. 1 \in DOMAIN v /\ \A i \in 1 .. 1 - 1 : v[i].do # "recover"
    BY <1>3
  <2> QED
    BY <2>1, <1>2 DEF Fresh
<1>7. ASSUME NEW i \in DOMAIN v, i # 1
      PROVE  i - 1 \in DOMAIN u /\ v[i] = u[i - 1] /\ i \in Nat /\ i > 1
  <2>1. i - 1 \in 1 .. Len(u) /\ 1 + (i - 1) = i
    BY <1>3, <1>7
  <2> QED
    BY <2>1, <1>2, <1>3
<1>8. Ordered(v, text)
  <2> SUFFICES ASSUME NEW i \in DOMAIN v
               PROVE  /\ i > 1 => v[i].do \notin LoopHeads \cup {"block"}
                      /\ v[i].do = "operand" => i < Len(v) /\ v[i + 1].do = "make"
                      /\ v[i].do \in {"recover", "synchronize"} => v[i].scope \in {"item", "unit"}
                      /\ v[i].do = "recover" => v[i].before \in 1 .. Len(text) /\ text[v[i].before] # "eof"
                      /\ OfUnit(v[i]) => i = Len(v)
    BY DEF Ordered
  <2>1. CASE i = 1
    <3>1. v[i] = x /\ ~(i > 1) /\ (OfUnit(x) => i = Len(v))
      BY <2>1, <1>2, <1>3 DEF MayStand
    <3> QED
      BY <3>1 DEF MayStand
  <2>2. CASE i # 1
    <3> DEFINE j == i - 1
    <3>1. j \in DOMAIN u /\ v[i] = u[j] /\ j \in Nat /\ i = 1 + j
      BY <2>2, <1>3, <1>7
    <3> HIDE DEF j
    <3>2. u[j].do = "operand" => i < Len(v) /\ v[i + 1].do = "make"
      <4> SUFFICES ASSUME u[j].do = "operand" PROVE i < Len(v) /\ v[i + 1].do = "make"
        OBVIOUS
      <4>1. j < Len(u) /\ u[j + 1].do = "make"
        BY <3>1 DEF Ordered
      <4>2. j + 1 \in 1 .. Len(u) /\ 1 + (j + 1) = i + 1 /\ i < Len(v)
        BY <4>1, <3>1, <1>2, <1>3
      <4>3. v[1 + (j + 1)] = u[j + 1]
        BY <4>2, <1>2
      <4> QED
        BY <4>1, <4>2, <4>3
    <3>3. OfUnit(v[i]) => i = Len(v)
      <4>1. OfUnit(u[j]) => j = Len(u)
        BY <3>1 DEF Ordered
      <4> QED
        BY <4>1, <3>1, <1>2
    <3> QED
      BY <3>1, <3>2, <3>3 DEF Ordered
  <2> QED
    BY <2>1, <2>2
<1>9. x.do \notin LoopHeads \cup {"block"} =>
         \A i \in DOMAIN v : v[i].do \notin LoopHeads \cup {"block"}
  <2> SUFFICES ASSUME x.do \notin LoopHeads \cup {"block"}, NEW i \in DOMAIN v
               PROVE  v[i].do \notin LoopHeads \cup {"block"}
    OBVIOUS
  <2>1. CASE i = 1
    BY <2>1, <1>2
  <2>2. CASE i # 1
    BY <2>2, <1>7
  <2> QED
    BY <2>1, <2>2
<1> QED
  BY <1>2, <1>4, <1>5, <1>6, <1>8, <1>9

\* The invariant after a step, from its parts.
LEMMA Established ==
  ASSUME source \in Seq(Text), source' = source, input' = input, input \in DOMAIN Files,
         NEW q \in ParserState, NEW v, parser' = q, todo' = v,
         q.current <= Len(source), q.current > 0, IsSeq(v), Ordered(v, source),
         BlockAt(v) => AtBrace(q),
         AtLoop(v) => LoopBudget(q, v), ~AtLoop(v) => StepBudget(q, v, source)
  PROVE  ReportInv'
<1>1. Typed'
  BY DEF Typed
<1>2. Budget'
  BY DEF Budget
<1>3. BlockAhead'
  <2>1. BlockAt(v) => source'[q.current] = "{"
    BY source' = source DEF AtBrace, Kind
  <2> QED
    BY <2>1 DEF BlockAhead, Current, Kind, BlockAt
<1> QED
  BY <1>1, <1>2, <1>3 DEF ReportInv, Underway

LEMMA StartDepth == Depth(<< Do("unit") >>) = 0 /\ IsSeq(<< Do("unit") >>) /\ Len(<< Do("unit") >>) = 1
                    /\ << Do("unit") >>[1].do = "unit"
<1> DEFINE t == << Do("unit") >>
<1>1. t \in Seq({Do("unit")}) /\ DOMAIN t = {1} /\ Len(t) = 1 /\ t[1].do = "unit"
  BY DEF Do
<1> HIDE DEF t
<1>2. BlockSteps(t) = {}
  BY <1>1 DEF BlockSteps, OfBlock
<1>3. Depth(t) = 0
  BY <1>2, FS_EmptySet DEF Depth
<1>4. IsSeq(t)
  BY <1>1 DEF IsSeq
<1> QED
  BY <1>1, <1>3, <1>4 DEF t

LEMMA ProceedKeeps == ASSUME ReportInv, Proceed PROVE ReportInv'
<1>1. CASE Underway
  BY <1>1, RoundStep, Steps0, PlainAreSteps DEF Proceed, OneMove, LoopHeads, ReportInv
<1>2. CASE AtStart
  <2> DEFINE q == Advance(parser)
             v == << Do("unit") >>
  <2>1. AtToken(parser) /\ Typed
    BY AtHead DEF Proceed, ReportInv
  <2>2. /\ q \in ParserState /\ q.current <= Len(source) /\ q.current > 0
        /\ Progress(parser, q)
    BY <2>1, <1>2, AdvanceTakes
  <2>3. q.current \in Nat /\ q.errors \in Nat
    BY <2>2, FieldTypes
  <2>4. parser' = q /\ todo' = v /\ source' = source /\ input' = input
    BY <1>2 DEF Proceed, Then, Keep, AtStart
  <2>5. Depth(v) = 0 /\ IsSeq(v) /\ Len(v) = 1 /\ v[1].do = "unit" /\ DOMAIN v = {1}
    BY StartDepth
  <2> HIDE DEF q, v
  <2>6. q.errors <= q.current
    BY <2>2, <2>3, <1>2 DEF Progress, AtStart
  <2>7. Ordered(v, source)
    BY <2>5 DEF Ordered
  <2>8. LoopBudget(q, v) /\ AtLoop(v) /\ ~BlockAt(v)
    BY <2>3, <2>5, <2>6 DEF LoopBudget, AtLoop, LoopHeads, BlockAt
  <2> QED
    BY <2>1, <2>2, <2>4, <2>5, <2>7, <2>8, Established DEF Typed
<1> QED
  BY <1>1, <1>2 DEF ReportInv

LEMMA NothingBefore ==
  ASSUME NEW v, IsSeq(v)
  PROVE  << >> \o v = v
<1>1. PICK S : v \in Seq(S)
  BY DEF IsSeq
<1> QED
  BY <1>1

LEMMA ProgressCosts ==
  ASSUME NEW p \in ParserState, NEW q \in ParserState, Progress(p, q)
  PROVE  /\ q.errors <= p.errors + 1
         /\ InPanic(p) => q.errors = p.errors /\ InPanic(q)
<1>1. p.errors \in Nat /\ q.errors \in Nat
  BY FieldTypes
<1> QED
  BY <1>1 DEF Progress

\* A token pays for what is reported before the next one.
LEMMA TokenPays ==
  ASSUME NEW e \in Nat, NEW d \in Nat, NEW c \in Nat, NEW f \in Nat, NEW b \in Nat,
         b > c, f <= e + 1, f # e => b > c + 1, e + d <= c
  PROVE  f + d + 1 <= b
OBVIOUS

\* What every step of a round's beginning or end can use.
LEMMA AtLoopHead ==
  ASSUME ReportInv, NEW w, Now(w), w \in {"item", "unit", "synchronize", "block", "recover"}
  PROVE  /\ Typed /\ Underway /\ todo # << >> /\ todo[1].do = w /\ AtToken(parser)
         /\ IsSeq(todo) /\ Ordered(todo, source)
<1>1. Typed /\ Underway
  BY GoingOn
<1>2. todo # << >> /\ Ready /\ todo[1].do = w /\ AtToken(parser)
  BY <1>1, AtHead
<1> QED
  BY <1>1, <1>2 DEF Typed, Underway

LEMMA FileTypes ==
  ASSUME Typed
  PROVE  /\ source \in Seq(Text) /\ input \in DOMAIN Files /\ parser \in ParserState
         /\ parser.current <= Len(source)
         /\ parser.current \in Nat /\ parser.errors \in Nat /\ Len(source) \in Nat
BY FieldTypes DEF Typed

\* What is left when the head of a loop is done.
LEMMA LoopTail ==
  ASSUME NEW t, NEW text, IsSeq(t), t # << >>, Ordered(t, text), NEW u, u = Tail(t)
  PROVE  /\ IsSeq(u) /\ Ordered(u, text)
         /\ \A i \in DOMAIN u : u[i].do \notin LoopHeads \cup {"block"}
         /\ Depth(u) \in Nat
         /\ Depth(t) = Depth(u) + (IF OfBlock(t[1]) THEN 1 ELSE 0)
         /\ OfUnit(t[1]) => Len(u) = 0
         /\ << >> \o u = u
<1>1. /\ IsSeq(u) /\ Ordered(u, text)
      /\ \A i \in DOMAIN u : u[i].do \notin LoopHeads \cup {"block"}
  BY OrderedTail
<1>2. Depth(u) \in Nat /\ << >> \o u = u
  BY <1>1, DepthIsNat, NothingBefore
<1>3. Depth(t) = Depth(u) + (IF OfBlock(t[1]) THEN 1 ELSE 0)
  BY DepthOfTail
<1>4. Len(t) \in Nat /\ Len(t) > 0 /\ DOMAIN t = 1 .. Len(t) /\ Len(u) = Len(t) - 1
  BY SeqFacts
<1>5. OfUnit(t[1]) => 1 = Len(t)
  BY <1>4 DEF Ordered
<1> QED
  BY <1>1, <1>2, <1>3, <1>4, <1>5

LEMMA ParseBlockKeeps == ASSUME ReportInv, ParseBlock PROVE ReportInv'
<1>0. PICK u : u = Tail(todo)
  OBVIOUS
<1> DEFINE x == Do("item")
           v == Cons(x, u)
           q == Advance(parser)
           d == Depth(todo)
<1>1. Now("block") /\ parser' = Consume(parser, "{") /\ todo' = v /\ source' = source /\ input' = input
  BY <1>0 DEF ParseBlock, Then, Keep, Cons
<1>2. Typed /\ Underway /\ todo # << >> /\ todo[1].do = "block" /\ AtToken(parser)
  BY <1>1, AtLoopHead
<1>14. /\ source \in Seq(Text) /\ input \in DOMAIN Files /\ parser \in ParserState
       /\ parser.current \in Nat /\ parser.errors \in Nat /\ Len(source) \in Nat
  BY <1>2, FileTypes
<1>15. /\ IsSeq(u) /\ Ordered(u, source)
       /\ \A i \in DOMAIN u : u[i].do \notin LoopHeads \cup {"block"}
  BY <1>0, <1>1, AtLoopHead, LoopTail
<1>16. Depth(u) \in Nat /\ Depth(todo) = Depth(u) + (IF OfBlock(todo[1]) THEN 1 ELSE 0)
  BY <1>0, <1>1, AtLoopHead, LoopTail
<1>3. Kind(parser) = "{"
  BY <1>2 DEF Underway, BlockAhead, Current
<1>4. parser' = q
  BY <1>1, <1>3 DEF Consume
<1>5. /\ q \in ParserState /\ q.current <= Len(source) /\ q.current > parser.current
      /\ Progress(parser, q)
      /\ q.errors # parser.errors => q.current > parser.current + 1
  BY <1>2, <1>3, AdvanceTakes
<1>6. q.current \in Nat /\ q.errors \in Nat
  BY <1>5, FieldTypes
<1>17. q.current > 0
  BY <1>5, <1>6, <1>14
<1>7. OfBlock(x) /\ MayStand(x, u, source) /\ x.do = "item"
  BY DEF Do, OfBlock, OfUnit, MayStand
<1>8. ~OfBlock(todo[1])
  BY <1>2 DEF OfBlock
<1> HIDE DEF q, x
<1>9. IsSeq(v) /\ v # << >> /\ v[1] = x /\ Ordered(v, source) /\ Depth(v) = Depth(u) + 1
  BY <1>7, <1>15, OneBefore
<1>18. todo' = v
  BY <1>1
<1> HIDE DEF v, d
<1>10. StepBudget(parser, todo, source)
  BY <1>2 DEF Underway, Budget, AtLoop, LoopHeads
<1>11. d = Depth(u) /\ d \in Nat
  BY <1>8, <1>16 DEF d
<1>12. LoopBudget(q, v)
  <2>1. \/ parser.errors + d + 1 <= parser.current
        \/ parser.errors + d <= parser.current
        \/ parser.errors + d <= parser.current + 1 /\ InPanic(parser)
    BY <1>10 DEF StepBudget, d
  <2>2. q.errors <= parser.errors + 1
    BY <1>5, <1>14, ProgressCosts
  <2>3. InPanic(parser) => q.errors = parser.errors /\ InPanic(q)
    BY <1>5, <1>14, ProgressCosts
  <2>4. CASE parser.errors + d <= parser.current
    <3>1. q.errors + d + 1 <= q.current
      BY <2>2, <2>4, <1>5, <1>6, <1>11, <1>14, TokenPays
    <3>2. Depth(v) = d + 1
      BY <1>9, <1>11
    <3>3. q.errors + Depth(v) <= q.current
      BY <3>1, <3>2, <1>6, <1>11
    <3> QED
      BY <3>3 DEF LoopBudget
  <2>5. CASE parser.errors + d <= parser.current + 1 /\ InPanic(parser)
    <3>1. q.errors + Depth(v) <= q.current + 1 /\ InPanic(q)
      BY <2>3, <2>5, <1>14, <1>5, <1>6, <1>9, <1>11
    <3> QED
      BY <3>1, <1>7, <1>9 DEF LoopBudget
  <2>6. CASE parser.errors + d + 1 <= parser.current
    <3>1. parser.errors + d <= parser.current
      BY <2>6, <1>14, <1>11
    <3> QED
      BY <2>4, <3>1
  <2> QED
    BY <2>1, <2>4, <2>5, <2>6
<1>13. AtLoop(v) /\ ~BlockAt(v)
  BY <1>7, <1>9 DEF AtLoop, LoopHeads, BlockAt
<1> QED
  BY <1>1, <1>18, <1>14, <1>4, <1>5, <1>17, <1>9, <1>12, <1>13, Established

\* The brace that ends the block, or the end of the file in its place.
AtEndBrace == Current = "}"
BlockEnd == /\ Now("item") /\ (AtEndBrace \/ Current = "eof")
            /\ parser' = Consume(parser, "}") /\ Then(<< >>) /\ Keep

LEMMA BlockEndKeeps == ASSUME ReportInv, BlockEnd PROVE ReportInv'
<1>0. PICK u : u = Tail(todo)
  OBVIOUS
<1>1. Now("item")
  BY DEF BlockEnd
<1> DEFINE q == Consume(parser, "}")
           d == Depth(u)
<1>2. Typed /\ Underway /\ todo # << >> /\ todo[1].do = "item" /\ AtToken(parser)
  BY <1>1, AtLoopHead
<1>14. /\ source \in Seq(Text) /\ input \in DOMAIN Files /\ parser \in ParserState
       /\ parser.current \in Nat /\ parser.errors \in Nat /\ Len(source) \in Nat
  BY <1>2, FileTypes
<1>15. /\ IsSeq(u) /\ Ordered(u, source) /\ << >> \o u = u
       /\ \A i \in DOMAIN u : u[i].do \notin LoopHeads \cup {"block"}
  BY <1>0, <1>1, AtLoopHead, LoopTail
<1>16. Depth(u) \in Nat /\ Depth(todo) = Depth(u) + (IF OfBlock(todo[1]) THEN 1 ELSE 0)
  BY <1>0, <1>1, AtLoopHead, LoopTail
<1>3. todo' = u /\ source' = source /\ input' = input /\ parser' = q
  BY <1>0, <1>15 DEF BlockEnd, Then, Keep
<1>4. Moved(parser, q)
  BY <1>2, ConsumeMoves
<1>5. q \in ParserState /\ q.current <= Len(source) /\ q.current > 0 /\ Progress(parser, q)
  BY <1>2, <1>4 DEF Moved, Underway
<1>6. q.current \in Nat /\ q.errors \in Nat
  BY <1>5, FieldTypes
<1>7. OfBlock(todo[1])
  BY <1>2 DEF OfBlock
<1>8. \/ parser.errors + (d + 1) <= parser.current
      \/ InPanic(parser) /\ parser.errors + (d + 1) <= parser.current + 1
  <2>1. LoopBudget(parser, todo)
    BY <1>2 DEF Underway, Budget, AtLoop, LoopHeads
  <2> QED
    BY <2>1, <1>7, <1>16 DEF LoopBudget
<1>17. d \in Nat /\ d = Depth(u)
  BY <1>16
<1> HIDE DEF q, d
<1>9. /\ ~AtLoop(u) => StepBudget(q, u, source)
      /\ q.errors + d <= q.current
  <2>2. CASE AtEndBrace
    <3>1. /\ q.current > parser.current
          /\ q.errors # parser.errors => q.current > parser.current + 1
      BY <2>2, <1>2, AdvanceTakes DEF AtEndBrace, Consume, Current, q
    <3>2. q.errors <= parser.errors + 1 /\ (InPanic(parser) => q.errors = parser.errors)
      BY <1>5, <1>14, ProgressCosts
    <3>3. q.errors + d + 1 <= q.current
      <4>1. CASE q.errors = parser.errors
        BY <4>1, <3>1, <1>14, <1>6, <1>8, <1>17
      <4>2. CASE q.errors # parser.errors
        <5>1. parser.errors + d <= parser.current
          BY <4>2, <3>2, <1>8, <1>14, <1>17
        <5> QED
          BY <5>1, <3>1, <3>2, <1>6, <1>14, <1>17, TokenPays
      <4> QED
        BY <4>1, <4>2
    <3> QED
      BY <3>3, <1>14, <1>6, <1>17 DEF StepBudget
  <2>3. CASE Current = "eof"
    <3>1. q = Error(parser)
      BY <2>3 DEF Consume, Current, q
    <3>2. /\ q.current = parser.current
          /\ InPanic(parser) => q = parser
          /\ ~InPanic(parser) => InPanic(q) /\ q.errors \in parser.errors .. parser.errors + 1
      BY <3>1, <1>14, ErrorReports
    <3>3. InPanic(q) /\ q.errors + d <= q.current
      BY <3>2, <1>14, <1>6, <1>8, <1>17
    <3> QED
      BY <3>3, <1>14, <1>6, <1>17 DEF StepBudget
  <2> QED
    BY <2>2, <2>3 DEF BlockEnd
<1>10. ~BlockAt(u) /\ (AtLoop(u) => u = << >>)
  <2>1. u # << >> => 1 \in DOMAIN u
    <3>1. Len(u) \in Nat /\ DOMAIN u = 1 .. Len(u)
      BY <1>15, SeqFacts
    <3>2. ASSUME u # << >> PROVE Len(u) > 0
      BY <1>15, <3>2, SeqFacts
    <3> QED
      BY <3>1, <3>2
  <2> QED
    BY <2>1, <1>15 DEF BlockAt, AtLoop
<1>11. AtLoop(u) => LoopBudget(q, u)
  BY <1>9, <1>17 DEF LoopBudget
<1> QED
  BY <1>14, <1>15, <1>3, <1>5, <1>9, <1>10, <1>11, Established

\* Where another item begins, a round of it begins at this token.
ItemBegin == /\ Now("item") /\ Current # "eof" /\ parser' = parser
             /\ \E x : x \in {Declaration(FALSE), Do("statement")} /\ Then(<< x, Recover("item") >>)
             /\ Keep

LEMMA RecoverIs ==
  ASSUME NEW scope
  PROVE  Recover(scope).do = "recover" /\ Recover(scope).scope = scope
         /\ Recover(scope).before = parser.current
BY DEF Recover

LEMMA PairBefore ==
  ASSUME NEW x, NEW y, NEW u, IsSeq(u)
  PROVE  << x, y >> \o u = << x >> \o Cons(y, u)
<1>1. PICK S : u \in Seq(S)
  BY DEF IsSeq
<1> DEFINE U == S \cup {x, y}
<1>2. u \in Seq(U) /\ x \in U /\ y \in U
  BY <1>1
<1> HIDE DEF U
<1>3. << x >> \in Seq(U)
  BY <1>2
<1>4. << y >> \in Seq(U)
  BY <1>2
<1>5. << x, y >> = << x >> \o << y >>
  <2>1. << x, y >> = Append(<< x >>, y)
    OBVIOUS
  <2> QED
    BY <1>2, <1>3, <2>1, AppendIsConcat
<1> QED
  BY <1>2, <1>3, <1>4, <1>5, ConcatAssociative DEF Cons

\* A round of the loop of this scope begins at p, y ends it, and u is what
\* stays to be done after the loop.
RoundHere(p, u, scope, y) ==
    /\ AtToken(p) /\ p.current > 0 /\ Kind(p) # "eof"
    /\ IsSeq(u) /\ Ordered(u, source)
    /\ \A i \in DOMAIN u : u[i].do \notin LoopHeads \cup {"block"}
    /\ scope \in {"item", "unit"}
    /\ scope = "unit" => Len(u) = 0
    /\ y.do = "recover" /\ y.scope = scope /\ y.before = p.current

DepthIn(u, scope) == IF scope = "item" THEN Depth(u) + 1 ELSE Depth(u)

LEMMA TripleBefore ==
  ASSUME NEW x, NEW y, NEW z, NEW u, IsSeq(u)
  PROVE  << x, y, z >> \o u = << x, y >> \o Cons(z, u)
<1>1. PICK S : u \in Seq(S)
  BY DEF IsSeq
<1> DEFINE U == S \cup {x, y, z}
<1>2. u \in Seq(U) /\ x \in U /\ y \in U /\ z \in U
  BY <1>1
<1> HIDE DEF U
<1>3. << x, y >> \in Seq(U)
  BY <1>2
<1>4. << z >> \in Seq(U)
  BY <1>2
<1>5. << x, y, z >> = << x, y >> \o << z >>
  <2>1. << x, y, z >> = Append(<< x, y >>, z)
    OBVIOUS
  <2> QED
    BY <1>2, <1>3, <2>1, AppendIsConcat
<1> QED
  BY <1>2, <1>3, <1>4, <1>5, ConcatAssociative DEF Cons

\* What ends a round before the rest.
LEMMA RoundEnds ==
  ASSUME NEW p, NEW u, NEW scope, NEW y, RoundHere(p, u, scope, y), NEW w, w = Cons(y, u)
  PROVE  /\ IsSeq(w) /\ w # << >> /\ Ordered(w, source)
         /\ Depth(w) = DepthIn(u, scope)
         /\ Fresh(w, p.current)
         /\ \A i \in DOMAIN w : w[i].do \notin LoopHeads \cup {"block"}
<1>0. /\ IsSeq(u) /\ Ordered(u, source)
      /\ \A i \in DOMAIN u : u[i].do \notin LoopHeads \cup {"block"}
  BY DEF RoundHere
<1>1. p.current \in Nat /\ p.current <= Len(source) /\ Len(source) \in Nat
  BY FieldTypes DEF AtToken, RoundHere
<1>2. p.current \in 1 .. Len(source) /\ source[p.current] # "eof"
  BY <1>1 DEF Kind, RoundHere
<1>3. MayStand(y, u, source)
  BY <1>2 DEF MayStand, OfUnit, RoundHere
<1>4. y.do = "recover" /\ y.do \notin LoopHeads \cup {"block"} /\ y.before = p.current
  BY DEF RoundHere, LoopHeads
<1>5. OfBlock(y) <=> scope = "item"
  BY DEF OfBlock, RoundHere
<1>6. /\ IsSeq(w) /\ w # << >> /\ w[1] = y /\ Ordered(w, source)
      /\ Depth(w) = Depth(u) + (IF OfBlock(y) THEN 1 ELSE 0) /\ Depth(u) \in Nat
      /\ y.do = "recover" => Fresh(w, y.before)
      /\ y.do \notin LoopHeads \cup {"block"} =>
               \A i \in DOMAIN w : w[i].do \notin LoopHeads \cup {"block"}
  BY <1>0, <1>3, OneBefore
<1> QED
  BY <1>4, <1>5, <1>6 DEF DepthIn

\* A plain step and what comes before its round's end.
LEMMA RoundBegins ==
  ASSUME NEW p, NEW u, NEW scope, NEW y, RoundHere(p, u, scope, y),
         NEW s, PlainSteps(s), NEW v, v = Followed(s, Cons(y, u))
  PROVE  /\ IsSeq(v) /\ Ordered(v, source) /\ ~RoundAt(v) /\ ~BlockAt(v) /\ v # << >>
         /\ Depth(v) = DepthIn(u, scope)
         /\ Fresh(v, p.current)
<1>0. PICK w : w = Cons(y, u)
  OBVIOUS
<1>1. p.current \in Nat
  BY FieldTypes DEF AtToken, RoundHere
<1>4. /\ IsSeq(w) /\ w # << >> /\ Ordered(w, source)
      /\ Depth(w) = DepthIn(u, scope)
      /\ Fresh(w, p.current)
      /\ \A i \in DOMAIN w : w[i].do \notin LoopHeads \cup {"block"}
  BY <1>0, RoundEnds
<1>5. Rest(w, w, source)
  BY <1>4 DEF Rest
<1>6. Steps(s, p)
  BY PlainAreSteps
<1>7. v = Followed(s, w)
  BY <1>0
<1>8. /\ IsSeq(v) /\ Ordered(v, source) /\ ~RoundAt(v) /\ Depth(v) = Depth(w)
      /\ \A c \in Nat : Fresh(w, c) => Fresh(v, c)
  BY <1>5, <1>6, <1>7, StepsBeforeRest
<1>9. v # << >>
  <2>1. Fresh(v, p.current)
    BY <1>1, <1>4, <1>8
  <2> QED
    BY <2>1 DEF Fresh
<1>10. ~BlockAt(v)
  <2>1. IsSeq(s) /\ Len(s) \in Nat /\ DOMAIN s = 1 .. Len(s) /\ Len(w) \in Nat /\ DOMAIN w = 1 .. Len(w)
    BY <1>4, SeqFacts DEF PlainSteps
  <2>2. /\ \A i \in 1 .. Len(s) : v[i] = s[i]
        /\ \A i \in 1 .. Len(w) : v[Len(s) + i] = w[i]
        /\ Len(w) > 0
    BY <1>4, <1>7, <2>1, ConcatFacts, SeqFacts DEF Followed
  <2>3. CASE Len(s) = 0
    <3>0. 1 \in 1 .. Len(w) /\ Len(s) + 1 = 1
      BY <2>1, <2>2, <2>3
    <3>1. v[1] = w[1] /\ 1 \in DOMAIN w
      BY <2>1, <2>2, <3>0
    <3> QED
      BY <3>1, <1>4 DEF BlockAt
  <2>4. CASE Len(s) # 0
    <3>1. v[1] = s[1] /\ 1 \in DOMAIN s
      BY <2>1, <2>2, <2>4
    <3>2. s[1].do # "block"
      BY <3>1 DEF PlainSteps, Plain
    <3> QED
      BY <3>1, <3>2 DEF BlockAt
  <2> QED
    BY <2>3, <2>4
<1> QED
  BY <1>1, <1>4, <1>8, <1>9, <1>10

LEMMA ItemBeginKeeps == ASSUME ReportInv, ItemBegin PROVE ReportInv'
<1>0. PICK u : u = Tail(todo)
  OBVIOUS
<1>1. Now("item")
  BY DEF ItemBegin
<1>2. Typed /\ Underway /\ todo # << >> /\ todo[1].do = "item" /\ AtToken(parser)
  BY <1>1, AtLoopHead
<1>3. /\ source \in Seq(Text) /\ input \in DOMAIN Files /\ parser \in ParserState
      /\ parser.current \in Nat /\ parser.errors \in Nat /\ Len(source) \in Nat
      /\ parser.current <= Len(source)
  BY <1>2, FileTypes
<1>4. /\ IsSeq(u) /\ Ordered(u, source)
      /\ \A i \in DOMAIN u : u[i].do \notin LoopHeads \cup {"block"}
  BY <1>0, <1>1, AtLoopHead, LoopTail
<1>5. Depth(u) \in Nat /\ Depth(todo) = Depth(u) + (IF OfBlock(todo[1]) THEN 1 ELSE 0)
  BY <1>0, <1>1, AtLoopHead, LoopTail
<1>6. PICK y, x : /\ y = Recover("item") /\ x \in {Declaration(FALSE), Do("statement")}
                  /\ todo' = << x, y >> \o u
  BY <1>0 DEF ItemBegin, Then
<1>7. y.do = "recover" /\ y.scope = "item" /\ y.before = parser.current
  BY <1>6, RecoverIs
<1>8. PlainSteps(<< x >>)
  BY <1>6, PlainKinds, Steps1
<1>9. PICK v : v = Followed(<< x >>, Cons(y, u)) /\ todo' = v
  <2>1. << x, y >> \o u = << x >> \o Cons(y, u)
    BY <1>4, PairBefore
  <2> QED
    BY <1>6, <2>1 DEF Followed
<1>10. parser.current > 0 /\ Kind(parser) # "eof"
  BY <1>2 DEF Underway, ItemBegin, Current
<1>11. /\ IsSeq(v) /\ Ordered(v, source) /\ ~RoundAt(v) /\ ~BlockAt(v) /\ v # << >>
       /\ Depth(v) = Depth(u) + 1 /\ Fresh(v, parser.current)
  <2>1. PICK scope : scope = "item"
    OBVIOUS
  <2>2. RoundHere(parser, u, scope, y) /\ DepthIn(u, scope) = Depth(u) + 1
    BY <2>1, <1>2, <1>4, <1>7, <1>10 DEF RoundHere, DepthIn
  <2> QED
    BY <2>2, <1>8, <1>9, RoundBegins
<1>12. OfBlock(todo[1])
  BY <1>2 DEF OfBlock
<1>13. LoopBudget(parser, todo)
  BY <1>2 DEF Underway, Budget, AtLoop, LoopHeads
<1>14. Depth(v) = Depth(todo) /\ Depth(v) \in Nat /\ Depth(v) > 0
  BY <1>5, <1>11, <1>12
<1>15. StepBudget(parser, v, source)
  BY <1>3, <1>11, <1>13, <1>14 DEF LoopBudget, StepBudget
<1>16. ~AtLoop(v)
  BY <1>11 DEF AtLoop, RoundAt
<1>17. parser' = parser /\ source' = source /\ input' = input
  BY DEF ItemBegin, Keep
<1> QED
  BY <1>3, <1>9, <1>10, <1>11, <1>15, <1>16, <1>17, Established

LEMMA BlockItemKeeps == ASSUME ReportInv, BlockItem PROVE ReportInv'
<1>1. BlockEnd \/ ItemBegin
  BY DEF BlockItem, BlockEnd, ItemBegin, AtEndBrace
<1> QED
  BY <1>1, BlockEndKeeps, ItemBeginKeeps

\* The round's end: the loop goes on where the parser is, or skips first.
LEMMA LoopGoesOn ==
  ASSUME NEW t, IsSeq(t), Ordered(t, source), t # << >>, NEW u, u = Tail(t),
         NEW x, x.do \in LoopHeads, MayStand(x, u, source), OfBlock(x) <=> OfBlock(t[1]),
         NEW v, v = Cons(x, u),
         NEW q \in ParserState, q.errors + Depth(t) <= q.current
  PROVE  /\ IsSeq(v) /\ Ordered(v, source) /\ v # << >>
         /\ AtLoop(v) /\ LoopBudget(q, v) /\ ~BlockAt(v)
<1>1. /\ IsSeq(u) /\ Ordered(u, source)
      /\ \A i \in DOMAIN u : u[i].do \notin LoopHeads \cup {"block"}
  BY LoopTail
<1>2. Depth(u) \in Nat /\ Depth(t) = Depth(u) + (IF OfBlock(t[1]) THEN 1 ELSE 0)
  BY LoopTail
<1>3. /\ IsSeq(v) /\ v # << >> /\ v[1] = x /\ Ordered(v, source)
      /\ Depth(v) = Depth(u) + (IF OfBlock(x) THEN 1 ELSE 0)
  BY <1>1, OneBefore
<1>4. Depth(v) = Depth(t)
  BY <1>2, <1>3
<1>5. LoopBudget(q, v)
  BY <1>4 DEF LoopBudget
<1>6. AtLoop(v) /\ ~BlockAt(v)
  BY <1>3 DEF AtLoop, BlockAt, LoopHeads
<1> QED
  BY <1>3, <1>5, <1>6

\* What an item or an external declaration hands its loop.
SameScope(x, scope) == \/ x = Do(scope)
                       \/ x = [do |-> "synchronize", scope |-> scope]

LEMMA SameScopeStands ==
  ASSUME NEW scope, scope \in {"item", "unit"}, NEW x, SameScope(x, scope), NEW u,
         scope = "unit" => Len(u) = 0
  PROVE  x.do \in LoopHeads /\ MayStand(x, u, source) /\ (OfBlock(x) <=> scope = "item")
<1>1. CASE x = Do(scope)
  <2>1. x.do = scope
    BY <1>1 DEF Do
  <2> QED
    BY <2>1 DEF LoopHeads, MayStand, OfBlock, OfUnit
<1>2. CASE x = [do |-> "synchronize", scope |-> scope]
  <2>1. x.do = "synchronize" /\ x.scope = scope
    BY <1>2
  <2> QED
    BY <2>1 DEF LoopHeads, MayStand, OfBlock, OfUnit
<1> QED
  BY <1>1, <1>2 DEF SameScope

\* What the budget of a round leaves at its end. In a panic a token is taken
\* if none was since it began.
LEMMA RoundPaid ==
  ASSUME Typed, Underway, todo # << >>, todo[1].do = "recover"
  PROVE  /\ ~InPanic(parser) => parser.errors + Depth(todo) <= parser.current
         /\ parser.current # todo[1].before => parser.errors + Depth(todo) <= parser.current
         /\ parser.errors + Depth(todo) <= parser.current + 1
         /\ Depth(todo) \in Nat
<1>1. StepBudget(parser, todo, source)
  BY DEF Underway, Budget, AtLoop, LoopHeads
<1>2. parser.errors \in Nat /\ parser.current \in Nat
  BY FileTypes
<1>3. Depth(todo) \in Nat
  BY DepthIsNat DEF Typed
<1>4. parser.current # todo[1].before => ~Fresh(todo, parser.current)
  <2> SUFFICES ASSUME Fresh(todo, parser.current) PROVE parser.current = todo[1].before
    OBVIOUS
  <2>1. Len(todo) \in Nat /\ DOMAIN todo = 1 .. Len(todo)
    BY SeqFacts DEF Typed
  <2>2. PICK r \in 1 .. Len(todo) : /\ todo[r].before = parser.current
                                    /\ \A i \in 1 .. r - 1 : todo[i].do # "recover"
    BY <2>1 DEF Fresh
  <2>3. ~(1 \in 1 .. r - 1)
    BY <2>2
  <2>4. r = 1
    BY <2>1, <2>3
  <2> QED
    BY <2>2, <2>4
<1> DEFINE d == Depth(todo)
<1>5. d \in Nat
  BY <1>3
<1>6. \/ parser.errors + d + 1 <= parser.current
      \/ parser.errors + d <= parser.current
      \/ /\ parser.errors + d <= parser.current + 1
         /\ InPanic(parser) /\ Fresh(todo, parser.current)
  BY <1>1 DEF StepBudget
<1> HIDE DEF d
<1>7. /\ ~InPanic(parser) => parser.errors + d <= parser.current
      /\ parser.current # todo[1].before => parser.errors + d <= parser.current
      /\ parser.errors + d <= parser.current + 1
  BY <1>2, <1>4, <1>5, <1>6
<1> QED
  BY <1>3, <1>7 DEF d

LEMMA RecoverOrGoOnKeeps == ASSUME ReportInv, RecoverOrGoOn PROVE ReportInv'
<1>0. PICK u : u = Tail(todo)
  OBVIOUS
<1>1. Now("recover") /\ source' = source /\ input' = input
  BY DEF RecoverOrGoOn, Keep
<1>2. /\ Typed /\ Underway /\ todo # << >> /\ todo[1].do = "recover" /\ AtToken(parser)
      /\ IsSeq(todo) /\ Ordered(todo, source)
  BY <1>1, AtLoopHead
<1>3. /\ source \in Seq(Text) /\ input \in DOMAIN Files /\ parser \in ParserState
      /\ parser.current \in Nat /\ parser.errors \in Nat /\ Len(source) \in Nat
      /\ parser.current <= Len(source)
  BY <1>2, FileTypes
<1>4. PICK scope : scope = todo[1].scope
  OBVIOUS
<1>5. /\ scope \in {"item", "unit"}
      /\ scope = "unit" => Len(u) = 0
      /\ todo[1].before \in 1 .. Len(source) /\ source[todo[1].before] # "eof"
      /\ OfBlock(todo[1]) <=> scope = "item"
  <2>1. Len(todo) \in Nat /\ Len(todo) > 0 /\ DOMAIN todo = 1 .. Len(todo)
    BY <1>2, SeqFacts
  <2>2. /\ scope \in {"item", "unit"}
        /\ todo[1].before \in 1 .. Len(source) /\ source[todo[1].before] # "eof"
    BY <1>2, <1>4, <2>1 DEF Ordered
  <2>3. scope = "unit" => OfUnit(todo[1])
    BY <1>2, <1>4 DEF OfUnit
  <2>4. scope = "unit" => Len(u) = 0
    BY <1>0, <1>2, <2>3, LoopTail
  <2>5. OfBlock(todo[1]) <=> scope = "item"
    BY <1>2, <1>4 DEF OfBlock
  <2> QED
    BY <2>2, <2>4, <2>5
<1>6. /\ ~InPanic(parser) => parser.errors + Depth(todo) <= parser.current
      /\ parser.current # todo[1].before => parser.errors + Depth(todo) <= parser.current
      /\ parser.errors + Depth(todo) <= parser.current + 1
      /\ Depth(todo) \in Nat
  BY <1>2, RoundPaid
<1>7. PICK q, x : /\ q = parser' /\ SameScope(x, scope) /\ todo' = << x >> \o u
                  /\ IF InPanic(parser) THEN q = Calmed(Unstuck(parser, todo[1].before)) ELSE q = parser
  <2>1. Head(todo) = todo[1]
    BY <1>2, SeqFacts
  <2>2. parser.panic <=> InPanic(parser)
    BY <1>3 DEF ParserState, InPanic
  <2> QED
    BY <2>1, <2>2, <1>0, <1>4 DEF RecoverOrGoOn, Then, SameScope, Calmed
<1>8. PICK v : v = Cons(x, u) /\ todo' = v
  BY <1>7 DEF Cons
<1>9. /\ q \in ParserState /\ q.current <= Len(source) /\ q.current > 0
      /\ q.errors + Depth(todo) <= q.current
  <2>1. CASE ~InPanic(parser)
    BY <2>1, <1>2, <1>3, <1>6, <1>7 DEF Underway
  <2>2. CASE InPanic(parser) /\ parser.current # todo[1].before
    <3>1. q = Calmed(parser)
      BY <2>2, <1>7 DEF Unstuck
    <3>2. q \in ParserState /\ q.current = parser.current /\ q.errors = parser.errors
      BY <3>1, <1>3, CalmState
    <3> QED
      BY <2>2, <3>2, <1>2, <1>3, <1>6 DEF Underway
  <2>3. CASE InPanic(parser) /\ parser.current = todo[1].before
    <3> DEFINE r == Advance(parser)
    <3>1. q = Calmed(r)
      BY <2>3, <1>7 DEF Unstuck
    <3>2. Kind(parser) # "eof"
      BY <2>3, <1>5 DEF Kind
    <3>3. /\ r \in ParserState /\ r.current <= Len(source) /\ r.current > parser.current
          /\ Progress(parser, r)
      BY <1>2, <3>2, AdvanceTakes
    <3> HIDE DEF r
    <3>4. r.errors = parser.errors
      BY <2>3, <3>3, <1>3, ProgressCosts
    <3>5. q \in ParserState /\ q.current = r.current /\ q.errors = r.errors
      BY <3>1, <3>3, CalmState
    <3>6. q.current \in Nat
      BY <3>5, FieldTypes
    <3> QED
      BY <3>3, <3>4, <3>5, <3>6, <1>3, <1>6
  <2> QED
    BY <2>1, <2>2, <2>3
<1>10. x.do \in LoopHeads /\ MayStand(x, u, source) /\ (OfBlock(x) <=> scope = "item")
  BY <1>5, <1>7, SameScopeStands
<1>11. /\ IsSeq(v) /\ Ordered(v, source) /\ v # << >>
       /\ AtLoop(v) /\ LoopBudget(q, v) /\ ~BlockAt(v)
  BY <1>0, <1>2, <1>5, <1>8, <1>9, <1>10, LoopGoesOn
<1> QED
  BY <1>1, <1>3, <1>7, <1>8, <1>9, <1>11, Established

LEMMA SynchronizeKeeps == ASSUME ReportInv, Synchronize PROVE ReportInv'
<1>0. PICK u : u = Tail(todo)
  OBVIOUS
<1>1. Now("synchronize") /\ source' = source /\ input' = input
  BY DEF Synchronize, Keep
<1>2. /\ Typed /\ Underway /\ todo # << >> /\ todo[1].do = "synchronize" /\ AtToken(parser)
      /\ IsSeq(todo) /\ Ordered(todo, source)
  BY <1>1, AtLoopHead
<1>3. /\ source \in Seq(Text) /\ input \in DOMAIN Files /\ parser \in ParserState
      /\ parser.current \in Nat /\ parser.errors \in Nat /\ Len(source) \in Nat
      /\ parser.current <= Len(source)
  BY <1>2, FileTypes
<1>4. PICK scope : scope = todo[1].scope
  OBVIOUS
<1>5. /\ scope \in {"item", "unit"}
      /\ scope = "unit" => Len(u) = 0
      /\ OfBlock(todo[1]) <=> scope = "item"
  <2>1. Len(todo) \in Nat /\ Len(todo) > 0 /\ DOMAIN todo = 1 .. Len(todo)
    BY <1>2, SeqFacts
  <2>2. scope \in {"item", "unit"}
    BY <1>2, <1>4, <2>1 DEF Ordered
  <2>3. scope = "unit" => OfUnit(todo[1])
    BY <1>2, <1>4 DEF OfUnit
  <2>4. scope = "unit" => Len(u) = 0
    BY <1>0, <1>2, <2>3, LoopTail
  <2>5. OfBlock(todo[1]) <=> scope = "item"
    BY <1>2, <1>4 DEF OfBlock
  <2> QED
    BY <2>2, <2>4, <2>5
<1>6. parser.errors + Depth(todo) <= parser.current /\ Depth(todo) \in Nat /\ parser.current > 0
  <2>1. LoopBudget(parser, todo)
    BY <1>2 DEF Underway, Budget, AtLoop, LoopHeads
  <2> QED
    BY <2>1, <1>2, DepthIsNat DEF LoopBudget, Underway
<1>7. PICK q : /\ q = parser' /\ (todo' = << Do(scope) >> \o u \/ todo' = todo)
               /\ q = parser \/ (Kind(parser) # "eof" /\ q = Advance(parser))
  <2>1. Head(todo) = todo[1]
    BY <1>2, SeqFacts
  <2> QED
    BY <2>1, <1>0, <1>4 DEF Synchronize, Then, StopsAt
<1>8. \/ q = parser /\ todo' = << Do(scope) >> \o u
      \/ Kind(parser) # "eof" /\ q = Advance(parser)
  BY <1>0, <1>4, <1>2, SeqFacts, <1>7 DEF Synchronize, Then, StopsAt
<1>9. /\ q \in ParserState /\ q.current <= Len(source) /\ q.current > 0
      /\ q.errors + Depth(todo) <= q.current
  <2>1. CASE q = parser
    BY <2>1, <1>3, <1>6
  <2>2. CASE Kind(parser) # "eof" /\ q = Advance(parser)
    <3>1. /\ q \in ParserState /\ q.current <= Len(source) /\ q.current > parser.current
          /\ Progress(parser, q)
      BY <1>2, <2>2, AdvanceTakes
    <3>2. q.errors # parser.errors => q.current > parser.current + 1
      BY <1>2, <2>2, AdvanceTakes
    <3>3. q.errors <= parser.errors + 1
      BY <3>1, <1>3, ProgressCosts
    <3>4. q.current \in Nat /\ q.errors \in Nat
      BY <3>1, FieldTypes
    <3> QED
      BY <3>1, <3>2, <3>3, <3>4, <1>3, <1>6
  <2> QED
    BY <2>1, <2>2, <1>7
<1>10. CASE todo' = todo
  <2>1. PICK t : t = todo
    OBVIOUS
  <2>2. AtLoop(t) /\ LoopBudget(q, t) /\ ~BlockAt(t)
    BY <2>1, <1>2, <1>9 DEF AtLoop, LoopHeads, LoopBudget, BlockAt
  <2>3. IsSeq(t) /\ Ordered(t, source) /\ todo' = t
    BY <2>1, <1>2, <1>10
  <2> QED
    BY <2>2, <2>3, <1>1, <1>3, <1>7, <1>9, Established
<1>11. CASE todo' = << Do(scope) >> \o u
  <2>1. PICK x : x = Do(scope) /\ SameScope(x, scope)
    BY DEF SameScope
  <2>2. PICK v : v = Cons(x, u) /\ todo' = v
    BY <1>11, <2>1 DEF Cons
  <2>3. x.do \in LoopHeads /\ MayStand(x, u, source) /\ (OfBlock(x) <=> scope = "item")
    BY <1>5, <2>1, SameScopeStands
  <2>4. /\ IsSeq(v) /\ Ordered(v, source) /\ v # << >>
        /\ AtLoop(v) /\ LoopBudget(q, v) /\ ~BlockAt(v)
    BY <1>0, <1>2, <1>5, <1>9, <2>2, <2>3, LoopGoesOn
  <2> QED
    BY <1>1, <1>3, <1>7, <1>9, <2>2, <2>4, Established
<1> QED
  BY <1>7, <1>10, <1>11

LEMMA ExternalDeclarationKeeps ==
  ASSUME ReportInv, ExternalDeclaration
  PROVE  ReportInv'
<1>0. PICK u : u = Tail(todo)
  OBVIOUS
<1>1. Now("unit") /\ source' = source /\ input' = input
  BY DEF ExternalDeclaration, Keep
<1>2. /\ Typed /\ Underway /\ todo # << >> /\ todo[1].do = "unit" /\ AtToken(parser)
      /\ IsSeq(todo) /\ Ordered(todo, source)
  BY <1>1, AtLoopHead
<1>3. /\ source \in Seq(Text) /\ input \in DOMAIN Files /\ parser \in ParserState
      /\ parser.current \in Nat /\ parser.errors \in Nat /\ Len(source) \in Nat
      /\ parser.current <= Len(source)
  BY <1>2, FileTypes
<1>4. /\ IsSeq(u) /\ Ordered(u, source) /\ << >> \o u = u
      /\ \A i \in DOMAIN u : u[i].do \notin LoopHeads \cup {"block"}
  BY <1>0, <1>2, LoopTail
<1>5. ~OfBlock(todo[1]) /\ OfUnit(todo[1])
  BY <1>2 DEF OfBlock, OfUnit
<1>6. Depth(u) \in Nat /\ Depth(todo) = Depth(u) /\ Len(u) = 0
  <2>1. /\ Depth(u) \in Nat
        /\ Depth(todo) = Depth(u) + (IF OfBlock(todo[1]) THEN 1 ELSE 0)
    BY <1>0, <1>2, LoopTail
  <2>2. Len(u) = 0
    BY <1>0, <1>2, <1>5, LoopTail
  <2> QED
    BY <2>1, <2>2, <1>5
<1>7. parser.errors + Depth(todo) <= parser.current /\ parser.current > 0
  <2>1. LoopBudget(parser, todo)
    BY <1>2 DEF Underway, Budget, AtLoop, LoopHeads
  <2> QED
    BY <2>1, <1>2 DEF LoopBudget, Underway
<1>8. u = << >>
  BY <1>4, <1>6, SeqFacts
<1>9. CASE Then(<< >>) /\ parser' = parser
  <2>1. todo' = u
    BY <1>9, <1>0, <1>4 DEF Then
  <2>2. AtLoop(u) /\ LoopBudget(parser, u) /\ ~BlockAt(u)
    BY <1>6, <1>7, <1>8 DEF AtLoop, LoopBudget, BlockAt
  <2> QED
    BY <2>1, <2>2, <1>1, <1>3, <1>4, <1>7, <1>9, Established
<1>10. PICK scope : scope = "unit"
  OBVIOUS
<1>11. PICK y : y = Recover(scope)
  OBVIOUS
<1>12. y.do = "recover" /\ y.scope = scope /\ y.before = parser.current
  BY <1>11, RecoverIs
<1>13. Current # "eof" => RoundHere(parser, u, scope, y)
  BY <1>2, <1>4, <1>6, <1>7, <1>10, <1>12 DEF RoundHere, Current
<1>14. DepthIn(u, scope) = Depth(todo)
  BY <1>6, <1>10 DEF DepthIn
<1>15. ASSUME Current # "eof", NEW s, PlainSteps(s), NEW q \in ParserState, parser' = q,
              q = parser \/ q = Error(parser), todo' = Followed(s, Cons(y, u))
       PROVE  ReportInv'
  <2>1. PICK v : v = Followed(s, Cons(y, u)) /\ todo' = v
    BY <1>15
  <2>2. /\ IsSeq(v) /\ Ordered(v, source) /\ ~RoundAt(v) /\ ~BlockAt(v) /\ v # << >>
        /\ Depth(v) = DepthIn(u, scope)
        /\ Fresh(v, parser.current)
    BY <1>13, <1>15, <2>1, RoundBegins
  <2>3. Depth(v) = Depth(todo) /\ Depth(v) \in Nat
    BY <2>2, <1>6, <1>14
  <2>4. Len(source) > parser.current
    <3>1. Ordered(v, source) /\ Fresh(v, parser.current)
      BY <2>2
    <3> QED
      BY <3>1, <1>2, <1>7, FreshIsNotLast
  <2>5. /\ q.current = parser.current
        /\ InPanic(parser) => q = parser
        /\ q.errors = parser.errors \/ (InPanic(q) /\ q.errors = parser.errors + 1)
    <3>1. CASE q = parser
      BY <3>1
    <3>2. CASE q = Error(parser)
      <4>1. /\ q.current = parser.current
            /\ InPanic(parser) => q = parser
            /\ ~InPanic(parser) => InPanic(q) /\ q.errors \in parser.errors .. parser.errors + 1
        BY <3>2, <1>3, ErrorReports
      <4>2. q.errors \in Nat
        BY <1>15, FieldTypes
      <4> QED
        BY <4>1, <4>2, <1>3
    <3> QED
      BY <3>1, <3>2, <1>15
  <2>6. StepBudget(q, v, source)
    BY <2>2, <2>3, <2>4, <2>5, <1>3, <1>7 DEF StepBudget
  <2>7. ~AtLoop(v)
    BY <2>2 DEF AtLoop, RoundAt
  <2> QED
    BY <2>1, <2>2, <2>5, <2>6, <2>7, <1>1, <1>3, <1>7, <1>15, Established
<1>16. CASE /\ Current # "eof" /\ parser' = parser
            /\ Then(<< Declaration(TRUE), Do("concat"), Recover("unit") >>)
  <2>0. PICK a, b : a = Declaration(TRUE) /\ b = Do("concat")
    OBVIOUS
  <2>1. PlainSteps(<< a, b >>)
    BY <2>0, PlainKinds, Steps2 DEF Plain, Do, LoopHeads
  <2>2. << a, b, y >> \o u = Followed(<< a, b >>, Cons(y, u))
    BY <1>4, TripleBefore DEF Followed
  <2>3. todo' = Followed(<< a, b >>, Cons(y, u))
    BY <2>0, <2>2, <1>0, <1>10, <1>11, <1>16 DEF Then
  <2> QED
    BY <2>1, <2>3, <1>3, <1>15, <1>16
<1>17. CASE Current # "eof" /\ parser' = Error(parser) /\ Then(<< Recover("unit") >>)
  <2>1. todo' = Followed(<< >>, Cons(y, u))
    <3>1. IsSeq(Cons(y, u))
      BY <1>17, <1>13, RoundEnds
    <3>2. << >> \o Cons(y, u) = Cons(y, u)
      BY <3>1, NothingBefore
    <3> QED
      BY <3>2, <1>0, <1>10, <1>11, <1>17 DEF Then, Cons, Followed
  <2>2. Error(parser) \in ParserState
    BY <1>3, ErrorReports
  <2> QED
    BY <2>1, <2>2, <1>15, <1>17, Steps0
<1> QED
  BY <1>9, <1>16, <1>17 DEF ExternalDeclaration, DeclarationStarts, TypeSpecifiers, StorageSpecifiers

-----------------------------------------------------------------------------
(* The tokens that are read, and the theorem.                              *)

\* Tokens that are read take nothing away.
LEMMA MoreOrdered ==
  ASSUME NEW t, NEW a, NEW b, Len(a) \in Nat, Len(b) \in Nat, Len(a) <= Len(b),
         \A i \in 1 .. Len(a) : b[i] = a[i], Ordered(t, a)
  PROVE  Ordered(t, b)
<1> SUFFICES ASSUME NEW i \in DOMAIN t
             PROVE  /\ i > 1 => t[i].do \notin LoopHeads \cup {"block"}
                    /\ t[i].do = "operand" => i < Len(t) /\ t[i + 1].do = "make"
                    /\ t[i].do \in {"recover", "synchronize"} => t[i].scope \in {"item", "unit"}
                    /\ t[i].do = "recover" => t[i].before \in 1 .. Len(b) /\ b[t[i].before] # "eof"
                    /\ OfUnit(t[i]) => i = Len(t)
  BY DEF Ordered
<1>1. t[i].do = "recover" => t[i].before \in 1 .. Len(a) /\ a[t[i].before] # "eof"
  BY DEF Ordered
<1>2. t[i].do = "recover" => t[i].before \in 1 .. Len(b) /\ b[t[i].before] # "eof"
  BY <1>1
<1> QED
  BY <1>2 DEF Ordered

LEMMA MoreRead ==
  ASSUME ReportInv, NEW text \in Seq(Text), source' = text, Len(source) <= Len(text),
         \A i \in 1 .. Len(source) : text[i] = source[i],
         input' = input, parser' = parser, todo' = todo
  PROVE  ReportInv'
<1>1. /\ source \in Seq(Text) /\ input \in DOMAIN Files /\ parser \in ParserState
      /\ parser.current \in Nat /\ parser.errors \in Nat /\ Len(source) \in Nat
      /\ parser.current <= Len(source)
  BY FileTypes DEF ReportInv
<1>2. Len(text) \in Nat
  OBVIOUS
<1>3. Typed'
  <2>1. parser.current <= Len(text)
    BY <1>1, <1>2
  <2> QED
    BY <2>1 DEF ReportInv, Typed
<1>4. CASE AtStart
  BY <1>3, <1>4 DEF AtStart, ReportInv
<1>5. CASE Underway
  <2>1. Ordered(todo, text)
    BY <1>1, <1>2, <1>5, MoreOrdered DEF Underway
  <2>2. text[parser.current] = source[parser.current]
    BY <1>1, <1>5 DEF Underway
  <2>3. BlockAhead'
    BY <2>2, <1>5 DEF Underway, BlockAhead, Current, Kind
  <2>4. StepBudget(parser, todo, source) => StepBudget(parser, todo, text)
    BY <1>1, <1>2 DEF StepBudget
  <2>5. Budget'
    BY <2>4, <1>5 DEF Underway, Budget
  <2> QED
    BY <1>3, <1>5, <2>1, <2>3, <2>5 DEF Underway, ReportInv
<1> QED
  BY <1>4, <1>5 DEF ReportInv

LEMMA LexKeeps == ASSUME ReportInv, Lex PROVE ReportInv'
<1>1. source \in Seq(Text) /\ input \in DOMAIN Files
  BY FileTypes DEF ReportInv
<1>2. PICK k \in Files[input].kinds : source' = Append(source, k)
  BY DEF Lex
<1>3. k \in Text
  BY <1>1, <1>2 DEF Text
<1> DEFINE text == Append(source, k)
<1>4. /\ text \in Seq(Text) /\ Len(source) <= Len(text)
      /\ \A i \in 1 .. Len(source) : text[i] = source[i]
  BY <1>1, <1>3
<1> HIDE DEF text
<1> QED
  BY <1>2, <1>4, MoreRead DEF Lex, text

LEMMA FrameTokens ==
  /\ "int" \in Text /\ "ident" \in Text /\ "(" \in Text /\ ")" \in Text
  /\ "{" \in Text /\ "}" \in Text /\ ";" \in Text /\ "eof" \in Text
BY Zenon DEF Text, FrameText

LEMMA OpeningIsText ==
  ASSUME input \in DOMAIN Files
  PROVE  Opening \in Seq(Text)
<1>1. PICK a, b, c, d, e \in Text : a = "int" /\ b = "ident" /\ c = "(" /\ d = ")" /\ e = "{"
  BY FrameTokens
<1>2. << a, b, c, d, e >> \in Seq(Text) /\ << a >> \in Seq(Text) /\ << >> \in Seq(Text)
  OBVIOUS
<1>3. Opening \in {<< a, b, c, d, e >>, << a >>, << >>}
  BY <1>1, FilesAssumption DEF Opening
<1> QED
  BY <1>2, <1>3

LEMMA ClosingIsText ==
  ASSUME input \in DOMAIN Files
  PROVE  Closing \in Seq(Text)
<1>1. PICK a, b \in Text : a = "}" /\ b = ";"
  BY FrameTokens, Zenon
<1>2. << a >> \in Seq(Text) /\ << b >> \in Seq(Text) /\ << >> \in Seq(Text)
  OBVIOUS
<1>3. Closing \in {<< a >>, << b >>, << >>}
  BY <1>1, FilesAssumption, Zenon DEF Closing
<1> QED
  BY <1>2, <1>3

LEMMA EndOfFileKeeps == ASSUME ReportInv, EndOfFile PROVE ReportInv'
<1>1. source \in Seq(Text) /\ input \in DOMAIN Files
  BY FileTypes DEF ReportInv
<1>2. PICK rest : rest = Closing /\ rest \in Seq(Text)
  BY <1>1, ClosingIsText
<1>3. PICK e : e = "eof" /\ e \in Text
  BY FrameTokens
<1>4. source' = source \o rest \o << e >>
  BY <1>2, <1>3 DEF EndOfFile
<1> DEFINE text == source \o rest \o << e >>
<1>5. /\ text \in Seq(Text) /\ Len(source) <= Len(text)
      /\ \A i \in 1 .. Len(source) : text[i] = source[i]
  <2>1. source \o rest \in Seq(Text)
    BY <1>1, <1>2
  <2>2. << e >> \in Seq(Text)
    BY <1>3
  <2>3. Len(source \o rest) = Len(source) + Len(rest) /\ Len(text) = Len(source \o rest) + 1
    BY <1>1, <1>2, <2>1, <2>2
  <2> QED
    BY <1>1, <1>2, <1>3, <2>1, <2>2, <2>3
<1> HIDE DEF text
<1> QED
  BY <1>4, <1>5, MoreRead DEF EndOfFile, text

LEMMA InitEstablishes == ASSUME Init PROVE ReportInv
<1>1. source \in Seq(Text) /\ input \in DOMAIN Files
  BY OpeningIsText DEF Init
<1>2. parser = [current |-> 0, previous |-> "(", panic |-> FALSE, errors |-> 0]
  BY DEF Init
<1>3. parser \in ParserState /\ parser.current = 0 /\ parser.errors = 0 /\ ~InPanic(parser)
  <2>1. PICK w \in Text : parser = [current |-> 0, previous |-> w, panic |-> FALSE, errors |-> 0]
    BY <1>2, FrameTokens
  <2> QED
    BY <2>1 DEF ParserState, InPanic
<1>4. todo = << Do("advance"), Do("unit") >>
  BY DEF Init
<1>5. IsSeq(todo)
  <2>1. PICK a, b : a = Do("advance") /\ b = Do("unit")
    OBVIOUS
  <2>2. << a, b >> \in Seq({a, b})
    OBVIOUS
  <2> QED
    BY <1>4, <2>1, <2>2 DEF IsSeq
<1>6. parser.current <= Len(source)
  BY <1>1, <1>3
<1> QED
  BY <1>1, <1>3, <1>4, <1>5, <1>6 DEF ReportInv, Typed, AtStart

LEMMA ParseKeeps == ASSUME ReportInv, Parse PROVE ReportInv'
BY ProceedKeeps, ConsumedKeeps, OptionalKeeps, MadeKeeps, ParseExpressionKeeps, OperandKeeps,
   GroupingOrCastKeeps, ParseInfixKeeps, ColonKeeps, ArgumentsKeeps, ArgumentKeeps,
   ParseStatementKeeps, ElseKeeps, ForInitKeeps, ParseBlockKeeps, BlockItemKeeps,
   RecoverOrGoOnKeeps, SynchronizeKeeps, ParseDeclarationSpecsKeeps, TypeNameKeeps,
   ParseDeclaratorKeeps, DeclaredKeeps, FunctionDeclaredKeeps, ParseParameterListKeeps,
   ParameterDeclaratorKeeps, NextParameterKeeps, InitDeclaratorKeeps, InitializerKeeps,
   ParseDeclarationKeeps, FirstDeclaratorKeeps, FunctionBodyKeeps, DefineKeeps,
   DeclaratorsKeeps, NextDeclaratorKeeps, ExternalDeclarationKeeps, ConcatKeeps DEF Parse

LEMMA NextKeeps == ReportInv /\ [Next]_vars => ReportInv'
<1> SUFFICES ASSUME ReportInv, [Next]_vars PROVE ReportInv'
  OBVIOUS
<1>1. CASE Lex
  BY <1>1, LexKeeps
<1>2. CASE EndOfFile
  BY <1>2, EndOfFileKeeps
<1>3. CASE Parse
  BY <1>3, ParseKeeps
<1>4. CASE UNCHANGED vars
  <2>1. /\ input' = input /\ source' = source /\ parser' = parser /\ todo' = todo
    BY <1>4 DEF vars
  <2>2. PICK text : text = source
    OBVIOUS
  <2>3. text \in Seq(Text) /\ source' = text /\ Len(source) <= Len(text)
    BY <2>1, <2>2, FileTypes DEF ReportInv
  <2> QED
    BY <2>1, <2>2, <2>3, MoreRead
<1> QED
  BY <1>1, <1>2, <1>3, <1>4 DEF Next

\* The budget never lets the errors past what was read.
LEMMA ReportInvBounds == ASSUME ReportInv PROVE OneReportPerToken
<1>1. /\ parser.current \in Nat /\ parser.errors \in Nat /\ Len(source) \in Nat
      /\ parser.current <= Len(source)
  BY FileTypes DEF ReportInv
<1>2. CASE AtStart
  BY <1>1, <1>2 DEF AtStart, OneReportPerToken
<1>3. CASE Underway
  <2>1. Depth(todo) \in Nat
    BY DepthIsNat DEF ReportInv, Typed
  <2>2. CASE AtLoop(todo)
    <3>1. todo # << >> /\ todo[1].do = "item" => Depth(todo) > 0
      <4> SUFFICES ASSUME todo # << >>, todo[1].do = "item" PROVE Depth(todo) > 0
        OBVIOUS
      <4>1. OfBlock(todo[1])
        BY DEF OfBlock
      <4>2. PICK u : u = Tail(todo)
        OBVIOUS
      <4>3. Depth(u) \in Nat /\ Depth(todo) = Depth(u) + (IF OfBlock(todo[1]) THEN 1 ELSE 0)
        BY <4>2, <1>3, LoopTail DEF Underway, ReportInv, Typed
      <4> QED
        BY <4>1, <4>3
    <3>2. LoopBudget(parser, todo)
      BY <2>2, <1>3 DEF Underway, Budget
    <3>3. parser.errors <= parser.current
      BY <3>1, <3>2, <2>1, <1>1 DEF LoopBudget
    <3> QED
      BY <3>3, <1>1 DEF OneReportPerToken
  <2>3. CASE ~AtLoop(todo)
    <3>1. StepBudget(parser, todo, source)
      BY <2>3, <1>3 DEF Underway, Budget
    <3>2. parser.errors <= Len(source)
      BY <3>1, <2>1, <1>1 DEF StepBudget
    <3> QED
      BY <3>2 DEF OneReportPerToken
  <2> QED
    BY <2>2, <2>3
<1> QED
  BY <1>2, <1>3 DEF ReportInv

\* diagnostics.c never counts more errors than lexer.c has read tokens,
\* whatever the file: recovery goes on past every mistake, and an open block
\* is reported at the end of the file only against the brace that opened it.
THEOREM ReportsBounded == Spec => []OneReportPerToken
<1>1. Init => ReportInv
  BY InitEstablishes
<1>2. ReportInv => OneReportPerToken
  BY ReportInvBounds
<1> QED
  BY <1>1, <1>2, NextKeeps, PTL DEF Spec

-----------------------------------------------------------------------------
(* What the trees returned are, the latest first: every step that is left   *)
(* to do takes some of them and leaves one.                                 *)

\* What may be known of a tree: nothing, that it is there, or which kind of
\* tree it is.
TreeType == {"any", "node", "list", "block", "unit", "decl", "specs", "declarator"}
Stack == Seq(TreeType)

Lists == {"list", "block", "unit"}

WholeSeq(s) == IsSeq(s) /\ \A j \in DOMAIN s : s[j] # Null
Whole(v) == v[1] \in Lists => WholeSeq(v[2])

Is(v, ty) ==
    /\ Whole(v)
    /\ ty = "node" => v # Null
    /\ ty \in Lists => v[1] = ty
    /\ ty = "decl" => v[1] = "decl" /\ v[2][1] = "list" /\ Whole(v[2])
    /\ ty = "specs" => v[1] \in TypeSpecifiers
    /\ ty = "declarator" => v[1] \in {"object", "function"} /\ IsSeq(v) /\ Len(v) > 0

Fits(vs, x) == IsSeq(vs) /\ x \in Stack /\ Len(vs) = Len(x) /\ \A i \in DOMAIN vs : Is(vs[i], x[i])

\* ty on top of r; what is under the first n.
On(ty, r) == << ty >> \o r
Below(x, n) == SubSeq(x, n + 1, Len(x))

\* What a node may be called.
Tagged(node) == IsSeq(node) /\ Len(node) > 0 /\ node[1] \notin Lists \cup {"missing"}

\* What makes the nodes that are not made when an operand is missing.
OperandTags == {"unary", "pre", "assignment", "binary", "conditional", "cast"}
OperandNode(s) == s.do = "make" /\ s.node[1] \in OperandTags

\* An operand is looked at just before its node is made.
OperandsHaveNodes(t) ==
    \A i \in 1 .. Len(t) : t[i].do = "operand" => i < Len(t) /\ OperandNode(t[i + 1])

\* The trees x are there when s begins, and y when it and all it calls for
\* has been done.
Step(s, x, y) ==
    \/ s.do \in {"advance", "consume"} /\ y = x
    \/ s.do \in {"unless", "expression", "grouping", "forinit", "statement"} /\ y = On("any", x)
    \/ s.do = "block" /\ \E t \in {"any", "node"} : y = On(t, x)
    \/ s.do = "declaration" /\ \E t \in {"any", "node", "decl"} : y = On(t, x)
    \/ s.do = "specs" /\ y = On("specs", x)
    \/ s.do \in {"declarator", "declared"} /\ y = On("declarator", x)
    \/ /\ s.do = "make" /\ s.n \in Nat /\ s.n <= Len(x) /\ Tagged(s.node)
       /\ \E t \in {"any", "node"} :
             /\ y = On(t, Below(x, s.n))
             /\ OperandNode(s) => t = "any" /\ s.n > 0
    \/ \E r \in Stack :
          \/ s.do \in {"infix", "operand", "arguments"} /\ x = On("any", r) /\ y = On("any", r)
          \/ s.do = "colon" /\ x = On("any", On("any", r)) /\ y = On("any", r)
          \/ s.do = "argument" /\ x = On("any", On("list", On("any", r))) /\ y = On("any", r)
          \/ s.do = "else" /\ x = On("any", On("any", r)) /\ \E t \in {"any", "node"} : y = On(t, r)
          \/ s.do = "item" /\ x = On("block", r) /\ \E t \in {"any", "node"} : y = On(t, r)
          \/ /\ s.do = "recover" /\ s.scope = "item" /\ x = On("node", On("block", r))
             /\ \E t \in {"any", "node"} : y = On(t, r)
          \/ /\ s.do = "synchronize" /\ s.scope = "item" /\ x = On("block", r)
             /\ \E t \in {"any", "node"} : y = On(t, r)
          \/ /\ s.do = "unit" \/ (s.do \in {"recover", "synchronize"} /\ s.scope = "unit")
             /\ x = On("unit", r) /\ y = On("unit", r)
          \/ s.do = "concat" /\ x = On("decl", On("unit", r)) /\ y = On("unit", r)
          \/ s.do = "typename" /\ x = On("specs", r) /\ y = On("any", r)
          \/ s.do = "function" /\ x = On("list", r) /\ y = On("declarator", r)
          \/ s.do = "parameters" /\ x = On("list", r) /\ y = On("list", r)
          \/ s.do = "parameter" /\ x = On("specs", r) /\ y = On("declarator", r)
          \/ s.do = "nextparameter" /\ x = On("declarator", On("list", r)) /\ y = On("list", r)
          \/ s.do = "init" /\ x = On("declarator", r) /\ y = On("declarator", r)
          \/ s.do = "initializer" /\ x = On("any", On("declarator", r)) /\ y = On("declarator", r)
          \/ /\ \/ s.do = "first" /\ x = On("specs", r)
                \/ s.do = "body" /\ x = On("declarator", On("specs", r))
                \/ s.do = "define" /\ x = On("any", On("declarator", On("specs", r)))
                \/ s.do = "declarators" /\ x = On("list", On("specs", r))
                \/ s.do = "nextdeclarator" /\ x = On("declarator", On("list", On("specs", r)))
             /\ \E t \in {"any", "node", "decl"} : y = On(t, r)

\* The steps t, one after another, lead from the trees x to y.
Leads(t, x, y) ==
    /\ IsSeq(t) /\ x \in Stack /\ y \in Stack /\ OperandsHaveNodes(t)
    /\ \E path \in [1 .. Len(t) + 1 -> Stack] :
          /\ path[1] = x /\ path[Len(t) + 1] = y
          /\ \A i \in 1 .. Len(t) : Step(t[i], path[i], path[i + 1])

\* A statement that is an item of a block does not begin like a declaration,
\* so that it will not be missing.
AtItem(x, y) == /\ todo # << >> /\ todo[1] = Do("statement") /\ Ready
                /\ Current \notin DeclarationStarts
                /\ Leads(Tail(todo), On("node", x), y) /\ IsSeq(todo)

TreesFit == \E x, y \in Stack : Fits(values, x) /\ (Leads(todo, x, y) \/ AtItem(x, y))

-----------------------------------------------------------------------------
LEMMA OnStack ==
  ASSUME NEW ty \in TreeType, NEW r \in Stack
  PROVE  /\ On(ty, r) \in Stack /\ Len(On(ty, r)) = Len(r) + 1 /\ On(ty, r)[1] = ty
         /\ On(ty, r) # << >>
         /\ \A i \in 1 .. Len(r) : On(ty, r)[i + 1] = r[i]
BY DEF On, Stack

LEMMA OnInjective ==
  ASSUME NEW a \in TreeType, NEW b \in TreeType, NEW r \in Stack, NEW q \in Stack, On(a, r) = On(b, q)
  PROVE  a = b /\ r = q
<1>1. a = b
  BY OnStack
<1>2. Len(r) = Len(q) /\ Len(r) \in Nat
  <2>1. Len(r) \in Nat /\ Len(q) \in Nat
    BY DEF Stack
  <2> QED
    BY <2>1, OnStack
<1>3. \A i \in 1 .. Len(r) : r[i] = q[i]
  <2>1. PICK s : s = On(a, r) /\ s = On(b, q)
    OBVIOUS
  <2>2. \A i \in 1 .. Len(r) : s[i + 1] = r[i]
    <3>1. \A i \in 1 .. Len(r) : On(a, r)[i + 1] = r[i]
      BY OnStack
    <3> QED
      BY <3>1, <2>1
  <2>3. \A i \in 1 .. Len(q) : s[i + 1] = q[i]
    <3>1. \A i \in 1 .. Len(q) : On(b, q)[i + 1] = q[i]
      BY OnStack
    <3> QED
      BY <3>1, <2>1
  <2> QED
    BY <2>2, <2>3, <1>2
<1> QED
  BY <1>1, <1>2, <1>3 DEF Stack

LEMMA BelowOn ==
  ASSUME NEW a \in TreeType, NEW r \in Stack, NEW n \in Nat, n <= Len(r)
  PROVE  Below(On(a, r), n + 1) = Below(r, n)
<1>1. /\ On(a, r) \in Stack /\ Len(On(a, r)) = Len(r) + 1
      /\ \A i \in 1 .. Len(r) : On(a, r)[i + 1] = r[i]
  BY OnStack
<1> DEFINE s == On(a, r)
<1> HIDE DEF s
<1>2. Len(r) \in Nat
  BY DEF Stack
<1>3. s \in Seq(TreeType) /\ Len(s) = Len(r) + 1 /\ \A i \in 1 .. Len(r) : s[i + 1] = r[i]
  BY <1>1 DEF Stack, s
<1>4. Len(SubSeq(s, (n + 1) + 1, Len(s))) = Len(r) - n /\ Len(SubSeq(r, n + 1, Len(r))) = Len(r) - n
  BY <1>2, <1>3 DEF Stack
<1>5. \A i \in 1 .. Len(r) - n : SubSeq(s, (n + 1) + 1, Len(s))[i] = SubSeq(r, n + 1, Len(r))[i]
  <2> SUFFICES ASSUME NEW i \in 1 .. Len(r) - n
               PROVE  SubSeq(s, (n + 1) + 1, Len(s))[i] = SubSeq(r, n + 1, Len(r))[i]
    OBVIOUS
  <2>1. SubSeq(s, (n + 1) + 1, Len(s))[i] = s[(n + i) + 1]
    BY <1>2, <1>3
  <2>2. SubSeq(r, n + 1, Len(r))[i] = r[n + i]
    BY <1>2 DEF Stack
  <2>3. n + i \in 1 .. Len(r)
    BY <1>2
  <2> QED
    BY <2>1, <2>2, <2>3, <1>3
<1>6. SubSeq(s, (n + 1) + 1, Len(s)) \in Seq(TreeType) /\ SubSeq(r, n + 1, Len(r)) \in Seq(TreeType)
  BY <1>2, <1>3 DEF Stack
<1>7. SubSeq(s, (n + 1) + 1, Len(s)) = SubSeq(r, n + 1, Len(r))
  <2>1. PICK u, w : u = SubSeq(s, (n + 1) + 1, Len(s)) /\ w = SubSeq(r, n + 1, Len(r))
    OBVIOUS
  <2>2. u \in Seq(TreeType) /\ w \in Seq(TreeType) /\ Len(u) = Len(w)
    BY <2>1, <1>4, <1>6
  <2>3. \A i \in 1 .. Len(u) : u[i] = w[i]
    BY <2>1, <1>4, <1>5
  <2>4. u = w
    BY <2>2, <2>3
  <2> QED
    BY <2>1, <2>4
<1> QED
  BY <1>7 DEF Below, s

LEMMA BelowNone ==
  ASSUME NEW r \in Stack
  PROVE  Below(r, 0) = r
BY DEF Below, Stack

LEMMA BelowStack ==
  ASSUME NEW x \in Stack, NEW n \in Nat, n <= Len(x)
  PROVE  /\ Below(x, n) \in Stack /\ Len(Below(x, n)) = Len(x) - n
         /\ \A i \in 1 .. Len(x) - n : Below(x, n)[i] = x[n + i]
BY DEF Below, Stack

\* Some trees on the stack.
LEMMA Below1 ==
  ASSUME NEW a \in TreeType, NEW r \in Stack
  PROVE  Below(On(a, r), 1) = r /\ Len(On(a, r)) >= 1
<1>1. Len(r) \in Nat
  BY DEF Stack
<1>2. Below(On(a, r), 0 + 1) = Below(r, 0)
  BY <1>1, BelowOn
<1> QED
  BY <1>1, <1>2, BelowNone, OnStack

LEMMA Below2 ==
  ASSUME NEW a \in TreeType, NEW b \in TreeType, NEW r \in Stack
  PROVE  Below(On(a, On(b, r)), 2) = r /\ Len(On(a, On(b, r))) >= 2
<1>1. On(b, r) \in Stack /\ Len(On(b, r)) >= 1 /\ Below(On(b, r), 1) = r /\ Len(On(b, r)) \in Nat
  BY Below1, OnStack DEF Stack
<1>2. Below(On(a, On(b, r)), 1 + 1) = Below(On(b, r), 1)
  BY <1>1, BelowOn
<1> QED
  BY <1>1, <1>2, OnStack

LEMMA Below3 ==
  ASSUME NEW a \in TreeType, NEW b \in TreeType, NEW c \in TreeType, NEW r \in Stack
  PROVE  Below(On(a, On(b, On(c, r))), 3) = r /\ Len(On(a, On(b, On(c, r)))) >= 3
<1>0. PICK q : q = On(b, On(c, r))
  OBVIOUS
<1>1. q \in Stack /\ Len(q) >= 2 /\ Below(q, 2) = r /\ Len(q) \in Nat
  <2>1. On(c, r) \in Stack
    BY OnStack
  <2>2. q \in Stack
    BY <1>0, <2>1, OnStack
  <2>3. Len(q) \in Nat
    BY <2>2 DEF Stack
  <2>4. Len(q) >= 2 /\ Below(q, 2) = r
    BY <1>0, Below2
  <2> QED
    BY <2>2, <2>3, <2>4
<1>2. Below(On(a, q), 2 + 1) = Below(q, 2)
  BY <1>1, BelowOn
<1> QED
  BY <1>0, <1>1, <1>2, OnStack

LEMMA Below4 ==
  ASSUME NEW a \in TreeType, NEW b \in TreeType, NEW c \in TreeType, NEW d \in TreeType, NEW r \in Stack
  PROVE  Below(On(a, On(b, On(c, On(d, r)))), 4) = r /\ Len(On(a, On(b, On(c, On(d, r))))) >= 4
<1>0. PICK q : q = On(b, On(c, On(d, r)))
  OBVIOUS
<1>1. q \in Stack /\ Len(q) >= 3 /\ Below(q, 3) = r /\ Len(q) \in Nat
  <2>1. On(d, r) \in Stack
    BY OnStack
  <2>2. On(c, On(d, r)) \in Stack
    BY <2>1, OnStack
  <2>3. q \in Stack
    BY <1>0, <2>2, OnStack
  <2>4. Len(q) \in Nat
    BY <2>3 DEF Stack
  <2>5. Len(q) >= 3 /\ Below(q, 3) = r
    BY <1>0, Below3
  <2> QED
    BY <2>3, <2>4, <2>5
<1>2. Below(On(a, q), 3 + 1) = Below(q, 3)
  BY <1>1, BelowOn
<1> QED
  BY <1>0, <1>1, <1>2, OnStack

\* Trees that fit, one taken and one put on.
LEMMA TopFits ==
  ASSUME NEW vs, NEW a \in TreeType, NEW r \in Stack, Fits(vs, On(a, r))
  PROVE  /\ vs # << >> /\ Head(vs) = vs[1] /\ Is(vs[1], a) /\ IsSeq(vs)
         /\ Fits(Tail(vs), r) /\ Len(vs) = Len(r) + 1
<1>1. /\ Len(On(a, r)) = Len(r) + 1 /\ On(a, r)[1] = a /\ Len(r) \in Nat
      /\ \A i \in 1 .. Len(r) : On(a, r)[i + 1] = r[i]
  <2>1. Len(r) \in Nat
    BY DEF Stack
  <2> QED
    BY <2>1, OnStack
<1>2. IsSeq(vs) /\ Len(vs) = Len(r) + 1 /\ DOMAIN vs = 1 .. Len(r) + 1
      /\ \A i \in 1 .. Len(r) + 1 : Is(vs[i], On(a, r)[i])
  BY <1>1, SeqFacts DEF Fits
<1>3. vs # << >>
  BY <1>1, <1>2, SeqFacts
<1>4. /\ Head(vs) = vs[1] /\ IsSeq(Tail(vs)) /\ Len(Tail(vs)) = Len(r)
      /\ \A i \in 1 .. Len(r) : Tail(vs)[i] = vs[i + 1]
  BY <1>1, <1>2, <1>3, SeqFacts
<1>5. DOMAIN Tail(vs) = 1 .. Len(r)
  BY <1>4, SeqFacts
<1>6. \A i \in 1 .. Len(r) : Is(Tail(vs)[i], r[i])
  BY <1>1, <1>2, <1>4
<1>7. Fits(Tail(vs), r)
  BY <1>4, <1>5, <1>6 DEF Fits
<1>8. Is(vs[1], a)
  BY <1>1, <1>2
<1> QED
  BY <1>2, <1>3, <1>4, <1>7, <1>8

LEMMA FitsOn ==
  ASSUME NEW vs, NEW r \in Stack, Fits(vs, r), NEW v, NEW a \in TreeType, Is(v, a)
  PROVE  Fits(<< v >> \o vs, On(a, r))
<1> DEFINE ws == << v >> \o vs
           x == On(a, r)
<1>1. /\ x \in Stack /\ Len(x) = Len(r) + 1 /\ x[1] = a /\ Len(r) \in Nat
      /\ \A i \in 1 .. Len(r) : x[i + 1] = r[i]
  <2>1. Len(r) \in Nat
    BY DEF Stack
  <2> QED
    BY <2>1, OnStack
<1>2. IsSeq(<< v >>) /\ Len(<< v >>) = 1 /\ << v >>[1] = v
  <2>1. << v >> \in Seq({v})
    OBVIOUS
  <2> QED
    BY <2>1 DEF IsSeq
<1>3. IsSeq(vs) /\ Len(vs) = Len(r) /\ DOMAIN vs = 1 .. Len(r) /\ \A i \in 1 .. Len(r) : Is(vs[i], r[i])
  BY SeqFacts DEF Fits
<1>4. IsSeq(ws) /\ Len(ws) = 1 + Len(r) /\ ws[1] = v /\ \A i \in 1 .. Len(r) : ws[1 + i] = vs[i]
  BY <1>2, <1>3, ConcatFacts
<1> HIDE DEF ws, x
<1>5. DOMAIN ws = 1 .. Len(r) + 1
  BY <1>1, <1>4, SeqFacts
<1>6. ASSUME NEW i \in 1 .. Len(r) + 1 PROVE Is(ws[i], x[i])
  <2>1. CASE i = 1
    BY <2>1, <1>1, <1>4
  <2>2. CASE i # 1
    <3>1. i - 1 \in 1 .. Len(r) /\ (i - 1) + 1 = i /\ 1 + (i - 1) = i
      BY <2>2, <1>1
    <3>2. ws[i] = vs[i - 1] /\ x[i] = r[i - 1]
      BY <3>1, <1>1, <1>4
    <3> QED
      BY <3>1, <3>2, <1>3
  <2> QED
    BY <2>1, <2>2
<1>7. Fits(ws, x)
  BY <1>1, <1>4, <1>5, <1>6 DEF Fits
<1> QED
  BY <1>7 DEF ws, x

LEMMA FitsBelow ==
  ASSUME NEW vs, NEW x, Fits(vs, x), NEW n \in Nat, n <= Len(x)
  PROVE  Fits(SubSeq(vs, n + 1, Len(vs)), Below(x, n))
<1> DEFINE ws == SubSeq(vs, n + 1, Len(vs))
           y == Below(x, n)
<1>1. x \in Stack /\ IsSeq(vs) /\ Len(vs) = Len(x) /\ DOMAIN vs = 1 .. Len(x) /\ Len(x) \in Nat
      /\ \A i \in 1 .. Len(x) : Is(vs[i], x[i])
  BY SeqFacts DEF Fits
<1>2. y \in Stack /\ Len(y) = Len(x) - n /\ \A i \in 1 .. Len(x) - n : y[i] = x[n + i]
  BY <1>1, BelowStack
<1>3. PICK S : vs \in Seq(S)
  BY <1>1 DEF IsSeq
<1>4. ws \in Seq(S) /\ Len(ws) = Len(x) - n /\ \A i \in 1 .. Len(x) - n : ws[i] = vs[n + i]
  <2>1. PICK m \in Nat : m = Len(x)
    BY <1>1
  <2>2. ws = SubSeq(vs, n + 1, m) /\ n <= m /\ Len(vs) = m
    BY <1>1, <2>1
  <2>3. SubSeq(vs, n + 1, m) \in Seq(S) /\ Len(SubSeq(vs, n + 1, m)) = m - n
    BY <1>3, <2>2
  <2>4. \A i \in 1 .. m - n : SubSeq(vs, n + 1, m)[i] = vs[n + i]
    BY <1>3, <2>2
  <2> QED
    BY <2>1, <2>2, <2>3, <2>4
<1> HIDE DEF ws, y
<1>5. IsSeq(ws) /\ DOMAIN ws = 1 .. Len(x) - n
  BY <1>4 DEF IsSeq
<1>6. \A i \in 1 .. Len(x) - n : Is(ws[i], y[i])
  <2> SUFFICES ASSUME NEW i \in 1 .. Len(x) - n PROVE Is(ws[i], y[i])
    OBVIOUS
  <2>1. n + i \in 1 .. Len(x)
    BY <1>1
  <2> QED
    BY <2>1, <1>1, <1>2, <1>4
<1>7. Fits(ws, y)
  BY <1>2, <1>4, <1>5, <1>6 DEF Fits
<1> QED
  BY <1>7 DEF ws, y

-----------------------------------------------------------------------------
\* Steps one after another.
LEMMA LeadsOn ==
  ASSUME NEW t, NEW x, NEW y, Leads(t, x, y), t # << >>
  PROVE  /\ \E z \in Stack : Step(t[1], x, z) /\ Leads(Tail(t), z, y)
         /\ t[1].do = "operand" => Tail(t) # << >> /\ OperandNode(Tail(t)[1])
<1>1. /\ Len(t) \in Nat /\ Len(t) > 0 /\ DOMAIN t = 1 .. Len(t) /\ IsSeq(Tail(t))
      /\ Len(Tail(t)) = Len(t) - 1 /\ \A i \in 1 .. Len(t) - 1 : Tail(t)[i] = t[i + 1]
  BY SeqFacts DEF Leads
<1>2. PICK path \in [1 .. Len(t) + 1 -> Stack] :
          /\ path[1] = x /\ path[Len(t) + 1] = y
          /\ \A i \in 1 .. Len(t) : Step(t[i], path[i], path[i + 1])
  BY DEF Leads
<1> DEFINE p == [i \in 1 .. Len(t) |-> path[i + 1]]
           z == path[2]
<1>3. z \in Stack /\ Step(t[1], x, z)
  BY <1>1, <1>2
<1>4. p \in [1 .. (Len(t) - 1) + 1 -> Stack] /\ p[1] = z /\ p[(Len(t) - 1) + 1] = y
  BY <1>1, <1>2
<1>5. \A i \in 1 .. Len(t) - 1 : Step(t[i + 1], p[i], p[i + 1])
  BY <1>1, <1>2
<1>6. y \in Stack /\ OperandsHaveNodes(t)
  BY DEF Leads
<1> HIDE DEF p, z
<1>7. OperandsHaveNodes(Tail(t))
  <2> SUFFICES ASSUME NEW i \in 1 .. Len(t) - 1, t[i + 1].do = "operand"
               PROVE  i < Len(t) - 1 /\ OperandNode(Tail(t)[i + 1])
    BY <1>1 DEF OperandsHaveNodes
  <2>1. i + 1 \in 1 .. Len(t)
    BY <1>1
  <2>2. i + 1 < Len(t) /\ OperandNode(t[(i + 1) + 1])
    BY <1>6, <2>1 DEF OperandsHaveNodes
  <2>3. i + 1 \in 1 .. Len(t) - 1
    BY <2>2, <1>1
  <2> QED
    BY <2>2, <2>3, <1>1
<1>8. t[1].do = "operand" => Tail(t) # << >> /\ OperandNode(Tail(t)[1])
  <2> SUFFICES ASSUME t[1].do = "operand" PROVE Tail(t) # << >> /\ OperandNode(Tail(t)[1])
    OBVIOUS
  <2>1. 1 < Len(t) /\ OperandNode(t[1 + 1])
    BY <1>1, <1>6 DEF OperandsHaveNodes
  <2>2. Tail(t)[1] = t[1 + 1] /\ Len(Tail(t)) # 0
    BY <2>1, <1>1
  <2>3. Tail(t) # << >>
    <3>1. Len(<< >>) = 0
      OBVIOUS
    <3> QED
      BY <2>2, <3>1, Zenon
  <2>4. OperandNode(Tail(t)[1])
    BY <2>1, <2>2
  <2> QED
    BY <2>3, <2>4
<1>9. Leads(Tail(t), z, y)
  BY <1>1, <1>3, <1>4, <1>5, <1>6, <1>7 DEF Leads
<1> QED
  BY <1>3, <1>8, <1>9

LEMMA LeadsNone == ASSUME NEW x \in Stack PROVE Leads(<< >>, x, x)
<1>1. << >> \in Seq({}) /\ Len(<< >>) = 0
  OBVIOUS
<1>2. PICK path : path = [i \in 1 .. 0 + 1 |-> x]
  OBVIOUS
<1>3. path \in [1 .. 0 + 1 -> Stack] /\ path[1] = x /\ path[0 + 1] = x
  BY <1>2
<1>4. OperandsHaveNodes(<< >>)
  BY <1>1 DEF OperandsHaveNodes
<1> QED
  BY <1>1, <1>3, <1>4 DEF Leads, IsSeq

LEMMA LeadsFrom ==
  ASSUME NEW t, IsSeq(t), t # << >>, NEW x \in Stack, NEW z, NEW y, Step(t[1], x, z), Leads(Tail(t), z, y),
         t[1].do = "operand" => Tail(t) # << >> /\ OperandNode(Tail(t)[1])
  PROVE  Leads(t, x, y)
<1> DEFINE u == Tail(t)
           n == Len(u)
<1>1. IsSeq(u) /\ n \in Nat /\ y \in Stack /\ OperandsHaveNodes(u)
  BY SeqFacts DEF Leads
<1>3. Len(t) = 1 + n /\ \A i \in 1 .. n : t[1 + i] = u[i]
  <2>1. Len(t) \in Nat /\ Len(u) = Len(t) - 1 /\ \A i \in 1 .. Len(t) - 1 : u[i] = t[i + 1]
    BY SeqFacts
  <2> QED
    BY <2>1
<1>4. PICK path \in [1 .. n + 1 -> Stack] :
          /\ path[1] = z /\ path[n + 1] = y
          /\ \A i \in 1 .. n : Step(u[i], path[i], path[i + 1])
  BY DEF Leads
<1>10. u # << >> => n > 0
  BY <1>1, SeqFacts
<1>11. t[1].do = "operand" => u # << >> /\ OperandNode(u[1])
  OBVIOUS
<1>12. \A i \in 1 .. n : u[i].do = "operand" => i < n /\ OperandNode(u[i + 1])
  BY <1>1 DEF OperandsHaveNodes
<1> HIDE DEF u, n
<1> DEFINE p == [i \in 1 .. (1 + n) + 1 |-> IF i = 1 THEN x ELSE path[i - 1]]
<1>5. \A i \in 1 .. (1 + n) + 1 : i # 1 => i - 1 \in 1 .. n + 1
  BY <1>1
<1>6. p \in [1 .. (1 + n) + 1 -> Stack] /\ p[1] = x /\ p[(1 + n) + 1] = y
  BY <1>1, <1>4, <1>5
<1>7. ASSUME NEW i \in 1 .. 1 + n PROVE Step(t[i], p[i], p[i + 1])
  <2>1. p[i + 1] = path[i]
    BY <1>1
  <2>2. CASE i = 1
    BY <2>1, <2>2, <1>3, <1>4, <1>6
  <2>3. CASE i # 1
    <3>1. i - 1 \in 1 .. n /\ 1 + (i - 1) = i /\ (i - 1) + 1 = i
      BY <2>3, <1>1
    <3>2. p[i] = path[i - 1]
      BY <2>3, <1>1
    <3>3. t[i] = u[i - 1]
      BY <3>1, <1>3
    <3> QED
      BY <3>1, <3>2, <3>3, <2>1, <1>4
  <2> QED
    BY <2>2, <2>3
<1> HIDE DEF p
<1>8. ASSUME NEW i \in 1 .. 1 + n, t[i].do = "operand" PROVE i < 1 + n /\ OperandNode(t[i + 1])
  <2>1. CASE i = 1
    <3>1. n > 0 /\ OperandNode(u[1])
      BY <2>1, <1>8, <1>10, <1>11
    <3>2. t[1 + 1] = u[1]
      BY <3>1, <1>1, <1>3
    <3> QED
      BY <3>1, <3>2, <2>1, <1>1
  <2>2. CASE i # 1
    <3>1. i - 1 \in 1 .. n /\ 1 + (i - 1) = i
      BY <2>2, <1>1
    <3>2. t[i] = u[i - 1]
      BY <3>1, <1>3
    <3>3. i - 1 < n /\ OperandNode(u[(i - 1) + 1])
      BY <3>1, <3>2, <1>8, <1>12
    <3>4. i \in 1 .. n /\ (i - 1) + 1 = i /\ 1 + i = i + 1
      BY <3>1, <3>3, <1>1
    <3>5. t[1 + i] = u[i]
      BY <3>4, <1>3
    <3> QED
      BY <3>3, <3>4, <3>5, <1>1
  <2> QED
    BY <2>1, <2>2
<1>9. OperandsHaveNodes(t)
  BY <1>3, <1>8 DEF OperandsHaveNodes
<1> QED
  BY <1>1, <1>3, <1>6, <1>7, <1>9 DEF Leads

\* One list of steps after another.
LEMMA LeadsConcat ==
  ASSUME NEW s, NEW u, NEW x, NEW z, NEW y, Leads(s, x, z), Leads(u, z, y)
  PROVE  Leads(s \o u, x, y)
<1> DEFINE t == s \o u
           m == Len(s)
           n == Len(u)
<1>1. IsSeq(s) /\ IsSeq(u) /\ m \in Nat /\ n \in Nat /\ x \in Stack /\ y \in Stack
  BY SeqFacts DEF Leads
<1>2. /\ \A i \in 1 .. m : s[i].do = "operand" => i < m /\ OperandNode(s[i + 1])
      /\ \A i \in 1 .. n : u[i].do = "operand" => i < n /\ OperandNode(u[i + 1])
  BY DEF Leads, OperandsHaveNodes
<1>3. /\ IsSeq(t) /\ Len(t) = m + n
      /\ \A i \in 1 .. m : t[i] = s[i]
      /\ \A i \in 1 .. n : t[m + i] = u[i]
  BY <1>1, ConcatFacts
<1>4. PICK f \in [1 .. m + 1 -> Stack] :
          /\ f[1] = x /\ f[m + 1] = z
          /\ \A i \in 1 .. m : Step(s[i], f[i], f[i + 1])
  BY DEF Leads
<1>5. PICK g \in [1 .. n + 1 -> Stack] :
          /\ g[1] = z /\ g[n + 1] = y
          /\ \A i \in 1 .. n : Step(u[i], g[i], g[i + 1])
  BY DEF Leads
<1> HIDE DEF t, m, n
<1> DEFINE p == [i \in 1 .. (m + n) + 1 |-> IF i <= m THEN f[i] ELSE g[i - m]]
<1>6. \A i \in 1 .. (m + n) + 1 : IF i <= m THEN i \in 1 .. m + 1 ELSE i - m \in 1 .. n + 1
  BY <1>1
<1>7. p \in [1 .. (m + n) + 1 -> Stack]
  BY <1>6
<1>8. p[1] = x /\ p[(m + n) + 1] = y
  BY <1>1, <1>4, <1>5
<1>9. ASSUME NEW i \in 1 .. m + n PROVE Step(t[i], p[i], p[i + 1])
  <2>1. CASE i < m
    <3>1. i \in 1 .. m /\ p[i] = f[i] /\ p[i + 1] = f[i + 1]
      BY <2>1, <1>1
    <3> QED
      BY <3>1, <1>3, <1>4
  <2>2. CASE i = m
    <3>1. i \in 1 .. m /\ p[i] = f[i] /\ p[i + 1] = g[1]
      BY <2>2, <1>1
    <3> QED
      BY <3>1, <2>2, <1>3, <1>4, <1>5
  <2>3. CASE i > m
    <3>1. i - m \in 1 .. n /\ p[i] = g[i - m] /\ p[i + 1] = g[(i - m) + 1] /\ m + (i - m) = i
      BY <2>3, <1>1
    <3> QED
      BY <3>1, <1>3, <1>5
  <2> QED
    BY <2>1, <2>2, <2>3, <1>1
<1> HIDE DEF p
<1>10. ASSUME NEW i \in 1 .. m + n, t[i].do = "operand" PROVE i < m + n /\ OperandNode(t[i + 1])
  <2>1. CASE i <= m
    <3>1. i \in 1 .. m /\ t[i] = s[i]
      BY <2>1, <1>1, <1>3
    <3>2. i < m /\ OperandNode(s[i + 1])
      BY <3>1, <1>2, <1>10
    <3>3. i + 1 \in 1 .. m
      BY <3>1, <3>2, <1>1
    <3> QED
      BY <3>2, <3>3, <1>1, <1>3
  <2>2. CASE i > m
    <3>1. i - m \in 1 .. n /\ m + (i - m) = i
      BY <2>2, <1>1
    <3>2. t[i] = u[i - m]
      BY <3>1, <1>3
    <3>3. i - m < n /\ OperandNode(u[(i - m) + 1])
      BY <3>1, <3>2, <1>2, <1>10
    <3>4. (i - m) + 1 \in 1 .. n /\ m + ((i - m) + 1) = i + 1
      BY <3>1, <3>3, <1>1
    <3> QED
      BY <3>3, <3>4, <1>1, <1>3
  <2> QED
    BY <2>1, <2>2, <1>1
<1>11. OperandsHaveNodes(t)
  BY <1>3, <1>10 DEF OperandsHaveNodes
<1>12. Leads(t, x, y)
  BY <1>1, <1>3, <1>7, <1>8, <1>9, <1>11 DEF Leads
<1> QED
  BY <1>12 DEF t

-----------------------------------------------------------------------------
\* A step leaves trees on a stack of trees.
LEMMA StepStack ==
  ASSUME NEW x \in Stack, NEW s, NEW y, Step(s, x, y)
  PROVE  y \in Stack
<1>1. \A ty \in TreeType, r \in Stack : On(ty, r) \in Stack
  BY OnStack
<1>2. {"any", "node", "decl", "specs", "declarator", "list", "unit"} \subseteq TreeType
  BY DEF TreeType
<1>3. CASE s.do = "make"
  <2>1. PICK t \in {"any", "node"} : y = On(t, Below(x, s.n)) /\ s.n \in Nat /\ s.n <= Len(x)
    BY <1>3 DEF Step
  <2>2. Below(x, s.n) \in Stack
    BY <2>1, BelowStack
  <2> QED
    BY <2>1, <2>2, <1>1, <1>2
<1>4. CASE s.do # "make"
  <2>1. y = x \/ \E r \in Stack, ty \in {"any", "node", "decl", "specs", "declarator", "list", "unit"} : y = On(ty, r)
    BY <1>4 DEF Step
  <2> QED
    BY <2>1, <1>1, <1>2
<1> QED
  BY <1>3, <1>4

\* Lists of steps.
LEMMA Leads1 ==
  ASSUME NEW x \in Stack, NEW a, NEW x1,
         Step(a, x, x1),
         a.do # "operand"
  PROVE  Leads(<< a >>, x, x1)
<1>1. x1 \in Stack
  BY StepStack
<1>2. Leads(<< >>, x1, x1)
  BY <1>1, LeadsNone
<1>3. PICK t : t = << a >>
  OBVIOUS
<1>4. t \in Seq({a}) /\ t # << >> /\ t[1] = a /\ Tail(t) = << >>
  BY <1>3
<1>5. IsSeq(t)
  BY <1>4 DEF IsSeq
<1>6. Leads(t, x, x1)
  BY <1>2, <1>4, <1>5, LeadsFrom
<1> QED
  BY <1>3, <1>6

LEMMA Leads2 ==
  ASSUME NEW x \in Stack, NEW a, NEW b, NEW x1, NEW x2,
         Step(a, x, x1), Step(b, x1, x2),
         a.do # "operand", b.do # "operand"
  PROVE  Leads(<< a, b >>, x, x2)
<1>1. x1 \in Stack
  BY StepStack
<1>2. Leads(<< b >>, x1, x2)
  BY <1>1, Leads1
<1>3. PICK t : t = << a, b >>
  OBVIOUS
<1>4. t \in Seq({a, b}) /\ t # << >> /\ t[1] = a /\ Tail(t) = << b >>
  BY <1>3
<1>5. IsSeq(t)
  BY <1>4 DEF IsSeq
<1>6. Leads(t, x, x2)
  BY <1>2, <1>4, <1>5, LeadsFrom
<1> QED
  BY <1>3, <1>6

LEMMA Leads3 ==
  ASSUME NEW x \in Stack, NEW a, NEW b, NEW c, NEW x1, NEW x2, NEW x3,
         Step(a, x, x1), Step(b, x1, x2), Step(c, x2, x3),
         a.do # "operand", b.do # "operand", c.do # "operand"
  PROVE  Leads(<< a, b, c >>, x, x3)
<1>1. x1 \in Stack
  BY StepStack
<1>2. Leads(<< b, c >>, x1, x3)
  BY <1>1, Leads2
<1>3. PICK t : t = << a, b, c >>
  OBVIOUS
<1>4. t \in Seq({a, b, c}) /\ t # << >> /\ t[1] = a /\ Tail(t) = << b, c >>
  BY <1>3
<1>5. IsSeq(t)
  BY <1>4 DEF IsSeq
<1>6. Leads(t, x, x3)
  BY <1>2, <1>4, <1>5, LeadsFrom
<1> QED
  BY <1>3, <1>6

LEMMA Leads4 ==
  ASSUME NEW x \in Stack, NEW a, NEW b, NEW c, NEW d, NEW x1, NEW x2, NEW x3, NEW x4,
         Step(a, x, x1), Step(b, x1, x2), Step(c, x2, x3), Step(d, x3, x4),
         a.do # "operand", b.do # "operand", c.do # "operand", d.do # "operand"
  PROVE  Leads(<< a, b, c, d >>, x, x4)
<1>1. x1 \in Stack
  BY StepStack
<1>2. Leads(<< b, c, d >>, x1, x4)
  BY <1>1, Leads3
<1>3. PICK t : t = << a, b, c, d >>
  OBVIOUS
<1>4. t \in Seq({a, b, c, d}) /\ t # << >> /\ t[1] = a /\ Tail(t) = << b, c, d >>
  BY <1>3
<1>5. IsSeq(t)
  BY <1>4 DEF IsSeq
<1>6. Leads(t, x, x4)
  BY <1>2, <1>4, <1>5, LeadsFrom
<1> QED
  BY <1>3, <1>6

LEMMA Leads5 ==
  ASSUME NEW x \in Stack, NEW a, NEW b, NEW c, NEW d, NEW e, NEW x1, NEW x2, NEW x3, NEW x4, NEW x5,
         Step(a, x, x1), Step(b, x1, x2), Step(c, x2, x3), Step(d, x3, x4), Step(e, x4, x5),
         a.do # "operand", b.do # "operand", c.do # "operand", d.do # "operand", e.do # "operand"
  PROVE  Leads(<< a, b, c, d, e >>, x, x5)
<1>1. x1 \in Stack
  BY StepStack
<1>2. Leads(<< b, c, d, e >>, x1, x5)
  BY <1>1, Leads4
<1>3. PICK t : t = << a, b, c, d, e >>
  OBVIOUS
<1>4. t \in Seq({a, b, c, d, e}) /\ t # << >> /\ t[1] = a /\ Tail(t) = << b, c, d, e >>
  BY <1>3
<1>5. IsSeq(t)
  BY <1>4 DEF IsSeq
<1>6. Leads(t, x, x5)
  BY <1>2, <1>4, <1>5, LeadsFrom
<1> QED
  BY <1>3, <1>6

LEMMA Leads6 ==
  ASSUME NEW x \in Stack, NEW a, NEW b, NEW c, NEW d, NEW e, NEW f, NEW x1, NEW x2, NEW x3, NEW x4, NEW x5, NEW x6,
         Step(a, x, x1), Step(b, x1, x2), Step(c, x2, x3), Step(d, x3, x4), Step(e, x4, x5), Step(f, x5, x6),
         a.do # "operand", b.do # "operand", c.do # "operand", d.do # "operand", e.do # "operand", f.do # "operand"
  PROVE  Leads(<< a, b, c, d, e, f >>, x, x6)
<1>1. x1 \in Stack
  BY StepStack
<1>2. Leads(<< b, c, d, e, f >>, x1, x6)
  BY <1>1, Leads5
<1>3. PICK t : t = << a, b, c, d, e, f >>
  OBVIOUS
<1>4. t \in Seq({a, b, c, d, e, f}) /\ t # << >> /\ t[1] = a /\ Tail(t) = << b, c, d, e, f >>
  BY <1>3
<1>5. IsSeq(t)
  BY <1>4 DEF IsSeq
<1>6. Leads(t, x, x6)
  BY <1>2, <1>4, <1>5, LeadsFrom
<1> QED
  BY <1>3, <1>6

LEMMA Leads7 ==
  ASSUME NEW x \in Stack, NEW a, NEW b, NEW c, NEW d, NEW e, NEW f, NEW g, NEW x1, NEW x2, NEW x3, NEW x4, NEW x5, NEW x6, NEW x7,
         Step(a, x, x1), Step(b, x1, x2), Step(c, x2, x3), Step(d, x3, x4), Step(e, x4, x5), Step(f, x5, x6), Step(g, x6, x7),
         a.do # "operand", b.do # "operand", c.do # "operand", d.do # "operand", e.do # "operand", f.do # "operand", g.do # "operand"
  PROVE  Leads(<< a, b, c, d, e, f, g >>, x, x7)
<1>1. x1 \in Stack
  BY StepStack
<1>2. Leads(<< b, c, d, e, f, g >>, x1, x7)
  BY <1>1, Leads6
<1>3. PICK t : t = << a, b, c, d, e, f, g >>
  OBVIOUS
<1>4. t \in Seq({a, b, c, d, e, f, g}) /\ t # << >> /\ t[1] = a /\ Tail(t) = << b, c, d, e, f, g >>
  BY <1>3
<1>5. IsSeq(t)
  BY <1>4 DEF IsSeq
<1>6. Leads(t, x, x7)
  BY <1>2, <1>4, <1>5, LeadsFrom
<1> QED
  BY <1>3, <1>6

LEMMA Leads8 ==
  ASSUME NEW x \in Stack, NEW a, NEW b, NEW c, NEW d, NEW e, NEW f, NEW g, NEW h, NEW x1, NEW x2, NEW x3, NEW x4, NEW x5, NEW x6, NEW x7, NEW x8,
         Step(a, x, x1), Step(b, x1, x2), Step(c, x2, x3), Step(d, x3, x4), Step(e, x4, x5), Step(f, x5, x6), Step(g, x6, x7), Step(h, x7, x8),
         a.do # "operand", b.do # "operand", c.do # "operand", d.do # "operand", e.do # "operand", f.do # "operand", g.do # "operand", h.do # "operand"
  PROVE  Leads(<< a, b, c, d, e, f, g, h >>, x, x8)
<1>1. x1 \in Stack
  BY StepStack
<1>2. Leads(<< b, c, d, e, f, g, h >>, x1, x8)
  BY <1>1, Leads7
<1>3. PICK t : t = << a, b, c, d, e, f, g, h >>
  OBVIOUS
<1>4. t \in Seq({a, b, c, d, e, f, g, h}) /\ t # << >> /\ t[1] = a /\ Tail(t) = << b, c, d, e, f, g, h >>
  BY <1>3
<1>5. IsSeq(t)
  BY <1>4 DEF IsSeq
<1>6. Leads(t, x, x8)
  BY <1>2, <1>4, <1>5, LeadsFrom
<1> QED
  BY <1>3, <1>6

\* The same with an operand and its node at the end.
LEMMA LeadsOperand ==
  ASSUME NEW x \in Stack, NEW a, NEW b, NEW x1, NEW x2, Step(a, x, x1), Step(b, x1, x2),
         a.do = "operand", OperandNode(b)
  PROVE  Leads(<< a, b >>, x, x2)
<1>1. x1 \in Stack /\ b.do # "operand"
  BY StepStack DEF OperandNode
<1>2. Leads(<< b >>, x1, x2)
  BY <1>1, Leads1
<1>3. PICK t : t = << a, b >>
  OBVIOUS
<1>4. t \in Seq({a, b}) /\ t # << >> /\ t[1] = a /\ Tail(t) = << b >>
  BY <1>3
<1>5. IsSeq(t) /\ Tail(t) # << >> /\ Tail(t)[1] = b
  <2>1. IsSeq(t)
    BY <1>4 DEF IsSeq
  <2>2. << b >> # << >> /\ << b >>[1] = b
    OBVIOUS
  <2>3. Tail(t) = << b >>
    BY <1>4
  <2> QED
    BY <2>1, <2>2, <2>3, Zenon
<1>6. Leads(t, x, x2)
  BY <1>2, <1>4, <1>5, LeadsFrom
<1> QED
  BY <1>3, <1>6

LEMMA LeadsOperand3 ==
  ASSUME NEW x \in Stack, NEW a, NEW b, NEW c, NEW x1, NEW x2, NEW x3,
         Step(a, x, x1), Step(b, x1, x2), Step(c, x2, x3),
         a.do # "operand", b.do = "operand", OperandNode(c)
  PROVE  Leads(<< a, b, c >>, x, x3)
<1>1. x1 \in Stack
  BY StepStack
<1>2. Leads(<< b, c >>, x1, x3)
  BY <1>1, LeadsOperand
<1>3. Leads(<< a, b, c >>, x, x3)
  <2>1. PICK t : t = << a, b, c >>
    OBVIOUS
  <2>2. t \in Seq({a, b, c}) /\ t # << >> /\ t[1] = a /\ Tail(t) = << b, c >>
    BY <2>1
  <2>3. IsSeq(t)
    BY <2>2 DEF IsSeq
  <2>4. Leads(t, x, x3)
    BY <1>1, <1>2, <2>2, <2>3, LeadsFrom
  <2> QED
    BY <2>1, <2>4
<1> QED
  BY <1>3

LEMMA LeadsOperand4 ==
  ASSUME NEW x \in Stack, NEW a, NEW b, NEW c, NEW d, NEW x1, NEW x2, NEW x3, NEW x4,
         Step(a, x, x1), Step(b, x1, x2), Step(c, x2, x3), Step(d, x3, x4),
         a.do # "operand", b.do # "operand", c.do = "operand", OperandNode(d)
  PROVE  Leads(<< a, b, c, d >>, x, x4)
<1>1. x1 \in Stack /\ x2 \in Stack
  BY StepStack
<1>2. Leads(<< c, d >>, x2, x4)
  BY <1>1, LeadsOperand
<1>3. Leads(<< b, c, d >>, x1, x4)
  <2>1. PICK t : t = << b, c, d >>
    OBVIOUS
  <2>2. t \in Seq({b, c, d}) /\ t # << >> /\ t[1] = b /\ Tail(t) = << c, d >>
    BY <2>1
  <2>3. IsSeq(t)
    BY <2>2 DEF IsSeq
  <2>4. Leads(t, x1, x4)
    BY <1>1, <1>2, <2>2, <2>3, LeadsFrom
  <2> QED
    BY <2>1, <2>4
<1>4. Leads(<< a, b, c, d >>, x, x4)
  <2>1. PICK t : t = << a, b, c, d >>
    OBVIOUS
  <2>2. t \in Seq({a, b, c, d}) /\ t # << >> /\ t[1] = a /\ Tail(t) = << b, c, d >>
    BY <2>1
  <2>3. IsSeq(t)
    BY <2>2 DEF IsSeq
  <2>4. Leads(t, x, x4)
    BY <1>1, <1>3, <2>2, <2>3, LeadsFrom
  <2> QED
    BY <2>1, <2>4
<1> QED
  BY <1>4

LEMMA LeadsOperand6 ==
  ASSUME NEW x \in Stack, NEW a, NEW b, NEW c, NEW d, NEW e, NEW f, NEW x1, NEW x2, NEW x3, NEW x4, NEW x5, NEW x6,
         Step(a, x, x1), Step(b, x1, x2), Step(c, x2, x3), Step(d, x3, x4), Step(e, x4, x5), Step(f, x5, x6),
         a.do # "operand", b.do # "operand", c.do # "operand", d.do # "operand", e.do = "operand", OperandNode(f)
  PROVE  Leads(<< a, b, c, d, e, f >>, x, x6)
<1>1. x1 \in Stack /\ x2 \in Stack /\ x3 \in Stack /\ x4 \in Stack
  BY StepStack
<1>2. Leads(<< e, f >>, x4, x6)
  BY <1>1, LeadsOperand
<1>3. Leads(<< d, e, f >>, x3, x6)
  <2>1. PICK t : t = << d, e, f >>
    OBVIOUS
  <2>2. t \in Seq({d, e, f}) /\ t # << >> /\ t[1] = d /\ Tail(t) = << e, f >>
    BY <2>1
  <2>3. IsSeq(t)
    BY <2>2 DEF IsSeq
  <2>4. Leads(t, x3, x6)
    BY <1>1, <1>2, <2>2, <2>3, LeadsFrom
  <2> QED
    BY <2>1, <2>4
<1>4. Leads(<< c, d, e, f >>, x2, x6)
  <2>1. PICK t : t = << c, d, e, f >>
    OBVIOUS
  <2>2. t \in Seq({c, d, e, f}) /\ t # << >> /\ t[1] = c /\ Tail(t) = << d, e, f >>
    BY <2>1
  <2>3. IsSeq(t)
    BY <2>2 DEF IsSeq
  <2>4. Leads(t, x2, x6)
    BY <1>1, <1>3, <2>2, <2>3, LeadsFrom
  <2> QED
    BY <2>1, <2>4
<1>5. Leads(<< b, c, d, e, f >>, x1, x6)
  <2>1. PICK t : t = << b, c, d, e, f >>
    OBVIOUS
  <2>2. t \in Seq({b, c, d, e, f}) /\ t # << >> /\ t[1] = b /\ Tail(t) = << c, d, e, f >>
    BY <2>1
  <2>3. IsSeq(t)
    BY <2>2 DEF IsSeq
  <2>4. Leads(t, x1, x6)
    BY <1>1, <1>4, <2>2, <2>3, LeadsFrom
  <2> QED
    BY <2>1, <2>4
<1>6. Leads(<< a, b, c, d, e, f >>, x, x6)
  <2>1. PICK t : t = << a, b, c, d, e, f >>
    OBVIOUS
  <2>2. t \in Seq({a, b, c, d, e, f}) /\ t # << >> /\ t[1] = a /\ Tail(t) = << b, c, d, e, f >>
    BY <2>1
  <2>3. IsSeq(t)
    BY <2>2 DEF IsSeq
  <2>4. Leads(t, x, x6)
    BY <1>1, <1>5, <2>2, <2>3, LeadsFrom
  <2> QED
    BY <2>1, <2>4
<1> QED
  BY <1>6

-----------------------------------------------------------------------------
\* What each step does with the trees.
LEMMA TreeTypes ==
  /\ {"any", "node", "list", "block", "unit", "decl", "specs", "declarator"} \subseteq TreeType
BY DEF TreeType

LEMMA StepKinds ==
  ASSUME NEW x
  PROVE  /\ Step(Do("advance"), x, x) /\ \A k : Step(Take(k), x, x)
         /\ \A k : /\ Step(Expression(k), x, On("any", x)) /\ Step(Unless(k), x, On("any", x))
                   /\ Step(Condition, x, On("any", x))
         /\ \A w \in {"grouping", "forinit", "statement"} : Step(Do(w), x, On("any", x))
         /\ \A t \in {"any", "node"} : Step(Do("block"), x, On(t, x))
         /\ \A k : \A t \in {"any", "node", "decl"} : Step(Declaration(k), x, On(t, x))
         /\ \A k, l : /\ Step(Specs(k, l), x, On("specs", x))
                      /\ Step(Declarator(k, l), x, On("declarator", x))
<1>1. Step(Do("advance"), x, x) /\ \A k : Step(Take(k), x, x)
  BY DEF Step, Do, Take, Expression, Unless, Condition, Declaration, Specs, Declarator
<1>2. \A k : Step(Expression(k), x, On("any", x))
  BY DEF Step, Do, Take, Expression, Unless, Condition, Declaration, Specs, Declarator
<1>3. \A k : Step(Unless(k), x, On("any", x))
  BY DEF Step, Do, Take, Expression, Unless, Condition, Declaration, Specs, Declarator
<1>4. Step(Condition, x, On("any", x))
  BY DEF Step, Do, Take, Expression, Unless, Condition, Declaration, Specs, Declarator
<1>5. \A w \in {"grouping", "forinit", "statement"} : Step(Do(w), x, On("any", x))
  BY DEF Step, Do, Take, Expression, Unless, Condition, Declaration, Specs, Declarator
<1>6. \A t \in {"any", "node"} : Step(Do("block"), x, On(t, x))
  BY DEF Step, Do, Take, Expression, Unless, Condition, Declaration, Specs, Declarator
<1>7. \A k : \A t \in {"any", "node", "decl"} : Step(Declaration(k), x, On(t, x))
  BY DEF Step, Do, Take, Expression, Unless, Condition, Declaration, Specs, Declarator
<1>8. \A k, l : Step(Specs(k, l), x, On("specs", x))
  BY DEF Step, Do, Take, Expression, Unless, Condition, Declaration, Specs, Declarator
<1>9. \A k, l : Step(Declarator(k, l), x, On("declarator", x))
  BY DEF Step, Do, Take, Expression, Unless, Condition, Declaration, Specs, Declarator
<1> QED
  BY <1>1, <1>2, <1>3, <1>4, <1>5, <1>6, <1>7, <1>8, <1>9

LEMMA StepsOverTrees ==
  ASSUME NEW r \in Stack
  PROVE  /\ \A k : Step(Infix(k), On("any", r), On("any", r))
         /\ \A w \in {"operand", "arguments"} : Step(Do(w), On("any", r), On("any", r))
         /\ Step(Do("colon"), On("any", On("any", r)), On("any", r))
         /\ Step(Do("argument"), On("any", On("list", On("any", r))), On("any", r))
         /\ \A t \in {"any", "node"} : /\ Step(Do("else"), On("any", On("any", r)), On(t, r))
                                       /\ Step(Do("item"), On("block", r), On(t, r))
         /\ Step(Do("unit"), On("unit", r), On("unit", r))
         /\ Step(Do("concat"), On("decl", On("unit", r)), On("unit", r))
         /\ Step(Do("typename"), On("specs", r), On("any", r))
         /\ Step(Do("parameters"), On("list", r), On("list", r))
         /\ Step(Do("parameter"), On("specs", r), On("declarator", r))
         /\ Step(Do("nextparameter"), On("declarator", On("list", r)), On("list", r))
         /\ Step(Do("init"), On("declarator", r), On("declarator", r))
         /\ Step(Do("initializer"), On("any", On("declarator", r)), On("declarator", r))
         /\ \A t \in {"any", "node", "decl"} :
               /\ Step(Do("define"), On("any", On("declarator", On("specs", r))), On(t, r))
               /\ Step(Do("declarators"), On("list", On("specs", r)), On(t, r))
               /\ Step(Do("nextdeclarator"), On("declarator", On("list", On("specs", r))), On(t, r))
<1>1. \A k : Step(Infix(k), On("any", r), On("any", r))
  BY DEF Step, Do, Infix
<1>2. \A w \in {"operand", "arguments"} : Step(Do(w), On("any", r), On("any", r))
  BY DEF Step, Do, Infix
<1>3. Step(Do("colon"), On("any", On("any", r)), On("any", r))
  BY DEF Step, Do, Infix
<1>4. Step(Do("argument"), On("any", On("list", On("any", r))), On("any", r))
  BY DEF Step, Do, Infix
<1>5. \A t \in {"any", "node"} : Step(Do("else"), On("any", On("any", r)), On(t, r))
  BY DEF Step, Do, Infix
<1>6. \A t \in {"any", "node"} : Step(Do("item"), On("block", r), On(t, r))
  BY DEF Step, Do, Infix
<1>7. Step(Do("unit"), On("unit", r), On("unit", r))
  BY DEF Step, Do, Infix
<1>8. Step(Do("concat"), On("decl", On("unit", r)), On("unit", r))
  BY DEF Step, Do, Infix
<1>9. Step(Do("typename"), On("specs", r), On("any", r))
  BY DEF Step, Do, Infix
<1>10. Step(Do("parameters"), On("list", r), On("list", r))
  BY DEF Step, Do, Infix
<1>11. Step(Do("parameter"), On("specs", r), On("declarator", r))
  BY DEF Step, Do, Infix
<1>12. Step(Do("nextparameter"), On("declarator", On("list", r)), On("list", r))
  BY DEF Step, Do, Infix
<1>13. Step(Do("init"), On("declarator", r), On("declarator", r))
  BY DEF Step, Do, Infix
<1>14. Step(Do("initializer"), On("any", On("declarator", r)), On("declarator", r))
  BY DEF Step, Do, Infix
<1>15. \A t \in {"any", "node", "decl"} : Step(Do("define"), On("any", On("declarator", On("specs", r))), On(t, r))
  BY DEF Step, Do, Infix
<1>16. \A t \in {"any", "node", "decl"} : Step(Do("declarators"), On("list", On("specs", r)), On(t, r))
  BY DEF Step, Do, Infix
<1>17. \A t \in {"any", "node", "decl"} : Step(Do("nextdeclarator"), On("declarator", On("list", On("specs", r))), On(t, r))
  BY DEF Step, Do, Infix
<1> QED
  BY <1>1, <1>2, <1>3, <1>4, <1>5, <1>6, <1>7, <1>8, <1>9, <1>10, <1>11, <1>12, <1>13, <1>14, <1>15, <1>16, <1>17

LEMMA KindsAreNoOperands ==
  /\ \A w : w # "operand" => Do(w).do # "operand"
  /\ \A k : /\ Take(k).do # "operand" /\ Expression(k).do # "operand" /\ Unless(k).do # "operand"
            /\ Infix(k).do # "operand" /\ Declaration(k).do # "operand" /\ Condition.do # "operand"
  /\ \A k, l : /\ Specs(k, l).do # "operand" /\ Declarator(k, l).do # "operand"
               /\ Make(k, l).do # "operand"
BY DEF Do, Take, Expression, Unless, Infix, Declaration, Condition, Specs, Declarator, Make

LEMMA TagsOfNodes ==
  ASSUME NEW k, k \notin Lists \cup {"missing"}
  PROVE  /\ Tagged(<< k >>) /\ << k >>[1] = k
         /\ \A l : Tagged(<< k, l >>) /\ << k, l >>[1] = k
<1>1. << k >> \in Seq({k}) /\ Len(<< k >>) > 0 /\ << k >>[1] = k
  OBVIOUS
<1>2. \A l : << k, l >> \in Seq({k, l}) /\ Len(<< k, l >>) > 0 /\ << k, l >>[1] = k
  OBVIOUS
<1> QED
  BY <1>1, <1>2 DEF Tagged, IsSeq

\* A node of one to four trees, or of none.
MayMake(node, t) == /\ Tagged(node) /\ t \in {"any", "node"}
                    /\ node[1] \in OperandTags => t = "any"

LEMMA MakeStep ==
  ASSUME NEW x \in Stack, NEW n \in Nat, n <= Len(x), NEW node, NEW t, MayMake(node, t),
         node[1] \in OperandTags => n > 0
  PROVE  Step(Make(node, n), x, On(t, Below(x, n)))
<1>1. Make(node, n).do = "make" /\ Make(node, n).n = n /\ Make(node, n).node = node
  BY DEF Make
<1> QED
  BY <1>1 DEF Step, MayMake, OperandNode

LEMMA Make0 ==
  ASSUME NEW x \in Stack, NEW node, NEW t, MayMake(node, t), node[1] \notin OperandTags
  PROVE  Step(Make(node, 0), x, On(t, x))
<1>1. Len(x) \in Nat
  BY DEF Stack
<1>2. Step(Make(node, 0), x, On(t, Below(x, 0)))
  BY <1>1, MakeStep
<1> QED
  BY <1>2, BelowNone

LEMMA Make1 ==
  ASSUME NEW r \in Stack, NEW a \in TreeType, NEW node, NEW t, MayMake(node, t)
  PROVE  Step(Make(node, 1), On(a, r), On(t, r))
<1>1. PICK x : x = On(a, r)
  OBVIOUS
<1>2. x \in Stack /\ Len(x) >= 1 /\ Below(x, 1) = r
  BY <1>1, Below1, OnStack
<1>3. Step(Make(node, 1), x, On(t, Below(x, 1)))
  BY <1>2, MakeStep
<1> QED
  BY <1>1, <1>2, <1>3

LEMMA Make2 ==
  ASSUME NEW r \in Stack, NEW a \in TreeType, NEW b \in TreeType, NEW node, NEW t, MayMake(node, t)
  PROVE  Step(Make(node, 2), On(a, On(b, r)), On(t, r))
<1>1. PICK x : x = On(a, On(b, r))
  OBVIOUS
<1>2. x \in Stack /\ Len(x) >= 2 /\ Below(x, 2) = r
  BY <1>1, Below2, OnStack
<1>3. Step(Make(node, 2), x, On(t, Below(x, 2)))
  BY <1>2, MakeStep
<1> QED
  BY <1>1, <1>2, <1>3

LEMMA Make3 ==
  ASSUME NEW r \in Stack, NEW a \in TreeType, NEW b \in TreeType, NEW c \in TreeType, NEW node, NEW t,
         MayMake(node, t)
  PROVE  Step(Make(node, 3), On(a, On(b, On(c, r))), On(t, r))
<1>1. PICK x : x = On(a, On(b, On(c, r)))
  OBVIOUS
<1>2. x \in Stack /\ Len(x) >= 3 /\ Below(x, 3) = r
  <2>1. PICK q1, q2 : q1 = On(c, r) /\ q2 = On(b, q1)
    OBVIOUS
  <2>2. q1 \in Stack
    BY <2>1, OnStack
  <2>3. q2 \in Stack
    BY <2>1, <2>2, OnStack
  <2>4. x \in Stack
    BY <1>1, <2>1, <2>3, OnStack
  <2> QED
    BY <1>1, <2>4, Below3
<1>3. Step(Make(node, 3), x, On(t, Below(x, 3)))
  BY <1>2, MakeStep
<1> QED
  BY <1>1, <1>2, <1>3

LEMMA Make4 ==
  ASSUME NEW r \in Stack, NEW a \in TreeType, NEW b \in TreeType, NEW c \in TreeType, NEW d \in TreeType,
         NEW node, NEW t, MayMake(node, t)
  PROVE  Step(Make(node, 4), On(a, On(b, On(c, On(d, r)))), On(t, r))
<1>1. PICK x : x = On(a, On(b, On(c, On(d, r))))
  OBVIOUS
<1>2. x \in Stack /\ Len(x) >= 4 /\ Below(x, 4) = r
  <2>1. PICK q1, q2, q3 : q1 = On(d, r) /\ q2 = On(c, q1) /\ q3 = On(b, q2)
    OBVIOUS
  <2>2. q1 \in Stack
    BY <2>1, OnStack
  <2>3. q2 \in Stack
    BY <2>1, <2>2, OnStack
  <2>4. q3 \in Stack
    BY <2>1, <2>3, OnStack
  <2>5. x \in Stack
    BY <1>1, <2>1, <2>4, OnStack
  <2>6. Below(On(a, On(b, On(c, On(d, r)))), 4) = r /\ Len(On(a, On(b, On(c, On(d, r))))) >= 4
    BY Below4
  <2> QED
    BY <1>1, <2>5, <2>6
<1>3. Step(Make(node, 4), x, On(t, Below(x, 4)))
  BY <1>2, MakeStep
<1> QED
  BY <1>1, <1>2, <1>3

-----------------------------------------------------------------------------
(* What the trees are.                                                     *)

LEMMA AnyTree ==
  ASSUME NEW v, v[1] \notin Lists
  PROVE  Is(v, "any") /\ (v[1] # "missing" => Is(v, "node"))
<1>1. Null[1] = "missing"
  BY DEF Null
<1> QED
  BY <1>1 DEF Is, Whole, Lists

LEMMA LeafTrees ==
  /\ Is(Absent, "any") /\ Is(Null, "any") /\ Is(EmptyList, "list")
  /\ \A k \in {"ident", "const"} : Is(<< k >>, "any")
  /\ Is(<< "block", << >> >>, "block") /\ Is(<< "unit", << >> >>, "unit")
<1>1. Absent[1] = "absent" /\ Null[1] = "missing"
  BY DEF Absent, Null
<1>2. WholeSeq(<< >>)
  <2>1. << >> \in Seq({}) /\ DOMAIN << >> = {}
    OBVIOUS
  <2> QED
    BY <2>1 DEF WholeSeq, IsSeq
<1>3. \A k : << k, << >> >>[1] = k /\ << k, << >> >>[2] = << >> /\ << k >>[1] = k
  OBVIOUS
<1>4. \A k \in Lists : Is(<< k, << >> >>, k)
  BY <1>2, <1>3 DEF Is, Whole, Lists
<1>5. Is(EmptyList, "list")
  BY <1>4 DEF EmptyList, Lists
<1>6. Is(Absent, "any") /\ Is(Null, "any")
  BY <1>1, AnyTree DEF Lists
<1>7. \A k \in {"ident", "const"} : Is(<< k >>, "any")
  BY <1>3, AnyTree DEF Lists
<1> QED
  BY <1>4, <1>5, <1>6, <1>7 DEF Lists

\* What is known of a tree also tells less.
LEMMA IsLess ==
  ASSUME NEW v, NEW ty
  PROVE  /\ Is(v, ty) => Is(v, "any")
         /\ Is(v, ty) /\ ty \in {"node", "block", "decl", "declarator"} => Is(v, "node") /\ v # Null
<1>1. Null[1] = "missing"
  BY DEF Null
<1> QED
  BY <1>1 DEF Is, Lists

LEMMA AppendWhole ==
  ASSUME NEW s, WholeSeq(s), NEW v, v # Null
  PROVE  WholeSeq(Append(s, v))
<1>1. PICK S : s \in Seq(S)
  BY DEF WholeSeq, IsSeq
<1> DEFINE U == S \cup {v}
           t == Append(s, v)
<1>2. s \in Seq(U) /\ v \in U
  BY <1>1
<1> HIDE DEF U
<1>3. t \in Seq(U) /\ Len(t) = Len(s) + 1 /\ Len(s) \in Nat /\ t[Len(s) + 1] = v
      /\ \A i \in 1 .. Len(s) : t[i] = s[i]
  BY <1>2
<1>4. \A i \in 1 .. Len(s) : s[i] # Null
  BY <1>1 DEF WholeSeq
<1>5. DOMAIN t = 1 .. Len(s) + 1
  BY <1>3
<1> HIDE DEF t
<1>6. \A i \in 1 .. Len(s) + 1 : i \in 1 .. Len(s) \/ i = Len(s) + 1
  BY <1>3
<1>7. \A i \in DOMAIN t : t[i] # Null
  BY <1>3, <1>4, <1>5, <1>6
<1>8. WholeSeq(t)
  BY <1>3, <1>7 DEF WholeSeq, IsSeq
<1> QED
  BY <1>8 DEF t

LEMMA ConcatWhole ==
  ASSUME NEW s, NEW t, WholeSeq(s), WholeSeq(t)
  PROVE  WholeSeq(s \o t)
<1> DEFINE u == s \o t
           m == Len(s)
           n == Len(t)
<1>1. m \in Nat /\ n \in Nat /\ DOMAIN s = 1 .. m /\ DOMAIN t = 1 .. n
  BY SeqFacts DEF WholeSeq
<1>2. IsSeq(u) /\ Len(u) = m + n
      /\ (\A i \in 1 .. m : u[i] = s[i]) /\ \A i \in 1 .. n : u[m + i] = t[i]
  BY ConcatFacts DEF WholeSeq
<1>3. (\A i \in 1 .. m : s[i] # Null) /\ \A i \in 1 .. n : t[i] # Null
  BY <1>1 DEF WholeSeq
<1> HIDE DEF u, m, n
<1>4. DOMAIN u = 1 .. m + n
  BY <1>2, SeqFacts
<1>5. ASSUME NEW i \in 1 .. m + n PROVE u[i] # Null
  <2>1. CASE i <= m
    BY <2>1, <1>1, <1>2, <1>3
  <2>2. CASE i > m
    <3>1. i - m \in 1 .. n /\ m + (i - m) = i
      BY <2>2, <1>1
    <3> QED
      BY <3>1, <1>2, <1>3
  <2> QED
    BY <2>1, <2>2, <1>1
<1>6. WholeSeq(u)
  BY <1>2, <1>4, <1>5 DEF WholeSeq
<1> QED
  BY <1>6 DEF u

LEMMA ListedTree ==
  ASSUME NEW l, NEW ty \in Lists, Is(l, ty), NEW v, v # Null
  PROVE  Is(Listed(l, v), ty) /\ Listed(l, v)[1] = ty
<1>1. l[1] = ty /\ WholeSeq(l[2])
  BY DEF Is, Whole
<1>2. WholeSeq(Append(l[2], v))
  BY <1>1, AppendWhole
<1>3. Listed(l, v)[1] = ty /\ Listed(l, v)[2] = Append(l[2], v)
  BY <1>1 DEF Listed
<1>4. ty # "node" /\ ty # "decl" /\ ty # "specs" /\ ty # "declarator"
  BY DEF Lists
<1> QED
  BY <1>2, <1>3, <1>4 DEF Is, Whole

LEMMA DeclTree ==
  ASSUME NEW l, Is(l, "list"), NEW t \in {"any", "node", "decl"}
  PROVE  Is(<< "decl", l >>, t)
<1>1. l[1] = "list" /\ Whole(l)
  BY DEF Is, Lists
<1>2. << "decl", l >>[1] = "decl" /\ << "decl", l >>[2] = l
  OBVIOUS
<1>3. Null[1] = "missing"
  BY DEF Null
<1> QED
  BY <1>1, <1>2, <1>3 DEF Is, Whole, Lists

\* A tree that is made of others, whichever they are.
LEMMA NodeTree ==
  ASSUME NEW node, Tagged(node), NEW n \in Nat, IsSeq(values), n <= Len(values)
  PROVE  Is(Node(node, n), "node") /\ Is(Node(node, n), "any")
<1>1. PICK S : values \in Seq(S)
  BY DEF IsSeq
<1>2. SubSeq(values, 1, n) \in Seq(S)
  BY <1>1
<1>3. PICK s : s = SubSeq(values, 1, n)
  OBVIOUS
<1>4. s \in Seq(S)
  BY <1>2, <1>3
<1>5. Reverse(s) \in Seq(S)
  BY <1>4 DEF Reverse
<1>6. IsSeq(Reverse(s))
  BY <1>5 DEF IsSeq
<1>7. PICK u : u = Reverse(s)
  OBVIOUS
<1>8. 1 \in 1 .. Len(node)
  BY SeqFacts DEF Tagged
<1>9. (node \o u)[1] = node[1]
  BY <1>6, <1>7, <1>8, ConcatFacts DEF Tagged
<1>10. Node(node, n)[1] = node[1]
  BY <1>3, <1>7, <1>9 DEF Node
<1> QED
  BY <1>10, AnyTree DEF Tagged

\* A declarator, as it is found and as it is changed.
LEMMA DeclaratorTrees ==
  /\ \A a, b, c : Is(<< "object", a, b, c >>, "declarator")
  /\ \A a, b, c, d : Is(<< "function", a, b, c, d >>, "declarator")
<1>1. ASSUME NEW a, NEW b, NEW c PROVE Is(<< "object", a, b, c >>, "declarator")
  <2>1. PICK v : v = << "object", a, b, c >>
    OBVIOUS
  <2>2. v \in Seq({"object", a, b, c}) /\ Len(v) > 0 /\ v[1] = "object"
    BY <2>1
  <2>3. Is(v, "declarator")
    BY <2>2 DEF Is, Whole, Lists, IsSeq
  <2> QED
    BY <2>1, <2>3
<1>2. ASSUME NEW a, NEW b, NEW c, NEW d PROVE Is(<< "function", a, b, c, d >>, "declarator")
  <2>1. PICK v : v = << "function", a, b, c, d >>
    OBVIOUS
  <2>2. v \in Seq({"function", a, b, c, d}) /\ Len(v) > 0 /\ v[1] = "function"
    BY <2>1
  <2>3. Is(v, "declarator")
    BY <2>2 DEF Is, Whole, Lists, IsSeq
  <2> QED
    BY <2>1, <2>3
<1> QED
  BY <1>1, <1>2

LEMMA ChangedDeclarator ==
  ASSUME NEW v, Is(v, "declarator"), NEW n \in {4, 5}, NEW e
  PROVE  Is([v EXCEPT ![n] = e], "declarator")
<1>1. PICK S : v \in Seq(S)
  BY DEF Is, IsSeq
<1> DEFINE U == S \cup {e}
           u == [v EXCEPT ![n] = e]
<1>2. v \in Seq(U) /\ e \in U
  BY <1>1
<1> HIDE DEF U
<1>3. u \in Seq(U) /\ Len(u) = Len(v)
  <2>1. v \in [1 .. Len(v) -> U] /\ Len(v) \in Nat
    BY <1>2
  <2>2. u \in [1 .. Len(v) -> U]
    BY <1>2, <2>1
  <2> HIDE DEF u
  <2> QED
    BY <2>1, <2>2
<1>4. Len(v) \in Nat /\ Len(v) > 0 /\ DOMAIN v = 1 .. Len(v) /\ v[1] \in {"object", "function"}
  BY <1>1 DEF Is
<1>5. u[1] = v[1]
  BY <1>4
<1> HIDE DEF u
<1>6. Is(u, "declarator")
  BY <1>3, <1>4, <1>5 DEF Is, Whole, Lists, IsSeq
<1> QED
  BY <1>6 DEF u

LEMMA UnitTree ==
  ASSUME NEW u, Is(u, "unit"), NEW d, Is(d, "decl")
  PROVE  Is(<< "unit", u[2] \o d[2][2] >>, "unit")
<1>1. WholeSeq(u[2])
  BY DEF Is, Whole, Lists
<1>2. WholeSeq(d[2][2])
  BY DEF Is, Whole, Lists
<1>3. PICK s : s = u[2] \o d[2][2]
  OBVIOUS
<1>4. WholeSeq(s)
  BY <1>1, <1>2, <1>3, ConcatWhole
<1>5. << "unit", s >>[1] = "unit" /\ << "unit", s >>[2] = s
  OBVIOUS
<1>6. Is(<< "unit", s >>, "unit")
  BY <1>4, <1>5 DEF Is, Whole, Lists
<1> QED
  BY <1>3, <1>6

-----------------------------------------------------------------------------
(* How values changes.                                                     *)

LEMMA PushFits ==
  ASSUME NEW x \in Stack, Fits(values, x), NEW v, NEW a \in TreeType, Is(v, a), Push(v)
  PROVE  Fits(values', On(a, x))
<1>1. PICK vs : vs = values
  OBVIOUS
<1>2. Fits(<< v >> \o vs, On(a, x))
  BY <1>1, FitsOn
<1> QED
  BY <1>1, <1>2 DEF Push

LEMMA ReplaceFits ==
  ASSUME NEW x \in Stack, Fits(values, x), NEW n \in Nat, n <= Len(x), NEW v, NEW a \in TreeType, Is(v, a),
         Replace(n, v)
  PROVE  Fits(values', On(a, Below(x, n)))
<1>1. PICK vs : vs = SubSeq(values, n + 1, Len(values))
  OBVIOUS
<1>2. Fits(vs, Below(x, n)) /\ Below(x, n) \in Stack
  BY <1>1, FitsBelow, BelowStack
<1>3. Fits(<< v >> \o vs, On(a, Below(x, n)))
  BY <1>2, FitsOn
<1> QED
  BY <1>1, <1>3 DEF Replace

LEMMA Replace1 ==
  ASSUME NEW r \in Stack, NEW b \in TreeType, Fits(values, On(b, r)),
         NEW v, NEW a \in TreeType, Is(v, a), Replace(1, v)
  PROVE  Fits(values', On(a, r))
<1>1. PICK x : x = On(b, r)
  OBVIOUS
<1>2. x \in Stack /\ 1 <= Len(x) /\ Below(x, 1) = r /\ Fits(values, x)
  BY <1>1, OnStack, Below1
<1>3. Fits(values', On(a, Below(x, 1)))
  BY <1>2, ReplaceFits
<1> QED
  BY <1>2, <1>3

LEMMA Replace2 ==
  ASSUME NEW r \in Stack, NEW b \in TreeType, NEW c \in TreeType, Fits(values, On(b, On(c, r))),
         NEW v, NEW a \in TreeType, Is(v, a), Replace(2, v)
  PROVE  Fits(values', On(a, r))
<1>1. PICK x : x = On(b, On(c, r))
  OBVIOUS
<1>2. x \in Stack /\ 2 <= Len(x) /\ Below(x, 2) = r /\ Fits(values, x)
  BY <1>1, OnStack, Below2
<1>3. Fits(values', On(a, Below(x, 2)))
  BY <1>2, ReplaceFits
<1> QED
  BY <1>2, <1>3

LEMMA Replace3 ==
  ASSUME NEW r \in Stack, NEW b \in TreeType, NEW c \in TreeType, NEW d \in TreeType,
         Fits(values, On(b, On(c, On(d, r)))),
         NEW v, NEW a \in TreeType, Is(v, a), Replace(3, v)
  PROVE  Fits(values', On(a, r))
<1>1. PICK x : x = On(b, On(c, On(d, r)))
  OBVIOUS
<1>2. x \in Stack /\ 3 <= Len(x) /\ Below(x, 3) = r /\ Fits(values, x)
  <2>1. On(d, r) \in Stack /\ On(c, On(d, r)) \in Stack
    BY OnStack
  <2>2. x \in Stack
    BY <2>1, <1>1, OnStack
  <2>3. Len(x) \in Nat
    BY <2>2 DEF Stack
  <2>4. Len(x) >= 3 /\ Below(x, 3) = r
    BY <1>1, Below3
  <2> QED
    BY <2>2, <2>3, <2>4, <1>1
<1>3. Fits(values', On(a, Below(x, 3)))
  BY <1>2, ReplaceFits
<1> QED
  BY <1>2, <1>3

\* The two trees on top.
LEMMA TopTrees ==
  ASSUME NEW a \in TreeType, NEW b \in TreeType, NEW r \in Stack, Fits(values, On(a, On(b, r)))
  PROVE  Is(Top, a) /\ Is(values[2], b)
<1>1. On(b, r) \in Stack
  BY OnStack
<1>2. /\ values # << >> /\ Head(values) = values[1] /\ Is(values[1], a) /\ IsSeq(values)
      /\ Fits(Tail(values), On(b, r)) /\ Len(values) = Len(On(b, r)) + 1
  BY <1>1, TopFits
<1>3. Is(Tail(values)[1], b) /\ Len(On(b, r)) = Len(r) + 1 /\ Len(r) \in Nat
  <2>1. Len(r) \in Nat
    BY DEF Stack
  <2> QED
    BY <1>2, <2>1, TopFits, OnStack
<1>4. Tail(values)[1] = values[1 + 1]
  BY <1>2, <1>3, SeqFacts
<1> QED
  BY <1>2, <1>3, <1>4 DEF Top

LEMMA TopTree ==
  ASSUME NEW a \in TreeType, NEW r \in Stack, Fits(values, On(a, r))
  PROVE  Is(Top, a)
BY TopFits DEF Top

-----------------------------------------------------------------------------
(* Every step keeps the trees in order.                                    *)

\* The first step is about to take trees of x and will leave those of z.
Taken(x, z, y) == /\ x \in Stack /\ z \in Stack /\ y \in Stack /\ Fits(values, x)
                  /\ Step(todo[1], x, z) /\ Leads(Tail(todo), z, y) /\ Leads(todo, x, y)

LEMMA HeadTaken ==
  ASSUME TreesFit, NEW w, Now(w), w # "statement"
  PROVE  /\ todo # << >> /\ Head(todo) = todo[1] /\ todo[1].do = w
         /\ \E x, z, y \in Stack : Taken(x, z, y)
<1>1. PICK x \in Stack, y \in Stack : Fits(values, x) /\ (Leads(todo, x, y) \/ AtItem(x, y))
  BY DEF TreesFit
<1>2. IsSeq(todo)
  BY <1>1 DEF Leads, AtItem
<1>3. todo # << >> /\ Head(todo) = todo[1] /\ todo[1].do = w
  BY <1>2, SeqFacts DEF Now
<1>4. ~AtItem(x, y)
  BY <1>3 DEF AtItem, Do
<1>5. PICK z \in Stack : Step(todo[1], x, z) /\ Leads(Tail(todo), z, y)
  BY <1>1, <1>3, <1>4, LeadsOn
<1> QED
  BY <1>1, <1>3, <1>4, <1>5 DEF Taken

LEMMA Continues ==
  ASSUME NEW x \in Stack, NEW z, NEW y, Leads(Tail(todo), z, y), Fits(values', x),
         NEW s, Then(s), Leads(s, x, z)
  PROVE  TreesFit'
<1>1. PICK u : u = Tail(todo)
  OBVIOUS
<1>2. Leads(s \o u, x, y)
  BY <1>1, LeadsConcat
<1>3. PICK t, vs : t = todo' /\ vs = values'
  OBVIOUS
<1>4. t = s \o u
  BY <1>1, <1>3 DEF Then
<1>5. Leads(t, x, y) /\ Fits(vs, x) /\ y \in Stack
  BY <1>2, <1>3, <1>4 DEF Leads
<1> QED
  BY <1>3, <1>5 DEF TreesFit

\* The first step is done.
LEMMA EndsTaken ==
  ASSUME NEW z \in Stack, NEW y, Leads(Tail(todo), z, y), Fits(values', z), Then(<< >>)
  PROVE  TreesFit'
BY LeadsNone, Continues

USE TreeTypes

LEMMA MovesTrees == ASSUME TreesFit, Proceed \/ Consumed PROVE TreesFit'
<1>1. PICK x \in Stack, z \in Stack, y \in Stack :
          Taken(x, z, y) /\ todo[1].do \in {"advance", "consume"}
  BY HeadTaken DEF Proceed, Consumed
<1>2. z = x
  BY <1>1 DEF Taken, Step
<1> QED
  BY <1>1, <1>2, EndsTaken DEF Proceed, Consumed, Taken

LEMMA OptionalTrees == ASSUME TreesFit, Optional PROVE TreesFit'
<1>1. PICK x \in Stack, z \in Stack, y \in Stack : Taken(x, z, y) /\ todo[1].do = "unless"
  BY HeadTaken DEF Optional
<1>2. z = On("any", x)
  BY <1>1 DEF Taken, Step
<1>3. CASE Then(<< >>) /\ Push(Absent)
  <2>1. Fits(values', z)
    BY <1>1, <1>2, <1>3, PushFits, LeafTrees DEF Taken
  <2> QED
    BY <1>1, <1>3, <2>1, EndsTaken DEF Taken
<1>4. CASE Then(<< Condition >>) /\ values' = values
  <2>1. Leads(<< Condition >>, x, z)
    BY <1>2, Leads1, StepKinds, KindsAreNoOperands
  <2> QED
    BY <1>1, <1>4, <2>1, Continues DEF Taken
<1> QED
  BY <1>3, <1>4 DEF Optional

LEMMA MadeTrees == ASSUME TreesFit, Made PROVE TreesFit'
<1>1. PICK x \in Stack, z \in Stack, y \in Stack :
          Taken(x, z, y) /\ todo[1].do = "make" /\ Head(todo) = todo[1]
  BY HeadTaken DEF Made
<1> DEFINE n == todo[1].n
           node == todo[1].node
<1>2. PICK t \in {"any", "node"} : /\ n \in Nat /\ n <= Len(x) /\ Tagged(node) /\ z = On(t, Below(x, n))
  BY <1>1 DEF Taken, Step
<1>3. Replace(n, Node(node, n)) /\ Then(<< >>)
  BY <1>1 DEF Made
<1>4. Is(Node(node, n), t)
  BY <1>1, <1>2, NodeTree DEF Taken, Fits
<1> HIDE DEF n, node
<1>5. Fits(values', z)
  BY <1>1, <1>2, <1>3, <1>4, ReplaceFits DEF Taken
<1> QED
  BY <1>1, <1>3, <1>5, EndsTaken DEF Taken

-----------------------------------------------------------------------------
(* Expressions.                                                            *)

LEMMA OperandLeads ==
  ASSUME NEW r \in Stack, NEW k, NEW l, k \in {"unary", "pre"}
  PROVE  Leads(<< Expression(PrecUnary), Do("operand"), Make(<< k, l >>, 1) >>, r, On("any", r))
<1>1. MayMake(<< k, l >>, "any") /\ OperandNode(Make(<< k, l >>, 1))
  BY TagsOfNodes DEF MayMake, Lists, OperandNode, OperandTags, Make
<1>2. On("any", r) \in Stack
  BY OnStack
<1>3. /\ Step(Expression(PrecUnary), r, On("any", r))
      /\ Step(Do("operand"), On("any", r), On("any", r))
      /\ Step(Make(<< k, l >>, 1), On("any", r), On("any", r))
  BY <1>1, StepKinds, StepsOverTrees, Make1
<1>4. Expression(PrecUnary).do # "operand" /\ Do("operand").do = "operand"
  BY KindsAreNoOperands DEF Do
<1> QED
  BY <1>1, <1>3, <1>4, LeadsOperand3

LEMMA BinaryLeads ==
  ASSUME NEW r \in Stack, NEW k, NEW l, k \in {"assignment", "binary"}, NEW p
  PROVE  Leads(<< Expression(p), Do("operand"), Make(<< k, l >>, 2) >>, On("any", r), On("any", r))
<1>1. MayMake(<< k, l >>, "any") /\ OperandNode(Make(<< k, l >>, 2))
  BY TagsOfNodes DEF MayMake, Lists, OperandNode, OperandTags, Make
<1>2. On("any", r) \in Stack
  BY OnStack
<1>3. /\ Step(Expression(p), On("any", r), On("any", On("any", r)))
      /\ Step(Do("operand"), On("any", On("any", r)), On("any", On("any", r)))
      /\ Step(Make(<< k, l >>, 2), On("any", On("any", r)), On("any", r))
  BY <1>1, <1>2, StepKinds, StepsOverTrees, Make2
<1>4. Expression(p).do # "operand" /\ Do("operand").do = "operand"
  BY KindsAreNoOperands DEF Do
<1> QED
  BY <1>1, <1>2, <1>3, <1>4, LeadsOperand3

LEMMA PrefixLeads ==
  ASSUME NEW x \in Stack, NEW k
  PROVE  Prefix(k) = << >> \/ Leads(Prefix(k), x, On("any", x))
<1>1. Leads(<< Expression(PrecUnary), Do("operand"), Make(<< "unary", k >>, 1) >>, x, On("any", x))
  BY OperandLeads
<1>2. Leads(<< Expression(PrecUnary), Do("operand"), Make(<< "pre", k >>, 1) >>, x, On("any", x))
  BY OperandLeads
<1>3. Leads(<< Do("grouping") >>, x, On("any", x))
  BY Leads1, StepKinds, KindsAreNoOperands
<1> QED
  BY <1>1, <1>2, <1>3 DEF Prefix

LEMMA InfixLeads ==
  ASSUME NEW r \in Stack, NEW k
  PROVE  Leads(InfixRule(k), On("any", r), On("any", r))
<1>0. On("any", r) \in Stack
  BY OnStack
<1>1. Leads(<< Condition, Do("operand"), Make(<< "assignment", k >>, 2) >>, On("any", r), On("any", r))
  BY BinaryLeads DEF Condition
<1>2. Leads(<< Condition, Do("colon") >>, On("any", r), On("any", r))
  BY <1>0, Leads2, StepKinds, StepsOverTrees, KindsAreNoOperands
<1>3. Leads(<< Make(<< "post", k >>, 1) >>, On("any", r), On("any", r))
  <2>1. MayMake(<< "post", k >>, "any")
    BY TagsOfNodes DEF MayMake, Lists
  <2>2. Step(Make(<< "post", k >>, 1), On("any", r), On("any", r))
    BY <2>1, Make1
  <2> QED
    BY <1>0, <2>2, Leads1, KindsAreNoOperands
<1>4. Leads(<< Do("arguments") >>, On("any", r), On("any", r))
  BY <1>0, Leads1, StepsOverTrees, KindsAreNoOperands
<1>5. Leads(<< Expression(RightPrec(k)), Do("operand"), Make(<< "binary", k >>, 2) >>, On("any", r), On("any", r))
  BY BinaryLeads
<1> QED
  BY <1>1, <1>2, <1>3, <1>4, <1>5 DEF InfixRule

\* More steps and then the loop of parse_expression again.
LEMMA LeadsThenInfix ==
  ASSUME NEW s, NEW x, NEW r \in Stack, Leads(s, x, On("any", r)), NEW prec
  PROVE  Leads(Append(s, Infix(prec)), x, On("any", r))
<1>0. On("any", r) \in Stack
  BY OnStack
<1>1. Leads(<< Infix(prec) >>, On("any", r), On("any", r))
  BY <1>0, Leads1, StepsOverTrees, KindsAreNoOperands
<1>2. Leads(s \o << Infix(prec) >>, x, On("any", r))
  BY <1>1, LeadsConcat
<1>3. Append(s, Infix(prec)) = s \o << Infix(prec) >>
  <2>1. PICK S : s \in Seq(S)
    BY DEF Leads, IsSeq
  <2> DEFINE U == S \cup {Infix(prec)}
  <2>2. s \in Seq(U) /\ Infix(prec) \in U
    BY <2>1
  <2> HIDE DEF U
  <2> QED
    BY <2>2, AppendIsConcat
<1> QED
  BY <1>2, <1>3

LEMMA ParseExpressionTrees == ASSUME TreesFit, ParseExpression PROVE TreesFit'
<1> DEFINE prec == Head(todo).prec
<1>1. PICK x \in Stack, z \in Stack, y \in Stack : Taken(x, z, y) /\ todo[1].do = "expression"
  BY HeadTaken DEF ParseExpression
<1>2. z = On("any", x)
  BY <1>1 DEF Taken, Step
<1>3. CASE ~HasPrefixRule(Current)
  <2>1. Fits(values', z) /\ Then(<< >>)
    BY <1>1, <1>2, <1>3, PushFits, LeafTrees DEF Taken, ParseExpression
  <2> QED
    BY <1>1, <2>1, EndsTaken DEF Taken
<1>4. CASE HasPrefixRule(Current) /\ Prefix(Current) = << >>
  <2>1. Push(<< IF Current = "ident" THEN "ident" ELSE "const" >>)
        /\ Then(Append(Prefix(Current), Infix(prec)))
    BY <1>4 DEF ParseExpression
  <2>2. PICK k \in {"ident", "const"} : Push(<< k >>)
    BY <2>1
  <2>3. Fits(values', z)
    BY <1>1, <1>2, <2>2, PushFits, LeafTrees DEF Taken
  <2>4. Leads(Append(<< >>, Infix(prec)), z, z)
    BY <1>2, LeadsNone, LeadsThenInfix
  <2> QED
    BY <1>1, <1>4, <2>1, <2>3, <2>4, Continues DEF Taken
<1>5. CASE HasPrefixRule(Current) /\ Prefix(Current) # << >>
  <2>1. values' = values /\ Then(Append(Prefix(Current), Infix(prec)))
    BY <1>5 DEF ParseExpression
  <2>2. Leads(Append(Prefix(Current), Infix(prec)), x, z)
    BY <1>2, <1>5, PrefixLeads, LeadsThenInfix
  <2> QED
    BY <1>1, <2>1, <2>2, Continues DEF Taken
<1> QED
  BY <1>3, <1>4, <1>5

LEMMA OperandTrees == ASSUME TreesFit, Operand PROVE TreesFit'
<1>1. PICK x \in Stack, z \in Stack, y \in Stack : Taken(x, z, y) /\ todo[1].do = "operand" /\ todo # << >>
  BY HeadTaken DEF Operand
<1>2. PICK r \in Stack : x = On("any", r) /\ z = x
  BY <1>1 DEF Taken, Step
<1>3. CASE ~Missing(Top)
  BY <1>1, <1>2, <1>3, EndsTaken DEF Operand, Taken
<1>4. CASE Missing(Top)
  <2>1. PICK u : u = Tail(todo)
    OBVIOUS
  <2>2. u # << >> /\ OperandNode(u[1]) /\ Leads(u, x, y)
    BY <1>1, <1>2, <2>1, LeadsOn DEF Taken
  <2>3. PICK q \in Stack : Step(u[1], x, q) /\ Leads(Tail(u), q, y)
    BY <2>2, LeadsOn
  <2>4. /\ u[1].n \in Nat /\ u[1].n <= Len(x) /\ q = On("any", Below(x, u[1].n))
    BY <2>2, <2>3 DEF Step, OperandNode
  <2>5. u[1] = todo[2] /\ Tail(u) = SubSeq(todo, 3, Len(todo))
    <3>1. IsSeq(todo) /\ IsSeq(u)
      BY <1>1, <2>2 DEF Taken, Leads
    <3>2. Len(u) > 0 /\ Len(u) = Len(todo) - 1 /\ Len(todo) \in Nat /\ \A i \in 1 .. Len(todo) - 1 : u[i] = todo[i + 1]
      BY <1>1, <2>1, <2>2, <3>1, SeqFacts
    <3>3. u[1] = todo[1 + 1]
      BY <3>2
    <3>4. PICK S : todo \in Seq(S)
      BY <3>1 DEF IsSeq
    <3>5. Tail(Tail(todo)) = SubSeq(todo, 3, Len(todo))
      BY <3>2, <3>4
    <3>6. u[1] = todo[2]
      BY <3>3
    <3>7. Tail(u) = SubSeq(todo, 3, Len(todo))
      BY <2>1, <3>5
    <3> QED
      BY <3>6, <3>7
  <2>6. Replace(u[1].n, Null) /\ todo' = Tail(u)
    BY <1>4, <2>5 DEF Operand
  <2>7. Fits(values', q)
    BY <1>1, <2>4, <2>6, ReplaceFits, LeafTrees DEF Taken
  <2>8. PICK t, vs : t = todo' /\ vs = values'
    OBVIOUS
  <2>9. Leads(t, q, y) /\ Fits(vs, q)
    BY <2>3, <2>6, <2>7, <2>8
  <2> QED
    BY <1>1, <2>8, <2>9 DEF TreesFit
<1> QED
  BY <1>3, <1>4

LEMMA GroupingOrCastTrees == ASSUME TreesFit, GroupingOrCast PROVE TreesFit'
<1>1. PICK x \in Stack, z \in Stack, y \in Stack : Taken(x, z, y) /\ todo[1].do = "grouping"
  BY HeadTaken DEF GroupingOrCast
<1>2. z = On("any", x)
  BY <1>1 DEF Taken, Step
<1>3. Leads(<< Specs(<< >>, "none"), Do("typename"), Take(")"), Expression(PrecUnary), Do("operand"),
               Make(<< "cast" >>, 2) >>, x, z)
  <2>1. MayMake(<< "cast" >>, "any") /\ OperandNode(Make(<< "cast" >>, 2))
    BY TagsOfNodes DEF MayMake, Lists, OperandNode, OperandTags, Make
  <2>2. On("any", x) \in Stack
    BY OnStack
  <2>3. /\ Step(Specs(<< >>, "none"), x, On("specs", x)) /\ Step(Do("typename"), On("specs", x), On("any", x))
        /\ Step(Take(")"), On("any", x), On("any", x))
    BY StepKinds, StepsOverTrees
  <2>4. /\ Step(Expression(PrecUnary), On("any", x), On("any", On("any", x)))
        /\ Step(Do("operand"), On("any", On("any", x)), On("any", On("any", x)))
    BY <2>2, StepKinds, StepsOverTrees
  <2>5. Step(Make(<< "cast" >>, 2), On("any", On("any", x)), On("any", x))
    BY <2>1, Make2
  <2>6. /\ Specs(<< >>, "none").do # "operand" /\ Do("typename").do # "operand" /\ Take(")").do # "operand"
        /\ Expression(PrecUnary).do # "operand" /\ Do("operand").do = "operand"
    BY KindsAreNoOperands DEF Do
  <2> QED
    BY <1>2, <2>1, <2>3, <2>4, <2>5, <2>6, LeadsOperand6
<1>4. Leads(<< Condition, Take(")") >>, x, z)
  BY <1>2, Leads2, StepKinds, KindsAreNoOperands
<1> QED
  BY <1>1, <1>3, <1>4, Continues DEF Taken, GroupingOrCast

LEMMA ParseInfixTrees == ASSUME TreesFit, ParseInfix PROVE TreesFit'
<1> DEFINE prec == Head(todo).prec
<1>1. PICK x \in Stack, z \in Stack, y \in Stack : Taken(x, z, y) /\ todo[1].do = "infix"
  BY HeadTaken DEF ParseInfix
<1>2. PICK r \in Stack : x = On("any", r) /\ z = x
  BY <1>1 DEF Taken, Step
<1>3. Leads(Append(InfixRule(Current), Infix(prec)), x, z)
  BY <1>2, InfixLeads, LeadsThenInfix
<1>4. Fits(values', x)
  BY <1>1 DEF Taken, ParseInfix
<1>5. Then(Append(InfixRule(Current), Infix(prec))) \/ Then(<< >>)
  BY DEF ParseInfix
<1> QED
  BY <1>1, <1>2, <1>3, <1>4, <1>5, Continues, EndsTaken DEF Taken

LEMMA ColonTrees == ASSUME TreesFit, Colon PROVE TreesFit'
<1>1. PICK x \in Stack, z \in Stack, y \in Stack : Taken(x, z, y) /\ todo[1].do = "colon"
  BY HeadTaken DEF Colon
<1>2. PICK r \in Stack : x = On("any", On("any", r)) /\ z = On("any", r)
  BY <1>1 DEF Taken, Step
<1>3. CASE Replace(2, Null) /\ Then(<< >>)
  <2>1. Fits(values', z)
    BY <1>1, <1>2, <1>3, Replace2, LeafTrees DEF Taken
  <2> QED
    BY <1>1, <1>3, <2>1, EndsTaken DEF Taken
<1>4. CASE values' = values /\ Then(<< Take(":"), Expression(PrecTernary), Do("operand"), Make(<< "conditional" >>, 3) >>)
  <2>1. MayMake(<< "conditional" >>, "any") /\ OperandNode(Make(<< "conditional" >>, 3))
    BY TagsOfNodes DEF MayMake, Lists, OperandNode, OperandTags, Make
  <2>2. Step(Take(":"), x, x) /\ Step(Expression(PrecTernary), x, On("any", x))
        /\ Step(Do("operand"), On("any", x), On("any", x))
    BY <1>1, StepKinds, StepsOverTrees
  <2>3. Step(Make(<< "conditional" >>, 3), On("any", x), z)
    BY <1>2, <2>1, Make3
  <2>4. /\ Take(":").do # "operand" /\ Expression(PrecTernary).do # "operand" /\ Do("operand").do = "operand"
    BY KindsAreNoOperands DEF Do
  <2>5. Leads(<< Take(":"), Expression(PrecTernary), Do("operand"), Make(<< "conditional" >>, 3) >>, x, z)
    BY <2>1, <2>2, <2>3, <2>4, LeadsOperand4
  <2> QED
    BY <1>1, <1>4, <2>5, Continues DEF Taken
<1> QED
  BY <1>3, <1>4 DEF Colon

LEMMA CallLeads ==
  ASSUME NEW r \in Stack, NEW x, x = On("list", On("any", r))
  PROVE  /\ Leads(<< Take(")"), Make(<< "call" >>, 2) >>, x, On("any", r))
         /\ Leads(<< Condition, Do("argument") >>, x, On("any", r))
<1>1. MayMake(<< "call" >>, "any")
  BY TagsOfNodes DEF MayMake, Lists
<1>2. x \in Stack /\ Step(Make(<< "call" >>, 2), x, On("any", r)) /\ Step(Take(")"), x, x)
  BY <1>1, Make2, OnStack, StepKinds
<1>3. Step(Condition, x, On("any", x)) /\ Step(Do("argument"), On("any", x), On("any", r))
  BY StepKinds, StepsOverTrees
<1>4. /\ Take(")").do # "operand" /\ Make(<< "call" >>, 2).do # "operand" /\ Condition.do # "operand"
      /\ Do("argument").do # "operand"
  BY KindsAreNoOperands
<1> QED
  BY <1>2, <1>3, <1>4, Leads2

LEMMA ArgumentsTrees == ASSUME TreesFit, Arguments PROVE TreesFit'
<1>1. PICK x \in Stack, z \in Stack, y \in Stack : Taken(x, z, y) /\ todo[1].do = "arguments"
  BY HeadTaken DEF Arguments
<1>2. PICK r \in Stack : x = On("any", r) /\ z = On("any", r)
  BY <1>1 DEF Taken, Step
<1>3. PICK q : q = On("list", x)
  OBVIOUS
<1>4. q \in Stack /\ Fits(values', q)
  BY <1>1, <1>3, PushFits, LeafTrees, OnStack DEF Taken, Arguments
<1>5. Leads(<< Take(")"), Make(<< "call" >>, 2) >>, q, z) /\ Leads(<< Condition, Do("argument") >>, q, z)
  BY <1>2, <1>3, CallLeads
<1>6. Then(<< Take(")"), Make(<< "call" >>, 2) >>) \/ Then(<< Condition, Do("argument") >>)
  BY DEF Arguments
<1> QED
  BY <1>1, <1>4, <1>5, <1>6, Continues DEF Taken

LEMMA ArgumentTrees == ASSUME TreesFit, Argument PROVE TreesFit'
<1>1. PICK x \in Stack, z \in Stack, y \in Stack : Taken(x, z, y) /\ todo[1].do = "argument"
  BY HeadTaken DEF Argument
<1>2. PICK r \in Stack : x = On("any", On("list", On("any", r))) /\ z = On("any", r)
  BY <1>1 DEF Taken, Step
<1>3. CASE Missing(Top)
  <2>1. Replace(3, Null) /\ Then(<< >>)
    BY <1>3 DEF Argument
  <2>2. Fits(values', z)
    BY <1>1, <1>2, <2>1, Replace3, LeafTrees DEF Taken
  <2> QED
    BY <1>1, <2>1, <2>2, EndsTaken DEF Taken
<1>4. CASE ~Missing(Top)
  <2>1. /\ Replace(2, Listed(values[2], Top))
        /\ Then(<< Condition, Do("argument") >>) \/ Then(<< Take(")"), Make(<< "call" >>, 2) >>)
    BY <1>4 DEF Argument
  <2>2. PICK q : q = On("list", On("any", r))
    OBVIOUS
  <2>3. On("any", r) \in Stack /\ q \in Stack
    BY <2>2, OnStack
  <2>4. Is(values[2], "list")
    BY <1>1, <1>2, <2>3, TopTrees DEF Taken
  <2>5. Is(Listed(values[2], Top), "list")
    BY <1>4, <2>4, ListedTree DEF Missing, Lists
  <2>6. Fits(values', q)
    BY <1>1, <1>2, <2>1, <2>2, <2>3, <2>5, Replace2 DEF Taken
  <2>7. Leads(<< Take(")"), Make(<< "call" >>, 2) >>, q, z) /\ Leads(<< Condition, Do("argument") >>, q, z)
    BY <1>2, <2>2, CallLeads
  <2> QED
    BY <1>1, <2>1, <2>3, <2>6, <2>7, Continues DEF Taken
<1> QED
  BY <1>3, <1>4

-----------------------------------------------------------------------------
(* Statements.                                                             *)

StatementTags == {"return", "while", "switch", "dowhile", "for", "case", "default", "goto", "break", "continue",
                  "null", "label", "expr", "if", "ifelse"}

LEMMA StatementNodes ==
  ASSUME NEW k \in StatementTags, NEW t \in {"any", "node"}
  PROVE  MayMake(<< k >>, t) /\ << k >>[1] \notin OperandTags
<1>1. k \notin Lists \cup {"missing"} /\ k \notin OperandTags
  BY DEF StatementTags, Lists, OperandTags
<1> QED
  BY <1>1, TagsOfNodes DEF MayMake

LEMMA ExprLeads ==
  ASSUME NEW x \in Stack, NEW t \in {"any", "node"}
  PROVE  Leads(<< Condition, Take(";"), Make(<< "expr" >>, 1) >>, x, On(t, x))
<1>1. MayMake(<< "expr" >>, t)
  BY StatementNodes DEF StatementTags
<1>2. Step(Condition, x, On("any", x)) /\ Step(Take(";"), On("any", x), On("any", x))
  BY StepKinds
<1>3. Step(Make(<< "expr" >>, 1), On("any", x), On(t, x))
  BY <1>1, Make1
<1> QED
  BY <1>2, <1>3, Leads3, KindsAreNoOperands

LEMMA KeywordLeads ==
  ASSUME NEW x \in Stack, NEW t \in {"any", "node"}, NEW k \in Keywords
  PROVE  Leads(AfterKeyword(k), x, On(t, x))
<1> DEFINE x1 == On("any", x)
           x2 == On("any", x1)
           x3 == On("any", x2)
           x4 == On("any", x3)
           z == On(t, x)
<1>1. x1 \in Stack /\ x2 \in Stack /\ x3 \in Stack /\ x4 \in Stack
  <2>1. x1 \in Stack
    BY OnStack
  <2>2. x2 \in Stack
    BY <2>1, OnStack
  <2>3. x3 \in Stack
    BY <2>2, OnStack
  <2> QED
    BY <2>1, <2>2, <2>3, OnStack
<1>2. \A l : /\ Make(<< l >>, 0).do # "operand" /\ Make(<< l >>, 1).do # "operand" /\ Make(<< l >>, 2).do # "operand"
             /\ Make(<< l >>, 4).do # "operand"
  BY KindsAreNoOperands
<1>3. /\ \A l : Take(l).do # "operand" /\ Unless(l).do # "operand" /\ Expression(l).do # "operand"
      /\ Condition.do # "operand" /\ Do("statement").do # "operand" /\ Do("else").do # "operand"
      /\ Do("forinit").do # "operand"
  BY KindsAreNoOperands
<1>4. /\ \A l, q : Step(Take(l), q, q) /\ Step(Unless(l), q, On("any", q)) /\ Step(Expression(l), q, On("any", q))
      /\ \A q : /\ Step(Condition, q, On("any", q)) /\ Step(Do("statement"), q, On("any", q))
                /\ Step(Do("forinit"), q, On("any", q))
  BY StepKinds
<1>5. \A l \in StatementTags : /\ Step(Make(<< l >>, 0), x, z) /\ Step(Make(<< l >>, 1), x1, z)
                               /\ Step(Make(<< l >>, 2), x2, z) /\ Step(Make(<< l >>, 4), x4, z)
  <2> SUFFICES ASSUME NEW l \in StatementTags
               PROVE  /\ Step(Make(<< l >>, 0), x, z) /\ Step(Make(<< l >>, 1), x1, z)
                      /\ Step(Make(<< l >>, 2), x2, z) /\ Step(Make(<< l >>, 4), x4, z)
    OBVIOUS
  <2>1. MayMake(<< l >>, t) /\ << l >>[1] \notin OperandTags
    BY StatementNodes
  <2>2. Step(Make(<< l >>, 0), x, z)
    BY <2>1, Make0
  <2>3. Step(Make(<< l >>, 1), x1, z)
    BY <2>1, Make1
  <2>4. Step(Make(<< l >>, 2), x2, z)
    BY <2>1, Make2
  <2>5. Step(Make(<< l >>, 4), x4, z)
    BY <2>1, Make4
  <2> QED
    BY <2>2, <2>3, <2>4, <2>5
<1>6. Step(Do("else"), x2, z)
  BY StepsOverTrees
<1> HIDE DEF x1, x2, x3, x4, z
<1>7. /\ Step(Condition, x, x1) /\ Step(Do("statement"), x, x1) /\ Step(Do("statement"), x1, x2)
      /\ Step(Condition, x1, x2) /\ Step(Do("forinit"), x, x1) /\ Step(Do("statement"), x3, x4)
      /\ \A l : /\ Step(Unless(l), x, x1) /\ Step(Unless(l), x1, x2) /\ Step(Unless(l), x2, x3)
                /\ Step(Expression(l), x, x1)
  BY <1>4 DEF x1, x2, x3, x4
<1>8. CASE k = "return"
  <2>1. Leads(<< Unless(";"), Take(";"), Make(<< "return" >>, 1) >>, x, z)
    BY <1>2, <1>3, <1>4, <1>5, <1>7, Leads3 DEF StatementTags
  <2> QED
    BY <2>1, <1>8 DEF AfterKeyword, z
<1>9. CASE k = "if"
  <2>1. Leads(<< Take("("), Condition, Take(")"), Do("statement"), Do("else") >>, x, z)
    BY <1>3, <1>4, <1>6, <1>7, Leads5
  <2> QED
    BY <2>1, <1>9 DEF AfterKeyword, z
<1>10. CASE k \in {"while", "switch"}
  <2>1. Leads(<< Take("("), Condition, Take(")"), Do("statement"), Make(<< k >>, 2) >>, x, z)
    BY <1>2, <1>3, <1>4, <1>5, <1>7, <1>10, Leads5 DEF StatementTags
  <2> QED
    BY <2>1, <1>10 DEF AfterKeyword, z
<1>11. CASE k = "do"
  <2>1. Leads(<< Do("statement"), Take("while"), Take("("), Condition, Take(")"), Take(";"),
                 Make(<< "dowhile" >>, 2) >>, x, z)
    <3>1. PICK a, b, c, d, e, f, g : /\ a = Do("statement") /\ b = Take("while") /\ c = Take("(") /\ d = Condition
                                     /\ e = Take(")") /\ f = Take(";") /\ g = Make(<< "dowhile" >>, 2)
      OBVIOUS
    <3>2. /\ Step(a, x, x1) /\ Step(b, x1, x1) /\ Step(c, x1, x1) /\ Step(d, x1, x2) /\ Step(e, x2, x2)
          /\ Step(f, x2, x2)
      BY <1>4, <1>7, <3>1
    <3>3. Step(g, x2, z)
      BY <1>5, <3>1 DEF StatementTags
    <3>4. /\ a.do # "operand" /\ b.do # "operand" /\ c.do # "operand" /\ d.do # "operand" /\ e.do # "operand"
          /\ f.do # "operand" /\ g.do # "operand"
      BY <1>2, <1>3, <3>1
    <3>5. Leads(<< a, b, c, d, e, f, g >>, x, z)
      BY <3>2, <3>3, <3>4, Leads7
    <3> QED
      BY <3>1, <3>5
  <2> QED
    BY <2>1, <1>11 DEF AfterKeyword, z
<1>12. CASE k = "for"
  <2>1. Leads(<< Take("("), Do("forinit"), Unless(";"), Take(";"), Unless(")"), Take(")"),
                 Do("statement"), Make(<< "for" >>, 4) >>, x, z)
    BY <1>2, <1>3, <1>4, <1>5, <1>7, Leads8 DEF StatementTags
  <2> QED
    BY <2>1, <1>12 DEF AfterKeyword, z
<1>13. CASE k = "case"
  <2>1. Leads(<< Expression(PrecTernary), Take(":"), Do("statement"), Make(<< "case" >>, 2) >>, x, z)
    BY <1>2, <1>3, <1>4, <1>5, <1>7, Leads4 DEF StatementTags
  <2> QED
    BY <2>1, <1>13 DEF AfterKeyword, z
<1>14. CASE k = "default"
  <2>1. Leads(<< Take(":"), Do("statement"), Make(<< "default" >>, 1) >>, x, z)
    BY <1>2, <1>3, <1>4, <1>5, <1>7, Leads3 DEF StatementTags
  <2> QED
    BY <2>1, <1>14 DEF AfterKeyword, z
<1>15. CASE k = "goto"
  <2>1. Leads(<< Take("ident"), Take(";"), Make(<< "goto" >>, 0) >>, x, z)
    BY <1>2, <1>3, <1>4, <1>5, <1>7, Leads3 DEF StatementTags
  <2> QED
    BY <2>1, <1>15 DEF AfterKeyword, z
<1>16. CASE k \in {"break", "continue"}
  <2>1. Leads(<< Take(";"), Make(<< k >>, 0) >>, x, z)
    BY <1>2, <1>3, <1>4, <1>5, <1>7, <1>16, Leads2 DEF StatementTags
  <2> QED
    BY <2>1, <1>16 DEF AfterKeyword, z
<1>17. CASE k = ";"
  <2>1. Leads(<< Make(<< "null" >>, 0) >>, x, z)
    BY <1>2, <1>3, <1>4, <1>5, <1>7, Leads1 DEF StatementTags
  <2> QED
    BY <2>1, <1>17 DEF AfterKeyword, z
<1> QED
  BY <1>8, <1>9, <1>10, <1>11, <1>12, <1>13, <1>14, <1>15, <1>16, <1>17 DEF Keywords

LEMMA ParseStatementTrees == ASSUME TreesFit, ParseStatement PROVE TreesFit'
<1>1. PICK x \in Stack, y \in Stack, t \in {"any", "node"} :
          /\ Fits(values, x) /\ Leads(Tail(todo), On(t, x), y)
          /\ t = "node" => Current \notin DeclarationStarts
  <2>1. PICK x \in Stack, y \in Stack : Fits(values, x) /\ (Leads(todo, x, y) \/ AtItem(x, y))
    BY DEF TreesFit
  <2>2. CASE AtItem(x, y)
    BY <2>1, <2>2 DEF AtItem
  <2>3. CASE Leads(todo, x, y)
    <3>1. todo # << >> /\ Head(todo) = todo[1] /\ todo[1].do = "statement"
      BY <2>3, SeqFacts DEF Leads, ParseStatement, Now
    <3>2. PICK z \in Stack : Step(todo[1], x, z) /\ Leads(Tail(todo), z, y)
      BY <2>3, <3>1, LeadsOn
    <3>3. z = On("any", x)
      BY <3>1, <3>2 DEF Step
    <3> QED
      BY <2>1, <3>2, <3>3
  <2> QED
    BY <2>1, <2>2, <2>3
<1>2. PICK z : z = On(t, x)
  OBVIOUS
<1>3. z \in Stack /\ Leads(Tail(todo), z, y)
  BY <1>1, <1>2, OnStack
<1>4. CASE Current \in DeclarationStarts /\ Push(Null) /\ Then(<< >>)
  <2>1. t = "any"
    BY <1>1, <1>4
  <2>2. Fits(values', z)
    BY <1>1, <1>2, <1>4, <2>1, PushFits, LeafTrees
  <2> QED
    BY <1>3, <1>4, <2>2, EndsTaken
<1>5. CASE Then(<< Do("block") >>) /\ values' = values
  <2>1. Leads(<< Do("block") >>, x, z)
    BY <1>2, Leads1, StepKinds, KindsAreNoOperands
  <2> QED
    BY <1>1, <1>3, <1>5, <2>1, Continues
<1>6. CASE Current \in Keywords /\ Then(AfterKeyword(Current)) /\ values' = values
  <2>1. Leads(AfterKeyword(Current), x, z)
    BY <1>2, <1>6, KeywordLeads
  <2> QED
    BY <1>1, <1>3, <1>6, <2>1, Continues
<1>7. CASE Then(<< Do("advance"), Do("statement"), Make(<< "label" >>, 1) >>) /\ values' = values
  <2>1. Step(Do("advance"), x, x) /\ Step(Do("statement"), x, On("any", x))
    BY StepKinds
  <2>2. Step(Make(<< "label" >>, 1), On("any", x), z)
    <3>1. MayMake(<< "label" >>, t)
      BY StatementNodes DEF StatementTags
    <3> QED
      BY <1>2, <3>1, Make1
  <2>3. Leads(<< Do("advance"), Do("statement"), Make(<< "label" >>, 1) >>, x, z)
    BY <2>1, <2>2, Leads3, KindsAreNoOperands
  <2> QED
    BY <1>1, <1>3, <1>7, <2>3, Continues
<1>8. CASE Then(<< Condition, Take(";"), Make(<< "expr" >>, 1) >>) /\ values' = values
  BY <1>1, <1>2, <1>3, <1>8, ExprLeads, Continues
<1> QED
  BY <1>4, <1>5, <1>6, <1>7, <1>8 DEF ParseStatement

LEMMA ElseTrees == ASSUME TreesFit, Else PROVE TreesFit'
<1>1. PICK x \in Stack, z \in Stack, y \in Stack : Taken(x, z, y) /\ todo[1].do = "else"
  BY HeadTaken DEF Else
<1>2. PICK r \in Stack, t \in {"any", "node"} : x = On("any", On("any", r)) /\ z = On(t, r)
  BY <1>1 DEF Taken, Step
<1>3. MayMake(<< "if" >>, t) /\ MayMake(<< "ifelse" >>, t)
  BY StatementNodes DEF StatementTags
<1>4. Leads(<< Do("statement"), Make(<< "ifelse" >>, 3) >>, x, z)
  <2>1. Step(Do("statement"), x, On("any", x))
    BY StepKinds
  <2>2. Step(Make(<< "ifelse" >>, 3), On("any", x), z)
    BY <1>2, <1>3, Make3
  <2> QED
    BY <2>1, <2>2, Leads2, KindsAreNoOperands
<1>5. Leads(<< Make(<< "if" >>, 2) >>, x, z)
  BY <1>2, <1>3, Make2, Leads1, KindsAreNoOperands
<1>6. /\ values' = values
      /\ Then(<< Do("statement"), Make(<< "ifelse" >>, 3) >>) \/ Then(<< Make(<< "if" >>, 2) >>)
  BY DEF Else
<1> QED
  BY <1>1, <1>4, <1>5, <1>6, Continues DEF Taken

LEMMA ForInitTrees == ASSUME TreesFit, ForInit PROVE TreesFit'
<1>1. PICK x \in Stack, z \in Stack, y \in Stack : Taken(x, z, y) /\ todo[1].do = "forinit"
  BY HeadTaken DEF ForInit
<1>2. z = On("any", x)
  BY <1>1 DEF Taken, Step
<1>3. CASE Push(Absent) /\ Then(<< >>)
  <2>1. Fits(values', z)
    BY <1>1, <1>2, <1>3, PushFits, LeafTrees DEF Taken
  <2> QED
    BY <1>1, <1>3, <2>1, EndsTaken DEF Taken
<1>4. CASE Then(<< Declaration(FALSE) >>) /\ values' = values
  <2>1. Leads(<< Declaration(FALSE) >>, x, z)
    BY <1>2, Leads1, StepKinds, KindsAreNoOperands
  <2> QED
    BY <1>1, <1>4, <2>1, Continues DEF Taken
<1>5. CASE Then(<< Condition, Take(";"), Make(<< "expr" >>, 1) >>) /\ values' = values
  BY <1>1, <1>2, <1>5, ExprLeads, Continues DEF Taken
<1> QED
  BY <1>3, <1>4, <1>5 DEF ForInit

LEMMA ParseBlockTrees == ASSUME TreesFit, ParseBlock PROVE TreesFit'
<1>1. PICK x \in Stack, z \in Stack, y \in Stack : Taken(x, z, y) /\ todo[1].do = "block"
  BY HeadTaken DEF ParseBlock
<1>2. PICK t \in {"any", "node"} : z = On(t, x)
  BY <1>1 DEF Taken, Step
<1>3. PICK q : q = On("block", x)
  OBVIOUS
<1>4. q \in Stack /\ Fits(values', q)
  BY <1>1, <1>3, PushFits, LeafTrees, OnStack DEF Taken, ParseBlock
<1>5. Leads(<< Do("item") >>, q, z)
  BY <1>2, <1>3, <1>4, Leads1, StepsOverTrees, KindsAreNoOperands DEF Taken
<1> QED
  BY <1>1, <1>4, <1>5, Continues DEF Taken, ParseBlock

\* A block is complete, or one more item of it begins.
LEMMA RecoverTrees ==
  ASSUME NEW r \in Stack
  PROVE  /\ \A t \in {"any", "node"} :
               /\ Step(Recover("item"), On("node", On("block", r)), On(t, r))
               /\ Step([do |-> "synchronize", scope |-> "item"], On("block", r), On(t, r))
         /\ Step(Recover("unit"), On("unit", r), On("unit", r))
         /\ Step([do |-> "synchronize", scope |-> "unit"], On("unit", r), On("unit", r))
         /\ Recover("item").do # "operand" /\ Recover("unit").do # "operand"
<1>1. \A t \in {"any", "node"} : Step(Recover("item"), On("node", On("block", r)), On(t, r))
  BY DEF Step, Recover
<1>2. \A t \in {"any", "node"} : Step([do |-> "synchronize", scope |-> "item"], On("block", r), On(t, r))
  BY DEF Step
<1>3. Step(Recover("unit"), On("unit", r), On("unit", r))
  BY DEF Step, Recover
<1>4. Step([do |-> "synchronize", scope |-> "unit"], On("unit", r), On("unit", r))
  BY DEF Step
<1> QED
  BY <1>1, <1>2, <1>3, <1>4 DEF Recover

LEMMA BlockItemTrees == ASSUME TreesFit, BlockItem PROVE TreesFit'
<1>1. PICK x \in Stack, z \in Stack, y \in Stack : Taken(x, z, y) /\ todo[1].do = "item"
  BY HeadTaken DEF BlockItem
<1>2. PICK r \in Stack, t \in {"any", "node"} : x = On("block", r) /\ z = On(t, r)
  BY <1>1 DEF Taken, Step
<1>3. values' = values
  BY DEF BlockItem
<1>4. CASE Then(<< >>)
  <2>1. Fits(values, x) /\ Fits(values, On("block", r))
    BY <1>1, <1>2 DEF Taken
  <2>2. Is(values[1], t) /\ values # << >> /\ Fits(Tail(values), r) /\ IsSeq(values)
    <3>1. Is(values[1], "block") /\ values # << >> /\ Fits(Tail(values), r) /\ IsSeq(values)
      BY <2>1, TopFits
    <3> QED
      BY <3>1, IsLess
  <2>3. PICK v, vs : v = values[1] /\ vs = Tail(values)
    OBVIOUS
  <2>4. Fits(<< v >> \o vs, On(t, r))
    BY <2>2, <2>3, FitsOn
  <2>5. << v >> \o vs = values
    <3>1. PICK S : values \in Seq(S)
      BY <2>2 DEF IsSeq
    <3> QED
      BY <2>2, <2>3, <3>1
  <2>6. Fits(values', z)
    BY <1>2, <1>3, <2>4, <2>5
  <2> QED
    BY <1>1, <1>4, <2>6, EndsTaken DEF Taken
<1>5. CASE Then(<< Declaration(FALSE), Recover("item") >>)
  <2>1. Step(Declaration(FALSE), x, On("node", x)) /\ Step(Recover("item"), On("node", x), z)
    BY <1>2, StepKinds, RecoverTrees
  <2>2. Leads(<< Declaration(FALSE), Recover("item") >>, x, z)
    BY <2>1, Leads2, KindsAreNoOperands, RecoverTrees, <1>2
  <2> QED
    BY <1>1, <1>3, <1>5, <2>2, Continues DEF Taken
<1>6. CASE Then(<< Do("statement"), Recover("item") >>) /\ Current \notin DeclarationStarts /\ UNCHANGED << parser, source >>
  <2>1. Step(Recover("item"), On("node", x), z) /\ On("node", x) \in Stack
    BY <1>2, RecoverTrees, OnStack
  <2>2. PICK rec, u : rec = Recover("item") /\ u = Tail(todo)
    OBVIOUS
  <2>3. Leads(<< rec >>, On("node", x), z)
    BY <2>1, <2>2, Leads1, RecoverTrees, <1>2
  <2>4. Leads(<< rec >> \o u, On("node", x), y)
    BY <1>1, <2>2, <2>3, LeadsConcat DEF Taken
  <2>5. PICK t1 : t1 = << Do("statement"), rec >> \o u
    OBVIOUS
  <2>6. t1 # << >> /\ t1[1] = Do("statement") /\ Tail(t1) = << rec >> \o u /\ IsSeq(t1)
    <3>1. PICK S : u \in Seq(S)
      BY <1>1, <2>2 DEF Taken, Leads, IsSeq
    <3> DEFINE d == Do("statement")
               U == S \cup {rec, d}
    <3>2. u \in Seq(U) /\ rec \in U /\ d \in U
      BY <3>1
    <3> HIDE DEF U, d
    <3>3. t1 = << d, rec >> \o u /\ << d, rec >> \in Seq(U) /\ << rec >> \in Seq(U)
      BY <2>5, <3>2 DEF d
    <3>4. t1 \in Seq(U) /\ t1 # << >> /\ t1[1] = d
      BY <3>2, <3>3
    <3>5. Tail(t1) = << rec >> \o u
      BY <3>2, <3>3
    <3> QED
      BY <3>4, <3>5 DEF d, IsSeq
  <2>7. todo' = t1
    BY <1>6, <2>2, <2>5 DEF Then
  <2>8. Ready /\ source' = source /\ parser' = parser
    BY <1>6 DEF BlockItem, Now
  <2>9. Ready' /\ (Current \notin DeclarationStarts)'
    BY <1>6, <2>8 DEF Ready, After, Current, Kind
  <2>10. AtItem(x, y)'
    BY <2>4, <2>6, <2>7, <2>9 DEF AtItem
  <2>11. Fits(values', x)
    BY <1>1, <1>3 DEF Taken
  <2> QED
    BY <1>1, <2>10, <2>11 DEF TreesFit
<1> QED
  BY <1>4, <1>5, <1>6 DEF BlockItem, Keep

LEMMA RecoverOrGoOnTrees == ASSUME TreesFit, RecoverOrGoOn PROVE TreesFit'
<1> DEFINE scope == Head(todo).scope
<1>1. PICK x \in Stack, z \in Stack, y \in Stack :
          Taken(x, z, y) /\ todo[1].do = "recover" /\ Head(todo) = todo[1]
  BY HeadTaken DEF RecoverOrGoOn
<1>2. Then(<< [do |-> "synchronize", scope |-> scope] >>) \/ Then(<< Do(scope) >>)
  BY DEF RecoverOrGoOn
<1>3. CASE scope = "item"
  <2>1. PICK r \in Stack, t \in {"any", "node"} : x = On("node", On("block", r)) /\ z = On(t, r)
    BY <1>1, <1>3 DEF Taken, Step
  <2>2. Replace(2, Listed(values[2], Top))
    BY <1>3 DEF RecoverOrGoOn
  <2>3. Is(Top, "node") /\ Is(values[2], "block")
    BY <1>1, <2>1, TopTrees DEF Taken
  <2>4. Is(Listed(values[2], Top), "block")
    BY <2>3, IsLess, ListedTree DEF Lists
  <2>5. PICK q : q = On("block", r)
    OBVIOUS
  <2>6. q \in Stack /\ Fits(values', q)
    BY <1>1, <2>1, <2>2, <2>4, <2>5, Replace2, OnStack DEF Taken
  <2>7. Leads(<< [do |-> "synchronize", scope |-> scope] >>, q, z)
    <3>1. PICK s : s = [do |-> "synchronize", scope |-> "item"]
      OBVIOUS
    <3>2. Step(s, q, z) /\ s.do # "operand"
      BY <3>1, <2>1, <2>5, RecoverTrees
    <3> QED
      BY <3>1, <3>2, <1>3, <2>6, Leads1
  <2>8. Leads(<< Do(scope) >>, q, z)
    BY <1>3, <2>1, <2>5, <2>6, StepsOverTrees, Leads1, KindsAreNoOperands
  <2> QED
    BY <1>1, <1>2, <2>6, <2>7, <2>8, Continues DEF Taken
<1>4. CASE scope # "item"
  <2>1. PICK r \in Stack : x = On("unit", r) /\ z = x /\ scope = "unit"
    BY <1>1, <1>4 DEF Taken, Step
  <2>2. values' = values
    BY <1>4 DEF RecoverOrGoOn
  <2>7. Leads(<< [do |-> "synchronize", scope |-> scope] >>, x, z)
    <3>1. PICK s : s = [do |-> "synchronize", scope |-> "unit"]
      OBVIOUS
    <3>2. Step(s, x, z) /\ s.do # "operand"
      BY <3>1, <2>1, RecoverTrees
    <3> QED
      BY <3>1, <3>2, <2>1, Leads1
  <2>8. Leads(<< Do(scope) >>, x, z)
    BY <2>1, StepsOverTrees, Leads1, KindsAreNoOperands
  <2> QED
    BY <1>1, <1>2, <2>2, <2>7, <2>8, Continues DEF Taken
<1> QED
  BY <1>3, <1>4

LEMMA SynchronizeTrees == ASSUME TreesFit, Synchronize PROVE TreesFit'
<1> DEFINE scope == Head(todo).scope
<1>1. PICK x \in Stack, z \in Stack, y \in Stack :
          Taken(x, z, y) /\ todo[1].do = "synchronize" /\ Head(todo) = todo[1]
  BY HeadTaken DEF Synchronize
<1>2. values' = values /\ (Then(<< Do(scope) >>) \/ todo' = todo)
  BY DEF Synchronize
<1>3. CASE todo' = todo
  <2>1. PICK t, vs : t = todo' /\ vs = values'
    OBVIOUS
  <2>2. Leads(t, x, y) /\ Fits(vs, x)
    BY <1>1, <1>2, <1>3, <2>1 DEF Taken
  <2> QED
    BY <1>1, <2>1, <2>2 DEF TreesFit
<1>4. CASE Then(<< Do(scope) >>)
  <2>1. Step(Do(scope), x, z) /\ Do(scope).do # "operand"
    <3>1. CASE scope = "item"
      <4>1. PICK r \in Stack, t \in {"any", "node"} : x = On("block", r) /\ z = On(t, r)
        BY <1>1, <3>1 DEF Taken, Step
      <4> QED
        BY <3>1, <4>1, StepsOverTrees, KindsAreNoOperands
    <3>2. CASE scope # "item"
      <4>1. PICK r \in Stack : x = On("unit", r) /\ z = x /\ scope = "unit"
        BY <1>1, <3>2 DEF Taken, Step
      <4> QED
        BY <4>1, StepsOverTrees, KindsAreNoOperands
    <3> QED
      BY <3>1, <3>2
  <2>2. Leads(<< Do(scope) >>, x, z)
    BY <1>1, <2>1, Leads1
  <2> QED
    BY <1>1, <1>2, <1>4, <2>2, Continues DEF Taken
<1> QED
  BY <1>2, <1>3, <1>4

-----------------------------------------------------------------------------
(* Declarations.                                                           *)

LEMMA SpecsTrees ==
  /\ \A types : TypeOfSpecs(types) \in {"void", "long", "int", "invalid"}
  /\ \A ty \in TypeSpecifiers : /\ \A class : Is(<< ty, class >>, "specs")
                                /\ Is(<< ty >>, "any")
<1>1. ASSUME NEW types PROVE TypeOfSpecs(types) \in {"void", "long", "int", "invalid"}
  BY DEF TypeOfSpecs
<1>2. ASSUME NEW ty \in TypeSpecifiers PROVE ty \notin Lists
  BY <1>2 DEF TypeSpecifiers, Lists
<1>3. ASSUME NEW ty \in TypeSpecifiers, NEW class PROVE Is(<< ty, class >>, "specs")
  <2>1. PICK v : v = << ty, class >>
    OBVIOUS
  <2>2. v[1] = ty
    BY <2>1
  <2>3. Is(v, "specs")
    BY <2>2, <1>2, <1>3 DEF Is, Whole, Lists
  <2> QED
    BY <2>1, <2>3
<1>4. ASSUME NEW ty \in TypeSpecifiers PROVE Is(<< ty >>, "any")
  <2>1. << ty >>[1] = ty
    OBVIOUS
  <2> QED
    BY <2>1, <1>2, <1>4, AnyTree
<1> QED
  BY <1>1, <1>3, <1>4

LEMMA ParseDeclarationSpecsTrees == ASSUME TreesFit, ParseDeclarationSpecs PROVE TreesFit'
<1> DEFINE types == Head(todo).types
           class == Head(todo).class
           ty == TypeOfSpecs(types)
<1>1. PICK x \in Stack, z \in Stack, y \in Stack : Taken(x, z, y) /\ todo[1].do = "specs"
  BY HeadTaken DEF ParseDeclarationSpecs
<1>2. z = On("specs", x)
  BY <1>1 DEF Taken, Step
<1>3. \A k, l : Leads(<< Specs(k, l) >>, x, z)
  BY <1>2, Leads1, StepKinds, KindsAreNoOperands
<1>4. CASE Push(<< IF ty = "invalid" THEN "int" ELSE ty, class >>) /\ Then(<< >>)
  <2>1. PICK tt : tt = IF ty = "invalid" THEN "int" ELSE ty
    OBVIOUS
  <2>2. tt \in TypeSpecifiers
    <3>1. ty \in {"void", "long", "int", "invalid"}
      BY SpecsTrees
    <3> HIDE DEF ty
    <3> QED
      BY <2>1, <3>1 DEF TypeSpecifiers
  <2>3. Is(<< tt, class >>, "specs")
    BY <2>2, SpecsTrees
  <2>4. Push(<< tt, class >>)
    BY <1>4, <2>1
  <2>5. Fits(values', z)
    BY <1>1, <1>2, <2>3, <2>4, PushFits DEF Taken
  <2> QED
    BY <1>1, <1>4, <2>5, EndsTaken DEF Taken
<1>5. CASE Then(<< Specs(Append(types, Current), class) >>) /\ values' = values
  BY <1>1, <1>3, <1>5, Continues DEF Taken
<1>6. CASE Then(<< Specs(types, Current) >>) /\ values' = values
  BY <1>1, <1>3, <1>6, Continues DEF Taken
<1>7. \/ Push(<< IF ty = "invalid" THEN "int" ELSE ty, class >>) /\ Then(<< >>)
      \/ Then(<< Specs(Append(types, Current), class) >>) /\ values' = values
      \/ Then(<< Specs(types, Current) >>) /\ values' = values
  BY DEF ParseDeclarationSpecs
<1> QED
  BY <1>4, <1>5, <1>6, <1>7

LEMMA TypeNameTrees == ASSUME TreesFit, TypeName PROVE TreesFit'
<1>1. PICK x \in Stack, z \in Stack, y \in Stack : Taken(x, z, y) /\ todo[1].do = "typename"
  BY HeadTaken DEF TypeName
<1>2. PICK r \in Stack : x = On("specs", r) /\ z = On("any", r)
  BY <1>1 DEF Taken, Step
<1>3. Is(Top, "specs")
  BY <1>1, <1>2, TopTree DEF Taken
<1>4. Is(<< Top[1] >>, "any")
  <2>1. Top[1] \in TypeSpecifiers
    BY <1>3 DEF Is
  <2> QED
    BY <2>1, SpecsTrees
<1>5. Replace(1, << Top[1] >>) /\ Then(<< >>)
  BY DEF TypeName
<1>6. Fits(values', z)
  BY <1>1, <1>2, <1>4, <1>5, Replace1 DEF Taken
<1> QED
  BY <1>1, <1>5, <1>6, EndsTaken DEF Taken

\* The steps that carry what is known of a declaration.
LEMMA CarryingSteps ==
  ASSUME NEW x \in Stack, NEW specs, NEW name, NEW fileScope
  PROVE  /\ Step([do |-> "declared", specs |-> specs, name |-> name], x, On("declarator", x))
         /\ [do |-> "declared", specs |-> specs, name |-> name].do # "operand"
         /\ Step([do |-> "function", specs |-> specs, name |-> name], On("list", x), On("declarator", x))
         /\ [do |-> "function", specs |-> specs, name |-> name].do # "operand"
         /\ \A t \in {"any", "node", "decl"} :
               /\ Step([do |-> "first", fileScope |-> fileScope], On("specs", x), On(t, x))
               /\ Step([do |-> "body", fileScope |-> fileScope], On("declarator", On("specs", x)), On(t, x))
         /\ [do |-> "first", fileScope |-> fileScope].do # "operand"
         /\ [do |-> "body", fileScope |-> fileScope].do # "operand"
<1>1. \A s : s.do = "declared" => Step(s, x, On("declarator", x))
  BY DEF Step
<1>2. \A s : s.do = "function" => Step(s, On("list", x), On("declarator", x))
  BY DEF Step
<1>3. \A s : s.do = "first" => \A t \in {"any", "node", "decl"} : Step(s, On("specs", x), On(t, x))
  BY DEF Step
<1>4. \A s : s.do = "body" => \A t \in {"any", "node", "decl"} : Step(s, On("declarator", On("specs", x)), On(t, x))
  BY DEF Step
<1>5. /\ [do |-> "declared", specs |-> specs, name |-> name].do = "declared"
      /\ [do |-> "function", specs |-> specs, name |-> name].do = "function"
      /\ [do |-> "first", fileScope |-> fileScope].do = "first"
      /\ [do |-> "body", fileScope |-> fileScope].do = "body"
  OBVIOUS
<1> QED
  BY <1>1, <1>2, <1>3, <1>4, <1>5

LEMMA ParseDeclaratorTrees == ASSUME TreesFit, ParseDeclarator PROVE TreesFit'
<1>1. PICK x \in Stack, z \in Stack, y \in Stack : Taken(x, z, y) /\ todo[1].do = "declarator"
  BY HeadTaken DEF ParseDeclarator
<1>2. z = On("declarator", x)
  BY <1>1 DEF Taken, Step
<1>3. PICK sp, na : Then(<< [do |-> "declared", specs |-> sp, name |-> na] >>) /\ values' = values
  BY DEF ParseDeclarator
<1>4. Leads(<< [do |-> "declared", specs |-> sp, name |-> na] >>, x, z)
  BY <1>2, CarryingSteps, Leads1
<1> QED
  BY <1>1, <1>3, <1>4, Continues DEF Taken

LEMMA DeclaredTrees == ASSUME TreesFit, Declared PROVE TreesFit'
<1>1. PICK x \in Stack, z \in Stack, y \in Stack : Taken(x, z, y) /\ todo[1].do = "declared"
  BY HeadTaken DEF Declared
<1>2. z = On("declarator", x)
  BY <1>1 DEF Taken, Step
<1>3. PICK sp, na : sp = Head(todo).specs /\ na = Head(todo).name
  OBVIOUS
<1>4. CASE Push(EmptyList) /\ Then(<< Do("parameters"), [do |-> "function", specs |-> sp, name |-> na] >>)
  <2>1. PICK q : q = On("list", x)
    OBVIOUS
  <2>2. q \in Stack /\ Fits(values', q)
    BY <1>1, <1>4, <2>1, PushFits, LeafTrees, OnStack DEF Taken
  <2>3. Leads(<< Do("parameters"), [do |-> "function", specs |-> sp, name |-> na] >>, q, z)
    <3>1. Step(Do("parameters"), q, q) /\ Do("parameters").do # "operand"
      BY <2>1, StepsOverTrees, KindsAreNoOperands
    <3> QED
      BY <1>2, <2>1, <2>2, <3>1, CarryingSteps, Leads2
  <2> QED
    BY <1>1, <1>4, <2>2, <2>3, Continues DEF Taken
<1>5. CASE Push(<< "object", sp, na, Absent >>) /\ Then(<< >>)
  <2>1. Fits(values', z)
    BY <1>1, <1>2, <1>5, PushFits, DeclaratorTrees DEF Taken
  <2> QED
    BY <1>1, <1>5, <2>1, EndsTaken DEF Taken
<1> QED
  BY <1>3, <1>4, <1>5 DEF Declared

LEMMA FunctionDeclaredTrees == ASSUME TreesFit, FunctionDeclared PROVE TreesFit'
<1>1. PICK x \in Stack, z \in Stack, y \in Stack : Taken(x, z, y) /\ todo[1].do = "function"
  BY HeadTaken DEF FunctionDeclared
<1>2. PICK r \in Stack : x = On("list", r) /\ z = On("declarator", r)
  BY <1>1 DEF Taken, Step
<1>3. PICK v : /\ Replace(1, v) /\ Then(<< >>)
               /\ v = << "function", Head(todo).specs, Head(todo).name, Top, Absent >>
  BY DEF FunctionDeclared
<1>4. Is(v, "declarator")
  BY <1>3, DeclaratorTrees
<1>5. Fits(values', z)
  BY <1>1, <1>2, <1>3, <1>4, Replace1 DEF Taken
<1> QED
  BY <1>1, <1>3, <1>5, EndsTaken DEF Taken

LEMMA ParameterLeads ==
  ASSUME NEW r \in Stack
  PROVE  Leads(Parameter, On("list", r), On("list", r))
<1>1. PICK x : x = On("list", r)
  OBVIOUS
<1>2. x \in Stack
  BY <1>1, OnStack
<1>3. Step(Specs(<< >>, "none"), x, On("specs", x))
  BY StepKinds
<1>4. Step(Do("parameter"), On("specs", x), On("declarator", x))
  BY <1>2, StepsOverTrees
<1>5. Step(Do("nextparameter"), On("declarator", x), x)
  BY <1>1, StepsOverTrees
<1>6. Leads(<< Specs(<< >>, "none"), Do("parameter"), Do("nextparameter") >>, x, x)
  BY <1>2, <1>3, <1>4, <1>5, Leads3, KindsAreNoOperands
<1> QED
  BY <1>1, <1>6 DEF Parameter

LEMMA ParseParameterListTrees == ASSUME TreesFit, ParseParameterList PROVE TreesFit'
<1>1. PICK x \in Stack, z \in Stack, y \in Stack : Taken(x, z, y) /\ todo[1].do = "parameters"
  BY HeadTaken DEF ParseParameterList
<1>2. PICK r \in Stack : x = On("list", r) /\ z = On("list", r)
  BY <1>1 DEF Taken, Step
<1>3. values' = values
  BY DEF ParseParameterList
<1>4. CASE Then(<< >>)
  BY <1>1, <1>2, <1>3, <1>4, EndsTaken DEF Taken
<1>5. CASE Then(<< Do("advance"), Do("advance") >>)
  <2>1. Leads(<< Do("advance"), Do("advance") >>, x, x)
    BY Leads2, StepKinds, KindsAreNoOperands
  <2> QED
    BY <1>1, <1>2, <1>3, <1>5, <2>1, Continues DEF Taken
<1>6. CASE Then(Parameter)
  <2>1. Leads(Parameter, x, z)
    BY <1>2, ParameterLeads
  <2> QED
    BY <1>1, <1>3, <1>6, <2>1, Continues DEF Taken
<1> QED
  BY <1>4, <1>5, <1>6 DEF ParseParameterList

LEMMA ParameterDeclaratorTrees == ASSUME TreesFit, ParameterDeclarator PROVE TreesFit'
<1>1. PICK x \in Stack, z \in Stack, y \in Stack : Taken(x, z, y) /\ todo[1].do = "parameter"
  BY HeadTaken DEF ParameterDeclarator
<1>2. PICK r \in Stack : x = On("specs", r) /\ z = On("declarator", r)
  BY <1>1 DEF Taken, Step
<1>3. Fits(Tail(values), r)
  BY <1>1, <1>2, TopFits DEF Taken
<1>4. Then(<< Declarator(Top, TRUE) >>) /\ values' = Tail(values)
  BY DEF ParameterDeclarator
<1>5. Leads(<< Declarator(Top, TRUE) >>, r, z)
  BY <1>2, Leads1, StepKinds, KindsAreNoOperands
<1> QED
  BY <1>1, <1>3, <1>4, <1>5, Continues DEF Taken

LEMMA NextParameterTrees == ASSUME TreesFit, NextParameter PROVE TreesFit'
<1>1. PICK x \in Stack, z \in Stack, y \in Stack : Taken(x, z, y) /\ todo[1].do = "nextparameter"
  BY HeadTaken DEF NextParameter
<1>2. PICK r \in Stack : x = On("declarator", On("list", r)) /\ z = On("list", r)
  BY <1>1 DEF Taken, Step
<1>3. Replace(2, Listed(values[2], Top)) /\ (Then(Parameter) \/ Then(<< >>))
  BY DEF NextParameter
<1>4. Is(Top, "declarator") /\ Is(values[2], "list")
  BY <1>1, <1>2, TopTrees DEF Taken
<1>5. Is(Listed(values[2], Top), "list")
  BY <1>4, IsLess, ListedTree DEF Lists
<1>6. Fits(values', z)
  BY <1>1, <1>2, <1>3, <1>5, Replace2 DEF Taken
<1>7. Leads(Parameter, z, z)
  BY <1>2, ParameterLeads
<1>8. CASE Then(Parameter)
  BY <1>1, <1>6, <1>7, <1>8, Continues DEF Taken
<1>9. CASE Then(<< >>)
  BY <1>1, <1>6, <1>9, EndsTaken DEF Taken
<1> QED
  BY <1>3, <1>8, <1>9

LEMMA InitDeclaratorTrees == ASSUME TreesFit, InitDeclarator PROVE TreesFit'
<1>1. PICK x \in Stack, z \in Stack, y \in Stack : Taken(x, z, y) /\ todo[1].do = "init"
  BY HeadTaken DEF InitDeclarator
<1>2. PICK r \in Stack : x = On("declarator", r) /\ z = On("declarator", r)
  BY <1>1 DEF Taken, Step
<1>3. values' = values /\ (Then(<< Condition, Do("initializer") >>) \/ Then(<< >>))
  BY DEF InitDeclarator
<1>4. CASE Then(<< >>)
  BY <1>1, <1>2, <1>3, <1>4, EndsTaken DEF Taken
<1>5. CASE Then(<< Condition, Do("initializer") >>)
  <2>1. Step(Condition, x, On("any", x))
    BY StepKinds
  <2>2. Step(Do("initializer"), On("any", x), z)
    BY <1>2, StepsOverTrees
  <2>3. Leads(<< Condition, Do("initializer") >>, x, z)
    BY <2>1, <2>2, Leads2, KindsAreNoOperands
  <2> QED
    BY <1>1, <1>3, <1>5, <2>3, Continues DEF Taken
<1> QED
  BY <1>3, <1>4, <1>5

LEMMA InitializerTrees == ASSUME TreesFit, Initializer PROVE TreesFit'
<1>1. PICK x \in Stack, z \in Stack, y \in Stack : Taken(x, z, y) /\ todo[1].do = "initializer"
  BY HeadTaken DEF Initializer
<1>2. PICK r \in Stack : x = On("any", On("declarator", r)) /\ z = On("declarator", r)
  BY <1>1 DEF Taken, Step
<1>3. Is(values[2], "declarator")
  BY <1>1, <1>2, TopTrees DEF Taken
<1>4. Is([values[2] EXCEPT ![4] = Top], "declarator")
  BY <1>3, ChangedDeclarator
<1>5. PICK v : Replace(2, v) /\ v \in {values[2], [values[2] EXCEPT ![4] = Top]} /\ Then(<< >>)
  BY DEF Initializer
<1>6. Is(v, "declarator")
  BY <1>3, <1>4, <1>5
<1>7. Fits(values', z)
  BY <1>1, <1>2, <1>5, <1>6, Replace2 DEF Taken
<1> QED
  BY <1>1, <1>5, <1>7, EndsTaken DEF Taken

LEMMA ParseDeclarationTrees == ASSUME TreesFit, ParseDeclaration PROVE TreesFit'
<1>1. PICK x \in Stack, z \in Stack, y \in Stack : Taken(x, z, y) /\ todo[1].do = "declaration"
  BY HeadTaken DEF ParseDeclaration
<1>2. PICK t \in {"any", "node", "decl"} : z = On(t, x)
  BY <1>1 DEF Taken, Step
<1>3. PICK f : Then(<< Specs(<< >>, "none"), [do |-> "first", fileScope |-> f] >>) /\ values' = values
  BY DEF ParseDeclaration
<1>4. Step(Specs(<< >>, "none"), x, On("specs", x))
  BY StepKinds
<1>5. Step([do |-> "first", fileScope |-> f], On("specs", x), z)
  BY <1>2, CarryingSteps
<1>6. Leads(<< Specs(<< >>, "none"), [do |-> "first", fileScope |-> f] >>, x, z)
  BY <1>4, <1>5, Leads2, KindsAreNoOperands, CarryingSteps
<1> QED
  BY <1>1, <1>3, <1>6, Continues DEF Taken

LEMMA FirstDeclaratorTrees == ASSUME TreesFit, FirstDeclarator PROVE TreesFit'
<1>1. PICK x \in Stack, z \in Stack, y \in Stack : Taken(x, z, y) /\ todo[1].do = "first"
  BY HeadTaken DEF FirstDeclarator
<1>2. PICK r \in Stack, t \in {"any", "node", "decl"} : x = On("specs", r) /\ z = On(t, r)
  BY <1>1 DEF Taken, Step
<1>3. PICK f : /\ Then(<< Declarator(Top, FALSE), Do("init"), [do |-> "body", fileScope |-> f] >>)
               /\ values' = values
  BY DEF FirstDeclarator
<1>4. Step(Declarator(Top, FALSE), x, On("declarator", x))
  BY StepKinds
<1>5. Step(Do("init"), On("declarator", x), On("declarator", x))
  BY StepsOverTrees
<1>6. Step([do |-> "body", fileScope |-> f], On("declarator", x), z)
  BY <1>2, CarryingSteps
<1>7. Leads(<< Declarator(Top, FALSE), Do("init"), [do |-> "body", fileScope |-> f] >>, x, z)
  BY <1>4, <1>5, <1>6, Leads3, KindsAreNoOperands, CarryingSteps
<1> QED
  BY <1>1, <1>3, <1>7, Continues DEF Taken

LEMMA FunctionBodyTrees == ASSUME TreesFit, FunctionBody PROVE TreesFit'
<1>1. PICK x \in Stack, z \in Stack, y \in Stack : Taken(x, z, y) /\ todo[1].do = "body"
  BY HeadTaken DEF FunctionBody
<1>2. PICK r \in Stack, t \in {"any", "node", "decl"} :
          x = On("declarator", On("specs", r)) /\ z = On(t, r)
  BY <1>1 DEF Taken, Step
<1>3. CASE Then(<< Do("block"), Do("define") >>) /\ values' = values
  <2>1. Step(Do("block"), x, On("any", x))
    BY StepKinds
  <2>2. Step(Do("define"), On("any", x), z)
    BY <1>2, StepsOverTrees
  <2>3. Leads(<< Do("block"), Do("define") >>, x, z)
    BY <2>1, <2>2, Leads2, KindsAreNoOperands
  <2> QED
    BY <1>1, <1>3, <2>3, Continues DEF Taken
<1>4. CASE Then(<< Do("declarators") >>) /\ Replace(1, Listed(EmptyList, Top))
  <2>1. PICK s : s = On("specs", r)
    OBVIOUS
  <2>2. s \in Stack
    BY <2>1, OnStack
  <2>3. Is(Top, "declarator")
    BY <1>1, <1>2, <2>1, <2>2, TopTree DEF Taken
  <2>4. Is(Listed(EmptyList, Top), "list")
    BY <2>3, IsLess, LeafTrees, ListedTree DEF Lists
  <2>5. Fits(values', On("list", s))
    BY <1>1, <1>2, <1>4, <2>1, <2>2, <2>4, Replace1 DEF Taken
  <2>6. On("list", s) \in Stack
    BY <2>2, OnStack
  <2>7. Step(Do("declarators"), On("list", s), z)
    BY <1>2, <2>1, StepsOverTrees
  <2>8. Leads(<< Do("declarators") >>, On("list", s), z)
    BY <2>6, <2>7, Leads1, KindsAreNoOperands
  <2> QED
    BY <1>1, <1>4, <2>5, <2>6, <2>8, Continues DEF Taken
<1> QED
  BY <1>3, <1>4 DEF FunctionBody

LEMMA DefineTrees == ASSUME TreesFit, Define PROVE TreesFit'
<1>1. PICK x \in Stack, z \in Stack, y \in Stack : Taken(x, z, y) /\ todo[1].do = "define"
  BY HeadTaken DEF Define
<1>2. PICK r \in Stack, t \in {"any", "node", "decl"} :
          x = On("any", On("declarator", On("specs", r))) /\ z = On(t, r)
  BY <1>1 DEF Taken, Step
<1>3. Is(values[2], "declarator")
  <2>1. On("specs", r) \in Stack
    BY OnStack
  <2> QED
    BY <1>1, <1>2, <2>1, TopTrees DEF Taken
<1>4. PICK d, v : d = [values[2] EXCEPT ![5] = Top] /\ v = << "decl", Listed(EmptyList, d) >>
  OBVIOUS
<1>5. Is(d, "declarator")
  BY <1>3, <1>4, ChangedDeclarator
<1>6. Is(Listed(EmptyList, d), "list")
  BY <1>5, IsLess, LeafTrees, ListedTree DEF Lists
<1>7. Is(v, t)
  BY <1>4, <1>6, DeclTree
<1>8. Replace(3, v) /\ Then(<< >>)
  BY <1>4 DEF Define
<1>9. Fits(values', z)
  BY <1>1, <1>2, <1>7, <1>8, Replace3 DEF Taken
<1> QED
  BY <1>1, <1>8, <1>9, EndsTaken DEF Taken

LEMMA DeclaratorsTrees == ASSUME TreesFit, Declarators PROVE TreesFit'
<1>1. PICK x \in Stack, z \in Stack, y \in Stack : Taken(x, z, y) /\ todo[1].do = "declarators"
  BY HeadTaken DEF Declarators
<1>2. PICK r \in Stack, t \in {"any", "node", "decl"} : x = On("list", On("specs", r)) /\ z = On(t, r)
  BY <1>1 DEF Taken, Step
<1>3. CASE /\ values' = values
           /\ Then(<< Declarator(values[2], FALSE), Do("init"), Do("nextdeclarator") >>)
  <2>1. Step(Declarator(values[2], FALSE), x, On("declarator", x))
    BY StepKinds
  <2>2. Step(Do("init"), On("declarator", x), On("declarator", x))
    BY StepsOverTrees
  <2>3. Step(Do("nextdeclarator"), On("declarator", x), z)
    BY <1>2, StepsOverTrees
  <2>4. Leads(<< Declarator(values[2], FALSE), Do("init"), Do("nextdeclarator") >>, x, z)
    BY <2>1, <2>2, <2>3, Leads3, KindsAreNoOperands
  <2> QED
    BY <1>1, <1>3, <2>4, Continues DEF Taken
<1>4. CASE Replace(2, << "decl", Top >>) /\ Then(<< >>)
  <2>1. On("specs", r) \in Stack
    BY OnStack
  <2>2. Is(Top, "list")
    BY <1>1, <1>2, <2>1, TopTree DEF Taken
  <2>3. Is(<< "decl", Top >>, t)
    BY <2>2, DeclTree
  <2>4. Fits(values', z)
    BY <1>1, <1>2, <1>4, <2>3, Replace2 DEF Taken
  <2> QED
    BY <1>1, <1>4, <2>4, EndsTaken DEF Taken
<1> QED
  BY <1>3, <1>4 DEF Declarators

LEMMA NextDeclaratorTrees == ASSUME TreesFit, NextDeclarator PROVE TreesFit'
<1>1. PICK x \in Stack, z \in Stack, y \in Stack : Taken(x, z, y) /\ todo[1].do = "nextdeclarator"
  BY HeadTaken DEF NextDeclarator
<1>2. PICK r \in Stack, t \in {"any", "node", "decl"} :
          x = On("declarator", On("list", On("specs", r))) /\ z = On(t, r)
  BY <1>1 DEF Taken, Step
<1>3. PICK s, q : s = On("specs", r) /\ q = On("list", s)
  OBVIOUS
<1>4. s \in Stack /\ q \in Stack
  BY <1>3, OnStack
<1>5. Replace(2, Listed(values[2], Top)) /\ Then(<< Do("declarators") >>)
  BY DEF NextDeclarator
<1>6. Is(Top, "declarator") /\ Is(values[2], "list")
  BY <1>1, <1>2, <1>3, <1>4, TopTrees DEF Taken
<1>7. Is(Listed(values[2], Top), "list")
  BY <1>6, IsLess, ListedTree DEF Lists
<1>8. Fits(values', q)
  BY <1>1, <1>2, <1>3, <1>4, <1>5, <1>7, Replace2 DEF Taken
<1>9. Leads(<< Do("declarators") >>, q, z)
  BY <1>2, <1>3, <1>4, StepsOverTrees, Leads1, KindsAreNoOperands
<1> QED
  BY <1>1, <1>4, <1>5, <1>8, <1>9, Continues DEF Taken

LEMMA ExternalDeclarationTrees == ASSUME TreesFit, ExternalDeclaration PROVE TreesFit'
<1>1. PICK x \in Stack, z \in Stack, y \in Stack : Taken(x, z, y) /\ todo[1].do = "unit"
  BY HeadTaken DEF ExternalDeclaration
<1>2. PICK r \in Stack : x = On("unit", r) /\ z = On("unit", r)
  BY <1>1 DEF Taken, Step
<1>3. values' = values
  BY DEF ExternalDeclaration
<1>4. Step(Recover("unit"), x, z) /\ Recover("unit").do # "operand"
  BY <1>2, RecoverTrees
<1>5. CASE Then(<< >>)
  BY <1>1, <1>2, <1>3, <1>5, EndsTaken DEF Taken
<1>6. CASE Then(<< Declaration(TRUE), Do("concat"), Recover("unit") >>)
  <2>1. Step(Declaration(TRUE), x, On("decl", x))
    BY StepKinds
  <2>2. Step(Do("concat"), On("decl", x), x)
    BY <1>2, StepsOverTrees
  <2>3. PICK a, b, c : a = Declaration(TRUE) /\ b = Do("concat") /\ c = Recover("unit")
    OBVIOUS
  <2>4. a.do # "operand" /\ b.do # "operand" /\ c.do # "operand"
    BY <1>4, <2>3, KindsAreNoOperands
  <2>5. Leads(<< a, b, c >>, x, z)
    BY <1>4, <2>1, <2>2, <2>3, <2>4, Leads3
  <2> QED
    BY <1>1, <1>3, <1>6, <2>3, <2>5, Continues DEF Taken
<1>7. CASE Then(<< Recover("unit") >>)
  <2>1. Leads(<< Recover("unit") >>, x, z)
    BY <1>4, Leads1
  <2> QED
    BY <1>1, <1>3, <1>7, <2>1, Continues DEF Taken
<1> QED
  BY <1>5, <1>6, <1>7 DEF ExternalDeclaration

LEMMA ConcatTrees == ASSUME TreesFit, Concat PROVE TreesFit'
<1>1. PICK x \in Stack, z \in Stack, y \in Stack : Taken(x, z, y) /\ todo[1].do = "concat"
  BY HeadTaken DEF Concat
<1>2. PICK r \in Stack : x = On("decl", On("unit", r)) /\ z = On("unit", r)
  BY <1>1 DEF Taken, Step
<1>3. Is(Top, "decl") /\ Is(values[2], "unit")
  BY <1>1, <1>2, TopTrees DEF Taken
<1>4. Is(<< "unit", values[2][2] \o Top[2][2] >>, "unit")
  BY <1>3, UnitTree
<1>5. Replace(2, << "unit", values[2][2] \o Top[2][2] >>) /\ Then(<< >>)
  BY DEF Concat
<1>6. Fits(values', z)
  BY <1>1, <1>2, <1>4, <1>5, Replace2 DEF Taken
<1> QED
  BY <1>1, <1>5, <1>6, EndsTaken DEF Taken

-----------------------------------------------------------------------------
(* The whole specification.                                                *)

LEMMA ReadingTrees == ASSUME TreesFit, Lex \/ EndOfFile PROVE TreesFit'
<1>1. PICK x \in Stack, y \in Stack : Fits(values, x) /\ (Leads(todo, x, y) \/ AtItem(x, y))
  BY DEF TreesFit
<1>2. ~Ready /\ todo' = todo /\ values' = values
  BY DEF Lex, EndOfFile
<1>3. Leads(todo, x, y)
  BY <1>1, <1>2 DEF AtItem
<1>4. PICK t, vs : t = todo' /\ vs = values'
  OBVIOUS
<1>5. Leads(t, x, y) /\ Fits(vs, x)
  BY <1>1, <1>2, <1>3, <1>4
<1> QED
  BY <1>4, <1>5 DEF TreesFit

LEMMA WaitingTrees == ASSUME TreesFit, UNCHANGED vars PROVE TreesFit'
<1>1. /\ todo' = todo /\ values' = values /\ source' = source /\ parser' = parser
  BY DEF vars
<1>2. Ready' = Ready /\ (Current \notin DeclarationStarts)' = (Current \notin DeclarationStarts)
  BY <1>1 DEF Ready, After, Current, Kind
<1> QED
  BY <1>1, <1>2 DEF TreesFit, AtItem, Fits, Leads

LEMMA InitTrees == ASSUME Init PROVE TreesFit
<1>1. PICK u, r : u = << "unit", << >> >> /\ r = << >>
  OBVIOUS
<1>2. r \in Stack /\ Fits(r, r)
  <2>1. r \in Seq(TreeType) /\ DOMAIN r = {}
    BY <1>1
  <2> QED
    BY <2>1 DEF Stack, Fits, IsSeq
<1>3. PICK x : x = On("unit", r)
  OBVIOUS
<1>4. x \in Stack
  BY <1>2, <1>3, OnStack
<1>5. Fits(<< u >> \o r, x)
  BY <1>1, <1>2, <1>3, LeafTrees, FitsOn
<1>6. << u >> \o r = << u >>
  BY <1>1
<1>7. values = << u >>
  BY <1>1 DEF Init
<1>8. Leads(<< Do("advance"), Do("unit") >>, x, x)
  <2>1. Step(Do("advance"), x, x) /\ Step(Do("unit"), x, x)
    BY <1>2, <1>3, StepKinds, StepsOverTrees
  <2> QED
    BY <1>4, <2>1, Leads2, KindsAreNoOperands
<1>9. todo = << Do("advance"), Do("unit") >>
  BY DEF Init
<1> QED
  BY <1>4, <1>5, <1>6, <1>7, <1>8, <1>9 DEF TreesFit

LEMMA ParseTrees == ASSUME TreesFit, Parse PROVE TreesFit'
<1>1. CASE Proceed \/ Consumed \/ Optional \/ Made
  BY <1>1, MovesTrees, OptionalTrees, MadeTrees
<1>2. CASE ParseExpression \/ Operand \/ GroupingOrCast \/ ParseInfix \/ Colon \/ Arguments \/ Argument
  BY <1>2, ParseExpressionTrees, OperandTrees, GroupingOrCastTrees, ParseInfixTrees, ColonTrees, ArgumentsTrees,
     ArgumentTrees
<1>3. CASE ParseStatement \/ Else \/ ForInit \/ ParseBlock \/ BlockItem
  BY <1>3, ParseStatementTrees, ElseTrees, ForInitTrees, ParseBlockTrees, BlockItemTrees
<1>4. CASE RecoverOrGoOn \/ Synchronize
  BY <1>4, RecoverOrGoOnTrees, SynchronizeTrees
<1>5. CASE ParseDeclarationSpecs \/ TypeName \/ ParseDeclarator \/ Declared \/ FunctionDeclared
  BY <1>5, ParseDeclarationSpecsTrees, TypeNameTrees, ParseDeclaratorTrees, DeclaredTrees, FunctionDeclaredTrees
<1>6. CASE ParseParameterList \/ ParameterDeclarator \/ NextParameter \/ InitDeclarator \/ Initializer
  BY <1>6, ParseParameterListTrees, ParameterDeclaratorTrees, NextParameterTrees, InitDeclaratorTrees,
     InitializerTrees
<1>7. CASE ParseDeclaration \/ FirstDeclarator \/ FunctionBody \/ Define \/ Declarators \/ NextDeclarator
  BY <1>7, ParseDeclarationTrees, FirstDeclaratorTrees, FunctionBodyTrees, DefineTrees, DeclaratorsTrees,
     NextDeclaratorTrees
<1>8. CASE ExternalDeclaration \/ Concat
  BY <1>8, ExternalDeclarationTrees, ConcatTrees
<1> QED
  BY <1>1, <1>2, <1>3, <1>4, <1>5, <1>6, <1>7, <1>8 DEF Parse

LEMMA NextTrees == TreesFit /\ [Next]_vars => TreesFit'
BY ReadingTrees, WaitingTrees, ParseTrees DEF Next

LEMMA TreesFitWhole == ASSUME TreesFit PROVE ListsWhole
<1>1. PICK x \in Stack : \A i \in DOMAIN values : Is(values[i], x[i])
  BY DEF TreesFit, Fits
<1>2. \A i \in DOMAIN values : Whole(values[i])
  BY <1>1 DEF Is
<1> QED
  BY <1>2 DEF Whole, WholeSeq, Lists, ListsWhole

\* LIST_APPEND is never given a missing tree, whatever is wrong with the file:
\* where a function of parser.c returned none, its caller lets the list alone,
\* or gives up what the list was to be part of.
THEOREM ListsStayWhole == Spec => []ListsWhole
<1>1. Init => TreesFit
  BY InitTrees
<1>2. TreesFit => ListsWhole
  BY TreesFitWhole
<1> QED
  BY <1>1, <1>2, NextTrees, PTL DEF Spec

=============================================================================
