------------------------ MODULE StatementCode_proof ------------------------
(***************************************************************************)
(* Proofs about module StatementCode, for any kinds of statement, any     *)
(* functions made of them and any values: no label is written twice and   *)
(* every jump goes to a label of its own function. The trees the parser   *)
(* hands over give every break, continue, case and goto a target in its   *)
(* function; each form of statement writes the labels that belong to it   *)
(* once and jumps to those or to its targets'; and while statements are   *)
(* visited, what was visited has its labels and what was not has its      *)
(* place. At the end everything was visited.                              *)
(***************************************************************************)
EXTENDS StatementCode, FiniteSetTheorems, WellFoundedInduction, TLAPS

-----------------------------------------------------------------------------
(* Smallest elements                                                       *)

\* The least-number principle, from the well-foundedness of < on Nat.
LEMMA SmallestInNat ==
  ASSUME NEW T, T \subseteq Nat, T # {}
  PROVE  \E m \in T : \A k \in T : m <= k
<1> DEFINE R == OpToRel(<, Nat)
<1>1. \A p, q \in Nat : p < q => << p, q >> \in R
  BY DEF OpToRel
<1>2. IsWellFoundedOn(R, Nat)
  BY NatLessThanWellFounded, Zenon
<1> HIDE DEF R
<1>3. PICK m \in T : \A k \in T : ~(<< k, m >> \in R)
  BY <1>2, WFMin, Zenon
<1>4. \A k \in T : k \in Nat /\ m \in Nat /\ ~(k < m)
  BY <1>1, <1>3
<1> QED
  BY <1>4


-----------------------------------------------------------------------------
(* Trees of statements                                                     *)

USE TreeAssumption DEF None


\* A statement is numbered after the one it is in.
Numbered(a) == /\ Len(a) \in Nat /\ DOMAIN a = 1 .. Len(a)
               /\ \A n \in DOMAIN a : a[n].parent \in 0 .. n - 1

\* The search of Around, of any tree.
Found(a, kinds, f, m) == IF m = None \/ a[m].kind \in kinds THEN m ELSE f[a[m].parent]
Search(a, kinds) == CHOOSE f : f = [m \in DOMAIN a \cup {None} |-> Found(a, kinds, f, m)]

LEMMA AroundIsSearch == ASSUME NEW n, NEW kinds PROVE Around(n, kinds) = Search(ast, kinds)[n]
BY DEF Around, Search, Found, Stmts

\* It is defined for every statement of a numbered tree.
LEMMA SearchDefined ==
  ASSUME NEW a, Numbered(a), NEW kinds
  PROVE  \A m \in DOMAIN a \cup {None} : Search(a, kinds)[m] = Found(a, kinds, Search(a, kinds), m)
<1> DEFINE n == Len(a)
           Upto(k, f) == f = [m \in 0 .. k |-> Found(a, kinds, f, m)]
           T == {k \in 0 .. n : ~ \E f : Upto(k, f)}
<1>0. n \in Nat /\ DOMAIN a \cup {None} = 0 .. n /\ \A m \in 1 .. n : a[m].parent \in 0 .. m - 1
  BY DEF Numbered
<1>1. ASSUME T # {} PROVE FALSE
  <2>1. PICK k \in T : \A j \in T : k <= j
    <3>1. T \subseteq Nat
      OBVIOUS
    <3> HIDE DEF T
    <3> QED
      BY <1>1, <3>1, SmallestInNat
  <2>2. k # 0
    <3>1. Upto(0, [m \in 0 .. 0 |-> 0])
      <4> DEFINE f == [m \in 0 .. 0 |-> 0]
      <4>1. \A m \in 0 .. 0 : f[m] = Found(a, kinds, f, m)
        BY DEF Found
      <4>2. f = [m \in 0 .. 0 |-> f[m]]
        OBVIOUS
      <4> HIDE DEF f
      <4>3. f = [m \in 0 .. 0 |-> Found(a, kinds, f, m)]
        BY <4>1, <4>2
      <4> QED
        BY <4>3 DEF f
    <3> HIDE DEF Upto
    <3> QED
      BY <3>1
  <2>3. k \in 1 .. n /\ k \in Nat /\ k - 1 \in 0 .. n
    BY <1>0, <2>2
  <2>4. k - 1 \notin T
    BY <2>1, <2>3
  <2>5. PICK g : Upto(k - 1, g)
    <3> HIDE DEF Upto
    <3> QED
      BY <2>3, <2>4
  <2> DEFINE f == [m \in 0 .. k |-> IF m = k THEN Found(a, kinds, g, k) ELSE g[m]]
  <2>6. \A m \in 0 .. k - 1 : f[m] = g[m] /\ g[m] = Found(a, kinds, g, m)
    <3>1. g = [m \in 0 .. k - 1 |-> Found(a, kinds, g, m)]
      BY <2>5
    <3>2. \A m \in 0 .. k - 1 : g[m] = Found(a, kinds, g, m)
      BY <3>1, Zenon
    <3>3. \A m \in 0 .. k - 1 : m \in 0 .. k /\ m # k
      BY <2>3
    <3> QED
      BY <3>2, <3>3
  <2>7. ASSUME NEW m \in 0 .. k PROVE f[m] = Found(a, kinds, f, m)
    <3>1. m # 0 => a[m].parent \in 0 .. k - 1
      BY <1>0, <2>3
    <3>2. m # 0 => f[a[m].parent] = g[a[m].parent]
      BY <2>6, <3>1
    <3>3. f[m] = Found(a, kinds, g, m)
      <4>1. CASE m = k
        BY <4>1
      <4>2. CASE m # k
        <5>1. m \in 0 .. k - 1
          BY <2>3, <4>2
        <5> QED
          BY <2>6, <5>1
      <4> QED
        BY <4>1, <4>2
    <3> HIDE DEF f
    <3> QED
      BY <3>2, <3>3 DEF Found
  <2>8. Upto(k, f)
    <3>1. f = [m \in 0 .. k |-> f[m]]
      OBVIOUS
    <3> HIDE DEF f
    <3> QED
      BY <2>7, <3>1
  <2> HIDE DEF Upto, f
  <2> QED
    BY <2>8
<1>2. \E f : Upto(n, f)
  <2> HIDE DEF Upto
  <2>1. n \in 0 .. n
    BY <1>0
  <2> QED
    BY <1>1, <2>1
<1>3. Upto(n, Search(a, kinds))
  <2>1. \E f : f = [m \in DOMAIN a \cup {None} |-> Found(a, kinds, f, m)]
    BY <1>0, <1>2
  <2>2. Search(a, kinds) = [m \in DOMAIN a \cup {None} |-> Found(a, kinds, Search(a, kinds), m)]
    BY <2>1, Zenon DEF Search
  <2> QED
    BY <1>0, <2>2
<1> HIDE DEF Search
<1> QED
  BY <1>0, <1>3

\* The function every statement is in, by the numbers.
Homes(a, home) ==
    \A n \in DOMAIN a : home[n] = IF a[n].parent = None THEN n ELSE home[a[n].parent]

\* What is found is of the kinds wanted and in the same function.
LEMMA SearchFinds ==
  ASSUME NEW a, Numbered(a), NEW kinds, NEW home, Homes(a, home), NEW n \in DOMAIN a \cup {None},
         NEW w, w = Search(a, kinds)[n]
  PROVE  /\ w # None => w \in DOMAIN a /\ a[w].kind \in kinds /\ n # None /\ home[w] = home[n]
         /\ n # None /\ (\A m \in DOMAIN a : a[m].parent = None => a[m].kind \in kinds) => w # None
<1> DEFINE s == Search(a, kinds)
           Rooted == \A i \in DOMAIN a : a[i].parent = None => a[i].kind \in kinds
           Right(m) ==
              /\ s[m] # None => /\ s[m] \in DOMAIN a /\ a[s[m]].kind \in kinds /\ m # None
                                /\ home[s[m]] = home[m]
              /\ m # None /\ Rooted => s[m] # None
           T == {m \in DOMAIN a \cup {None} : ~Right(m)}
<1>0. /\ DOMAIN a \cup {None} \subseteq Nat /\ None \notin DOMAIN a
      /\ \A m \in DOMAIN a : a[m].parent \in DOMAIN a \cup {None} /\ a[m].parent < m
  BY DEF Numbered
<1>1. \A m \in DOMAIN a \cup {None} : s[m] = Found(a, kinds, s, m)
  BY SearchDefined
<1> HIDE DEF s
<1>2. ASSUME T # {} PROVE FALSE
  <2>1. PICK m \in T : \A j \in T : m <= j
    <3>1. T \subseteq Nat
      BY <1>0
    <3> HIDE DEF T
    <3> QED
      BY <1>2, <3>1, SmallestInNat
  <2>2. m \in DOMAIN a \cup {None} /\ ~Right(m) /\ s[m] = Found(a, kinds, s, m)
    BY <1>1
  <2>3. CASE m = None \/ a[m].kind \in kinds
    <3>1. s[m] = m
      BY <2>2, <2>3 DEF Found
    <3>2. Right(m)
      BY <1>0, <2>2, <2>3, <3>1
    <3> HIDE DEF Right
    <3> QED
      BY <2>2, <3>2
  <2>4. CASE ~(m = None \/ a[m].kind \in kinds)
    <3>1. PICK q : q = a[m].parent /\ q \in DOMAIN a \cup {None} /\ q < m /\ s[m] = s[q]
      BY <1>0, <2>2, <2>4 DEF Found
    <3>2. Right(q)
      <4>1. q \in Nat /\ m \in Nat /\ ~(m <= q)
        BY <1>0, <2>2, <3>1
      <4>2. q \notin T
        BY <2>1, <4>1
      <4> HIDE DEF Right
      <4> QED
        BY <3>1, <4>2
    <3>3. q # None => home[m] = home[q]
      BY <2>2, <2>4, <3>1 DEF Homes
    <3>4. q = None => s[q] = None
      BY <1>1 DEF Found
    <3>5. s[m] = s[q] /\ m # None /\ ~(a[m].kind \in kinds)
      BY <2>4, <3>1
    <3>6. q = None => ~Rooted
      BY <2>2, <3>1, <3>5
    <3>7. Right(m)
      <4>1. CASE q = None
        BY <3>4, <3>5, <3>6, <4>1
      <4>2. CASE q # None
        <5>1. home[m] = home[q]
          BY <3>3, <4>2
        <5>2. s[q] # None => s[q] \in DOMAIN a /\ a[s[q]].kind \in kinds /\ home[s[q]] = home[q]
          BY <3>2
        <5>3. Rooted => s[q] # None
          BY <3>2, <4>2
        <5>4. PICK x, y : x = s[m] /\ x = s[q] /\ y = home[q] /\ y = home[m]
          BY <3>5, <5>1
        <5> QED
          BY <3>5, <5>2, <5>3, <5>4
      <4> QED
        BY <4>1, <4>2
    <3> HIDE DEF Right
    <3> QED
      BY <2>2, <3>7
  <2> QED
    BY <2>3, <2>4
<1>3. Right(n)
  BY <1>2
<1> QED
  BY <1>3 DEF s

-----------------------------------------------------------------------------
(* Sets of numbers in order                                                *)

HIDE TreeAssumption DEF None

Increasing(s, k) == \A i, j \in 1 .. k : i < j => s[i] < s[j]
Listing(s, k, S) == /\ k \in Nat /\ s \in [1 .. k -> S] /\ Increasing(s, k)
                  /\ \A x \in S : \E i \in 1 .. k : s[i] = x

\* One more number, larger than all.
LEMMA ListingMore ==
  ASSUME NEW S, NEW n \in Nat, S \subseteq 1 .. n, NEW k, NEW s, Listing(s, k, S), NEW x \in Nat, x > n
  PROVE  \E r : Listing(r, k + 1, S \cup {x})
<1> DEFINE s2 == [i \in 1 .. k + 1 |-> IF i = k + 1 THEN x ELSE s[i]]
<1>1. /\ k \in Nat /\ k + 1 \in 1 .. k + 1 /\ s2[k + 1] = x
      /\ \A i \in 1 .. k : i \in 1 .. k + 1 /\ s2[i] = s[i] /\ s[i] \in S /\ s[i] \in 1 .. n
      /\ \A i \in 1 .. k + 1 : i = k + 1 \/ i \in 1 .. k
  <2>1. k \in Nat /\ s \in [1 .. k -> S]
    BY DEF Listing
  <2>2. k + 1 \in 1 .. k + 1 /\ s2[k + 1] = x /\ \A i \in 1 .. k + 1 : i = k + 1 \/ i \in 1 .. k
    BY <2>1
  <2>3. \A i \in 1 .. k : i \in 1 .. k + 1 /\ i # k + 1
    BY <2>1
  <2>4. \A i \in 1 .. k : s2[i] = s[i] /\ s[i] \in S /\ s[i] \in 1 .. n
    BY <2>1, <2>3
  <2> QED
    BY <2>1, <2>2, <2>3, <2>4
<1>2. s2 \in [1 .. k + 1 -> S \cup {x}]
  <2>1. \A i \in 1 .. k + 1 : s2[i] \in S \cup {x}
    BY <1>1
  <2> QED
    BY <2>1
<1> HIDE DEF s2
<1>3. Increasing(s2, k + 1)
  <2>1. ASSUME NEW i \in 1 .. k + 1, NEW j \in 1 .. k + 1, i < j PROVE s2[i] < s2[j]
    <3>1. i \in 1 .. k
      BY <1>1, <2>1
    <3>2. s2[i] \in 1 .. n /\ s2[i] = s[i]
      BY <1>1, <3>1
    <3>3. CASE j = k + 1
      BY <1>1, <3>2, <3>3
    <3>4. CASE j \in 1 .. k
      BY <1>1, <2>1, <3>1, <3>4 DEF Listing, Increasing
    <3> QED
      BY <1>1, <3>3, <3>4
  <2> QED
    BY <2>1 DEF Increasing
<1>4. ASSUME NEW y \in S \cup {x} PROVE \E i \in 1 .. k + 1 : s2[i] = y
  <2>1. CASE y = x
    BY <1>1, <2>1
  <2>2. CASE y \in S
    <3>1. PICK i \in 1 .. k : s[i] = y
      BY <2>2 DEF Listing
    <3> QED
      BY <1>1, <3>1
  <2> QED
    BY <2>1, <2>2
<1>5. Listing(s2, k + 1, S \cup {x})
  <2>1. k + 1 \in Nat
    BY <1>1
  <2> QED
    BY <2>1, <1>2, <1>3, <1>4 DEF Listing
<1> QED
  BY <1>5

\* Every set of numbers up to a bound is listed.
LEMMA ListExists ==
  ASSUME NEW n \in Nat, NEW S, S \subseteq 1 .. n
  PROVE  \E k, s : Listing(s, k, S)
<1> DEFINE Upto(j) == S \cap 1 .. j
           T == {j \in 0 .. n : ~ \E k, s : Listing(s, k, Upto(j))}
<1>1. ASSUME T # {} PROVE FALSE
  <2>1. PICK j \in T : \A i \in T : j <= i
    <3>1. T \subseteq Nat
      OBVIOUS
    <3> HIDE DEF T
    <3> QED
      BY <1>1, <3>1, SmallestInNat
  <2>2. CASE j = 0
    <3>1. Upto(0) = {}
      OBVIOUS
    <3>2. PICK s : s = [i \in 1 .. 0 |-> 0]
      OBVIOUS
    <3>3. s \in [1 .. 0 -> {}]
      BY <3>2
    <3>4. Listing(s, 0, {})
      BY <3>3 DEF Listing, Increasing
    <3>5. Listing(s, 0, Upto(j))
      BY <2>2, <3>1, <3>4
    <3> QED
      BY <3>5
  <2>3. CASE j # 0
    <3>1. j \in 1 .. n /\ j - 1 \in 0 .. n /\ j - 1 \in Nat /\ j > j - 1 /\ ~(j <= j - 1)
      BY <2>3
    <3>2. j - 1 \notin T
      BY <2>1, <3>1
    <3>3. PICK k, s : Listing(s, k, Upto(j - 1))
      BY <3>1, <3>2
    <3>4. CASE j \in S
      <4>1. Upto(j) = Upto(j - 1) \cup {j} /\ Upto(j - 1) \subseteq 1 .. j - 1
        BY <3>1, <3>4
      <4> HIDE DEF Upto
      <4>2. \E r : Listing(r, k + 1, Upto(j - 1) \cup {j})
        <5>1. PICK U : U = Upto(j - 1)
          OBVIOUS
        <5>2. PICK m \in Nat : m = j - 1 /\ j \in Nat /\ j > m
          BY <3>1
        <5>3. U \subseteq 1 .. m /\ Listing(s, k, U)
          BY <3>3, <4>1, <5>1, <5>2
        <5>4. \E r : Listing(r, k + 1, U \cup {j})
          BY <5>2, <5>3, ListingMore
        <5> QED
          BY <5>1, <5>4
      <4>3. \E r : Listing(r, k + 1, Upto(j))
        BY <4>1, <4>2
      <4> QED
        BY <4>3
    <3>5. CASE j \notin S
      <4>1. Upto(j) = Upto(j - 1)
        BY <3>1, <3>5
      <4> HIDE DEF Upto
      <4> QED
        BY <3>3, <4>1
    <3> QED
      BY <3>4, <3>5
  <2> QED
    BY <2>2, <2>3
<1>2. Upto(n) = S /\ n \in 0 .. n
  <2>1. n \in 0 .. n
    OBVIOUS
  <2>2. Upto(n) = S
    BY Zenon
  <2> QED
    BY <2>1, <2>2
<1> HIDE DEF Upto
<1> QED
  BY <1>1, <1>2

\* So InOrder lists it.
LEMMA InOrderLists ==
  ASSUME NEW n \in Nat, NEW S, S \subseteq 1 .. n
  PROVE  Listing(InOrder(S), Cardinality(S), S)
<1>1. PICK k, s : Listing(s, k, S)
  BY ListExists
<1>2. \A i, j \in 1 .. k : s[i] = s[j] => i = j
  <2>1. \A i \in 1 .. k : s[i] \in Nat
    <3>1. \A i \in 1 .. k : s[i] \in S
      BY <1>1 DEF Listing
    <3>2. \A x \in S : x \in Nat
      OBVIOUS
    <3> QED
      BY <3>1, <3>2
  <2> QED
    BY <1>1, <2>1 DEF Listing, Increasing
<1>3. Cardinality(S) = k /\ IsFiniteSet(S) /\ k \in Nat
  <2>1. IsFiniteSet(1 .. k) /\ Cardinality(1 .. k) = k /\ k \in Nat
    BY <1>1, FS_Interval DEF Listing
  <2>2. s \in Bijection(1 .. k, S)
    BY <1>1, <1>2 DEF Listing, Bijection, Injection, Surjection, IsInjective
  <2>3. ExistsBijection(1 .. k, S)
    BY <2>2 DEF ExistsBijection
  <2> QED
    BY <2>1, <2>3, FS_Bijection
<1>4. PICK s2 : s2 = InOrder(S)
  OBVIOUS
<1>5. s2 \in [1 .. k -> S] /\ \A i, j \in DOMAIN s2 : i < j => s2[i] < s2[j]
  <2>1. s \in [1 .. k -> S] /\ \A i, j \in DOMAIN s : i < j => s[i] < s[j]
    BY <1>1 DEF Listing, Increasing
  <2>2. s2 = CHOOSE r \in [1 .. k -> S] : \A i, j \in DOMAIN r : i < j => r[i] < r[j]
    BY <1>3, <1>4 DEF InOrder
  <2> QED
    BY <2>1, <2>2
<1>6. \A i, j \in 1 .. k : s2[i] = s2[j] => i = j
  <2>1. \A i \in 1 .. k : s2[i] \in Nat
    <3>1. \A i \in 1 .. k : s2[i] \in S
      BY <1>5
    <3>2. \A x \in S : x \in Nat
      OBVIOUS
    <3> QED
      BY <3>1, <3>2
  <2> QED
    BY <1>3, <1>5, <2>1
<1>7. \A x \in S : \E i \in 1 .. k : s2[i] = x
  <2>1. IsFiniteSet(1 .. k) /\ Cardinality(1 .. k) = k
    BY <1>3, FS_Interval
  <2>2. s2 \in Injection(1 .. k, S)
    BY <1>5, <1>6 DEF Injection, IsInjective
  <2>3. s2 \in Surjection(1 .. k, S)
    BY <1>3, <2>1, <2>2, FS_Injection
  <2> QED
    BY <2>3 DEF Surjection
<1> QED
  BY <1>3, <1>4, <1>5, <1>7 DEF Listing, Increasing

-----------------------------------------------------------------------------
(* What the statements of a unit are like                                  *)

USE TreeAssumption

Stmt == [kind : StmtKind \cup {"function"}, parent : Nat, kids : Seq(Nat),
         parts : SUBSET {"init", "cond", "post", "expr"}, value : Int, target : Nat]

\* The labels a statement of a kind has of its own.
LabelKinds(kind) == CASE kind \in LoopKind -> {"break", "continue"}
                      [] kind = "switch" -> {"break"}
                      [] kind \in {"case", "default"} -> {"case"}
                      [] kind = "label" -> {"user"}
                      [] kind = "function" -> {"symbol"}
                      [] OTHER -> {}

\* Statement n is the sub-statement of its parent, once.
Kids(a) == /\ \A n \in DOMAIN a : \A i \in DOMAIN a[n].kids :
                 /\ a[n].kids[i] \in DOMAIN a /\ a[a[n].kids[i]].parent = n
                 /\ \A j \in DOMAIN a[n].kids : a[n].kids[i] = a[n].kids[j] => i = j
           /\ \A n \in DOMAIN a : a[n].parent # None =>
                 \E i \in DOMAIN a[a[n].parent].kids : a[a[n].parent].kids[i] = n

\* A statement has as many sub-statements as its kind asks for.
Filled(a, o) == \A n \in DOMAIN a :
    /\ a[n].kind \in LeafKind => a[n].kids = << >>
    /\ NeedsBody(a[n].kind) => /\ Len(a[n].kids) <= IF a[n].kind = "if" THEN 2 ELSE 1
                               /\ a[n].kids = << >> => n = o

\* The targets, all in the same function.
Target(a, r, home, n) ==
    LET t == a[n].target
        In(kinds) == t \in DOMAIN a /\ a[t].kind \in kinds /\ home[t] = home[n]
    IN CASE a[n].kind = "break" -> In(LoopKind \cup {"switch"})
         [] a[n].kind = "continue" -> In(LoopKind)
         [] a[n].kind \in {"case", "default"} -> In({"switch"})
         [] a[n].kind = "goto" -> r => In({"label"})
         [] OTHER -> TRUE

TreeOK(a, o, r, home) ==
    /\ a \in Seq(Stmt) /\ Numbered(a) /\ Homes(a, home) /\ Kids(a) /\ Filled(a, o)
    /\ \A n \in DOMAIN a : /\ a[n].parent = None <=> a[n].kind = "function"
                           /\ Target(a, r, home, n)
    /\ o \in DOMAIN a \cup {None} /\ (o # None => a[o].kind \notin LeafKind)
    /\ r \in BOOLEAN /\ (r => o = None)

\* What Around finds, from the statement that is open or any other.
LEMMA AroundFinds ==
  ASSUME Numbered(ast), NEW h, Homes(ast, h), NEW m \in DOMAIN ast \cup {None}, NEW kinds
  PROVE  /\ Around(m, kinds) \in Nat
         /\ Around(m, kinds) # None =>
               /\ Around(m, kinds) \in DOMAIN ast /\ m # None
               /\ ast[Around(m, kinds)].kind \in kinds
               /\ h[Around(m, kinds)] = h[m]
         /\ m # None /\ (\A i \in DOMAIN ast : ast[i].parent = None => ast[i].kind \in kinds)
               => Around(m, kinds) # None
<1>1. PICK a : a = ast
  OBVIOUS
<1>2. PICK w : w = Around(m, kinds)
  OBVIOUS
<1>6. w = Search(a, kinds)[m]
  BY <1>1, <1>2, AroundIsSearch
<1>3. Numbered(a) /\ Homes(a, h) /\ m \in DOMAIN a \cup {None}
  BY <1>1
<1>4. /\ w # None => w \in DOMAIN a /\ a[w].kind \in kinds /\ m # None /\ h[w] = h[m]
      /\ m # None /\ (\A i \in DOMAIN a : a[i].parent = None => a[i].kind \in kinds) => w # None
  BY <1>3, <1>6, SearchFinds
<1>5. w \in Nat
  BY <1>3, <1>4 DEF Numbered, None
<1> QED
  BY <1>1, <1>2, <1>4, <1>5

\* A statement is added below the one that is open.
USE DEF None
LEMMA AddKeeps ==
  ASSUME NEW h, TreeOK(ast, open, read, h), ~read, NEW kind \in StmtKind \cup {"function"},
         NEW parts \in SUBSET {"init", "cond", "post", "expr"}, NEW value \in Int,
         kind = "function" <=> open = None, open # None => Room,
         kind \in {"break", "continue", "case", "default"} => TargetOf(kind) # None,
         Add(kind, parts, value)
  PROVE  \E h2 : TreeOK(ast', open', read', h2)
<1> DEFINE n == Len(ast) + 1
           node == [kind |-> kind, parent |-> open, kids |-> << >>, parts |-> parts,
                    value |-> value, target |-> TargetOf(kind)]
           h2 == [m \in 1 .. n |-> IF m = n THEN (IF open = None THEN n ELSE h[open]) ELSE h[m]]
<1>1. /\ ast \in Seq(Stmt) /\ Numbered(ast) /\ Homes(ast, h) /\ Kids(ast) /\ Filled(ast, open)
      /\ \A m \in DOMAIN ast : ast[m].parent = None <=> ast[m].kind = "function"
      /\ \A m \in DOMAIN ast : Target(ast, read, h, m)
      /\ open \in DOMAIN ast \cup {None} /\ (open # None => ast[open].kind \notin LeafKind)
      /\ read = FALSE /\ DOMAIN ast = 1 .. Len(ast) /\ Len(ast) \in Nat
      /\ \A m \in DOMAIN ast : ast[m] \in Stmt
  BY DEF TreeOK, Numbered
<1>2. PICK len \in Nat : len = Len(ast)
  BY <1>1
<1>21. PICK a, o : a = ast /\ o = open
  OBVIOUS
<1>3. PICK a2, o2 : a2 = ast' /\ o2 = open'
  OBVIOUS
<1>4. TargetOf(kind) \in Nat
      /\ (kind \in {"break", "continue", "case", "default"} =>
             TargetOf(kind) \in DOMAIN ast /\ h[TargetOf(kind)] = h[open] /\ open # None)
      /\ (kind = "break" => ast[TargetOf(kind)].kind \in LoopKind \cup {"switch"})
      /\ (kind = "continue" => ast[TargetOf(kind)].kind \in LoopKind)
      /\ (kind \in {"case", "default"} => ast[TargetOf(kind)].kind \in {"switch"})
  <2>1. ASSUME NEW kinds
        PROVE  /\ Around(open, kinds) # None =>
                     /\ Around(open, kinds) \in DOMAIN ast /\ open # None
                     /\ ast[Around(open, kinds)].kind \in kinds
                     /\ h[Around(open, kinds)] = h[open]
               /\ Around(open, kinds) \in Nat
    BY <1>1, AroundFinds
  <2> HIDE DEF node, h2, n
  <2>2. CASE kind = "break"
    BY <2>1, <2>2 DEF TargetOf
  <2>3. CASE kind = "continue"
    BY <2>1, <2>3 DEF TargetOf
  <2>4. CASE kind \in {"case", "default"}
    BY <2>1, <2>4 DEF TargetOf, SwitchOf
  <2>5. CASE kind \notin {"break", "continue", "case", "default"}
    BY <2>5 DEF TargetOf
  <2> QED
    BY <2>2, <2>3, <2>4, <2>5
<1>5. PICK x : x = node /\ x \in Stmt
  <2>1. open \in Nat
    BY <1>1
  <2>2. << >> \in Seq(Nat)
    OBVIOUS
  <2>3. PICK u \in Nat, w \in Nat : u = TargetOf(kind) /\ w = open
    BY <1>4, <2>1
  <2>4. node = [kind |-> kind, parent |-> w, kids |-> << >>, parts |-> parts, value |-> value, target |-> u]
    BY <2>3
  <2> HIDE DEF node
  <2>5. node \in Stmt
    BY <2>2, <2>4 DEF Stmt
  <2> QED
    BY <2>5
<1>6. /\ Len(a2) = len + 1 /\ DOMAIN a2 = 1 .. len + 1 /\ a2[len + 1] = x
      /\ \A m \in 1 .. len : m # o => a2[m] = a[m]
      /\ o # None => o \in 1 .. len /\ a2[o] = [a[o] EXCEPT !.kids = Append(@, len + 1)]
      /\ a2 \in Seq(Stmt)
  <2>1. PICK siblings : siblings = IF open = None THEN ast ELSE [ast EXCEPT ![open].kids = Append(@, n)]
    OBVIOUS
  <2>2. a2 = Append(siblings, x)
    BY <1>3, <1>5, <2>1 DEF Add
  <2>3. /\ siblings \in Seq(Stmt) /\ Len(siblings) = len
        /\ \A m \in 1 .. len : m # o => siblings[m] = a[m]
        /\ o # None => o \in 1 .. len /\ siblings[o] = [a[o] EXCEPT !.kids = Append(@, len + 1)]
    <3>1. CASE open = None
      BY <1>1, <1>2, <1>21, <2>1, <3>1
    <3>2. CASE open # None
      <4>1. o \in 1 .. len /\ a[o] \in Stmt /\ a \in Seq(Stmt) /\ Len(a) = len /\ DOMAIN a = 1 .. len
        BY <1>1, <1>2, <1>21, <3>2
      <4>2. PICK y : y = [a[o] EXCEPT !.kids = Append(@, len + 1)] /\ y \in Stmt
        <5>1. a[o].kids \in Seq(Nat) /\ len + 1 \in Nat
          BY <4>1 DEF Stmt
        <5>2. Append(a[o].kids, len + 1) \in Seq(Nat)
          BY <5>1
        <5>3. PICK y : y = [a[o] EXCEPT !.kids = Append(@, len + 1)]
          OBVIOUS
        <5>4. y \in Stmt
          BY <4>1, <5>2, <5>3 DEF Stmt
        <5> QED
          BY <5>3, <5>4
      <4>3. siblings = [a EXCEPT ![o] = y]
        BY <1>2, <1>21, <2>1, <3>2, <4>2
      <4> QED
        BY <4>1, <4>2, <4>3
    <3> QED
      BY <3>1, <3>2
  <2>4. len + 1 \in Nat /\ \A m \in 1 .. len : m # len + 1
    OBVIOUS
  <2>5. /\ a2 \in Seq(Stmt) /\ Len(a2) = len + 1 /\ DOMAIN a2 = 1 .. len + 1
        /\ a2[len + 1] = x /\ \A m \in 1 .. len : a2[m] = siblings[m]
    BY <1>5, <2>2, <2>3
  <2> QED
    BY <2>3, <2>5
<1>7. /\ read' = FALSE /\ o2 = (IF kind \in LeafKind THEN o ELSE len + 1)
      /\ o \in (1 .. len) \cup {0} /\ DOMAIN a = 1 .. len /\ \A m \in 1 .. len : a[m] \in Stmt
      /\ n = len + 1
  BY <1>1, <1>2, <1>21, <1>3 DEF Add
<1>8. /\ x.kind = kind /\ x.parent = o /\ x.kids = << >> /\ x.target = TargetOf(kind)
  BY <1>5, <1>21
<1> DEFINE hh == [m \in 1 .. len + 1 |-> IF m = len + 1 THEN (IF o = None THEN len + 1 ELSE h[o]) ELSE h[m]]
<1> HIDE DEF node, h2, n
<1>9. ASSUME NEW m \in 1 .. len
      PROVE  /\ m \in 1 .. len + 1 /\ m # len + 1 /\ a2[m].kind = a[m].kind /\ a2[m].parent = a[m].parent
             /\ a2[m].target = a[m].target
             /\ a2[m].kids = IF m = o THEN Append(a[m].kids, len + 1) ELSE a[m].kids
             /\ a[m].kids \in Seq(Nat) /\ a[m].parent \in 0 .. m - 1
  <2>1. a[m] \in Stmt /\ m \in 1 .. len + 1 /\ m # len + 1
    BY <1>7
  <2>2. a[m].parent \in 0 .. m - 1
    BY <1>1, <1>21, <1>7 DEF Numbered
  <2>3. CASE m = o
    <3>1. PICK y \in Stmt : y = a[m] /\ a2[m] = [y EXCEPT !.kids = Append(@, len + 1)]
      BY <1>6, <1>7, <2>1, <2>3
    <3>2. /\ a2[m].kind = y.kind /\ a2[m].parent = y.parent /\ a2[m].target = y.target
          /\ a2[m].kids = Append(y.kids, len + 1) /\ y.kids \in Seq(Nat)
      BY <3>1 DEF Stmt
    <3> QED
      BY <2>1, <2>2, <2>3, <3>1, <3>2
  <2>4. CASE m # o
    BY <1>6, <2>1, <2>2, <2>4 DEF Stmt
  <2> QED
    BY <2>3, <2>4
<1>10. \A m \in 1 .. len + 1 : m = len + 1 \/ m \in 1 .. len
  OBVIOUS
<1>11. Numbered(a2)
  BY <1>6, <1>7, <1>8, <1>9, <1>10, SMTT(30) DEF Numbered
<1>12. /\ hh[len + 1] = (IF o = None THEN len + 1 ELSE h[o])
       /\ \A m \in 1 .. len : hh[m] = h[m]
  BY <1>9
<1> HIDE DEF hh
<1>13. Homes(a2, hh)
  <2>1. ASSUME NEW m \in 1 .. len + 1
        PROVE  hh[m] = IF a2[m].parent = None THEN m ELSE hh[a2[m].parent]
    <3>1. CASE m = len + 1
      BY <1>6, <1>7, <1>8, <1>12, <3>1
    <3>2. CASE m \in 1 .. len
      <4>1. a[m].parent # 0 => a[m].parent \in 1 .. len
        BY <1>9, <3>2
      <4>2. h[m] = IF a[m].parent = None THEN m ELSE h[a[m].parent]
        BY <1>1, <1>21, <1>7, <3>2 DEF Homes
      <4> QED
        BY <1>9, <1>12, <3>2, <4>1, <4>2
    <3> QED
      BY <1>10, <3>1, <3>2
  <2> QED
    BY <1>6, <2>1 DEF Homes
<1>14. Filled(a2, o2)
  <2>1. ASSUME NEW m \in 1 .. len + 1
        PROVE  /\ a2[m].kind \in LeafKind => a2[m].kids = << >>
               /\ NeedsBody(a2[m].kind) => /\ Len(a2[m].kids) <= IF a2[m].kind = "if" THEN 2 ELSE 1
                                           /\ a2[m].kids = << >> => m = o2
    <3>1. CASE m = len + 1
      <4>1. a2[m].kind = kind /\ a2[m].kids = << >> /\ Len(a2[m].kids) = 0
        BY <1>6, <1>8, <3>1
      <4> QED
        BY <1>7, <3>1, <4>1 DEF NeedsBody
    <3>2. CASE m \in 1 .. len /\ m # o
      <4>1. a2[m].kids = a[m].kids /\ a2[m].kind = a[m].kind /\ m \in DOMAIN a
        BY <1>7, <1>9, <3>2
      <4>2. Filled(a, o)
        BY <1>1, <1>21
      <4>3. /\ a[m].kind \in LeafKind => a[m].kids = << >>
            /\ NeedsBody(a[m].kind) => /\ Len(a[m].kids) <= IF a[m].kind = "if" THEN 2 ELSE 1
                                       /\ a[m].kids # << >>
        BY <3>2, <4>1, <4>2 DEF Filled
      <4> QED
        BY <4>1, <4>3
    <3>3. CASE m \in 1 .. len /\ m = o
      <4>1. a[o].kind \notin LeafKind /\ o # None
        BY <1>1, <1>7, <1>21, <3>3
      <4>2. Len(a2[m].kids) = Len(a[o].kids) + 1 /\ a2[m].kids # << >> /\ Len(a[o].kids) \in Nat
        <5>1. PICK ks \in Seq(Nat) : ks = a[o].kids /\ a2[m].kids = Append(ks, len + 1)
          BY <1>9, <3>3
        <5>2. Len(Append(ks, len + 1)) = Len(ks) + 1 /\ Len(ks) \in Nat /\ Len(<< >>) = 0
          BY <5>1
        <5>3. Append(ks, len + 1) # << >>
          BY <5>2
        <5> QED
          BY <5>1, <5>2, <5>3
      <4>3. NeedsBody(a[o].kind) => Len(a[o].kids) < IF a[o].kind = "if" THEN 2 ELSE 1
        <5>1. Room
          BY <1>21, <4>1
        <5> QED
          BY <1>21, <5>1 DEF Room, NeedsBody
      <4>4. PICK l \in Nat, w \in Nat, k \in {a[o].kind} :
               l = Len(a[o].kids) /\ w = (IF k = "if" THEN 2 ELSE 1)
        BY <4>2
      <4>5. a2[m].kind = k /\ k \notin LeafKind
        BY <1>9, <3>3, <4>1, <4>4
      <4>6. NeedsBody(k) => Len(a2[m].kids) <= w
        BY <4>2, <4>3, <4>4
      <4> QED
        BY <4>2, <4>4, <4>5, <4>6
    <3> QED
      BY <1>10, <3>1, <3>2, <3>3
  <2> QED
    BY <1>6, <2>1 DEF Filled
<1>15. Kids(a2)
  <2>0. \A m \in 1 .. len : \A i \in DOMAIN a[m].kids :
             /\ a[m].kids[i] \in 1 .. len /\ a[a[m].kids[i]].parent = m
             /\ \A j \in DOMAIN a[m].kids : a[m].kids[i] = a[m].kids[j] => i = j
    BY <1>1, <1>7, <1>21 DEF Kids
  <2>1. ASSUME NEW m \in 1 .. len + 1, NEW i \in DOMAIN a2[m].kids
        PROVE  /\ a2[m].kids[i] \in 1 .. len + 1 /\ a2[a2[m].kids[i]].parent = m
               /\ \A j \in DOMAIN a2[m].kids : a2[m].kids[i] = a2[m].kids[j] => i = j
    <3>1. m \in 1 .. len
      <4>1. CASE m = len + 1
        <5>1. a2[m].kids = << >>
          BY <1>6, <1>8, <4>1
        <5> QED
          BY <5>1
      <4> QED
        BY <1>10, <4>1
    <3>2. CASE m # o
      <4>1. a2[m].kids = a[m].kids
        BY <1>9, <3>1, <3>2
      <4>2. /\ a[m].kids[i] \in 1 .. len /\ a[a[m].kids[i]].parent = m
            /\ \A j \in DOMAIN a[m].kids : a[m].kids[i] = a[m].kids[j] => i = j
        BY <2>0, <3>1, <4>1
      <4> QED
        BY <1>9, <4>1, <4>2
    <3>3. CASE m = o
      <4>1. PICK ks \in Seq(Nat) : ks = a[m].kids /\ a2[m].kids = Append(ks, len + 1)
        BY <1>9, <3>1, <3>3
      <4>2. /\ DOMAIN a2[m].kids = 1 .. Len(ks) + 1 /\ a2[m].kids[Len(ks) + 1] = len + 1
            /\ DOMAIN ks = 1 .. Len(ks) /\ Len(ks) \in Nat /\ \A j \in DOMAIN ks : a2[m].kids[j] = ks[j]
        <5>0. len + 1 \in Nat
          OBVIOUS
        <5>1. PICK y, w : y \in Nat /\ y = len + 1 /\ w = Append(ks, y) /\ w = a2[m].kids
          BY <4>1, <5>0, Zenon
        <5>2. /\ DOMAIN w = 1 .. Len(ks) + 1 /\ w[Len(ks) + 1] = y
              /\ DOMAIN ks = 1 .. Len(ks) /\ Len(ks) \in Nat /\ \A j \in DOMAIN ks : w[j] = ks[j]
          BY <5>1
        <5> QED
          BY <5>1, <5>2
      <4>3. \A j \in DOMAIN ks : /\ ks[j] \in 1 .. len /\ a[ks[j]].parent = m
                                  /\ \A j2 \in DOMAIN ks : ks[j] = ks[j2] => j = j2
        BY <2>0, <3>1, <4>1
      <4>4. a2[len + 1].parent = m
        BY <1>6, <1>8, <3>3
      <4>5. ASSUME NEW j \in DOMAIN a2[m].kids
            PROVE  /\ j = Len(ks) + 1 => a2[m].kids[j] = len + 1
                   /\ j # Len(ks) + 1 => /\ j \in DOMAIN ks /\ a2[m].kids[j] = ks[j]
                                         /\ ks[j] \in 1 .. len /\ a2[ks[j]].parent = m /\ ks[j] # len + 1
        <5>1. j # Len(ks) + 1 => j \in DOMAIN ks
          BY <4>2
        <5> QED
          BY <1>9, <4>2, <4>3, <5>1
      <4>6. a2[m].kids[i] \in 1 .. len + 1 /\ a2[a2[m].kids[i]].parent = m
        <5>1. CASE i = Len(ks) + 1
          <6>1. a2[m].kids[i] = len + 1 /\ len + 1 \in 1 .. len + 1
            BY <4>5, <5>1
          <6> QED
            BY <4>4, <6>1
        <5>2. CASE i # Len(ks) + 1
          <6>1. a2[m].kids[i] = ks[i] /\ ks[i] \in 1 .. len /\ a2[ks[i]].parent = m
            BY <4>5, <5>2
          <6> QED
            BY <1>9, <6>1
        <5> QED
          BY <5>1, <5>2
      <4>7. ASSUME NEW j \in DOMAIN a2[m].kids, a2[m].kids[i] = a2[m].kids[j] PROVE i = j
        BY <4>3, <4>5, <4>7
      <4> QED
        BY <4>6, <4>7
    <3> QED
      BY <3>2, <3>3
  <2>2. ASSUME NEW m \in 1 .. len + 1, a2[m].parent # None
        PROVE  \E i \in DOMAIN a2[a2[m].parent].kids : a2[a2[m].parent].kids[i] = m
    <3>1. CASE m = len + 1
      <4>1. a2[m].parent = o /\ o \in 1 .. len
        BY <1>6, <1>7, <1>8, <2>2, <3>1
      <4>2. a2[o].kids = Append(a[o].kids, len + 1) /\ a[o].kids \in Seq(Nat)
        BY <1>9, <4>1
      <4>3. Len(a[o].kids) + 1 \in DOMAIN a2[o].kids /\ a2[o].kids[Len(a[o].kids) + 1] = len + 1
        BY <4>2
      <4> QED
        BY <3>1, <4>1, <4>3
    <3>2. CASE m \in 1 .. len
      <4>1. PICK q : q = a[m].parent /\ q = a2[m].parent /\ q \in 1 .. len
        BY <1>9, <2>2, <3>2
      <4>2. PICK i \in DOMAIN a[q].kids : a[q].kids[i] = m
        <5>1. Kids(a) /\ m \in DOMAIN a /\ a[m].parent # None
          BY <1>1, <1>7, <1>9, <1>21, <2>2, <3>2
        <5> QED
          BY <4>1, <5>1 DEF Kids
      <4>3. i \in DOMAIN a2[q].kids /\ a2[q].kids[i] = m
        <5>1. a[q].kids \in Seq(Nat) /\ a2[q].kids = IF q = o THEN Append(a[q].kids, len + 1) ELSE a[q].kids
          BY <1>9, <4>1
        <5> QED
          BY <4>2, <5>1
      <4> QED
        BY <4>1, <4>3
    <3> QED
      BY <1>10, <3>1, <3>2
  <2> QED
    BY <1>6, <2>1, <2>2 DEF Kids
<1>16. ASSUME NEW m \in 1 .. len + 1
       PROVE  (a2[m].parent = None <=> a2[m].kind = "function") /\ Target(a2, FALSE, hh, m)
  <2>1. CASE m = len + 1
    <3>1. a2[m].parent = o /\ a2[m].kind = kind /\ a2[m].target = TargetOf(kind)
      BY <1>6, <1>8, <2>1
    <3>2. PICK u : u = TargetOf(kind)
      OBVIOUS
    <3>3. kind \in {"break", "continue", "case", "default"} =>
             u \in 1 .. len /\ hh[u] = hh[m] /\ a2[u].kind = a[u].kind /\ u \in DOMAIN a2
      BY <1>4, <1>6, <1>7, <1>9, <1>12, <1>21, <2>1, <3>2
    <3>4. /\ (kind = "break" => a[u].kind \in LoopKind \cup {"switch"})
          /\ (kind = "continue" => a[u].kind \in LoopKind)
          /\ (kind \in {"case", "default"} => a[u].kind \in {"switch"})
      BY <1>4, <1>21, <3>2
    <3>5. Target(a2, FALSE, hh, m)
      BY <3>1, <3>2, <3>3, <3>4 DEF Target
    <3> QED
      BY <1>21, <3>1, <3>5
  <2>2. CASE m \in 1 .. len
    <3>1. (a[m].parent = None <=> a[m].kind = "function") /\ Target(a, FALSE, h, m)
      BY <1>1, <1>7, <1>21, <2>2
    <3>2. \A u \in DOMAIN a : u \in DOMAIN a2 /\ hh[u] = h[u] /\ a2[u].kind = a[u].kind
      BY <1>6, <1>7, <1>9, <1>12
    <3>3. hh[m] = h[m] /\ a2[m].kind = a[m].kind /\ a2[m].target = a[m].target
          /\ a2[m].parent = a[m].parent
      BY <1>9, <1>12, <2>2
    <3>4. Target(a2, FALSE, hh, m)
      BY <3>1, <3>2, <3>3 DEF Target
    <3> QED
      BY <3>1, <3>3, <3>4
  <2> QED
    BY <1>10, <2>1, <2>2
<1>17. o2 \in DOMAIN a2 \cup {None} /\ (o2 # None => a2[o2].kind \notin LeafKind)
  <2>1. CASE kind \in LeafKind
    BY <1>1, <1>6, <1>7, <1>9, <1>21, <2>1
  <2>2. CASE kind \notin LeafKind
    BY <1>6, <1>7, <1>8, <2>2
  <2> QED
    BY <2>1, <2>2
<1>18. TreeOK(a2, o2, FALSE, hh)
  BY <1>6, <1>11, <1>13, <1>14, <1>15, <1>16, <1>17 DEF TreeOK
<1> QED
  BY <1>3, <1>7, <1>18

\* The statement that is open is over.
LEMMA CloseKeeps ==
  ASSUME NEW h, TreeOK(ast, open, read, h), Close
  PROVE  TreeOK(ast', open', read', h)
<1>1. PICK a, o, o2 : a = ast /\ o = open /\ o2 = open'
  OBVIOUS
<1>2. /\ TreeOK(a, o, FALSE, h) /\ read' = FALSE /\ ast' = a /\ o2 = a[o].parent /\ o # None
      /\ a[o].kind \in {"function", "block"} \/ a[o].kids # << >>
  <2>1. read = FALSE
    BY DEF Close, TreeOK
  <2> QED
    BY <1>1, <2>1 DEF Close
<1>3. /\ a \in Seq(Stmt) /\ Numbered(a) /\ Homes(a, h) /\ Kids(a) /\ Filled(a, o) /\ o \in DOMAIN a
      /\ \A n \in DOMAIN a : (a[n].parent = None <=> a[n].kind = "function") /\ Target(a, FALSE, h, n)
  BY <1>2 DEF TreeOK
<1>4. Filled(a, o2)
  <2>1. NeedsBody(a[o].kind) => a[o].kids # << >>
    BY <1>2 DEF NeedsBody
  <2>2. \A n \in DOMAIN a : NeedsBody(a[n].kind) => a[n].kids # << >>
    BY <1>3, <2>1 DEF Filled
  <2> QED
    BY <1>3, <2>2 DEF Filled
<1>5. o2 \in DOMAIN a \cup {None} /\ (o2 # None => a[o2].kind \notin LeafKind)
  <2>1. o2 \in DOMAIN a \cup {None}
    <3>1. PICK len \in Nat : len = Len(a) /\ DOMAIN a = 1 .. len
      BY <1>3 DEF Numbered
    <3>2. o2 \in 0 .. o - 1
      BY <1>2, <1>3 DEF Numbered
    <3> QED
      BY <1>3, <3>1, <3>2
  <2>2. ASSUME o2 # None PROVE a[o2].kids # << >>
    <3>1. PICK i \in DOMAIN a[o2].kids : a[o2].kids[i] = o
      BY <1>2, <1>3, <2>2 DEF Kids
    <3> QED
      BY <3>1
  <2> QED
    BY <1>3, <2>1, <2>2 DEF Filled
<1>6. TreeOK(a, o2, FALSE, h)
  BY <1>3, <1>4, <1>5 DEF TreeOK
<1> QED
  BY <1>1, <1>2, <1>6

\* Gotos get their labels.
LEMMA FinishKeeps ==
  ASSUME NEW h, TreeOK(ast, open, read, h), Finish
  PROVE  TreeOK(ast', open', read', h)
<1>1. PICK a, a2 : a = ast /\ a2 = ast'
  OBVIOUS
<1>2. PICK to \in [Gotos -> Stmts] :
         /\ \A n \in Gotos : to[n] \in LabelsFor(n)
         /\ ast' = [n \in Stmts |-> IF n \in Gotos THEN [ast[n] EXCEPT !.target = to[n]] ELSE ast[n]]
  BY DEF Finish
<1>3. /\ a \in Seq(Stmt) /\ Numbered(a) /\ Homes(a, h) /\ Kids(a) /\ Filled(a, None)
      /\ \A n \in DOMAIN a : (a[n].parent = None <=> a[n].kind = "function") /\ Target(a, FALSE, h, n)
      /\ open = None /\ open' = None /\ read' = TRUE /\ Gotos = {n \in DOMAIN a : a[n].kind = "goto"}
  <2>1. open = None /\ open' = open /\ read' = TRUE /\ read = FALSE
    BY DEF Finish, TreeOK
  <2>2. Gotos = {n \in DOMAIN a : a[n].kind = "goto"}
    BY <1>1 DEF Gotos, Stmts
  <2> QED
    BY <1>1, <2>1, <2>2 DEF TreeOK
<1>4. \A n \in Gotos : /\ to[n] \in DOMAIN a /\ a[to[n]].kind = "label" /\ h[to[n]] = h[n]
  <2> SUFFICES ASSUME NEW n \in Gotos
               PROVE  to[n] \in DOMAIN a /\ a[to[n]].kind = "label" /\ h[to[n]] = h[n]
    OBVIOUS
  <2>1. PICK l : l = to[n]
    OBVIOUS
  <2>2. l \in DOMAIN a /\ a[l].kind = "label" /\ FunctionOf(l) = FunctionOf(n)
    BY <1>1, <1>2, <2>1 DEF LabelsFor, Stmts
  <2>3. n \in DOMAIN a /\ n # None
    BY <1>3 DEF Numbered
  <2>4. \A m \in DOMAIN ast : ast[m].parent = None => ast[m].kind \in {"function"}
    BY <1>1, <1>3
  <2>5. ASSUME NEW m \in DOMAIN a, m # None PROVE h[FunctionOf(m)] = h[m]
    <3>1. Numbered(ast) /\ Homes(ast, h) /\ m \in DOMAIN ast \cup {None}
      BY <1>1, <1>3
    <3>2. Around(m, {"function"}) # None
      BY <2>4, <2>5, <3>1, AroundFinds
    <3> QED
      BY <3>1, <3>2, AroundFinds DEF FunctionOf
  <2>6. l # None
    BY <1>3, <2>2 DEF Numbered
  <2> QED
    BY <2>1, <2>2, <2>3, <2>5, <2>6
<1>5. /\ DOMAIN a2 = DOMAIN a /\ Len(a2) = Len(a) /\ a2 \in Seq(Stmt)
      /\ \A n \in DOMAIN a : /\ a2[n].kind = a[n].kind /\ a2[n].parent = a[n].parent
                             /\ a2[n].kids = a[n].kids
                             /\ a2[n].target = IF n \in Gotos THEN to[n] ELSE a[n].target
  <2>1. a2 = [n \in DOMAIN a |-> IF n \in Gotos THEN [a[n] EXCEPT !.target = to[n]] ELSE a[n]]
    BY <1>1, <1>2 DEF Stmts
  <2>2. PICK len \in Nat : len = Len(a) /\ DOMAIN a = 1 .. len
    BY <1>3 DEF Numbered
  <2>3. ASSUME NEW n \in DOMAIN a
        PROVE  /\ a2[n].kind = a[n].kind /\ a2[n].parent = a[n].parent /\ a2[n].kids = a[n].kids
               /\ a2[n].target = (IF n \in Gotos THEN to[n] ELSE a[n].target) /\ a2[n] \in Stmt
    <3>1. PICK y \in Stmt : y = a[n]
      BY <1>3
    <3>2. CASE n \in Gotos
      <4>1. PICK l \in Nat : l = to[n]
        BY <1>4, <2>2, <3>2
      <4>2. a2[n] = [y EXCEPT !.target = l]
        BY <2>1, <3>1, <3>2, <4>1
      <4> QED
        BY <3>1, <3>2, <4>1, <4>2 DEF Stmt
    <3>3. CASE n \notin Gotos
      BY <2>1, <3>1, <3>3
    <3> QED
      BY <3>2, <3>3
  <2>4. a2 = [n \in 1 .. len |-> a2[n]]
    BY <2>1, <2>2
  <2>5. a2 \in Seq(Stmt) /\ Len(a2) = len
    BY <2>2, <2>3, <2>4
  <2> QED
    BY <2>1, <2>2, <2>3, <2>5
<1>6. Numbered(a2) /\ Homes(a2, h)
  BY <1>3, <1>5 DEF Numbered, Homes
<1>7. Kids(a2)
  <2>1. ASSUME NEW n \in DOMAIN a2, NEW i \in DOMAIN a2[n].kids
        PROVE  /\ a2[n].kids[i] \in DOMAIN a2 /\ a2[a2[n].kids[i]].parent = n
               /\ \A j \in DOMAIN a2[n].kids : a2[n].kids[i] = a2[n].kids[j] => i = j
    <3>1. n \in DOMAIN a /\ a2[n].kids = a[n].kids
      BY <1>5
    <3>2. /\ a[n].kids[i] \in DOMAIN a /\ a[a[n].kids[i]].parent = n
          /\ \A j \in DOMAIN a[n].kids : a[n].kids[i] = a[n].kids[j] => i = j
      BY <1>3, <3>1 DEF Kids
    <3> QED
      BY <1>5, <3>1, <3>2
  <2>2. ASSUME NEW n \in DOMAIN a2, a2[n].parent # None
        PROVE  \E i \in DOMAIN a2[a2[n].parent].kids : a2[a2[n].parent].kids[i] = n
    <3>1. PICK p : p = a[n].parent /\ p = a2[n].parent /\ n \in DOMAIN a
      BY <1>5
    <3>4. a[n].parent # None /\ Kids(a)
      BY <1>3, <2>2, <3>1
    <3>2. PICK i \in DOMAIN a[p].kids : a[p].kids[i] = n
      BY <3>1, <3>4 DEF Kids
    <3>3. p \in DOMAIN a
      <4>1. PICK len \in Nat : DOMAIN a = 1 .. len
        BY <1>3 DEF Numbered
      <4>2. p \in 0 .. n - 1 /\ p # 0 /\ n \in 1 .. len
        BY <1>3, <3>1, <3>4, <4>1 DEF Numbered
      <4> QED
        BY <4>1, <4>2
    <3> QED
      BY <1>5, <3>1, <3>2, <3>3
  <2> QED
    BY <2>1, <2>2 DEF Kids
<1>8. Filled(a2, None)
  BY <1>3, <1>5 DEF Filled
<1>9. ASSUME NEW n \in DOMAIN a
      PROVE  (a2[n].parent = None <=> a2[n].kind = "function") /\ Target(a2, TRUE, h, n)
  <2>1. (a[n].parent = None <=> a[n].kind = "function") /\ Target(a, FALSE, h, n)
    BY <1>3
  <2>2. \A t \in DOMAIN a : t \in DOMAIN a2 /\ a2[t].kind = a[t].kind
    BY <1>5
  <2>3. CASE n \in Gotos
    <3>1. a2[n].kind = "goto" /\ a2[n].target = to[n]
      BY <1>3, <1>5, <2>3
    <3>2. to[n] \in DOMAIN a2 /\ a2[to[n]].kind = "label" /\ h[to[n]] = h[n]
      BY <1>4, <2>2, <2>3
    <3>3. Target(a2, TRUE, h, n)
      BY <3>1, <3>2 DEF Target
    <3> QED
      BY <1>5, <2>1, <3>3
  <2>4. CASE n \notin Gotos
    <3>1. a2[n].kind = a[n].kind /\ a2[n].target = a[n].target /\ a[n].kind # "goto"
      BY <1>3, <1>5, <2>4
    <3>2. Target(a2, TRUE, h, n)
      BY <2>1, <2>2, <3>1 DEF Target
    <3> QED
      BY <1>5, <2>1, <3>2
  <2> QED
    BY <2>3, <2>4
<1>10. TreeOK(a2, None, TRUE, h)
  BY <1>5, <1>6, <1>7, <1>8, <1>9 DEF TreeOK
<1> QED
  BY <1>1, <1>3, <1>10

LEMMA TreeKeeps ==
  ASSUME NEW h, TreeOK(ast, open, read, h), TreeNext
  PROVE  \E h2 : TreeOK(ast', open', read', h2)
<1>1. CASE Function
  <2>1. ~read /\ open = None /\ Add("function", {}, 0)
    BY <1>1 DEF Function
  <2> QED
    BY <2>1, AddKeeps
<1>2. CASE Close
  BY <1>2, CloseKeeps
<1>3. CASE Finish
  BY <1>3, FinishKeeps
<1>4. ASSUME NEW kind \in Kind, NEW parts \in PartsOf(kind),
             NEW value \in IF kind = "case" THEN Value ELSE {0}, Statement(kind, parts, value)
      PROVE  \E h2 : TreeOK(ast', open', read', h2)
  <2>1. kind \in StmtKind /\ kind # "function" /\ value \in Int
    BY <1>4 DEF StmtKind, LeafKind, LoopKind, PrefixKind
  <2>2. parts \in SUBSET {"init", "cond", "post", "expr"}
    BY <1>4 DEF PartsOf
  <2>3. /\ ~read /\ open # None /\ Room /\ Add(kind, parts, value)
        /\ kind \in {"break", "continue", "case", "default"} => TargetOf(kind) # None
    BY <1>4 DEF Statement
  <2> QED
    BY <2>1, <2>2, <2>3, AddKeeps
<1> QED
  BY <1>1, <1>2, <1>3, <1>4 DEF TreeNext

LEMMA TreeBegins == TreeInit => \E h : TreeOK(ast, open, read, h)
<1> SUFFICES ASSUME TreeInit PROVE TreeOK(<< >>, None, FALSE, << >>)
  BY DEF TreeInit
<1>1. << >> \in Seq(Stmt) /\ Len(<< >>) = 0 /\ DOMAIN << >> = {}
  OBVIOUS
<1> QED
  BY <1>1 DEF TreeOK, Numbered, Homes, Kids, Filled

-----------------------------------------------------------------------------
(* What visiting a statement emits                                         *)

HIDE DEF None

LabelSort == {"temp", "break", "continue", "case", "user", "symbol"}
Part == {"init", "cond", "post", "expr"}
Named == LabelSort \X Nat
JumpOps == {"jump", "jump_if_zero", "jump_if_not_zero", "jump_if_equal"}
Instr == [op : {"visit", "return"}, stmt : Nat] \cup [op : {"eval"}, stmt : Nat, part : Part]
         \cup [op : {"jump", "jump_if_zero", "jump_if_not_zero", "label"}, label : Named]
         \cup [op : {"jump_if_equal"}, value : Int, label : Named]

\* Code that visits the statements of K and writes the labels of L, each once,
\* and jumps to labels of J.
Piece(e, K, L, J) ==
    /\ e \in Seq(Instr)
    /\ \A p \in DOMAIN e : /\ e[p].op = "visit" => e[p].stmt \in K
                           /\ e[p].op = "label" => e[p].label \in L
                           /\ e[p].op \in JumpOps => e[p].label \in J
    /\ \A n \in K : \E p \in DOMAIN e : e[p] = Visit(n)
    /\ \A l \in L : \E p \in DOMAIN e : e[p] = Label(l)
    /\ \A p, q \in DOMAIN e : e[p].op \in {"visit", "label"} /\ e[p] = e[q] => p = q

LEMMA InstrShapes ==
  ASSUME NEW x \in Instr
  PROVE  /\ x.op = "visit" => x = Visit(x.stmt)
         /\ x.op = "label" => x = Label(x.label)
BY DEF Instr, Visit, Label

LEMMA PieceJoin ==
  ASSUME NEW e1, NEW K1, NEW L1, NEW J1, Piece(e1, K1, L1, J1),
         NEW e2, NEW K2, NEW L2, NEW J2, Piece(e2, K2, L2, J2), K1 \cap K2 = {}, L1 \cap L2 = {}
  PROVE  Piece(e1 \o e2, K1 \cup K2, L1 \cup L2, J1 \cup J2)
<1>1. PICK a \in Nat, b \in Nat : a = Len(e1) /\ b = Len(e2)
  BY DEF Piece
<1>2. PICK e : e = e1 \o e2
  OBVIOUS
<1>3. /\ e \in Seq(Instr) /\ DOMAIN e = 1 .. a + b /\ DOMAIN e1 = 1 .. a /\ DOMAIN e2 = 1 .. b
      /\ \A p \in 1 .. a : e[p] = e1[p]
      /\ \A p \in 1 .. b : e[a + p] = e2[p]
      /\ \A p \in DOMAIN e1 : e1[p] \in Instr
      /\ \A p \in DOMAIN e2 : e2[p] \in Instr
  BY <1>1, <1>2 DEF Piece
<1>4. ASSUME NEW p \in DOMAIN e
      PROVE  \/ p \in DOMAIN e1 /\ e[p] = e1[p]
             \/ \E q \in DOMAIN e2 : p = a + q /\ e[p] = e2[q]
  <2>1. CASE p <= a
    BY <1>3, <2>1
  <2>2. CASE p > a
    <3>1. p - a \in 1 .. b /\ p = a + (p - a)
      BY <1>3, <2>2
    <3> QED
      BY <1>3, <3>1
  <2> QED
    BY <1>3, <2>1, <2>2
<1>5. \A p \in DOMAIN e : /\ e[p].op = "visit" => e[p].stmt \in K1 \cup K2
                          /\ e[p].op = "label" => e[p].label \in L1 \cup L2
                          /\ e[p].op \in JumpOps => e[p].label \in J1 \cup J2
  BY <1>4 DEF Piece
<1>6. ASSUME NEW x PROVE /\ (\E p \in DOMAIN e1 : e1[p] = x) => \E p \in DOMAIN e : e[p] = x
                         /\ (\E p \in DOMAIN e2 : e2[p] = x) => \E p \in DOMAIN e : e[p] = x
  <2>1. ASSUME NEW p \in DOMAIN e1 PROVE p \in DOMAIN e /\ e[p] = e1[p]
    BY <1>3
  <2>2. ASSUME NEW p \in DOMAIN e2 PROVE a + p \in DOMAIN e /\ e[a + p] = e2[p]
    BY <1>3
  <2> QED
    BY <2>1, <2>2
<1>7. /\ \A n \in K1 \cup K2 : \E p \in DOMAIN e : e[p] = Visit(n)
      /\ \A l \in L1 \cup L2 : \E p \in DOMAIN e : e[p] = Label(l)
  BY <1>6 DEF Piece
<1>8. ASSUME NEW p \in DOMAIN e1, NEW q \in DOMAIN e2, e1[p].op \in {"visit", "label"}, e1[p] = e2[q]
      PROVE  FALSE
  BY <1>8 DEF Piece
<1>9. ASSUME NEW p \in DOMAIN e, NEW q \in DOMAIN e, e[p].op \in {"visit", "label"}, e[p] = e[q]
      PROVE  p = q
  <2>1. CASE p \in DOMAIN e1 /\ e[p] = e1[p] /\ q \in DOMAIN e1 /\ e[q] = e1[q]
    BY <1>9, <2>1 DEF Piece
  <2>2. ASSUME NEW i \in DOMAIN e2, p = a + i, e[p] = e2[i], NEW j \in DOMAIN e2, q = a + j, e[q] = e2[j]
        PROVE  p = q
    BY <1>9, <2>2 DEF Piece
  <2>3. ASSUME p \in DOMAIN e1, e[p] = e1[p], NEW j \in DOMAIN e2, e[q] = e2[j] PROVE FALSE
    BY <1>8, <1>9, <2>3
  <2>4. ASSUME q \in DOMAIN e1, e[q] = e1[q], NEW j \in DOMAIN e2, e[p] = e2[j] PROVE FALSE
    BY <1>8, <1>9, <2>4
  <2> QED
    BY <1>4, <2>1, <2>2, <2>3, <2>4
<1> QED
  BY <1>2, <1>3, <1>5, <1>7, <1>9 DEF Piece

LEMMA PieceEmpty == Piece(<< >>, {}, {}, {})
BY DEF Piece

LEMMA PieceVisit == ASSUME NEW n \in Nat PROVE Piece(<< Visit(n) >>, {n}, {}, {})
<1>1. Visit(n) \in Instr /\ Visit(n).op = "visit" /\ Visit(n).stmt = n
  BY DEF Visit, Instr
<1> QED
  BY <1>1 DEF Piece, JumpOps

LEMMA PieceLabel == ASSUME NEW l \in Named PROVE Piece(<< Label(l) >>, {}, {l}, {})
<1>1. Label(l) \in Instr /\ Label(l).op = "label" /\ Label(l).label = l
  BY DEF Label, Instr
<1> QED
  BY <1>1 DEF Piece, JumpOps

LEMMA PieceJump ==
  ASSUME NEW l \in Named, NEW x \in {Jump(l), JumpIfZero(l), JumpIfNotZero(l)}
  PROVE  Piece(<< x >>, {}, {}, {l})
<1>1. x \in Instr /\ x.op \in JumpOps /\ x.label = l
  BY DEF Jump, JumpIfZero, JumpIfNotZero, Instr, JumpOps
<1> QED
  BY <1>1 DEF Piece, JumpOps

LEMMA PieceOther ==
  ASSUME NEW n \in Nat, NEW part \in Part, NEW x \in {Eval(n, part), Return(n)}
  PROVE  Piece(<< x >>, {}, {}, {})
<1>1. x \in Instr /\ x.op \notin JumpOps \cup {"visit", "label"}
  BY DEF Eval, Return, Instr, JumpOps
<1> QED
  BY <1>1 DEF Piece, JumpOps

\* Code instruction by instruction.
LEMMA PieceSingle ==
  ASSUME NEW x, NEW K, NEW L, NEW J, Piece(<< x >>, K, L, J)
  PROVE  x \in Instr /\ << x >> \in Seq(Instr)
BY DEF Piece

LEMMA Piece2 ==
  ASSUME NEW a, NEW K1, NEW L1, NEW J1, Piece(<< a >>, K1, L1, J1),
         NEW b, NEW K2, NEW L2, NEW J2, Piece(<< b >>, K2, L2, J2), K1 \cap K2 = {}, L1 \cap L2 = {}
  PROVE  Piece(<< a, b >>, K1 \cup K2, L1 \cup L2, J1 \cup J2)
<1>1. Piece(<< a >> \o << b >>, K1 \cup K2, L1 \cup L2, J1 \cup J2)
  BY PieceJoin
<1>2. a \in Instr /\ b \in Instr
  BY PieceSingle
<1>3. << a, b >> = << a >> \o << b >>
  <2>1. << a >> \in Seq(Instr) /\ << b >> \in Seq(Instr) /\ << a, b >> \in Seq(Instr)
    BY <1>2
  <2>2. Len(<< a >>) = 1 /\ Len(<< b >>) = 1 /\ << a >>[1] = a /\ << b >>[1] = b
    OBVIOUS
  <2>3. PICK s \in Seq(Instr), r \in Seq(Instr) : s = << a >> /\ r = << b >>
    BY <2>1
  <2>6. PICK e : e = s \o r
    OBVIOUS
  <2>4. Len(e) = 2 /\ e[1] = a /\ e[2] = b /\ e \in Seq(Instr)
    BY <2>2, <2>3, <2>6
  <2>5. e = << a, b >>
    BY <2>1, <2>4
  <2> QED
    BY <2>3, <2>5, <2>6
<1> QED
  BY <1>1, <1>3

LEMMA Piece3 ==
  ASSUME NEW a, NEW b,
         NEW K1, NEW L1, NEW J1, Piece(<< a, b >>, K1, L1, J1),
         NEW c, NEW K2, NEW L2, NEW J2, Piece(<< c >>, K2, L2, J2), K1 \cap K2 = {}, L1 \cap L2 = {}
  PROVE  Piece(<< a, b, c >>, K1 \cup K2, L1 \cup L2, J1 \cup J2)
<1>1. Piece(<< a, b >> \o << c >>, K1 \cup K2, L1 \cup L2, J1 \cup J2)
  BY PieceJoin
<1>2. << a, b >> \in Seq(Instr) /\ c \in Instr
  BY PieceSingle DEF Piece
<1>3. << a, b, c >> = << a, b >> \o << c >>
  BY <1>2
<1> QED
  BY <1>1, <1>3

LEMMA Piece4 ==
  ASSUME NEW a, NEW b, NEW c,
         NEW K1, NEW L1, NEW J1, Piece(<< a, b, c >>, K1, L1, J1),
         NEW d, NEW K2, NEW L2, NEW J2, Piece(<< d >>, K2, L2, J2), K1 \cap K2 = {}, L1 \cap L2 = {}
  PROVE  Piece(<< a, b, c, d >>, K1 \cup K2, L1 \cup L2, J1 \cup J2)
<1>1. Piece(<< a, b, c >> \o << d >>, K1 \cup K2, L1 \cup L2, J1 \cup J2)
  BY PieceJoin
<1>2. << a, b, c >> \in Seq(Instr) /\ d \in Instr
  BY PieceSingle DEF Piece
<1>3. << a, b, c, d >> = << a, b, c >> \o << d >>
  BY <1>2
<1> QED
  BY <1>1, <1>3

LEMMA Piece5 ==
  ASSUME NEW a, NEW b, NEW c, NEW d,
         NEW K1, NEW L1, NEW J1, Piece(<< a, b, c, d >>, K1, L1, J1),
         NEW e, NEW K2, NEW L2, NEW J2, Piece(<< e >>, K2, L2, J2), K1 \cap K2 = {}, L1 \cap L2 = {}
  PROVE  Piece(<< a, b, c, d, e >>, K1 \cup K2, L1 \cup L2, J1 \cup J2)
<1>1. Piece(<< a, b, c, d >> \o << e >>, K1 \cup K2, L1 \cup L2, J1 \cup J2)
  BY PieceJoin
<1>2. << a, b, c, d >> \in Seq(Instr) /\ e \in Instr
  BY PieceSingle DEF Piece
<1>3. << a, b, c, d, e >> = << a, b, c, d >> \o << e >>
  BY <1>2
<1> QED
  BY <1>1, <1>3

LEMMA Piece6 ==
  ASSUME NEW a, NEW b, NEW c, NEW d, NEW e,
         NEW K1, NEW L1, NEW J1, Piece(<< a, b, c, d, e >>, K1, L1, J1),
         NEW f, NEW K2, NEW L2, NEW J2, Piece(<< f >>, K2, L2, J2), K1 \cap K2 = {}, L1 \cap L2 = {}
  PROVE  Piece(<< a, b, c, d, e, f >>, K1 \cup K2, L1 \cup L2, J1 \cup J2)
<1>1. Piece(<< a, b, c, d, e >> \o << f >>, K1 \cup K2, L1 \cup L2, J1 \cup J2)
  BY PieceJoin
<1>2. << a, b, c, d, e >> \in Seq(Instr) /\ f \in Instr
  BY PieceSingle DEF Piece
<1>3. << a, b, c, d, e, f >> = << a, b, c, d, e >> \o << f >>
  BY <1>2
<1> QED
  BY <1>1, <1>3

LEMMA Piece7 ==
  ASSUME NEW a, NEW b, NEW c, NEW d, NEW e, NEW f,
         NEW K1, NEW L1, NEW J1, Piece(<< a, b, c, d, e, f >>, K1, L1, J1),
         NEW g, NEW K2, NEW L2, NEW J2, Piece(<< g >>, K2, L2, J2), K1 \cap K2 = {}, L1 \cap L2 = {}
  PROVE  Piece(<< a, b, c, d, e, f, g >>, K1 \cup K2, L1 \cup L2, J1 \cup J2)
<1>1. Piece(<< a, b, c, d, e, f >> \o << g >>, K1 \cup K2, L1 \cup L2, J1 \cup J2)
  BY PieceJoin
<1>2. << a, b, c, d, e, f >> \in Seq(Instr) /\ g \in Instr
  BY PieceSingle DEF Piece
<1>3. << a, b, c, d, e, f, g >> = << a, b, c, d, e, f >> \o << g >>
  BY <1>2
<1> QED
  BY <1>1, <1>3

LEMMA PieceIs ==
  ASSUME NEW e, NEW K, NEW L, NEW J, Piece(e, K, L, J), NEW K2, K2 = K, NEW L2, L2 = L,
         NEW J2, J \subseteq J2
  PROVE  Piece(e, K2, L2, J2)
BY DEF Piece

KidsOf(n) == {ast[n].kids[i] : i \in DOMAIN ast[n].kids}
OwnLabels(n) == {<< k, n >> : k \in LabelKinds(ast[n].kind)}
OwnTemps(n, t) == {Temp(x) : x \in t .. t + TempLabels(n) - 1}
\* The labels of the statements of function f.
Reach(a, h, f) == {l \in Named : \E s \in DOMAIN a : \E k \in LabelKinds(a[s].kind) :
                                     l = << k, s >> /\ h[s] = f}

\* What is known of a statement that is emitted.
LEMMA StatementFacts ==
  ASSUME NEW h, TreeOK(ast, open, TRUE, h), NEW n \in Stmts
  PROVE  /\ n \in Nat /\ ast[n] \in Stmt /\ Len(ast[n].kids) \in Nat
         /\ DOMAIN ast[n].kids = 1 .. Len(ast[n].kids)
         /\ \A i \in DOMAIN ast[n].kids : ast[n].kids[i] \in Nat
         /\ \A i, j \in DOMAIN ast[n].kids : ast[n].kids[i] = ast[n].kids[j] => i = j
         /\ NeedsBody(ast[n].kind) =>
               Len(ast[n].kids) = 1 \/ (ast[n].kind = "if" /\ Len(ast[n].kids) = 2)
         /\ Target(ast, TRUE, h, n) /\ ast[n].target \in Nat
<1>1. PICK a : a = ast
  OBVIOUS
<1>2. /\ a \in Seq(Stmt) /\ Kids(a) /\ Filled(a, None) /\ n \in DOMAIN a /\ Numbered(a)
      /\ Target(a, TRUE, h, n)
  BY <1>1 DEF TreeOK, Stmts
<1>3. n \in Nat
  BY <1>2 DEF Numbered
<1>4. PICK y \in Stmt : y = a[n]
  BY <1>2
<1>5. PICK ks \in Seq(Nat) : ks = y.kids
  BY <1>4 DEF Stmt
<1>6. /\ Len(ks) \in Nat /\ DOMAIN ks = 1 .. Len(ks) /\ \A i \in DOMAIN ks : ks[i] \in Nat
      /\ ks # << >> => Len(ks) # 0
  BY <1>5
<1>7. \A i, j \in DOMAIN ks : ks[i] = ks[j] => i = j
  BY <1>2, <1>4, <1>5 DEF Kids
<1>8. NeedsBody(y.kind) => Len(ks) = 1 \/ (y.kind = "if" /\ Len(ks) = 2)
  <2>1. NeedsBody(y.kind) => Len(ks) <= (IF y.kind = "if" THEN 2 ELSE 1) /\ ks # << >>
    <3>1. n # None
      BY <1>2 DEF Numbered, None
    <3> QED
      BY <1>2, <1>4, <1>5, <3>1 DEF Filled
  <2> QED
    BY <1>6, <2>1
<1>9. y.target \in Nat
  BY <1>4 DEF Stmt
<1> QED
  BY <1>1, <1>2, <1>3, <1>4, <1>5, <1>6, <1>7, <1>8, <1>9

\* The sub-statements of a block, in order.
LEMMA PieceItems ==
  ASSUME NEW h, TreeOK(ast, open, TRUE, h), NEW n \in Stmts
  PROVE  Piece(Items(n), KidsOf(n), {}, {})
<1>1. PICK ks : ks = ast[n].kids
  OBVIOUS
<1>2. PICK len \in Nat : /\ len = Len(ks) /\ DOMAIN ks = 1 .. len
                         /\ \A i \in 1 .. len : ks[i] \in Nat
                         /\ \A i, j \in 1 .. len : ks[i] = ks[j] => i = j
  <2>1. /\ Len(ast[n].kids) \in Nat /\ DOMAIN ast[n].kids = 1 .. Len(ast[n].kids)
        /\ \A i \in DOMAIN ast[n].kids : ast[n].kids[i] \in Nat
        /\ \A i, j \in DOMAIN ast[n].kids : ast[n].kids[i] = ast[n].kids[j] => i = j
    BY StatementFacts
  <2>2. /\ Len(ks) \in Nat /\ DOMAIN ks = 1 .. Len(ks)
        /\ \A i \in DOMAIN ks : ks[i] \in Nat
        /\ \A i, j \in DOMAIN ks : ks[i] = ks[j] => i = j
    BY <1>1, <2>1
  <2> QED
    BY <2>2
<1>3. PICK e : e = Items(n)
  OBVIOUS
<1>4. e = [i \in 1 .. len |-> Visit(ks[i])]
  BY <1>1, <1>2, <1>3 DEF Items, Sub
<1>5. \A i \in 1 .. len : e[i] = Visit(ks[i]) /\ e[i] \in Instr /\ e[i].op = "visit" /\ e[i].stmt = ks[i]
  BY <1>2, <1>4 DEF Visit, Instr
<1>6. e \in Seq(Instr) /\ DOMAIN e = 1 .. len
  BY <1>4, <1>5
<1>7. PICK K : K = KidsOf(n) /\ K = {ks[i] : i \in 1 .. len}
  <2>1. KidsOf(n) = {ks[i] : i \in DOMAIN ks}
    BY <1>1 DEF KidsOf
  <2> QED
    BY <1>2, <2>1
<1>8. Piece(e, K, {}, {})
  BY <1>2, <1>5, <1>6, <1>7 DEF Piece, JumpOps
<1> QED
  BY <1>3, <1>7, <1>8

\* The comparisons of a switch.
LEMMA PieceCases ==
  ASSUME NEW h, TreeOK(ast, open, TRUE, h), NEW n \in Stmts
  PROVE  Piece([i \in 1 .. Cardinality(CasesOf(n)) |->
                   LET c == InOrder(CasesOf(n))[i] IN JumpIfEqual(ast[c].value, CaseOf(c))],
               {}, {}, {CaseOf(c) : c \in CasesOf(n)})
<1>1. PICK S : S = CasesOf(n)
  OBVIOUS
<1>2. PICK a : a = ast /\ a \in Seq(Stmt) /\ Numbered(a)
  BY DEF TreeOK
<1>3. PICK len \in Nat : len = Len(a) /\ DOMAIN a = 1 .. len
  BY <1>2 DEF Numbered
<1>4. S \subseteq 1 .. len
  BY <1>1, <1>2, <1>3 DEF CasesOf, Stmts
<1>5. PICK k, s : k = Cardinality(S) /\ s = InOrder(S) /\ Listing(s, k, S)
  BY <1>4, InOrderLists
<1>6. PICK e : e = [i \in 1 .. k |-> JumpIfEqual(a[s[i]].value, CaseOf(s[i]))]
  OBVIOUS
<1>7. ASSUME NEW i \in 1 .. k
      PROVE  e[i] \in Instr /\ e[i].op = "jump_if_equal" /\ e[i].label \in {CaseOf(c) : c \in S}
  <2>1. s[i] \in S /\ s[i] \in Nat
    <3>1. s[i] \in S
      BY <1>5 DEF Listing
    <3>2. \A c \in S : c \in Nat
      BY <1>4
    <3> QED
      BY <3>1, <3>2
  <2>2. a[s[i]] \in Stmt
    BY <1>2, <1>3, <1>4, <2>1
  <2>3. a[s[i]].value \in Int
    BY <2>2 DEF Stmt
  <2>4. CaseOf(s[i]) \in Named
    <3>1. PICK c \in Nat : c = s[i]
      BY <2>1
    <3>2. CaseOf(c) \in Named
      BY DEF CaseOf, Named, LabelSort
    <3> QED
      BY <3>1, <3>2
  <2>5. e[i] = JumpIfEqual(a[s[i]].value, CaseOf(s[i]))
    BY <1>6
  <2> QED
    BY <2>1, <2>3, <2>4, <2>5 DEF JumpIfEqual, Instr
<1>8. k \in Nat /\ e \in Seq(Instr) /\ DOMAIN e = 1 .. k
  BY <1>5, <1>6, <1>7 DEF Listing
<1>9. Piece(e, {}, {}, {CaseOf(c) : c \in S})
  BY <1>7, <1>8 DEF Piece
<1> QED
  BY <1>1, <1>2, <1>5, <1>6, <1>9

LEMMA PieceOptional ==
  ASSUME NEW n \in Nat, NEW part \in Part, NEW more, NEW J, Piece(more, {}, {}, J)
  PROVE  Piece(Optional(n, part, more), {}, {}, J)
<1>1. Piece(<< Eval(n, part) >>, {}, {}, {})
  BY PieceOther
<1>2. Piece(<< Eval(n, part) >> \o more, {} \cup {}, {} \cup {}, {} \cup J)
  BY <1>1, PieceJoin
<1>3. Piece(<< Eval(n, part) >> \o more, {}, {}, J)
  BY <1>2, PieceIs
<1>4. Piece(<< >>, {}, {}, J)
  BY PieceEmpty, PieceIs
<1> QED
  BY <1>3, <1>4 DEF Optional

\* The labels of a statement, and those of the statements around it in its function.
LEMMA OwnReach ==
  ASSUME NEW h, NEW n \in Stmts, n \in Nat
  PROVE  /\ OwnLabels(n) \subseteq Reach(ast, h, h[n]) /\ OwnLabels(n) \subseteq Named
         /\ \A s \in Stmts : \A k \in LabelKinds(ast[s].kind) :
               s \in Nat /\ h[s] = h[n] => << k, s >> \in Reach(ast, h, h[n])
<1>1. \A s \in Stmts : \A k \in LabelKinds(ast[s].kind) : s \in Nat => << k, s >> \in Named
  BY DEF LabelKinds, Named, LabelSort
<1> QED
  BY <1>1 DEF OwnLabels, Reach, Stmts

LEMMA EmitIfPiece ==
  ASSUME NEW n \in Nat, NEW t \in Nat, NEW ks, ks = ast[n].kids, Len(ks) \in {1, 2},
         ks[1] \in Nat, Len(ks) = 2 => ks[2] \in Nat /\ ks[1] # ks[2]
  PROVE  /\ Len(ks) = 1 => Piece(EmitIf(n, t), {ks[1]}, {Temp(t)}, {Temp(t)})
         /\ Len(ks) = 2 => Piece(EmitIf(n, t), {ks[1], ks[2]}, {Temp(t), Temp(t + 1)}, {Temp(t), Temp(t + 1)})
<1> DEFINE A == Eval(n, "cond")
<1>0. \A x \in Nat : Temp(x) \in Named
  BY DEF Temp, Named, LabelSort
<1>1. Piece(<< A >>, {}, {}, {})
  BY PieceOther DEF Part
<1>2. CASE Len(ks) = 1
  <2> DEFINE T == Temp(t)
             B == JumpIfZero(T)
             C == Visit(ks[1])
             D == Label(T)
  <2>1. Piece(<< B >>, {}, {}, {T}) /\ Piece(<< C >>, {ks[1]}, {}, {}) /\ Piece(<< D >>, {}, {T}, {})
    BY <1>0, PieceJump, PieceVisit, PieceLabel
  <2>2. EmitIf(n, t) = << A, B, C, D >>
    BY <1>2 DEF EmitIf, Sub
  <2> HIDE DEF A, B, C, D
  <2>3. Piece(<< A, B >>, {} \cup {}, {} \cup {}, {} \cup {T})
    BY <1>1, <2>1, Piece2
  <2>4. Piece(<< A, B >>, {}, {}, {T})
    BY <2>3, PieceIs
  <2>5. Piece(<< A, B, C >>, {} \cup {ks[1]}, {} \cup {}, {T} \cup {})
    BY <2>4, <2>1, Piece3
  <2>6. Piece(<< A, B, C >>, {ks[1]}, {}, {T})
    BY <2>5, PieceIs
  <2>7. Piece(<< A, B, C, D >>, {ks[1]} \cup {}, {} \cup {T}, {T} \cup {})
    BY <2>6, <2>1, Piece4
  <2>8. Piece(<< A, B, C, D >>, {ks[1]}, {T}, {T})
    BY <2>7, PieceIs
  <2> QED
    BY <1>2, <2>2, <2>8
<1>3. CASE Len(ks) = 2
  <2> DEFINE T == Temp(t)
             U == Temp(t + 1)
             B == JumpIfZero(U)
             C == Visit(ks[1])
             D == Jump(T)
             E == Label(U)
             F == Visit(ks[2])
             G == Label(T)
  <2>0. T # U /\ T \in Named /\ U \in Named
    BY <1>0 DEF Temp
  <2>1. /\ Piece(<< B >>, {}, {}, {U}) /\ Piece(<< C >>, {ks[1]}, {}, {}) /\ Piece(<< D >>, {}, {}, {T})
        /\ Piece(<< E >>, {}, {U}, {}) /\ Piece(<< F >>, {ks[2]}, {}, {}) /\ Piece(<< G >>, {}, {T}, {})
    BY <1>3, <2>0, PieceJump, PieceVisit, PieceLabel
  <2>2. EmitIf(n, t) = << A, B, C, D, E, F, G >>
    BY <1>3 DEF EmitIf, Sub
  <2> HIDE DEF A, B, C, D, E, F, G, T, U
  <2>3. Piece(<< A, B >>, {} \cup {}, {} \cup {}, {} \cup {U})
    BY <1>1, <2>1, Piece2
  <2>4. Piece(<< A, B >>, {}, {}, {U})
    BY <2>3, PieceIs
  <2>5. Piece(<< A, B, C >>, {} \cup {ks[1]}, {} \cup {}, {U} \cup {})
    BY <2>4, <2>1, Piece3
  <2>6. Piece(<< A, B, C >>, {ks[1]}, {}, {U})
    BY <2>5, PieceIs
  <2>7. Piece(<< A, B, C, D >>, {ks[1]} \cup {}, {} \cup {}, {U} \cup {T})
    BY <2>6, <2>1, Piece4
  <2>8. Piece(<< A, B, C, D >>, {ks[1]}, {}, {T, U})
    BY <2>7, PieceIs
  <2>9. Piece(<< A, B, C, D, E >>, {ks[1]} \cup {}, {} \cup {U}, {T, U} \cup {})
    BY <2>8, <2>1, Piece5
  <2>10. Piece(<< A, B, C, D, E >>, {ks[1]}, {U}, {T, U})
    BY <2>9, PieceIs
  <2>11. {ks[1]} \cap {ks[2]} = {} /\ {U} \cap {T} = {}
    BY <1>3, <2>0
  <2>12. Piece(<< A, B, C, D, E, F >>, {ks[1]} \cup {ks[2]}, {U} \cup {}, {T, U} \cup {})
    BY <2>10, <2>11, <2>1, Piece6, ZenonT(40)
  <2>13. Piece(<< A, B, C, D, E, F >>, {ks[1], ks[2]}, {U}, {T, U})
    BY <2>12, PieceIs
  <2>14. Piece(<< A, B, C, D, E, F, G >>, {ks[1], ks[2]} \cup {}, {U} \cup {T}, {T, U} \cup {})
    BY <2>13, <2>11, <2>1, Piece7, ZenonT(40)
  <2>15. Piece(<< A, B, C, D, E, F, G >>, {ks[1], ks[2]}, {T, U}, {T, U})
    BY <2>14, PieceIs
  <2> QED
    BY <1>3, <2>2, <2>15 DEF T, U
<1> QED
  BY <1>2, <1>3

LEMMA EmitForPiece ==
  ASSUME NEW n \in Nat, NEW t \in Nat, ast[n].kids[1] \in Nat
  PROVE  Piece(EmitFor(n, t), {ast[n].kids[1]}, {Temp(t), ContinueOf(n), BreakOf(n)}, {Temp(t), BreakOf(n)})
<1> DEFINE T == Temp(t)
           B == BreakOf(n)
           C == ContinueOf(n)
           k == ast[n].kids[1]
           e1 == Optional(n, "init", << >>)
           e2 == << Label(T) >>
           e3 == Optional(n, "cond", << JumpIfZero(B) >>)
           e4 == << Visit(k), Label(C) >>
           e5 == Optional(n, "post", << >>)
           e6 == << Jump(T), Label(B) >>
<1>0. T \in Named /\ B \in Named /\ C \in Named /\ T # B /\ T # C /\ B # C
  BY DEF Temp, BreakOf, ContinueOf, Named, LabelSort
<1>1. EmitFor(n, t) = (((((e1 \o e2) \o e3) \o e4) \o e5) \o e6)
  BY DEF EmitFor, Sub
<1>2. Piece(e1, {}, {}, {}) /\ Piece(e5, {}, {}, {})
  BY PieceEmpty, PieceOptional DEF Part
<1>3. Piece(e2, {}, {T}, {})
  BY <1>0, PieceLabel
<1>4. Piece(e3, {}, {}, {B})
  <2>1. Piece(<< JumpIfZero(B) >>, {}, {}, {B})
    BY <1>0, PieceJump
  <2> QED
    BY <2>1, PieceOptional DEF Part
<1>5. Piece(e4, {k}, {C}, {})
  <2>1. Piece(<< Visit(k) >>, {k}, {}, {}) /\ Piece(<< Label(C) >>, {}, {C}, {})
    BY <1>0, PieceVisit, PieceLabel
  <2>2. Piece(e4, {k} \cup {}, {} \cup {C}, {} \cup {})
    BY <2>1, Piece2
  <2> QED
    BY <2>2, PieceIs
<1>6. Piece(e6, {}, {B}, {T})
  <2>1. Piece(<< Jump(T) >>, {}, {}, {T}) /\ Piece(<< Label(B) >>, {}, {B}, {})
    BY <1>0, PieceJump, PieceLabel
  <2>2. Piece(e6, {} \cup {}, {} \cup {B}, {T} \cup {})
    BY <2>1, Piece2
  <2> QED
    BY <2>2, PieceIs
<1> HIDE DEF T, B, C, k, e1, e2, e3, e4, e5, e6
<1>7. Piece(e1 \o e2, {} \cup {}, {} \cup {T}, {} \cup {})
  BY <1>2, <1>3, PieceJoin
<1>8. Piece(e1 \o e2, {}, {T}, {})
  BY <1>7, PieceIs
<1>9. Piece((e1 \o e2) \o e3, {} \cup {}, {T} \cup {}, {} \cup {B})
  BY <1>8, <1>4, PieceJoin
<1>10. Piece((e1 \o e2) \o e3, {}, {T}, {B})
  BY <1>9, PieceIs
<1>11. {T} \cap {C} = {} /\ {T, C} \cap {B} = {}
  BY <1>0
<1>12. Piece(((e1 \o e2) \o e3) \o e4, {} \cup {k}, {T} \cup {C}, {B} \cup {})
  BY <1>10, <1>11, <1>5, PieceJoin
<1>13. Piece(((e1 \o e2) \o e3) \o e4, {k}, {T, C}, {B})
  BY <1>12, PieceIs
<1>14. Piece((((e1 \o e2) \o e3) \o e4) \o e5, {k} \cup {}, {T, C} \cup {}, {B} \cup {})
  BY <1>13, <1>2, PieceJoin
<1>15. Piece((((e1 \o e2) \o e3) \o e4) \o e5, {k}, {T, C}, {B})
  BY <1>14, PieceIs
<1>16. Piece(((((e1 \o e2) \o e3) \o e4) \o e5) \o e6, {k} \cup {}, {T, C} \cup {B}, {B} \cup {T})
  BY <1>15, <1>11, <1>6, PieceJoin
<1>17. Piece(((((e1 \o e2) \o e3) \o e4) \o e5) \o e6, {k}, {T, C, B}, {T, B})
  BY <1>16, PieceIs
<1> QED
  BY <1>1, <1>17 DEF T, B, C, k

LEMMA EmitWhilePiece ==
  ASSUME NEW n \in Nat, ast[n].kids[1] \in Nat
  PROVE  Piece(EmitWhile(n), {ast[n].kids[1]}, {ContinueOf(n), BreakOf(n)}, {ContinueOf(n), BreakOf(n)})
<1> DEFINE X == BreakOf(n)
           Y == ContinueOf(n)
           k == ast[n].kids[1]
           A == Label(Y)
           B == Eval(n, "cond")
           C == JumpIfZero(X)
           D == Visit(k)
           E == Jump(Y)
           F == Label(X)
<1>0. X \in Named /\ Y \in Named /\ X # Y
  BY DEF BreakOf, ContinueOf, Named, LabelSort
<1>1. /\ Piece(<< A >>, {}, {Y}, {}) /\ Piece(<< B >>, {}, {}, {}) /\ Piece(<< C >>, {}, {}, {X})
      /\ Piece(<< D >>, {k}, {}, {}) /\ Piece(<< E >>, {}, {}, {Y}) /\ Piece(<< F >>, {}, {X}, {})
  BY <1>0, PieceOther, PieceJump, PieceVisit, PieceLabel DEF Part
<1>2. EmitWhile(n) = << A, B, C, D, E, F >>
  BY DEF EmitWhile, Sub
<1> HIDE DEF A, B, C, D, E, F, X, Y, k
<1>3. Piece(<< A, B >>, {} \cup {}, {Y} \cup {}, {} \cup {})
  BY <1>1, Piece2
<1>4. Piece(<< A, B >>, {}, {Y}, {})
  BY <1>3, PieceIs
<1>5. Piece(<< A, B, C >>, {} \cup {}, {Y} \cup {}, {} \cup {X})
  BY <1>4, <1>1, Piece3
<1>6. Piece(<< A, B, C >>, {}, {Y}, {X})
  BY <1>5, PieceIs
<1>7. Piece(<< A, B, C, D >>, {} \cup {k}, {Y} \cup {}, {X} \cup {})
  BY <1>6, <1>1, Piece4
<1>8. Piece(<< A, B, C, D >>, {k}, {Y}, {X})
  BY <1>7, PieceIs
<1>9. Piece(<< A, B, C, D, E >>, {k} \cup {}, {Y} \cup {}, {X} \cup {Y})
  BY <1>8, <1>1, Piece5
<1>10. Piece(<< A, B, C, D, E >>, {k}, {Y}, {X, Y})
  BY <1>9, PieceIs
<1>11. {Y} \cap {X} = {}
  BY <1>0
<1>12. Piece(<< A, B, C, D, E, F >>, {k} \cup {}, {Y} \cup {X}, {X, Y} \cup {})
  BY <1>10, <1>11, <1>1, Piece6
<1>13. Piece(<< A, B, C, D, E, F >>, {k}, {Y, X}, {Y, X})
  BY <1>12, PieceIs
<1> QED
  BY <1>2, <1>13 DEF X, Y, k

LEMMA EmitDoWhilePiece ==
  ASSUME NEW n \in Nat, NEW t \in Nat, ast[n].kids[1] \in Nat
  PROVE  Piece(EmitDoWhile(n, t), {ast[n].kids[1]}, {Temp(t), ContinueOf(n), BreakOf(n)}, {Temp(t)})
<1> DEFINE X == BreakOf(n)
           Y == ContinueOf(n)
           T == Temp(t)
           k == ast[n].kids[1]
           A == Label(T)
           B == Visit(k)
           C == Label(Y)
           D == Eval(n, "cond")
           E == JumpIfNotZero(T)
           F == Label(X)
<1>0. X \in Named /\ Y \in Named /\ T \in Named /\ X # Y /\ T # X /\ T # Y
  BY DEF BreakOf, ContinueOf, Temp, Named, LabelSort
<1>1. /\ Piece(<< A >>, {}, {T}, {}) /\ Piece(<< B >>, {k}, {}, {}) /\ Piece(<< C >>, {}, {Y}, {})
      /\ Piece(<< D >>, {}, {}, {}) /\ Piece(<< E >>, {}, {}, {T}) /\ Piece(<< F >>, {}, {X}, {})
  BY <1>0, PieceOther, PieceJump, PieceVisit, PieceLabel DEF Part
<1>2. EmitDoWhile(n, t) = << A, B, C, D, E, F >>
  BY DEF EmitDoWhile, Sub
<1> HIDE DEF A, B, C, D, E, F, X, Y, k, T
<1>3. Piece(<< A, B >>, {} \cup {k}, {T} \cup {}, {} \cup {})
  BY <1>1, Piece2
<1>4. Piece(<< A, B >>, {k}, {T}, {})
  BY <1>3, PieceIs
<1>11. {T} \cap {Y} = {} /\ {T, Y} \cap {X} = {}
  BY <1>0
<1>5. Piece(<< A, B, C >>, {k} \cup {}, {T} \cup {Y}, {} \cup {})
  BY <1>4, <1>1, <1>11, Piece3
<1>6. Piece(<< A, B, C >>, {k}, {T, Y}, {})
  BY <1>5, PieceIs
<1>7. Piece(<< A, B, C, D >>, {k} \cup {}, {T, Y} \cup {}, {} \cup {})
  BY <1>6, <1>1, Piece4
<1>8. Piece(<< A, B, C, D >>, {k}, {T, Y}, {})
  BY <1>7, PieceIs
<1>9. Piece(<< A, B, C, D, E >>, {k} \cup {}, {T, Y} \cup {}, {} \cup {T})
  BY <1>8, <1>1, Piece5
<1>10. Piece(<< A, B, C, D, E >>, {k}, {T, Y}, {T})
  BY <1>9, PieceIs
<1>12. Piece(<< A, B, C, D, E, F >>, {k} \cup {}, {T, Y} \cup {X}, {T} \cup {})
  BY <1>10, <1>11, <1>1, Piece6
<1>13. Piece(<< A, B, C, D, E, F >>, {k}, {T, Y, X}, {T})
  BY <1>12, PieceIs
<1> QED
  BY <1>2, <1>13 DEF X, Y, T, k

LEMMA EmitSwitchPiece ==
  ASSUME NEW h, TreeOK(ast, open, TRUE, h), NEW n \in Stmts, ast[n].kids[1] \in Nat
  PROVE  Piece(EmitSwitch(n), {ast[n].kids[1]}, {BreakOf(n)},
               {CaseOf(c) : c \in CasesOf(n) \cup DefaultsOf(n)} \cup {BreakOf(n)})
<1> DEFINE X == BreakOf(n)
           Y == IF DefaultsOf(n) = {} THEN BreakOf(n) ELSE CaseOf(CHOOSE d \in DefaultsOf(n) : TRUE)
           k == ast[n].kids[1]
           J1 == {CaseOf(c) : c \in CasesOf(n)}
           J == {CaseOf(c) : c \in CasesOf(n) \cup DefaultsOf(n)} \cup {X}
           A == Eval(n, "cond")
           e == [i \in 1 .. Cardinality(CasesOf(n)) |->
                    LET c == InOrder(CasesOf(n))[i] IN JumpIfEqual(ast[c].value, CaseOf(c))]
           B == Jump(Y)
           C == Visit(k)
           D == Label(X)
<1>0. n \in Nat
  BY StatementFacts
<1>1. X \in Named
  BY <1>0 DEF BreakOf, Named, LabelSort
<1>2. Y \in Named /\ Y \in J
  <2>1. CASE DefaultsOf(n) = {}
    BY <1>1, <2>1
  <2>2. CASE DefaultsOf(n) # {}
    <3>1. PICK e1 : e1 = CHOOSE d \in DefaultsOf(n) : TRUE
      OBVIOUS
    <3>2. e1 \in DefaultsOf(n)
      BY <2>2, <3>1
    <3>3. e1 \in Nat
      BY <3>2, StatementFacts DEF DefaultsOf
    <3>4. CaseOf(e1) \in Named
      BY <3>3 DEF CaseOf, Named, LabelSort
    <3>5. Y = CaseOf(e1)
      BY <2>2, <3>1
    <3> QED
      BY <3>2, <3>4, <3>5
  <2> QED
    BY <2>1, <2>2
<1>3. /\ Piece(<< A >>, {}, {}, {}) /\ Piece(<< B >>, {}, {}, {Y}) /\ Piece(<< C >>, {k}, {}, {})
      /\ Piece(<< D >>, {}, {X}, {})
  BY <1>0, <1>1, <1>2, PieceOther, PieceJump, PieceVisit, PieceLabel DEF Part
<1>4. Piece(e, {}, {}, J1)
  BY PieceCases
<1>5. EmitSwitch(n) = (<< A >> \o e) \o << B, C, D >>
  BY DEF EmitSwitch, Sub
<1>6. J1 \subseteq J
  OBVIOUS
<1> HIDE DEF A, B, C, D, e, X, Y, k, J, J1
<1>7. Piece(<< B, C >>, {} \cup {k}, {} \cup {}, {Y} \cup {})
  BY <1>3, Piece2
<1>8. Piece(<< B, C >>, {k}, {}, {Y})
  BY <1>7, PieceIs
<1>9. Piece(<< B, C, D >>, {k} \cup {}, {} \cup {X}, {Y} \cup {})
  BY <1>3, <1>8, Piece3
<1>10. Piece(<< B, C, D >>, {k}, {X}, J)
  BY <1>2, <1>9, PieceIs
<1>11. Piece(<< A >> \o e, {} \cup {}, {} \cup {}, {} \cup J1)
  BY <1>3, <1>4, PieceJoin
<1>12. Piece(<< A >> \o e, {}, {}, J)
  BY <1>6, <1>11, PieceIs
<1>13. Piece((<< A >> \o e) \o << B, C, D >>, {} \cup {k}, {} \cup {X}, J \cup J)
  BY <1>10, <1>12, PieceJoin
<1>14. Piece((<< A >> \o e) \o << B, C, D >>, {k}, {X}, J)
  BY <1>13, PieceIs
<1> QED
  BY <1>5, <1>14 DEF X, k, J

LEMMA EmitFunctionPiece ==
  ASSUME NEW h, TreeOK(ast, open, TRUE, h), NEW n \in Stmts
  PROVE  /\ Piece(EmitFunction(n), KidsOf(n), {SymbolOf(n)}, {})
         /\ Len(EmitFunction(n)) \in Nat /\ Len(EmitFunction(n)) > 0 /\ EmitFunction(n)[1] = Label(SymbolOf(n))
<1> DEFINE A == Label(SymbolOf(n))
           K == KidsOf(n)
           e == Items(n)
           B == Return(None)
<1>0. n \in Nat
  BY StatementFacts
<1>1. SymbolOf(n) \in Named
  BY <1>0 DEF SymbolOf, Named, LabelSort
<1>2. Piece(<< A >>, {}, {SymbolOf(n)}, {})
  BY <1>1, PieceLabel
<1>3. Piece(<< B >>, {}, {}, {})
  BY PieceOther DEF Part, None
<1>4. Piece(e, K, {}, {})
  BY PieceItems
<1>5. EmitFunction(n) = (<< A >> \o e) \o << B >>
  BY DEF EmitFunction
<1> HIDE DEF A, B, e, K
<1>6. Piece(<< A >> \o e, {} \cup K, {SymbolOf(n)} \cup {}, {} \cup {})
  BY <1>2, <1>4, PieceJoin
<1>7. Piece(<< A >> \o e, K, {SymbolOf(n)}, {})
  BY <1>6, PieceIs
<1>8. Piece((<< A >> \o e) \o << B >>, K \cup {}, {SymbolOf(n)} \cup {}, {} \cup {})
  BY <1>3, <1>7, PieceJoin
<1>9. Piece((<< A >> \o e) \o << B >>, K, {SymbolOf(n)}, {})
  BY <1>8, PieceIs
<1>10. /\ Len((<< A >> \o e) \o << B >>) \in Nat /\ Len((<< A >> \o e) \o << B >>) > 0
       /\ ((<< A >> \o e) \o << B >>)[1] = A
  <2>1. << A >> \in Seq(Instr) /\ << B >> \in Seq(Instr) /\ e \in Seq(Instr)
        /\ Len(<< A >>) = 1 /\ << A >>[1] = A /\ Len(<< B >>) = 1
    BY <1>2, <1>3, <1>4 DEF Piece
  <2>2. PICK s \in Seq(Instr), r \in Seq(Instr) : s = << A >> /\ r = << B >>
    BY <2>1
  <2>3. PICK w : w = s \o e
    OBVIOUS
  <2>4. w \in Seq(Instr) /\ Len(w) = 1 + Len(e) /\ Len(e) \in Nat /\ w[1] = A
    BY <2>1, <2>2, <2>3
  <2>5. PICK v : v = w \o r
    OBVIOUS
  <2>6. Len(v) = 2 + Len(e) /\ v[1] = A
    BY <2>1, <2>2, <2>4, <2>5
  <2> QED
    BY <2>2, <2>3, <2>4, <2>5, <2>6
<1> QED
  BY <1>5, <1>9, <1>10 DEF A, K

\* What a statement emits: visits of its sub-statements, its labels and jumps
\* to labels of its function or of its own.
LEMMA EmittedPiece ==
  ASSUME NEW h, TreeOK(ast, open, TRUE, h), NEW n \in Stmts, NEW t \in Nat
  PROVE  /\ Piece(Emitted(n, t), KidsOf(n), OwnLabels(n) \cup OwnTemps(n, t),
                  OwnTemps(n, t) \cup Reach(ast, h, h[n]))
         /\ ast[n].kind = "function" => /\ Len(Emitted(n, t)) \in Nat /\ Len(Emitted(n, t)) > 0
                                        /\ Emitted(n, t)[1] = Label(SymbolOf(n))
<1> DEFINE kind == ast[n].kind
           K == KidsOf(n)
           L == OwnLabels(n) \cup OwnTemps(n, t)
           J == OwnTemps(n, t) \cup Reach(ast, h, h[n])
           Good(e, K0, L0) == \E J0 : Piece(e, K0, L0, J0) /\ J0 \subseteq J
<1>1. /\ n \in Nat /\ ast[n] \in Stmt /\ Len(ast[n].kids) \in Nat
      /\ DOMAIN ast[n].kids = 1 .. Len(ast[n].kids)
      /\ \A i \in DOMAIN ast[n].kids : ast[n].kids[i] \in Nat
      /\ \A i, j \in DOMAIN ast[n].kids : ast[n].kids[i] = ast[n].kids[j] => i = j
      /\ NeedsBody(ast[n].kind) =>
               Len(ast[n].kids) = 1 \/ (ast[n].kind = "if" /\ Len(ast[n].kids) = 2)
      /\ Target(ast, TRUE, h, n) /\ ast[n].target \in Nat
  BY StatementFacts
<1>2. kind \in StmtKind \cup {"function"}
  BY <1>1 DEF Stmt
<1>3. PICK ks : ks = ast[n].kids
  OBVIOUS
<1>4. /\ Len(ks) = 1 => K = {ks[1]} /\ ks[1] \in Nat
      /\ Len(ks) = 2 => K = {ks[1], ks[2]} /\ ks[1] \in Nat /\ ks[2] \in Nat /\ ks[1] # ks[2]
      /\ Len(ks) = 0 => K = {}
  <2>1. K = {ks[i] : i \in DOMAIN ks}
    BY <1>3 DEF KidsOf
  <2>2. /\ DOMAIN ks = 1 .. Len(ks) /\ \A i \in DOMAIN ks : ks[i] \in Nat
        /\ \A i, j \in DOMAIN ks : ks[i] = ks[j] => i = j
    BY <1>1, <1>3
  <2>3. (1 .. 0 = {}) /\ (1 .. 1 = {1}) /\ (1 .. 2 = {1, 2})
    OBVIOUS
  <2> HIDE DEF K
  <2>4. CASE Len(ks) = 0
    BY <2>1, <2>2, <2>3, <2>4
  <2>5. CASE Len(ks) = 1
    BY <2>1, <2>2, <2>3, <2>5
  <2>6. CASE Len(ks) = 2
    BY <2>1, <2>2, <2>3, <2>6
  <2> QED
    BY <2>4, <2>5, <2>6
<1>5. OwnLabels(n) = {<< k, n >> : k \in LabelKinds(kind)} /\ OwnLabels(n) \subseteq Reach(ast, h, h[n])
      /\ \A s \in Stmts : \A k \in LabelKinds(ast[s].kind) :
               h[s] = h[n] => << k, s >> \in Reach(ast, h, h[n])
  <2>1. \A s \in Stmts : s \in Nat
    BY StatementFacts
  <2> QED
    BY <1>1, <2>1, OwnReach DEF OwnLabels
<1>6. /\ TempLabels(n) = 0 => OwnTemps(n, t) = {}
      /\ TempLabels(n) = 1 => OwnTemps(n, t) = {Temp(t)}
      /\ TempLabels(n) = 2 => OwnTemps(n, t) = {Temp(t), Temp(t + 1)}
  <2>1. t .. t + 0 - 1 = {} /\ t .. t + 1 - 1 = {t} /\ t .. t + 2 - 1 = {t, t + 1}
    OBVIOUS
  <2> QED
    BY <2>1 DEF OwnTemps
<1> DEFINE P == \E J0 : Piece(Emitted(n, t), K, L, J0) /\ J0 \subseteq J
<1> HIDE DEF K, L, J
<1>7. ASSUME kind \in {"null", "expr", "return", "break", "continue", "goto"} PROVE P
  <2>1. K = {}
    <3>1. ks = << >> /\ Len(<< >>) = 0
      <4>1. ks = << >>
        BY <1>3, <1>7 DEF TreeOK, Filled, LeafKind, Stmts
      <4> QED
        BY <4>1
    <3> QED
      BY <1>4, <3>1
  <2>2. L = {}
    <3>1. TempLabels(n) = 0 /\ LabelKinds(kind) = {}
      BY <1>7 DEF TempLabels, LabelKinds, LoopKind
    <3> QED
      BY <1>5, <1>6, <3>1 DEF L
  <2>3. ASSUME kind = "null" PROVE P
    BY <2>1, <2>2, <2>3, PieceEmpty DEF Emitted
  <2>4. ASSUME kind = "expr" PROVE P
    <3>1. Piece(<< Eval(n, "expr") >>, {}, {}, {})
      BY <1>1, PieceOther DEF Part
    <3>2. Emitted(n, t) = << Eval(n, "expr") >>
      BY <2>4 DEF Emitted
    <3> QED
      BY <2>1, <2>2, <3>1, <3>2
  <2>5. ASSUME kind = "return" PROVE P
    <3>1. Piece(Optional(n, "expr", << >>), {}, {}, {})
      BY <1>1, PieceEmpty, PieceOptional DEF Part
    <3>2. Piece(<< Return(n) >>, {}, {}, {})
      BY <1>1, PieceOther DEF Part
    <3>3. Piece(Optional(n, "expr", << >>) \o << Return(n) >>, {} \cup {}, {} \cup {}, {} \cup {})
      BY <3>1, <3>2, PieceJoin
    <3>4. Piece(Optional(n, "expr", << >>) \o << Return(n) >>, {}, {}, {})
      BY <3>3, PieceIs
    <3>5. Emitted(n, t) = Optional(n, "expr", << >>) \o << Return(n) >>
      BY <2>5 DEF Emitted
    <3> QED
      BY <2>1, <2>2, <3>4, <3>5
  <2>6. ASSUME NEW k \in LabelSort, kind \in {"break", "continue", "goto"},
               Emitted(n, t) = << Jump(<< k, ast[n].target >>) >>,
               ast[n].target \in Stmts, h[ast[n].target] = h[n], k \in LabelKinds(ast[ast[n].target].kind)
        PROVE  P
    <3>1. PICK l : l = << k, ast[n].target >>
      OBVIOUS
    <3>2. l \in Named
      BY <1>1, <3>1 DEF Named
    <3>3. l \in Reach(ast, h, h[n])
      BY <1>5, <2>6, <3>1
    <3>4. Piece(<< Jump(l) >>, {}, {}, {l})
      BY <3>2, PieceJump
    <3>5. Emitted(n, t) = << Jump(l) >>
      BY <2>6, <3>1
    <3>6. {l} \subseteq J
      BY <3>3 DEF J
    <3> QED
      BY <2>1, <2>2, <3>4, <3>5, <3>6
  <2>7. ASSUME kind = "break" PROVE P
    <3>1. /\ ast[n].target \in Stmts /\ h[ast[n].target] = h[n]
          /\ ast[ast[n].target].kind \in LoopKind \cup {"switch"}
      BY <1>1, <2>7 DEF Target, Stmts
    <3>2. "break" \in LabelKinds(ast[ast[n].target].kind)
      BY <3>1 DEF LabelKinds, LoopKind
    <3>3. Emitted(n, t) = << Jump(<< "break", ast[n].target >>) >>
      BY <2>7 DEF Emitted, BreakOf
    <3> QED
      BY <2>6, <2>7, <3>1, <3>2, <3>3 DEF LabelSort
  <2>8. ASSUME kind = "continue" PROVE P
    <3>1. /\ ast[n].target \in Stmts /\ h[ast[n].target] = h[n]
          /\ ast[ast[n].target].kind \in LoopKind
      BY <1>1, <2>8 DEF Target, Stmts
    <3>2. "continue" \in LabelKinds(ast[ast[n].target].kind)
      BY <3>1 DEF LabelKinds, LoopKind
    <3>3. Emitted(n, t) = << Jump(<< "continue", ast[n].target >>) >>
      BY <2>8 DEF Emitted, ContinueOf
    <3> QED
      BY <2>6, <2>8, <3>1, <3>2, <3>3 DEF LabelSort
  <2>9. ASSUME kind = "goto" PROVE P
    <3>1. /\ ast[n].target \in Stmts /\ h[ast[n].target] = h[n]
          /\ ast[ast[n].target].kind = "label"
      BY <1>1, <2>9 DEF Target, Stmts
    <3>2. "user" \in LabelKinds(ast[ast[n].target].kind)
      BY <3>1 DEF LabelKinds, LoopKind
    <3>3. Emitted(n, t) = << Jump(<< "user", ast[n].target >>) >>
      BY <2>9 DEF Emitted, UserOf
    <3> QED
      BY <2>6, <2>9, <3>1, <3>2, <3>3 DEF LabelSort
  <2> QED
    BY <1>7, <2>3, <2>4, <2>5, <2>7, <2>8, <2>9
<1>8. ASSUME kind = "block" PROVE P
  <2>1. LabelKinds(kind) = {} /\ TempLabels(n) = 0 /\ Emitted(n, t) = Items(n)
    BY <1>8 DEF LabelKinds, LoopKind, TempLabels, Emitted
  <2>2. L = {}
    BY <1>5, <1>6, <2>1 DEF L
  <2>3. Piece(Items(n), KidsOf(n), {}, {})
    BY PieceItems
  <2> QED
    BY <2>1, <2>2, <2>3 DEF K
<1>9. ASSUME kind = "function" PROVE P
  <2>1. LabelKinds(kind) = {"symbol"} /\ TempLabels(n) = 0 /\ Emitted(n, t) = EmitFunction(n)
    BY <1>9 DEF LabelKinds, LoopKind, TempLabels, Emitted
  <2>2. L = {SymbolOf(n)}
    BY <1>5, <1>6, <2>1 DEF L, SymbolOf
  <2>3. Piece(EmitFunction(n), KidsOf(n), {SymbolOf(n)}, {})
    BY EmitFunctionPiece
  <2> QED
    BY <2>1, <2>2, <2>3 DEF K
<1>10. ASSUME kind = "if" PROVE P
  <2>1. Len(ks) = 1 \/ Len(ks) = 2
    BY <1>1, <1>3, <1>10 DEF NeedsBody, LeafKind
  <2>2. LabelKinds(kind) = {} /\ TempLabels(n) = Len(ks) /\ Emitted(n, t) = EmitIf(n, t)
    BY <1>3, <1>10 DEF LabelKinds, LoopKind, TempLabels, Emitted
  <2>3. /\ Len(ks) = 1 => L = {Temp(t)} /\ {Temp(t)} \subseteq J
        /\ Len(ks) = 2 => L = {Temp(t), Temp(t + 1)} /\ {Temp(t), Temp(t + 1)} \subseteq J
    BY <1>5, <1>6, <2>2 DEF L, J
  <2>4. /\ Len(ks) = 1 => Piece(EmitIf(n, t), {ks[1]}, {Temp(t)}, {Temp(t)})
        /\ Len(ks) = 2 => Piece(EmitIf(n, t), {ks[1], ks[2]}, {Temp(t), Temp(t + 1)}, {Temp(t), Temp(t + 1)})
    BY <1>1, <1>3, <1>4, <2>1, EmitIfPiece
  <2>5. ASSUME Len(ks) = 1 PROVE P
    BY <1>4, <2>2, <2>3, <2>4, <2>5
  <2>6. ASSUME Len(ks) = 2 PROVE P
    BY <1>4, <2>2, <2>3, <2>4, <2>6
  <2> QED
    BY <2>1, <2>5, <2>6
<1>11. ASSUME kind \in LoopKind \cup PrefixKind \cup {"switch"} PROVE P
  <2>1. K = {ast[n].kids[1]} /\ ast[n].kids[1] \in Nat
    <3>1. Len(ks) = 1
      BY <1>1, <1>3, <1>11 DEF NeedsBody, LeafKind, LoopKind, PrefixKind
    <3> QED
      BY <1>3, <1>4, <3>1
  <2>2. ASSUME kind = "for" PROVE P
    <3>1. LabelKinds(kind) = {"break", "continue"} /\ TempLabels(n) = 1 /\ Emitted(n, t) = EmitFor(n, t)
      BY <2>2 DEF LabelKinds, LoopKind, TempLabels, Emitted
    <3>2. L = {Temp(t), ContinueOf(n), BreakOf(n)} /\ {Temp(t), BreakOf(n)} \subseteq J
      <4>1. OwnLabels(n) = {ContinueOf(n), BreakOf(n)}
        BY <1>5, <3>1 DEF ContinueOf, BreakOf
      <4> QED
        BY <1>5, <1>6, <3>1, <4>1 DEF L, J
    <3>3. Piece(EmitFor(n, t), {ast[n].kids[1]}, {Temp(t), ContinueOf(n), BreakOf(n)}, {Temp(t), BreakOf(n)})
      BY <1>1, <2>1, EmitForPiece
    <3> QED
      BY <2>1, <3>1, <3>2, <3>3
  <2>3. ASSUME kind = "while" PROVE P
    <3>1. LabelKinds(kind) = {"break", "continue"} /\ TempLabels(n) = 0 /\ Emitted(n, t) = EmitWhile(n)
      BY <2>3 DEF LabelKinds, LoopKind, TempLabels, Emitted
    <3>2. L = {ContinueOf(n), BreakOf(n)} /\ {ContinueOf(n), BreakOf(n)} \subseteq J
      <4>1. OwnLabels(n) = {ContinueOf(n), BreakOf(n)}
        BY <1>5, <3>1 DEF ContinueOf, BreakOf
      <4> QED
        BY <1>5, <1>6, <3>1, <4>1 DEF L, J
    <3>3. Piece(EmitWhile(n), {ast[n].kids[1]}, {ContinueOf(n), BreakOf(n)}, {ContinueOf(n), BreakOf(n)})
      BY <1>1, <2>1, EmitWhilePiece
    <3> QED
      BY <2>1, <3>1, <3>2, <3>3
  <2>4. ASSUME kind = "dowhile" PROVE P
    <3>1. LabelKinds(kind) = {"break", "continue"} /\ TempLabels(n) = 1 /\ Emitted(n, t) = EmitDoWhile(n, t)
      BY <2>4 DEF LabelKinds, LoopKind, TempLabels, Emitted
    <3>2. L = {Temp(t), ContinueOf(n), BreakOf(n)} /\ {Temp(t)} \subseteq J
      <4>1. OwnLabels(n) = {ContinueOf(n), BreakOf(n)}
        BY <1>5, <3>1 DEF ContinueOf, BreakOf
      <4> QED
        BY <1>5, <1>6, <3>1, <4>1 DEF L, J
    <3>3. Piece(EmitDoWhile(n, t), {ast[n].kids[1]}, {Temp(t), ContinueOf(n), BreakOf(n)}, {Temp(t)})
      BY <1>1, <2>1, EmitDoWhilePiece
    <3> QED
      BY <2>1, <3>1, <3>2, <3>3
  <2>5. ASSUME kind = "switch" PROVE P
    <3>1. LabelKinds(kind) = {"break"} /\ TempLabels(n) = 0 /\ Emitted(n, t) = EmitSwitch(n)
      BY <2>5 DEF LabelKinds, LoopKind, TempLabels, Emitted
    <3>2. OwnLabels(n) = {BreakOf(n)}
      BY <1>5, <3>1 DEF BreakOf
    <3>3. L = {BreakOf(n)}
      BY <1>6, <3>1, <3>2 DEF L
    <3>4. ASSUME NEW c \in CasesOf(n) \cup DefaultsOf(n) PROVE CaseOf(c) \in J
      <4>1. c \in Stmts /\ ast[c].kind \in {"case", "default"} /\ ast[c].target = n
        BY DEF CasesOf, DefaultsOf
      <4>2. Target(ast, TRUE, h, c)
        BY <4>1, StatementFacts
      <4>3. h[c] = h[n]
        BY <4>1, <4>2 DEF Target
      <4>4. "case" \in LabelKinds(ast[c].kind)
        BY <4>1 DEF LabelKinds, LoopKind
      <4>5. CaseOf(c) = << "case", c >>
        BY DEF CaseOf
      <4> QED
        BY <1>5, <4>1, <4>3, <4>4, <4>5 DEF J
    <3>5. {CaseOf(c) : c \in CasesOf(n) \cup DefaultsOf(n)} \cup {BreakOf(n)} \subseteq J
      <4>1. BreakOf(n) \in J
        BY <1>5, <3>2 DEF J
      <4> QED
        BY <3>4, <4>1
    <3>6. Piece(EmitSwitch(n), {ast[n].kids[1]}, {BreakOf(n)},
                {CaseOf(c) : c \in CasesOf(n) \cup DefaultsOf(n)} \cup {BreakOf(n)})
      BY <2>1, EmitSwitchPiece
    <3> QED
      BY <2>1, <3>1, <3>3, <3>5, <3>6
  <2>6. ASSUME NEW l \in Named, kind \in PrefixKind, LabelKinds(kind) = {l[1]}, l[2] = n,
               Emitted(n, t) = << Label(l), Sub(n, 1) >>
        PROVE  P
    <3>1. TempLabels(n) = 0
      BY <2>6 DEF TempLabels, PrefixKind
    <3>2. OwnLabels(n) = {l}
      BY <1>5, <2>6 DEF Named
    <3>3. L = {l}
      BY <1>6, <3>1, <3>2 DEF L
    <3>4. PICK k : k = ast[n].kids[1]
      OBVIOUS
    <3>5. Piece(<< Label(l) >>, {}, {l}, {}) /\ Piece(<< Visit(k) >>, {k}, {}, {})
      BY <2>1, <3>4, PieceLabel, PieceVisit
    <3>6. Piece(<< Label(l), Visit(k) >>, {} \cup {k}, {l} \cup {}, {} \cup {})
      BY <3>5, Piece2
    <3>7. Piece(<< Label(l), Visit(k) >>, {k}, {l}, {})
      BY <3>6, PieceIs
    <3>8. Emitted(n, t) = << Label(l), Visit(k) >>
      BY <2>6, <3>4 DEF Sub
    <3> QED
      BY <2>1, <3>3, <3>4, <3>7, <3>8
  <2>7. ASSUME kind \in {"case", "default"} PROVE P
    <3>1. LabelKinds(kind) = {"case"} /\ Emitted(n, t) = << Label(CaseOf(n)), Sub(n, 1) >>
      BY <2>7 DEF LabelKinds, LoopKind, Emitted
    <3>2. CaseOf(n) \in Named /\ CaseOf(n)[1] = "case" /\ CaseOf(n)[2] = n
      BY <1>1 DEF CaseOf, Named, LabelSort
    <3>3. kind \in PrefixKind
      BY <2>7 DEF PrefixKind
    <3> QED
      BY <2>6, <3>1, <3>2, <3>3
  <2>8. ASSUME kind = "label" PROVE P
    <3>1. LabelKinds(kind) = {"user"} /\ Emitted(n, t) = << Label(UserOf(n)), Sub(n, 1) >>
      BY <2>8 DEF LabelKinds, LoopKind, Emitted
    <3>2. UserOf(n) \in Named /\ UserOf(n)[1] = "user" /\ UserOf(n)[2] = n
      BY <1>1 DEF UserOf, Named, LabelSort
    <3>3. kind \in PrefixKind
      BY <2>8 DEF PrefixKind
    <3> QED
      BY <2>6, <3>1, <3>2, <3>3
  <2> QED
    BY <1>11, <2>2, <2>3, <2>4, <2>5, <2>7, <2>8 DEF LoopKind, PrefixKind
<1>12. P
  BY <1>2, <1>7, <1>8, <1>9, <1>10, <1>11 DEF StmtKind, LeafKind
<1>13. Piece(Emitted(n, t), K, L, J)
  BY <1>12, PieceIs
<1>14. ast[n].kind = "function" => Emitted(n, t) = EmitFunction(n)
  BY DEF Emitted
<1>15. ast[n].kind = "function" => /\ Len(Emitted(n, t)) \in Nat /\ Len(Emitted(n, t)) > 0
                                   /\ Emitted(n, t)[1] = Label(SymbolOf(n))
  <2>1. /\ Len(EmitFunction(n)) \in Nat /\ Len(EmitFunction(n)) > 0
        /\ EmitFunction(n)[1] = Label(SymbolOf(n))
    BY EmitFunctionPiece
  <2> QED
    BY <1>14, <2>1
<1> QED
  BY <1>13, <1>15 DEF K, L, J

-----------------------------------------------------------------------------
(* Replacing one instruction by a piece of code                            *)

HIDE TreeAssumption

\* Code c2, whose positions have the functions f2, is c with the instruction at
\* i replaced by e: at says where the other instructions go, new where those of e do.
Spliced(c, f, i, e, c2, f2, at, new) ==
    /\ c2 \in Seq(Instr) /\ f2 \in [DOMAIN c2 -> Nat]
    /\ at \in [DOMAIN c \ {i} -> DOMAIN c2] /\ new \in [DOMAIN e -> DOMAIN c2]
    /\ \A q \in DOMAIN c \ {i} : c2[at[q]] = c[q] /\ f2[at[q]] = f[q]
    /\ \A j \in DOMAIN e : c2[new[j]] = e[j] /\ f2[new[j]] = f[i]
    /\ \A p \in DOMAIN c2 : \/ \E q \in DOMAIN c \ {i} : p = at[q]
                            \/ \E j \in DOMAIN e : p = new[j]
    /\ \A q, r \in DOMAIN c \ {i} : at[q] < at[r] => q < r
    /\ \A j, k \in DOMAIN e : new[j] < new[k] => j < k
    /\ \A q \in DOMAIN c \ {i}, j \in DOMAIN e :
          (at[q] < new[j] => q < i) /\ (new[j] < at[q] => i < q)

Ascending(f, c) == \A p, q \in DOMAIN c : p <= q => f[p] <= f[q]

Before(c, i) == SubSeq(c, 1, i - 1)
After(c, i) == SubSeq(c, i + 1, Len(c))
Join(l, r) == l \o r

LEMMA CutBefore ==
  ASSUME NEW c \in Seq(Instr), NEW i \in 1 .. Len(c)
  PROVE  /\ Before(c, i) \in Seq(Instr) /\ Len(Before(c, i)) = i - 1
         /\ \A p \in 1 .. i - 1 : Before(c, i)[p] = c[p]
BY DEF Before

LEMMA CutAfter ==
  ASSUME NEW c \in Seq(Instr), NEW i \in 1 .. Len(c)
  PROVE  /\ After(c, i) \in Seq(Instr) /\ Len(After(c, i)) = Len(c) - i
         /\ \A p \in 1 .. Len(c) - i : After(c, i)[p] = c[i + p]
<1>1. Len(c) \in Nat
  OBVIOUS
<1>2. After(c, i) \in Seq(Instr) /\ Len(After(c, i)) = Len(c) - i
  BY <1>1 DEF After
<1>3. \A p \in 1 .. Len(c) - i : After(c, i)[p] = c[i + p]
  BY <1>1 DEF After
<1> QED
  BY <1>2, <1>3

LEMMA Joined ==
  ASSUME NEW l \in Seq(Instr), NEW r \in Seq(Instr)
  PROVE  /\ Join(l, r) \in Seq(Instr) /\ Len(Join(l, r)) = Len(l) + Len(r)
         /\ \A p \in 1 .. Len(l) : Join(l, r)[p] = l[p]
         /\ \A p \in 1 .. Len(r) : Join(l, r)[Len(l) + p] = r[p]
BY DEF Join

\* w is c, of length len, with the instruction at i replaced by e, of length m.
Replacement(c, len, i, e, m, w) ==
    /\ w \in Seq(Instr) /\ DOMAIN w = 1 .. len + m - 1
    /\ \A p \in 1 .. i - 1 : w[p] = c[p]
    /\ \A j \in 1 .. m : w[i - 1 + j] = e[j]
    /\ \A p \in 1 .. len - i : w[i - 1 + m + p] = c[i + p]

LEMMA Replaced ==
  ASSUME NEW c \in Seq(Instr), NEW i \in 1 .. Len(c), NEW e \in Seq(Instr)
  PROVE  Replacement(c, Len(c), i, e, Len(e), Join(Join(Before(c, i), e), After(c, i)))
<1>0. PICK len, m, c2 : /\ len = Len(c) /\ m = Len(e) /\ len \in Nat /\ m \in Nat
                          /\ c2 = Join(Join(Before(c, i), e), After(c, i))
  OBVIOUS
<1>1. PICK l, r, le : l = Before(c, i) /\ r = After(c, i) /\ le = Join(l, e) /\ c2 = Join(le, r)
  BY <1>0
<1>2. /\ l \in Seq(Instr) /\ Len(l) = i - 1 /\ \A p \in 1 .. i - 1 : l[p] = c[p]
      /\ r \in Seq(Instr) /\ Len(r) = len - i /\ \A p \in 1 .. len - i : r[p] = c[i + p]
  BY <1>0, <1>1, CutBefore, CutAfter
<1>3. PICK a \in Nat, b \in Nat, d \in Nat : a = i - 1 /\ b = len - i /\ d = a + m
  <2>1. i - 1 \in Nat /\ len - i \in Nat /\ i - 1 + m \in Nat
    BY <1>0
  <2> QED
    BY <2>1
<1>4. a = Len(l) /\ m = Len(e) /\ b = Len(r)
  BY <1>0, <1>2, <1>3
<1>5. /\ le \in Seq(Instr) /\ Len(le) = d
      /\ \A p \in 1 .. a : le[p] = l[p]
      /\ \A j \in 1 .. m : le[a + j] = e[j]
  <2>1. /\ Join(l, e) \in Seq(Instr) /\ Len(Join(l, e)) = Len(l) + Len(e)
        /\ \A p \in 1 .. Len(l) : Join(l, e)[p] = l[p]
        /\ \A p \in 1 .. Len(e) : Join(l, e)[Len(l) + p] = e[p]
    BY <1>2, Joined
  <2> QED
    BY <1>1, <1>3, <1>4, <2>1
<1>8. /\ c2 \in Seq(Instr) /\ Len(c2) = d + b
      /\ \A p \in 1 .. d : c2[p] = le[p]
      /\ \A p \in 1 .. b : c2[d + p] = r[p]
  <2>1. /\ Join(le, r) \in Seq(Instr) /\ Len(Join(le, r)) = Len(le) + Len(r)
        /\ \A p \in 1 .. Len(le) : Join(le, r)[p] = le[p]
        /\ \A p \in 1 .. Len(r) : Join(le, r)[Len(le) + p] = r[p]
    BY <1>2, <1>5, Joined
  <2> QED
    BY <1>1, <1>4, <1>5, <2>1
<1>9. DOMAIN c2 = 1 .. d + b
  BY <1>8
<1>10. /\ \A p \in 1 .. a : p \in 1 .. d
       /\ \A j \in 1 .. m : a + j \in 1 .. d
       /\ d + b = len + m - 1 /\ d = i - 1 + m
  BY <1>0, <1>3
<1>11. /\ \A p \in 1 .. a : c2[p] = c[p]
       /\ \A j \in 1 .. m : c2[a + j] = e[j]
       /\ \A p \in 1 .. b : c2[d + p] = c[i + p]
  BY <1>2, <1>3, <1>5, <1>8, <1>10
<1>12. Replacement(c, len, i, e, m, c2)
  BY <1>3, <1>8, <1>9, <1>10, <1>11 DEF Replacement
<1> QED
  BY <1>0, <1>12

LEMMA Splice ==
  ASSUME NEW c \in Seq(Instr), NEW i \in DOMAIN c, NEW e \in Seq(Instr),
         NEW f \in [DOMAIN c -> Nat], Ascending(f, c), NEW c2,
         NEW len \in Nat, DOMAIN c = 1 .. len, NEW m \in Nat, DOMAIN e = 1 .. m,
         c2 \in Seq(Instr), DOMAIN c2 = 1 .. len + m - 1,
         \A p \in 1 .. i - 1 : c2[p] = c[p],
         \A j \in 1 .. m : c2[i - 1 + j] = e[j],
         \A p \in 1 .. len - i : c2[i - 1 + m + p] = c[i + p]
  PROVE  \E f2, at, new : Spliced(c, f, i, e, c2, f2, at, new) /\ Ascending(f2, c2)
<1>1. DOMAIN c = 1 .. len /\ DOMAIN e = 1 .. m
  OBVIOUS
<1>2. i \in 1 .. len
  OBVIOUS
<1>8. /\ c2 \in Seq(Instr) /\ DOMAIN c2 = 1 .. len + m - 1
      /\ \A p \in 1 .. i - 1 : c2[p] = c[p]
      /\ \A j \in 1 .. m : c2[i - 1 + j] = e[j]
      /\ \A p \in 1 .. len - i : c2[i - 1 + m + p] = c[i + p]
  OBVIOUS
<1> DEFINE Old(p) == IF p < i THEN p ELSE IF p < i + m THEN i ELSE p - m + 1
           f2 == [p \in DOMAIN c2 |-> f[Old(p)]]
           at == [q \in DOMAIN c \ {i} |-> IF q < i THEN q ELSE q + m - 1]
           new == [j \in DOMAIN e |-> i - 1 + j]
<1>9. \A p \in DOMAIN c2 : Old(p) \in 1 .. len
  BY <1>2, <1>8
<1>10. \A p, q \in DOMAIN c2 : p <= q => Old(p) <= Old(q)
  BY <1>2, <1>8
<1>11. f2 \in [DOMAIN c2 -> Nat] /\ Ascending(f2, c2)
  <2>1. \A p \in DOMAIN c2 : f2[p] = f[Old(p)] /\ f2[p] \in Nat
    BY <1>1, <1>9
  <2> HIDE DEF Old
  <2>2. \A p, q \in DOMAIN c2 : p <= q => f[Old(p)] <= f[Old(q)]
    BY <1>1, <1>9, <1>10 DEF Ascending
  <2>3. Ascending(f2, c2)
    BY <2>1, <2>2 DEF Ascending
  <2> QED
    BY <2>1, <2>3
<1>115. \A p \in DOMAIN c2 : f2[p] = f[Old(p)]
  OBVIOUS
<1> HIDE DEF f2, new
<1>12. ASSUME NEW q \in DOMAIN c \ {i}
       PROVE  at[q] \in DOMAIN c2 /\ at[q] = (IF q < i THEN q ELSE q + m - 1)
              /\ Old(at[q]) = q /\ c2[at[q]] = c[q]
  <2>1. at[q] = (IF q < i THEN q ELSE q + m - 1)
    OBVIOUS
  <2>2. q \in 1 .. len /\ q # i
    BY <1>1
  <2> HIDE DEF at
  <2>3. PICK x : x = at[q]
    OBVIOUS
  <2>4. x \in 1 .. len + m - 1 /\ Old(x) = q
    <3>1. CASE q < i
      <4>1. x = q
        BY <2>1, <2>3, <3>1
      <4> QED
        BY <1>2, <2>2, <3>1, <4>1
    <3>2. CASE q > i
      <4>1. x = q + m - 1
        BY <1>2, <2>1, <2>2, <2>3, <3>2
      <4> QED
        BY <1>2, <2>2, <3>2, <4>1
    <3> QED
      BY <1>2, <2>2, <3>1, <3>2
  <2>5. c2[x] = c[q]
    <3>1. CASE q < i
      <4>1. x = q /\ q \in 1 .. i - 1
        BY <1>2, <2>1, <2>2, <2>3, <3>1
      <4> QED
        BY <1>8, <4>1
    <3>2. CASE q > i
      <4>1. PICK p \in 1 .. len - i : p = q - i
        BY <1>2, <2>2, <3>2, SMTT(30)
      <4>2. x = i - 1 + m + p /\ q = i + p
        BY <1>2, <2>1, <2>2, <2>3, <3>2, <4>1, SMTT(30)
      <4> QED
        BY <1>8, <4>1, <4>2
    <3> QED
      BY <1>2, <2>2, <3>1, <3>2
  <2> HIDE DEF Old
  <2> QED
    BY <1>8, <2>1, <2>3, <2>4, <2>5
<1> USE DEF new
<1>13. ASSUME NEW j \in DOMAIN e
       PROVE  new[j] \in DOMAIN c2 /\ new[j] = i - 1 + j /\ Old(new[j]) = i /\ c2[new[j]] = e[j]
  <2>1. new[j] = i - 1 + j
    OBVIOUS
  <2>2. j \in 1 .. m
    BY <1>1
  <2> QED
    BY <1>2, <1>8, <2>1, <2>2, SMTT(30)
<1>14. ASSUME NEW p \in DOMAIN c2
       PROVE  \/ \E q \in DOMAIN c \ {i} : p = at[q]
              \/ \E j \in DOMAIN e : p = new[j]
  <2>0. p \in 1 .. len + m - 1
    BY <1>8
  <2>1. CASE p < i
    <3>1. p \in DOMAIN c \ {i}
      BY <1>1, <1>2, <2>0, <2>1
    <3> QED
      BY <1>12, <2>1, <3>1
  <2>2. CASE p >= i /\ p < i + m
    <3>1. p - i + 1 \in 1 .. m
      BY <1>2, <2>0, <2>2
    <3>2. new[p - i + 1] = p
      BY <1>1, <1>2, <1>13, <2>0, <3>1
    <3> QED
      BY <1>1, <3>1, <3>2
  <2>3. CASE p >= i + m
    <3>1. p - m + 1 \in DOMAIN c \ {i} /\ p - m + 1 > i
      BY <1>1, <1>2, <2>0, <2>3
    <3>2. at[p - m + 1] = p
      BY <1>2, <1>12, <2>0, <3>1
    <3> QED
      BY <3>1, <3>2
  <2> QED
    BY <1>2, <2>0, <2>1, <2>2, <2>3
<1>15. /\ \A q, u \in DOMAIN c \ {i} : at[q] < at[u] => q < u
       /\ \A j, k \in DOMAIN e : new[j] < new[k] => j < k
       /\ \A q \in DOMAIN c \ {i}, j \in DOMAIN e :
             (at[q] < new[j] => q < i) /\ (new[j] < at[q] => i < q)
  <2> HIDE DEF at, new, Old, f2
  <2>1. ASSUME NEW q \in DOMAIN c \ {i}, NEW u \in DOMAIN c \ {i}, at[q] < at[u] PROVE q < u
    BY <1>1, <1>2, <1>12, <2>1, SMTT(30)
  <2>2. ASSUME NEW j \in DOMAIN e, NEW k \in DOMAIN e, new[j] < new[k] PROVE j < k
    BY <1>1, <1>2, <1>13, <2>2
  <2>3. ASSUME NEW q \in DOMAIN c \ {i}, NEW j \in DOMAIN e
        PROVE  (at[q] < new[j] => q < i) /\ (new[j] < at[q] => i < q)
    BY <1>1, <1>2, <1>12, <1>13, SMTT(30)
  <2> QED
    BY <2>1, <2>2, <2>3
<1>16. at \in [DOMAIN c \ {i} -> DOMAIN c2] /\ new \in [DOMAIN e -> DOMAIN c2]
  BY <1>12, <1>13
<1>17. /\ \A q \in DOMAIN c \ {i} : f2[at[q]] = f[q]
       /\ \A j \in DOMAIN e : f2[new[j]] = f[i]
  <2> HIDE DEF f2, at, new, Old
  <2> QED
    BY <1>12, <1>13, <1>115, SMTT(30)
<1>18. \A p \in DOMAIN c2 : \/ \E q \in DOMAIN c \ {i} : p = at[q]
                            \/ \E j \in DOMAIN e : p = new[j]
  BY <1>14
<1> HIDE DEF f2, at, new, Old
<1>19. Spliced(c, f, i, e, c2, f2, at, new)
  BY <1>8, <1>11, <1>12, <1>13, <1>15, <1>16, <1>17, <1>18, Zenon DEF Spliced
<1> QED
  BY <1>11, <1>19

LEMMA SpliceIn ==
  ASSUME NEW c \in Seq(Instr), NEW i \in DOMAIN c, NEW e \in Seq(Instr),
         NEW f \in [DOMAIN c -> Nat], Ascending(f, c)
  PROVE  \E f2, at, new : /\ Spliced(c, f, i, e, Join(Join(Before(c, i), e), After(c, i)), f2, at, new)
                          /\ Ascending(f2, Join(Join(Before(c, i), e), After(c, i)))
<1>1. PICK len \in Nat, m \in Nat : len = Len(c) /\ m = Len(e) /\ DOMAIN c = 1 .. len /\ DOMAIN e = 1 .. m
  OBVIOUS
<1>2. PICK c2 : c2 = Join(Join(Before(c, i), e), After(c, i))
  OBVIOUS
<1>3. i \in 1 .. len
  BY <1>1
<1>4. /\ c2 \in Seq(Instr) /\ DOMAIN c2 = 1 .. len + m - 1
      /\ \A p \in 1 .. i - 1 : c2[p] = c[p]
      /\ \A j \in 1 .. m : c2[i - 1 + j] = e[j]
      /\ \A p \in 1 .. len - i : c2[i - 1 + m + p] = c[i + p]
  <2>1. Replacement(c, Len(c), i, e, Len(e), Join(Join(Before(c, i), e), After(c, i)))
    BY <1>1, Replaced
  <2>2. Replacement(c, len, i, e, m, c2)
    BY <1>1, <1>2, <2>1
  <2> QED
    BY <2>2 DEF Replacement
<1>5. \E f2, at, new : Spliced(c, f, i, e, c2, f2, at, new) /\ Ascending(f2, c2)
  BY <1>1, <1>4, Splice
<1> QED
  BY <1>2, <1>5

-----------------------------------------------------------------------------
(* The code while statements are visited                                   *)

\* V are the statements visited, f the function of every position. Statements
\* still to visit are in place once each, below what has been visited; the one
\* that stands for a function is all there is of it.
VisitsOK(a, c, h, V, f) ==
    /\ \A p \in DOMAIN c : c[p].op = "visit" =>
          /\ c[p].stmt \in DOMAIN a \ V /\ h[c[p].stmt] = f[p]
          /\ a[c[p].stmt].parent \in V \cup {None}
          /\ a[c[p].stmt].kind = "function" => \A q \in DOMAIN c : f[q] = f[p] => q = p
    /\ \A n \in V : a[n].parent \in V \cup {None}
    /\ \A n \in DOMAIN a \ V : a[n].parent \in V \cup {None} => \E p \in DOMAIN c : c[p] = Visit(n)

\* Labels are temporaries handed out or belong to statements visited, which
\* have all of theirs; that of a function is its first.
LabelsOK(a, c, t, h, V, f) ==
    /\ \A p \in DOMAIN c : c[p].op = "label" =>
          /\ \/ \E x \in Nat : x < t /\ c[p].label = Temp(x)
             \/ \E s \in V : \E k \in LabelKinds(a[s].kind) : c[p].label = << k, s >> /\ h[s] = f[p]
          /\ c[p].label[1] = "symbol" => \A q \in DOMAIN c : q < p => f[q] # f[p]
    /\ \A s \in V : \A k \in LabelKinds(a[s].kind) : \E p \in DOMAIN c : c[p] = Label(<< k, s >>)

Once(c) == \A p, q \in DOMAIN c : c[p].op \in {"visit", "label"} /\ c[p] = c[q] => p = q

\* Jumps go to a temporary of the function that is there or to a label of it.
JumpsOK(a, c, h, f) ==
    \A p \in DOMAIN c : c[p].op \in JumpOps =>
        \/ c[p].label \in Reach(a, h, f[p])
        \/ \E x \in Nat : /\ c[p].label = Temp(x)
                          /\ \E q \in DOMAIN c : c[q] = Label(c[p].label) /\ f[q] = f[p]

CodeOK(a, c, t, h, V, f) ==
    /\ c \in Seq(Instr) /\ t \in Nat /\ V \subseteq DOMAIN a
    /\ f \in [DOMAIN c -> Nat] /\ Ascending(f, c)
    /\ VisitsOK(a, c, h, V, f) /\ LabelsOK(a, c, t, h, V, f) /\ Once(c) /\ JumpsOK(a, c, h, f)

LEMMA OwnSorts ==
  ASSUME NEW kind, NEW k \in LabelKinds(kind)
  PROVE  k # "temp" /\ (k = "symbol" => kind = "function")
BY DEF LabelKinds, LoopKind

LEMMA SplicedShape ==
  ASSUME NEW c, NEW f, NEW i, NEW e, NEW c2, NEW f2, NEW at, NEW new, Spliced(c, f, i, e, c2, f2, at, new)
  PROVE  /\ \A q \in DOMAIN c : q # i => at[q] \in DOMAIN c2 /\ c2[at[q]] = c[q] /\ f2[at[q]] = f[q]
         /\ \A j \in DOMAIN e : new[j] \in DOMAIN c2 /\ c2[new[j]] = e[j] /\ f2[new[j]] = f[i]
         /\ \A p \in DOMAIN c2 : \/ \E q \in DOMAIN c : q # i /\ p = at[q] /\ c2[p] = c[q] /\ f2[p] = f[q]
                                 \/ \E j \in DOMAIN e : p = new[j] /\ c2[p] = e[j] /\ f2[p] = f[i]
<1>1. \A q \in DOMAIN c : q # i => at[q] \in DOMAIN c2 /\ c2[at[q]] = c[q] /\ f2[at[q]] = f[q]
  BY DEF Spliced
<1>2. \A j \in DOMAIN e : new[j] \in DOMAIN c2 /\ c2[new[j]] = e[j] /\ f2[new[j]] = f[i]
  BY DEF Spliced
<1>3. \A p \in DOMAIN c2 : (\E q \in DOMAIN c \ {i} : p = at[q]) \/ (\E j \in DOMAIN e : p = new[j])
  BY DEF Spliced
<1> QED
  BY <1>1, <1>2, <1>3

\* A visit replaced by what the statement emits.
LEMMA PieceKeeps ==
  ASSUME NEW a, NEW c, NEW t, NEW h, NEW V, NEW f, CodeOK(a, c, t, h, V, f),
         Numbered(a), Homes(a, h), \A m \in DOMAIN a : a[m].parent = None <=> a[m].kind = "function",
         NEW i \in DOMAIN c, c[i].op = "visit", NEW n, n = c[i].stmt,
         NEW e, NEW K, NEW L, NEW J, Piece(e, K, L, J), NEW t2 \in Nat, t <= t2,
         K = {m \in DOMAIN a : a[m].parent = n},
         \A l \in L : \/ \E k \in LabelKinds(a[n].kind) : l = << k, n >>
                      \/ \E x \in Nat : t <= x /\ x < t2 /\ l = Temp(x),
         \A k \in LabelKinds(a[n].kind) : << k, n >> \in L,
         \A l \in J : l \in Reach(a, h, h[n]) \/ (l \in L /\ \E x \in Nat : l = Temp(x)),
         a[n].kind = "function" => 1 \in DOMAIN e /\ e[1] = Label(<< "symbol", n >>),
         NEW c2, NEW f2, NEW at, NEW new, Spliced(c, f, i, e, c2, f2, at, new), Ascending(f2, c2)
  PROVE  CodeOK(a, c2, t2, h, V \cup {n}, f2)
<1>1. /\ c \in Seq(Instr) /\ t \in Nat /\ V \subseteq DOMAIN a /\ VisitsOK(a, c, h, V, f)
      /\ LabelsOK(a, c, t, h, V, f) /\ Once(c) /\ JumpsOK(a, c, h, f)
  BY DEF CodeOK
<1>2. /\ c2 \in Seq(Instr) /\ f2 \in [DOMAIN c2 -> Nat]
  BY DEF Spliced
<1>3. /\ \A q \in DOMAIN c : q # i => at[q] \in DOMAIN c2 /\ c2[at[q]] = c[q] /\ f2[at[q]] = f[q]
      /\ \A j \in DOMAIN e : new[j] \in DOMAIN c2 /\ c2[new[j]] = e[j] /\ f2[new[j]] = f[i]
      /\ \A p \in DOMAIN c2 : \/ \E q \in DOMAIN c : q # i /\ p = at[q] /\ c2[p] = c[q] /\ f2[p] = f[q]
                              \/ \E j \in DOMAIN e : p = new[j] /\ c2[p] = e[j] /\ f2[p] = f[i]
  BY SplicedShape
<1>4. /\ n \in DOMAIN a \ V /\ h[n] = f[i] /\ a[n].parent \in V \cup {None} /\ c[i] = Visit(n)
      /\ a[n].kind = "function" => \A q \in DOMAIN c : f[q] = f[i] => q = i
  <2>1. c[i] \in Instr
    BY <1>1
  <2> QED
    BY <1>1, <2>1, InstrShapes DEF VisitsOK
<1>5. \A x, y, k : << "temp", x >> = << k, y >> => k = "temp"
  OBVIOUS
<1>6. \A j \in DOMAIN e : e[j] \in Instr /\ (e[j].op = "visit" => e[j] = Visit(e[j].stmt) /\ e[j].stmt \in K)
                          /\ (e[j].op = "label" => e[j] = Label(e[j].label) /\ e[j].label \in L)
                          /\ (e[j].op \in JumpOps => e[j].label \in J)
  <2>1. \A j \in DOMAIN e : e[j] \in Instr
    BY DEF Piece
  <2> QED
    BY <2>1, InstrShapes DEF Piece
<1>7. \A q \in DOMAIN c : c[q] \in Instr /\ (c[q].op = "visit" => c[q] = Visit(c[q].stmt))
                          /\ (c[q].op = "label" => c[q] = Label(c[q].label))
  <2>1. \A q \in DOMAIN c : c[q] \in Instr
    BY <1>1
  <2> QED
    BY <2>1, InstrShapes
<1>8. \A x, y : (Visit(x).op = "visit" /\ Label(y).op = "label" /\ Visit(x) # Label(y)
                 /\ Visit(x).stmt = x /\ Label(y).label = y)
  BY DEF Visit, Label
<1>9. \A m \in K : m \in DOMAIN a /\ m # n /\ m \notin V /\ a[m].parent = n /\ h[m] = f[i]
                   /\ a[m].kind # "function"
  <2>1. ASSUME NEW m \in K PROVE m \in DOMAIN a /\ a[m].parent = n
    OBVIOUS
  <2>2. n # None /\ n \in Nat
    BY <1>4 DEF Numbered, None
  <2>3. ASSUME NEW m \in K PROVE m # n
    BY <1>4, <2>1, <2>2 DEF Numbered
  <2>4. ASSUME NEW m \in K PROVE m \notin V
    BY <1>1, <1>4, <2>1, <2>2 DEF VisitsOK
  <2>5. ASSUME NEW m \in K PROVE h[m] = f[i]
    BY <1>4, <2>1, <2>2 DEF Homes
  <2> QED
    BY <2>1, <2>2, <2>3, <2>4, <2>5
<1> DEFINE W == V \cup {n}
<1>10. W \subseteq DOMAIN a
  BY <1>1, <1>4
<1>11. \A l \in L : \/ \E k \in LabelKinds(a[n].kind) : l = << k, n >>
                    \/ \E x \in Nat : t <= x /\ x < t2 /\ l = << "temp", x >>
  BY DEF Temp
<1>12. Once(c2)
  <2>1. ASSUME NEW q \in DOMAIN c, NEW j \in DOMAIN e, c[q].op \in {"visit", "label"}, c[q] = e[j] PROVE FALSE
    <3>1. CASE c[q].op = "visit"
      <4>1. e[j].stmt \in K /\ c[q].stmt = e[j].stmt
        BY <1>6, <2>1, <3>1
      <4>2. a[c[q].stmt].parent \in V \cup {None}
        BY <1>1, <3>1 DEF VisitsOK
      <4>3. a[c[q].stmt].parent = n
        BY <1>9, <4>1
      <4>4. n # None
        BY <1>4 DEF Numbered, None
      <4> QED
        BY <1>4, <4>2, <4>3, <4>4
    <3>2. CASE c[q].op = "label"
      <4>1. PICK l : l = c[q].label /\ l = e[j].label /\ l \in L
        BY <1>6, <2>1, <3>2
      <4>2. \/ \E x \in Nat : x < t /\ l = << "temp", x >>
            \/ \E s \in V : \E k \in LabelKinds(a[s].kind) : l = << k, s >>
        <5>1. \/ \E x \in Nat : x < t /\ c[q].label = Temp(x)
              \/ \E s \in V : \E k \in LabelKinds(a[s].kind) : c[q].label = << k, s >>
          BY <1>1, <3>2 DEF LabelsOK
        <5> QED
          BY <4>1, <5>1 DEF Temp
      <4>3. \/ \E k \in LabelKinds(a[n].kind) : l = << k, n >>
            \/ \E x \in Nat : t <= x /\ x < t2 /\ l = << "temp", x >>
        BY <1>11, <4>1
      <4>4. \A s : \A k \in LabelKinds(a[s].kind) : k # "temp"
        BY OwnSorts
      <4>5. CASE \E k \in LabelKinds(a[n].kind) : l = << k, n >>
        <5>1. PICK k \in LabelKinds(a[n].kind) : l = << k, n >>
          BY <4>5
        <5>2. ASSUME NEW x \in Nat, l = << "temp", x >> PROVE FALSE
          BY <4>4, <5>1, <5>2
        <5>3. ASSUME NEW s \in V, NEW k2 \in LabelKinds(a[s].kind), l = << k2, s >> PROVE FALSE
          BY <1>4, <5>1, <5>3
        <5> QED
          BY <4>2, <5>2, <5>3
      <4>6. CASE \E x \in Nat : t <= x /\ x < t2 /\ l = << "temp", x >>
        <5>1. PICK x \in Nat : t <= x /\ l = << "temp", x >>
          BY <4>6
        <5>2. CASE \E y \in Nat : y < t /\ l = << "temp", y >>
          BY <1>1, <5>1, <5>2
        <5>3. CASE \E s \in V : \E k \in LabelKinds(a[s].kind) : l = << k, s >>
          BY <4>4, <5>1, <5>3
        <5> QED
          BY <4>2, <5>2, <5>3
      <4> QED
        BY <4>3, <4>5, <4>6
    <3> QED
      BY <2>1, <3>1, <3>2
  <2>2. ASSUME NEW p \in DOMAIN c2, NEW r \in DOMAIN c2, c2[p].op \in {"visit", "label"}, c2[p] = c2[r]
        PROVE  p = r
    <3>1. ASSUME NEW q \in DOMAIN c, p = at[q], c2[p] = c[q], NEW u \in DOMAIN c, r = at[u], c2[r] = c[u]
          PROVE  p = r
      BY <1>1, <2>2, <3>1 DEF Once
    <3>2. ASSUME NEW j \in DOMAIN e, p = new[j], c2[p] = e[j], NEW u \in DOMAIN e, r = new[u], c2[r] = e[u]
          PROVE  p = r
      BY <2>2, <3>2 DEF Piece
    <3>3. ASSUME NEW q \in DOMAIN c, c2[p] = c[q], NEW u \in DOMAIN e, c2[r] = e[u] PROVE FALSE
      BY <2>1, <2>2, <3>3
    <3>4. ASSUME NEW q \in DOMAIN c, c2[r] = c[q], NEW u \in DOMAIN e, c2[p] = e[u] PROVE FALSE
      BY <2>1, <2>2, <3>4
    <3> QED
      BY <1>3, <3>1, <3>2, <3>3, <3>4
  <2> QED
    BY <2>2 DEF Once
<1>13. VisitsOK(a, c2, h, W, f2)
  <2>1. ASSUME NEW p \in DOMAIN c2, c2[p].op = "visit"
        PROVE  /\ c2[p].stmt \in DOMAIN a \ W /\ h[c2[p].stmt] = f2[p]
               /\ a[c2[p].stmt].parent \in W \cup {None}
               /\ a[c2[p].stmt].kind = "function" => \A r \in DOMAIN c2 : f2[r] = f2[p] => r = p
    <3>1. ASSUME NEW j \in DOMAIN e, p = new[j], c2[p] = e[j], f2[p] = f[i]
          PROVE  /\ c2[p].stmt \in DOMAIN a \ W /\ h[c2[p].stmt] = f2[p]
                 /\ a[c2[p].stmt].parent \in W \cup {None}
                 /\ a[c2[p].stmt].kind # "function"
      BY <1>6, <1>9, <2>1, <3>1
    <3>2. ASSUME NEW q \in DOMAIN c, q # i, p = at[q], c2[p] = c[q], f2[p] = f[q]
          PROVE  /\ c2[p].stmt \in DOMAIN a \ W /\ h[c2[p].stmt] = f2[p]
                 /\ a[c2[p].stmt].parent \in W \cup {None}
                 /\ a[c2[p].stmt].kind = "function" => \A r \in DOMAIN c2 : f2[r] = f2[p] => r = p
      <4>1. /\ c[q].stmt \in DOMAIN a \ V /\ h[c[q].stmt] = f[q]
            /\ a[c[q].stmt].parent \in V \cup {None}
            /\ a[c[q].stmt].kind = "function" => \A u \in DOMAIN c : f[u] = f[q] => u = q
        BY <1>1, <2>1, <3>2 DEF VisitsOK
      <4>2. c[q].stmt # n
        <5>1. c[q] = Visit(c[q].stmt)
          BY <1>7, <2>1, <3>2
        <5>2. c[q] # c[i]
          BY <1>1, <2>1, <3>2 DEF Once
        <5> QED
          BY <1>4, <5>1, <5>2
      <4>3. ASSUME a[c[q].stmt].kind = "function", NEW r \in DOMAIN c2, f2[r] = f2[p] PROVE r = p
        <5>1. \A u \in DOMAIN c : f[u] = f[q] => u = q
          BY <4>1, <4>3
        <5>2. ASSUME NEW u \in DOMAIN c, r = at[u], f2[r] = f[u] PROVE r = p
          BY <3>2, <4>3, <5>1, <5>2
        <5>3. ASSUME f2[r] = f[i] PROVE FALSE
          BY <3>2, <4>3, <5>1, <5>3
        <5> QED
          BY <1>3, <5>2, <5>3
      <4> QED
        BY <3>2, <4>1, <4>2, <4>3
    <3> QED
      BY <1>3, <3>1, <3>2
  <2>2. ASSUME NEW m \in W PROVE a[m].parent \in W \cup {None}
    BY <1>1, <1>4, <2>2 DEF VisitsOK
  <2>3. ASSUME NEW m \in DOMAIN a \ W, a[m].parent \in W \cup {None}
        PROVE  \E p \in DOMAIN c2 : c2[p] = Visit(m)
    <3>1. CASE a[m].parent = n
      <4>1. m \in K
        BY <3>1
      <4>2. PICK j \in DOMAIN e : e[j] = Visit(m)
        BY <4>1 DEF Piece
      <4> QED
        BY <1>3, <4>2
    <3>2. CASE a[m].parent \in V \cup {None}
      <4>1. PICK q \in DOMAIN c : c[q] = Visit(m)
        BY <1>1, <2>3, <3>2 DEF VisitsOK
      <4>2. q # i
        BY <1>4, <1>8, <2>3, <4>1
      <4> QED
        BY <1>3, <4>1, <4>2
    <3> QED
      BY <2>3, <3>1, <3>2
  <2> HIDE DEF W
  <2> QED
    BY <2>1, <2>2, <2>3 DEF VisitsOK
<1>14. LabelsOK(a, c2, t2, h, W, f2)
  <2>1. ASSUME NEW p \in DOMAIN c2, c2[p].op = "label"
        PROVE  \/ \E x \in Nat : x < t2 /\ c2[p].label = Temp(x)
               \/ \E s \in W : \E k \in LabelKinds(a[s].kind) : c2[p].label = << k, s >> /\ h[s] = f2[p]
    <3>1. ASSUME NEW j \in DOMAIN e, c2[p] = e[j], f2[p] = f[i]
          PROVE  \/ \E x \in Nat : x < t2 /\ c2[p].label = Temp(x)
                 \/ \E s \in W : \E k \in LabelKinds(a[s].kind) : c2[p].label = << k, s >> /\ h[s] = f2[p]
      <4>1. c2[p].label \in L
        BY <1>6, <2>1, <3>1
      <4>2. CASE \E k \in LabelKinds(a[n].kind) : c2[p].label = << k, n >>
        BY <1>4, <3>1, <4>2
      <4>3. CASE \E x \in Nat : t <= x /\ x < t2 /\ c2[p].label = << "temp", x >>
        BY <4>3 DEF Temp
      <4> QED
        BY <1>11, <4>1, <4>2, <4>3
    <3>2. ASSUME NEW q \in DOMAIN c, c2[p] = c[q], f2[p] = f[q]
          PROVE  \/ \E x \in Nat : x < t2 /\ c2[p].label = Temp(x)
                 \/ \E s \in W : \E k \in LabelKinds(a[s].kind) : c2[p].label = << k, s >> /\ h[s] = f2[p]
      <4>1. \/ \E x \in Nat : x < t /\ c[q].label = Temp(x)
            \/ \E s \in V : \E k \in LabelKinds(a[s].kind) : c[q].label = << k, s >> /\ h[s] = f[q]
        BY <1>1, <2>1, <3>2 DEF LabelsOK
      <4>2. \A x \in Nat : x < t => x < t2
        BY <1>1
      <4> QED
        BY <3>2, <4>1, <4>2
    <3> QED
      BY <1>3, <3>1, <3>2
  <2>2. ASSUME NEW p \in DOMAIN c2, c2[p].op = "label", c2[p].label[1] = "symbol",
               NEW r \in DOMAIN c2, r < p
        PROVE  f2[r] # f2[p]
    <3>1. ASSUME NEW j \in DOMAIN e, p = new[j], c2[p] = e[j], f2[p] = f[i] PROVE f2[r] # f2[p]
      <4>1. PICK l : l = e[j].label /\ l \in L /\ l[1] = "symbol" /\ e[j] = Label(l)
        BY <1>6, <2>2, <3>1
      <4>2. l = << "symbol", n >> /\ a[n].kind = "function"
        <5>1. PICK k \in LabelKinds(a[n].kind) : l = << k, n >>
          BY <1>11, <4>1
        <5>2. k = "symbol"
          BY <4>1, <5>1
        <5> QED
          BY <5>1, <5>2, OwnSorts
      <4>3. j = 1
        <5>1. 1 \in DOMAIN e /\ e[1] = e[j]
          BY <4>1, <4>2
        <5> QED
          BY <2>2, <3>1, <5>1 DEF Piece
      <4>4. ASSUME NEW u \in DOMAIN e, r = new[u] PROVE FALSE
        <5>1. u < j
          BY <2>2, <3>1, <4>4 DEF Spliced
        <5>2. u \in Nat /\ u > 0
          <6>1. e \in Seq(Instr) /\ u \in DOMAIN e
            BY DEF Piece
          <6> QED
            BY <6>1
        <5> QED
          BY <4>3, <5>1, <5>2
      <4>5. ASSUME NEW q \in DOMAIN c, q # i, r = at[q], f2[r] = f[q] PROVE f2[r] # f2[p]
        BY <1>4, <3>1, <4>2, <4>5
      <4> QED
        BY <1>3, <4>4, <4>5
    <3>2. ASSUME NEW q \in DOMAIN c, q # i, p = at[q], c2[p] = c[q], f2[p] = f[q] PROVE f2[r] # f2[p]
      <4>1. \A u \in DOMAIN c : u < q => f[u] # f[q]
        BY <1>1, <2>2, <3>2 DEF LabelsOK
      <4>2. ASSUME NEW u \in DOMAIN c, u # i, r = at[u], f2[r] = f[u] PROVE f2[r] # f2[p]
        <5>1. u < q
          BY <2>2, <3>2, <4>2 DEF Spliced
        <5> QED
          BY <3>2, <4>1, <4>2, <5>1
      <4>3. ASSUME NEW j \in DOMAIN e, r = new[j], f2[r] = f[i] PROVE f2[r] # f2[p]
        <5>1. i < q
          BY <2>2, <3>2, <4>3 DEF Spliced
        <5> QED
          BY <3>2, <4>1, <4>3, <5>1
      <4> QED
        BY <1>3, <4>2, <4>3
    <3> QED
      BY <1>3, <3>1, <3>2
  <2>3. ASSUME NEW s \in W, NEW k \in LabelKinds(a[s].kind)
        PROVE  \E p \in DOMAIN c2 : c2[p] = Label(<< k, s >>)
    <3>1. CASE s = n
      <4>1. << k, n >> \in L
        BY <3>1
      <4>2. PICK j \in DOMAIN e : e[j] = Label(<< k, n >>)
        BY <4>1 DEF Piece
      <4> QED
        BY <1>3, <3>1, <4>2
    <3>2. CASE s \in V
      <4>1. PICK q \in DOMAIN c : c[q] = Label(<< k, s >>)
        BY <1>1, <3>2 DEF LabelsOK
      <4>2. q # i
        BY <1>4, <1>8, <4>1
      <4> QED
        BY <1>3, <4>1, <4>2
    <3> QED
      BY <3>1, <3>2
  <2> HIDE DEF W
  <2> QED
    BY <2>1, <2>2, <2>3 DEF LabelsOK
<1>15. JumpsOK(a, c2, h, f2)
  <2>1. ASSUME NEW p \in DOMAIN c2, c2[p].op \in JumpOps
        PROVE  \/ c2[p].label \in Reach(a, h, f2[p])
               \/ \E x \in Nat : /\ c2[p].label = Temp(x)
                                 /\ \E r \in DOMAIN c2 : c2[r] = Label(c2[p].label) /\ f2[r] = f2[p]
    <3>1. ASSUME NEW j \in DOMAIN e, c2[p] = e[j], f2[p] = f[i]
          PROVE  \/ c2[p].label \in Reach(a, h, f2[p])
                 \/ \E x \in Nat : /\ c2[p].label = Temp(x)
                                   /\ \E r \in DOMAIN c2 : c2[r] = Label(c2[p].label) /\ f2[r] = f2[p]
      <4>1. PICK l : l = c2[p].label /\ l \in J
        BY <1>6, <2>1, <3>1
      <4>2. CASE l \in Reach(a, h, h[n])
        BY <1>4, <3>1, <4>1, <4>2
      <4>3. CASE l \in L /\ \E x \in Nat : l = Temp(x)
        <5>1. PICK u \in DOMAIN e : e[u] = Label(l)
          BY <4>3 DEF Piece
        <5>2. new[u] \in DOMAIN c2 /\ c2[new[u]] = Label(l) /\ f2[new[u]] = f2[p]
          BY <1>3, <3>1, <5>1
        <5> QED
          BY <4>1, <4>3, <5>2
      <4> QED
        BY <4>1, <4>2, <4>3
    <3>2. ASSUME NEW q \in DOMAIN c, c2[p] = c[q], f2[p] = f[q]
          PROVE  \/ c2[p].label \in Reach(a, h, f2[p])
                 \/ \E x \in Nat : /\ c2[p].label = Temp(x)
                                   /\ \E r \in DOMAIN c2 : c2[r] = Label(c2[p].label) /\ f2[r] = f2[p]
      <4>1. PICK l : l = c2[p].label /\ l = c[q].label
        BY <3>2
      <4>2. \/ l \in Reach(a, h, f[q])
            \/ \E x \in Nat : /\ l = Temp(x)
                              /\ \E u \in DOMAIN c : c[u] = Label(l) /\ f[u] = f[q]
        BY <1>1, <2>1, <3>2, <4>1 DEF JumpsOK
      <4>3. ASSUME NEW u \in DOMAIN c, c[u] = Label(l), f[u] = f[q]
            PROVE  at[u] \in DOMAIN c2 /\ c2[at[u]] = Label(l) /\ f2[at[u]] = f2[p]
        <5>1. u # i
          BY <1>4, <1>8, <4>3
        <5> QED
          BY <1>3, <3>2, <4>3, <5>1
      <4> QED
        BY <3>2, <4>1, <4>2, <4>3
    <3> QED
      BY <1>3, <3>1, <3>2
  <2> QED
    BY <2>1 DEF JumpsOK
<1> QED
  BY <1>2, <1>10, <1>12, <1>13, <1>14, <1>15 DEF CodeOK

-----------------------------------------------------------------------------
(* The invariant                                                           *)

USE TreeAssumption

IInv ==
    /\ phase \in {"parse", "emit", "run"}
    /\ phase = "parse" => code = << >> /\ nextLabel = 0
    /\ phase = "run" => Unvisited = {}
    /\ phase # "parse" => read = TRUE
    /\ \E h : /\ TreeOK(ast, open, read, h)
              /\ phase # "parse" => \E V, f : CodeOK(ast, code, nextLabel, h, V, f)

\* The labels of a piece are of the statement or temporaries.
LEMMA EmittedLabels ==
  ASSUME NEW n \in Stmts, Len(ast[n].kids) \in Nat, NEW t \in Nat
  PROVE  /\ t + TempLabels(n) \in Nat /\ t <= t + TempLabels(n)
         /\ \A l \in OwnLabels(n) \cup OwnTemps(n, t) :
               \/ \E k \in LabelKinds(ast[n].kind) : l = << k, n >>
               \/ \E x \in Nat : t <= x /\ x < t + TempLabels(n) /\ l = Temp(x)
         /\ \A k \in LabelKinds(ast[n].kind) : << k, n >> \in OwnLabels(n)
         /\ \A l \in OwnTemps(n, t) : \E x \in Nat : l = Temp(x)
<1>1. PICK d : d = TempLabels(n)
  OBVIOUS
<1>2. d \in Nat
  BY <1>1 DEF TempLabels
<1>3. OwnTemps(n, t) = {Temp(x) : x \in t .. t + d - 1}
  BY <1>1 DEF OwnTemps
<1>4. \A x \in t .. t + d - 1 : x \in Nat /\ t <= x /\ x < t + d
  BY <1>2
<1>5. \A l \in OwnTemps(n, t) : \E x \in Nat : t <= x /\ x < t + d /\ l = Temp(x)
  BY <1>3, <1>4
<1>6. t + d \in Nat /\ t <= t + d
  BY <1>2
<1> QED
  BY <1>1, <1>5, <1>6 DEF OwnLabels

LEMMA EmitKeeps ==
  ASSUME NEW h, TreeOK(ast, open, TRUE, h), NEW V, NEW f, CodeOK(ast, code, nextLabel, h, V, f),
         NEW i \in DOMAIN code, code[i].op = "visit", NEW n, n = code[i].stmt,
         NEW e, e = Emitted(n, nextLabel),
         NEW c2, c2 = Join(Join(Before(code, i), e), After(code, i))
  PROVE  \E V2, f2 : CodeOK(ast, c2, nextLabel + TempLabels(n), h, V2, f2)
<1> DEFINE K == KidsOf(n)
           L == OwnLabels(n) \cup OwnTemps(n, nextLabel)
           J == OwnTemps(n, nextLabel) \cup Reach(ast, h, h[n])
<1>1. /\ code \in Seq(Instr) /\ nextLabel \in Nat /\ f \in [DOMAIN code -> Nat] /\ Ascending(f, code)
      /\ n \in Stmts
  BY DEF CodeOK, VisitsOK, Stmts
<1>2. /\ Piece(e, K, L, J)
      /\ ast[n].kind = "function" => Len(e) \in Nat /\ Len(e) > 0 /\ e[1] = Label(SymbolOf(n))
  BY <1>1, EmittedPiece
<1>3. Len(ast[n].kids) \in Nat
  BY <1>1, StatementFacts
<1>4. PICK t2 : t2 = nextLabel + TempLabels(n)
  OBVIOUS
<1>5. /\ t2 \in Nat /\ nextLabel <= t2
      /\ \A l \in L : \/ \E k \in LabelKinds(ast[n].kind) : l = << k, n >>
                      \/ \E x \in Nat : nextLabel <= x /\ x < t2 /\ l = Temp(x)
      /\ \A k \in LabelKinds(ast[n].kind) : << k, n >> \in L
      /\ \A l \in J : l \in Reach(ast, h, h[n]) \/ (l \in L /\ \E x \in Nat : l = Temp(x))
  <2>1. PICK t : t = nextLabel /\ t \in Nat
    BY <1>1
  <2>2. /\ t + TempLabels(n) \in Nat /\ t <= t + TempLabels(n)
        /\ \A l \in OwnLabels(n) \cup OwnTemps(n, t) :
               \/ \E k \in LabelKinds(ast[n].kind) : l = << k, n >>
               \/ \E x \in Nat : t <= x /\ x < t + TempLabels(n) /\ l = Temp(x)
        /\ \A k \in LabelKinds(ast[n].kind) : << k, n >> \in OwnLabels(n)
        /\ \A l \in OwnTemps(n, t) : \E x \in Nat : l = Temp(x)
    BY <1>1, <1>3, <2>1, EmittedLabels
  <2>3. t2 = t + TempLabels(n) /\ L = OwnLabels(n) \cup OwnTemps(n, t)
        /\ J = OwnTemps(n, t) \cup Reach(ast, h, h[n])
    BY <1>4, <2>1
  <2> HIDE DEF L, J
  <2>4. t2 \in Nat /\ t <= t2
    BY <2>2, <2>3
  <2>5. \A l \in L : \/ \E k \in LabelKinds(ast[n].kind) : l = << k, n >>
                     \/ \E x \in Nat : t <= x /\ x < t2 /\ l = Temp(x)
    BY <2>2, <2>3, Zenon
  <2>6. \A k \in LabelKinds(ast[n].kind) : << k, n >> \in L
    BY <2>2, <2>3, Zenon
  <2>7. \A l \in J : l \in Reach(ast, h, h[n]) \/ (l \in L /\ \E x \in Nat : l = Temp(x))
    BY <2>2, <2>3, Zenon
  <2> QED
    BY <2>1, <2>4, <2>5, <2>6, <2>7
<1>6. K = {m \in DOMAIN ast : ast[m].parent = n}
  <2>1. PICK a : a = ast
    OBVIOUS
  <2>2. Kids(a) /\ n \in DOMAIN a /\ n # None /\ Numbered(a)
    <3>1. Kids(a) /\ Numbered(a) /\ n \in DOMAIN a
      BY <1>1, <2>1 DEF TreeOK, Stmts
    <3> QED
      BY <3>1 DEF Numbered, None
  <2>3. K = {a[n].kids[j] : j \in DOMAIN a[n].kids}
    BY <2>1 DEF KidsOf
  <2> HIDE DEF K
  <2>4. \A m \in K : m \in DOMAIN a /\ a[m].parent = n
    BY <2>2, <2>3 DEF Kids
  <2>5. ASSUME NEW m \in DOMAIN a, a[m].parent = n PROVE m \in K
    BY <2>2, <2>3, <2>5 DEF Kids
  <2>6. K = {m \in DOMAIN a : a[m].parent = n}
    BY <2>4, <2>5
  <2> QED
    BY <2>1, <2>6
<1> HIDE DEF K, L, J
<1>7. e \in Seq(Instr)
  BY <1>2 DEF Piece
<1>8. ast[n].kind = "function" => 1 \in DOMAIN e /\ e[1] = Label(<< "symbol", n >>)
  <2>1. DOMAIN e = 1 .. Len(e)
    BY <1>7
  <2> QED
    BY <1>2, <2>1 DEF SymbolOf
<1>9. PICK f2, at, new : Spliced(code, f, i, e, c2, f2, at, new) /\ Ascending(f2, c2)
  <2>1. \E f2, at, new : /\ Spliced(code, f, i, e, Join(Join(Before(code, i), e), After(code, i)), f2, at, new)
                         /\ Ascending(f2, Join(Join(Before(code, i), e), After(code, i)))
    BY <1>1, <1>7, SpliceIn
  <2> QED
    BY <2>1
<1>10. Numbered(ast) /\ Homes(ast, h) /\ \A m \in DOMAIN ast : ast[m].parent = None <=> ast[m].kind = "function"
  BY DEF TreeOK
<1>11. CodeOK(ast, c2, t2, h, V \cup {n}, f2)
  BY <1>2, <1>5, <1>6, <1>8, <1>9, <1>10, PieceKeeps
<1> QED
  BY <1>4, <1>11

\* The code ir_build begins with.
LEMMA BuildBegins ==
  ASSUME NEW h, TreeOK(ast, open, TRUE, h), NEW t \in Nat,
         NEW k, NEW s, Listing(s, k, Functions), NEW c, c = [i \in 1 .. k |-> Visit(s[i])]
  PROVE  \E V, f : CodeOK(ast, c, t, h, V, f)
<1>1. PICK a, S : a = ast /\ S = Functions
  OBVIOUS
<1>2. /\ a \in Seq(Stmt) /\ Numbered(a) /\ Homes(a, h)
      /\ \A m \in DOMAIN a : a[m].parent = None <=> a[m].kind = "function"
      /\ S = {m \in DOMAIN a : a[m].kind = "function"}
  BY <1>1 DEF TreeOK, Functions, Stmts
<1>3. PICK len \in Nat : DOMAIN a = 1 .. len
  BY <1>2 DEF Numbered
<1>4. S \subseteq 1 .. len
  BY <1>2, <1>3
<1>5. Listing(s, k, S)
  BY <1>1
<1>6. c = [i \in 1 .. k |-> Visit(s[i])]
  OBVIOUS
<1>7. k \in Nat /\ \A i \in 1 .. k : s[i] \in S /\ s[i] \in Nat
  <2>1. \A m \in S : m \in Nat
    BY <1>4
  <2> QED
    BY <1>5, <2>1 DEF Listing
<1>8. DOMAIN c = 1 .. k /\ \A i \in 1 .. k : c[i] = Visit(s[i]) /\ c[i] \in Instr /\ c[i].op = "visit" /\ c[i].stmt = s[i]
  <2>1. \A n \in Nat : Visit(n) \in Instr /\ Visit(n).op = "visit" /\ Visit(n).stmt = n
    BY DEF Visit, Instr
  <2>2. DOMAIN c = 1 .. k /\ \A i \in 1 .. k : c[i] = Visit(s[i])
    BY <1>6
  <2> QED
    BY <1>7, <2>1, <2>2
<1>9. c \in Seq(Instr)
  <2>1. c \in [1 .. k -> Instr]
    BY <1>6, <1>8
  <2> QED
    BY <1>7, <2>1
<1>10. \A i, j \in 1 .. k : (i < j => s[i] < s[j]) /\ (i <= j => s[i] <= s[j]) /\ (s[i] = s[j] => i = j)
  <2>1. \A i, j \in 1 .. k : i < j => s[i] < s[j]
    BY <1>5 DEF Listing, Increasing
  <2> QED
    BY <1>7, <2>1
<1>11. \A i \in 1 .. k : h[s[i]] = s[i] /\ a[s[i]].parent = None /\ s[i] \in DOMAIN a
  BY <1>2, <1>3, <1>4, <1>7 DEF Homes
<1>12. \A m \in DOMAIN a : a[m].parent = None => \E i \in 1 .. k : s[i] = m
  BY <1>2, <1>5 DEF Listing
<1> DEFINE f == [i \in 1 .. k |-> s[i]]
<1>13. f \in [DOMAIN c -> Nat] /\ Ascending(f, c) /\ \A i \in 1 .. k : f[i] = s[i]
  BY <1>7, <1>8, <1>10 DEF Ascending
<1> HIDE DEF f
<1>14. Once(c)
  <2>1. ASSUME NEW p \in 1 .. k, NEW q \in 1 .. k, c[p] = c[q] PROVE p = q
    <3>1. s[p] = s[q]
      BY <1>8, <2>1
    <3> QED
      BY <1>10, <3>1
  <2>2. DOMAIN c = 1 .. k
    BY <1>8
  <2> QED
    BY <2>1, <2>2, Zenon, SMTT(30) DEF Once
<1>15. LabelsOK(a, c, t, h, {}, f) /\ JumpsOK(a, c, h, f)
  BY <1>8 DEF LabelsOK, JumpsOK, JumpOps
<1>16. VisitsOK(a, c, h, {}, f)
  <2>1. ASSUME NEW p \in DOMAIN c
        PROVE  /\ c[p].stmt \in DOMAIN a /\ h[c[p].stmt] = f[p] /\ a[c[p].stmt].parent = None
               /\ \A q \in DOMAIN c : f[q] = f[p] => q = p
    <3>1. p \in 1 .. k /\ c[p].stmt = s[p] /\ f[p] = s[p] /\ DOMAIN c = 1 .. k
      BY <1>8, <1>13
    <3>2. \A q \in 1 .. k : f[q] = f[p] => q = p
      BY <1>10, <1>13, <3>1
    <3> QED
      BY <1>11, <3>1, <3>2
  <2>2. ASSUME NEW n \in DOMAIN a, a[n].parent = None PROVE \E p \in DOMAIN c : c[p] = Visit(n)
    <3>1. PICK i \in 1 .. k : s[i] = n
      BY <1>12, <2>2
    <3> QED
      BY <1>8, <3>1
  <2> QED
    BY <2>1, <2>2 DEF VisitsOK
<1>17. CodeOK(a, c, t, h, {}, f)
  BY <1>9, <1>13, <1>14, <1>15, <1>16 DEF CodeOK
<1> QED
  BY <1>1, <1>17

\* With nothing left to visit every statement was visited.
LEMMA AllVisited ==
  ASSUME NEW a, NEW c, NEW t, NEW h, NEW V, NEW f, CodeOK(a, c, t, h, V, f), Numbered(a),
         \A p \in DOMAIN c : c[p].op # "visit"
  PROVE  V = DOMAIN a
<1>1. V \subseteq DOMAIN a /\ VisitsOK(a, c, h, V, f)
  BY DEF CodeOK
<1> SUFFICES ASSUME DOMAIN a \ V # {} PROVE FALSE
  BY <1>1
<1>2. DOMAIN a \ V \subseteq Nat
  BY DEF Numbered
<1>3. PICK n \in DOMAIN a \ V : \A m \in DOMAIN a \ V : n <= m
  BY <1>2, SmallestInNat
<1>4. a[n].parent \in V \cup {None}
  <2>1. PICK len \in Nat : DOMAIN a = 1 .. len
    BY DEF Numbered
  <2>2. PICK m : m = a[n].parent /\ m \in 0 .. n - 1 /\ n \in 1 .. len
    BY <2>1 DEF Numbered
  <2>3. m # None => m \in DOMAIN a /\ ~(n <= m)
    BY <2>1, <2>2 DEF None
  <2> QED
    BY <1>3, <2>2, <2>3
<1>5. PICK p \in DOMAIN c : c[p] = Visit(n)
  BY <1>1, <1>4 DEF VisitsOK
<1> QED
  BY <1>5 DEF Visit

LEMMA Begins == Init => IInv
<1> SUFFICES ASSUME Init PROVE IInv
  OBVIOUS
<1>1. PICK h : TreeOK(ast, open, read, h)
  BY TreeBegins DEF Init
<1> QED
  BY <1>1 DEF Init, IInv

\* Only the parser changes the tree, only emit_stmt the code.
LEMMA Keeps == IInv /\ [Next]_vars => IInv'
<1> SUFFICES ASSUME IInv, [Next]_vars PROVE IInv'
  OBVIOUS
<1>1. PICK h : /\ TreeOK(ast, open, read, h)
               /\ phase # "parse" => \E V, f : CodeOK(ast, code, nextLabel, h, V, f)
  BY DEF IInv
<1>2. /\ phase \in {"parse", "emit", "run"} /\ (phase = "parse" => code = << >> /\ nextLabel = 0)
      /\ (phase = "run" => Unvisited = {}) /\ (phase # "parse" => read = TRUE)
  BY DEF IInv
<1>3. ASSUME ast' = ast, open' = open, read' = read, code' = code, nextLabel' = nextLabel, phase' = phase
      PROVE  IInv'
  BY <1>1, <1>2, <1>3 DEF IInv, Unvisited
<1>4. CASE Parse
  <2>1. PICK h2 : TreeOK(ast', open', read', h2)
    BY <1>1, <1>4, TreeKeeps DEF Parse
  <2>2. phase' = "parse" /\ code' = << >> /\ nextLabel' = 0
    BY <1>2, <1>4 DEF Parse
  <2> QED
    BY <2>1, <2>2 DEF IInv
<1>5. CASE IrBuild
  <2>1. /\ read /\ read = TRUE /\ ast' = ast /\ open' = open /\ read' = read /\ phase' = "emit"
        /\ nextLabel' = 0
        /\ code' = [i \in 1 .. Cardinality(Functions) |-> Visit(InOrder(Functions)[i])]
    BY <1>1, <1>2, <1>5 DEF IrBuild, tree, TreeOK
  <2>2. PICK k, s : k = Cardinality(Functions) /\ s = InOrder(Functions) /\ Listing(s, k, Functions)
    <3>1. PICK len \in Nat : DOMAIN ast = 1 .. len
      BY <1>1 DEF TreeOK, Numbered
    <3>2. Functions \subseteq 1 .. len
      BY <3>1 DEF Functions, Stmts
    <3> QED
      BY <3>2, InOrderLists
  <2>3. PICK c : c = [i \in 1 .. k |-> Visit(s[i])]
    OBVIOUS
  <2>4. code' = c
    BY <2>1, <2>2, <2>3
  <2>5. \E V, f : CodeOK(ast, c, 0, h, V, f)
    BY <1>1, <2>1, <2>2, <2>3, BuildBegins
  <2>6. PICK V, f : CodeOK(ast', code', nextLabel', h, V, f)
    BY <2>1, <2>4, <2>5
  <2> QED
    BY <1>1, <2>1, <2>6 DEF IInv
<1>6. CASE EmitStmt
  <2>1. phase = "emit" /\ Unvisited # {} /\ read = TRUE
    BY <1>2, <1>6 DEF EmitStmt
  <2>2. PICK V, f : CodeOK(ast, code, nextLabel, h, V, f)
    BY <1>1, <2>1
  <2>3. PICK i : i = CHOOSE u \in Unvisited : \A j \in Unvisited : u <= j
    OBVIOUS
  <2>4. i \in Unvisited
    <3>1. Unvisited \subseteq Nat
      <4>1. code \in Seq(Instr)
        BY <2>2 DEF CodeOK
      <4> QED
        BY <4>1 DEF Unvisited
    <3>2. \E m \in Unvisited : \A j \in Unvisited : m <= j
      BY <2>1, <3>1, SmallestInNat
    <3> QED
      BY <2>3, <3>2
  <2>5. i \in DOMAIN code /\ code[i].op = "visit"
    BY <2>4 DEF Unvisited
  <2>6. PICK n, e : n = code[i].stmt /\ e = Emitted(n, nextLabel)
    OBVIOUS
  <2>7. /\ code' = SubSeq(code, 1, i - 1) \o e \o SubSeq(code, i + 1, Len(code))
        /\ nextLabel' = nextLabel + TempLabels(n)
        /\ ast' = ast /\ open' = open /\ read' = read /\ phase' = phase
    BY <1>6, <2>3, <2>6 DEF EmitStmt, tree
  <2>8. PICK c2 : c2 = Join(Join(Before(code, i), e), After(code, i)) /\ code' = c2
    BY <2>7 DEF Join, Before, After
  <2>9. \E V2, f2 : CodeOK(ast, c2, nextLabel + TempLabels(n), h, V2, f2)
    BY <1>1, <2>1, <2>2, <2>5, <2>6, <2>8, EmitKeeps
  <2>10. PICK V2, f2 : CodeOK(ast', code', nextLabel', h, V2, f2)
    BY <2>7, <2>8, <2>9
  <2> HIDE DEF CodeOK
  <2> QED
    BY <1>1, <2>1, <2>7, <2>10 DEF IInv
<1>7. CASE Built
  <2>1. /\ ast' = ast /\ open' = open /\ read' = read /\ phase' = "run" /\ phase = "emit"
        /\ code' = code /\ nextLabel' = nextLabel /\ Unvisited = {}
    BY <1>7 DEF Built, tree
  <2> QED
    BY <1>1, <1>2, <2>1 DEF IInv, Unvisited
<1>8. CASE \E f \in Functions : Call(f)
  BY <1>3, <1>8 DEF Call, tree
<1>9. CASE \E v \in Value : Evaluate(v)
  BY <1>3, <1>9 DEF Evaluate, tree
<1>10. CASE Control
  BY <1>3, <1>10 DEF Control, tree
<1>11. CASE Stop \/ UNCHANGED vars
  BY <1>3, <1>11 DEF Stop, vars, tree
<1> QED
  BY <1>4, <1>5, <1>6, <1>7, <1>8, <1>9, <1>10, <1>11 DEF Next

\* Positions of one function have the same function before them.
LEMMA SameFunction ==
  ASSUME NEW h, NEW V, NEW f, CodeOK(ast, code, nextLabel, h, V, f),
         NEW i \in DOMAIN code, NEW j \in DOMAIN code, f[i] = f[j]
  PROVE  FunctionAt(i) = FunctionAt(j)
<1>1. PICK len \in Nat : DOMAIN code = 1 .. len
  BY DEF CodeOK
<1>2. /\ f \in [DOMAIN code -> Nat] /\ Ascending(f, code)
      /\ \A p \in DOMAIN code : code[p].op = "label" /\ code[p].label[1] = "symbol" =>
            \A q \in DOMAIN code : q < p => f[q] # f[p]
  BY DEF CodeOK, LabelsOK
<1>3. ASSUME NEW u \in DOMAIN code, NEW w \in DOMAIN code, f[u] = f[w],
             NEW p \in FunctionAt(w), p \notin FunctionAt(u)
      PROVE  FALSE
  <2>1. p \in 1 .. w /\ code[p].op = "label" /\ code[p].label[1] = "symbol"
    BY <1>3 DEF FunctionAt
  <2>2. p \in DOMAIN code /\ u < p /\ p <= w
    BY <1>1, <1>3, <2>1 DEF FunctionAt
  <2>3. f[u] <= f[p] /\ f[p] <= f[w] /\ f[u] # f[p]
    BY <1>1, <1>2, <2>1, <2>2 DEF Ascending
  <2> QED
    BY <1>2, <1>3, <2>2, <2>3
<1>4. FunctionAt(i) \subseteq FunctionAt(j) /\ FunctionAt(j) \subseteq FunctionAt(i)
  <2>1. \A p \in FunctionAt(i) : p \in FunctionAt(j)
    BY <1>3
  <2>2. \A p \in FunctionAt(j) : p \in FunctionAt(i)
    BY <1>3
  <2> QED
    BY <2>1, <2>2
<1> QED
  BY <1>4

LEMMA Implies == IInv => JumpsResolve
<1> SUFFICES ASSUME IInv PROVE JumpsResolve
  OBVIOUS
<1>1. PICK h : /\ TreeOK(ast, open, read, h)
               /\ phase # "parse" => \E V, f : CodeOK(ast, code, nextLabel, h, V, f)
  BY DEF IInv
<1>2. CASE phase = "parse"
  <2>1. DOMAIN code = {}
    BY <1>2 DEF IInv
  <2> QED
    BY <1>2, <2>1 DEF JumpsResolve
<1>3. CASE phase # "parse"
  <2>1. PICK V, f : CodeOK(ast, code, nextLabel, h, V, f)
    BY <1>1, <1>3
  <2>2. \A p \in DOMAIN code : code[p] \in Instr /\ (code[p].op = "label" => code[p] = Label(code[p].label))
    <3>1. \A p \in DOMAIN code : code[p] \in Instr
      BY <2>1 DEF CodeOK
    <3> QED
      BY <3>1, InstrShapes
  <2>3. ASSUME NEW i \in DOMAIN code, NEW j \in DOMAIN code,
               code[i].op = "label", code[j].op = "label", code[i].label = code[j].label
        PROVE  i = j
    <3>1. code[i] = code[j]
      BY <2>2, <2>3
    <3> QED
      BY <2>1, <2>3, <3>1 DEF CodeOK, Once
  <2>4. ASSUME phase = "run", NEW i \in DOMAIN code, code[i].op \in JumpOps
        PROVE  \E j \in LabelAt(code[i].label) : FunctionAt(i) = FunctionAt(j)
    <3>1. PICK l : l = code[i].label
      OBVIOUS
    <3>2. V = DOMAIN ast
      <4>1. \A p \in DOMAIN code : code[p].op # "visit"
        BY <2>4 DEF IInv, Unvisited
      <4> QED
        BY <1>1, <2>1, <4>1, AllVisited DEF TreeOK
    <3>3. \E j \in DOMAIN code : code[j] = Label(l) /\ f[j] = f[i]
      <4>1. \/ l \in Reach(ast, h, f[i])
            \/ \E j \in DOMAIN code : code[j] = Label(l) /\ f[j] = f[i]
        BY <2>1, <2>4, <3>1 DEF CodeOK, JumpsOK
      <4>2. CASE l \in Reach(ast, h, f[i])
        <5>1. PICK s \in DOMAIN ast : \E k \in LabelKinds(ast[s].kind) : l = << k, s >> /\ h[s] = f[i]
          BY <4>2 DEF Reach
        <5>9. PICK k \in LabelKinds(ast[s].kind) : l = << k, s >> /\ h[s] = f[i]
          BY <5>1
        <5>2. PICK j \in DOMAIN code : code[j] = Label(l)
          BY <2>1, <3>2, <5>9 DEF CodeOK, LabelsOK
        <5>3. code[j].op = "label" /\ code[j].label = l
          BY <5>2 DEF Label
        <5>4. \/ \E x \in Nat : l = Temp(x)
              \/ \E s2 \in V : \E k2 \in LabelKinds(ast[s2].kind) : l = << k2, s2 >> /\ h[s2] = f[j]
          BY <2>1, <5>3 DEF CodeOK, LabelsOK
        <5>5. k # "temp"
          BY OwnSorts
        <5>6. \A x \in Nat : l # Temp(x)
          BY <5>9, <5>5 DEF Temp
        <5>7. PICK s2 \in V : \E k2 : l = << k2, s2 >> /\ h[s2] = f[j]
          BY <5>4, <5>6
        <5>8. s2 = s
          BY <5>9, <5>7
        <5> QED
          BY <5>9, <5>2, <5>7, <5>8
      <4> QED
        BY <4>1, <4>2
    <3>4. PICK j \in DOMAIN code : code[j] = Label(l) /\ f[j] = f[i]
      BY <3>3
    <3>5. j \in LabelAt(l)
      BY <3>4 DEF LabelAt, Label
    <3>6. FunctionAt(i) = FunctionAt(j)
      BY <2>1, <2>4, <3>4, SameFunction
    <3> QED
      BY <3>1, <3>5, <3>6
  <2> QED
    BY <2>3, <2>4 DEF JumpsResolve, JumpOps
<1> QED
  BY <1>2, <1>3

\* Whatever functions are compiled, no label is written twice and every jump
\* of the finished code has its label in its own function.
THEOREM JumpsFindTheirLabels == Spec => []JumpsResolve
<1>1. Spec => []IInv
  BY Begins, Keeps, PTL DEF Spec
<1> QED
  BY <1>1, Implies, PTL
=============================================================================
