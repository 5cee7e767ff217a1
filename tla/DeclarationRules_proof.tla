------------------------ MODULE DeclarationRules_proof ------------------------
(***************************************************************************)
(* Proofs about Declarations and DeclarationRules, for every translation   *)
(* unit: any identifiers, any declarations, any scopes.  First the tables  *)
(* of sema.c, then that the symbols are what the declarations call for.    *)
(***************************************************************************)
EXTENDS DeclarationRules, FiniteSetTheorems, WellFoundedInduction, TLAPS

-----------------------------------------------------------------------------
(* Smallest and largest numbers *)

\* The least-number principle, from the well-foundedness of < on Nat.
LEMMA SmallestInNat ==
  ASSUME NEW T, T \subseteq Nat, T # {}
  PROVE  \E m \in T : \A k \in T : m <= k
<1> DEFINE R == OpToRel(<, Nat)
<1>1. \A p, q \in Nat : p < q => << p, q >> \in R
  BY DEF OpToRel
<1>2. IsWellFoundedOn(R, Nat)
  BY NatLessThanWellFounded, Zenon
<1> HIDE DEF R
<1>3. PICK m \in T : \A k \in T : ~(<< k, m >> \in R)
  BY <1>2, WFMin, Zenon
<1>4. \A k \in T : k \in Nat /\ m \in Nat /\ ~(k < m)
  BY <1>1, <1>3
<1> QED
  BY <1>4

\* The largest of a non-empty set of numbers up to n.
LEMMA LargestInInterval ==
  ASSUME NEW n \in Nat, NEW S, S \subseteq 1 .. n, S # {}
  PROVE  \E i \in S : \A j \in S : j <= i
<1> DEFINE T == {n - i : i \in S}
<1>1. \A i \in S : i \in Int /\ i <= n /\ n - i \in Nat
  OBVIOUS
<1>2. PICK t \in T : \A u \in T : t <= u
  <2>1. T \subseteq Nat /\ T # {}
    BY <1>1
  <2> HIDE DEF T
  <2> QED
    BY <2>1, SmallestInNat
<1>3. PICK i \in S : t = n - i
  OBVIOUS
<1>4. \A j \in S : n - i <= n - j
  BY <1>2, <1>3
<1> QED
  BY <1>1, <1>4

-----------------------------------------------------------------------------
(* Types of what a declaration is bound to *)

SymbolType == {"object", "function"} \X BaseType \X Seq({"object", "function"} \X BaseType)

\* What the lemmas need of a declaration or a named parameter.
DeclOK(d) ==
    /\ d.name \in Name /\ d.kind \in {"object", "function"} /\ d.base \in BaseType
    /\ d.value \in Int /\ d.body \in BOOLEAN
    /\ d.params \in Seq(ParamDecl)

\* Every declaration of the translation unit qualifies.
LEMMA DeclIsOK == \A d \in Decl : DeclOK(d)
BY DeclAssumption DEF DeclOK

\* So does every parameter that has a name.
LEMMA ParamIsOK == \A p \in ParamDecl : p.name # Anonymous => DeclOK(p)
<1> SUFFICES ASSUME NEW p \in ParamDecl, p.name # Anonymous
             PROVE  DeclOK(p)
  OBVIOUS
<1>1. p \in DeclOf({<< >>}, Name \cup {Anonymous})
  BY DEF ParamDecl
<1>2. p.params = << >> /\ << >> \in Seq(ParamDecl)
  BY <1>1 DEF DeclOf
<1> QED
  BY <1>1, <1>2 DEF DeclOK, DeclOf

\* scope_lookup yields a symbol that exists, or none.
LEMMA VisibleType ==
  ASSUME TypeOK, NEW n \in Name
  PROVE  PriorVisible(n) \in SymbolId \cup {NoSymbol}
<1> DEFINE Binding == {i \in DOMAIN scope : scope[i].bind[n] # NoSymbol}
<1>1. CASE Binding = {}
  BY <1>1 DEF PriorVisible
<1>2. CASE Binding # {}
  <2>1. Len(scope) \in Nat /\ Binding \subseteq 1 .. Len(scope)
    BY DEF TypeOK
  <2>2. \E i \in Binding : \A j \in Binding : j <= i
    <3> HIDE DEF Binding
    <3> QED
      BY <1>2, <2>1, LargestInInterval
  <2> DEFINE top == CHOOSE i \in Binding : \A j \in Binding : j <= i
  <2>3. top \in DOMAIN scope
    BY <2>2
  <2>4. scope[top] \in Scope
    BY <2>3 DEF TypeOK
  <2>5. scope[top].bind[n] \in SymbolId \cup {NoSymbol}
    BY <2>4 DEF Scope
  <2> QED
    BY <1>2, <2>5 DEF PriorVisible
<1> QED
  BY <1>1, <1>2

\* So does scope_lookup_current.
LEMMA CurrentType ==
  ASSUME TypeOK, NEW n \in Name
  PROVE  PriorCurrent(n) \in SymbolId \cup {NoSymbol}
<1>1. Top \in Scope
  BY DEF TypeOK, Top
<1> QED
  BY <1>1 DEF PriorCurrent, Scope

\* determine_linkage yields one of the three linkages.
LEMMA LinkageType ==
  ASSUME TypeOK, NEW d, DeclOK(d)
  PROVE  Linkage(d) \in {"none", "internal", "external"}
<1>1. PriorVisible(d.name) \in SymbolId \cup {NoSymbol}
  BY VisibleType DEF DeclOK
<1>2. InheritedLinkage(d.name) \in {"none", "internal", "external"}
  BY <1>1 DEF InheritedLinkage, TypeOK, Symbol
<1> QED
  BY <1>2 DEF Linkage

\* The type of a declaration is one.
LEMMA TypeOfType ==
  ASSUME NEW d, DeclOK(d)
  PROVE  TypeOf(d) \in SymbolType
<1> DEFINE ps == [i \in DOMAIN d.params |-> << d.params[i].kind, d.params[i].base >>]
<1>1. \A i \in DOMAIN d.params : d.params[i] \in ParamDecl
  BY DEF DeclOK
<1>2. \A p \in ParamDecl : p.kind \in {"object", "function"} /\ p.base \in BaseType
  BY DEF ParamDecl, DeclOf
<1>3. DOMAIN d.params = 1 .. Len(d.params) /\ Len(d.params) \in Nat
  BY DEF DeclOK
<1>4. ps \in [1 .. Len(d.params) -> {"object", "function"} \X BaseType]
  BY <1>1, <1>2, <1>3
<1>5. ps \in Seq({"object", "function"} \X BaseType)
  BY <1>3, <1>4
<1> QED
  BY <1>5 DEF TypeOf, SymbolType, DeclOK

\* decl->sym is a symbol that exists or the next one.
LEMMA TargetType ==
  ASSUME TypeOK, NEW d, DeclOK(d)
  PROVE  /\ Target(d) \in 0 .. nextId
         /\ IsNew(d) <=> Target(d) = nextId
         /\ ~IsNew(d) => Target(d) \in SymbolId
         /\ IsNew(d) /\ Linkage(d) # "none" => linked[d.name] = NoSymbol
<1>1. PriorCurrent(d.name) \in SymbolId \cup {NoSymbol}
  BY CurrentType DEF DeclOK
<1>2. linked[d.name] \in SymbolId \cup {NoSymbol} /\ nextId \in Nat
  BY DEF DeclOK, TypeOK
<1> QED
  BY <1>1, <1>2 DEF Target, IsNew, SymbolId, NoSymbol

\* symbol_new, merge_redeclaration and a refused redeclaration leave a symbol.
LEMMA BoundType ==
  ASSUME TypeOK, NEW d, DeclOK(d)
  PROVE  Bound(d) \in Symbol
<1>1. CASE IsNew(d)
  <2>1. TypeOf(d) \in SymbolType /\ Linkage(d) \in {"none", "internal", "external"}
    BY TypeOfType, LinkageType
  <2>2. StorageDuration(d) \in {"static", "auto"}
    BY DEF StorageDuration
  <2>3. SymbolNew(d) \in Symbol
    BY <2>1, <2>2 DEF SymbolNew, Symbol, SymbolType, DeclOK
  <2> QED
    BY <1>1, <2>3 DEF Bound
<1>2. CASE ~IsNew(d)
  <2>1. symbols[Target(d)] \in Symbol
    BY <1>2, TargetType DEF TypeOK
  <2>2. MergeRedeclaration(d, symbols[Target(d)]) \in Symbol
    BY <2>1 DEF MergeRedeclaration, Symbol, DeclOK
  <2> QED
    BY <1>2, <2>1, <2>2 DEF Bound
<1> QED
  BY <1>1, <1>2

\* A stored value is an integer.
LEMMA ConvertType ==
  ASSUME NEW v \in Int, NEW b
  PROVE  ConstantConvert(v, b) \in Int
BY IntModulusAssumption DEF ConstantConvert

\* analyze_object_initializer leaves a symbol.
LEMMA InitializedType ==
  ASSUME NEW d, DeclOK(d), NEW s \in Symbol
  PROVE  Initialized(d, s) \in Symbol
<1>1. ConstantConvert(d.value, d.base) \in Int
  BY ConvertType DEF DeclOK
<1> QED
  BY <1>1 DEF Initialized, Symbol

\* What binding a declaration does to the tables.
LEMMA BindType ==
  ASSUME TypeOK, NEW d, DeclOK(d), NEW s \in Symbol, Bind(d, s)
  PROVE  /\ nextId' \in Nat /\ SymbolId \subseteq SymbolId'
         /\ Target(d) \in SymbolId'
         /\ symbols' \in [SymbolId' -> Symbol]
         /\ linked' \in [Name -> SymbolId' \cup {NoSymbol}]
<1> USE DEF SymbolId
<1>1. nextId \in Nat /\ Target(d) \in 0 .. nextId
  BY TargetType DEF TypeOK
<1>2. IsNew(d) <=> Target(d) = nextId
  BY TargetType
<1>3. nextId' = IF IsNew(d) THEN nextId + 1 ELSE nextId
  BY DEF Bind
<1>4. nextId' \in Nat /\ SymbolId \subseteq SymbolId' /\ Target(d) \in SymbolId'
  BY <1>1, <1>2, <1>3
<1>5. SymbolId' = SymbolId \cup {Target(d)}
  BY <1>1, <1>2, <1>3
<1>6. symbols' \in [SymbolId' -> Symbol]
  BY <1>5 DEF Bind, Put, TypeOK
<1>7. linked' \in [Name -> SymbolId' \cup {NoSymbol}]
  <2>1. IsNew(d) => nextId \in SymbolId'
    BY <1>1, <1>3
  <2> QED
    BY <1>4, <2>1 DEF Bind, TypeOK
<1> QED
  BY <1>4, <1>6, <1>7

\* The scopes keep their type when the tables only grow.
LEMMA ScopeGrows ==
  ASSUME TypeOK, SymbolId \subseteq SymbolId'
  PROVE  scope \in Seq(Scope') /\ Len(scope) \in Nat \ {0}
<1>1. Scope \subseteq Scope'
  BY DEF Scope
<1>2. scope \in Seq(Scope) /\ Len(scope) > 0
  BY DEF TypeOK
<1> QED
  BY <1>1, <1>2

\* Installing the name of a bound declaration in the innermost scope.
LEMMA InstalledType ==
  ASSUME TypeOK, NEW d, DeclOK(d), SymbolId \subseteq SymbolId', Target(d) \in SymbolId'
  PROVE  Installed(d) \in Seq(Scope') /\ Len(Installed(d)) = Len(scope)
<1>1. scope \in Seq(Scope') /\ Len(scope) \in Nat \ {0}
  BY ScopeGrows
<1> DEFINE t == scope[Len(scope)]
           u == [t EXCEPT !.bind[d.name] = Target(d)]
<1>2. t \in Scope'
  BY <1>1
<1>3. u \in Scope'
  BY <1>2 DEF Scope, DeclOK
<1>4. Installed(d) = [scope EXCEPT ![Len(scope)] = u]
  BY DEF Installed
<1> HIDE DEF t, u
<1> QED
  BY <1>1, <1>3, <1>4

\* A declaration, whichever action analyses it, leaves every table typed.
LEMMA DeclareType ==
  ASSUME TypeOK, NEW d, DeclOK(d), NEW s \in Symbol, Bind(d, s),
         scope' = Installed(d), pending' \in Seq(ParamDecl), error' \in BOOLEAN,
         phase' = phase, opened' = opened
  PROVE  TypeOK'
<1>1. /\ nextId' \in Nat /\ SymbolId \subseteq SymbolId' /\ Target(d) \in SymbolId'
      /\ symbols' \in [SymbolId' -> Symbol]
      /\ linked' \in [Name -> SymbolId' \cup {NoSymbol}]
  BY BindType
<1>2. scope' \in Seq(Scope') /\ Len(scope') > 0
  BY <1>1, InstalledType DEF TypeOK
<1> QED
  BY <1>1, <1>2 DEF TypeOK

\* A fresh scope is one.
LEMMA OpenedType ==
  ASSUME TypeOK, NEW k \in {"function", "block", "for"}
  PROVE  Opened(k) \in Scope
BY DEF Opened, Scope, Nowhere, TypeOK

\* There is an innermost scope; marking it a loop's leaves it a scope.
LEMMA InnermostType ==
  ASSUME TypeOK
  PROVE  /\ scope \in Seq(Scope) /\ Len(scope) \in Nat /\ Len(scope) > 0
         /\ [scope[Len(scope)] EXCEPT !.kind = "loop"] \in Scope
<1>1. scope \in Seq(Scope) /\ Len(scope) > 0
  BY DEF TypeOK
<1>2. Len(scope) \in Nat /\ scope[Len(scope)] \in Scope
  BY <1>1
<1>3. \A t \in Scope : [t EXCEPT !.kind = "loop"] \in Scope
  BY DEF Scope
<1> QED
  BY <1>1, <1>2, <1>3

\* A symbol that finish_tentative_declarations zeroes is still one.
LEMMA FinishedType ==
  ASSUME NEW s \in Symbol
  PROVE  [s EXCEPT !.init = "constant", !.value = 0] \in Symbol
<1>1. [s EXCEPT !.init = "constant"] \in Symbol
  BY DEF Symbol
<1>2. 0 \in Int
  OBVIOUS
<1>3. \A t \in Symbol : [t EXCEPT !.value = 0] \in Symbol
  BY <1>2, Zenon DEF Symbol
<1> QED
  BY <1>1, <1>3

\* Every variable keeps its type.
THEOREM TypeCorrect == Spec => []TypeOK
<1>1. Init => TypeOK
  <2> SUFFICES ASSUME Init PROVE TypeOK
    OBVIOUS
  <2>1. SymbolId = {} /\ symbols \in [SymbolId -> Symbol]
    BY DEF Init, SymbolId
  <2>2. [kind |-> "file", id |-> 0, bind |-> Nowhere] \in Scope
    BY DEF Scope, Nowhere
  <2>3. scope \in Seq(Scope) /\ Len(scope) > 0
    BY <2>2 DEF Init
  <2>4. nextId \in Nat /\ pending \in Seq(ParamDecl) /\ opened \in Nat
    BY DEF Init
  <2>5. linked \in [Name -> SymbolId \cup {NoSymbol}]
    BY DEF Init, Nowhere
  <2> QED
    BY <2>1, <2>3, <2>4, <2>5 DEF Init, TypeOK
<1>2. TypeOK /\ [Next]_vars => TypeOK'
  <2> SUFFICES ASSUME TypeOK, [Next]_vars PROVE TypeOK'
    OBVIOUS
  <2>1. ASSUME NEW d \in Decl, DeclareObject(d) PROVE TypeOK'
    <3>1. DeclOK(d)
      BY DeclIsOK
    <3>2. Initialized(d, Bound(d)) \in Symbol
      BY <3>1, BoundType, InitializedType
    <3>3. error' \in BOOLEAN
      BY <2>1 DEF DeclareObject
    <3> QED
      BY <2>1, <3>1, <3>2, <3>3, DeclareType DEF DeclareObject, TypeOK
  <2>2. ASSUME NEW d \in Decl, DeclareFunction(d) PROVE TypeOK'
    <3>1. DeclOK(d) /\ Bound(d) \in Symbol
      BY DeclIsOK, BoundType
    <3>2. error' \in BOOLEAN
      BY <2>2 DEF DeclareFunction
    <3> QED
      BY <2>2, <3>1, <3>2, DeclareType DEF DeclareFunction, TypeOK
  <2>3. ASSUME NEW d \in Decl, DefineFunction(d) PROVE TypeOK'
    <3>1. DeclOK(d) /\ Bound(d) \in Symbol
      BY DeclIsOK, BoundType
    <3>2. Bind(d, Bound(d))
      BY <2>3 DEF DefineFunction
    <3>3. /\ nextId' \in Nat /\ SymbolId \subseteq SymbolId' /\ Target(d) \in SymbolId'
          /\ symbols' \in [SymbolId' -> Symbol]
          /\ linked' \in [Name -> SymbolId' \cup {NoSymbol}]
      BY <3>1, <3>2, BindType
    <3>4. Installed(d) \in Seq(Scope')
      BY <3>1, <3>3, InstalledType
    <3>5. Opened("function") \in Scope'
      BY <3>3, OpenedType DEF Scope
    <3>6. scope' \in Seq(Scope') /\ Len(scope') > 0
      BY <2>3, <3>4, <3>5 DEF DefineFunction
    <3>7. /\ pending' \in Seq(ParamDecl) /\ error' \in BOOLEAN
          /\ phase' = phase /\ opened' = opened + 1
      BY <2>3, <3>1 DEF DefineFunction, DeclOK
    <3> QED
      BY <3>3, <3>6, <3>7 DEF TypeOK
  <2>4. ASSUME BindParameter PROVE TypeOK'
    <3> DEFINE p == Head(pending)
    <3>1. pending \in Seq(ParamDecl) /\ pending # << >>
      BY <2>4 DEF BindParameter, TypeOK
    <3>2. p \in ParamDecl /\ Tail(pending) \in Seq(ParamDecl)
      BY <3>1
    <3>3. CASE p.name = Anonymous
      BY <2>4, <3>2, <3>3 DEF BindParameter, TypeOK, Scope, SymbolId
    <3>4. CASE p.name # Anonymous
      <4>1. DeclOK(p) /\ Bound(p) \in Symbol
        BY <3>2, <3>4, ParamIsOK, BoundType
      <4>2. error' \in BOOLEAN
        BY <2>4 DEF BindParameter
      <4>3. Bind(p, Bound(p)) /\ scope' = Installed(p) /\ pending' = Tail(pending)
            /\ phase' = phase /\ opened' = opened
        BY <2>4, <3>4 DEF BindParameter
      <4> HIDE DEF p
      <4> QED
        BY <3>2, <4>1, <4>2, <4>3, DeclareType
    <3> QED
      BY <3>3, <3>4
  <2>5. ASSUME NEW k \in {"block", "for"}, OpenScope(k) PROVE TypeOK'
    <3> DEFINE body == [scope EXCEPT ![Len(scope)].kind = "loop"]
    <3>1. /\ scope \in Seq(Scope) /\ Len(scope) \in Nat /\ Len(scope) > 0
          /\ [scope[Len(scope)] EXCEPT !.kind = "loop"] \in Scope
      BY InnermostType
    <3>3. body \in Seq(Scope)
      BY <3>1
    <3>4. Opened(k) \in Scope
      BY OpenedType
    <3>5. scope' \in Seq(Scope) /\ Len(scope') > 0
      BY <2>5, <3>1, <3>3, <3>4 DEF OpenScope
    <3> QED
      BY <2>5, <3>5 DEF OpenScope, TypeOK, Scope, SymbolId
  <2>6. ASSUME CloseScope PROVE TypeOK'
    <3> DEFINE n == Len(scope)
    <3>1. scope \in Seq(Scope) /\ n \in Nat /\ n > 1
      <4>1. n # 1
        BY <2>6 DEF CloseScope, AtFileScope
      <4>2. scope \in Seq(Scope) /\ n \in Nat /\ n > 0
        BY InnermostType
      <4> HIDE DEF n
      <4> QED
        BY <4>1, <4>2
    <3>2. SubSeq(scope, 1, Len(scope) - 1) \in Seq(Scope)
          /\ Len(SubSeq(scope, 1, Len(scope) - 1)) > 0
      BY <3>1
    <3> QED
      BY <2>6, <3>2 DEF CloseScope, TypeOK, Scope, SymbolId
  <2>7. ASSUME FinishTentativeDeclarations PROVE TypeOK'
    <3>1. ASSUME NEW s \in SymbolId
          PROVE  [symbols[s] EXCEPT !.init = "constant", !.value = 0] \in Symbol
      <4>1. symbols[s] \in Symbol
        BY DEF TypeOK
      <4> QED
        BY <4>1, FinishedType
    <3>2. symbols' \in [SymbolId -> Symbol]
      BY <2>7, <3>1 DEF FinishTentativeDeclarations, TypeOK
    <3> QED
      BY <2>7, <3>2 DEF FinishTentativeDeclarations, TypeOK, Scope, SymbolId
  <2>8. ASSUME UNCHANGED vars PROVE TypeOK'
    BY <2>8 DEF vars, TypeOK, Scope, SymbolId
  <2> QED
    BY <2>1, <2>2, <2>3, <2>4, <2>5, <2>6, <2>7, <2>8 DEF Next, Terminated
<1> QED
  BY <1>1, <1>2, PTL DEF Spec

-----------------------------------------------------------------------------
(* No step takes back what a symbol stands for                             *)

\* Leaving a symbol alone keeps it.
LEMMA LaterReflexive ==
  ASSUME NEW s \in Symbol
  PROVE  LaterState(s, s)
<1>1. Rank[s.init] \in Int /\ Rank[s.init] <= Rank[s.init]
  BY DEF Symbol, Rank
<1> QED
  BY <1>1 DEF LaterState

\* Neither a merge nor a refused redeclaration takes anything back.
LEMMA LaterBound ==
  ASSUME TypeOK, NEW d, DeclOK(d), ~IsNew(d)
  PROVE  LaterState(symbols[Target(d)], Bound(d))
<1> DEFINE s == symbols[Target(d)]
<1>1. s \in Symbol
  BY TargetType DEF TypeOK
<1>2. LaterState(s, MergeRedeclaration(d, s))
  <2> HIDE DEF s
  <2> DEFINE m == MergeRedeclaration(d, s)
  <2>1. /\ m.name = s.name /\ m.ty = s.ty /\ m.kind = s.kind
        /\ m.linkage = s.linkage /\ m.sd = s.sd /\ m.value = s.value
    BY <1>1 DEF MergeRedeclaration, Symbol
  <2>2. s.defined => m.defined
    BY <1>1 DEF MergeRedeclaration, Symbol
  <2>3. m.init = s.init \/ (s.init = "none" /\ m.init = "tentative")
    BY <1>1 DEF MergeRedeclaration, Symbol
  <2>4. s.init \in {"none", "tentative", "constant"}
    BY <1>1 DEF Symbol
  <2> HIDE DEF m
  <2>5. Rank[s.init] <= Rank[m.init]
    BY <2>3, <2>4 DEF Rank
  <2>6. LaterState(s, m)
    BY <2>1, <2>2, <2>5, Zenon DEF LaterState
  <2> QED
    BY <2>6 DEF m
<1>3. LaterState(s, s)
  BY <1>1, LaterReflexive
<1> QED
  BY <1>2, <1>3 DEF Bound

\* An initialiser does not either: it never replaces a stored value.
LEMMA LaterInitialized ==
  ASSUME NEW d, DeclOK(d), NEW s \in Symbol
  PROVE  LaterState(s, Initialized(d, s))
<1> DEFINE i == Initialized(d, s)
<1>1. /\ i.name = s.name /\ i.ty = s.ty /\ i.kind = s.kind
      /\ i.linkage = s.linkage /\ i.sd = s.sd /\ i.defined = s.defined
  BY DEF Initialized, Symbol
<1>2. i = s \/ (s.init # "constant" /\ i.init = "constant")
  BY DEF Initialized, Symbol
<1>3. s.init \in {"none", "tentative", "constant"}
  BY DEF Symbol
<1> HIDE DEF i
<1>4. Rank[s.init] <= Rank[i.init]
  BY <1>2, <1>3 DEF Rank
<1>5. s.init = "constant" => i.value = s.value
  BY <1>2
<1>6. LaterState(s, i)
  BY <1>1, <1>4, <1>5, Zenon DEF LaterState
<1> QED
  BY <1>6 DEF i

\* One later state of a symbol after another is a later state.
LEMMA LaterTransitive ==
  ASSUME NEW r \in Symbol, NEW s \in Symbol, NEW t \in Symbol,
         LaterState(r, s), LaterState(s, t)
  PROVE  LaterState(r, t)
<1>1. \A u \in Symbol : Rank[u.init] \in Int
  BY DEF Symbol, Rank
<1>2. r.init = "constant" => s.init = "constant"
  BY DEF LaterState, Symbol, Rank
<1>3. Rank[r.init] <= Rank[t.init]
  BY <1>1 DEF LaterState
<1> QED
  BY <1>2, <1>3 DEF LaterState

\* Nor does the end of the translation unit: it stores zero in tentative
\* definitions alone.
LEMMA LaterFinished ==
  ASSUME NEW s \in Symbol, s.init = "tentative"
  PROVE  LaterState(s, [s EXCEPT !.init = "constant", !.value = 0])
<1> DEFINE z == [s EXCEPT !.init = "constant", !.value = 0]
<1>1. /\ z.name = s.name /\ z.ty = s.ty /\ z.kind = s.kind
      /\ z.linkage = s.linkage /\ z.sd = s.sd /\ z.defined = s.defined
      /\ z.init = "constant"
  BY DEF Symbol
<1> HIDE DEF z
<1>2. Rank[s.init] <= Rank[z.init]
  BY <1>1 DEF Rank
<1> QED
  BY <1>1, <1>2 DEF LaterState

\* What a declaration does to the symbols: it keeps those there were, and one
\* it makes has the name and the linkage of the declaration.
LEMMA BindKeeps ==
  ASSUME TypeOK, NEW d, DeclOK(d), NEW s, Bind(d, s),
         s = Bound(d) \/ s = Initialized(d, Bound(d))
  PROVE  /\ KeepsSymbols
         /\ IsNew(d) => /\ symbols'[nextId].name = d.name
                        /\ symbols'[nextId].linkage = Linkage(d)
<1>1. Bound(d) \in Symbol /\ Initialized(d, Bound(d)) \in Symbol
  BY BoundType, InitializedType
<1>2. LaterState(Bound(d), s)
  BY <1>1, LaterReflexive, LaterInitialized
<1>3. symbols \in [SymbolId -> Symbol] /\ s \in Symbol /\ nextId \in Nat
  BY <1>1 DEF TypeOK
<1>4. KeepsSymbols
  <2> SUFFICES ASSUME NEW t \in DOMAIN symbols
               PROVE  t \in DOMAIN symbols' /\ LaterState(symbols[t], symbols'[t])
    BY DEF KeepsSymbols
  <2>1. t \in DOMAIN symbols'
    BY DEF Bind, Put
  <2>2. CASE t = Target(d)
    <3>1. ~IsNew(d)
      BY <1>3, <2>2, TargetType DEF SymbolId
    <3>2. symbols[t] \in Symbol /\ LaterState(symbols[t], Bound(d))
      BY <1>3, <2>2, <3>1, LaterBound
    <3>3. symbols'[t] = s
      BY <2>2 DEF Bind, Put
    <3> QED
      BY <1>1, <1>2, <1>3, <2>1, <3>2, <3>3, LaterTransitive
  <2>3. CASE t # Target(d)
    <3>1. symbols'[t] = symbols[t] /\ symbols[t] \in Symbol
      BY <1>3, <2>1, <2>3 DEF Bind, Put
    <3> QED
      BY <2>1, <3>1, LaterReflexive
  <2> QED
    BY <2>2, <2>3
<1>5. IsNew(d) => symbols'[nextId] = s /\ Bound(d) = SymbolNew(d)
  BY TargetType DEF Bind, Put, Bound
<1>6. s.name = Bound(d).name /\ s.linkage = Bound(d).linkage
  BY <1>2 DEF LaterState
<1> QED
  BY <1>4, <1>5, <1>6 DEF SymbolNew

-----------------------------------------------------------------------------
\* Every step keeps the symbols.
LEMMA StepKeeps ==
  ASSUME TypeOK, [Next]_vars
  PROVE  KeepsSymbols
<1>1. ASSUME UNCHANGED symbols PROVE KeepsSymbols
  BY <1>1, LaterReflexive DEF KeepsSymbols, TypeOK
<1>2. ASSUME NEW d \in Decl, DeclareObject(d) PROVE KeepsSymbols
  BY <1>2, DeclIsOK, BindKeeps DEF DeclareObject
<1>3. ASSUME NEW d \in Decl, DeclareFunction(d) PROVE KeepsSymbols
  BY <1>3, DeclIsOK, BindKeeps DEF DeclareFunction
<1>4. ASSUME NEW d \in Decl, DefineFunction(d) PROVE KeepsSymbols
  BY <1>4, DeclIsOK, BindKeeps DEF DefineFunction
<1>5. ASSUME BindParameter PROVE KeepsSymbols
  <2> DEFINE p == Head(pending)
  <2>1. p \in ParamDecl
    BY <1>5 DEF BindParameter, TypeOK
  <2>2. CASE p.name = Anonymous
    BY <1>1, <1>5, <2>2 DEF BindParameter
  <2>3. CASE p.name # Anonymous
    <3>1. DeclOK(p) /\ Bind(p, Bound(p))
      BY <1>5, <2>1, <2>3, ParamIsOK DEF BindParameter
    <3> HIDE DEF p
    <3> QED
      BY <3>1, BindKeeps
  <2> QED
    BY <2>2, <2>3
<1>6. ASSUME FinishTentativeDeclarations PROVE KeepsSymbols
  <2> SUFFICES ASSUME NEW s \in DOMAIN symbols
               PROVE  s \in DOMAIN symbols' /\ LaterState(symbols[s], symbols'[s])
    BY DEF KeepsSymbols
  <2>1. symbols[s] \in Symbol
    BY DEF TypeOK
  <2> QED
    BY <1>6, <2>1, LaterReflexive, LaterFinished DEF FinishTentativeDeclarations
<1>7. ASSUME NEW k \in {"block", "for"}, OpenScope(k) PROVE KeepsSymbols
  BY <1>1, <1>7 DEF OpenScope
<1>8. ASSUME CloseScope PROVE KeepsSymbols
  BY <1>1, <1>8 DEF CloseScope
<1> QED
  BY <1>1, <1>2, <1>3, <1>4, <1>5, <1>6, <1>7, <1>8 DEF Next, Terminated, vars

\* No declaration of any translation unit changes what a symbol already
\* stands for, whatever errors were reported on the way.
THEOREM SymbolsAreStable == Spec => SymbolsStable
<1>1. TypeOK /\ [Next]_vars => [KeepsSymbols]_vars
  BY StepKeeps
<1> QED
  BY <1>1, TypeCorrect, PTL DEF Spec, SymbolsStable

\* A declaration keeps one symbol per name with linkage: a new symbol is made
\* only where the table of linked symbols has none.
LEMMA BindLinkedOnce ==
  ASSUME TypeOK, LinkedOnce, NEW d, DeclOK(d), NEW s, Bind(d, s),
         s = Bound(d) \/ s = Initialized(d, Bound(d))
  PROVE  LinkedOnce'
<1> SUFFICES ASSUME NEW t \in DOMAIN symbols', symbols'[t].linkage # "none"
             PROVE  linked'[symbols'[t].name] = t
  BY DEF LinkedOnce
<1>1. /\ KeepsSymbols
      /\ IsNew(d) => symbols'[nextId].name = d.name /\ symbols'[nextId].linkage = Linkage(d)
  BY BindKeeps
<1>2. DOMAIN symbols = SymbolId /\ DOMAIN symbols' = SymbolId \cup {Target(d)}
  BY DEF Bind, Put, TypeOK
<1>3. d.name \in Name /\ linked \in [Name -> SymbolId \cup {NoSymbol}]
  BY DEF DeclOK, TypeOK
<1>4. CASE t \in SymbolId
  <2>1. symbols[t] \in Symbol /\ LaterState(symbols[t], symbols'[t])
    BY <1>1, <1>2, <1>4 DEF KeepsSymbols, TypeOK
  <2>2. symbols'[t].name = symbols[t].name /\ symbols'[t].linkage = symbols[t].linkage
        /\ symbols[t].name \in Name
    BY <2>1 DEF LaterState, Symbol
  <2>3. linked[symbols[t].name] = t
    BY <1>2, <1>4, <2>2 DEF LinkedOnce
  <2>4. IsNew(d) /\ Linkage(d) # "none" => symbols[t].name # d.name
    BY <1>4, <2>3, TargetType DEF SymbolId, NoSymbol
  <2> QED
    BY <1>3, <2>2, <2>3, <2>4 DEF Bind
<1>5. CASE t \notin SymbolId
  <2>1. t = nextId /\ IsNew(d)
    BY <1>2, <1>5, TargetType
  <2> QED
    BY <1>1, <1>3, <2>1 DEF Bind
<1> QED
  BY <1>4, <1>5

\* One symbol per name with linkage, always.
THEOREM LinkedSymbolsUnique == Spec => []LinkedOnce
<1>1. Init => LinkedOnce
  BY DEF Init, LinkedOnce
<1>2. TypeOK /\ LinkedOnce /\ [Next]_vars => LinkedOnce'
  <2> SUFFICES ASSUME TypeOK, LinkedOnce, [Next]_vars PROVE LinkedOnce'
    OBVIOUS
  <2>1. ASSUME UNCHANGED << symbols, linked >> PROVE LinkedOnce'
    BY <2>1 DEF LinkedOnce
  <2>2. ASSUME NEW d \in Decl, DeclareObject(d) PROVE LinkedOnce'
    BY <2>2, DeclIsOK, BindLinkedOnce DEF DeclareObject
  <2>3. ASSUME NEW d \in Decl, DeclareFunction(d) PROVE LinkedOnce'
    BY <2>3, DeclIsOK, BindLinkedOnce DEF DeclareFunction
  <2>4. ASSUME NEW d \in Decl, DefineFunction(d) PROVE LinkedOnce'
    BY <2>4, DeclIsOK, BindLinkedOnce DEF DefineFunction
  <2>5. ASSUME BindParameter PROVE LinkedOnce'
    <3> DEFINE p == Head(pending)
    <3>1. p \in ParamDecl
      BY <2>5 DEF BindParameter, TypeOK
    <3>2. CASE p.name = Anonymous
      BY <2>1, <2>5, <3>2 DEF BindParameter
    <3>3. CASE p.name # Anonymous
      <4>1. DeclOK(p) /\ Bind(p, Bound(p))
        BY <2>5, <3>1, <3>3, ParamIsOK DEF BindParameter
      <4> HIDE DEF p
      <4> QED
        BY <4>1, BindLinkedOnce
    <3> QED
      BY <3>2, <3>3
  <2>6. ASSUME FinishTentativeDeclarations PROVE LinkedOnce'
    <3> SUFFICES ASSUME NEW s \in DOMAIN symbols', symbols'[s].linkage # "none"
                 PROVE  linked'[symbols'[s].name] = s
      BY DEF LinkedOnce
    <3>1. KeepsSymbols /\ linked' = linked /\ s \in DOMAIN symbols
      BY <2>6, StepKeeps DEF FinishTentativeDeclarations
    <3> QED
      BY <3>1 DEF KeepsSymbols, LaterState, LinkedOnce
  <2>7. ASSUME NEW k \in {"block", "for"}, OpenScope(k) PROVE LinkedOnce'
    BY <2>1, <2>7 DEF OpenScope
  <2>8. ASSUME CloseScope PROVE LinkedOnce'
    BY <2>1, <2>8 DEF CloseScope
  <2> QED
    BY <2>1, <2>2, <2>3, <2>4, <2>5, <2>6, <2>7, <2>8 DEF Next, Terminated, vars
<1> QED
  BY <1>1, <1>2, TypeCorrect, PTL DEF Spec

\* Any two symbols that live in the object file have different names there.
THEOREM ObjectFileNamesDistinct == Spec => []AssemblerNamesDistinct
<1>1. LinkedOnce => AssemblerNamesDistinct
  <2> SUFFICES ASSUME LinkedOnce,
                      NEW s \in DOMAIN symbols, NEW t \in DOMAIN symbols,
                      AssemblerName(s) = AssemblerName(t)
               PROVE  s = t
    BY DEF AssemblerNamesDistinct
  <2>1. CASE symbols[s].linkage = "none" /\ symbols[t].linkage = "none"
    BY <2>1 DEF AssemblerName
  <2>2. CASE symbols[s].linkage # "none" /\ symbols[t].linkage # "none"
    <3>1. symbols[s].name = symbols[t].name
      BY <2>2 DEF AssemblerName
    <3> QED
      BY <2>2, <3>1 DEF LinkedOnce
  <2>3. CASE ~(symbols[s].linkage = "none" <=> symbols[t].linkage = "none")
    <3>1. \A a, b, c : << a, b >> # << c >>
      <4>1. \A a, b, c : Len(<< a, b >>) = 2 /\ Len(<< c >>) = 1
        OBVIOUS
      <4> QED
        BY <4>1
    <3> QED
      BY <2>3, <3>1 DEF AssemblerName
  <2> QED
    BY <2>1, <2>2, <2>3
<1> QED
  BY <1>1, LinkedSymbolsUnique, PTL

-----------------------------------------------------------------------------
(* The symbols are what the declarations call for *)

ScopeKind == {"file", "function", "for", "loop", "block"}

NamedDecl == {d \in Decl \cup ParamDecl : d.name \in Name}

Declaration == [decl: NamedDecl, path: Seq(Nat) \ {<< >>}, where: ScopeKind, sym: SymbolId]

\* Whether p is the path of a scope that is open in sc.
Open(p, sc) == Len(p) <= Len(sc) /\ \A i \in 1 .. Len(p) : p[i] = sc[i].id

\* Whether q is the path of the scope p leads to, or of one inside it.
Inside(q, p) == Len(p) <= Len(q) /\ \A i \in 1 .. Len(p) : q[i] = p[i]

\* Scopes are numbered in the order they were opened.
Numbered(sc, n) == /\ \A i \in DOMAIN sc : sc[i].id <= n
                   /\ \A i, j \in DOMAIN sc : i < j => sc[i].id < sc[j].id

PathsKnown(ds, n) == \A k \in DOMAIN ds : \A i \in DOMAIN ds[k].path : ds[k].path[i] <= n

\* While a scope is open, every later declaration is inside it.
Nested(sc, ds) == \A k, l \in DOMAIN ds :
                     k <= l /\ Open(ds[k].path, sc) => Inside(ds[l].path, ds[k].path)

\* Declaration k is one of name n in scope i of those open.
StandsIn(sc, ds, k, i, n) == /\ ds[k].decl.name = n
                             /\ Len(ds[k].path) = i /\ Open(ds[k].path, sc)

\* A scope binds a name to the symbol of the last declaration of it there.
LastBinds(sc, ds, i, n) ==
    /\ sc[i].bind[n] = NoSymbol => \A k \in DOMAIN ds : ~StandsIn(sc, ds, k, i, n)
    /\ sc[i].bind[n] # NoSymbol =>
          \E k \in DOMAIN ds : /\ StandsIn(sc, ds, k, i, n) /\ ds[k].sym = sc[i].bind[n]
                               /\ \A l \in DOMAIN ds : StandsIn(sc, ds, l, i, n) => l <= k

Latest(sc, ds) == \A i \in DOMAIN sc : \A n \in Name : LastBinds(sc, ds, i, n)

ScopesOK(sc, ds, n) == /\ Numbered(sc, n) /\ PathsKnown(ds, n)
                       /\ Nested(sc, ds) /\ Latest(sc, ds)

ScopesInv == declared \in Seq(Declaration) /\ ScopesOK(scope, declared, opened)

-----------------------------------------------------------------------------
(* Paths                                                                   *)

\* A prefix, element by element.
LEMMA PrefixInside ==
  ASSUME NEW p \in Seq(Nat), NEW q \in Seq(Nat)
  PROVE  IsPrefix(p, q) <=> Inside(q, p)
<1>1. Len(p) \in Nat /\ Len(q) \in Nat
  OBVIOUS
<1>2. CASE ~(Len(p) <= Len(q))
  BY <1>2 DEF IsPrefix, Inside
<1>3. CASE Len(p) <= Len(q)
  <2> DEFINE s == SubSeq(p, 1, Len(p))
             t == SubSeq(q, 1, Len(p))
  <2>0. s \in Seq(Nat) /\ Len(s) = Len(p) /\ \A i \in 1 .. Len(p) : s[i] = p[i]
    BY <1>1
  <2>1. /\ s \in Seq(Nat) /\ Len(s) = Len(p) /\ \A i \in 1 .. Len(p) : s[i] = p[i]
        /\ t \in Seq(Nat) /\ Len(t) = Len(p) /\ \A i \in 1 .. Len(p) : t[i] = q[i]
    BY <1>1, <1>3, <2>0
  <2> HIDE DEF s, t
  <2>2. s = t <=> \A i \in 1 .. Len(p) : s[i] = t[i]
    <3>1. s \in [1 .. Len(p) -> Nat] /\ t \in [1 .. Len(p) -> Nat]
      BY <2>1
    <3> QED
      BY <3>1
  <2>3. s = t <=> \A i \in 1 .. Len(p) : q[i] = p[i]
    BY <2>1, <2>2
  <2> QED
    BY <1>3, <2>3 DEF IsPrefix, Inside, s, t
<1> QED
  BY <1>2, <1>3

\* The path of the innermost scope.
LEMMA PathType ==
  ASSUME TypeOK
  PROVE  /\ Path \in Seq(Nat) /\ Len(Path) = Len(scope) /\ Len(scope) \in Nat \ {0}
         /\ \A i \in 1 .. Len(scope) : Path[i] = scope[i].id /\ scope[i].id \in Nat
<1>1. scope \in Seq(Scope) /\ Len(scope) \in Nat \ {0} /\ DOMAIN scope = 1 .. Len(scope)
  BY DEF TypeOK
<1>2. \A i \in 1 .. Len(scope) : scope[i].id \in Nat
  <2>1. \A i \in 1 .. Len(scope) : scope[i] \in Scope
    BY <1>1
  <2> QED
    BY <2>1 DEF Scope
<1> QED
  BY <1>1, <1>2 DEF Path

\* A scope is open if its path is a prefix of that of the innermost.
LEMMA OpenPath ==
  ASSUME TypeOK, NEW p \in Seq(Nat)
  PROVE  IsPrefix(p, Path) <=> Open(p, scope)
<1>1. IsPrefix(p, Path) <=> Inside(Path, p)
  BY PathType, PrefixInside
<1>2. Len(p) \in Nat /\ Len(scope) \in Nat
  BY PathType
<1>3. Len(p) <= Len(scope) => \A i \in 1 .. Len(p) : i \in 1 .. Len(scope)
  BY <1>2
<1> QED
  BY <1>1, <1>3, PathType DEF Inside, Open

\* What is known of a declaration.
LEMMA DeclaredType ==
  ASSUME declared \in Seq(Declaration)
  PROVE  /\ Len(declared) \in Nat /\ Occurrence = 1 .. Len(declared)
         /\ \A k \in Occurrence : /\ declared[k] \in Declaration
                                  /\ DeclAt(k) \in NamedDecl /\ DeclAt(k).name \in Name
                                  /\ declared[k].path \in Seq(Nat) /\ declared[k].path # << >>
                                  /\ Len(declared[k].path) \in Nat \ {0}
                                  /\ declared[k].sym \in SymbolId
<1>1. Len(declared) \in Nat /\ Occurrence = 1 .. Len(declared)
  BY DEF Occurrence
<1>2. \A k \in Occurrence : declared[k] \in Declaration
  BY <1>1
<1>3. \A k \in Occurrence : /\ DeclAt(k) \in NamedDecl /\ declared[k].path \in Seq(Nat)
                            /\ declared[k].path # << >> /\ declared[k].sym \in SymbolId
  BY <1>2 DEF Declaration, DeclAt
<1>4. \A p \in Seq(Nat) : p # << >> => Len(p) \in Nat \ {0}
  OBVIOUS
<1> QED
  BY <1>1, <1>2, <1>3, <1>4 DEF NamedDecl

-----------------------------------------------------------------------------
(* What a name stands for                                                  *)

VisibleOf(n) == {i \in Occurrence : DeclAt(i).name = n /\ Open(declared[i].path, scope)}

\* A name stands for the symbol of its last declaration in an open scope.
LEMMA VisibleIsLast ==
  ASSUME TypeOK, ScopesInv, NEW n \in Name
  PROVE  /\ VisibleOf(n) = {} => PriorVisible(n) = NoSymbol
         /\ VisibleOf(n) # {} => /\ Max(VisibleOf(n)) \in VisibleOf(n)
                                 /\ \A k \in VisibleOf(n) : k <= Max(VisibleOf(n))
                                 /\ PriorVisible(n) = declared[Max(VisibleOf(n))].sym
<1> DEFINE V == VisibleOf(n)
           Binding == {i \in DOMAIN scope : scope[i].bind[n] # NoSymbol}
<1>1. /\ Len(scope) \in Nat \ {0} /\ DOMAIN scope = 1 .. Len(scope)
      /\ Len(declared) \in Nat /\ Occurrence = 1 .. Len(declared)
      /\ \A k \in Occurrence : Len(declared[k].path) \in Nat \ {0}
      /\ \A k \in Occurrence : declared[k].sym \in SymbolId
  BY PathType, DeclaredType DEF TypeOK, ScopesInv
<1>2. ASSUME NEW k \in V
      PROVE  /\ Len(declared[k].path) \in Binding
             /\ \E l \in V : /\ k <= l /\ Len(declared[l].path) = Len(declared[k].path)
                             /\ declared[l].sym = scope[Len(declared[k].path)].bind[n]
  <2> DEFINE i == Len(declared[k].path)
  <2>1. k \in Occurrence /\ StandsIn(scope, declared, k, i, n) /\ i \in DOMAIN scope
    BY <1>1, <1>2 DEF VisibleOf, StandsIn, DeclAt, Open
  <2> HIDE DEF i
  <2>2. LastBinds(scope, declared, i, n)
    BY <2>1 DEF ScopesInv, ScopesOK, Latest
  <2>3. scope[i].bind[n] # NoSymbol
    BY <2>1, <2>2 DEF LastBinds, Occurrence
  <2>4. PICK l \in Occurrence : /\ StandsIn(scope, declared, l, i, n)
                                /\ declared[l].sym = scope[i].bind[n] /\ k <= l
    BY <2>1, <2>2, <2>3 DEF LastBinds, Occurrence
  <2>5. l \in V /\ Len(declared[l].path) = i
    BY <2>4 DEF VisibleOf, StandsIn, DeclAt
  <2> QED
    BY <2>1, <2>3, <2>4, <2>5 DEF i
<1>3. ASSUME NEW i \in Binding
      PROVE  \E k \in V : Len(declared[k].path) = i
  <2>1. LastBinds(scope, declared, i, n)
    BY DEF ScopesInv, ScopesOK, Latest
  <2>2. PICK k \in Occurrence : StandsIn(scope, declared, k, i, n)
    BY <2>1 DEF LastBinds, Occurrence
  <2> QED
    BY <2>2 DEF StandsIn, VisibleOf, DeclAt
<1>4. CASE V = {}
  BY <1>3, <1>4 DEF PriorVisible
<1>5. CASE V # {}
  <2> DEFINE m == Max(V)
  <2>1. m \in V /\ \A k \in V : k <= m
    <3>1. \E k \in V : \A l \in V : l <= k
      <4>1. V \subseteq 1 .. Len(declared)
        BY <1>1 DEF VisibleOf
      <4> HIDE DEF V
      <4> QED
        BY <1>1, <1>5, <4>1, LargestInInterval
    <3>2. \E k \in V : \A l \in V : k >= l
      BY <1>1, <3>1 DEF VisibleOf
    <3> HIDE DEF V
    <3>3. m \in V /\ \A l \in V : m >= l
      BY <3>2 DEF Max
    <3> QED
      BY <1>1, <3>3 DEF VisibleOf, V
  <2> HIDE DEF m
  <2> DEFINE j == Len(declared[m].path)
  <2>2. m \in Occurrence /\ j \in Binding /\ Open(declared[m].path, scope)
    BY <1>2, <2>1 DEF VisibleOf
  <2>3. scope[j].bind[n] = declared[m].sym
    <3>1. PICK l \in V : m <= l /\ declared[l].sym = scope[j].bind[n]
      BY <1>2, <2>1
    <3>2. l = m
      <4>1. l \in Occurrence /\ l <= m
        BY <2>1 DEF VisibleOf
      <4> QED
        BY <1>1, <2>2, <3>1, <4>1
    <3> QED
      BY <3>1, <3>2
  <2>4. \A i \in Binding : i <= j
    <3> SUFFICES ASSUME NEW i \in Binding PROVE i <= j
      OBVIOUS
    <3>1. PICK k \in V : Len(declared[k].path) = i
      BY <1>3
    <3>2. k \in Occurrence /\ k <= m /\ Open(declared[k].path, scope)
      BY <2>1 DEF VisibleOf
    <3>3. Inside(declared[m].path, declared[k].path)
      BY <2>2, <3>2 DEF ScopesInv, ScopesOK, Nested, Occurrence
    <3> QED
      BY <3>1, <3>3 DEF Inside
  <2>5. (CHOOSE i \in Binding : \A l \in Binding : l <= i) = j
    <3> DEFINE top == CHOOSE i \in Binding : \A l \in Binding : l <= i
    <3>1. Binding \subseteq Nat
      BY <1>1
    <3> HIDE DEF Binding, j
    <3>2. top \in Binding /\ \A l \in Binding : l <= top
      BY <2>2, <2>4
    <3> HIDE DEF top
    <3>3. top = j
      BY <2>2, <2>4, <3>1, <3>2
    <3> QED
      BY <3>3 DEF top
  <2> QED
    BY <1>5, <2>1, <2>2, <2>3, <2>5 DEF PriorVisible, m
<1> QED
  BY <1>4, <1>5

\* The rule about what is visible is the set above.
LEMMA VisibleSet ==
  ASSUME TypeOK, ScopesInv, NEW n \in Name
  PROVE  {i \in Occurrence : DeclAt(i).name = n /\ IsPrefix(declared[i].path, Path)} = VisibleOf(n)
BY OpenPath, DeclaredType DEF ScopesInv, VisibleOf

\* An identifier resolves to its latest declaration in an open scope.
LEMMA ScopesShowInnermost == TypeOK /\ ScopesInv => VisibleIsInnermost
BY VisibleIsLast, VisibleSet DEF VisibleIsInnermost

-----------------------------------------------------------------------------
(* Every step keeps the scopes in order.                                   *)

\* The stack and the declarations, as far as these lemmas need their types.
Stack(sc) == /\ Len(sc) \in Nat /\ DOMAIN sc = 1 .. Len(sc)
             /\ \A i \in 1 .. Len(sc) : sc[i].id \in Nat
Listed(ds) == /\ Len(ds) \in Nat /\ DOMAIN ds = 1 .. Len(ds)
              /\ \A k \in 1 .. Len(ds) : /\ Len(ds[k].path) \in Nat \ {0}
                                         /\ DOMAIN ds[k].path = 1 .. Len(ds[k].path)
                                         /\ \A i \in 1 .. Len(ds[k].path) : ds[k].path[i] \in Nat

\* What the lemmas need of the open scopes and of the declarations.
LEMMA StackListed ==
  ASSUME TypeOK, ScopesInv
  PROVE  Stack(scope) /\ Listed(declared) /\ opened \in Nat
<1>1. Stack(scope) /\ opened \in Nat
  BY PathType DEF TypeOK, Stack
<1>2. Listed(declared)
  <2>1. \A p \in Seq(Nat) : DOMAIN p = 1 .. Len(p) /\ \A i \in 1 .. Len(p) : p[i] \in Nat
    OBVIOUS
  <2>2. /\ Len(declared) \in Nat /\ DOMAIN declared = 1 .. Len(declared)
        /\ \A k \in 1 .. Len(declared) : /\ declared[k].path \in Seq(Nat)
                                         /\ Len(declared[k].path) \in Nat \ {0}
    BY DeclaredType DEF ScopesInv, Occurrence
  <2> QED
    BY <2>1, <2>2 DEF Listed
<1> QED
  BY <1>1, <1>2

\* A stack whose scopes have the same numbers and bindings is as good.
LEMMA SameScopes ==
  ASSUME NEW sc, NEW tc, NEW ds, NEW n, ScopesOK(sc, ds, n),
         Len(tc) = Len(sc), DOMAIN tc = DOMAIN sc, DOMAIN sc = 1 .. Len(sc), Len(sc) \in Nat, Listed(ds),
         \A i \in DOMAIN sc : tc[i].id = sc[i].id /\ tc[i].bind = sc[i].bind
  PROVE  ScopesOK(tc, ds, n)
<1>1. ASSUME NEW k \in DOMAIN ds PROVE Open(ds[k].path, tc) <=> Open(ds[k].path, sc)
  <2>1. Len(ds[k].path) \in Nat
    BY DEF Listed
  <2> HIDE DEF Listed
  <2>2. Len(ds[k].path) <= Len(sc) => \A i \in 1 .. Len(ds[k].path) : i \in DOMAIN sc
    BY <2>1
  <2> QED
    BY <2>2 DEF Open
<1>2. \A k \in DOMAIN ds : \A i, m : StandsIn(tc, ds, k, i, m) <=> StandsIn(sc, ds, k, i, m)
  BY <1>1 DEF StandsIn
<1>3. Numbered(tc, n) /\ Nested(tc, ds)
  BY <1>1 DEF ScopesOK, Numbered, Nested
<1>4. ASSUME NEW i \in DOMAIN sc, NEW m \in Name PROVE LastBinds(tc, ds, i, m)
  <2>1. LastBinds(sc, ds, i, m)
    BY DEF ScopesOK, Latest
  <2> QED
    BY <1>2, <2>1 DEF LastBinds
<1> QED
  BY <1>3, <1>4 DEF ScopesOK, Latest

\* Opening a scope: no path leads to it yet.
LEMMA OpeningScope ==
  ASSUME NEW sc, NEW tc, NEW ds, NEW n \in Nat, ScopesOK(sc, ds, n), Stack(sc), Listed(ds),
         Len(tc) = Len(sc) + 1, DOMAIN tc = 1 .. Len(sc) + 1,
         \A i \in DOMAIN sc : tc[i] = sc[i],
         tc[Len(sc) + 1].id = n + 1, tc[Len(sc) + 1].bind = Nowhere
  PROVE  ScopesOK(tc, ds, n + 1)
<1> PICK l \in Nat : l = Len(sc)
  BY DEF Stack
<1>1. ASSUME NEW k \in DOMAIN ds
      PROVE  (Open(ds[k].path, tc) <=> Open(ds[k].path, sc)) /\ ~(Open(ds[k].path, tc) /\ Len(ds[k].path) = l + 1)
  <2> DEFINE p == ds[k].path
  <2>1. Len(p) \in Nat \ {0} /\ DOMAIN p = 1 .. Len(p) /\ \A i \in 1 .. Len(p) : p[i] \in Nat /\ p[i] <= n
    BY DEF Listed, ScopesOK, PathsKnown
  <2> HIDE DEF p
  <2>2. CASE Len(p) <= l
    <3>1. \A i \in 1 .. Len(p) : i \in DOMAIN sc
      BY <2>1, <2>2 DEF Stack
    <3>2. \A i \in 1 .. Len(p) : tc[i].id = sc[i].id
      BY <3>1
    <3>3. Len(p) <= Len(sc) /\ Len(p) <= Len(tc) /\ Len(p) # l + 1
      <4>1. Len(p) \in Nat /\ Len(sc) = l /\ Len(tc) = l + 1
        BY <2>1
      <4> QED
        BY <2>2, <4>1
    <3>4. Open(p, tc) <=> Open(p, sc)
      BY <3>2, <3>3 DEF Open
    <3> QED
      BY <3>3, <3>4 DEF p
  <2>3. CASE ~(Len(p) <= l)
    <3>1. ASSUME Open(p, tc) PROVE FALSE
      <4>0. Len(p) <= l + 1
        BY <3>1 DEF Open
      <4>1. l + 1 \in 1 .. Len(p) /\ Len(p) = l + 1
        <5>1. Len(p) \in Nat
          BY <2>1
        <5>2. \A a \in Nat : ~(a <= l) /\ a <= l + 1 => a = l + 1 /\ l + 1 \in 1 .. a
          OBVIOUS
        <5> QED
          BY <2>3, <4>0, <5>1, <5>2
      <4>2. p[l + 1] = n + 1
        BY <3>1, <4>1 DEF Open
      <4> QED
        BY <2>1, <4>1, <4>2
    <3>2. ~Open(p, sc)
      BY <2>1, <2>3 DEF Open
    <3> QED
      BY <3>1, <3>2 DEF p
  <2> QED
    BY <2>2, <2>3
<1>2. \A k \in DOMAIN ds : \A i, m : StandsIn(tc, ds, k, i, m) <=> StandsIn(sc, ds, k, i, m)
  BY <1>1 DEF StandsIn
<1>3. Numbered(tc, n + 1)
  <2>1. DOMAIN sc = 1 .. l /\ \A i \in 1 .. l : sc[i].id \in Nat /\ sc[i].id <= n
    BY DEF Stack, ScopesOK, Numbered
  <2>2. \A i \in DOMAIN tc : i = l + 1 \/ i \in 1 .. l
    OBVIOUS
  <2>3. \A i, j \in DOMAIN tc : i < j => i \in 1 .. l
    OBVIOUS
  <2>4. ASSUME NEW i \in DOMAIN tc PROVE tc[i].id <= n + 1
    BY <2>1, <2>2
  <2>5. ASSUME NEW i \in DOMAIN tc, NEW j \in DOMAIN tc, i < j
        PROVE  tc[i].id < tc[j].id
    <3>1. i \in 1 .. l /\ tc[i] = sc[i]
      BY <2>1, <2>3, <2>5
    <3>2. CASE j = l + 1
      BY <2>1, <3>1, <3>2
    <3>3. CASE j \in 1 .. l
      <4>1. sc[i].id < sc[j].id
        BY <2>1, <2>5, <3>1, <3>3 DEF ScopesOK, Numbered
      <4> QED
        BY <2>1, <3>1, <3>3, <4>1
    <3> QED
      BY <2>2, <3>2, <3>3
  <2> QED
    BY <2>4, <2>5 DEF Numbered
<1>4. PathsKnown(ds, n + 1)
  <2>1. \A k \in DOMAIN ds : \A i \in DOMAIN ds[k].path : ds[k].path[i] \in Nat /\ ds[k].path[i] <= n
    BY DEF ScopesOK, PathsKnown, Listed
  <2> QED
    BY <2>1 DEF PathsKnown
<1>5. Nested(tc, ds)
  BY <1>1 DEF ScopesOK, Nested
<1>6. ASSUME NEW i \in DOMAIN tc, NEW m \in Name PROVE LastBinds(tc, ds, i, m)
  <2>1. CASE i = l + 1
    BY <1>1, <2>1 DEF LastBinds, StandsIn, Nowhere
  <2>2. CASE i \in DOMAIN sc
    <3>1. LastBinds(sc, ds, i, m) /\ tc[i] = sc[i]
      BY <2>2 DEF ScopesOK, Latest
    <3> QED
      BY <1>2, <3>1 DEF LastBinds
  <2> QED
    BY <2>1, <2>2 DEF Stack
<1> QED
  BY <1>3, <1>4, <1>5, <1>6 DEF ScopesOK, Latest

\* Closing a scope: those that stay were open before.
LEMMA ClosingScope ==
  ASSUME NEW sc, NEW tc, NEW ds, NEW n \in Nat, ScopesOK(sc, ds, n), Stack(sc), Listed(ds),
         Len(tc) \in Nat, Len(tc) <= Len(sc), DOMAIN tc = 1 .. Len(tc),
         \A i \in DOMAIN tc : tc[i] = sc[i]
  PROVE  ScopesOK(tc, ds, n)
<1>0. \A i \in DOMAIN tc : i \in DOMAIN sc
  BY DEF Stack
<1>1. ASSUME NEW k \in DOMAIN ds
      PROVE  Open(ds[k].path, tc) <=> Open(ds[k].path, sc) /\ Len(ds[k].path) <= Len(tc)
  <2>1. Len(ds[k].path) \in Nat
    BY DEF Listed
  <2>2. Len(ds[k].path) <= Len(tc) => \A i \in 1 .. Len(ds[k].path) : i \in DOMAIN tc
    BY <2>1
  <2>3. CASE Len(ds[k].path) <= Len(tc)
    <3>1. Len(ds[k].path) <= Len(sc)
      BY <2>1, <2>3 DEF Stack
    <3> QED
      BY <2>2, <2>3, <3>1 DEF Open
  <2>4. CASE ~(Len(ds[k].path) <= Len(tc))
    BY <2>4 DEF Open
  <2> QED
    BY <2>3, <2>4
<1>2. \A k \in DOMAIN ds, i \in DOMAIN tc : \A m : StandsIn(tc, ds, k, i, m) <=> StandsIn(sc, ds, k, i, m)
  BY <1>1 DEF StandsIn
<1>3. Numbered(tc, n) /\ Nested(tc, ds)
  BY <1>0, <1>1 DEF ScopesOK, Numbered, Nested
<1>4. ASSUME NEW i \in DOMAIN tc, NEW m \in Name PROVE LastBinds(tc, ds, i, m)
  <2>1. LastBinds(sc, ds, i, m) /\ tc[i] = sc[i]
    BY <1>0 DEF ScopesOK, Latest
  <2> QED
    BY <1>2, <2>1 DEF LastBinds
<1> QED
  BY <1>3, <1>4 DEF ScopesOK, Latest

\* A name is bound in the innermost scope, and its declaration is listed.
BindsHere(sc, tc, name, sym) ==
    /\ Len(sc) # 0 /\ sym # NoSymbol
    /\ Len(tc) = Len(sc) /\ DOMAIN tc = DOMAIN sc
    /\ \A i \in DOMAIN sc : tc[i].id = sc[i].id
    /\ \A i \in DOMAIN sc : \A m \in Name :
            tc[i].bind[m] = IF i = Len(sc) /\ m = name THEN sym ELSE sc[i].bind[m]
ListsHere(sc, ds, es, name, sym) ==
    /\ Len(es) = Len(ds) + 1 /\ \A k \in DOMAIN ds : es[k] = ds[k]
    /\ es[Len(es)].decl.name = name /\ es[Len(es)].sym = sym
    /\ Len(es[Len(es)].path) = Len(sc) /\ \A i \in DOMAIN sc : es[Len(es)].path[i] = sc[i].id

\* It is the last of its name there.
LEMMA DeclaringThere ==
  ASSUME NEW sc, NEW tc, NEW ds, NEW es, NEW n \in Nat, NEW name, NEW sym,
         ScopesOK(sc, ds, n), Stack(sc), Listed(ds), Listed(es),
         BindsHere(sc, tc, name, sym), ListsHere(sc, ds, es, name, sym)
  PROVE  ScopesOK(tc, es, n)
<1> USE DEF BindsHere, ListsHere
<1> PICK l \in Nat : l = Len(sc) /\ DOMAIN sc = 1 .. l
  BY DEF Stack
<1> PICK m \in Nat : m = Len(ds) /\ DOMAIN ds = 1 .. m /\ Len(es) = m + 1 /\ DOMAIN es = 1 .. m + 1
  BY DEF Listed
<1>1. \A k \in DOMAIN es : k = m + 1 \/ k \in DOMAIN ds
  OBVIOUS
<1>2. ASSUME NEW k \in DOMAIN es PROVE Open(es[k].path, tc) <=> Open(es[k].path, sc)
  <2>1. Len(es[k].path) \in Nat
    BY DEF Listed
  <2>2. Len(es[k].path) <= l => \A i \in 1 .. Len(es[k].path) : i \in DOMAIN sc
    BY <2>1
  <2> QED
    BY <2>2 DEF Open
<1>3. Open(es[m + 1].path, sc)
  BY DEF Open
<1>4. Numbered(tc, n)
  BY DEF ScopesOK, Numbered
<1>5. PathsKnown(es, n)
  <2>1. DOMAIN es[m + 1].path = 1 .. l
    BY DEF Listed
  <2>2. \A i \in 1 .. l : es[m + 1].path[i] <= n
    BY DEF ScopesOK, Numbered
  <2>3. \A k \in DOMAIN ds : \A i \in DOMAIN es[k].path : es[k].path[i] <= n
    BY DEF ScopesOK, PathsKnown
  <2> QED
    BY <1>1, <2>1, <2>2, <2>3 DEF PathsKnown
<1>6. ASSUME NEW k \in DOMAIN es, NEW j \in DOMAIN es, k <= j, Open(es[k].path, tc)
      PROVE  Inside(es[j].path, es[k].path)
  <2>1. Open(es[k].path, sc) /\ Len(es[k].path) \in Nat
    BY <1>2, <1>6 DEF Listed
  <2>2. CASE j = m + 1
    <3>1. Len(es[k].path) <= l /\ \A i \in 1 .. Len(es[k].path) : i \in 1 .. l /\ es[k].path[i] = sc[i].id
      BY <2>1 DEF Open
    <3>2. Len(es[j].path) = l /\ \A i \in 1 .. l : es[j].path[i] = sc[i].id
      BY <2>2
    <3> QED
      BY <3>1, <3>2 DEF Inside
  <2>3. CASE j # m + 1
    <3>1. j \in DOMAIN ds /\ k \in DOMAIN ds
      BY <1>6, <2>3
    <3>2. Inside(ds[j].path, ds[k].path)
      BY <1>6, <2>1, <3>1 DEF ScopesOK, Nested
    <3> QED
      BY <3>1, <3>2
  <2> QED
    BY <2>2, <2>3
<1>7. ASSUME NEW i \in DOMAIN tc, NEW x \in Name PROVE LastBinds(tc, es, i, x)
  <2>1. CASE i = l /\ x = name
    <3>1. StandsIn(tc, es, m + 1, i, x) /\ es[m + 1].sym = tc[i].bind[x]
      BY <1>2, <1>3, <2>1 DEF StandsIn
    <3>2. tc[i].bind[x] # NoSymbol /\ \A k \in DOMAIN es : k <= m + 1
      BY <2>1
    <3> QED
      BY <3>1, <3>2 DEF LastBinds
  <2>2. CASE ~(i = l /\ x = name)
    <3>1. LastBinds(sc, ds, i, x) /\ tc[i].bind[x] = sc[i].bind[x]
      BY <2>2 DEF ScopesOK, Latest
    <3>2. ~StandsIn(tc, es, m + 1, i, x)
      BY <2>2 DEF StandsIn
    <3>3. \A k \in DOMAIN ds : StandsIn(tc, es, k, i, x) <=> StandsIn(sc, ds, k, i, x)
      BY <1>2 DEF StandsIn
    <3>4. CASE sc[i].bind[x] = NoSymbol
      BY <1>1, <3>1, <3>2, <3>3, <3>4 DEF LastBinds
    <3>5. CASE sc[i].bind[x] # NoSymbol
      <4>1. PICK k \in DOMAIN ds : /\ StandsIn(sc, ds, k, i, x) /\ ds[k].sym = sc[i].bind[x]
                                   /\ \A j \in DOMAIN ds : StandsIn(sc, ds, j, i, x) => j <= k
        BY <3>1, <3>5 DEF LastBinds
      <4>2. /\ k \in DOMAIN es /\ StandsIn(tc, es, k, i, x) /\ es[k].sym = tc[i].bind[x]
            /\ \A j \in DOMAIN es : StandsIn(tc, es, j, i, x) => j <= k
        BY <1>1, <3>1, <3>2, <3>3, <4>1
      <4> QED
        BY <3>1, <3>5, <4>2 DEF LastBinds
    <3> QED
      BY <3>4, <3>5
  <2> QED
    BY <2>1, <2>2
<1> QED
  BY <1>4, <1>5, <1>6, <1>7 DEF ScopesOK, Nested, Latest

\* Binding a name changes that binding of the innermost scope alone.
LEMMA InstalledScopes ==
  ASSUME TypeOK, NEW d, DeclOK(d)
  PROVE  /\ Len(Installed(d)) = Len(scope) /\ DOMAIN Installed(d) = DOMAIN scope
         /\ Stack(Installed(d))
         /\ \A i \in DOMAIN scope :
               /\ Installed(d)[i].id = scope[i].id /\ Installed(d)[i].kind = scope[i].kind
               /\ \A m \in Name : Installed(d)[i].bind[m] =
                     IF i = Len(scope) /\ m = d.name THEN Target(d) ELSE scope[i].bind[m]
<1>1. scope \in Seq(Scope) /\ Len(scope) \in Nat \ {0} /\ DOMAIN scope = 1 .. Len(scope)
  BY DEF TypeOK
<1> DEFINE top == scope[Len(scope)]
           new == [top EXCEPT !.bind[d.name] = Target(d)]
<1>2. top \in Scope /\ d.name \in Name
  BY <1>1 DEF DeclOK
<1>3. /\ new.id = top.id /\ new.kind = top.kind /\ new.id \in Nat
      /\ \A m \in Name : new.bind[m] = IF m = d.name THEN Target(d) ELSE top.bind[m]
  BY <1>2 DEF Scope
<1>4. Installed(d) = [scope EXCEPT ![Len(scope)] = new]
  BY DEF Installed
<1>5. \A i \in 1 .. Len(scope) : scope[i] \in Scope
  BY <1>1
<1>6. \A i \in 1 .. Len(scope) : scope[i].id \in Nat
  BY <1>5 DEF Scope
<1> HIDE DEF new
<1>7. /\ Len(Installed(d)) = Len(scope) /\ DOMAIN Installed(d) = DOMAIN scope
      /\ \A i \in DOMAIN scope : Installed(d)[i] = IF i = Len(scope) THEN new ELSE scope[i]
  BY <1>1, <1>4
<1>8. \A i \in DOMAIN scope : Installed(d)[i].id = scope[i].id /\ Installed(d)[i].kind = scope[i].kind
  BY <1>3, <1>7
<1>9. ASSUME NEW i \in DOMAIN scope, NEW m \in Name
      PROVE  Installed(d)[i].bind[m] =
                 IF i = Len(scope) /\ m = d.name THEN Target(d) ELSE scope[i].bind[m]
  BY <1>3, <1>7
<1> QED
  BY <1>1, <1>6, <1>7, <1>8, <1>9 DEF Stack

\* A declaration is one to the list of them.
LEMMA BindDeclared ==
  ASSUME TypeOK, ScopesInv, NEW d \in NamedDecl, DeclOK(d), NEW s \in Symbol, Bind(d, s)
  PROVE  /\ declared' \in Seq(Declaration') /\ Len(declared') = Len(declared) + 1
         /\ DOMAIN declared' = 1 .. Len(declared) + 1
         /\ \A k \in DOMAIN declared : declared'[k] = declared[k]
         /\ declared'[Len(declared) + 1] =
               [decl |-> d, path |-> Path, where |-> Top.kind, sym |-> Target(d)]
         /\ Listed(declared')
<1> DEFINE new == [decl |-> d, path |-> Path, where |-> Top.kind, sym |-> Target(d)]
<1>1. SymbolId \subseteq SymbolId' /\ Target(d) \in SymbolId'
  BY BindType
<1>2. Path \in Seq(Nat) /\ Len(Path) \in Nat \ {0}
  BY PathType
<1>3. Path # << >>
  BY <1>2
<1>4. Top.kind \in ScopeKind
  BY InnermostType DEF Top, Scope, ScopeKind
<1>5. new \in Declaration'
  BY <1>1, <1>2, <1>3, <1>4 DEF Declaration
<1>6. Declaration \subseteq Declaration'
  BY <1>1 DEF Declaration
<1>7. declared \in Seq(Declaration) /\ declared' = Append(declared, new)
  BY DEF Bind, ScopesInv
<1>8. \A k \in DOMAIN declared : declared[k] \in Declaration'
  BY <1>6, <1>7
<1>9. declared \in Seq(Declaration')
  BY <1>6, <1>7
<1> HIDE DEF new
<1>10. /\ declared' \in Seq(Declaration') /\ Len(declared') = Len(declared) + 1
       /\ DOMAIN declared' = 1 .. Len(declared) + 1 /\ Len(declared) \in Nat
       /\ \A k \in DOMAIN declared : declared'[k] = declared[k]
       /\ declared'[Len(declared) + 1] = new
  BY <1>5, <1>7, <1>9
<1>11. Listed(declared')
  <2>1. \A q \in Seq(Nat) : DOMAIN q = 1 .. Len(q) /\ Len(q) \in Nat /\ \A i \in 1 .. Len(q) : q[i] \in Nat
    OBVIOUS
  <2>2. \A q \in Seq(Nat) : q # << >> => Len(q) # 0
    OBVIOUS
  <2>3. ASSUME NEW k \in 1 .. Len(declared')
        PROVE  declared'[k].path \in Seq(Nat) /\ declared'[k].path # << >>
    <3>1. declared'[k] \in Declaration'
      BY <1>10
    <3> QED
      BY <3>1 DEF Declaration
  <2> QED
    BY <1>10, <2>1, <2>2, <2>3 DEF Listed
<1> QED
  BY <1>10, <1>11 DEF new

\* Declaring keeps the scopes in order.
LEMMA BindScopes ==
  ASSUME TypeOK, ScopesInv, NEW d \in NamedDecl, DeclOK(d), NEW s \in Symbol, Bind(d, s)
  PROVE  /\ declared' \in Seq(Declaration') /\ Listed(declared') /\ Stack(Installed(d))
         /\ ScopesOK(Installed(d), declared', opened)
<1>1. Stack(scope) /\ Listed(declared) /\ opened \in Nat /\ ScopesOK(scope, declared, opened)
  BY StackListed DEF ScopesInv
<1>2. /\ Path \in Seq(Nat) /\ Len(Path) = Len(scope) /\ Len(scope) # 0 /\ DOMAIN scope = 1 .. Len(scope)
      /\ \A i \in DOMAIN scope : Path[i] = scope[i].id
  <2>1. DOMAIN scope = 1 .. Len(scope)
    BY InnermostType
  <2> HIDE DEF Path
  <2> QED
    BY <2>1, PathType
<1>3. Target(d) # NoSymbol
  BY TargetType DEF NoSymbol, TypeOK
<1>4. /\ declared' \in Seq(Declaration') /\ Len(declared') = Len(declared) + 1
      /\ \A k \in DOMAIN declared : declared'[k] = declared[k]
      /\ declared'[Len(declared) + 1] =
            [decl |-> d, path |-> Path, where |-> Top.kind, sym |-> Target(d)]
      /\ Listed(declared')
  BY BindDeclared
<1>5. /\ declared'[Len(declared')].decl.name = d.name /\ declared'[Len(declared')].sym = Target(d)
      /\ declared'[Len(declared')].path = Path
  BY <1>4
<1> HIDE DEF Path
<1>6. BindsHere(scope, Installed(d), d.name, Target(d))
  BY <1>2, <1>3, InstalledScopes DEF BindsHere
<1>7. ListsHere(scope, declared, declared', d.name, Target(d))
  BY <1>2, <1>4, <1>5 DEF ListsHere
<1> QED
  BY <1>1, <1>4, <1>6, <1>7, InstalledScopes, DeclaringThere

\* Whatever happens, the scopes stay in order.
LEMMA NextScopes == TypeOK /\ ScopesInv /\ [Next]_vars => ScopesInv'
<1> SUFFICES ASSUME TypeOK, ScopesInv, [Next]_vars PROVE ScopesInv'
  OBVIOUS
<1>0. Stack(scope) /\ Listed(declared) /\ opened \in Nat /\ ScopesOK(scope, declared, opened)
  BY StackListed DEF ScopesInv
<1>1. ASSUME UNCHANGED << scope, declared, opened, nextId >> PROVE ScopesInv'
  BY <1>1 DEF ScopesInv, Declaration, SymbolId
<1>2. ASSUME NEW d, d \in NamedDecl, DeclOK(d), NEW s \in Symbol, Bind(d, s), scope' = Installed(d), opened' = opened
      PROVE  ScopesInv'
  BY <1>2, BindScopes DEF ScopesInv
<1>3. ASSUME NEW d \in Decl, DeclareObject(d) PROVE ScopesInv'
  <2>1. DeclOK(d) /\ d \in NamedDecl
    BY DeclIsOK DEF DeclOK, NamedDecl
  <2>2. Initialized(d, Bound(d)) \in Symbol
    BY <2>1, BoundType, InitializedType
  <2> QED
    BY <1>2, <1>3, <2>1, <2>2 DEF DeclareObject
<1>4. ASSUME NEW d \in Decl, DeclareFunction(d) PROVE ScopesInv'
  <2>1. DeclOK(d) /\ d \in NamedDecl /\ Bound(d) \in Symbol
    BY DeclIsOK, BoundType DEF DeclOK, NamedDecl
  <2> QED
    BY <1>2, <1>4, <2>1 DEF DeclareFunction
<1>5. ASSUME NEW d \in Decl, DefineFunction(d) PROVE ScopesInv'
  <2>1. DeclOK(d) /\ d \in NamedDecl /\ Bound(d) \in Symbol /\ Bind(d, Bound(d))
    BY <1>5, DeclIsOK, BoundType DEF DeclOK, NamedDecl, DefineFunction
  <2>2. /\ declared' \in Seq(Declaration') /\ Listed(declared') /\ Stack(Installed(d))
        /\ ScopesOK(Installed(d), declared', opened)
    BY <2>1, BindScopes
  <2>3. scope' = Append(Installed(d), Opened("function")) /\ opened' = opened + 1
    BY <1>5 DEF DefineFunction
  <2>4. Installed(d) \in Seq(Scope') /\ Opened("function") \in Scope'
    <3>1. SymbolId \subseteq SymbolId' /\ Target(d) \in SymbolId'
      BY <2>1, BindType
    <3> QED
      BY <2>1, <3>1, InstalledType, OpenedType DEF Scope
  <2>5. /\ Len(scope') = Len(Installed(d)) + 1 /\ DOMAIN scope' = 1 .. Len(Installed(d)) + 1
        /\ \A i \in DOMAIN Installed(d) : scope'[i] = Installed(d)[i]
        /\ scope'[Len(Installed(d)) + 1] = Opened("function")
    BY <2>3, <2>4
  <2>6. ScopesOK(scope', declared', opened + 1)
    BY <1>0, <2>2, <2>5, OpeningScope DEF Opened
  <2> QED
    BY <2>2, <2>3, <2>6 DEF ScopesInv
<1>6. ASSUME BindParameter PROVE ScopesInv'
  <2> DEFINE p == Head(pending)
  <2>1. p \in ParamDecl
    BY <1>6 DEF BindParameter, TypeOK
  <2>2. CASE p.name = Anonymous
    BY <1>1, <1>6, <2>2 DEF BindParameter
  <2>3. CASE p.name # Anonymous
    <3>1. DeclOK(p) /\ Bind(p, Bound(p)) /\ Bound(p) \in Symbol
          /\ scope' = Installed(p) /\ opened' = opened
      BY <1>6, <2>1, <2>3, ParamIsOK, BoundType DEF BindParameter
    <3>2. p \in NamedDecl
      BY <2>1, <3>1 DEF NamedDecl, DeclOK
    <3> HIDE DEF p
    <3> QED
      BY <1>2, <3>1, <3>2
  <2> QED
    BY <2>2, <2>3
<1>7. ASSUME NEW k \in {"block", "for"}, OpenScope(k) PROVE ScopesInv'
  <2> DEFINE body == IF Top.kind = "for" THEN [scope EXCEPT ![Len(scope)].kind = "loop"] ELSE scope
  <2>1. /\ scope \in Seq(Scope) /\ Len(scope) \in Nat /\ Len(scope) > 0
        /\ [scope[Len(scope)] EXCEPT !.kind = "loop"] \in Scope
    BY InnermostType
  <2>2. /\ body \in Seq(Scope) /\ Len(body) = Len(scope) /\ DOMAIN body = DOMAIN scope
        /\ DOMAIN scope = 1 .. Len(scope)
    BY <2>1
  <2>3. \A i \in DOMAIN scope : body[i].id = scope[i].id /\ body[i].bind = scope[i].bind
    <3>1. \A t \in Scope : [t EXCEPT !.kind = "loop"].id = t.id /\ [t EXCEPT !.kind = "loop"].bind = t.bind
      BY DEF Scope
    <3> QED
      BY <2>1, <3>1
  <2>4. scope' = Append(body, Opened(k)) /\ opened' = opened + 1 /\ UNCHANGED << declared, nextId >>
    BY <1>7 DEF OpenScope
  <2> HIDE DEF body
  <2>5. ScopesOK(body, declared, opened) /\ Stack(body)
    BY <1>0, <2>1, <2>2, <2>3, SameScopes DEF Stack
  <2>6. Opened(k) \in Scope
    BY OpenedType
  <2>7. /\ Len(scope') = Len(body) + 1 /\ DOMAIN scope' = 1 .. Len(body) + 1
        /\ \A i \in DOMAIN body : scope'[i] = body[i]
        /\ scope'[Len(body) + 1] = Opened(k)
    BY <2>2, <2>4, <2>6
  <2>8. ScopesOK(scope', declared, opened + 1)
    BY <1>0, <2>5, <2>7, OpeningScope DEF Opened
  <2> QED
    BY <2>4, <2>8 DEF ScopesInv, Declaration, SymbolId
<1>8. ASSUME CloseScope PROVE ScopesInv'
  <2>1. scope' = SubSeq(scope, 1, Len(scope) - 1) /\ UNCHANGED << declared, nextId, opened >>
    BY <1>8 DEF CloseScope
  <2>2. scope \in Seq(Scope) /\ Len(scope) \in Nat /\ Len(scope) > 0
    BY InnermostType
  <2>3. /\ Len(scope') \in Nat /\ Len(scope') <= Len(scope) /\ DOMAIN scope' = 1 .. Len(scope')
        /\ \A i \in DOMAIN scope' : scope'[i] = scope[i]
    BY <2>1, <2>2
  <2>4. ScopesOK(scope', declared, opened)
    BY <1>0, <2>3, ClosingScope
  <2> QED
    BY <2>1, <2>4 DEF ScopesInv, Declaration, SymbolId
<1>9. ASSUME FinishTentativeDeclarations PROVE ScopesInv'
  BY <1>1, <1>9 DEF FinishTentativeDeclarations
<1> QED
  BY <1>1, <1>3, <1>4, <1>5, <1>6, <1>7, <1>8, <1>9 DEF Next, Terminated, vars

\* At first only the file scope is open, and nothing is declared.
LEMMA InitScopes == Init => ScopesInv
<1> SUFFICES ASSUME Init PROVE ScopesInv
  OBVIOUS
<1>1. declared \in Seq(Declaration) /\ DOMAIN declared = {}
  BY DEF Init
<1>2. /\ DOMAIN scope = {1} /\ scope[1].id = 0 /\ opened = 0
      /\ \A n \in Name : scope[1].bind[n] = NoSymbol
  BY DEF Init, Nowhere
<1> QED
  BY <1>1, <1>2 DEF ScopesInv, ScopesOK, Numbered, PathsKnown, Nested, Latest, LastBinds

\* An identifier always resolves to the symbol of the latest declaration of it
\* in a scope still open, for any names, any depth and any scopes gone by.
THEOREM InnermostIsVisible == Spec => []VisibleIsInnermost
<1>1. Spec => []ScopesInv
  BY InitScopes, NextScopes, TypeCorrect, PTL DEF Spec
<1> QED
  BY <1>1, TypeCorrect, ScopesShowInnermost, PTL

-----------------------------------------------------------------------------
(* Linkage, by the declarations alone                                      *)

EnclosingIn(ds, i) == {j \in 1 .. i - 1 : /\ ds[j].decl.name = ds[i].decl.name
                                          /\ IsPrefix(ds[j].path, ds[i].path)}

InheritedIn(ds, g, i) ==
    IF EnclosingIn(ds, i) = {} \/ g[Max(EnclosingIn(ds, i))] = "none"
    THEN "external" ELSE g[Max(EnclosingIn(ds, i))]

RuleIn(ds, g, i) ==
    IF ds[i].decl.param THEN "none"
    ELSE IF ds[i].decl.sc = "static" /\ (ds[i].decl.kind = "function" \/ Len(ds[i].path) = 1)
         THEN "internal"
    ELSE IF ds[i].decl.kind = "function" \/ ds[i].decl.sc = "extern" THEN InheritedIn(ds, g, i)
    ELSE IF ds[i].decl.sc = "none" /\ Len(ds[i].path) = 1 THEN "external"
    ELSE "none"

LinkIn(ds) == CHOOSE g : g = [i \in DOMAIN ds |-> RuleIn(ds, g, i)]

\* The rule, with the declarations as a parameter.
LEMMA LinkageIs == LinkageOf = LinkIn(declared) /\ LinkageOf' = LinkIn(declared')
BY DEF LinkageOf, LinkIn, RuleIn, InheritedIn, EnclosingIn, Enclosing, Occurrence, DeclAt, InFile

\* The last of the enclosing declarations is an earlier one.
LEMMA LastEnclosing ==
  ASSUME NEW ds, NEW i \in Nat, EnclosingIn(ds, i) # {}
  PROVE  Max(EnclosingIn(ds, i)) \in EnclosingIn(ds, i) /\ Max(EnclosingIn(ds, i)) \in 1 .. i - 1
<1> DEFINE E == EnclosingIn(ds, i)
<1>1. i # 0 /\ i - 1 \in Nat /\ E \subseteq 1 .. i - 1
  BY DEF EnclosingIn
<1> HIDE DEF E
<1>2. \E m \in E : \A k \in E : k <= m
  BY <1>1, LargestInInterval DEF E
<1>3. \E m \in E : \A k \in E : m >= k
  BY <1>1, <1>2
<1>4. Max(E) \in E
  BY <1>3 DEF Max
<1> QED
  BY <1>1, <1>4 DEF E

\* The rule looks at the linkage of earlier declarations only.
LEMMA RuleIsLocal ==
  ASSUME NEW ds, NEW i \in Nat, NEW g, NEW h, \A j \in 1 .. i - 1 : g[j] = h[j]
  PROVE  RuleIn(ds, g, i) = RuleIn(ds, h, i)
<1>1. InheritedIn(ds, g, i) = InheritedIn(ds, h, i)
  BY LastEnclosing DEF InheritedIn
<1> QED
  BY <1>1 DEF RuleIn

\* So there is a linkage for every declaration.
LEMMA LinkDefined ==
  ASSUME NEW ds, Len(ds) \in Nat, DOMAIN ds = 1 .. Len(ds)
  PROVE  \A i \in DOMAIN ds : LinkIn(ds)[i] = RuleIn(ds, LinkIn(ds), i)
<1> DEFINE n == Len(ds)
           Upto(k, g) == g = [i \in 1 .. k |-> RuleIn(ds, g, i)]
           T == {k \in 0 .. n : ~ \E g : Upto(k, g)}
<1>1. ASSUME T # {} PROVE FALSE
  <2>1. PICK k \in T : \A j \in T : k <= j
    <3>1. T \subseteq Nat
      OBVIOUS
    <3> HIDE DEF T
    <3> QED
      BY <1>1, <3>1, SmallestInNat
  <2>2. k # 0
    <3>1. Upto(0, [i \in 1 .. 0 |-> RuleIn(ds, ds, i)])
      <4>1. 1 .. 0 = {}
        OBVIOUS
      <4> QED
        BY <4>1
    <3> HIDE DEF Upto
    <3> QED
      BY <3>1
  <2>3. k \in Nat /\ k - 1 \in 0 .. n
    BY <2>2
  <2>4. k - 1 \notin T
    BY <2>1, <2>3
  <2>5. PICK g : Upto(k - 1, g)
    <3> HIDE DEF Upto
    <3> QED
      BY <2>3, <2>4
  <2> DEFINE h == [i \in 1 .. k |-> IF i = k THEN RuleIn(ds, g, k) ELSE g[i]]
  <2>6. \A i \in 1 .. k - 1 : h[i] = g[i] /\ g[i] = RuleIn(ds, g, i)
    BY <2>3, <2>5
  <2>7. ASSUME NEW i \in 1 .. k PROVE h[i] = RuleIn(ds, h, i)
    <3>1. i \in Nat /\ \A j \in 1 .. i - 1 : j \in 1 .. k - 1
      BY <2>3
    <3>2. \A j \in 1 .. i - 1 : g[j] = h[j]
      BY <2>6, <3>1
    <3>3. RuleIn(ds, g, i) = RuleIn(ds, h, i)
      <4> HIDE DEF h
      <4> QED
        BY <3>1, <3>2, RuleIsLocal
    <3>4. h[i] = RuleIn(ds, g, i)
      <4>1. CASE i = k
        BY <4>1
      <4>2. CASE i # k
        <5>1. i \in 1 .. k - 1
          BY <2>3, <4>2
        <5> QED
          BY <2>6, <5>1
      <4> QED
        BY <4>1, <4>2
    <3> QED
      BY <3>3, <3>4
  <2>8. Upto(k, h)
    <3>1. h = [i \in 1 .. k |-> h[i]]
      OBVIOUS
    <3> HIDE DEF h
    <3> QED
      BY <2>7, <3>1
  <2> HIDE DEF Upto, h
  <2> QED
    BY <2>8
<1>2. \E g : Upto(n, g)
  <2> HIDE DEF Upto
  <2>1. n \in 0 .. n
    OBVIOUS
  <2> QED
    BY <1>1, <2>1
<1>3. Upto(n, LinkIn(ds))
  BY <1>2, Zenon DEF LinkIn
<1> HIDE DEF LinkIn
<1> QED
  BY <1>3

\* One declaration more changes nothing about those before it.
LEMMA LinkStable ==
  ASSUME NEW ds, NEW es, Len(ds) \in Nat, DOMAIN ds = 1 .. Len(ds),
         Len(es) = Len(ds) + 1, DOMAIN es = 1 .. Len(ds) + 1, \A k \in DOMAIN ds : es[k] = ds[k]
  PROVE  \A i \in DOMAIN ds : LinkIn(es)[i] = LinkIn(ds)[i]
<1> DEFINE T == {i \in DOMAIN ds : LinkIn(es)[i] # LinkIn(ds)[i]}
<1>1. ASSUME T # {} PROVE FALSE
  <2>1. PICK i \in T : \A j \in T : i <= j
    <3>1. T \subseteq Nat
      OBVIOUS
    <3> HIDE DEF T
    <3> QED
      BY <1>1, <3>1, SmallestInNat
  <2>2. i \in DOMAIN ds /\ i \in DOMAIN es /\ i \in Nat
    OBVIOUS
  <2>3. \A j \in 1 .. i - 1 : j \in DOMAIN ds /\ ~(i <= j)
    BY <2>2
  <2>4. \A j \in 1 .. i - 1 : LinkIn(es)[j] = LinkIn(ds)[j]
    BY <2>1, <2>3
  <2>5. RuleIn(es, LinkIn(es), i) = RuleIn(es, LinkIn(ds), i)
    BY <2>2, <2>4, RuleIsLocal
  <2>6. EnclosingIn(es, i) = EnclosingIn(ds, i)
    BY <2>2, <2>3 DEF EnclosingIn
  <2>7. RuleIn(es, LinkIn(ds), i) = RuleIn(ds, LinkIn(ds), i)
    BY <2>2, <2>6 DEF RuleIn, InheritedIn
  <2>8. LinkIn(es)[i] = RuleIn(es, LinkIn(es), i) /\ LinkIn(ds)[i] = RuleIn(ds, LinkIn(ds), i)
    BY <2>2, LinkDefined
  <2> QED
    BY <2>5, <2>7, <2>8
<1> QED
  BY <1>1

-----------------------------------------------------------------------------
(* The steps, as far as symbols are concerned                              *)

\* A declaration is analysed, whichever action does it; errors are reported.
Declares(d) ==
    /\ d \in NamedDecl /\ DeclOK(d) /\ phase = "analyzing" /\ phase' = phase
    /\ Bind(d, Initialized(d, Bound(d)))
    /\ error \/ BindError(d) \/ InitError(d, Bound(d)) => error'
    /\ BadDeclaration(d) /\ ~d.param => error'

\* A step that makes no declaration may still report one.
NoDeclaration == /\ UNCHANGED << symbols, nextId, linked, declared, phase >>
                 /\ error => error'

\* A declaration without an initialiser leaves the symbol as bound.
LEMMA Uninitialized ==
  ASSUME NEW d, NEW s, d.init = "none"
  PROVE  Initialized(d, s) = s /\ ~InitError(d, s)
BY DEF Initialized, InitError, IsStaticInit

\* A step declares something, ends the unit or leaves the symbols alone.
LEMMA StepCases ==
  ASSUME TypeOK, [Next]_vars
  PROVE  \/ \E d : Declares(d)
         \/ FinishTentativeDeclarations
         \/ NoDeclaration
<1>1. ASSUME NEW d \in Decl, DeclareObject(d) PROVE Declares(d)
  BY <1>1, DeclIsOK DEF DeclareObject, MayDeclare, Declares, NamedDecl, DeclOK
<1>2. ASSUME NEW d \in Decl, DeclareFunction(d) PROVE Declares(d)
  <2>1. d.init = "none"
    BY <1>2, DeclAssumption DEF DeclareFunction
  <2> QED
    BY <1>2, <2>1, DeclIsOK, Uninitialized DEF DeclareFunction, MayDeclare, Declares, NamedDecl, DeclOK
<1>3. ASSUME NEW d \in Decl, DefineFunction(d) PROVE Declares(d)
  <2>1. d.init = "none"
    BY <1>3, DeclAssumption DEF DefineFunction
  <2> QED
    BY <1>3, <2>1, DeclIsOK, Uninitialized DEF DefineFunction, MayDeclare, Declares, NamedDecl, DeclOK
<1>4. ASSUME BindParameter PROVE (\E d : Declares(d)) \/ NoDeclaration
  <2> DEFINE p == Head(pending)
  <2>1. p \in ParamDecl
    BY <1>4 DEF BindParameter, TypeOK
  <2>2. CASE p.name = Anonymous
    BY <1>4, <2>2 DEF BindParameter, NoDeclaration
  <2>3. CASE p.name # Anonymous
    <3>1. /\ Bind(p, Bound(p)) /\ phase = "analyzing" /\ phase' = phase
          /\ error' = (error \/ BindError(p))
      BY <1>4, <2>3 DEF BindParameter
    <3>2. DeclOK(p) /\ p.init = "none" /\ p.param
      BY <2>1, <2>3, ParamIsOK DEF ParamDecl
    <3> HIDE DEF p
    <3>3. Declares(p)
      BY <2>1, <3>1, <3>2, Uninitialized DEF Declares, NamedDecl, DeclOK
    <3> QED
      BY <3>3
  <2> QED
    BY <2>2, <2>3
<1>5. ASSUME NEW k \in {"block", "for"}, OpenScope(k) PROVE NoDeclaration
  BY <1>5 DEF OpenScope, NoDeclaration
<1>6. ASSUME CloseScope PROVE NoDeclaration
  BY <1>6 DEF CloseScope, NoDeclaration
<1>7. ASSUME UNCHANGED vars PROVE NoDeclaration
  BY <1>7 DEF vars, NoDeclaration
<1> QED
  BY <1>1, <1>2, <1>3, <1>4, <1>5, <1>6, <1>7 DEF Next, Terminated

\* What a declaration does to the tables of symbols and declarations.
LEMMA DeclaresWhat ==
  ASSUME TypeOK, ScopesInv, NEW d, Declares(d)
  PROVE  /\ Bound(d) \in Symbol /\ Initialized(d, Bound(d)) \in Symbol
         /\ KeepsSymbols
         /\ DOMAIN symbols = SymbolId /\ SymbolId' = SymbolId \cup {Target(d)}
         /\ symbols'[Target(d)] = Initialized(d, Bound(d))
         /\ \A t \in SymbolId : t # Target(d) => symbols'[t] = symbols[t]
         /\ Occurrence = 1 .. Len(declared) /\ Len(declared) \in Nat
         /\ Occurrence' = Occurrence \cup {Len(declared) + 1} /\ Len(declared) + 1 \notin Occurrence
         /\ \A k \in Occurrence : declared'[k] = declared[k] /\ LinkIn(declared')[k] = LinkIn(declared)[k]
         /\ declared'[Len(declared) + 1] =
               [decl |-> d, path |-> Path, where |-> Top.kind, sym |-> Target(d)]
<1>1. DeclOK(d) /\ d \in NamedDecl /\ Bind(d, Initialized(d, Bound(d)))
  BY DEF Declares
<1>2. Bound(d) \in Symbol /\ Initialized(d, Bound(d)) \in Symbol
  BY <1>1, BoundType, InitializedType
<1>3. KeepsSymbols
  BY <1>1, BindKeeps
<1>4. symbols \in [SymbolId -> Symbol] /\ nextId \in Nat
  BY DEF TypeOK
<1>5. symbols' = Put(symbols, Target(d), Initialized(d, Bound(d)))
      /\ nextId' = IF IsNew(d) THEN nextId + 1 ELSE nextId
  BY <1>1 DEF Bind
<1>6. SymbolId' = SymbolId \cup {Target(d)}
  <2>1. /\ Target(d) \in 0 .. nextId /\ (IsNew(d) <=> Target(d) = nextId)
        /\ (~IsNew(d) => Target(d) \in SymbolId)
    BY <1>1, TargetType
  <2> QED
    BY <1>4, <1>5, <2>1 DEF SymbolId
<1>7. /\ symbols'[Target(d)] = Initialized(d, Bound(d))
      /\ \A t \in SymbolId : t # Target(d) => symbols'[t] = symbols[t]
  BY <1>4, <1>5 DEF Put
<1>8. /\ Len(declared') = Len(declared) + 1 /\ DOMAIN declared' = 1 .. Len(declared) + 1
      /\ \A k \in DOMAIN declared : declared'[k] = declared[k]
      /\ declared'[Len(declared) + 1] =
            [decl |-> d, path |-> Path, where |-> Top.kind, sym |-> Target(d)]
  BY <1>1, <1>2, BindDeclared
<1>9. Occurrence = 1 .. Len(declared) /\ Len(declared) \in Nat /\ DOMAIN declared = 1 .. Len(declared)
  BY DeclaredType DEF ScopesInv, Occurrence
<1>10. Occurrence' = Occurrence \cup {Len(declared) + 1} /\ Len(declared) + 1 \notin Occurrence
  BY <1>8, <1>9 DEF Occurrence
<1>11. \A k \in DOMAIN declared : LinkIn(declared')[k] = LinkIn(declared)[k]
  BY <1>8, <1>9, LinkStable
<1> QED
  BY <1>2, <1>3, <1>4, <1>6, <1>7, <1>8, <1>9, <1>10, <1>11 DEF Occurrence

-----------------------------------------------------------------------------
(* Symbols and what they denote                                            *)

\* The symbol of declaration k has what the declaration says.
Denotes(k) == /\ symbols[declared[k].sym].name = DeclAt(k).name
              /\ symbols[declared[k].sym].kind = DeclAt(k).kind
              /\ symbols[declared[k].sym].ty = TypeOf(DeclAt(k))
              /\ symbols[declared[k].sym].linkage = LinkIn(declared)[k]
              /\ symbols[declared[k].sym].sd = "static" <=> IsStatic(k)

\* Every symbol comes from a declaration.
Declared == \A s \in SymbolId : \E k \in Occurrence : declared[k].sym = s

LinkedNamed == \A n \in Name : linked[n] # NoSymbol =>
                  symbols[linked[n]].name = n /\ symbols[linked[n]].linkage # "none"

LinkedStatic == \A s \in SymbolId : symbols[s].linkage # "none" => symbols[s].sd = "static"

\* Without linkage a symbol is that of one declaration.
UnlinkedOnce == \A j, k \in Occurrence :
                   j # k /\ declared[j].sym = declared[k].sym => LinkIn(declared)[k] # "none"

EntitiesInv == /\ Declared /\ LinkedNamed /\ LinkedStatic
               /\ ~error => UnlinkedOnce /\ \A k \in Occurrence : Denotes(k)

\* determine_linkage gives a declaration the linkage the rule gives it.
LEMMA LinkageAgrees ==
  ASSUME TypeOK, ScopesInv, NEW d, Declares(d), \A k \in Occurrence : Denotes(k)
  PROVE  LinkIn(declared')[Len(declared) + 1] = Linkage(d)
<1> DEFINE n == Len(declared)
           new == [decl |-> d, path |-> Path, where |-> Top.kind, sym |-> Target(d)]
<1>1. /\ Occurrence = 1 .. n /\ n \in Nat
      /\ \A k \in Occurrence : declared'[k] = declared[k] /\ LinkIn(declared')[k] = LinkIn(declared)[k]
      /\ declared'[n + 1] = new
  BY DeclaresWhat
<1>2. Len(declared') = n + 1 /\ DOMAIN declared' = 1 .. n + 1 /\ d.name \in Name
  <2>1. d \in NamedDecl /\ DeclOK(d) /\ Bind(d, Initialized(d, Bound(d)))
    BY DEF Declares
  <2> QED
    BY <2>1, DeclaresWhat, BindDeclared DEF NamedDecl
<1>3. LinkIn(declared')[n + 1] = RuleIn(declared', LinkIn(declared'), n + 1)
  BY <1>1, <1>2, LinkDefined
<1>4. EnclosingIn(declared', n + 1) = VisibleOf(d.name)
  <2>1. (n + 1) - 1 = n
    BY <1>1
  <2>2. \A j \in Occurrence : declared[j].path \in Seq(Nat)
    BY DeclaredType DEF ScopesInv
  <2>3. \A j \in Occurrence : IsPrefix(declared[j].path, Path) <=> Open(declared[j].path, scope)
    BY <2>2, OpenPath
  <2> QED
    BY <1>1, <2>1, <2>3 DEF EnclosingIn, VisibleOf, DeclAt
<1>5. InheritedIn(declared', LinkIn(declared'), n + 1) = InheritedLinkage(d.name)
  <2>1. CASE VisibleOf(d.name) = {}
    BY <1>2, <1>4, <2>1, VisibleIsLast DEF InheritedIn, InheritedLinkage
  <2>2. CASE VisibleOf(d.name) # {}
    <3> DEFINE m == Max(VisibleOf(d.name))
    <3>1. m \in VisibleOf(d.name) /\ PriorVisible(d.name) = declared[m].sym
      BY <1>2, <2>2, VisibleIsLast
    <3>2. m \in Occurrence
      BY <3>1 DEF VisibleOf
    <3>3. declared[m].sym # NoSymbol
      <4>1. declared[m].sym \in SymbolId
        BY <3>2, DeclaredType DEF ScopesInv
      <4> QED
        BY <4>1 DEF SymbolId, NoSymbol
    <3>4. symbols[declared[m].sym].linkage = LinkIn(declared')[m]
      BY <1>1, <3>2 DEF Denotes
    <3> QED
      BY <1>4, <2>2, <3>1, <3>3, <3>4 DEF InheritedIn, InheritedLinkage
  <2> QED
    BY <2>1, <2>2
<1>6. Len(Path) = Len(scope)
  BY PathType
<1>7. RuleIn(declared', LinkIn(declared'), n + 1) = Linkage(d)
  <2>1. declared'[n + 1].decl = d /\ declared'[n + 1].path = Path
    BY <1>1
  <2>2. Len(declared'[n + 1].path) = 1 <=> AtFileScope
    BY <1>6, <2>1 DEF AtFileScope
  <2> HIDE DEF Path, n
  <2> QED
    BY <1>5, <2>1, <2>2 DEF RuleIn, Linkage
<1> QED
  BY <1>3, <1>7

\* What a declaration leaves unchanged in every symbol there was.
LEMMA Kept ==
  ASSUME KeepsSymbols, NEW t \in DOMAIN symbols
  PROVE  /\ t \in DOMAIN symbols' /\ symbols'[t].name = symbols[t].name
         /\ symbols'[t].kind = symbols[t].kind /\ symbols'[t].ty = symbols[t].ty
         /\ symbols'[t].linkage = symbols[t].linkage /\ symbols'[t].sd = symbols[t].sd
BY DEF KeepsSymbols, LaterState

\* An initialiser changes nothing about the entity.
LEMMA InitializedKeeps ==
  ASSUME NEW d, DeclOK(d), NEW s \in Symbol
  PROVE  /\ Initialized(d, s).name = s.name /\ Initialized(d, s).kind = s.kind
         /\ Initialized(d, s).ty = s.ty /\ Initialized(d, s).linkage = s.linkage
         /\ Initialized(d, s).sd = s.sd /\ Initialized(d, s).defined = s.defined
BY LaterInitialized DEF Initialized, Symbol

\* A declaration that is not refused and finds a symbol has linkage, and so
\* has the symbol, which has its name.
LEMMA FoundSymbol ==
  ASSUME TypeOK, ScopesInv, EntitiesInv, ~error, NEW d, Declares(d), ~error', ~IsNew(d)
  PROVE  /\ Target(d) \in SymbolId /\ Linkage(d) # "none"
         /\ ~Redeclared(d) /\ ~MergeError(d, symbols[Target(d)])
         /\ symbols[Target(d)].name = d.name
         /\ symbols[Target(d)].linkage = Linkage(d) /\ symbols[Target(d)].ty = TypeOf(d)
<1>1. /\ DeclOK(d) /\ d.name \in Name /\ ~BindError(d)
  BY DEF Declares, NamedDecl
<1>2. Target(d) \in SymbolId
  BY <1>1, TargetType
<1>3. ~Redeclared(d) /\ ~MergeError(d, symbols[Target(d)])
  BY <1>1 DEF BindError
<1>4. symbols[Target(d)].linkage = Linkage(d) /\ symbols[Target(d)].ty = TypeOf(d)
  BY <1>3 DEF MergeError
<1>5. CASE PriorCurrent(d.name) # NoSymbol
  <2> DEFINE l == Len(scope)
  <2>1. l \in DOMAIN scope /\ Target(d) = scope[l].bind[d.name] /\ scope[l].bind[d.name] # NoSymbol
    <3>1. l \in DOMAIN scope
      BY InnermostType
    <3> QED
      BY <1>5, <3>1 DEF Target, PriorCurrent, Top
  <2>2. LastBinds(scope, declared, l, d.name)
    BY <1>1, <2>1 DEF ScopesInv, ScopesOK, Latest
  <2>3. PICK k \in Occurrence : DeclAt(k).name = d.name /\ declared[k].sym = Target(d)
    BY <2>1, <2>2 DEF LastBinds, StandsIn, Occurrence, DeclAt
  <2>4. Denotes(k)
    BY DEF EntitiesInv
  <2> QED
    BY <1>2, <1>3, <1>4, <1>5, <2>3, <2>4 DEF Denotes, Redeclared
<1>6. CASE PriorCurrent(d.name) = NoSymbol
  <2>1. Linkage(d) # "none" /\ linked[d.name] # NoSymbol /\ Target(d) = linked[d.name]
    BY <1>6 DEF IsNew, Target
  <2> QED
    BY <1>1, <1>2, <1>3, <1>4, <2>1 DEF EntitiesInv, LinkedNamed
<1> QED
  BY <1>5, <1>6

\* Every declaration without an error gets a symbol that says what it says.
LEMMA BoundDenotes ==
  ASSUME TypeOK, ScopesInv, EntitiesInv, ~error, NEW d, Declares(d), ~error',
         NEW n, n = Len(declared) + 1
  PROVE  Denotes(n)'
<1> DEFINE t == Target(d)
           s == Initialized(d, Bound(d))
<1>1. /\ DeclOK(d) /\ Bound(d) \in Symbol /\ s \in Symbol /\ symbols'[t] = s
      /\ declared'[n] = [decl |-> d, path |-> Path, where |-> Top.kind, sym |-> t]
  BY DeclaresWhat DEF Declares
<1>2. /\ s.name = Bound(d).name /\ s.kind = Bound(d).kind /\ s.ty = Bound(d).ty
      /\ s.linkage = Bound(d).linkage /\ s.sd = Bound(d).sd
  BY <1>1, InitializedKeeps
<1>3. LinkIn(declared')[n] = Linkage(d)
  BY LinkageAgrees DEF EntitiesInv
<1>4. IsStatic(n)' <=> StorageDuration(d) = "static"
  <2>1. Len(Path) = Len(scope)
    BY PathType
  <2>2. declared'[n].decl = d /\ declared'[n].path = Path
    BY <1>1
  <2> HIDE DEF Path
  <2> QED
    BY <2>1, <2>2 DEF IsStatic, StorageDuration, DeclAt, InFile, AtFileScope
<1>5. /\ Bound(d).name = d.name /\ Bound(d).kind = d.kind /\ Bound(d).ty = TypeOf(d)
      /\ Bound(d).linkage = Linkage(d) /\ (Bound(d).sd = "static" <=> StorageDuration(d) = "static")
  <2>1. CASE IsNew(d)
    BY <2>1 DEF Bound, SymbolNew
  <2>2. CASE ~IsNew(d)
    <3>1. /\ t \in SymbolId /\ Linkage(d) # "none" /\ ~Redeclared(d)
          /\ symbols[t].name = d.name
          /\ symbols[t].linkage = Linkage(d) /\ symbols[t].ty = TypeOf(d)
      BY <2>2, FoundSymbol
    <3>2. symbols[t] \in Symbol
      BY <3>1 DEF TypeOK
    <3>3. Bound(d) = MergeRedeclaration(d, symbols[t])
      BY <2>2, <3>1 DEF Bound
    <3>4. /\ Bound(d).name = symbols[t].name /\ Bound(d).kind = symbols[t].kind
          /\ Bound(d).ty = symbols[t].ty /\ Bound(d).linkage = symbols[t].linkage
          /\ Bound(d).sd = symbols[t].sd
      BY <3>2, <3>3 DEF MergeRedeclaration, Symbol
    <3>5. symbols[t].kind = d.kind
      <4>1. PICK k \in Occurrence : declared[k].sym = t
        BY <3>1 DEF EntitiesInv, Declared
      <4>2. symbols[t].kind = DeclAt(k).kind /\ TypeOf(DeclAt(k)) = TypeOf(d)
        BY <3>1, <4>1 DEF EntitiesInv, Denotes
      <4>3. \A e : TypeOf(e)[1] = e.kind
        BY DEF TypeOf
      <4> QED
        BY <4>2, <4>3
    <3>6. symbols[t].sd = "static" /\ StorageDuration(d) = "static"
      <4>1. symbols[t].sd = "static"
        BY <3>1 DEF EntitiesInv, LinkedStatic
      <4>2. StorageDuration(d) = "static"
        BY <3>1 DEF Linkage, StorageDuration
      <4> QED
        BY <4>1, <4>2
    <3> QED
      BY <3>1, <3>4, <3>5, <3>6
  <2> QED
    BY <2>1, <2>2
<1>6. declared'[n].decl = d /\ declared'[n].sym = t
  BY <1>1
<1> HIDE DEF t, s
<1> QED
  BY <1>1, <1>2, <1>3, <1>4, <1>5, <1>6 DEF Denotes, DeclAt

\* Symbols keep saying what declarations say.
LEMMA NextEntities == TypeOK /\ ScopesInv /\ EntitiesInv /\ [Next]_vars => EntitiesInv'
<1> SUFFICES ASSUME TypeOK, ScopesInv, EntitiesInv, [Next]_vars PROVE EntitiesInv'
  OBVIOUS
<1>1. ASSUME NoDeclaration PROVE EntitiesInv'
  BY <1>1 DEF NoDeclaration, EntitiesInv, Declared, LinkedNamed, LinkedStatic, UnlinkedOnce, Denotes,
              SymbolId, Occurrence, DeclAt, IsStatic, InFile
<1>2. ASSUME FinishTentativeDeclarations PROVE EntitiesInv'
  <2>1. /\ UNCHANGED << nextId, linked, declared, error >> /\ DOMAIN symbols' = DOMAIN symbols
        /\ KeepsSymbols /\ DOMAIN symbols = SymbolId /\ linked \in [Name -> SymbolId \cup {NoSymbol}]
    BY <1>2, StepKeeps DEF FinishTentativeDeclarations, TypeOK
  <2>2. \A t \in SymbolId : /\ symbols'[t].name = symbols[t].name
                            /\ symbols'[t].kind = symbols[t].kind /\ symbols'[t].ty = symbols[t].ty
                            /\ symbols'[t].linkage = symbols[t].linkage /\ symbols'[t].sd = symbols[t].sd
    BY <2>1, Kept
  <2>3. \A k \in Occurrence : declared[k].sym \in SymbolId
    BY DeclaredType DEF ScopesInv
  <2>4. \A k \in Occurrence : Denotes(k) => Denotes(k)'
    BY <2>1, <2>2, <2>3 DEF Denotes, DeclAt, IsStatic, InFile
  <2> QED
    BY <2>1, <2>2, <2>4 DEF EntitiesInv, Declared, LinkedNamed, LinkedStatic, UnlinkedOnce, SymbolId, Occurrence
<1>3. ASSUME NEW d, Declares(d) PROVE EntitiesInv'
  <2> PICK n : n = Len(declared) + 1
    OBVIOUS
  <2> DEFINE t == Target(d)
  <2>1. /\ KeepsSymbols /\ DOMAIN symbols = SymbolId /\ SymbolId' = SymbolId \cup {t}
        /\ symbols'[t] = Initialized(d, Bound(d))
        /\ Occurrence' = Occurrence \cup {n} /\ n \notin Occurrence
        /\ \A k \in Occurrence : declared'[k] = declared[k] /\ LinkIn(declared')[k] = LinkIn(declared)[k]
        /\ declared'[n] = [decl |-> d, path |-> Path, where |-> Top.kind, sym |-> t]
    BY <1>3, DeclaresWhat
  <2>2. declared'[n].sym = t /\ declared'[n].decl = d
    BY <2>1
  <2>3. \A x \in SymbolId : /\ symbols'[x].name = symbols[x].name
                            /\ symbols'[x].kind = symbols[x].kind /\ symbols'[x].ty = symbols[x].ty
                            /\ symbols'[x].linkage = symbols[x].linkage /\ symbols'[x].sd = symbols[x].sd
    BY <2>1, Kept
  <2>4. \A k \in Occurrence : declared[k].sym \in SymbolId
    BY DeclaredType DEF ScopesInv
  <2>5. /\ d.name \in Name /\ DeclOK(d) /\ Bind(d, Initialized(d, Bound(d)))
        /\ linked \in [Name -> SymbolId \cup {NoSymbol}]
    BY <1>3 DEF Declares, NamedDecl, TypeOK
  <2>6. /\ IsNew(d) => /\ t = nextId /\ symbols'[nextId].name = d.name
                       /\ symbols'[nextId].linkage = Linkage(d)
                       /\ symbols'[nextId].sd = StorageDuration(d)
        /\ ~IsNew(d) => t \in SymbolId
    <3>1. CASE IsNew(d)
      <4>1. t = nextId /\ Bound(d) = SymbolNew(d) /\ Bound(d) \in Symbol
        BY <1>3, <3>1, DeclaresWhat DEF Bound, IsNew
      <4>2. /\ Initialized(d, Bound(d)).name = Bound(d).name
            /\ Initialized(d, Bound(d)).linkage = Bound(d).linkage
            /\ Initialized(d, Bound(d)).sd = Bound(d).sd
        BY <2>5, <4>1, InitializedKeeps
      <4> QED
        BY <2>1, <3>1, <4>1, <4>2 DEF SymbolNew
    <3>2. CASE ~IsNew(d)
      BY <2>5, <3>2, TargetType
    <3> QED
      BY <3>1, <3>2
  <2>7. Declared'
    BY <2>1, <2>2 DEF EntitiesInv, Declared
  <2>8. LinkedNamed'
    <3> SUFFICES ASSUME NEW m \in Name, linked'[m] # NoSymbol
                 PROVE  symbols'[linked'[m]].name = m /\ symbols'[linked'[m]].linkage # "none"
      BY DEF LinkedNamed
    <3>1. CASE IsNew(d) /\ Linkage(d) # "none" /\ m = d.name
      <4>1. linked'[m] = nextId
        BY <2>5, <3>1 DEF Bind
      <4> QED
        BY <2>6, <3>1, <4>1
    <3>2. CASE ~(IsNew(d) /\ Linkage(d) # "none" /\ m = d.name)
      <4>1. linked'[m] = linked[m]
        BY <2>5, <3>2 DEF Bind
      <4>2. linked[m] \in SymbolId
        BY <2>5, <4>1
      <4> QED
        BY <2>3, <4>1, <4>2 DEF EntitiesInv, LinkedNamed
    <3> QED
      BY <3>1, <3>2
  <2>9. LinkedStatic'
    <3> SUFFICES ASSUME NEW x \in SymbolId', symbols'[x].linkage # "none"
                 PROVE  symbols'[x].sd = "static"
      BY DEF LinkedStatic
    <3>1. CASE x \in SymbolId
      BY <2>3, <3>1 DEF EntitiesInv, LinkedStatic
    <3>2. CASE x \notin SymbolId
      <4>1. x = t /\ IsNew(d)
        BY <2>1, <2>6, <3>2
      <4>2. Linkage(d) # "none" => StorageDuration(d) = "static"
        BY DEF Linkage, StorageDuration
      <4> QED
        BY <2>6, <4>1, <4>2
    <3> QED
      BY <3>1, <3>2
  <2>10. ASSUME ~error' PROVE UnlinkedOnce' /\ \A k \in Occurrence' : Denotes(k)'
    <3>1. ~error
      BY <1>3, <2>10 DEF Declares
    <3>2. Denotes(n)'
      BY <1>3, <2>10, <3>1, BoundDenotes
    <3>3. ASSUME NEW k \in Occurrence PROVE Denotes(k)'
      <4>1. Denotes(k) /\ declared[k].sym \in SymbolId
        BY <2>4, <3>1 DEF EntitiesInv
      <4>2. declared'[k] = declared[k] /\ LinkIn(declared')[k] = LinkIn(declared)[k]
        BY <2>1
      <4> QED
        BY <2>3, <4>1, <4>2 DEF Denotes, DeclAt, IsStatic, InFile
    <3>4. ASSUME NEW j \in Occurrence, declared[j].sym = t
          PROVE  LinkIn(declared')[j] # "none" /\ LinkIn(declared')[n] # "none"
      <4>1. ~IsNew(d)
        <5>1. t \in SymbolId
          BY <2>4, <3>4
        <5> QED
          BY <2>6, <5>1 DEF SymbolId, TypeOK
      <4>2. Linkage(d) # "none" /\ symbols[t].linkage = Linkage(d)
        BY <1>3, <2>10, <3>1, <4>1, FoundSymbol
      <4>3. LinkIn(declared')[j] = Linkage(d)
        BY <2>1, <3>1, <3>4, <4>2 DEF EntitiesInv, Denotes
      <4>4. LinkIn(declared')[n] = Linkage(d)
        BY <1>3, <3>1, LinkageAgrees DEF EntitiesInv
      <4> QED
        BY <4>2, <4>3, <4>4
    <3>5. UnlinkedOnce'
      <4> SUFFICES ASSUME NEW j \in Occurrence', NEW k \in Occurrence',
                          j # k, declared'[j].sym = declared'[k].sym
                   PROVE  LinkIn(declared')[k] # "none"
        BY DEF UnlinkedOnce
      <4>1. CASE j \in Occurrence /\ k \in Occurrence
        BY <2>1, <3>1, <4>1 DEF EntitiesInv, UnlinkedOnce
      <4>2. CASE j = n /\ k \in Occurrence
        BY <2>1, <2>2, <3>4, <4>2
      <4>3. CASE k = n /\ j \in Occurrence
        BY <2>1, <2>2, <3>4, <4>3
      <4> QED
        BY <2>1, <4>1, <4>2, <4>3
    <3> QED
      BY <2>1, <3>2, <3>3, <3>5
  <2> QED
    BY <2>7, <2>8, <2>9, <2>10 DEF EntitiesInv
<1> QED
  BY <1>1, <1>2, <1>3, StepCases

\* Nothing is declared at first.
LEMMA InitEntities == Init => EntitiesInv
BY DEF Init, EntitiesInv, Declared, LinkedNamed, LinkedStatic, UnlinkedOnce, SymbolId, Occurrence, Nowhere

\* Two declarations have one symbol if and only if they denote one entity.
LEMMA EntitiesHaveSymbols ==
  ASSUME TypeOK, ScopesInv, LinkedOnce, EntitiesInv, ~error,
         NEW i \in Occurrence, NEW j \in Occurrence, i # j
  PROVE  declared[i].sym = declared[j].sym <=> SameEntity(i, j)
<1>1. Denotes(i) /\ Denotes(j) /\ UnlinkedOnce
  BY DEF EntitiesInv
<1>2. declared[i].sym \in DOMAIN symbols /\ declared[j].sym \in DOMAIN symbols
  BY DeclaredType DEF ScopesInv, TypeOK
<1>3. LinkageOf = LinkIn(declared)
  BY LinkageIs
<1>4. CASE declared[i].sym = declared[j].sym
  BY <1>1, <1>3, <1>4 DEF Denotes, UnlinkedOnce, SameEntity
<1>5. CASE SameEntity(i, j)
  <2>1. /\ symbols[declared[i].sym].linkage # "none" /\ symbols[declared[j].sym].linkage # "none"
        /\ symbols[declared[i].sym].name = symbols[declared[j].sym].name
    BY <1>1, <1>3, <1>5 DEF Denotes, SameEntity
  <2> QED
    BY <1>2, <1>5, <2>1 DEF LinkedOnce
<1> QED
  BY <1>4, <1>5

\* What holds of the symbols in every state.
SymbolsInv == TypeOK /\ LinkedOnce /\ ScopesInv /\ EntitiesInv

\* What holds of the symbols in a unit without errors, in every state.
LEMMA SymbolsHold == Spec => []SymbolsInv
<1>1. Spec => []ScopesInv
  BY InitScopes, NextScopes, TypeCorrect, PTL DEF Spec
<1>2. Spec => []EntitiesInv
  BY <1>1, InitEntities, NextEntities, TypeCorrect, PTL DEF Spec
<1> QED
  BY <1>1, <1>2, TypeCorrect, LinkedSymbolsUnique, PTL DEF SymbolsInv

\* In a valid translation unit two declarations get one symbol exactly when
\* they denote one entity, whatever scopes lie between them.
THEOREM EntitiesAreSymbols == Spec => []OneSymbolPerEntity
<1>1. SymbolsInv => OneSymbolPerEntity
  BY EntitiesHaveSymbols DEF SymbolsInv, OneSymbolPerEntity
<1> QED
  BY <1>1, SymbolsHold, PTL

-----------------------------------------------------------------------------
(* Functions that are defined                                              *)

\* A symbol is defined if one of its declarations has a body.
Defines(s) == symbols[s].defined <=> \E k \in Occurrence : declared[k].sym = s /\ DeclAt(k).body

DefinedInv == ~error => \A s \in SymbolId : Defines(s)

\* No symbol is defined at first.
LEMMA InitDefined == Init => DefinedInv
BY DEF Init, DefinedInv, SymbolId

\* A step keeps defined what has a body, and nothing else.
LEMMA NextDefined == SymbolsInv /\ DefinedInv /\ [Next]_vars => DefinedInv'
<1> SUFFICES ASSUME SymbolsInv, DefinedInv, [Next]_vars PROVE DefinedInv'
  OBVIOUS
<1> USE DEF SymbolsInv
<1>1. ASSUME NoDeclaration PROVE DefinedInv'
  BY <1>1 DEF NoDeclaration, DefinedInv, Defines, SymbolId, Occurrence, DeclAt
<1>2. ASSUME FinishTentativeDeclarations PROVE DefinedInv'
  <2>1. UNCHANGED << nextId, declared, error >>
    BY <1>2 DEF FinishTentativeDeclarations
  <2>2. ASSUME NEW s \in SymbolId PROVE symbols'[s].defined = symbols[s].defined
    <3>1. s \in DOMAIN symbols /\ symbols[s] \in Symbol
      BY DEF TypeOK
    <3>2. \A x \in Symbol : [x EXCEPT !.init = "constant", !.value = 0].defined = x.defined
      BY DEF Symbol
    <3> QED
      BY <1>2, <3>1, <3>2 DEF FinishTentativeDeclarations
  <2> QED
    BY <2>1, <2>2 DEF DefinedInv, Defines, SymbolId, Occurrence, DeclAt
<1>3. ASSUME NEW d, Declares(d), ~error', NEW s \in SymbolId' PROVE Defines(s)'
  <2> PICK n : n = Len(declared) + 1
    OBVIOUS
  <2> DEFINE t == Target(d)
  <2>1. /\ SymbolId' = SymbolId \cup {t} /\ Bound(d) \in Symbol
        /\ symbols'[t] = Initialized(d, Bound(d))
        /\ \A x \in SymbolId : x # t => symbols'[x] = symbols[x]
        /\ Occurrence' = Occurrence \cup {n} /\ n \notin Occurrence
        /\ \A k \in Occurrence : declared'[k] = declared[k]
        /\ declared'[n] = [decl |-> d, path |-> Path, where |-> Top.kind, sym |-> t]
    BY <1>3, DeclaresWhat
  <2>2. declared'[n].sym = t /\ declared'[n].decl = d
    BY <2>1
  <2>3. DeclOK(d) /\ ~error
    BY <1>3 DEF Declares
  <2>4. symbols'[t].defined = Bound(d).defined
    BY <2>1, <2>3, InitializedKeeps
  <2>5. CASE s # t
    <3>1. s \in SymbolId /\ Defines(s)
      BY <2>1, <2>3, <2>5 DEF DefinedInv
    <3> QED
      BY <2>1, <2>2, <2>5, <3>1 DEF Defines, DeclAt
  <2>6. CASE s = t /\ IsNew(d)
    <3>1. Bound(d).defined = d.body
      BY <2>6 DEF Bound, SymbolNew
    <3>2. \A k \in Occurrence : declared[k].sym # t
      <4>1. t = nextId /\ nextId \in Nat
        BY <2>6 DEF IsNew, TypeOK
      <4>2. \A k \in Occurrence : declared[k].sym \in SymbolId
        BY DeclaredType DEF ScopesInv
      <4> QED
        BY <4>1, <4>2 DEF SymbolId
    <3> QED
      BY <2>1, <2>2, <2>4, <2>6, <3>1, <3>2 DEF Defines, DeclAt
  <2>7. CASE s = t /\ ~IsNew(d)
    <3>1. t \in SymbolId /\ ~Redeclared(d)
      BY <1>3, <2>3, <2>7, FoundSymbol
    <3>2. symbols[t] \in Symbol /\ Defines(t)
      BY <2>3, <3>1 DEF TypeOK, DefinedInv
    <3>3. Bound(d).defined <=> symbols[t].defined \/ d.body
      BY <2>3, <2>7, <3>1, <3>2 DEF Bound, MergeRedeclaration, Symbol, DeclOK
    <3>4. symbols'[t].defined <=> symbols[t].defined \/ d.body
      BY <2>4, <3>3
    <3> QED
      BY <2>1, <2>2, <2>7, <3>2, <3>4 DEF Defines, DeclAt
  <2> QED
    BY <2>5, <2>6, <2>7
<1> QED
  BY <1>1, <1>2, <1>3, StepCases DEF DefinedInv

\* In a valid translation unit the symbol of a function is marked defined, and
\* its calls made direct, exactly if some declaration of it has a body.
THEOREM DefinedMeansBody == Spec => []DefinedHasBody
<1>1. Spec => []DefinedInv
  BY InitDefined, NextDefined, SymbolsHold, PTL DEF Spec
<1>2. SymbolsInv /\ DefinedInv => DefinedHasBody
  <2> SUFFICES ASSUME SymbolsInv, DefinedInv, ~error, NEW i \in Occurrence
               PROVE  symbols[declared[i].sym].defined
                        <=> \E j \in Occurrence : (j = i \/ SameEntity(i, j)) /\ DeclAt(j).body
    BY DEF DefinedHasBody
  <2>1. Defines(declared[i].sym)
    BY DeclaredType DEF DefinedInv, SymbolsInv, ScopesInv
  <2>2. \A j \in Occurrence : i # j => (declared[j].sym = declared[i].sym <=> SameEntity(i, j))
    BY EntitiesHaveSymbols DEF SymbolsInv
  <2> QED
    BY <2>1, <2>2 DEF Defines
<1> QED
  BY <1>1, <1>2, SymbolsHold, PTL

-----------------------------------------------------------------------------
(* Storage                                                                 *)

\* The parts of a declaration or of a named parameter.
LEMMA NamedDeclType ==
  ASSUME NEW d \in NamedDecl
  PROVE  /\ d.init \in Initializer /\ d.sc \in StorageClass /\ d.value \in Int
         /\ d.param => d.init = "none" /\ ~d.body
         /\ d.kind = "function" => d.init = "none"
         /\ d.base \in BaseType /\ d.kind \in {"object", "function"} /\ d.body \in BOOLEAN
<1>1. CASE d \in Decl
  BY <1>1, DeclAssumption
<1>2. CASE d \in ParamDecl
  BY <1>2 DEF ParamDecl, DeclOf, Initializer
<1> QED
  BY <1>1, <1>2 DEF NamedDecl

StaticObject(s) == symbols[s].sd = "static" /\ symbols[s].kind = "object"

Initializes(k, s) == declared[k].sym = s /\ DeclAt(k).init = "constant"

\* What a static object holds, by its declarations; a tentative definition
\* becomes zero at the end.
Stored(s) ==
    /\ \A k \in Occurrence : declared[k].sym = s =>
          /\ DeclAt(k).init \in {"none", "constant"}
          /\ DeclAt(k).sc # "extern" => symbols[s].init # "none"
    /\ \A k \in Occurrence : Initializes(k, s) =>
          /\ symbols[s].init = "constant"
          /\ symbols[s].value = ConstantConvert(DeclAt(k).value, DeclAt(k).base)
    /\ symbols[s].init = "constant" /\ (\A k \in Occurrence : ~Initializes(k, s)) =>
          phase = "done" /\ symbols[s].value = 0
    /\ symbols[s].init # "none" => \E k \in Occurrence : /\ declared[k].sym = s
                                                         /\ DeclAt(k).init = "constant" \/ DeclAt(k).sc # "extern"
    /\ phase = "done" => symbols[s].init # "tentative"

StoredInv == ~error => \A s \in SymbolId : StaticObject(s) => Stored(s)

\* What a declaration without an error does to the initialiser of a static.
LEMMA InitializerOf ==
  ASSUME TypeOK, ScopesInv, EntitiesInv, ~error, NEW d, Declares(d), ~error',
         symbols'[Target(d)].sd = "static", symbols'[Target(d)].kind = "object"
  PROVE  /\ d.init \in {"none", "constant"}
         /\ IsTentative(d) <=> d.init = "none" /\ d.sc # "extern"
         /\ d.init = "none" => symbols'[Target(d)] = Bound(d)
         /\ d.init = "constant" =>
               /\ Bound(d).init # "constant" /\ symbols'[Target(d)].init = "constant"
               /\ symbols'[Target(d)].value = ConstantConvert(d.value, d.base)
<1> PICK n : n = Len(declared) + 1
  OBVIOUS
<1> DEFINE t == Target(d)
<1>1. /\ symbols'[t] = Initialized(d, Bound(d)) /\ Bound(d) \in Symbol
      /\ declared'[n] = [decl |-> d, path |-> Path, where |-> Top.kind, sym |-> t]
  BY DeclaresWhat
<1>2. declared'[n].sym = t /\ declared'[n].decl = d /\ declared'[n].path = Path
  BY <1>1
<1>3. Denotes(n)'
  BY BoundDenotes
<1>4. d.kind = "object" /\ StorageDuration(d) = "static"
  <2>1. Len(Path) = Len(scope)
    BY PathType
  <2>2. d.kind = "object" /\ IsStatic(n)'
    BY <1>2, <1>3 DEF Denotes, DeclAt
  <2> HIDE DEF Path
  <2> QED
    BY <1>2, <2>1, <2>2 DEF IsStatic, StorageDuration, DeclAt, InFile, AtFileScope
<1>5. /\ d.init \in Initializer /\ (d.param => d.init = "none") /\ d \in NamedDecl
      /\ ~InitError(d, Bound(d)) /\ (~d.param => ~BadDeclaration(d))
  BY NamedDeclType DEF Declares
<1>6. d.init # "none" => d.base # "void"
  BY <1>4, <1>5 DEF BadDeclaration
<1>7. d.init \in {"none", "constant"}
  BY <1>4, <1>5, <1>6 DEF InitError, IsStaticInit, Initializer
<1>8. ASSUME d.init = "constant"
      PROVE  /\ Bound(d).init # "constant" /\ symbols'[t].init = "constant"
             /\ symbols'[t].value = ConstantConvert(d.value, d.base)
  <2>1. IsStaticInit(d)
    BY <1>4, <1>6, <1>8 DEF IsStaticInit
  <2>2. Bound(d).init # "constant"
    BY <1>5, <2>1 DEF InitError
  <2>3. symbols'[t] = [Bound(d) EXCEPT !.init = "constant", !.value = ConstantConvert(d.value, d.base)]
    BY <1>1, <1>8, <2>1, <2>2 DEF Initialized
  <2> QED
    BY <1>1, <2>2, <2>3 DEF Symbol
<1> QED
  BY <1>1, <1>4, <1>7, <1>8, Uninitialized DEF IsTentative

\* A step keeps what every symbol stores right.
LEMMA NextStored == SymbolsInv /\ StoredInv /\ [Next]_vars => StoredInv'
<1> SUFFICES ASSUME SymbolsInv, StoredInv, [Next]_vars PROVE StoredInv'
  OBVIOUS
<1> USE DEF SymbolsInv
<1>1. ASSUME NoDeclaration PROVE StoredInv'
  BY <1>1 DEF NoDeclaration, StoredInv, StaticObject, Stored, Initializes, SymbolId, Occurrence, DeclAt
<1>2. ASSUME FinishTentativeDeclarations, ~error', NEW s \in SymbolId', StaticObject(s)' PROVE Stored(s)'
  <2>1. UNCHANGED << nextId, declared, error >> /\ phase = "analyzing" /\ phase' = "done"
    BY <1>2 DEF FinishTentativeDeclarations
  <2>2. s \in SymbolId /\ s \in DOMAIN symbols /\ symbols[s] \in Symbol
    BY <1>2, <2>1 DEF SymbolId, TypeOK
  <2>3. symbols'[s] = IF InResult(s) /\ symbols[s].init = "tentative"
                      THEN [symbols[s] EXCEPT !.init = "constant", !.value = 0] ELSE symbols[s]
    BY <1>2, <2>2 DEF FinishTentativeDeclarations
  <2>4. \A x \in Symbol : /\ [x EXCEPT !.init = "constant", !.value = 0].sd = x.sd
                          /\ [x EXCEPT !.init = "constant", !.value = 0].kind = x.kind
                          /\ [x EXCEPT !.init = "constant", !.value = 0].init = "constant"
                          /\ [x EXCEPT !.init = "constant", !.value = 0].value = 0
    BY DEF Symbol
  <2>5. symbols[s].sd = "static" /\ symbols[s].kind = "object"
    BY <1>2, <2>2, <2>3, <2>4 DEF StaticObject
  <2>6. Stored(s)
    BY <1>2, <2>1, <2>2, <2>5 DEF StoredInv, StaticObject
  <2>7. \A k : Initializes(k, s)' <=> Initializes(k, s)
    BY <2>1 DEF Initializes, DeclAt
  <2>8. Occurrence' = Occurrence /\ \A k : DeclAt(k)' = DeclAt(k)
    BY <2>1 DEF Occurrence, DeclAt
  <2>9. CASE symbols[s].init = "tentative"
    <3>1. symbols'[s].init = "constant" /\ symbols'[s].value = 0
      BY <2>2, <2>3, <2>4, <2>5, <2>9 DEF InResult
    <3>2. \A k \in Occurrence : ~Initializes(k, s)
      BY <2>6, <2>9 DEF Stored
    <3>3. /\ \A k \in Occurrence : declared[k].sym = s => DeclAt(k).init \in {"none", "constant"}
          /\ \E k \in Occurrence : /\ declared[k].sym = s
                                   /\ DeclAt(k).init = "constant" \/ DeclAt(k).sc # "extern"
      BY <2>6, <2>9 DEF Stored
    <3> QED
      BY <2>1, <2>7, <2>8, <3>1, <3>2, <3>3 DEF Stored
  <2>10. CASE symbols[s].init # "tentative"
    <3>1. symbols'[s] = symbols[s]
      BY <2>3, <2>10
    <3> QED
      BY <2>1, <2>6, <2>7, <2>8, <2>10, <3>1 DEF Stored
  <2> QED
    BY <2>9, <2>10
<1>3. ASSUME NEW d, Declares(d), ~error', NEW s \in SymbolId', StaticObject(s)' PROVE Stored(s)'
  <2> PICK n : n = Len(declared) + 1
    OBVIOUS
  <2> PICK t : t = Target(d)
    OBVIOUS
  <2>1. /\ SymbolId' = SymbolId \cup {t} /\ Bound(d) \in Symbol
        /\ KeepsSymbols /\ DOMAIN symbols = SymbolId
        /\ \A x \in SymbolId : x # t => symbols'[x] = symbols[x]
        /\ Occurrence' = Occurrence \cup {n} /\ n \notin Occurrence
        /\ \A k \in Occurrence : declared'[k] = declared[k]
        /\ declared'[n] = [decl |-> d, path |-> Path, where |-> Top.kind, sym |-> t]
    BY <1>3, DeclaresWhat
  <2>2. declared'[n].sym = t /\ DeclAt(n)' = d
    BY <2>1 DEF DeclAt
  <2>3. DeclOK(d) /\ ~error /\ phase = "analyzing" /\ phase' = "analyzing"
    BY <1>3 DEF Declares
  <2>4. \A k \in Occurrence : DeclAt(k)' = DeclAt(k) /\ (Initializes(k, s)' <=> Initializes(k, s))
    BY <2>1 DEF DeclAt, Initializes
  <2>5. CASE s # t
    <3>1. s \in SymbolId /\ symbols'[s] = symbols[s]
      BY <2>1, <2>5
    <3>2. Stored(s)
      BY <1>3, <2>3, <3>1 DEF StoredInv, StaticObject
    <3>3. ~Initializes(n, s)' /\ declared'[n].sym # s
      BY <2>2, <2>5 DEF Initializes
    <3> QED
      BY <2>1, <2>3, <2>4, <3>1, <3>2, <3>3 DEF Stored
  <2>6. ASSUME s = t
        PROVE  /\ d.init \in {"none", "constant"}
               /\ IsTentative(d) <=> d.init = "none" /\ d.sc # "extern"
               /\ d.init = "none" => symbols'[t] = Bound(d)
               /\ d.init = "constant" =>
                     /\ Bound(d).init # "constant" /\ symbols'[t].init = "constant"
                     /\ symbols'[t].value = ConstantConvert(d.value, d.base)
               /\ Initializes(n, t)' <=> d.init = "constant"
    BY <1>3, <2>2, <2>3, <2>6, InitializerOf DEF StaticObject, Initializes
  <2>7. CASE s = t /\ IsNew(d)
    <3>1. Bound(d).init = IF IsTentative(d) THEN "tentative" ELSE "none"
      BY <2>7 DEF Bound, SymbolNew
    <3>2. \A k \in Occurrence : declared[k].sym # t
      <4>1. t = nextId /\ nextId \in Nat
        BY <2>7 DEF IsNew, TypeOK
      <4>2. \A k \in Occurrence : declared[k].sym \in SymbolId
        BY DeclaredType DEF ScopesInv
      <4> QED
        BY <4>1, <4>2 DEF SymbolId
    <3>3. \A k \in Occurrence' : declared'[k].sym = t => k = n
      BY <2>1, <3>2
    <3>4. \A k \in Occurrence' : Initializes(k, t)' => k = n
      BY <3>3 DEF Initializes
    <3>5. CASE d.init = "constant"
      BY <2>1, <2>2, <2>3, <2>6, <2>7, <3>3, <3>4, <3>5 DEF Stored
    <3>6. CASE d.init = "none"
      BY <2>1, <2>2, <2>3, <2>6, <2>7, <3>1, <3>3, <3>4, <3>6 DEF Stored
    <3> QED
      BY <2>6, <2>7, <3>5, <3>6
  <2>8. CASE s = t /\ ~IsNew(d)
    <3>1. t \in SymbolId /\ ~Redeclared(d)
      BY <1>3, <2>3, <2>8, FoundSymbol
    <3>2. symbols[t] \in Symbol /\ Stored(t)
      BY <1>3, <2>1, <2>3, <2>8, <3>1, Kept DEF TypeOK, StoredInv, StaticObject
    <3>3. /\ Bound(d).init = IF IsTentative(d) /\ symbols[t].init = "none" THEN "tentative"
                             ELSE symbols[t].init
          /\ Bound(d).value = symbols[t].value
      BY <2>8, <3>1, <3>2 DEF Bound, MergeRedeclaration, Symbol
    <3>4. \A k \in Occurrence : declared'[k].sym = declared[k].sym /\ (Initializes(k, t)' <=> Initializes(k, t))
      BY <2>1, <2>4, <2>8
    <3>5. CASE d.init = "constant"
      <4>1. \A k \in Occurrence : ~Initializes(k, t)
        <5>1. symbols[t].init # "constant"
          BY <2>6, <2>8, <3>3, <3>5
        <5> QED
          BY <3>2, <5>1 DEF Stored
      <4>2. \A k \in Occurrence' : Initializes(k, t)' => k = n
        BY <2>1, <3>4, <4>1
      <4>3. \A k \in Occurrence' : declared'[k].sym = t => DeclAt(k)'.init \in {"none", "constant"}
        BY <2>1, <2>2, <2>4, <3>2, <3>4, <3>5 DEF Stored
      <4> QED
        BY <2>1, <2>2, <2>3, <2>6, <2>8, <3>5, <4>2, <4>3 DEF Stored
    <3>6. CASE d.init = "none"
      <4>1. symbols'[t] = Bound(d) /\ ~Initializes(n, t)'
        BY <2>6, <2>8, <3>6
      <4>2. \A k \in Occurrence' : declared'[k].sym = t =>
               /\ DeclAt(k)'.init \in {"none", "constant"}
               /\ DeclAt(k)'.sc # "extern" => symbols'[t].init # "none"
        BY <2>1, <2>2, <2>4, <2>6, <2>8, <3>2, <3>3, <3>4, <3>6, <4>1 DEF Stored
      <4>3. \A k \in Occurrence' : Initializes(k, t)' =>
               /\ symbols'[t].init = "constant"
               /\ symbols'[t].value = ConstantConvert(DeclAt(k)'.value, DeclAt(k)'.base)
        BY <2>1, <2>4, <3>2, <3>3, <3>4, <4>1 DEF Stored
      <4>4. symbols'[t].init = "constant" => \E k \in Occurrence' : Initializes(k, t)'
        BY <2>1, <2>3, <3>2, <3>3, <3>4, <4>1 DEF Stored
      <4>5. symbols'[t].init # "none" => \E k \in Occurrence' :
               /\ declared'[k].sym = t
               /\ DeclAt(k)'.init = "constant" \/ DeclAt(k)'.sc # "extern"
        <5>1. CASE IsTentative(d)
          BY <2>1, <2>2, <2>6, <2>8, <5>1
        <5>2. CASE ~IsTentative(d)
          BY <2>1, <2>4, <3>2, <3>3, <3>4, <4>1, <5>2 DEF Stored
        <5> QED
          BY <5>1, <5>2
      <4> QED
        BY <2>3, <2>8, <4>2, <4>3, <4>4, <4>5 DEF Stored
    <3> QED
      BY <2>6, <2>8, <3>5, <3>6
  <2> QED
    BY <2>5, <2>7, <2>8
<1> QED
  BY <1>1, <1>2, <1>3, StepCases DEF StoredInv

\* Nothing is stored at first.
LEMMA InitStored == Init => StoredInv
BY DEF Init, StoredInv, SymbolId

\* Half of a modulus, and the remainder of a division.
LEMMA ModBounds ==
  ASSUME NEW m \in Nat \ {0}, NEW a \in Int
  PROVE  /\ m \div 2 \in Nat /\ 2 * (m \div 2) <= m /\ m <= 2 * (m \div 2) + 1
         /\ a % m \in 0 .. m - 1
         /\ a \div m \in Int /\ a = m * (a \div m) + (a % m)
OBVIOUS

\* A multiple of the modulus leaves nothing.
LEMMA ModOfMultiple ==
  ASSUME NEW m \in Nat \ {0}, NEW q \in Int
  PROVE  (m * q) % m = 0
OBVIOUS

\* constant_convert stores the value its type can hold.
LEMMA ConvertFits ==
  ASSUME NEW v \in Int, NEW d
  PROVE  Fits(v, d, ConstantConvert(v, d.base))
<1> DEFINE half == IntModulus \div 2
           r == (v + half) % IntModulus
           q == (v + half) \div IntModulus
<1>1. CASE d.base = "int"
  <2>1. /\ half \in Nat /\ 2 * half <= IntModulus /\ IntModulus <= 2 * half + 1
        /\ IntModulus \in Nat \ {0}
    BY ModBounds, IntModulusAssumption
  <2>2. v + half \in Int
    BY <2>1
  <2>3. r \in 0 .. IntModulus - 1 /\ q \in Int /\ v + half = IntModulus * q + r
    <3> HIDE DEF half
    <3> QED
      BY <2>1, <2>2, ModBounds
  <2>4. ConstantConvert(v, d.base) = r - half
    BY <1>1 DEF ConstantConvert
  <2> HIDE DEF r, q, half
  <2>5. (r - half) - v = IntModulus * (0 - q) /\ 0 - q \in Int
    <3>1. PICK y \in Int : y = IntModulus * q
      BY <2>1, <2>3
    <3>2. IntModulus * (0 - q) = 0 - y
      BY <2>1, <2>3, <3>1
    <3>3. v + half = y + r
      BY <2>3, <3>1
    <3> QED
      BY <2>1, <2>3, <3>1, <3>2, <3>3
  <2>6. ((r - half) - v) % IntModulus = 0
    BY <2>1, <2>5, ModOfMultiple
  <2>7. 2 * (r - half) \in -IntModulus .. IntModulus - 1
    BY <2>1, <2>3
  <2> QED
    BY <1>1, <2>4, <2>6, <2>7 DEF Fits
<1>2. CASE d.base # "int"
  BY <1>2 DEF Fits, ConstantConvert
<1> QED
  BY <1>1, <1>2

\* After the translation unit every static object has the storage and the
\* value its declarations ask for, whichever came first.
THEOREM StoresWhatIsDeclared == Spec => []StorageAsDeclared
<1>1. Spec => []StoredInv
  BY InitStored, NextStored, SymbolsHold, PTL DEF Spec
<1>2. SymbolsInv /\ StoredInv => StorageAsDeclared
  <2> SUFFICES ASSUME SymbolsInv, StoredInv, phase = "done", ~error, NEW i \in Occurrence,
                      DeclAt(i).kind = "object", IsStatic(i)
               PROVE  StorageOf(i)
    BY DEF StorageAsDeclared
  <2> DEFINE s == declared[i].sym
             Group == {j \in Occurrence : j = i \/ SameEntity(i, j)}
             Inits == {j \in Group : DeclAt(j).init = "constant"}
  <2>1. s \in SymbolId /\ symbols[s] \in Symbol /\ Denotes(i)
    BY DeclaredType DEF SymbolsInv, ScopesInv, EntitiesInv, TypeOK
  <2>2. InResult(s) /\ symbols[s].kind = "object" /\ Stored(s)
    BY <2>1 DEF Denotes, InResult, StoredInv, StaticObject
  <2>3. \A j \in Occurrence : j \in Group <=> declared[j].sym = s
    BY EntitiesHaveSymbols DEF SymbolsInv
  <2>4. \A j \in Group : j \in Occurrence
    OBVIOUS
  <2>5. symbols[s].init \in {"none", "constant"}
    BY <2>1, <2>2 DEF Stored, Symbol
  <2>6. StorageOf(i) <=>
           IF Inits # {}
           THEN HasStorage(s) /\ \A j \in Inits : Fits(DeclAt(j).value, DeclAt(j), symbols[s].value)
           ELSE IF \E j \in Group : DeclAt(j).sc # "extern"
                THEN HasStorage(s) /\ symbols[s].value = 0
                ELSE ~HasStorage(s)
    BY DEF StorageOf
  <2> HIDE DEF s, Group
  <2>7. HasStorage(s) <=> symbols[s].init = "constant"
    BY <2>2 DEF HasStorage
  <2>8. CASE Inits # {}
    <3>1. ASSUME NEW j \in Inits
          PROVE  HasStorage(s) /\ Fits(DeclAt(j).value, DeclAt(j), symbols[s].value)
      <4>1. j \in Occurrence /\ Initializes(j, s)
        BY <2>3, <2>4 DEF Initializes
      <4>2. /\ symbols[s].init = "constant"
            /\ symbols[s].value = ConstantConvert(DeclAt(j).value, DeclAt(j).base)
        BY <2>2, <4>1 DEF Stored
      <4>3. DeclAt(j).value \in Int
        BY <4>1, DeclaredType, NamedDeclType DEF SymbolsInv, ScopesInv
      <4> QED
        BY <2>7, <4>2, <4>3, ConvertFits
    <3> QED
      BY <2>6, <2>8, <3>1
  <2>9. CASE Inits = {}
    <3>1. \A j \in Occurrence : ~Initializes(j, s)
      BY <2>3, <2>9 DEF Initializes
    <3>2. CASE \E j \in Group : DeclAt(j).sc # "extern"
      <4>1. symbols[s].init # "none"
        BY <2>2, <2>3, <2>4, <3>2 DEF Stored
      <4>2. symbols[s].init = "constant" /\ symbols[s].value = 0
        BY <2>2, <2>5, <3>1, <4>1 DEF Stored
      <4> QED
        BY <2>6, <2>7, <2>9, <3>2, <4>2
    <3>3. CASE ~ \E j \in Group : DeclAt(j).sc # "extern"
      <4>1. symbols[s].init = "none"
        BY <2>2, <2>3, <3>1, <3>3 DEF Stored, Initializes
      <4> QED
        BY <2>6, <2>7, <2>9, <3>3, <4>1
    <3> QED
      BY <3>2, <3>3
  <2> QED
    BY <2>8, <2>9
<1> QED
  BY <1>1, <1>2, SymbolsHold, PTL

-----------------------------------------------------------------------------
(* Diagnostics. The constraints again, of a declaration as it is listed    *)

NamedOf(ps) == {k \in DOMAIN ps : ps[k].name # Anonymous}

BreaksSpecifier(x) ==
    /\ ~x.decl.param
    /\ \/ Len(x.path) = 1 /\ x.decl.sc \in {"auto", "register"}
       \/ x.where = "for" /\ (x.decl.kind = "function" \/ x.decl.sc \in {"static", "extern"})
       \/ x.decl.kind = "object" /\ x.decl.base = "void"
       \/ x.decl.kind = "function" /\ Len(x.path) # 1 /\ x.decl.sc \in {"auto", "register", "static"}

BreaksParameter(d) ==
    \/ \E k \in DOMAIN d.params : \/ d.params[k].base = "void" \/ d.params[k].kind = "function"
                                  \/ d.params[k].sc \in {"auto", "static", "extern"}
    \/ Cardinality({d.params[k].name : k \in NamedOf(d.params)}) < Cardinality(NamedOf(d.params))
    \/ d.body /\ NamedOf(d.params) # DOMAIN d.params

BreaksInitializer(x) ==
    \/ x.decl.init = "invalid"
    \/ x.decl.init # "none" /\ x.decl.sc = "extern" /\ Len(x.path) # 1
    \/ /\ x.decl.init = "runtime" /\ x.decl.base # "void"
       /\ x.decl.kind = "function" \/ Len(x.path) = 1 \/ x.decl.sc \in {"static", "extern"}

Breaks(x) == BreaksSpecifier(x) \/ BreaksParameter(x.decl) \/ BreaksInitializer(x)

\* Declarations x and y of one identifier, of linkage a and b, exclude each other.
Conflict(x, y, a, b) ==
    /\ x.decl.name = y.decl.name
    /\ \/ x.path = y.path /\ (a = "none" \/ b = "none")
       \/ /\ a # "none" /\ b # "none"
          /\ \/ a # b
             \/ TypeOf(x.decl) # TypeOf(y.decl)
             \/ x.decl.body /\ y.decl.body
             \/ x.decl.init # "none" /\ y.decl.init # "none"

IllFormedIn(ds) ==
    \/ \E i \in DOMAIN ds : Breaks(ds[i])
    \/ \E i, j \in DOMAIN ds : i < j /\ Conflict(ds[i], ds[j], LinkIn(ds)[i], LinkIn(ds)[j])

\* They are the constraints of module DeclarationRules.
LEMMA IllFormedIs == IllFormed <=> IllFormedIn(declared)
<1>1. ASSUME NEW i \in Occurrence
      PROVE  Breaks(declared[i]) <=> \/ SpecifierViolation(i) \/ ParameterViolation(i)
                                     \/ InitializerViolation(i)
  <2>1. SpecifierViolation(i) <=> BreaksSpecifier(declared[i])
    BY DEF SpecifierViolation, BreaksSpecifier, DeclAt, InFile
  <2>2. ParameterViolation(i) <=> BreaksParameter(declared[i].decl)
    BY DEF ParameterViolation, BreaksParameter, NamedOf, DeclAt
  <2>3. InitializerViolation(i) <=> BreaksInitializer(declared[i])
    BY DEF InitializerViolation, BreaksInitializer, DeclAt, InFile, IsStatic
  <2> QED
    BY <2>1, <2>2, <2>3 DEF Breaks
<1>2. ASSUME NEW i \in Occurrence, NEW j \in Occurrence
      PROVE  Conflict(declared[i], declared[j], LinkIn(declared)[i], LinkIn(declared)[j])
                <=> Clash(i, j) \/ Disagree(i, j)
  BY LinkageIs DEF Conflict, Clash, Disagree, SameEntity, DeclAt
<1> QED
  BY <1>1, <1>2 DEF IllFormed, IllFormedIn, Occurrence

\* One declaration more: what it breaks by itself and with those before it.
LEMMA OneMoreIllFormed ==
  ASSUME NEW ds, NEW es, NEW n, n = Len(ds) + 1, Len(ds) \in Nat, DOMAIN ds = 1 .. Len(ds),
         Len(es) = Len(ds) + 1, DOMAIN es = 1 .. Len(ds) + 1, \A k \in DOMAIN ds : es[k] = ds[k]
  PROVE  IllFormedIn(es) <=> \/ IllFormedIn(ds) \/ Breaks(es[n])
                             \/ \E k \in DOMAIN ds : Conflict(ds[k], es[n], LinkIn(ds)[k], LinkIn(es)[n])
<1>1. \A i \in DOMAIN ds : LinkIn(es)[i] = LinkIn(ds)[i]
  BY LinkStable
<1>2. /\ DOMAIN es = DOMAIN ds \cup {n} /\ n \notin DOMAIN ds
      /\ \A i \in DOMAIN ds : i < n /\ ~(n < i)
      /\ ~(n < n)
  OBVIOUS
<1>3. (\E i \in DOMAIN es : Breaks(es[i])) <=> (\E i \in DOMAIN ds : Breaks(ds[i])) \/ Breaks(es[n])
  BY <1>2
<1> DEFINE C(i, j) == Conflict(es[i], es[j], LinkIn(es)[i], LinkIn(es)[j])
<1>4. \A i, j \in DOMAIN ds : C(i, j) <=> Conflict(ds[i], ds[j], LinkIn(ds)[i], LinkIn(ds)[j])
  BY <1>1
<1>5. \A i \in DOMAIN ds : C(i, n) <=> Conflict(ds[i], es[n], LinkIn(ds)[i], LinkIn(es)[n])
  BY <1>1
<1>6. (\E i, j \in DOMAIN es : i < j /\ C(i, j)) <=>
         (\E i, j \in DOMAIN ds : i < j /\ C(i, j)) \/ (\E i \in DOMAIN ds : C(i, n))
  <2> HIDE DEF C
  <2> QED
    BY <1>2
<1> HIDE DEF C
<1>7. IllFormedIn(es) <=> \/ \E i \in DOMAIN es : Breaks(es[i])
                          \/ \E i, j \in DOMAIN es : i < j /\ C(i, j)
  BY DEF IllFormedIn, C
<1>8. IllFormedIn(ds) <=> \/ \E i \in DOMAIN ds : Breaks(ds[i])
                          \/ \E i, j \in DOMAIN ds : i < j /\ C(i, j)
  BY <1>4 DEF IllFormedIn
<1> QED
  BY <1>3, <1>5, <1>6, <1>7, <1>8

-----------------------------------------------------------------------------
(* A declaration by itself                                                 *)

\* Fewer names than named parameters: two of these have one name.
LEMMA DuplicateNames ==
  ASSUME NEW ps \in Seq(ParamDecl)
  PROVE  Cardinality({ps[k].name : k \in NamedOf(ps)}) < Cardinality(NamedOf(ps))
            <=> \E i, j \in DOMAIN ps : i # j /\ ps[i].name = ps[j].name /\ ps[i].name # Anonymous
<1> DEFINE S == NamedOf(ps)
           T == {ps[k].name : k \in S}
           f == [k \in S |-> ps[k].name]
<1>1. IsFiniteSet(S)
  <2>1. S \subseteq 1 .. Len(ps) /\ Len(ps) \in Nat
    BY DEF NamedOf
  <2>2. IsFiniteSet(1 .. Len(ps))
    BY <2>1, FS_Interval
  <2> QED
    BY <2>1, <2>2, FS_Subset
<1>2. f \in Surjection(S, T)
  BY DEF Surjection
<1>3. f \in Injection(S, T) <=> ~ \E i, j \in S : i # j /\ ps[i].name = ps[j].name
  BY DEF Injection, IsInjective
<1> HIDE DEF S, T, f
<1>4. /\ IsFiniteSet(T) /\ Cardinality(T) <= Cardinality(S)
      /\ Cardinality(T) = Cardinality(S) <=> f \in Injection(S, T)
  BY <1>1, <1>2, FS_Surjection
<1>5. Cardinality(T) \in Nat /\ Cardinality(S) \in Nat
  BY <1>1, <1>4, FS_CardinalityType
<1>6. Cardinality(T) < Cardinality(S) <=> \E i, j \in S : i # j /\ ps[i].name = ps[j].name
  BY <1>3, <1>4, <1>5
<1>7. (\E i, j \in S : i # j /\ ps[i].name = ps[j].name)
         <=> \E i, j \in DOMAIN ps : i # j /\ ps[i].name = ps[j].name /\ ps[i].name # Anonymous
  BY DEF S, NamedOf
<1> QED
  BY <1>6, <1>7 DEF S, T

\* Only a function has parameters or a body.
LEMMA OnlyFunctions ==
  ASSUME NEW d \in NamedDecl, d.kind = "object" \/ d.param
  PROVE  d.params = << >> /\ ~d.body
<1>1. CASE d \in Decl
  BY <1>1, DeclAssumption
<1>2. CASE d \in ParamDecl
  BY <1>2 DEF ParamDecl, DeclOf
<1> QED
  BY <1>1, <1>2 DEF NamedDecl

\* What is wrong with the initialiser of a declaration by itself.
BadInitializer(d) ==
    \/ d.init = "invalid"
    \/ d.init = "runtime" /\ d.base # "void" /\ StorageDuration(d) = "static"

\* Parameters that break a constraint whether the function has a body or not.
LEMMA BadParamsAre ==
  ASSUME NEW d, d.params \in Seq(ParamDecl)
  PROVE  BreaksParameter(d) <=> BadParams(d) \/ (d.body /\ NamedOf(d.params) # DOMAIN d.params)
<1>1. \A k \in DOMAIN d.params :
         /\ d.params[k].kind \in {"object", "function"} /\ d.params[k].sc \in StorageClass
  <2>1. \A k \in DOMAIN d.params : d.params[k] \in ParamDecl
    OBVIOUS
  <2>2. \A p \in ParamDecl : p.kind \in {"object", "function"} /\ p.sc \in StorageClass
    BY DEF ParamDecl, DeclOf
  <2> QED
    BY <2>1, <2>2
<1>2. \A k \in DOMAIN d.params :
         (d.params[k].kind # "object" <=> d.params[k].kind = "function")
         /\ (d.params[k].sc \notin {"none", "register"} <=> d.params[k].sc \in {"auto", "static", "extern"})
  BY <1>1 DEF StorageClass
<1>3. BadParams(d) <=>
         \/ \E k \in DOMAIN d.params : \/ d.params[k].base = "void" \/ d.params[k].kind = "function"
                                       \/ d.params[k].sc \in {"auto", "static", "extern"}
         \/ \E i, j \in DOMAIN d.params :
               i # j /\ d.params[i].name = d.params[j].name /\ d.params[i].name # Anonymous
  BY <1>2 DEF BadParams
<1> QED
  BY <1>3, DuplicateNames DEF BreaksParameter

\* sema.c sees everything that is wrong with a declaration by itself, except
\* that a parameter of a definition has no name: this it sees on binding it.
LEMMA BreaksWhat ==
  ASSUME TypeOK, NEW d \in NamedDecl, DeclOK(d), NEW x,
         x.decl = d, x.path = Path, x.where = Top.kind
  PROVE  Breaks(x) <=> \/ ~d.param /\ (BadDeclaration(d) \/ BadForInit(d))
                       \/ BadInitializer(d)
                       \/ d.body /\ NamedOf(d.params) # DOMAIN d.params
<1>1. Len(x.path) = 1 <=> AtFileScope
  BY PathType DEF AtFileScope
<1>2. /\ d.kind \in {"object", "function"} /\ d.sc \in StorageClass
      /\ d.init \in Initializer /\ (d.param => d.init = "none") /\ (d.kind = "function" => d.init = "none")
      /\ d.params \in Seq(ParamDecl) /\ d.body \in BOOLEAN
  BY NamedDeclType DEF DeclOK
<1>3. BreaksSpecifier(x) <=>
        /\ ~d.param
        /\ \/ AtFileScope /\ d.sc \in {"auto", "register"}
           \/ BadForInit(d)
           \/ d.kind = "object" /\ d.base = "void"
           \/ d.kind = "function" /\ ~AtFileScope /\ d.sc \notin {"none", "extern"}
  BY <1>1, <1>2 DEF BreaksSpecifier, BadForInit, StorageClass
<1>4. BreaksInitializer(x) <=>
        \/ BadInitializer(d)
        \/ ~d.param /\ d.kind = "object" /\ ~AtFileScope /\ d.sc = "extern" /\ d.init # "none"
  BY <1>1, <1>2 DEF BreaksInitializer, BadInitializer, StorageDuration
<1>5. BreaksParameter(d) <=>
        \/ ~d.param /\ d.kind = "function" /\ BadParams(d)
        \/ d.body /\ NamedOf(d.params) # DOMAIN d.params
  <2>1. BreaksParameter(d) <=> BadParams(d) \/ (d.body /\ NamedOf(d.params) # DOMAIN d.params)
    BY <1>2, BadParamsAre
  <2>2. BadParams(d) => ~d.param /\ d.kind = "function"
    BY <1>2, OnlyFunctions DEF BadParams
  <2> QED
    BY <2>1, <2>2
<1>6. d.kind = "function" /\ d.body /\ d.sc \notin {"none", "extern", "static"} =>
         \/ AtFileScope /\ d.sc \in {"auto", "register"}
         \/ ~AtFileScope /\ d.sc \notin {"none", "extern"}
  BY <1>2 DEF StorageClass
<1>7. BadDeclaration(d) <=>
         \/ AtFileScope /\ d.sc \in {"auto", "register"}
         \/ d.kind = "function" /\ BadParams(d)
         \/ d.kind = "function" /\ ~AtFileScope /\ d.sc \notin {"none", "extern"}
         \/ d.kind = "object" /\ d.base = "void"
         \/ d.kind = "object" /\ ~AtFileScope /\ d.sc = "extern" /\ d.init # "none"
  BY <1>6 DEF BadDeclaration
<1> QED
  BY <1>3, <1>4, <1>5, <1>7 DEF Breaks

-----------------------------------------------------------------------------
(* A declaration and those before it                                       *)

\* Declaration k is one of name m in the innermost scope.
Here(k, m) == DeclAt(k).name = m /\ declared[k].path = Path

LEMMA SameSequence ==
  ASSUME NEW p \in Seq(Nat), NEW q \in Seq(Nat)
  PROVE  p = q <=> Len(p) = Len(q) /\ \A j \in 1 .. Len(q) : p[j] = q[j]
OBVIOUS

\* The innermost scope binds a name exactly when it has declarations of it.
LEMMA HereDeclared ==
  ASSUME TypeOK, ScopesInv, NEW m \in Name
  PROVE  /\ PriorCurrent(m) = NoSymbol => \A k \in Occurrence : ~Here(k, m)
         /\ PriorCurrent(m) # NoSymbol =>
               \E k \in Occurrence : /\ Here(k, m) /\ declared[k].sym = PriorCurrent(m)
                                     /\ \A l \in Occurrence : Here(l, m) => l <= k
<1> DEFINE i == Len(scope)
<1>1. i \in DOMAIN scope
  BY InnermostType
<1>2. PriorCurrent(m) = scope[i].bind[m]
  BY DEF PriorCurrent, Top
<1>3. LastBinds(scope, declared, i, m)
  BY <1>1 DEF ScopesInv, ScopesOK, Latest
<1>4. ASSUME NEW k \in Occurrence PROVE Here(k, m) <=> StandsIn(scope, declared, k, i, m)
  <2>1. declared[k].path \in Seq(Nat)
    BY DeclaredType DEF ScopesInv
  <2>2. Path \in Seq(Nat) /\ Len(Path) = i /\ \A j \in 1 .. i : Path[j] = scope[j].id
    BY PathType
  <2> HIDE DEF Path
  <2>3. declared[k].path = Path <=> Len(declared[k].path) = i /\ \A j \in 1 .. i : declared[k].path[j] = Path[j]
    BY <2>1, <2>2, SameSequence
  <2>4. i <= i
    BY PathType
  <2>5. declared[k].path = Path <=> Len(declared[k].path) = i /\ Open(declared[k].path, scope)
    BY <2>2, <2>3, <2>4 DEF Open
  <2> QED
    BY <2>5 DEF Here, StandsIn, DeclAt
<1> HIDE DEF i
<1> QED
  BY <1>2, <1>3, <1>4 DEF LastBinds, Occurrence

\* A declaration that finds a symbol finds that of its name.
LEMMA FoundDeclaration ==
  ASSUME SymbolsInv, ~error, NEW d, Declares(d), ~IsNew(d)
  PROVE  /\ Target(d) \in SymbolId /\ symbols[Target(d)].name = d.name
         /\ ~Redeclared(d) => Linkage(d) # "none" /\ symbols[Target(d)].linkage # "none"
<1> USE DEF SymbolsInv
<1>1. DeclOK(d) /\ d.name \in Name
  BY DEF Declares, NamedDecl
<1>2. Target(d) \in SymbolId
  BY <1>1, TargetType
<1>3. CASE PriorCurrent(d.name) = NoSymbol
  <2>1. Linkage(d) # "none" /\ linked[d.name] # NoSymbol /\ Target(d) = linked[d.name]
    BY <1>3 DEF IsNew, Target
  <2> QED
    BY <1>1, <1>2, <2>1 DEF EntitiesInv, LinkedNamed
<1>4. CASE PriorCurrent(d.name) # NoSymbol
  <2>1. Target(d) = PriorCurrent(d.name)
    BY <1>4 DEF Target
  <2>2. PICK k \in Occurrence : Here(k, d.name) /\ declared[k].sym = PriorCurrent(d.name)
    BY <1>1, <1>4, HereDeclared
  <2>3. symbols[Target(d)].name = d.name
    BY <2>1, <2>2 DEF EntitiesInv, Denotes, Here
  <2> QED
    BY <1>2, <1>4, <2>1, <2>3 DEF Redeclared
<1> QED
  BY <1>3, <1>4

\* A redeclaration is refused for a conflict with an earlier declaration.
LEMMA BindErrorConflicts ==
  ASSUME SymbolsInv, DefinedInv, ~error, NEW d, Declares(d), BindError(d),
         NEW x, x.decl = d, x.path = Path
  PROVE  \E k \in Occurrence : Conflict(declared[k], x, LinkIn(declared)[k], Linkage(d))
<1> USE DEF SymbolsInv
<1> DEFINE t == Target(d)
<1>1. ~IsNew(d) /\ d.name \in Name
  BY DEF BindError, Declares, NamedDecl
<1>2. /\ t \in SymbolId /\ symbols[t].name = d.name
      /\ ~Redeclared(d) => Linkage(d) # "none" /\ symbols[t].linkage # "none"
  BY <1>1, FoundDeclaration
<1>3. \A k \in Occurrence : Denotes(k)
  BY DEF EntitiesInv
<1>4. CASE Redeclared(d)
  <2>1. PICK k \in Occurrence : Here(k, d.name) /\ declared[k].sym = PriorCurrent(d.name)
    BY <1>1, <1>4, HereDeclared DEF Redeclared
  <2>2. LinkIn(declared)[k] = "none" \/ Linkage(d) = "none"
    BY <1>3, <1>4, <2>1 DEF Redeclared, Denotes
  <2> HIDE DEF Path
  <2> QED
    BY <2>1, <2>2 DEF Conflict, Here, DeclAt
<1>5. CASE ~Redeclared(d)
  <2>1. MergeError(d, symbols[t])
    BY <1>5 DEF BindError
  <2>2. \E k \in Occurrence : declared[k].sym = t /\ (symbols[t].defined => DeclAt(k).body)
    <3>1. CASE symbols[t].defined
      BY <1>2, <3>1 DEF DefinedInv, Defines
    <3>2. CASE ~symbols[t].defined
      BY <1>2, <3>2 DEF EntitiesInv, Declared
    <3> QED
      BY <3>1, <3>2
  <2>3. PICK k \in Occurrence : declared[k].sym = t /\ (symbols[t].defined => DeclAt(k).body)
    BY <2>2
  <2>4. /\ DeclAt(k).name = d.name /\ symbols[t].ty = TypeOf(DeclAt(k))
        /\ symbols[t].linkage = LinkIn(declared)[k]
    BY <1>2, <1>3, <2>3 DEF Denotes
  <2>5. \/ LinkIn(declared)[k] # Linkage(d) \/ TypeOf(DeclAt(k)) # TypeOf(d)
        \/ DeclAt(k).body /\ d.body
    BY <2>1, <2>3, <2>4 DEF MergeError
  <2> QED
    BY <1>2, <1>5, <2>4, <2>5 DEF Conflict, DeclAt
<1> QED
  BY <1>4, <1>5

\* A symbol with linkage that a declaration agrees with is of its kind, and static.
LEMMA AgreedSymbol ==
  ASSUME SymbolsInv, ~error, NEW t \in SymbolId, symbols[t].linkage # "none",
         NEW d, symbols[t].ty = TypeOf(d)
  PROVE  symbols[t].kind = d.kind /\ symbols[t].sd = "static" /\ symbols[t] \in Symbol
<1>1. PICK k \in Occurrence : declared[k].sym = t
  BY DEF SymbolsInv, EntitiesInv, Declared
<1>2. symbols[t].kind = DeclAt(k).kind /\ TypeOf(DeclAt(k)) = TypeOf(d)
  BY <1>1 DEF SymbolsInv, EntitiesInv, Denotes
<1>3. \A e : TypeOf(e)[1] = e.kind
  BY DEF TypeOf
<1>4. symbols[t].sd = "static" /\ symbols[t] \in Symbol
  BY DEF SymbolsInv, EntitiesInv, LinkedStatic, TypeOK
<1> QED
  BY <1>2, <1>3, <1>4

\* A second initialiser is refused for a conflict with the first.
LEMMA ReinitializingConflicts ==
  ASSUME SymbolsInv, StoredInv, ~error, NEW d, Declares(d), ~BindError(d),
         IsStaticInit(d), Bound(d).init = "constant", NEW x, x.decl = d
  PROVE  \E k \in Occurrence : Conflict(declared[k], x, LinkIn(declared)[k], Linkage(d))
<1> DEFINE t == Target(d)
<1>1. d \in NamedDecl /\ d.init \in {"constant", "runtime"} /\ d.kind = "object" /\ ~IsTentative(d)
  <2>1. d \in NamedDecl /\ DeclOK(d)
    BY DEF Declares
  <2> QED
    BY <2>1, NamedDeclType DEF IsStaticInit, IsTentative
<1>2. ~IsNew(d)
  BY <1>1 DEF Bound, SymbolNew
<1>3. ~Redeclared(d) /\ symbols[t].linkage = Linkage(d) /\ symbols[t].ty = TypeOf(d)
  BY <1>2 DEF BindError, MergeError
<1>4. t \in SymbolId /\ symbols[t].name = d.name /\ Linkage(d) # "none" /\ symbols[t].linkage # "none"
  BY <1>2, <1>3, FoundDeclaration
<1>5. symbols[t] \in Symbol /\ StaticObject(t)
  BY <1>1, <1>3, <1>4, AgreedSymbol DEF StaticObject
<1>6. symbols[t].init = "constant"
  BY <1>1, <1>2, <1>3, <1>5 DEF Bound, MergeRedeclaration, Symbol
<1>7. Stored(t) /\ phase = "analyzing"
  BY <1>4, <1>5 DEF StoredInv, Declares
<1>8. PICK k \in Occurrence : Initializes(k, t)
  BY <1>6, <1>7 DEF Stored
<1>9. declared[k].decl.name = d.name /\ LinkIn(declared)[k] = Linkage(d)
  BY <1>3, <1>4, <1>8 DEF SymbolsInv, EntitiesInv, Denotes, Initializes, DeclAt
<1> QED
  BY <1>1, <1>4, <1>8, <1>9 DEF Conflict, Initializes, DeclAt

\* A declaration that is not refused conflicts with none of those before it.
LEMMA AcceptedWithoutConflict ==
  ASSUME SymbolsInv, DefinedInv, StoredInv, ~error, ~IllFormedIn(declared),
         NEW d, Declares(d), ~BindError(d), ~InitError(d, Bound(d)), ~d.param => ~BadDeclaration(d),
         NEW x, x.decl = d, x.path = Path, NEW k \in Occurrence
  PROVE  ~Conflict(declared[k], x, LinkIn(declared)[k], Linkage(d))
<1> DEFINE c == Conflict(declared[k], x, LinkIn(declared)[k], Linkage(d))
           t == Target(d)
<1>1. /\ d \in NamedDecl /\ d.name \in Name /\ nextId \in Nat /\ DOMAIN symbols = SymbolId
      /\ \A l \in Occurrence : declared[l].sym \in SymbolId /\ Denotes(l) /\ l \in Nat
  BY DeclaredType DEF SymbolsInv, EntitiesInv, ScopesInv, TypeOK, Declares, NamedDecl
<1>2. ASSUME NEW l \in Occurrence, Here(l, d.name), declared[l].sym = PriorCurrent(d.name)
      PROVE  /\ ~IsNew(d) /\ t = declared[l].sym /\ Linkage(d) # "none"
             /\ LinkIn(declared)[l] # "none"
  <2>1. declared[l].sym \in SymbolId /\ PriorCurrent(d.name) # NoSymbol
    BY <1>1, <1>2 DEF SymbolId, NoSymbol
  <2>2. t = PriorCurrent(d.name) /\ ~IsNew(d)
    BY <1>1, <1>2, <2>1 DEF IsNew, Target, SymbolId
  <2>3. ~Redeclared(d)
    BY <2>2 DEF BindError
  <2> QED
    BY <1>1, <1>2, <2>1, <2>2, <2>3 DEF Redeclared, Denotes
<1>3. ASSUME c, declared[k].path = Path, LinkIn(declared)[k] = "none" \/ Linkage(d) = "none"
      PROVE  FALSE
  <2>1. Here(k, d.name)
    <3> HIDE DEF Path
    <3> QED
      BY <1>3 DEF Conflict, Here, DeclAt
  <2>2. PICK l \in Occurrence : Here(l, d.name) /\ declared[l].sym = PriorCurrent(d.name) /\ k <= l
    BY <1>1, <2>1, HereDeclared DEF SymbolsInv
  <2>3. Linkage(d) # "none" /\ LinkIn(declared)[l] # "none"
    BY <1>2, <2>2
  <2>4. k < l /\ LinkIn(declared)[k] = "none"
    BY <1>1, <1>3, <2>2, <2>3
  <2>5. declared[k].path = declared[l].path /\ declared[k].decl.name = declared[l].decl.name
    <3> HIDE DEF Path
    <3> QED
      BY <2>1, <2>2 DEF Here, DeclAt
  <2> QED
    BY <2>4, <2>5 DEF IllFormedIn, Conflict, Occurrence
<1>4. ASSUME c, LinkIn(declared)[k] # "none", Linkage(d) # "none" PROVE FALSE
  <2>1. symbols[declared[k].sym].linkage # "none" /\ symbols[declared[k].sym].name = d.name
    BY <1>1, <1>4 DEF Conflict, Denotes, DeclAt
  <2>2. linked[d.name] = declared[k].sym
    BY <1>1, <2>1 DEF SymbolsInv, LinkedOnce
  <2>3. ~IsNew(d) /\ t = declared[k].sym
    <3>1. CASE PriorCurrent(d.name) = NoSymbol
      BY <1>1, <1>4, <2>2, <3>1 DEF IsNew, Target, SymbolId, NoSymbol
    <3>2. CASE PriorCurrent(d.name) # NoSymbol
      <4>1. PICK l \in Occurrence : Here(l, d.name) /\ declared[l].sym = PriorCurrent(d.name)
        BY <1>1, <3>2, HereDeclared DEF SymbolsInv
      <4>2. ~IsNew(d) /\ t = declared[l].sym /\ LinkIn(declared)[l] # "none"
        BY <1>2, <4>1
      <4>3. symbols[t].linkage # "none" /\ symbols[t].name = d.name
        BY <1>1, <4>1, <4>2 DEF Denotes, Here
      <4>4. linked[d.name] = t
        BY <1>1, <4>2, <4>3 DEF SymbolsInv, LinkedOnce
      <4> QED
        BY <2>2, <4>2, <4>4
    <3> QED
      BY <3>1, <3>2
  <2>4. ~Redeclared(d) /\ ~MergeError(d, symbols[t]) /\ t \in SymbolId
    BY <1>1, <2>3 DEF BindError
  <2>5. /\ LinkIn(declared)[k] = Linkage(d) /\ TypeOf(DeclAt(k)) = TypeOf(d)
        /\ symbols[t].ty = TypeOf(d) /\ symbols[t].linkage # "none"
    BY <1>1, <2>1, <2>3, <2>4 DEF MergeError, Denotes
  <2>6. ~(DeclAt(k).body /\ d.body)
    <3>1. DeclAt(k).body => symbols[t].defined
      BY <2>3, <2>4 DEF DefinedInv, Defines
    <3> QED
      BY <2>4, <3>1 DEF MergeError
  <2>7. ~(DeclAt(k).init # "none" /\ d.init # "none")
    <3> SUFFICES ASSUME DeclAt(k).init # "none", d.init # "none" PROVE FALSE
      OBVIOUS
    <3>1. d.kind = "object" /\ ~d.param /\ d.init \in Initializer
      BY <1>1, NamedDeclType DEF Declares, DeclOK
    <3>2. d.base # "void" /\ StorageDuration(d) = "static" /\ d.init # "invalid"
      BY <1>4, <3>1 DEF BadDeclaration, Linkage, StorageDuration, InitError
    <3>3. IsStaticInit(d) /\ ~IsTentative(d)
      BY <3>1, <3>2 DEF IsStaticInit, Initializer, IsTentative
    <3>4. StaticObject(t) /\ symbols[t] \in Symbol
      BY <2>4, <2>5, <3>1, AgreedSymbol DEF StaticObject
    <3>5. Stored(t)
      BY <2>4, <3>4 DEF StoredInv
    <3>6. symbols[t].init = "constant"
      BY <2>3, <3>5 DEF Stored, Initializes
    <3>7. Bound(d).init = "constant"
      BY <2>3, <2>4, <3>3, <3>4, <3>6 DEF Bound, MergeRedeclaration, Symbol
    <3> QED
      BY <3>3, <3>7 DEF InitError
  <2> QED
    BY <1>4, <2>5, <2>6, <2>7 DEF Conflict, DeclAt
<1> QED
  BY <1>3, <1>4 DEF Conflict

-----------------------------------------------------------------------------
(* What is reported                                                        *)

\* A parameter without a name waits to be bound: an error sema.c has yet to see.
Awaiting == \E k \in DOMAIN pending : pending[k].name = Anonymous

\* Until it has seen this one, what it has reported is what is wrong.
DiagnosedInv ==
    /\ scope[1].kind = "file"
    /\ error => IllFormedIn(declared)
    /\ Awaiting => \E i \in DOMAIN declared : BreaksParameter(declared[i].decl)
    /\ IllFormedIn(declared) => error \/ Awaiting

\* A declaration and everything that is reported of it.
Reports(d) ==
    /\ Declares(d)
    /\ error' <=> \/ error \/ BindError(d) \/ InitError(d, Bound(d))
                  \/ ~d.param /\ (BadDeclaration(d) \/ BadForInit(d))
    /\ Awaiting' <=> Awaiting \/ (d.body /\ NamedOf(d.params) # DOMAIN d.params)

\* Any other step: it may report a parameter without a name.
ReportsNothingElse ==
    /\ UNCHANGED declared
    /\ \/ error' = error /\ (Awaiting' <=> Awaiting)
       \/ Awaiting /\ error'

\* Whatever scopes open, the outermost one is that of the file.
LEMMA FileScopeStays == TypeOK /\ scope[1].kind = "file" /\ [Next]_vars => scope'[1].kind = "file"
<1> SUFFICES ASSUME TypeOK, scope[1].kind = "file", [Next]_vars PROVE scope'[1].kind = "file"
  OBVIOUS
<1>0. /\ scope \in Seq(Scope) /\ Len(scope) \in Nat /\ Len(scope) > 0 /\ DOMAIN scope = 1 .. Len(scope)
      /\ 1 \in DOMAIN scope
  BY DEF TypeOK
<1>2. ASSUME NEW d, DeclOK(d) PROVE Installed(d)[1].kind = "file"
  BY <1>0, <1>2, InstalledScopes
<1>3. ASSUME NEW d \in Decl, DeclareObject(d) \/ DeclareFunction(d) PROVE scope'[1].kind = "file"
  BY <1>2, <1>3, DeclIsOK DEF DeclareObject, DeclareFunction
<1>4. ASSUME NEW d \in Decl, DefineFunction(d) PROVE scope'[1].kind = "file"
  <2>1. DeclOK(d) /\ scope' = Append(Installed(d), Opened("function"))
    BY <1>4, DeclIsOK DEF DefineFunction
  <2>2. Stack(Installed(d)) /\ Len(Installed(d)) = Len(scope)
    BY <2>1, InstalledScopes
  <2>3. scope'[1] = Installed(d)[1]
    BY <1>0, <2>1, <2>2 DEF Stack
  <2> QED
    BY <1>2, <2>1, <2>3
<1>5. ASSUME BindParameter PROVE scope'[1].kind = "file"
  <2>1. CASE Head(pending).name = Anonymous
    BY <1>5, <2>1 DEF BindParameter
  <2>2. CASE Head(pending).name # Anonymous
    <3>1. Head(pending) \in ParamDecl /\ scope' = Installed(Head(pending))
      BY <1>5, <2>2 DEF BindParameter, TypeOK
    <3> QED
      BY <1>2, <2>2, <3>1, ParamIsOK
  <2> QED
    BY <2>1, <2>2
<1>6. ASSUME NEW k \in {"block", "for"}, OpenScope(k) PROVE scope'[1].kind = "file"
  BY <1>0, <1>6 DEF OpenScope, AtFileScope
<1>7. ASSUME CloseScope PROVE scope'[1].kind = "file"
  BY <1>0, <1>7 DEF CloseScope, AtFileScope
<1>8. ASSUME UNCHANGED scope PROVE scope'[1].kind = "file"
  BY <1>8
<1> QED
  BY <1>3, <1>4, <1>5, <1>6, <1>7, <1>8 DEF Next, FinishTentativeDeclarations, Terminated, vars

\* What each step reports.
LEMMA ReportCases ==
  ASSUME TypeOK, scope[1].kind = "file", [Next]_vars
  PROVE  (\E d : Reports(d)) \/ ReportsNothingElse
<1>1. ASSUME NEW d \in Decl, DeclareObject(d) PROVE Reports(d)
  <2>1. Declares(d)
    BY <1>1, DeclIsOK DEF DeclareObject, MayDeclare, Declares, NamedDecl, DeclOK
  <2>2. ~d.param /\ ~d.body
    BY <1>1, DeclAssumption DEF DeclareObject
  <2> QED
    BY <1>1, <2>1, <2>2 DEF DeclareObject, Reports, Awaiting
<1>2. ASSUME NEW d \in Decl, DeclareFunction(d) PROVE Reports(d)
  <2>1. d.init = "none" /\ ~d.param /\ ~d.body
    BY <1>2, DeclAssumption DEF DeclareFunction
  <2>2. Declares(d)
    BY <1>2, <2>1, DeclIsOK, Uninitialized DEF DeclareFunction, MayDeclare, Declares, NamedDecl, DeclOK
  <2> QED
    BY <1>2, <2>1, <2>2, Uninitialized DEF DeclareFunction, Reports, Awaiting
<1>3. ASSUME NEW d \in Decl, DefineFunction(d) PROVE Reports(d)
  <2>1. d.init = "none" /\ ~d.param /\ d.body
    BY <1>3, DeclAssumption DEF DefineFunction
  <2>2. Declares(d)
    BY <1>3, <2>1, DeclIsOK, Uninitialized DEF DefineFunction, MayDeclare, Declares, NamedDecl, DeclOK
  <2>3. ~BadForInit(d)
    BY <1>3 DEF DefineFunction, AtFileScope, BadForInit, Top
  <2>4. ~Awaiting
    BY <1>3 DEF DefineFunction, MayDeclare, Awaiting
  <2>5. Awaiting' <=> NamedOf(d.params) # DOMAIN d.params
    <3>1. pending' = d.params
      BY <1>3 DEF DefineFunction
    <3> QED
      BY <3>1 DEF Awaiting, NamedOf
  <2>6. error' = (error \/ BadDeclaration(d) \/ BindError(d))
    BY <1>3 DEF DefineFunction
  <2> QED
    BY <2>1, <2>2, <2>3, <2>4, <2>5, <2>6, Uninitialized DEF Reports
<1>4. ASSUME BindParameter PROVE (\E d : Reports(d)) \/ ReportsNothingElse
  <2> PICK p : p = Head(pending)
    OBVIOUS
  <2>1. p \in ParamDecl /\ pending # << >> /\ pending' = Tail(pending) /\ pending \in Seq(ParamDecl)
    BY <1>4 DEF BindParameter, TypeOK
  <2>2. CASE p.name = Anonymous
    <3>1. UNCHANGED declared /\ error'
      BY <1>4, <2>2 DEF BindParameter
    <3>2. Awaiting
      BY <2>1, <2>2 DEF Awaiting
    <3> QED
      BY <3>1, <3>2 DEF ReportsNothingElse
  <2>3. CASE p.name # Anonymous
    <3>1. /\ Bind(p, Bound(p)) /\ phase = "analyzing" /\ phase' = phase
          /\ error' = (error \/ BindError(p))
      BY <1>4, <2>3 DEF BindParameter
    <3>2. DeclOK(p) /\ p.init = "none" /\ p.param /\ ~p.body
      BY <2>1, <2>3, ParamIsOK DEF ParamDecl
    <3>3. Declares(p)
      BY <2>1, <3>1, <3>2, Uninitialized DEF Declares, NamedDecl, DeclOK
    <3>4. Awaiting' <=> Awaiting
      <4>1. /\ Len(pending) \in Nat \ {0} /\ DOMAIN pending = 1 .. Len(pending)
            /\ DOMAIN pending' = 1 .. Len(pending) - 1
            /\ \A k \in DOMAIN pending' : pending'[k] = pending[k + 1]
            /\ pending[1] = p
        BY <2>1
      <4>2. Awaiting' => Awaiting
        BY <4>1 DEF Awaiting
      <4>3. ASSUME Awaiting PROVE Awaiting'
        <5>1. PICK k \in DOMAIN pending : pending[k].name = Anonymous
          BY <4>3 DEF Awaiting
        <5>2. k # 1
          BY <2>3, <4>1, <5>1
        <5>3. k - 1 \in DOMAIN pending' /\ (k - 1) + 1 = k
          BY <4>1, <5>2
        <5> QED
          BY <4>1, <5>1, <5>3 DEF Awaiting
      <4> QED
        BY <4>2, <4>3
    <3> QED
      BY <3>1, <3>2, <3>3, <3>4, Uninitialized DEF Reports
  <2> QED
    BY <2>2, <2>3
<1>5. ASSUME UNCHANGED << declared, error, pending >> PROVE ReportsNothingElse
  BY <1>5 DEF ReportsNothingElse, Awaiting
<1> QED
  BY <1>1, <1>2, <1>3, <1>4, <1>5
  DEF Next, OpenScope, CloseScope, FinishTentativeDeclarations, Terminated, vars

\* An initialiser is refused for itself or because there was one.
LEMMA InitErrorWhat ==
  ASSUME NEW d \in NamedDecl, NEW s
  PROVE  InitError(d, s) <=> \/ BadInitializer(d)
                             \/ IsStaticInit(d) /\ s.init = "constant"
BY NamedDeclType DEF InitError, BadInitializer, IsStaticInit, Initializer

\* What has been reported is what is wrong, after a declaration too.
LEMMA DeclarationDiagnosed ==
  ASSUME SymbolsInv, DefinedInv, StoredInv, DiagnosedInv, NEW d, Reports(d)
  PROVE  /\ error' => IllFormedIn(declared')
         /\ Awaiting' => \E i \in DOMAIN declared' : BreaksParameter(declared'[i].decl)
         /\ IllFormedIn(declared') => error' \/ Awaiting'
<1> PICK n : n = Len(declared) + 1
  OBVIOUS
<1> PICK x : x = declared'[n]
  OBVIOUS
<1>1. Declares(d) /\ d \in NamedDecl /\ DeclOK(d)
  BY DEF Reports, Declares
<1>2. /\ Occurrence = 1 .. Len(declared) /\ Len(declared) \in Nat
      /\ \A k \in Occurrence : declared'[k] = declared[k]
      /\ x = [decl |-> d, path |-> Path, where |-> Top.kind, sym |-> Target(d)]
  BY <1>1, DeclaresWhat DEF SymbolsInv
<1>3. x.decl = d /\ x.path = Path /\ x.where = Top.kind
  BY <1>2
<1>4. Len(declared') = Len(declared) + 1 /\ DOMAIN declared' = 1 .. Len(declared) + 1
  BY <1>1, DeclaresWhat, BindDeclared DEF Declares, SymbolsInv
<1> HIDE DEF Path
<1>5. /\ DOMAIN declared = 1 .. Len(declared)
      /\ DOMAIN declared \subseteq DOMAIN declared' /\ n \in DOMAIN declared'
  BY <1>2, <1>4 DEF Occurrence
<1>6. IllFormedIn(declared') <=>
         \/ IllFormedIn(declared) \/ Breaks(x)
         \/ \E k \in Occurrence : Conflict(declared[k], x, LinkIn(declared)[k], LinkIn(declared')[n])
  <2>1. /\ n = Len(declared) + 1 /\ Len(declared) \in Nat /\ DOMAIN declared = 1 .. Len(declared)
        /\ \A k \in DOMAIN declared : declared'[k] = declared[k]
    BY <1>2, <1>5 DEF Occurrence
  <2>2. IllFormedIn(declared') <=>
           \/ IllFormedIn(declared) \/ Breaks(declared'[n])
           \/ \E k \in DOMAIN declared :
                 Conflict(declared[k], declared'[n], LinkIn(declared)[k], LinkIn(declared')[n])
    BY <1>4, <2>1, OneMoreIllFormed
  <2> QED
    BY <2>2 DEF Occurrence
<1>7. Breaks(x) <=> \/ ~d.param /\ (BadDeclaration(d) \/ BadForInit(d))
                    \/ BadInitializer(d)
                    \/ d.body /\ NamedOf(d.params) # DOMAIN d.params
  BY <1>1, <1>3, BreaksWhat DEF SymbolsInv
<1>8. ~error => LinkIn(declared')[n] = Linkage(d)
  BY <1>1, LinkageAgrees DEF SymbolsInv, EntitiesInv
<1>9. InitError(d, Bound(d)) <=> BadInitializer(d) \/ (IsStaticInit(d) /\ Bound(d).init = "constant")
  BY <1>1, InitErrorWhat
<1>10. ASSUME error' PROVE IllFormedIn(declared')
  <2>1. CASE error
    BY <1>6, <2>1 DEF DiagnosedInv
  <2>2. CASE ~error /\ BindError(d)
    BY <1>1, <1>3, <1>6, <1>8, <2>2, BindErrorConflicts
  <2>3. CASE BadInitializer(d) \/ (~d.param /\ (BadDeclaration(d) \/ BadForInit(d)))
    BY <1>6, <1>7, <2>3
  <2>4. CASE ~error /\ ~BindError(d) /\ IsStaticInit(d) /\ Bound(d).init = "constant"
    BY <1>1, <1>3, <1>6, <1>8, <2>4, ReinitializingConflicts
  <2> QED
    BY <1>9, <1>10, <2>1, <2>2, <2>3, <2>4 DEF Reports
<1>11. ASSUME Awaiting' PROVE \E i \in DOMAIN declared' : BreaksParameter(declared'[i].decl)
  <2>1. CASE Awaiting
    BY <1>2, <1>5, <2>1 DEF DiagnosedInv, Occurrence
  <2>2. CASE d.body /\ NamedOf(d.params) # DOMAIN d.params
    <3>1. BreaksParameter(x.decl)
      BY <1>3, <2>2 DEF BreaksParameter
    <3> QED
      BY <1>5, <3>1
  <2> QED
    BY <1>11, <2>1, <2>2 DEF Reports
<1>12. ASSUME ~error', ~Awaiting' PROVE ~IllFormedIn(declared')
  <2>1. /\ ~error /\ ~BindError(d) /\ ~InitError(d, Bound(d)) /\ ~Awaiting
        /\ ~d.param => ~BadDeclaration(d) /\ ~BadForInit(d)
        /\ ~(d.body /\ NamedOf(d.params) # DOMAIN d.params)
    BY <1>12 DEF Reports
  <2>2. ~IllFormedIn(declared)
    BY <2>1 DEF DiagnosedInv
  <2>3. ~Breaks(x)
    BY <1>7, <1>9, <2>1
  <2>4. \A k \in Occurrence : ~Conflict(declared[k], x, LinkIn(declared)[k], Linkage(d))
    BY <1>1, <1>3, <2>1, <2>2, AcceptedWithoutConflict
  <2> QED
    BY <1>6, <1>8, <2>1, <2>2, <2>3, <2>4
<1> QED
  BY <1>10, <1>11, <1>12

\* A step keeps what is reported to what is wrong.
LEMMA NextDiagnosed ==
  SymbolsInv /\ DefinedInv /\ StoredInv /\ DiagnosedInv /\ [Next]_vars => DiagnosedInv'
<1> SUFFICES ASSUME SymbolsInv, DefinedInv, StoredInv, DiagnosedInv, [Next]_vars PROVE DiagnosedInv'
  OBVIOUS
<1>1. scope'[1].kind = "file"
  BY FileScopeStays DEF SymbolsInv, DiagnosedInv
<1>2. (\E d : Reports(d)) \/ ReportsNothingElse
  BY ReportCases DEF SymbolsInv, DiagnosedInv
<1>3. ASSUME NEW d, Reports(d) PROVE DiagnosedInv'
  BY <1>1, <1>3, DeclarationDiagnosed DEF DiagnosedInv
<1>4. ASSUME ReportsNothingElse PROVE DiagnosedInv'
  <2>1. declared' = declared
    BY <1>4 DEF ReportsNothingElse
  <2>2. CASE error' = error /\ (Awaiting' <=> Awaiting)
    BY <1>1, <2>1, <2>2 DEF DiagnosedInv
  <2>3. CASE Awaiting /\ error'
    <3>1. \E i \in DOMAIN declared : BreaksParameter(declared[i].decl)
      BY <2>3 DEF DiagnosedInv
    <3>2. IllFormedIn(declared)
      BY <3>1 DEF IllFormedIn, Breaks
    <3> QED
      BY <1>1, <2>1, <2>3, <3>1, <3>2 DEF DiagnosedInv
  <2> QED
    BY <1>4, <2>2, <2>3 DEF ReportsNothingElse
<1> QED
  BY <1>2, <1>3, <1>4

\* Nothing is reported, and nothing wrong, at first.
LEMMA InitDiagnosed == Init => DiagnosedInv
BY DEF Init, DiagnosedInv, Awaiting, IllFormedIn

\* An error is reported exactly for the translation units that break a
\* constraint, whatever their declarations, their order and the scopes between.
THEOREM ErrorsAreExact == Spec => []DiagnosedExactly
<1>1. Spec => [](DefinedInv /\ StoredInv)
  BY InitDefined, NextDefined, InitStored, NextStored, SymbolsHold, PTL DEF Spec
<1>2. Spec => []DiagnosedInv
  BY <1>1, InitDiagnosed, NextDiagnosed, SymbolsHold, PTL DEF Spec
<1>3. DiagnosedInv => DiagnosedExactly
  BY IllFormedIs DEF DiagnosedInv, DiagnosedExactly, Awaiting
<1> QED
  BY <1>2, <1>3, PTL
=============================================================================
