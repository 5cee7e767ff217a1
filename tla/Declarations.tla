---------------------------- MODULE Declarations ----------------------------
(***************************************************************************)
(* How sema.c gives every declaration of a translation unit its symbol:   *)
(* the stack of scopes, the table of linked symbols that outlives them,   *)
(* linkage, storage duration, tentative definitions, redeclarations and   *)
(* static initialisers, and what x86.c then emits for each symbol.        *)
(*                                                                         *)
(* One action per call of analyze_declaration, one per parameter bound,   *)
(* one per scope opened or closed, and one for the end of sema_analyze.   *)
(* The analyser goes on after a diagnostic, so the actions do too.        *)
(***************************************************************************)
EXTENDS Integers, Sequences, CTypes

CONSTANTS
    Name,         \* identifiers
    Anonymous,    \* stands for the name of an unnamed parameter
    Decl,         \* the declarations the parser may hand over
    MaxDecls,     \* bound: declarations of one translation unit
    MaxScopes,    \* bound: scopes opened over the translation unit
    MaxDepth      \* bound: scopes open at once

BaseType == {"void", "int", "long"}
StorageClass == {"none", "auto", "register", "static", "extern"}

\* What an initialiser evaluates to: absent, a constant, something only the
\* program can compute, or an expression without an arithmetic type.
Initializer == {"none", "constant", "runtime", "invalid"}

DeclOf(ParamList, Names) ==
    [name: Names, kind: {"object", "function"}, base: BaseType,
     sc: StorageClass, init: Initializer, value: Int,
     params: ParamList, body: BOOLEAN, param: BOOLEAN]

ParamDecl == {p \in DeclOf({<< >>}, Name \cup {Anonymous}) :
                 p.param /\ ~p.body /\ p.init = "none"}

ASSUME ConstantsAssumption ==
    /\ Anonymous \notin Name
    /\ MaxDecls \in Nat /\ MaxScopes \in Nat /\ MaxDepth \in Nat

ASSUME DeclAssumption ==
    \A d \in Decl :
        /\ d.name \in Name /\ d.kind \in {"object", "function"}
        /\ d.base \in BaseType /\ d.sc \in StorageClass
        /\ d.init \in Initializer /\ d.value \in Int
        /\ d.params \in Seq(ParamDecl)
        /\ d.body \in BOOLEAN /\ ~d.param
        /\ d.kind = "object" => ~d.body /\ d.params = << >>
        /\ d.kind = "function" => d.init = "none"

VARIABLES
    scope,     \* sema.scope: the open scopes, the innermost last
    linked,    \* sema.linked_symbols: name -> symbol, kept when scopes close
    symbols,   \* every symbol made, by id
    nextId,    \* sema.next_symbol_id
    pending,   \* parameters analyze_function has still to bind
    error,     \* some diagnostic was reported
    phase,     \* "analyzing" until sema_analyze finishes, then "done"
    opened,    \* scopes opened so far, which numbers them
    declared   \* every declaration so far, with where it stood and decl->sym

vars == << scope, linked, symbols, nextId, pending, error, phase, opened, declared >>

NoSymbol == -1
Nowhere == [n \in Name |-> NoSymbol]

Put(f, k, v) == [x \in DOMAIN f \cup {k} |-> IF x = k THEN v ELSE f[x]]

Top == scope[Len(scope)]
AtFileScope == Len(scope) = 1          \* is_global_scope
Path == [i \in DOMAIN scope |-> scope[i].id]

-----------------------------------------------------------------------------
(* Lookup, linkage, storage duration, kind of definition *)

PriorCurrent(n) == Top.bind[n]

PriorVisible(n) ==
    LET Binding == {i \in DOMAIN scope : scope[i].bind[n] # NoSymbol}
    IN IF Binding = {} THEN NoSymbol
       ELSE scope[CHOOSE i \in Binding : \A j \in Binding : j <= i].bind[n]

InheritedLinkage(n) ==
    LET s == PriorVisible(n)
    IN IF s # NoSymbol /\ symbols[s].linkage # "none"
       THEN symbols[s].linkage ELSE "external"

Linkage(d) ==
    IF d.param THEN "none"
    ELSE IF d.kind = "function"
         THEN IF d.sc = "static" THEN "internal" ELSE InheritedLinkage(d.name)
    ELSE IF d.sc = "extern" THEN InheritedLinkage(d.name)
    ELSE IF AtFileScope /\ d.sc = "static" THEN "internal"
    ELSE IF AtFileScope /\ d.sc = "none" THEN "external"
    ELSE "none"

StorageDuration(d) ==
    IF d.kind = "function" \/ AtFileScope \/ d.sc \in {"static", "extern"}
    THEN "static" ELSE "auto"

\* Mutant: extern declarations count as tentative definitions.
IsTentative_Extern(d) == /\ d.kind = "object"
                         /\ d.init = "none"
                         /\ StorageDuration(d) = "static"

IsTentative(d) == /\ d.kind = "object"
                  /\ d.init = "none"
                  /\ d.sc # "extern"
                  /\ StorageDuration(d) = "static"

\* type_compatible holds of two types built alike, so a type is its parts.
TypeOf(d) == << d.kind, d.base,
                [i \in DOMAIN d.params |-> << d.params[i].kind, d.params[i].base >>] >>

SymbolNew(d) ==
    [kind |-> d.kind, name |-> d.name, ty |-> TypeOf(d), linkage |-> Linkage(d),
     sd |-> StorageDuration(d), defined |-> d.body,
     init |-> IF IsTentative(d) THEN "tentative" ELSE "none", value |-> 0]

-----------------------------------------------------------------------------
(* Binding a declaration: decl->sym and what becomes of that symbol *)

\* Mutant: the table of linked symbols is not consulted.
Target_ScopeOnly(d) ==
    IF PriorCurrent(d.name) # NoSymbol THEN PriorCurrent(d.name) ELSE nextId

\* decl->sym: the symbol of this scope, else the linked one, else a new one.
Target(d) ==
    IF PriorCurrent(d.name) # NoSymbol THEN PriorCurrent(d.name)
    ELSE IF Linkage(d) # "none" /\ linked[d.name] # NoSymbol THEN linked[d.name]
    ELSE nextId

IsNew(d) == Target(d) = nextId

\* Only declarations with linkage may be repeated in a scope.
Redeclared(d) ==
    /\ PriorCurrent(d.name) # NoSymbol
    /\ \/ Linkage(d) = "none"
       \/ symbols[PriorCurrent(d.name)].linkage = "none"

\* Mutant: linkage is not compared.
MergeError_AnyLinkage(d, s) == TypeOf(d) # s.ty \/ (d.body /\ s.defined)

MergeError(d, s) == \/ Linkage(d) # s.linkage
                    \/ TypeOf(d) # s.ty
                    \/ d.body /\ s.defined

\* Mutants: the last declaration decides whether the function has a body; a
\* tentative definition takes an initialised object back.
MergeRedeclaration_LastBody(d, s) ==
    [s EXCEPT !.defined = d.body,
              !.init = IF IsTentative(d) /\ @ = "none" THEN "tentative" ELSE @]

MergeRedeclaration_Demotes(d, s) ==
    [s EXCEPT !.defined = @ \/ d.body,
              !.init = IF IsTentative(d) THEN "tentative" ELSE @]

MergeRedeclaration(d, s) ==
    [s EXCEPT !.defined = @ \/ d.body,
              !.init = IF IsTentative(d) /\ @ = "none" THEN "tentative" ELSE @]

Bound(d) ==
    IF IsNew(d) THEN SymbolNew(d)
    ELSE IF Redeclared(d) THEN symbols[Target(d)]
    ELSE MergeRedeclaration(d, symbols[Target(d)])

BindError(d) == ~IsNew(d) /\ (Redeclared(d) \/ MergeError(d, symbols[Target(d)]))

\* The part of bind_declaration_symbol every declaration goes through; s is
\* the symbol as the rest of the declaration leaves it.
Bind(d, s) ==
    /\ symbols' = Put(symbols, Target(d), s)
    /\ nextId' = IF IsNew(d) THEN nextId + 1 ELSE nextId
    /\ linked' = IF IsNew(d) /\ Linkage(d) # "none"
                 THEN [linked EXCEPT ![d.name] = nextId] ELSE linked
    /\ declared' = Append(declared, [decl |-> d, path |-> Path,
                                     where |-> Top.kind, sym |-> Target(d)])

\* Mutant: a declaration merged with a linked symbol is not installed here.
Installed_NewOnly(d) ==
    IF IsNew(d) THEN [scope EXCEPT ![Len(scope)].bind[d.name] = Target(d)] ELSE scope

\* The innermost scope after it: the name stands for decl->sym.
Installed(d) == [scope EXCEPT ![Len(scope)].bind[d.name] = Target(d)]

-----------------------------------------------------------------------------
(* Constraints on a declaration by itself *)

BadParams(d) ==
    \/ \E i \in DOMAIN d.params :
          \/ d.params[i].kind # "object"
          \/ d.params[i].base = "void"
          \/ d.params[i].sc \notin {"none", "register"}
    \/ \E i, j \in DOMAIN d.params :
          i # j /\ d.params[i].name = d.params[j].name /\ d.params[i].name # Anonymous

BadDeclaration(d) ==
    \/ AtFileScope /\ d.sc \in {"auto", "register"}
    \/ /\ d.kind = "function"
       /\ \/ BadParams(d)
          \/ ~AtFileScope /\ d.sc \notin {"none", "extern"}
          \/ d.body /\ d.sc \notin {"none", "extern", "static"}
    \/ /\ d.kind = "object"
       /\ \/ d.base = "void"
          \/ ~AtFileScope /\ d.sc = "extern" /\ d.init # "none"

BadForInit(d) ==
    /\ Top.kind = "for"
    /\ d.kind # "object" \/ d.sc \notin {"none", "auto", "register"}

\* Whether the initialiser reaches the code that stores a static's value.
IsStaticInit(d) ==
    /\ d.init \in {"constant", "runtime"}
    /\ d.base # "void"
    /\ StorageDuration(d) = "static"

InitError(d, s) ==
    \/ d.init = "invalid"
    \/ IsStaticInit(d) /\ (d.init = "runtime" \/ s.init = "constant")

Initialized(d, s) ==
    IF IsStaticInit(d) /\ d.init = "constant" /\ s.init # "constant"
    THEN [s EXCEPT !.init = "constant", !.value = ConstantConvert(d.value, d.base)]
    ELSE s

-----------------------------------------------------------------------------
Init ==
    /\ scope = << [kind |-> "file", id |-> 0, bind |-> Nowhere] >>
    /\ linked = Nowhere
    /\ symbols = [s \in {} |-> s]
    /\ nextId = 0
    /\ pending = << >>
    /\ error = FALSE
    /\ phase = "analyzing"
    /\ opened = 0
    /\ declared = << >>

\* A declaration is analysed where the parser lets one stand: not among the
\* statements of a loop, which hold declarations only inside a block.
MayDeclare == /\ phase = "analyzing" /\ pending = << >>
              /\ Top.kind # "loop"
              /\ Len(declared) < MaxDecls

DeclareObject(d) ==
    /\ MayDeclare
    /\ d.kind = "object"
    /\ Bind(d, Initialized(d, Bound(d)))
    /\ scope' = Installed(d)
    /\ error' = (error \/ BadDeclaration(d) \/ BadForInit(d) \/ BindError(d)
                       \/ InitError(d, Bound(d)))
    /\ UNCHANGED << pending, phase, opened >>

DeclareFunction(d) ==
    /\ MayDeclare
    /\ d.kind = "function" /\ ~d.body
    /\ Bind(d, Bound(d))
    /\ scope' = Installed(d)
    /\ error' = (error \/ BadDeclaration(d) \/ BadForInit(d) \/ BindError(d))
    /\ UNCHANGED << pending, phase, opened >>

MayOpen == /\ phase = "analyzing" /\ pending = << >>
           /\ opened < MaxScopes /\ Len(scope) < MaxDepth

Opened(kind) == [kind |-> kind, id |-> opened + 1, bind |-> Nowhere]

\* A definition at file scope: the parser rejects every other one. The
\* parameters and the body share the scope it opens.
DefineFunction(d) ==
    /\ MayDeclare /\ MayOpen /\ AtFileScope
    /\ d.kind = "function" /\ d.body
    /\ Bind(d, Bound(d))
    /\ scope' = Append(Installed(d), Opened("function"))
    /\ opened' = opened + 1
    /\ pending' = d.params
    /\ error' = (error \/ BadDeclaration(d) \/ BindError(d))
    /\ UNCHANGED phase

BindParameter ==
    /\ phase = "analyzing" /\ pending # << >>
    /\ LET p == Head(pending)
       IN \/ /\ p.name = Anonymous
             /\ error' = TRUE
             /\ UNCHANGED << scope, linked, symbols, nextId, declared >>
          \/ /\ p.name # Anonymous
             /\ Bind(p, Bound(p))
             /\ scope' = Installed(p)
             /\ error' = (error \/ BindError(p))
    /\ pending' = Tail(pending)
    /\ UNCHANGED << phase, opened >>

\* A block, or a loop with the scope of its for-initialiser, inside a function.
\* What follows a loop's header is its body.
OpenScope(kind) ==
    /\ MayOpen /\ ~AtFileScope
    /\ scope' = Append(IF Top.kind = "for"
                       THEN [scope EXCEPT ![Len(scope)].kind = "loop"] ELSE scope,
                       Opened(kind))
    /\ opened' = opened + 1
    /\ UNCHANGED << linked, symbols, nextId, pending, error, phase, declared >>

CloseScope ==
    /\ phase = "analyzing" /\ pending = << >> /\ ~AtFileScope
    /\ scope' = SubSeq(scope, 1, Len(scope) - 1)
    /\ UNCHANGED << linked, symbols, nextId, pending, error, phase, opened, declared >>

InResult(s) == symbols[s].sd = "static"      \* on the list result->symbols

FinishTentativeDeclarations ==
    /\ phase = "analyzing" /\ pending = << >> /\ AtFileScope
    /\ phase' = "done"
    /\ symbols' = [s \in DOMAIN symbols |->
                     IF InResult(s) /\ symbols[s].init = "tentative"
                     THEN [symbols[s] EXCEPT !.init = "constant", !.value = 0]
                     ELSE symbols[s]]
    /\ UNCHANGED << scope, linked, nextId, pending, error, opened, declared >>

Terminated == phase = "done" /\ UNCHANGED vars

Next ==
    \/ \E d \in Decl : DeclareObject(d) \/ DeclareFunction(d) \/ DefineFunction(d)
    \/ BindParameter
    \/ \E kind \in {"block", "for"} : OpenScope(kind)
    \/ CloseScope
    \/ FinishTentativeDeclarations
    \/ Terminated

Spec == Init /\ [][Next]_vars

-----------------------------------------------------------------------------
(* What x86.c makes of the symbols *)

\* Mutant: every symbol is written by its bare name.
AssemblerName_Bare(s) == << symbols[s].name >>

\* write_symbol_name: only a name with linkage is written bare.
AssemblerName(s) ==
    IF symbols[s].linkage = "none" THEN << symbols[s].name, s >> ELSE << symbols[s].name >>

\* write_static gives storage to these, with their value.
HasStorage(s) == /\ InResult(s)
                 /\ symbols[s].kind = "object"
                 /\ symbols[s].init = "constant"

-----------------------------------------------------------------------------
SymbolId == 0 .. nextId - 1

Symbol == [kind: {"object", "function"}, name: Name,
           ty: {"object", "function"} \X BaseType
                 \X Seq({"object", "function"} \X BaseType),
           linkage: {"none", "internal", "external"}, sd: {"static", "auto"},
           defined: BOOLEAN, init: {"none", "tentative", "constant"}, value: Int]

Scope == [kind: {"file", "function", "for", "loop", "block"}, id: Nat,
          bind: [Name -> SymbolId \cup {NoSymbol}]]

\* Every variable has its type; in particular the tables only name symbols
\* that exist.
TypeOK ==
    /\ nextId \in Nat
    /\ symbols \in [SymbolId -> Symbol]
    /\ scope \in Seq(Scope) /\ Len(scope) > 0
    /\ linked \in [Name -> SymbolId \cup {NoSymbol}]
    /\ pending \in Seq(ParamDecl)
    /\ error \in BOOLEAN
    /\ phase \in {"analyzing", "done"}
    /\ opened \in Nat

\* Any two symbols that live in the object file have different names there:
\* a local static never collides with a file-scope name or with the local
\* static of another block, and a name with linkage has one symbol however
\* many scopes declare it (write_symbol_name, bind_declaration_symbol).
AssemblerNamesDistinct ==
    \A s, t \in DOMAIN symbols :
        InResult(s) /\ InResult(t) /\ AssemblerName(s) = AssemblerName(t) => s = t

Rank == [i \in {"none", "tentative", "constant"} |->
            CASE i = "none" -> 0 [] i = "tentative" -> 1 [] i = "constant" -> 2]

\* A symbol with linkage is the one symbol of its name: what keeps the names
\* in the object file apart, as an invariant of the tables.
LinkedOnce ==
    \A s \in DOMAIN symbols :
        symbols[s].linkage # "none" => linked[symbols[s].name] = s

LaterState(old, new) ==
    /\ new.name = old.name /\ new.ty = old.ty /\ new.kind = old.kind
    /\ new.linkage = old.linkage /\ new.sd = old.sd
    /\ old.defined => new.defined
    /\ Rank[old.init] <= Rank[new.init]
    /\ old.init = "constant" => new.value = old.value

\* A symbol keeps the identity the declarations before relied on: no later
\* declaration changes its name, type, linkage or storage duration, takes its
\* definition back, lowers its initialisation or changes a value once stored
\* (merge_redeclaration, analyze_object_initializer, finish_tentative_declarations).
KeepsSymbols ==
    \A s \in DOMAIN symbols :
        s \in DOMAIN symbols' /\ LaterState(symbols[s], symbols'[s])

SymbolsStable == [][KeepsSymbols]_vars
=============================================================================
