-------------------------- MODULE DeclarationRules --------------------------
(***************************************************************************)
(* What the symbols of module Declarations must amount to, said of the    *)
(* declarations alone. `declared` holds every declaration in order, with  *)
(* the scopes that were open around it; nothing below looks at the symbol *)
(* tables except to compare them with what the declarations say.          *)
(***************************************************************************)
EXTENDS Declarations, FiniteSetsExt, SequencesExt

Occurrence == DOMAIN declared
DeclAt(i) == declared[i].decl
InFile(i) == Len(declared[i].path) = 1

\* The earlier declarations of the same identifier whose scope encloses that
\* of declaration i. The last of them is the one visible at i.
Enclosing(i) == {j \in 1 .. i - 1 : /\ DeclAt(j).name = DeclAt(i).name
                                    /\ IsPrefix(declared[j].path, declared[i].path)}

\* The linkage of every declaration, by the declaration it can see.
LinkageOf ==
    LET L[i \in Occurrence] ==
            LET d == DeclAt(i)
                Inherited == IF Enclosing(i) = {} \/ L[Max(Enclosing(i))] = "none"
                             THEN "external" ELSE L[Max(Enclosing(i))]
            IN IF d.param THEN "none"
               ELSE IF d.sc = "static" /\ (d.kind = "function" \/ InFile(i)) THEN "internal"
               ELSE IF d.kind = "function" \/ d.sc = "extern" THEN Inherited
               ELSE IF d.sc = "none" /\ InFile(i) THEN "external"
               ELSE "none"
    IN L

\* Two declarations of one identifier denote one entity when both have linkage.
SameEntity(i, j) == /\ DeclAt(i).name = DeclAt(j).name
                    /\ LinkageOf[i] # "none" /\ LinkageOf[j] # "none"

IsStatic(i) == DeclAt(i).kind = "function" \/ InFile(i) \/ DeclAt(i).sc \in {"static", "extern"}

-----------------------------------------------------------------------------
(* The constraints of the language, on one declaration and on two *)

SpecifierViolation(i) ==
    LET d == DeclAt(i)
    IN /\ ~d.param
       /\ \/ InFile(i) /\ d.sc \in {"auto", "register"}
          \/ declared[i].where = "for" /\ (d.kind = "function" \/ d.sc \in {"static", "extern"})
          \/ d.kind = "object" /\ d.base = "void"
          \/ d.kind = "function" /\ ~InFile(i) /\ d.sc \in {"auto", "register", "static"}

ParameterViolation(i) ==
    LET ps == DeclAt(i).params
        Named == {k \in DOMAIN ps : ps[k].name # Anonymous}
    IN \/ \E k \in DOMAIN ps : \/ ps[k].base = "void" \/ ps[k].kind = "function"
                               \/ ps[k].sc \in {"auto", "static", "extern"}
       \/ Cardinality({ps[k].name : k \in Named}) < Cardinality(Named)
       \/ DeclAt(i).body /\ Named # DOMAIN ps

InitializerViolation(i) ==
    LET d == DeclAt(i)
    IN \/ d.init = "invalid"
       \/ d.init # "none" /\ d.sc = "extern" /\ ~InFile(i)
       \/ d.init = "runtime" /\ IsStatic(i) /\ d.base # "void"

\* The same identifier declared twice in one scope, at least once without linkage.
Clash(i, j) == /\ DeclAt(i).name = DeclAt(j).name
               /\ declared[i].path = declared[j].path
               /\ LinkageOf[i] = "none" \/ LinkageOf[j] = "none"

Disagree(i, j) == /\ SameEntity(i, j)
                  /\ \/ LinkageOf[i] # LinkageOf[j]
                     \/ TypeOf(DeclAt(i)) # TypeOf(DeclAt(j))
                     \/ DeclAt(i).body /\ DeclAt(j).body
                     \/ DeclAt(i).init # "none" /\ DeclAt(j).init # "none"

IllFormed ==
    \/ \E i \in Occurrence : SpecifierViolation(i) \/ ParameterViolation(i)
                                \/ InitializerViolation(i)
    \/ \E i, j \in Occurrence : i < j /\ (Clash(i, j) \/ Disagree(i, j))

-----------------------------------------------------------------------------
\* sema.c reports an error exactly for the translation units that break a
\* constraint, whatever the order of the declarations and the scopes between
\* them: none is accepted wrongly and none refused.
DiagnosedExactly == pending = << >> => (error <=> IllFormed)

\* In a valid translation unit two declarations get one symbol exactly when
\* they denote one entity: an extern in a block reaches the file-scope object
\* behind a local that hides it, and two locals of one name stay apart.
OneSymbolPerEntity ==
    ~error => \A i, j \in Occurrence :
                 i # j => (declared[i].sym = declared[j].sym <=> SameEntity(i, j))

\* An identifier always resolves to the symbol of the latest declaration of it
\* in a scope still open, however many scopes hid it and closed meanwhile.
VisibleIsInnermost ==
    \A n \in Name :
        LET Visible == {i \in Occurrence : DeclAt(i).name = n
                                             /\ IsPrefix(declared[i].path, Path)}
        IN PriorVisible(n) = IF Visible = {} THEN NoSymbol
                             ELSE declared[Max(Visible)].sym

\* What the object file must hold for the entity declaration i belongs to: its
\* one initialiser as the type can hold it, zero if it is only tentatively
\* defined, nothing if every declaration of it says extern.
Fits(v, d, stored) == IF d.base = "int"
                      THEN /\ (stored - v) % IntModulus = 0
                           /\ 2 * stored \in -IntModulus .. IntModulus - 1
                      ELSE stored = v

StorageOf(i) ==
    LET Group == {j \in Occurrence : j = i \/ SameEntity(i, j)}
        Init_ == {j \in Group : DeclAt(j).init = "constant"}
        s == declared[i].sym
    IN IF Init_ # {}
       THEN HasStorage(s) /\ \A j \in Init_ : Fits(DeclAt(j).value, DeclAt(j), symbols[s].value)
       ELSE IF \E j \in Group : DeclAt(j).sc # "extern"
            THEN HasStorage(s) /\ symbols[s].value = 0
            ELSE ~HasStorage(s)

\* After sema_analyze every object of static storage duration has the storage
\* and the value its declarations ask for, whichever came first.
StorageAsDeclared ==
    phase = "done" /\ ~error =>
        \A i \in Occurrence : DeclAt(i).kind = "object" /\ IsStatic(i) => StorageOf(i)

\* A call is emitted as a direct one exactly when some declaration of the
\* function has a body: the back end reads symbol->defined for it.
DefinedHasBody ==
    ~error => \A i \in Occurrence :
        DeclAt(i).kind = "function" =>
            (symbols[declared[i].sym].defined
               <=> \E j \in Occurrence : (j = i \/ SameEntity(i, j)) /\ DeclAt(j).body)
=============================================================================
