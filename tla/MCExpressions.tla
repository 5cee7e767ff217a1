---------------------------- MODULE MCExpressions ----------------------------
(***************************************************************************)
(* All expressions up to a size over several sets of operands and          *)
(* operators, an int of 3 bits and a long of 4: x is a static int, which   *)
(* the functions change, y an automatic long; u is not declared.           *)
(***************************************************************************)
EXTENDS Expressions

SymbolsDef == [x |-> [ty |-> "int", sd |-> "static"],
               y |-> [ty |-> "long", sd |-> "auto"],
               f |-> [ty |-> "function", sd |-> "none", params |-> << "long" >>, returns |-> "int"],
               g |-> [ty |-> "function", sd |-> "none", params |-> << >>, returns |-> "void"],
               h |-> [ty |-> "function", sd |-> "none", params |-> << "int", "long" >>, returns |-> "long"]]

\* An operator is << kind, op, name >>; the name, if there is one, is its
\* first operand.
Of(kind, ops) == {<< kind, o, "" >> : o \in ops}
Assign(name, ops) == {<< "assignment", o, name >> : o \in ops}
Call(name) == << "call", "", name >>
Made(o, kids) == Node(o[1], o[2], IF o[3] = "" THEN kids ELSE << Ident(o[3]) >> \o kids)

\* The expressions of up to n nodes, of 3 to 5, by their size: leaves, and operators by how
\* many operands more they take.
Grown(n, leaves, one, two, three) ==
    LET Over(o1, a) == {Made(o, << e >>) : o \in o1, e \in a}
        Over2(a, b) == {Made(o, << e, d >>) : o \in two, e \in a, d \in b}
        Over3(a, b, c) == {Made(o, << e, d, h >>) : o \in three, e \in a, d \in b, h \in c}
        n1 == leaves
        n2 == Over(one, n1)
        n3 == Over2(n1, n1) \union Over(one, n2)
        n4 == Over3(n1, n1, n1) \union Over2(n1, n2) \union Over2(n2, n1) \union Over(one, n3)
        n5 == Over3(n1, n1, n2) \union Over3(n1, n2, n1) \union Over3(n2, n1, n1)
                \union Over2(n1, n3) \union Over2(n2, n2) \union Over2(n3, n1) \union Over(one, n4)
    IN << n1, n2, n3, IF n > 3 THEN n4 ELSE {}, IF n > 4 THEN n5 ELSE {} >>

Casts == Of("cast", CType)
One == Const("int", 1)
X == Ident("x")
Y == Ident("y")

ConstantOps == {"+", "-", "*", "/", "%", "&", "|", "^", "&&", "||", "<<", ">>", "==", "!=", "<", "<=", ">", ">="}
Folded == Grown(4, {Const("int", 0), One, Const("int", 3), Const("long", 5)},
                Of("unary", {"+", "-", "~", "!"}) \union Casts, Of("binary", ConstantOps), Of("conditional", {"?"}))

Effects == Grown(4, {X, Y, One, Made(<< "post", "++", "x" >>, << >>), Made(<< "pre", "--", "y" >>, << >>)},
                 Assign("x", {"=", "+=", "<<="}) \union Assign("y", {"=", "-=", "/="}) \union {Call("f")} \union Casts,
                 Of("binary", {"+", "&&", "<"}), Of("conditional", {"?"}))

\* Fewer operators, in larger expressions.
DeepFolded == Grown(5, {One, Const("int", 3), Const("long", 5)}, Of("unary", {"-"}) \union Of("cast", {"int"}),
                    Of("binary", {"-", "*", "/", ">>", "<<", "<", "||"}), Of("conditional", {"?"}))
DeepEffects == Grown(5, {X, Y, Made(<< "post", "++", "x" >>, << >>)},
                     Assign("x", {"=", "+="}) \union Assign("y", {"="}) \union {Call("f")} \union Of("cast", {"int"}),
                     Of("binary", {"-", "||"}), Of("conditional", {"?"}))

Typings == Grown(3, {X, Ident("u"), Ident("f"), Made(Call("g"), << >>), One},
                 Of("unary", {"!", "-"}) \union Of("pre", {"++"}) \union Of("post", {"--"})
                   \union Of("cast", {"int", "void"}) \union {Call("f"), Call("g"), Call("x")},
                 Of("binary", {"+", "&&", "<<", "=="}) \union Of("assignment", {"=", "-=", ">>="}) \union {Call("f")},
                 {})
Conditions == Grown(4, {X, Y, Made(Call("g"), << >>)}, {}, {}, Of("conditional", {"?"}))

\* Calls of two arguments, the second of which changes what the first reads.
Arguments == Grown(5, {X, Y, One, Made(<< "post", "++", "x" >>, << >>)},
                   Assign("x", {"="}) \union Assign("y", {"+="}) \union {Call("f")}, {Call("h")}, {})

\* The name of a function that is not called gets a stack slot of its own.
Memory(x, y) == [x |-> x, y |-> y, f |-> -1]
Some == {Memory(3, 5)}
Others == {Memory(0, -8), Memory(3, 1)}

AllInputs == << [exprs |-> Folded, mems |-> Some], [exprs |-> Typings, mems |-> Some], [exprs |-> Conditions, mems |-> Some],
                [exprs |-> Effects, mems |-> Others],
                [exprs |-> DeepFolded, mems |-> Some], [exprs |-> DeepEffects, mems |-> Others],
                [exprs |-> Arguments, mems |-> Others] >>
InputsDef == AllInputs
=============================================================================
