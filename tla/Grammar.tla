------------------------------- MODULE Grammar -------------------------------
(***************************************************************************)
(* The language as a grammar, with the tree of every sentence: what the    *)
(* parser is checked against. It knows phrases and their lengths only, no  *)
(* state and no order of reading.                                          *)
(*                                                                         *)
(* It is the grammar of C11 (6.5, 6.7, 6.8, 6.9) as far as ast.h has nodes *)
(* for it, in two places looser because sema.c and not the parser rejects  *)
(* the rest: the left side of an assignment is any conditional expression, *)
(* and any storage class may stand anywhere.                               *)
(*                                                                         *)
(* A phrase is a text and its tree. The phrases of n tokens are made of    *)
(* shorter ones, so g holds, for every symbol, the phrases by length, and  *)
(* the kinds of token the texts may use.                                   *)
(***************************************************************************)
EXTENDS Tokens, Naturals, Sequences, FiniteSets

Phrase(text, tree) == [text |-> text, tree |-> tree]

\* S if the texts may use these kinds.
With(kinds, g, S) == IF kinds \subseteq g.kinds THEN S ELSE {}

\* The lengths i and j of two phrases in a text of n tokens with k others.
Halves(n, k) == {<< i, n - k - i >> : i \in 1 .. n - k - 1}
Thirds(n, k) == {t \in (1 .. n) \X (1 .. n) \X (1 .. n) : t[1] + t[2] + t[3] + k = n}

-----------------------------------------------------------------------------
\* Expressions. Binary operators, those that bind loosest first (6.5.5 to
\* 6.5.14), and the symbols by how tightly they bind.
BinaryLevels ==
    << {"||"}, {"&&"}, {"|"}, {"^"}, {"&"}, {"==", "!="}, {"<", "<=", ">", ">="},
       {"<<", ">>"}, {"+", "-"}, {"*", "/", "%"} >>

Assignment == 1
Conditional == 2
Binary(i) == 2 + i
Unary == 13
Postfix == 14

PrimaryOf(n, g) ==
    IF n = 1 THEN {Phrase(<< k >>, << k >>) : k \in {"ident", "const"} \intersect g.kinds}
    ELSE IF n < 3 THEN {}
    ELSE With({"(", ")"}, g,
              {Phrase(<< "(" >> \o e.text \o << ")" >>, e.tree) : e \in g.expr[n - 2][Assignment]})

\* One argument or several, between commas.
ArgumentsOf(n, g) ==
    {Phrase(a.text, << a.tree >>) : a \in g.expr[n][Assignment]}
      \union With({","}, g, UNION {
          {Phrase(l.text \o << "," >> \o a.text, Append(l.tree, a.tree)) :
              l \in g.args[h[1]], a \in g.expr[h[2]][Assignment]} : h \in Halves(n, 1)})

PostfixOf(n, primary, g) ==
    primary
      \union (IF n < 2 THEN {}
              ELSE {Phrase(Append(e.text, op), << "post", op, e.tree >>) :
                       e \in g.expr[n - 1][Postfix], op \in StepOps \intersect g.kinds})
      \union With({"(", ")"}, g,
          (IF n < 3 THEN {}
           ELSE {Phrase(e.text \o << "(", ")" >>, << "call", e.tree, EmptyList >>) :
                    e \in g.expr[n - 2][Postfix]})
            \union UNION {
              {Phrase(e.text \o << "(" >> \o l.text \o << ")" >>, << "call", e.tree, << "list", l.tree >> >>) :
                  e \in g.expr[h[1]][Postfix], l \in g.args[h[2]]} : h \in Halves(n, 2)})

UnaryOf(n, postfix, g) ==
    postfix
      \union (IF n < 2 THEN {}
              ELSE {Phrase(<< op >> \o e.text, << IF op \in StepOps THEN "pre" ELSE "unary", op, e.tree >>) :
                       op \in (PrefixOps \union StepOps) \intersect g.kinds, e \in g.expr[n - 1][Unary]})
      \union With({"(", ")"}, g, UNION {
          {Phrase(<< "(" >> \o t.text \o << ")" >> \o e.text, << "cast", << t.tree[1] >>, e.tree >>) :
              t \in {s \in g.specs[h[1]] : s.tree[2] = "none"}, e \in g.expr[h[2]][Unary]} :
          h \in Halves(n, 2)})

BinaryOf(n, i, tighter, g) ==
    tighter
      \union UNION {{Phrase(l.text \o << op >> \o r.text, << "binary", op, l.tree, r.tree >>) :
                        op \in BinaryLevels[i] \intersect g.kinds,
                        l \in g.expr[h[1]][Binary(i)], r \in g.expr[h[2]][Binary(i) + 1]} :
                    h \in Halves(n, 1)}

ConditionalOf(n, tighter, g) ==
    tighter
      \union With({"?", ":"}, g, UNION {
          {Phrase(c.text \o << "?" >> \o t.text \o << ":" >> \o e.text,
                  << "conditional", c.tree, t.tree, e.tree >>) :
              c \in g.expr[h[1]][Binary(1)], t \in g.expr[h[2]][Assignment],
              e \in g.expr[h[3]][Conditional]} : h \in Thirds(n, 2)})

AssignmentOf(n, tighter, g) ==
    tighter
      \union UNION {{Phrase(l.text \o << op >> \o r.text, << "assignment", op, l.tree, r.tree >>) :
                        op \in AssignmentOps \intersect g.kinds,
                        l \in g.expr[h[1]][Conditional], r \in g.expr[h[2]][Assignment]} :
                    h \in Halves(n, 1)}

\* All symbols of expressions, by level.
ExpressionsOf(n, g) ==
    LET primary == PrimaryOf(n, g)
        postfix == PostfixOf(n, primary, g)
        unary == UnaryOf(n, postfix, g)
        binary[i \in 1 .. 11] ==
            IF i = 11 THEN << unary >>
            ELSE LET rest == binary[i + 1] IN << BinaryOf(n, i, rest[1], g) >> \o rest
        levels == binary[1]
        conditional == ConditionalOf(n, levels[1], g)
    IN << AssignmentOf(n, conditional, g), conditional >> \o levels \o << postfix >>

-----------------------------------------------------------------------------
\* Declarations. A tree of specifiers is the type and the storage class.
TypeSpellings == {<< "int" >>, << "long" >>, << "void" >>, << "int", "long" >>, << "long", "int" >>}

TypeSpelled(types) == IF "long" \in {types[i] : i \in DOMAIN types} THEN "long" ELSE types[1]

SpecifiersOf(n, g) ==
    LET Types(s) == SelectSeq(s, LAMBDA k : k \in TypeSpecifiers)
        Classes(s) == SelectSeq(s, LAMBDA k : k \in StorageSpecifiers)
    IN IF n > 3 THEN {}
       ELSE {Phrase(s, << TypeSpelled(Types(s)),
                          IF Classes(s) = << >> THEN "none" ELSE Classes(s)[1] >>) :
                s \in {t \in [1 .. n -> DeclarationStarts \intersect g.kinds] :
                           Types(t) \in TypeSpellings /\ Len(Classes(t)) <= 1}}

Object(specs, name, init) == << "object", specs, name, init >>
Function(specs, name, params, body) == << "function", specs, name, << "list", params >>, body >>

\* What may stand between the parentheses of a function: nothing, void, or
\* parameters, of which a single nameless void is none.
ParametersOf(n, g) ==
    IF n = 0 THEN {Phrase(<< >>, << >>)}
    ELSE With({"void"}, g, IF n = 1 THEN {Phrase(<< "void" >>, << >>)} ELSE {})
           \union {l \in g.params[n] : l.text # << "void" >>}

\* A declarator is a name, or none, and parameters if it is a function's.
\* Its tree is all but the specifiers.
Names(g, allowAbstract) ==
    {<< "ident" >>} \union (IF allowAbstract THEN {<< >>} ELSE {})

FunctionDeclarators(n, names, g) ==
    With({"(", ")"}, g, UNION {
        {Phrase(name \o << "(" >> \o l.text \o << ")" >>, << name, l.tree >>) :
            l \in IF Len(name) + 2 <= n THEN ParametersOf(n - 2 - Len(name), g) ELSE {}} :
        name \in names})

ParameterOf(n, g) ==
    UNION {{Phrase(s.text \o name, Object(s.tree, name, Absent)) :
               s \in g.specs[n - Len(name)]} :
           name \in {m \in Names(g, TRUE) : Len(m) < n}}
      \union UNION {{Phrase(s.text \o f.text, Function(s.tree, f.tree[1], f.tree[2], Absent)) :
                        s \in g.specs[h[1]], f \in FunctionDeclarators(h[2], Names(g, TRUE), g)} :
                    h \in Halves(n, 0)}

ParameterListsOf(n, g) ==
    {Phrase(p.text, << p.tree >>) : p \in g.param[n]}
      \union With({","}, g, UNION {
          {Phrase(l.text \o << "," >> \o p.text, Append(l.tree, p.tree)) :
              l \in g.params[h[1]], p \in g.param[h[2]]} : h \in Halves(n, 1)})

\* Declarators between commas; specs stand before the first of them.
InitDeclaratorsOf(n, specs, g) ==
    LET One(m) ==
            (IF m = 1 THEN {Phrase(<< "ident" >>, Object(specs, << "ident" >>, Absent))} ELSE {})
              \union With({"="}, g,
                  IF m < 3 THEN {}
                  ELSE {Phrase(<< "ident", "=" >> \o e.text, Object(specs, << "ident" >>, e.tree)) :
                           e \in g.expr[m - 2][Assignment]})
              \union {Phrase(f.text, Function(specs, f.tree[1], f.tree[2], Absent)) :
                         f \in FunctionDeclarators(m, Names(g, FALSE), g)}
        List[m \in 1 .. n] ==
            {Phrase(d.text, << d.tree >>) : d \in One(m)}
              \union With({","}, g, UNION {
                  {Phrase(l.text \o << "," >> \o d.text, Append(l.tree, d.tree)) :
                      l \in List[h[1]], d \in One(h[2])} : h \in Halves(m, 1)})
    IN List[n]

\* A declaration and its declarators.
DeclarationsOf(n, g) ==
    With({";"}, g, UNION {
        UNION {{Phrase(s.text \o l.text \o << ";" >>, l.tree) :
                   l \in InitDeclaratorsOf(h[2], s.tree, g)} : s \in g.specs[h[1]]} :
        h \in Halves(n, 1)})

-----------------------------------------------------------------------------
\* Statements. An open one ends in an if that would take an else after it.
Stmt(text, tree, open) == [text |-> text, tree |-> tree, open |-> open]

\* head in front of the statements of all lengths that fit, its tree made by
\* one of the tags below from the tree of the statement.
SimpleOf(n, g) ==
    (IF n = 1 THEN {<< << ";" >>, << "null" >> >>}
     ELSE {<< Append(e.text, ";"), << "expr", e.tree >> >> : e \in g.expr[n - 1][Assignment]}
            \union With({"return"}, g,
                IF n = 2 THEN {<< << "return", ";" >>, << "return", Absent >> >>}
                ELSE {<< << "return" >> \o e.text \o << ";" >>, << "return", e.tree >> >> :
                         e \in g.expr[n - 2][Assignment]})
            \union {<< << k, ";" >>, << k >> >> :
                       k \in IF n = 2 THEN {"break", "continue"} \intersect g.kinds ELSE {}}
            \union {<< << "goto", "ident", ";" >>, << "goto" >> >> :
                       x \in IF n = 3 THEN {"goto"} \intersect g.kinds ELSE {}}
            \union With({"do", "while", "(", ")"}, g, UNION {
                {<< << "do" >> \o s.text \o << "while", "(" >> \o e.text \o << ")", ";" >>,
                    << "dowhile", s.tree, e.tree >> >> :
                    s \in g.stmt[h[1]], e \in g.expr[h[2]][Assignment]} : h \in Halves(n, 5)}))

BlockOf(n, g) ==
    With({"{", "}"}, g,
         IF n = 2 THEN {Phrase(<< "{", "}" >>, << "block", << >> >>)}
         ELSE IF n < 2 THEN {}
         ELSE {Phrase(<< "{" >> \o l.text \o << "}" >>, << "block", l.tree >>) : l \in g.items[n - 2]})

\* What may precede the statement of a compound one: the text and the tree
\* up to the statement's.
HeadsOf(n, g) ==
    LET Keyword(k) ==
            With({k, "(", ")"}, g,
                 IF n < 4 THEN {}
                 ELSE {<< << k, "(" >> \o e.text \o << ")" >>, << k, e.tree >> >> :
                          e \in g.expr[n - 3][Assignment]})
        Init == {Phrase(<< ";" >>, Absent)}
                  \union {Phrase(Append(e.text, ";"), << "expr", e.tree >>) :
                             e \in UNION {g.expr[i][Assignment] : i \in 1 .. n - 5}}
                  \union {Phrase(d.text, << "decl", << "list", d.tree >> >>) :
                             d \in UNION {g.decl[i] : i \in 1 .. n - 4}}
        Maybe == {Phrase(<< >>, Absent)} \union UNION {g.expr[i][Assignment] : i \in 1 .. n - 5}
    IN Keyword("if") \union Keyword("while") \union Keyword("switch")
         \union With({"for", "(", ")"}, g,
             {<< << "for", "(" >> \o h[1].text \o h[2].text \o << ";" >> \o h[3].text \o << ")" >>,
                 << "for", h[1].tree, h[2].tree, h[3].tree >> >> :
                 h \in {t \in Init \X Maybe \X Maybe :
                            Len(t[1].text) + Len(t[2].text) + Len(t[3].text) + 4 = n}})
         \union With({"case", ":"}, g,
             IF n < 3 THEN {}
             ELSE {<< << "case" >> \o e.text \o << ":" >>, << "case", e.tree >> >> :
                      e \in g.expr[n - 2][Conditional]})
         \union With({"default", ":"}, g, IF n = 2 THEN {<< << "default", ":" >>, << "default" >> >>} ELSE {})
         \union With({":"}, g, IF n = 2 THEN {<< << "ident", ":" >>, << "label" >> >>} ELSE {})

StatementsOf(n, g) ==
    {Stmt(s[1], s[2], FALSE) : s \in SimpleOf(n, g)}
      \union {Stmt(b.text, b.tree, FALSE) : b \in BlockOf(n, g)}
      \union UNION {{Stmt(h[1] \o s.text, Append(h[2], s.tree), s.open \/ h[2][1] = "if") :
                        h \in HeadsOf(k[1], g), s \in g.stmt[k[2]]} : k \in Halves(n, 0)}
      \union With({"if", "else", "(", ")"}, g, UNION {
          {Stmt(h[1] \o t.text \o << "else" >> \o e.text, << "ifelse", h[2][2], t.tree, e.tree >>, e.open) :
              h \in {x \in HeadsOf(k[1], g) : x[2][1] = "if"},
              t \in {s \in g.stmt[k[2]] : ~s.open}, e \in g.stmt[k[3]]} : k \in Thirds(n, 1)})

\* What a block holds, one after the other.
ItemListsOf(n, g) ==
    LET One(i) == {Phrase(x.text, x.tree) : x \in g.stmt[i]}
                    \union {Phrase(x.text, << "decl", << "list", x.tree >> >>) : x \in g.decl[i]}
    IN {Phrase(x.text, << x.tree >>) : x \in One(n)}
         \union UNION {{Phrase(l.text \o x.text, Append(l.tree, x.tree)) :
                           l \in g.items[h[1]], x \in One(h[2])} : h \in Halves(n, 0)}

-----------------------------------------------------------------------------
\* A file: declarations and function definitions.
DefinitionsOf(n, g) ==
    UNION {{Phrase(s.text \o f.text \o b.text, << Function(s.tree, f.tree[1], f.tree[2], b.tree) >>) :
               s \in g.specs[h[1]], f \in FunctionDeclarators(h[2], Names(g, FALSE), g), b \in BlockOf(h[3], g)} :
           h \in Thirds(n, 0)}

UnitsOf(n, g) ==
    LET One(i) == g.decl[i] \union DefinitionsOf(i, g)
    IN One(n)
         \union UNION {{Phrase(u.text \o d.text, u.tree \o d.tree) :
                           u \in g.units[h[1]], d \in One(h[2])} : h \in Halves(n, 0)}

\* Tables of the phrases of up to n - 1 tokens, with those of n of one symbol
\* more; a symbol needs the ones before it.
AddSpecs(n, g) == [g EXCEPT !.specs = Append(@, SpecifiersOf(n, g))]
AddExpr(n, g) == [g EXCEPT !.expr = Append(@, ExpressionsOf(n, g))]
AddArgs(n, g) == [g EXCEPT !.args = Append(@, ArgumentsOf(n, g))]
AddParam(n, g) == [g EXCEPT !.param = Append(@, ParameterOf(n, g))]
AddParams(n, g) == [g EXCEPT !.params = Append(@, ParameterListsOf(n, g))]
AddDecl(n, g) == [g EXCEPT !.decl = Append(@, DeclarationsOf(n, g))]
AddStmt(n, g) == [g EXCEPT !.stmt = Append(@, StatementsOf(n, g))]
AddItems(n, g) == [g EXCEPT !.items = Append(@, ItemListsOf(n, g))]
AddUnits(n, g) == [g EXCEPT !.units = Append(@, UnitsOf(n, g))]
AddPhrases(n, g) ==
    AddUnits(n, AddItems(n, AddStmt(n, AddDecl(n, AddParams(n, AddParam(n,
        AddArgs(n, AddExpr(n, AddSpecs(n, g)))))))))

\* The phrases of up to n tokens of the given kinds.
Phrases(kinds, n) ==
    LET upTo[m \in 0 .. n] ==
            IF m = 0
            THEN [kinds |-> kinds, specs |-> << >>, expr |-> << >>, args |-> << >>, param |-> << >>,
                  params |-> << >>, decl |-> << >>, stmt |-> << >>, items |-> << >>, units |-> << >>]
            ELSE AddPhrases(m, upTo[m - 1])
    IN upTo[n]

\* What a scope may hold: declarations and definitions, the items of a block
\* or one of its statements, or the declarators of a declaration of an int.
Sentences(scope, kinds, n) ==
    LET g == Phrases(kinds, n)
    IN CASE scope = "unit" -> {Phrase(<< >>, << >>)} \union UNION {g.units[i] : i \in 1 .. n}
         [] scope = "body" -> {Phrase(<< >>, << >>)} \union UNION {g.items[i] : i \in 1 .. n}
         [] scope = "statement" -> {Phrase(<< >>, << >>)}
                \union {Phrase(s.text, << s.tree >>) : s \in UNION {g.stmt[i] : i \in 1 .. n}}
         [] scope = "declarators" ->
                UNION {InitDeclaratorsOf(i, << "int", "none" >>, g) : i \in 1 .. n}

=============================================================================
