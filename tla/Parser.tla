------------------------------- MODULE Parser -------------------------------
(***************************************************************************)
(* parser.c: recursive descent over the tokens of a file, with Pratt        *)
(* parsing of expressions and panic-mode recovery.                         *)
(*                                                                         *)
(* The C functions call one another; here todo lists what the calls under  *)
(* way have still to do, the innermost first, and values the trees they    *)
(* have returned and not yet put together, the latest first. A step is     *)
(* what the code does up to the next token it takes or the next call.      *)
(*                                                                         *)
(* The file is read on demand: Lex settles its next token, whichever the   *)
(* input allows.                                                           *)
(***************************************************************************)
EXTENDS Tokens, Naturals, Sequences, SequencesExt

CONSTANTS
    Files,       \* the files that may be given, by name: a scope ("unit",
                 \* "body", "statement" or "declarators", the part of the
                 \* language that may stand there), the kinds and the number
                 \* (size) of its tokens, and how many may follow that are
                 \* wrong (wild)
    Language,    \* what these may be, again by name: texts, the sentences;
                 \* viable, what sentences begin with; parses, sentences
                 \* with the tree of the whole file
    MaxErrors    \* diagnostics are counted up to here

ASSUME FilesAssumption ==
    /\ \A f \in DOMAIN Files :
          /\ Files[f].scope \in {"unit", "body", "statement", "declarators"}
          /\ Files[f].size \in Nat /\ Files[f].wild \in Nat
    /\ MaxErrors \in Nat

VARIABLES
    input,       \* the name of the file
    source,      \* the tokens lexer.c has read
    parser,      \* current (an index of source), previous, panic, and
                 \* diagnostics.c's error_count
    todo,        \* what is still to be done
    values       \* the trees returned

vars == << input, source, parser, todo, values >>

-----------------------------------------------------------------------------
\* The parse rules. PREC_ASSIGNMENT and up, as in the enumeration.
PrecNone == 0
PrecAssignment == 1
PrecTernary == 2
PrecUnary == 13
PrecPostfix == 14

InfixPrec(kind) ==
    CASE kind \in AssignmentOps -> PrecAssignment
      [] kind = "?" -> PrecTernary
      [] kind = "||" -> 3
      [] kind = "&&" -> 4
      [] kind = "|" -> 5
      [] kind = "^" -> 6
      [] kind = "&" -> 7
      [] kind \in {"==", "!="} -> 8
      [] kind \in {"<", "<=", ">", ">="} -> 9
      [] kind \in {"<<", ">>"} -> 10
      [] kind \in {"+", "-"} -> 11
      [] kind \in {"*", "/", "%"} -> 12
      [] kind \in StepOps \union {"("} -> PrecPostfix
      [] OTHER -> PrecNone

HasPrefixRule(kind) ==
    kind \in PrefixOps \union StepOps \union {"(", "ident", "const", "huge"}

-----------------------------------------------------------------------------
\* The token after position i, past the error tokens; the file has been read
\* that far when there is one, or at its end.
After(i) == LET later == {j \in i + 1 .. Len(source) : source[j] # "error"}
            IN IF later = {} THEN 0 ELSE Min(later)
Ready == \/ parser.current > 0 /\ source[parser.current] = "eof"
         \/ After(parser.current) # 0

Kind(p) == source[p.current]
Current == Kind(parser)
Peek == source[parser.current + 1]     \* lexer_peek_token

\* error: only the first of a panic is reported.
Error(p) == IF p.panic THEN p
            ELSE [p EXCEPT !.panic = TRUE,
                           !.errors = IF @ < MaxErrors THEN @ + 1 ELSE @]

\* advance: an error token on the way is an error. The end of the file does
\* not move.
Advance(p) ==
    LET next == IF p.current > 0 /\ Kind(p) = "eof" THEN p.current ELSE After(p.current)
        read == [p EXCEPT !.previous = IF p.current = 0 THEN "(" ELSE Kind(p), !.current = next]
    IN IF next > p.current + 1 THEN Error(read) ELSE read

Consume(p, kind) == IF Kind(p) = kind THEN Advance(p) ELSE Error(p)

-----------------------------------------------------------------------------
\* What may be left to do.
Do(what) == [do |-> what]
Take(kind) == [do |-> "consume", kind |-> kind]
Expression(prec) == [do |-> "expression", prec |-> prec]
Infix(prec) == [do |-> "infix", prec |-> prec]
Unless(kind) == [do |-> "unless", kind |-> kind]
Make(node, n) == [do |-> "make", node |-> node, n |-> n]
Recover(scope) == [do |-> "recover", scope |-> scope, before |-> parser.current]
Declaration(fileScope) == [do |-> "declaration", fileScope |-> fileScope]
Specs(types, class) == [do |-> "specs", types |-> types, class |-> class]
Declarator(specs, allowAbstract) ==
    [do |-> "declarator", specs |-> specs, allowAbstract |-> allowAbstract]

Condition == Expression(PrecAssignment)

Now(what) == todo # << >> /\ Ready /\ Head(todo).do = what
Then(steps) == todo' = steps \o Tail(todo)
Top == Head(values)
Push(v) == values' = << v >> \o values
Replace(n, v) == values' = << v >> \o SubSeq(values, n + 1, Len(values))

\* node over the n results on top, the first of them deepest; an expression
\* whose last operand is missing is missing itself.
Node(node, n) == node \o Reverse(SubSeq(values, 1, n))

\* LIST_APPEND.
Listed(list, tree) == << list[1], Append(list[2], tree) >>
Keep == UNCHANGED << input, source >>

-----------------------------------------------------------------------------
\* Reading. A body is that of a function and declarators are those of an
\* int: what a file opens and closes with.
Opening == CASE Files[input].scope = "unit" -> << >>
             [] Files[input].scope \in {"body", "statement"} -> << "int", "ident", "(", ")", "{" >>
             [] Files[input].scope = "declarators" -> << "int" >>
Closing == CASE Files[input].scope = "unit" -> << >>
             [] Files[input].scope \in {"body", "statement"} -> << "}" >>
             [] Files[input].scope = "declarators" -> << ";" >>

\* The file may go on with any kind while what it holds is a text of the
\* language, or differs from one in its last tokens only; or it ends.
MayFollow(text) ==
    LET file == Files[input]
        m == SubSeq(text, Len(Opening) + 1, Len(text))
    IN /\ Len(m) <= file.size
       /\ Len(m) <= file.wild \/ SubSeq(m, 1, Len(m) - file.wild) \in Language[input].viable

Lex == /\ ~Ready
       /\ \E k \in Files[input].kinds :
              MayFollow(Append(source, k)) /\ source' = Append(source, k)
       /\ UNCHANGED << input, parser, todo, values >>

EndOfFile == /\ ~Ready
             /\ source' = source \o Closing \o << "eof" >>
             /\ UNCHANGED << input, parser, todo, values >>

Init == /\ input \in DOMAIN Files
        /\ source = Opening
        /\ parser = [current |-> 0, previous |-> "(", panic |-> FALSE, errors |-> 0]
        /\ todo = << Do("advance"), Do("unit") >>
        /\ values = << << "unit", << >> >> >>

-----------------------------------------------------------------------------
\* Steps that only move on.
Proceed == /\ Now("advance")
           /\ parser' = Advance(parser) /\ Then(<< >>)
           /\ UNCHANGED values /\ Keep

Consumed == /\ Now("consume")
            /\ parser' = Consume(parser, Head(todo).kind) /\ Then(<< >>)
            /\ UNCHANGED values /\ Keep

\* An expression that may be left out before this token.
Optional == /\ Now("unless")
            /\ IF Current = Head(todo).kind
               THEN Then(<< >>) /\ Push(Absent)
               ELSE Then(<< Condition >>) /\ UNCHANGED values
            /\ UNCHANGED parser /\ Keep

Made == /\ Now("make")
        /\ Replace(Head(todo).n, Node(Head(todo).node, Head(todo).n))
        /\ Then(<< >>) /\ UNCHANGED parser /\ Keep

-----------------------------------------------------------------------------
\* Expressions.

\* The rules of tokens that begin an expression, the token being taken.
Prefix(kind) ==
    CASE kind \in PrefixOps -> << Expression(PrecUnary), Do("operand"), Make(<< "unary", kind >>, 1) >>
      [] kind \in StepOps -> << Expression(PrecUnary), Do("operand"), Make(<< "pre", kind >>, 1) >>
      [] kind = "(" -> << Do("grouping") >>
      [] OTHER -> << >>

\* parse_expression
ParseExpression ==
    LET prec == Head(todo).prec
    IN /\ Now("expression")
       /\ IF ~HasPrefixRule(Current)
          THEN parser' = Error(parser) /\ Push(Null) /\ Then(<< >>)
          ELSE /\ parser' = IF Current = "huge" THEN Error(Advance(parser)) ELSE Advance(parser)
               /\ IF Prefix(Current) = << >> THEN Push(<< IF Current = "ident" THEN "ident" ELSE "const" >>)
                  ELSE UNCHANGED values
               /\ Then(Append(Prefix(Current), Infix(prec)))
       /\ Keep

\* Mutant: a missing operand or argument is taken for one.
Missing_Never(tree) == FALSE

Missing(tree) == tree = Null

\* unary, pre, binary, assignment, the end of ternary and of a cast: without
\* the operand just parsed there is no node, and what came before it is
\* dropped. The next thing to do makes the node.
Operand ==
    LET make == todo[2]
    IN /\ Now("operand")
       /\ IF Missing(Top)
          THEN Replace(make.n, Null) /\ todo' = SubSeq(todo, 3, Len(todo))
          ELSE Then(<< >>) /\ UNCHANGED values
       /\ UNCHANGED parser /\ Keep

\* grouping_or_cast, the parenthesis taken.
GroupingOrCast ==
    /\ Now("grouping")
    /\ IF Current \in TypeSpecifiers
       THEN Then(<< Specs(<< >>, "none"), Do("typename"), Take(")"), Expression(PrecUnary), Do("operand"),
                    Make(<< "cast" >>, 2) >>)
       ELSE Then(<< Condition, Take(")") >>)
    /\ UNCHANGED << parser, values >> /\ Keep

\* What the right operand of a binary operator may hold.
RightPrec(kind) == InfixPrec(kind) + 1

\* The rules of tokens that continue an expression.
InfixRule(kind) ==
    CASE kind \in AssignmentOps -> << Condition, Do("operand"), Make(<< "assignment", kind >>, 2) >>
      [] kind = "?" -> << Condition, Do("colon") >>
      [] kind \in StepOps -> << Make(<< "post", kind >>, 1) >>
      [] kind = "(" -> << Do("arguments") >>
      [] OTHER -> << Expression(RightPrec(kind)), Do("operand"), Make(<< "binary", kind >>, 2) >>

\* The loop of parse_expression.
ParseInfix ==
    LET prec == Head(todo).prec
    IN /\ Now("infix")
       /\ IF prec <= InfixPrec(Current)
          THEN parser' = Advance(parser) /\ Then(Append(InfixRule(Current), Infix(prec)))
          ELSE UNCHANGED parser /\ Then(<< >>)
       /\ UNCHANGED values /\ Keep

\* ternary, after the second operand.
Colon == /\ Now("colon")
         /\ IF Missing(Top)
            THEN Replace(2, Null) /\ Then(<< >>)
            ELSE /\ UNCHANGED values
                 /\ Then(<< Take(":"), Expression(PrecTernary), Do("operand"),
                            Make(<< "conditional" >>, 3) >>)
         /\ UNCHANGED parser /\ Keep

\* call, the parenthesis taken: the list of arguments lies over the callee.
Arguments ==
    /\ Now("arguments")
    /\ Push(EmptyList)
    /\ IF Current = ")" THEN Then(<< Take(")"), Make(<< "call" >>, 2) >>)
       ELSE Then(<< Condition, Do("argument") >>)
    /\ UNCHANGED parser /\ Keep

\* One argument was parsed. The call is dropped with the missing one.
Argument ==
    /\ Now("argument")
    /\ IF Missing(Top)
       THEN Replace(3, Null) /\ Then(<< >>) /\ UNCHANGED parser
       ELSE /\ Replace(2, Listed(values[2], Top))
            /\ IF Current = ","
               THEN parser' = Advance(parser) /\ Then(<< Condition, Do("argument") >>)
               ELSE UNCHANGED parser /\ Then(<< Take(")"), Make(<< "call" >>, 2) >>)
    /\ Keep

-----------------------------------------------------------------------------
\* Statements.

\* What follows the keyword of a statement.
AfterKeyword(kind) ==
    CASE kind = "return" -> << Unless(";"), Take(";"), Make(<< "return" >>, 1) >>
      [] kind = "if" -> << Take("("), Condition, Take(")"), Do("statement"), Do("else") >>
      [] kind \in {"while", "switch"} ->
             << Take("("), Condition, Take(")"), Do("statement"), Make(<< kind >>, 2) >>
      [] kind = "do" -> << Do("statement"), Take("while"), Take("("), Condition, Take(")"), Take(";"),
                           Make(<< "dowhile" >>, 2) >>
      [] kind = "for" -> << Take("("), Do("forinit"), Unless(";"), Take(";"), Unless(")"), Take(")"),
                            Do("statement"), Make(<< "for" >>, 4) >>
      [] kind = "case" -> << Expression(PrecTernary), Take(":"), Do("statement"), Make(<< "case" >>, 2) >>
      [] kind = "default" -> << Take(":"), Do("statement"), Make(<< "default" >>, 1) >>
      [] kind = "goto" -> << Take("ident"), Take(";"), Make(<< "goto" >>, 0) >>
      [] kind \in {"break", "continue"} -> << Take(";"), Make(<< kind >>, 0) >>
      [] kind = ";" -> << Make(<< "null" >>, 0) >>

Keywords == {";", "return", "if", "while", "switch", "do", "for", "case", "default", "goto", "break", "continue"}

\* Mutant: any identifier before a colon, wherever it stands.
IsLabel_NoPeek(kind) == kind = "ident"

IsLabel(kind) == kind = "ident" /\ Peek = ":"

\* parse_statement
ParseStatement ==
    /\ Now("statement")
    /\ \/ /\ Current \in DeclarationStarts
          /\ parser' = Error(parser) /\ Push(Null) /\ Then(<< >>)
       \/ /\ Current = "{"
          /\ Then(<< Do("block") >>) /\ UNCHANGED << parser, values >>
       \/ /\ Current \in Keywords
          /\ parser' = Advance(parser) /\ Then(AfterKeyword(Current)) /\ UNCHANGED values
       \/ /\ IsLabel(Current)
          /\ parser' = Advance(parser) /\ UNCHANGED values
          /\ Then(<< Do("advance"), Do("statement"), Make(<< "label" >>, 1) >>)
       \/ /\ Current \notin DeclarationStarts \union Keywords \union {"{"} /\ ~IsLabel(Current)
          /\ Then(<< Condition, Take(";"), Make(<< "expr" >>, 1) >>) /\ UNCHANGED << parser, values >>
    /\ Keep

\* if, after the first statement.
Else == /\ Now("else")
        /\ IF Current = "else"
           THEN parser' = Advance(parser) /\ Then(<< Do("statement"), Make(<< "ifelse" >>, 3) >>)
           ELSE UNCHANGED parser /\ Then(<< Make(<< "if" >>, 2) >>)
        /\ UNCHANGED values /\ Keep

\* for, after its parenthesis.
ForInit == /\ Now("forinit")
           /\ \/ /\ Current \in DeclarationStarts
                 /\ Then(<< Declaration(FALSE) >>) /\ UNCHANGED << parser, values >>
              \/ /\ Current = ";"
                 /\ parser' = Advance(parser) /\ Push(Absent) /\ Then(<< >>)
              \/ /\ Current \notin DeclarationStarts \union {";"}
                 /\ Then(<< Condition, Take(";"), Make(<< "expr" >>, 1) >>) /\ UNCHANGED << parser, values >>
           /\ Keep

\* parse_block
ParseBlock == /\ Now("block")
              /\ parser' = Consume(parser, "{")
              /\ Push(<< "block", << >> >>) /\ Then(<< Do("item") >>) /\ Keep

\* Its loop and parse_block_item.
BlockItem ==
    /\ Now("item")
    /\ IF Current \in {"}", "eof"}
       THEN parser' = Consume(parser, "}") /\ Then(<< >>)
       ELSE /\ UNCHANGED parser
            /\ Then(<< IF Current \in DeclarationStarts THEN Declaration(FALSE) ELSE Do("statement"),
                       Recover("item") >>)
    /\ UNCHANGED values /\ Keep

-----------------------------------------------------------------------------
\* Recovery.
BlockStops == DeclarationStarts \union
    {"return", "if", "for", "while", "do", "break", "continue", "switch", "case", "default", "goto", "}"}

\* Mutant: an item that took no token takes none here either.
Unstuck_Not(p, before) == p

\* A token is taken if the item that failed took none.
Unstuck(p, before) == IF p.current = before THEN Advance(p) ELSE p

\* After a block item or an external declaration: it is listed, and after an
\* error the tokens are skipped up to where the next can begin.
RecoverOrGoOn ==
    LET scope == Head(todo).scope
    IN /\ Now("recover")
       /\ IF scope = "item"
          THEN Replace(2, Listed(values[2], Top))
          ELSE UNCHANGED values
       /\ IF parser.panic
          THEN /\ parser' = [Unstuck(parser, Head(todo).before) EXCEPT !.panic = FALSE]
               /\ Then(<< [do |-> "synchronize", scope |-> scope] >>)
          ELSE UNCHANGED parser /\ Then(<< Do(scope) >>)
       /\ Keep

\* Mutant: the end of the file is one of the tokens to skip.
StopsAt_NoEnd(scope, p) ==
    scope = "item" /\ (p.previous = ";" \/ Kind(p) \in BlockStops)

\* Where an item of a block may begin again, and where skipping ends anyway.
StopsAt(scope, p) ==
    \/ Kind(p) = "eof"
    \/ scope = "item" /\ (p.previous = ";" \/ Kind(p) \in BlockStops)

\* synchronize_block_item and synchronize_translation_unit: the second takes
\* a token before it looks for a declaration.
Synchronize ==
    LET scope == Head(todo).scope
        next == Advance(parser)
    IN /\ Now("synchronize")
       /\ IF StopsAt(scope, parser)
          THEN UNCHANGED parser /\ Then(<< Do(scope) >>)
          ELSE /\ parser' = next
               /\ IF scope = "unit" /\ Kind(next) \in DeclarationStarts
                  THEN Then(<< Do(scope) >>) ELSE UNCHANGED todo
       /\ UNCHANGED values /\ Keep

-----------------------------------------------------------------------------
\* Declarations. A tree of specifiers is << type, storage class >>.

TypeOfSpecs(types) ==
    LET n(k) == Len(SelectSeq(types, LAMBDA t : t = k))
    IN CASE n("void") = 1 /\ n("int") = 0 /\ n("long") = 0 -> "void"
         [] n("long") = 1 /\ n("int") <= 1 /\ n("void") = 0 -> "long"
         [] n("int") = 1 /\ n("long") = 0 /\ n("void") = 0 -> "int"
         [] OTHER -> "invalid"

\* parse_declaration_specs: one specifier, or the end of them.
ParseDeclarationSpecs ==
    LET types == Head(todo).types
        class == Head(todo).class
        ty == TypeOfSpecs(types)
    IN /\ Now("specs")
       /\ \/ /\ Current \in TypeSpecifiers
             /\ parser' = Advance(parser) /\ Then(<< Specs(Append(types, Current), class) >>)
             /\ UNCHANGED values
          \/ /\ Current \in StorageSpecifiers
             /\ parser' = IF class = "none" THEN Advance(parser) ELSE Error(Advance(parser))
             /\ Then(<< Specs(types, Current) >>)
             /\ UNCHANGED values
          \/ /\ Current \notin DeclarationStarts
             /\ parser' = IF ty = "invalid" THEN Error(parser) ELSE parser
             /\ Push(<< IF ty = "invalid" THEN "int" ELSE ty, class >>) /\ Then(<< >>)
       /\ Keep

\* parse_type_name, after the specifiers.
TypeName == /\ Now("typename")
            /\ parser' = IF Top[2] # "none" THEN Error(parser) ELSE parser
            /\ Replace(1, << Top[1] >>) /\ Then(<< >>) /\ Keep

\* parse_declarator: the name, and then what follows it.
ParseDeclarator ==
    LET d == Head(todo)
        named == Current = "ident"
    IN /\ Now("declarator")
       /\ parser' = IF named THEN Advance(parser)
                    ELSE IF d.allowAbstract THEN parser ELSE Error(parser)
       /\ Then(<< [do |-> "declared", specs |-> d.specs,
                   name |-> IF named THEN << "ident" >> ELSE << >>] >>)
       /\ UNCHANGED values /\ Keep

Declared ==
    LET d == Head(todo)
    IN /\ Now("declared")
       /\ IF Current = "("
          THEN /\ parser' = Advance(parser) /\ Push(EmptyList)
               /\ Then(<< Do("parameters"), [do |-> "function", specs |-> d.specs, name |-> d.name] >>)
          ELSE /\ UNCHANGED parser /\ Push(<< "object", d.specs, d.name, Absent >>) /\ Then(<< >>)
       /\ Keep

FunctionDeclared ==
    /\ Now("function")
    /\ Replace(1, << "function", Head(todo).specs, Head(todo).name, Top, Absent >>)
    /\ Then(<< >>) /\ UNCHANGED parser /\ Keep

Parameter == << Specs(<< >>, "none"), Do("parameter"), Do("nextparameter") >>

\* parse_parameter_list, the parenthesis taken.
ParseParameterList ==
    /\ Now("parameters")
    /\ \/ /\ Current = ")"
          /\ parser' = Advance(parser) /\ Then(<< >>)
       \/ /\ Current = "void" /\ Peek = ")"
          /\ UNCHANGED parser /\ Then(<< Do("advance"), Do("advance") >>)
       \/ /\ ~(Current = ")" \/ (Current = "void" /\ Peek = ")"))
          /\ UNCHANGED parser /\ Then(Parameter)
    /\ UNCHANGED values /\ Keep

\* parse_parameter_declaration, after the specifiers.
ParameterDeclarator ==
    /\ Now("parameter")
    /\ Then(<< Declarator(Top, TRUE) >>) /\ values' = Tail(values)
    /\ UNCHANGED parser /\ Keep

NextParameter ==
    /\ Now("nextparameter")
    /\ Replace(2, Listed(values[2], Top))
    /\ IF Current = "," THEN parser' = Advance(parser) /\ Then(Parameter)
       ELSE parser' = Consume(parser, ")") /\ Then(<< >>)
    /\ Keep

\* parse_init_declarator, after the declarator; its initialiser, which a
\* function may not have, after that.
InitDeclarator ==
    /\ Now("init")
    /\ IF Current = "=" THEN parser' = Advance(parser) /\ Then(<< Condition, Do("initializer") >>)
       ELSE UNCHANGED parser /\ Then(<< >>)
    /\ UNCHANGED values /\ Keep

Initializer ==
    LET decl == values[2]
    IN /\ Now("initializer")
       /\ IF decl[1] = "function"
          THEN parser' = Error(parser) /\ Replace(2, decl)
          ELSE UNCHANGED parser /\ Replace(2, [decl EXCEPT ![4] = Top])
       /\ Then(<< >>) /\ Keep

\* parse_declaration: specifiers, the first declarator, and a body or the
\* other declarators.
ParseDeclaration ==
    /\ Now("declaration")
    /\ Then(<< Specs(<< >>, "none"), [do |-> "first", fileScope |-> Head(todo).fileScope] >>)
    /\ UNCHANGED << parser, values >> /\ Keep

FirstDeclarator ==
    /\ Now("first")
    /\ Then(<< Declarator(Top, FALSE), Do("init"), [do |-> "body", fileScope |-> Head(todo).fileScope] >>)
    /\ UNCHANGED << parser, values >> /\ Keep

FunctionBody ==
    /\ Now("body")
    /\ IF Top[1] = "function" /\ Current = "{"
       THEN /\ parser' = IF Head(todo).fileScope THEN parser ELSE Error(parser)
            /\ Then(<< Do("block"), Do("define") >>) /\ UNCHANGED values
       ELSE /\ UNCHANGED parser /\ Then(<< Do("declarators") >>) /\ Replace(1, Listed(EmptyList, Top))
    /\ Keep

Define == /\ Now("define")
          /\ Replace(3, << "decl", Listed(EmptyList, [values[2] EXCEPT ![5] = Top]) >>)
          /\ Then(<< >>) /\ UNCHANGED parser /\ Keep

\* The declarators so far lie over the specifiers.
Declarators ==
    /\ Now("declarators")
    /\ IF Current = ","
       THEN /\ parser' = Advance(parser) /\ UNCHANGED values
            /\ Then(<< Declarator(values[2], FALSE), Do("init"), Do("nextdeclarator") >>)
       ELSE /\ parser' = Consume(parser, ";") /\ Replace(2, << "decl", Top >>) /\ Then(<< >>)
    /\ Keep

NextDeclarator ==
    /\ Now("nextdeclarator")
    /\ Replace(2, Listed(values[2], Top)) /\ Then(<< Do("declarators") >>)
    /\ UNCHANGED parser /\ Keep

\* parse_translation_unit
ExternalDeclaration ==
    /\ Now("unit")
    /\ \/ /\ Current = "eof"
          /\ Then(<< >>) /\ UNCHANGED parser
       \/ /\ Current \in DeclarationStarts
          /\ Then(<< Declaration(TRUE), Do("concat"), Recover("unit") >>) /\ UNCHANGED parser
       \/ /\ Current \notin DeclarationStarts \union {"eof"}
          /\ Then(<< Recover("unit") >>) /\ parser' = Error(parser)
    /\ UNCHANGED values /\ Keep

Concat == /\ Now("concat")
          /\ Replace(2, << "unit", values[2][2] \o Top[2][2] >>)
          /\ Then(<< >>) /\ UNCHANGED parser /\ Keep

-----------------------------------------------------------------------------
Parse ==
    \/ Proceed \/ Consumed \/ Optional \/ Made
    \/ ParseExpression \/ Operand \/ GroupingOrCast \/ ParseInfix \/ Colon \/ Arguments \/ Argument
    \/ ParseStatement \/ Else \/ ForInit \/ ParseBlock \/ BlockItem
    \/ RecoverOrGoOn \/ Synchronize
    \/ ParseDeclarationSpecs \/ TypeName \/ ParseDeclarator \/ Declared \/ FunctionDeclared
    \/ ParseParameterList \/ ParameterDeclarator \/ NextParameter
    \/ InitDeclarator \/ Initializer
    \/ ParseDeclaration \/ FirstDeclarator \/ FunctionBody \/ Define \/ Declarators \/ NextDeclarator
    \/ ExternalDeclaration \/ Concat

Next == Lex \/ EndOfFile \/ Parse

\* A file ends, and the parser is one process that runs as long as it can.
Spec == Init /\ [][Next]_vars /\ WF_vars(EndOfFile) /\ WF_vars(Parse)

Done == todo = << >>

-----------------------------------------------------------------------------
\* What stands in the file between its opening and its closing.
Middle == SubSeq(source, Len(Opening) + 1, Len(source) - Len(Closing) - 1)

\* A file is accepted exactly if it is one of the language, and its tree is
\* then the one the grammar gives it: precedence, associativity, dangling
\* else, labels, lists. Where an error made a function return no tree, the
\* file is refused, so sema.c never meets the hole.
ParsesGrammar ==
    Done => IF parser.errors = 0
            THEN << Middle, Head(values) >> \in Language[input].parses
            ELSE Middle \notin Language[input].texts

\* LIST_APPEND writes into the node it is given, so no error path may hand it
\* a missing one, whatever is missing in the text.
ListsWhole ==
    \A i \in DOMAIN values : values[i][1] \in {"list", "block", "unit"} =>
        \A j \in DOMAIN values[i][2] : values[i][2][j] # Null

\* There are never more diagnostics than tokens read: recovery never reports
\* one mistake again and again.
OneReportPerToken == parser.errors <= Len(source)

\* Whatever the file, the parser comes to its end: every round of its loops
\* takes a token, recovery included.
Terminates == <>Done

=============================================================================
