--------------------------- MODULE ExpressionTrees ---------------------------
(***************************************************************************)
(* Expressions as parser.c hands them to sema.c, and the functions they    *)
(* call. A node has a kind, an operator (of a constant or a cast its type, *)
(* of an identifier its name), a value if it is a constant, and kids: a    *)
(* call's are the callee and the arguments.                                *)
(***************************************************************************)
EXTENDS Arithmetic, Sequences, SequencesExt

CONSTANT Symbols   \* what the identifiers in scope are, by name: [ty, sd]
                   \* and of a function also [params, returns]

Node(kind, op, kids) == [kind |-> kind, op |-> op, value |-> 0, kids |-> kids]
Const(ty, n) == [Node("constant", ty, << >>) EXCEPT !.value = n]
Ident(name) == Node("identifier", name, << >>)

LogicalOps == {"&&", "||"}
ShiftOps == {"<<", ">>"}
ComparisonOps == {"==", "!=", "<", "<=", ">", ">="}

\* convert_binary_op, of operators and of the assignments named after them.
BinaryOp == [o \in {"+", "+="} |-> "ADD"] @@ [o \in {"-", "-="} |-> "SUB"]
              @@ [o \in {"*", "*="} |-> "MUL"] @@ [o \in {"/", "/="} |-> "DIV"]
              @@ [o \in {"%", "%="} |-> "REM"] @@ [o \in {"&", "&="} |-> "BIT_AND"]
              @@ [o \in {"|", "|="} |-> "BIT_OR"] @@ [o \in {"^", "^="} |-> "BIT_XOR"]
              @@ [o \in {"<<", "<<="} |-> "SHL"] @@ [o \in {">>", ">>="} |-> "SHR"]
              @@ ("==" :> "EQ") @@ ("!=" :> "NE") @@ ("<" :> "LT") @@ ("<=" :> "LE")
              @@ (">" :> "GT") @@ (">=" :> "GE")

IsArithmetic(ty) == ty \in CType

\* type_usual_arithmetic_conversion
CommonType(a, b) == IF a = b THEN a ELSE "long"

IsObject(e) == e.kind = "identifier" /\ e.op \in DOMAIN Symbols /\ Symbols[e.op].ty # "function"

\* The called functions are in another file; all they can reach is static.
\* f counts its calls in x and returns its argument and the count, g clears
\* the count, and h tells its arguments apart.
Effect(callee, args, mem) ==
    CASE callee = "f" -> LET x == Wrap(mem["x"] + 1, SizeOf(Symbols["x"].ty))
                         IN [mem |-> [mem EXCEPT !["x"] = x], value |-> Wrap(args[1] + x, SizeOf("int"))]
      [] callee = "g" -> [mem |-> [mem EXCEPT !["x"] = 0], value |-> 0]
      [] callee = "h" -> [mem |-> mem, value |-> Wrap(args[1] - args[2], SizeOf("long"))]

=============================================================================
