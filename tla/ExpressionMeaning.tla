-------------------------- MODULE ExpressionMeaning --------------------------
(***************************************************************************)
(* What C11 6.5 says of these expressions: which have a type, and what one *)
(* may evaluate to. An expression is evaluated by reducing it, anywhere    *)
(* the order of evaluation leaves free, to a constant; a function call is  *)
(* one step, as no other evaluation interleaves with it.                   *)
(***************************************************************************)
EXTENDS ExpressionTrees

-----------------------------------------------------------------------------
\* Types.
RECURSIVE TypeOf(_)
TypeOf(e) ==
    CASE e.kind \in {"constant", "cast"} -> e.op
      [] e.kind = "identifier" -> IF e.op \in DOMAIN Symbols THEN Symbols[e.op].ty ELSE "none"
      [] e.kind = "unary" -> IF e.op = "!" THEN "int" ELSE TypeOf(e.kids[1])
      [] e.kind = "binary" /\ e.op \in LogicalOps \union ComparisonOps -> "int"
      [] e.kind = "binary" /\ e.op \in ShiftOps -> TypeOf(e.kids[1])
      [] e.kind = "binary" /\ e.op \notin LogicalOps \union ComparisonOps \union ShiftOps ->
             CommonType(TypeOf(e.kids[1]), TypeOf(e.kids[2]))
      [] e.kind \in {"assignment", "pre", "post"} -> TypeOf(e.kids[1])
      [] e.kind = "conditional" -> CommonType(TypeOf(e.kids[2]), TypeOf(e.kids[3]))
      [] e.kind = "call" -> IF TypeOf(e.kids[1]) = "function" THEN Symbols[e.kids[1].op].returns ELSE "none"

HasValue(e) == IsArithmetic(TypeOf(e))

\* The constraints at a node and at all below. A function is good for being
\* called only, as there are no pointers.
Constraint(e) ==
    LET kid(i) == e.kids[i]
    IN CASE e.kind = "constant" -> TRUE
         [] e.kind = "identifier" -> e.op \in DOMAIN Symbols
         [] e.kind \in {"unary", "binary"} -> \A i \in DOMAIN e.kids : HasValue(kid(i))
         [] e.kind \in {"pre", "post"} -> IsObject(kid(1))
         [] e.kind = "assignment" -> IsObject(kid(1)) /\ HasValue(kid(2))
         [] e.kind = "conditional" -> /\ HasValue(kid(1))
                                      /\ \/ HasValue(kid(2)) /\ HasValue(kid(3))
                                         \/ TypeOf(kid(2)) = "void" /\ TypeOf(kid(3)) = "void"
         [] e.kind = "call" -> /\ TypeOf(kid(1)) = "function"
                               /\ Len(e.kids) = 1 + Len(Symbols[kid(1).op].params)
                               /\ \A i \in 2 .. Len(e.kids) : HasValue(kid(i))
         [] e.kind = "cast" -> e.op = "void" \/ HasValue(kid(1))

RECURSIVE Parts(_)
Parts(e) == {e} \union UNION {Parts(e.kids[i]) : i \in DOMAIN e.kids}

WellTyped(e) == \A part \in Parts(e) : Constraint(part)

-----------------------------------------------------------------------------
\* Evaluations no sequence point separates may not both change an object,
\* nor one change what the other reads. Function calls are no such evaluation.
Touched(e) == {part.op : part \in {p \in Parts(e) : IsObject(p)}}
Changed(e) == {part.kids[1].op : part \in {p \in Parts(e) : p.kind \in {"assignment", "pre", "post"}}}
Clash(a, b) == Changed(a) \intersect Touched(b) # {} \/ Changed(b) \intersect Touched(a) # {}

Unsequenced(e) ==
    \E part \in Parts(e) :
        \/ part.kind = "assignment" /\ part.kids[1].op \in Changed(part.kids[2])
        \/ /\ part.kind = "call" \/ (part.kind = "binary" /\ part.op \notin LogicalOps)
           /\ \E i, j \in DOMAIN part.kids : i # j /\ Clash(part.kids[i], part.kids[j])

-----------------------------------------------------------------------------
\* Reduction. A state is an expression and the memory.
Undefined == Node("undefined", "", << >>)
Convert(n, ty) == Const(ty, IF ty = "void" THEN 0 ELSE Wrap(n, SizeOf(ty)))
IsValue(e) == e.kind = "constant"
Not(e) == Node("unary", "!", << e >>)

\* Which operands may be evaluated before the operator.
Free(e) == CASE e.kind \in {"pre", "post"} -> {}
             [] e.kind = "conditional" \/ (e.kind = "binary" /\ e.op \in LogicalOps) -> {1}
             [] e.kind = "assignment" -> {2}
             [] e.kind = "call" -> 2 .. Len(e.kids)
             [] OTHER -> DOMAIN e.kids

\* a op b, computed in a type: whether it is defined, and what it is.
Sensible(op, ty, a, b) == HasMeaning(BinaryOp[op], SizeOf(ty), a, b)
Apply(op, ty, a, b) == Meaning(BinaryOp[op], SizeOf(ty), a, b)

\* The type a binary operator or an assignment by one computes in.
Within(op, left, right) == IF BinaryOp[op] \in {"SHL", "SHR"} THEN left ELSE CommonType(left, right)

\* An operator whose operands are there. An assignment's value is read from
\* the object, then or later.
Operate(e, m) ==
    LET k == e.kids
        name == k[1].op
        ty == TypeOf(e)
        n(i) == k[i].value
        Store(v, result) == << result, [m EXCEPT ![name] = Wrap(v, SizeOf(ty))] >>
        by == IF e.op = "++" THEN 1 ELSE -1
    IN CASE e.kind = "identifier" -> << Const(ty, m[e.op]), m >>
         [] e.kind = "unary" ->
                << Convert(CASE e.op = "+" -> n(1) [] e.op = "-" -> -n(1) [] e.op = "~" -> -1 - n(1)
                             [] e.op = "!" -> Truth(n(1) = 0), ty), m >>
         [] e.kind = "binary" /\ e.op \in LogicalOps ->
                << IF (n(1) # 0) = (e.op = "&&") THEN Not(Not(k[2])) ELSE Const("int", Truth(e.op = "||")), m >>
         [] e.kind = "binary" /\ e.op \notin LogicalOps ->
                LET within == Within(e.op, k[1].op, k[2].op)
                IN << IF Sensible(e.op, within, n(1), n(2)) THEN Const(ty, Apply(e.op, within, n(1), n(2)))
                      ELSE Undefined, m >>
         [] e.kind = "assignment" /\ e.op = "=" -> Store(n(2), k[1])
         [] e.kind = "assignment" /\ e.op # "=" ->
                LET within == Within(e.op, ty, k[2].op)
                IN IF Sensible(e.op, within, m[name], n(2)) THEN Store(Apply(e.op, within, m[name], n(2)), k[1])
                   ELSE << Undefined, m >>
         [] e.kind = "pre" -> Store(m[name] + by, k[1])
         [] e.kind = "post" -> Store(m[name] + by, Const(ty, m[name]))
         [] e.kind = "conditional" -> << Node("cast", ty, << IF n(1) # 0 THEN k[2] ELSE k[3] >>), m >>
         [] e.kind = "call" ->
                LET f == Symbols[name]
                    done == Effect(name, [i \in DOMAIN f.params |-> Convert(n(i + 1), f.params[i]).value], m)
                IN << Convert(done.value, f.returns), done.mem >>
         [] e.kind = "cast" -> << Convert(n(1), e.op), m >>

Ready(e) == ~IsValue(e) /\ \A i \in Free(e) : IsValue(e.kids[i])

RECURSIVE Steps(_, _)
Steps(e, m) ==
    IF IsValue(e) \/ e = Undefined THEN {}
    ELSE IF Ready(e) THEN {Operate(e, m)}
    ELSE UNION {{<< IF s[1] = Undefined THEN Undefined ELSE [e EXCEPT !.kids[i] = s[1]], s[2] >> :
                     s \in Steps(e.kids[i], m)} : i \in Free(e)}

RECURSIVE Reached(_)
Reached(states) ==
    LET next == UNION {Steps(s[1], s[2]) : s \in states}
    IN IF next = {} THEN states ELSE Reached({s \in states : IsValue(s[1]) \/ s[1] = Undefined} \union next)

\* What evaluating e may end with, and whether C says anything of it.
Outcomes(e, m) == Reached({<< e, m >>})
Defined(e, m) == ~Unsequenced(e) /\ \A s \in Outcomes(e, m) : IsValue(s[1])

=============================================================================
