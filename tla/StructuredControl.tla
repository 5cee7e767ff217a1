------------------------- MODULE StructuredControl -------------------------
(***************************************************************************)
(* What the statements of a function mean, by their structure: which      *)
(* expression is evaluated after which. Between two evaluations control   *)
(* moves through places: it enters a statement, leaves it, or is about to *)
(* test the condition of a for.                                            *)
(***************************************************************************)
EXTENDS StatementTrees

VARIABLE at      \* the expression that is evaluated next, or how a run ended

Start == << None, "start" >>
Diverges == << None, "diverges" >>

\* The roles that are expressions, and those that end a run.
Expression == {"init", "cond", "post", "expr"}
Ending == {"return", "end"}
Role == Expression \cup Ending \cup {"enter", "leave", "test"}

Enter(n) == << n, "enter" >>
Leave(n) == << n, "leave" >>
Test(n) == << n, "test" >>      \* a loop is about to go round again
Body(n) == Enter(ast[n].kids[1])

EnterFrom(n) ==
    CASE ast[n].kind = "null" -> Leave(n)
      [] ast[n].kind = "expr" -> << n, "expr" >>
      [] ast[n].kind \in {"block", "function"} ->
            IF ast[n].kids = << >> THEN Leave(n) ELSE Body(n)
      [] ast[n].kind \in {"if", "switch", "while"} -> << n, "cond" >>
      [] ast[n].kind = "for" -> IF "init" \in ast[n].parts THEN << n, "init" >> ELSE Test(n)
      [] ast[n].kind \in {"dowhile", "case", "default", "label"} -> Body(n)
      [] ast[n].kind = "return" -> << n, IF ast[n].parts = {} THEN "return" ELSE "expr" >>
      [] ast[n].kind = "goto" -> Enter(ast[n].target)
      [] ast[n].kind = "break" -> Leave(Around(n, LoopKind \cup {"switch"}))
      [] ast[n].kind = "continue" -> Leave(ast[Around(n, LoopKind)].kids[1])

\* Where control goes when n is over, by the statement around it.
LeaveFrom(n) ==
    LET p == ast[n].parent
        i == CHOOSE i \in DOMAIN ast[p].kids : ast[p].kids[i] = n
    IN CASE p = None -> << n, "end" >>
         [] ast[p].kind \in {"block", "function"} ->
               IF i < Len(ast[p].kids) THEN Enter(ast[p].kids[i + 1]) ELSE Leave(p)
         [] ast[p].kind \in {"while", "dowhile"} -> << p, "cond" >>
         [] ast[p].kind = "for" -> IF "post" \in ast[p].parts THEN << p, "post" >> ELSE Test(p)
         [] OTHER -> Leave(p)

Move(place) ==
    CASE place[2] = "enter" -> EnterFrom(place[1])
      [] place[2] = "leave" -> LeaveFrom(place[1])
      [] place[2] = "test" -> IF "cond" \in ast[place[1]].parts THEN << place[1], "cond" >>
                              ELSE Body(place[1])

\* The expression control comes to from a place. If there is none after as
\* many moves as there are places, there never will be.
From(place) ==
    LET Go[p \in Stmts \X Role, moves \in 0 .. 3 * Len(ast)] ==
            IF p[2] \in Expression \cup Ending THEN p
            ELSE IF moves = 0 THEN Diverges
            ELSE Go[Move(p), moves - 1]
    IN Go[place, 3 * Len(ast)]

\* The value of the condition of n chooses the way on.
Chosen(n, v) ==
    CASE ast[n].kind = "if" -> IF v # 0 THEN Body(n)
                               ELSE IF Len(ast[n].kids) = 2 THEN Enter(ast[n].kids[2])
                               ELSE Leave(n)
      [] ast[n].kind \in LoopKind -> IF v # 0 THEN Body(n) ELSE Leave(n)
      [] ast[n].kind = "switch" ->
            LET hits == {c \in CasesOf(n) : ast[c].value = v}
                next == IF hits # {} THEN hits ELSE DefaultsOf(n)
            IN IF next = {} THEN Leave(n) ELSE Enter(CHOOSE c \in next : TRUE)

AfterValue(v) ==
    LET n == at[1]
    IN CASE at[2] = "cond" -> Chosen(n, v)
         [] at[2] \in {"init", "post"} -> Test(n)
         [] at[2] = "expr" -> IF ast[n].kind = "return" THEN << n, "return" >> ELSE Leave(n)

Init == TreeInit /\ at = Start

Begin(f) == /\ read /\ at = Start
            /\ at' = From(Enter(f))
            /\ UNCHANGED tree

Evaluate(v) == /\ at[2] \in Expression
               /\ at' = From(AfterValue(v))
               /\ UNCHANGED tree

Next == \/ TreeNext /\ UNCHANGED at
        \/ \E f \in Functions : Begin(f)
        \/ \E v \in Value : Evaluate(v)

Spec == Init /\ [][Next]_<< tree, at >>
=============================================================================
