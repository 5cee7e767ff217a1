---------------------------- MODULE Driver_proof ----------------------------
(***************************************************************************)
(* Proofs about the driver, for any invocations over any file system. What *)
(* an invocation promises depends on the others only by the files they     *)
(* write, and one that is still parsing its arguments has written none:    *)
(* the invariants speak of the others that are past that.                  *)
(***************************************************************************)
EXTENDS Driver, WellFoundedInduction, TLAPS

Fields == {"at", "args", "c", "S", "output", "inputs", "next", "text", "had_error",
           "objects", "failed", "said", "status"}

\* The arguments still to be parsed.
LineOK(args) ==
    /\ args \in Seq(Option \union Named(first))
    /\ \A i \in DOMAIN args \ {1} : args[i - 1] = << "-o" >> => args[i] \in Named(first)

MemoryOK(p) ==
    /\ DOMAIN p = Fields /\ LineOK(p.args)
    /\ p.c \in BOOLEAN /\ p.S \in BOOLEAN /\ p.output \in Named(first) \union {None}
    /\ p.inputs \in Seq(Named(first)) /\ p.next \in Nat \ {0}
    /\ p.had_error \in BOOLEAN /\ p.failed \in BOOLEAN /\ p.said \in BOOLEAN
    /\ p.objects \in Seq(DOMAIN first)

\* Where the memory has an input being compiled.
Compiling(p) == p.at \in {"compile", "reject", "emit", "assemble", "assembled"}

\* How far an invocation is.
StageOK(p) ==
    /\ p.at \in {"usage", "args", "exit"} \/ ~Contradictory(p)
    /\ Compiling(p) => p.next <= Len(p.inputs)
    /\ p.at \in {"usage", "args"} => p.status = "running" /\ p.objects = << >>
    /\ p.at \in {"read", "link", "cleanup"} \/ Compiling(p) => p.status = "running"
    /\ p.at = "exit" => p.status = "failure" /\ p.said
    /\ p.at = "returned" => p.status = ExitStatus(p)

Stages == {"usage", "args", "read", "compile", "reject", "emit", "assemble", "assembled",
           "link", "cleanup", "exit", "returned"}

TypeOK ==
    /\ DOMAIN disk = DOMAIN first /\ << "", "a", ".out" >> \in Named(first)
    /\ \A r \in DOMAIN run : MemoryOK(run[r]) /\ StageOK(run[r]) /\ run[r].at \in Stages

-----------------------------------------------------------------------------
LEMMA Becoming ==
  ASSUME NEW r \in DOMAIN run, NEW changed, Becomes(r, changed)
  PROVE  /\ DOMAIN run' = DOMAIN run /\ run'[r] = changed
         /\ \A other \in DOMAIN run : other # r => run'[other] = run[other]
BY DEF Becomes

\* The names of what is made of a file.
LEMMA NamesAreFiles ==
  ASSUME TypeOK, NEW r \in DOMAIN run, NEW p \in Named(first)
  PROVE  /\ AsmFile(r, p) \in DOMAIN first /\ ObjFile(r, p) \in DOMAIN first
         /\ OutFile(r, p) \in DOMAIN first /\ LinkOutput(r) \in DOMAIN first
BY DEF TypeOK, MemoryOK, AsmFile, ObjFile, OutFile, LinkOutput, Named

LEMMA InitTypes == Init => TypeOK
<1> SUFFICES ASSUME Init PROVE TypeOK
  OBVIOUS
<1>1. PICK s \in Situations :
        /\ disk = s.disk /\ first = s.disk
        /\ run = [r \in DOMAIN s.lines |->
                     [at |-> IF s.lines[r] = << >> THEN "usage" ELSE "args", args |-> s.lines[r],
                      c |-> FALSE, S |-> FALSE, output |-> None, inputs |-> << >>,
                      next |-> 1, text |-> Nothing, had_error |-> FALSE,
                      objects |-> << >>, failed |-> FALSE, said |-> FALSE, status |-> "running"]]
  BY DEF Init
<1>2. /\ << "", "a", ".out" >> \in Named(first)
      /\ \A r \in DOMAIN run : LineOK(s.lines[r])
  BY <1>1, DriverAssumption DEF LineOK
<1>3. ASSUME NEW r \in DOMAIN run
      PROVE  MemoryOK(run[r]) /\ StageOK(run[r]) /\ run[r].at \in Stages
  <2>1. LineOK(run[r].args)
    BY <1>1, <1>2
  <2>2. << >> \in Seq(Named(first)) /\ << >> \in Seq(DOMAIN first)
    OBVIOUS
  <2>3. MemoryOK(run[r])
    <3>1. DOMAIN run[r] = Fields
      BY <1>1 DEF Fields
    <3>2. /\ run[r].c \in BOOLEAN /\ run[r].S \in BOOLEAN /\ run[r].had_error \in BOOLEAN
          /\ run[r].failed \in BOOLEAN /\ run[r].said \in BOOLEAN
      BY <1>1
    <3>3. run[r].output = None /\ run[r].next = 1
      BY <1>1
    <3>4. run[r].inputs = << >> /\ run[r].objects = << >>
      BY <1>1
    <3> QED
      BY <2>1, <2>2, <3>1, <3>2, <3>3, <3>4 DEF MemoryOK
  <2>4. StageOK(run[r]) /\ run[r].at \in Stages
    BY <1>1 DEF StageOK, Stages, Compiling
  <2> QED
    BY <2>3, <2>4
<1> QED
  BY <1>1, <1>2, <1>3 DEF TypeOK

\* The types after a step, if the invocation's own are right.
LEMMA TypesFrom ==
  ASSUME TypeOK, NEW r \in DOMAIN run, NEW q, Becomes(r, q), MemoryOK(q), StageOK(q),
         q.at \in Stages, DOMAIN disk' = DOMAIN disk, first' = first
  PROVE  TypeOK'
<1>1. /\ DOMAIN run' = DOMAIN run /\ run'[r] = q
      /\ \A other \in DOMAIN run : other # r => run'[other] = run[other]
  BY Becoming
<1>2. \A p : (MemoryOK(p) => MemoryOK(p)') /\ (StageOK(p) => StageOK(p)')
  BY DEF MemoryOK, LineOK, StageOK, Contradictory, Compiling, ExitStatus
<1>3. ASSUME NEW other \in DOMAIN run
      PROVE  /\ MemoryOK(run'[other]) /\ StageOK(run'[other]) /\ run'[other].at \in Stages
  BY <1>1 DEF TypeOK
<1> QED
  BY <1>1, <1>2, <1>3 DEF TypeOK

\* A file that is written is one there is a content for.
LEMMA DiskDomain ==
  /\ Kept => DOMAIN disk' = DOMAIN disk /\ first' = first
  /\ \A p, content : Writing(p, content) => DOMAIN disk' = DOMAIN disk /\ first' = first
BY DEF Kept, Writing

\* A line that was partly parsed.
LEMMA RestOfLine ==
  ASSUME NEW args, LineOK(args), args # << >>
  PROVE  /\ LineOK(Tail(args))
         /\ Head(args) \notin Option => Head(args) \in Named(first)
         /\ Len(args) > 1 => LineOK(SubSeq(args, 3, Len(args)))
         /\ Len(args) > 1 /\ Head(args) = << "-o" >> => args[2] \in Named(first)
<1> DEFINE n == Len(args)
           A == Option \union Named(first)
<1>1. args \in Seq(A) /\ n \in Nat \ {0} /\ DOMAIN args = 1 .. n
      /\ \A i \in 1 .. n \ {1} : args[i - 1] = << "-o" >> => args[i] \in Named(first)
  BY DEF LineOK
<1> HIDE DEF A
<1>2. /\ Tail(args) \in Seq(A) /\ Len(Tail(args)) = n - 1
      /\ \A i \in 1 .. n - 1 : Tail(args)[i] = args[i + 1]
  BY <1>1
<1>3. LineOK(Tail(args))
  <2>1. ASSUME NEW i \in DOMAIN Tail(args) \ {1}, Tail(args)[i - 1] = << "-o" >>
        PROVE  Tail(args)[i] \in Named(first)
    <3>1. i \in 1 .. n - 1 /\ i - 1 \in 1 .. n - 1 /\ (i - 1) + 1 = i /\ i + 1 \in 1 .. n \ {1}
          /\ (i + 1) - 1 = i
      BY <1>1, <1>2
    <3>2. Tail(args)[i - 1] = args[i] /\ Tail(args)[i] = args[i + 1]
      BY <1>2, <3>1
    <3> QED
      BY <1>1, <2>1, <3>1, <3>2
  <2> QED
    BY <1>2, <2>1 DEF LineOK, A
<1>4. Head(args) = args[1] /\ args[1] \in A
  BY <1>1
<1>5. ASSUME n > 1 PROVE LineOK(SubSeq(args, 3, n))
  <2> DEFINE t == SubSeq(args, 3, n)
  <2>1. t \in Seq(A) /\ Len(t) = n - 2 /\ \A i \in 1 .. n - 2 : t[i] = args[i + 2]
    BY <1>1, <1>5
  <2> HIDE DEF t
  <2>2. ASSUME NEW i \in DOMAIN t \ {1}, t[i - 1] = << "-o" >>
        PROVE  t[i] \in Named(first)
    <3>1. i \in 1 .. n - 2 /\ i - 1 \in 1 .. n - 2 /\ (i - 1) + 2 = i + 1 /\ i + 2 \in 1 .. n \ {1}
          /\ (i + 2) - 1 = i + 1
      BY <1>1, <2>1
    <3>2. t[i - 1] = args[i + 1] /\ t[i] = args[i + 2]
      BY <2>1, <3>1
    <3> QED
      BY <1>1, <2>2, <3>1, <3>2
  <2>3. LineOK(t)
    BY <2>1, <2>2 DEF LineOK, A
  <2> QED
    BY <2>3 DEF t
<1>6. ASSUME n > 1, Head(args) = << "-o" >> PROVE args[2] \in Named(first)
  <2>1. 2 \in 1 .. n \ {1} /\ 2 - 1 = 1
    BY <1>1, <1>6
  <2> QED
    BY <1>1, <1>4, <1>6, <2>1
<1> QED
  BY <1>3, <1>4, <1>5, <1>6 DEF A

\* An invocation that ends with a message.
LEMMA FatalIs ==
  ASSUME TypeOK, NEW r \in DOMAIN run
  PROVE  /\ MemoryOK(Fatal(r)) /\ StageOK(Fatal(r)) /\ Fatal(r).at = "exit"
         /\ \A field \in Fields \ {"at", "status", "said"} : Fatal(r)[field] = run[r][field]
<1>1. MemoryOK(run[r]) /\ StageOK(run[r])
  BY DEF TypeOK
<1> DEFINE q == Fatal(r)
<1>2. /\ DOMAIN q = Fields /\ q.at = "exit" /\ q.status = "failure" /\ q.said = TRUE
      /\ \A field \in Fields \ {"at", "status", "said"} : q[field] = run[r][field]
  BY <1>1 DEF MemoryOK, Fields, Fatal, Exit
<1> HIDE DEF q
<1>3. /\ q.args = run[r].args /\ q.c = run[r].c /\ q.S = run[r].S /\ q.output = run[r].output
      /\ q.inputs = run[r].inputs /\ q.next = run[r].next /\ q.had_error = run[r].had_error
      /\ q.failed = run[r].failed /\ q.objects = run[r].objects
  BY <1>2 DEF Fields
<1>4. MemoryOK(q)
  BY <1>1, <1>2, <1>3 DEF MemoryOK
<1>5. StageOK(q)
  BY <1>2 DEF StageOK, Compiling
<1> QED
  BY <1>2, <1>4, <1>5 DEF q

LEMMA FatalTypes ==
  ASSUME TypeOK, NEW r \in DOMAIN run, Becomes(r, Fatal(r)), Kept
  PROVE  TypeOK'
BY FatalIs, TypesFrom, DiskDomain DEF Stages

\* What cc, failing, does to its output.
Spoilt(path) == \/ Kept
                \/ \E left \in {Nothing, << "text", << >> >>} : Writing(path, left)

LEMMA CommandTypes ==
  ASSUME TypeOK, NEW r \in DOMAIN run, NEW path, CommandFails(r, path)
  PROVE  TypeOK' /\ Spoilt(path) /\ Becomes(r, Fatal(r)) /\ DOMAIN disk' = DOMAIN disk /\ first' = first
<1>1. Spoilt(path) /\ Becomes(r, Fatal(r))
  BY DEF CommandFails, Spoilt
<1>2. DOMAIN disk' = DOMAIN disk /\ first' = first
  BY <1>1, DiskDomain DEF Spoilt
<1> QED
  BY <1>1, <1>2, FatalIs, TypesFrom DEF Stages

LEMMA ParseArgTypes ==
  ASSUME TypeOK, NEW r, ParseArg(r)
  PROVE  TypeOK'
<1> DEFINE args == run[r].args
           taken == [run[r] EXCEPT !.args = Tail(args)]
<1>1. /\ r \in DOMAIN run /\ run[r].at = "args" /\ args # << >> /\ Kept
      /\ MemoryOK(run[r]) /\ StageOK(run[r])
  BY DEF ParseArg, At, TypeOK
<1>2. LineOK(args)
  BY <1>1 DEF MemoryOK
<1>3. /\ LineOK(Tail(args))
      /\ Head(args) \notin Option => Head(args) \in Named(first)
      /\ Len(args) > 1 => LineOK(SubSeq(args, 3, Len(args)))
      /\ Len(args) > 1 /\ Head(args) = << "-o" >> => args[2] \in Named(first)
  BY <1>1, <1>2, RestOfLine
<1>4. ASSUME NEW q, Becomes(r, q), DOMAIN q = Fields, LineOK(q.args), q.c \in BOOLEAN, q.S \in BOOLEAN,
             q.output \in Named(first) \union {None}, q.inputs \in Seq(Named(first)),
             \A field \in Fields \ {"args", "c", "S", "output", "inputs"} : q[field] = run[r][field]
      PROVE  TypeOK'
  <2>1. /\ q.at = "args" /\ q.next = run[r].next /\ q.had_error = run[r].had_error
        /\ q.failed = run[r].failed /\ q.objects = run[r].objects /\ q.said = run[r].said
        /\ q.status = run[r].status
    BY <1>1, <1>4 DEF Fields
  <2>2. MemoryOK(q)
    BY <1>1, <1>4, <2>1 DEF MemoryOK
  <2>3. StageOK(q) /\ q.at \in Stages
    BY <1>1, <2>1 DEF StageOK, Stages, Compiling
  <2> QED
    BY <1>1, <1>4, <2>2, <2>3, TypesFrom, DiskDomain
<1> HIDE DEF args
<1>5. DOMAIN run[r] = Fields
  BY <1>1 DEF MemoryOK
<1>6. /\ run[r].c \in BOOLEAN /\ run[r].S \in BOOLEAN
      /\ run[r].output \in Named(first) \union {None} /\ run[r].inputs \in Seq(Named(first))
  BY <1>1 DEF MemoryOK
<1>7. CASE Becomes(r, [taken EXCEPT !.c = TRUE])
  BY <1>3, <1>4, <1>5, <1>6, <1>7 DEF Fields
<1>8. CASE Becomes(r, [taken EXCEPT !.S = TRUE])
  BY <1>3, <1>4, <1>5, <1>6, <1>8 DEF Fields
<1>9. CASE /\ Head(args) = << "-o" >> /\ Len(args) > 1
           /\ Becomes(r, [run[r] EXCEPT !.output = args[2], !.args = SubSeq(args, 3, Len(args))])
  BY <1>3, <1>4, <1>5, <1>6, <1>9 DEF Fields
<1>10. CASE Head(args) \notin Option /\ Becomes(r, [taken EXCEPT !.inputs = Append(@, Head(args))])
  <2>1. Append(run[r].inputs, Head(args)) \in Seq(Named(first))
    BY <1>3, <1>6, <1>10
  <2> QED
    BY <1>3, <1>4, <1>5, <1>6, <1>10, <2>1 DEF Fields
<1> QED
  BY <1>1, <1>7, <1>8, <1>9, <1>10, FatalTypes DEF ParseArg, args

-----------------------------------------------------------------------------
(* What the steps after parsing do to the memory.                          *)

\* What was parsed stays.
SameLine(p, q) == /\ DOMAIN q = Fields /\ q.args = p.args /\ q.c = p.c /\ q.S = p.S
                  /\ q.output = p.output /\ q.inputs = p.inputs

\* A memory q made of p.
Made(p, q, at, next, had_error, objects, failed) ==
    /\ SameLine(p, q) /\ q.at = at /\ q.next = next
    /\ q.had_error = had_error /\ q.objects = objects /\ q.failed = failed

\* The memory of r changes, but for text, said and status; no other does.
Moved(r, at, next, had_error, objects, failed) ==
    /\ Made(run[r], run'[r], at, next, had_error, objects, failed)
    /\ DOMAIN run' = DOMAIN run
    /\ \A other \in DOMAIN run : other # r => run'[other] = run[other]

Ended(r) == /\ Moved(r, "exit", run[r].next, run[r].had_error, run[r].objects, run[r].failed)
            /\ run'[r].status = "failure"

LEMMA FatalMoves ==
  ASSUME TypeOK, NEW r \in DOMAIN run, Becomes(r, Fatal(r))
  PROVE  Ended(r)
<1>1. run'[r] = Fatal(r)
  BY Becoming
<1>2. DOMAIN run[r] = Fields
  BY DEF TypeOK, MemoryOK
<1>3. /\ DOMAIN Fatal(r) = Fields /\ Fatal(r).at = "exit" /\ Fatal(r).status = "failure"
      /\ \A field \in Fields \ {"at", "status", "said"} : Fatal(r)[field] = run[r][field]
  BY <1>2 DEF Fatal, Exit, Fields
<1>4. SameLine(run[r], Fatal(r))
  BY <1>3 DEF SameLine, Fields
<1> QED
  BY <1>1, <1>3, <1>4, Becoming DEF Ended, Moved, Made, Fields

\* The steps with what they move, one by one.
LEMMA ArgsParsedMoves ==
  ASSUME TypeOK, NEW r, ArgsParsed(r)
  PROVE  /\ r \in DOMAIN run /\ run[r].at = "args" /\ Kept
         /\ \/ Ended(r) /\ TypeOK'
            \/ /\ ~Contradictory(run[r])
               /\ Moved(r, "read", run[r].next, run[r].had_error, run[r].objects, run[r].failed)
               /\ run'[r].said = run[r].said /\ run'[r].status = run[r].status
<1>1. r \in DOMAIN run /\ run[r].at = "args" /\ Kept /\ DOMAIN run[r] = Fields
  BY DEF ArgsParsed, At, TypeOK, MemoryOK
<1>2. CASE Contradictory(run[r])
  BY <1>1, <1>2, FatalMoves, FatalTypes DEF ArgsParsed
<1>3. CASE ~Contradictory(run[r])
  BY <1>1, <1>3, Becoming DEF ArgsParsed, Moved, Made, SameLine, Fields
<1> QED
  BY <1>1, <1>2, <1>3

LEMMA ReadFileMoves ==
  ASSUME TypeOK, NEW r, ReadFile(r)
  PROVE  /\ r \in DOMAIN run /\ run[r].at = "read" /\ Kept /\ run[r].next <= Len(run[r].inputs)
         /\ \/ Ended(r) /\ TypeOK'
            \/ /\ Moved(r, "compile", run[r].next, run[r].had_error, run[r].objects, run[r].failed)
               /\ run'[r].said = run[r].said /\ run'[r].status = run[r].status
               /\ run'[r].text = disk[Current(r)] /\ disk[Current(r)] # Nothing
<1>1. /\ r \in DOMAIN run /\ run[r].at = "read" /\ Kept /\ run[r].next <= Len(run[r].inputs)
      /\ DOMAIN run[r] = Fields
  BY DEF ReadFile, At, TypeOK, MemoryOK
<1> DEFINE content == disk[Current(r)]
           q == [run[r] EXCEPT !.at = "compile", !.text = content]
<1>2. CASE content = Nothing
  BY <1>1, <1>2, FatalMoves, FatalTypes DEF ReadFile
<1>3. CASE content # Nothing
  <2>1. Becomes(r, q)
    BY <1>3 DEF ReadFile
  <2> HIDE DEF content
  <2>2. Made(run[r], q, "compile", run[r].next, run[r].had_error, run[r].objects, run[r].failed)
    BY <1>1 DEF Made, SameLine, Fields
  <2>3. q.said = run[r].said /\ q.status = run[r].status /\ q.text = content
    BY <1>1 DEF Fields
  <2> HIDE DEF q
  <2>4. /\ Moved(r, "compile", run[r].next, run[r].had_error, run[r].objects, run[r].failed)
        /\ run'[r].said = run[r].said /\ run'[r].status = run[r].status
        /\ run'[r].text = content
    BY <1>1, <2>1, <2>2, <2>3, Becoming DEF Moved
  <2> QED
    BY <1>1, <1>3, <2>4 DEF content
<1> QED
  BY <1>2, <1>3

LEMMA AnalyzeMoves ==
  ASSUME TypeOK, NEW r, Analyze(r)
  PROVE  /\ r \in DOMAIN run /\ run[r].at = "compile" /\ Kept
         /\ LET bad == run[r].had_error \/ run[r].text[1] # "program"
            IN /\ Moved(r, IF bad THEN "reject" ELSE "emit", run[r].next, bad,
                        run[r].objects, run[r].failed)
               /\ run'[r].said = (run[r].said \/ run[r].text[1] # "program")
         /\ run'[r].status = run[r].status /\ run'[r].text = run[r].text
<1>1. r \in DOMAIN run /\ run[r].at = "compile" /\ Kept /\ DOMAIN run[r] = Fields
  BY DEF Analyze, At, TypeOK, MemoryOK
<1> DEFINE worse == run[r].text[1] # "program"
           bad == run[r].had_error \/ worse
           q == [run[r] EXCEPT !.at = IF bad THEN "reject" ELSE "emit", !.had_error = bad,
                               !.said = @ \/ worse]
<1>2. Becomes(r, q)
  BY DEF Analyze, HadError
<1> HIDE DEF worse, bad
<1>3. Made(run[r], q, IF bad THEN "reject" ELSE "emit", run[r].next, bad, run[r].objects, run[r].failed)
  BY <1>1 DEF Made, SameLine, Fields
<1>4. q.said = (run[r].said \/ worse) /\ q.status = run[r].status /\ q.text = run[r].text
  BY <1>1 DEF Fields
<1> HIDE DEF q
<1>5. /\ Moved(r, IF bad THEN "reject" ELSE "emit", run[r].next, bad, run[r].objects, run[r].failed)
      /\ run'[r].said = (run[r].said \/ worse) /\ run'[r].status = run[r].status
      /\ run'[r].text = run[r].text
  BY <1>1, <1>2, <1>3, <1>4, Becoming DEF Moved
<1> QED
  BY <1>1, <1>5 DEF bad, worse

LEMMA RejectMoves ==
  ASSUME TypeOK, NEW r, Reject(r)
  PROVE  /\ r \in DOMAIN run /\ run[r].at = "reject" /\ Removing(AsmFile(r, Current(r)))
         /\ Moved(r, "read", run[r].next + 1, run[r].had_error, run[r].objects, TRUE)
         /\ run'[r].said = run[r].said /\ run'[r].status = run[r].status
<1>1. r \in DOMAIN run /\ run[r].at = "reject" /\ DOMAIN run[r] = Fields
  BY DEF Reject, At, TypeOK, MemoryOK
<1> DEFINE q == [NextInput(r) EXCEPT !.failed = TRUE]
<1>2. Made(run[r], q, "read", run[r].next + 1, run[r].had_error, run[r].objects, TRUE)
  BY <1>1 DEF Made, SameLine, Fields, NextInput
<1>3. q.said = run[r].said /\ q.status = run[r].status
  BY <1>1 DEF Fields, NextInput
<1>4. Becomes(r, q)
  BY DEF Reject
<1> HIDE DEF q
<1>5. Removing(AsmFile(r, Current(r)))
  BY DEF Reject
<1> QED
  BY <1>1, <1>2, <1>3, <1>4, <1>5, Becoming DEF Moved

\* The outputs once the current one is noted.
Noted(r) == Append(run[r].objects, OutFile(r, Current(r)))

LEMMA EmitMoves ==
  ASSUME TypeOK, NEW r, Emit(r)
  PROVE  /\ r \in DOMAIN run /\ run[r].at = "emit"
         /\ Writing(AsmFile(r, Current(r)), << "asm", run[r].text[2] >>)
         /\ IF run[r].S
            THEN Moved(r, "read", run[r].next + 1, run[r].had_error, Noted(r), run[r].failed)
            ELSE Moved(r, "assemble", run[r].next, run[r].had_error, run[r].objects, run[r].failed)
         /\ run'[r].said = run[r].said /\ run'[r].status = run[r].status
         /\ run'[r].text = run[r].text
<1>1. r \in DOMAIN run /\ run[r].at = "emit" /\ DOMAIN run[r] = Fields
  BY DEF Emit, At, TypeOK, MemoryOK
<1>2. Writing(AsmFile(r, Current(r)), << "asm", run[r].text[2] >>)
  BY DEF Emit
<1>3. CASE run[r].S
  <2> DEFINE q == [NextInput(r) EXCEPT !.objects = Noted(r)]
  <2>1. Becomes(r, q)
    BY <1>1, <1>3 DEF Emit, Compiled, Noted, NextInput, Fields
  <2>2. Made(run[r], q, "read", run[r].next + 1, run[r].had_error, Noted(r), run[r].failed)
    BY <1>1 DEF Made, SameLine, NextInput, Fields
  <2>3. q.said = run[r].said /\ q.status = run[r].status /\ q.text = run[r].text
    BY <1>1 DEF NextInput, Fields
  <2> HIDE DEF q
  <2> QED
    BY <1>1, <1>2, <1>3, <2>1, <2>2, <2>3, Becoming DEF Moved
<1>4. CASE ~run[r].S
  <2> DEFINE q == [run[r] EXCEPT !.at = "assemble"]
  <2>1. Becomes(r, q)
    BY <1>4 DEF Emit
  <2>2. Made(run[r], q, "assemble", run[r].next, run[r].had_error, run[r].objects, run[r].failed)
    BY <1>1 DEF Made, SameLine, Fields
  <2>3. q.said = run[r].said /\ q.status = run[r].status /\ q.text = run[r].text
    BY <1>1 DEF Fields
  <2> HIDE DEF q
  <2> QED
    BY <1>1, <1>2, <1>4, <2>1, <2>2, <2>3, Becoming DEF Moved
<1> QED
  BY <1>3, <1>4

LEMMA AssembleMoves ==
  ASSUME TypeOK, NEW r, Assemble(r)
  PROVE  /\ r \in DOMAIN run /\ run[r].at = "assemble"
         /\ \/ Ended(r) /\ Spoilt(ObjFile(r, Current(r))) /\ TypeOK'
            \/ /\ disk[AsmFile(r, Current(r))][1] = "asm"
               /\ AsmFile(r, Current(r)) # ObjFile(r, Current(r))
               /\ Writing(ObjFile(r, Current(r)), << "object", disk[AsmFile(r, Current(r))][2] >>)
               /\ Moved(r, "assembled", run[r].next, run[r].had_error, run[r].objects, run[r].failed)
               /\ run'[r].said = run[r].said /\ run'[r].status = run[r].status
               /\ run'[r].text = run[r].text
<1>1. r \in DOMAIN run /\ run[r].at = "assemble" /\ DOMAIN run[r] = Fields
  BY DEF Assemble, At, TypeOK, MemoryOK
<1>2. CASE CommandFails(r, ObjFile(r, Current(r)))
  BY <1>1, <1>2, FatalMoves, CommandTypes
<1>3. CASE Becomes(r, [run[r] EXCEPT !.at = "assembled"])
  <2>1. /\ Moved(r, "assembled", run[r].next, run[r].had_error, run[r].objects, run[r].failed)
        /\ run'[r].said = run[r].said /\ run'[r].status = run[r].status
        /\ run'[r].text = run[r].text
    BY <1>1, <1>3, Becoming DEF Moved, Made, SameLine, Fields
  <2> QED
    BY <1>1, <1>2, <2>1 DEF Assemble
<1> QED
  BY <1>1, <1>2, <1>3 DEF Assemble

LEMMA RemoveAsmMoves ==
  ASSUME TypeOK, NEW r, RemoveAsm(r)
  PROVE  /\ r \in DOMAIN run /\ run[r].at = "assembled" /\ Removing(AsmFile(r, Current(r)))
         /\ Moved(r, "read", run[r].next + 1, run[r].had_error, Noted(r), run[r].failed)
         /\ run'[r].said = run[r].said /\ run'[r].status = run[r].status
<1>1. r \in DOMAIN run /\ run[r].at = "assembled" /\ DOMAIN run[r] = Fields
  BY DEF RemoveAsm, At, TypeOK, MemoryOK
<1>2. Removing(AsmFile(r, Current(r)))
  BY DEF RemoveAsm
<1> DEFINE q == [NextInput(r) EXCEPT !.objects = Noted(r)]
<1>3. Becomes(r, q)
  BY <1>1 DEF RemoveAsm, Compiled, Noted, NextInput, Fields
<1>4. Made(run[r], q, "read", run[r].next + 1, run[r].had_error, Noted(r), run[r].failed)
  BY <1>1 DEF Made, SameLine, NextInput, Fields
<1>5. q.said = run[r].said /\ q.status = run[r].status
  BY <1>1 DEF NextInput, Fields
<1> HIDE DEF q
<1> QED
  BY <1>1, <1>2, <1>3, <1>4, <1>5, Becoming DEF Moved

LEMMA InputsDoneMoves ==
  ASSUME TypeOK, NEW r, InputsDone(r)
  PROVE  /\ r \in DOMAIN run /\ run[r].at = "read" /\ run[r].next > Len(run[r].inputs) /\ Kept
         /\ Moved(r, IF MayLink(r) THEN "link" ELSE "cleanup", run[r].next, run[r].had_error,
                  run[r].objects, run[r].failed)
         /\ run'[r].said = run[r].said /\ run'[r].status = run[r].status
<1>1. /\ r \in DOMAIN run /\ run[r].at = "read" /\ DOMAIN run[r] = Fields
      /\ run[r].next > Len(run[r].inputs) /\ Kept
  BY DEF InputsDone, AllRead, At, TypeOK, MemoryOK
<1> QED
  BY <1>1, Becoming DEF InputsDone, Moved, Made, SameLine, Fields

\* The code of the objects, one after the other.
AllCode(r) == FlattenSeq([i \in DOMAIN run[r].objects |-> disk[run[r].objects[i]][2]])

LEMMA LinkMoves ==
  ASSUME TypeOK, NEW r, Link(r)
  PROVE  /\ r \in DOMAIN run /\ run[r].at = "link"
         /\ \/ Ended(r) /\ Spoilt(LinkOutput(r)) /\ TypeOK'
            \/ /\ \A i \in DOMAIN run[r].objects : /\ disk[run[r].objects[i]][1] = "object"
                                                   /\ run[r].objects[i] # LinkOutput(r)
               /\ Writing(LinkOutput(r), << "executable", AllCode(r) >>)
               /\ Moved(r, "cleanup", run[r].next, run[r].had_error, run[r].objects, run[r].failed)
               /\ run'[r].said = run[r].said /\ run'[r].status = run[r].status
<1>1. r \in DOMAIN run /\ run[r].at = "link" /\ DOMAIN run[r] = Fields
  BY DEF Link, At, TypeOK, MemoryOK
<1>2. CASE CommandFails(r, LinkOutput(r))
  BY <1>1, <1>2, FatalMoves, CommandTypes
<1>3. CASE Becomes(r, [run[r] EXCEPT !.at = "cleanup"])
  <2>1. /\ Moved(r, "cleanup", run[r].next, run[r].had_error, run[r].objects, run[r].failed)
        /\ run'[r].said = run[r].said /\ run'[r].status = run[r].status
    BY <1>1, <1>3, Becoming DEF Moved, Made, SameLine, Fields
  <2> QED
    BY <1>1, <1>2, <2>1 DEF Link, AllCode
<1> QED
  BY <1>1, <1>2, <1>3 DEF Link

LEMMA RemoveObjectMoves ==
  ASSUME TypeOK, NEW r, RemoveObject(r)
  PROVE  /\ r \in DOMAIN run /\ run[r].at = "cleanup" /\ run[r].objects # << >>
         /\ IF Linking(r) THEN Removing(Head(run[r].objects)) ELSE Kept
         /\ Moved(r, "cleanup", run[r].next, run[r].had_error, Tail(run[r].objects), run[r].failed)
         /\ run'[r].said = run[r].said /\ run'[r].status = run[r].status
<1>1. r \in DOMAIN run /\ run[r].at = "cleanup" /\ DOMAIN run[r] = Fields
  BY DEF RemoveObject, At, TypeOK, MemoryOK
<1> QED
  BY <1>1, Becoming DEF RemoveObject, Moved, Made, SameLine, Fields

LEMMA ReturnMoves ==
  ASSUME TypeOK, NEW r, Return(r)
  PROVE  /\ r \in DOMAIN run /\ run[r].at = "cleanup" /\ run[r].objects = << >> /\ Kept
         /\ Moved(r, "returned", run[r].next, run[r].had_error, run[r].objects, run[r].failed)
         /\ run'[r].said = run[r].said /\ run'[r].status = ExitStatus(run[r])
<1>1. r \in DOMAIN run /\ run[r].at = "cleanup" /\ DOMAIN run[r] = Fields
  BY DEF Return, At, TypeOK, MemoryOK
<1> DEFINE q == [Exit(r, ExitStatus(run[r])) EXCEPT !.at = "returned"]
<1>2. Made(run[r], q, "returned", run[r].next, run[r].had_error, run[r].objects, run[r].failed)
  BY <1>1 DEF Made, SameLine, Fields, Exit
<1>3. q.said = run[r].said /\ q.status = ExitStatus(run[r])
  BY <1>1 DEF Fields, Exit
<1>4. Becomes(r, q)
  BY DEF Return
<1> HIDE DEF q
<1>5. run[r].objects = << >> /\ Kept
  BY DEF Return
<1> QED
  BY <1>1, <1>2, <1>3, <1>4, <1>5, Becoming DEF Moved

\* A step that goes on with the build from memory that has its types.
MoveOK(r, at, next, had_error, objects, failed) ==
    /\ r \in DOMAIN run /\ at \in Stages \ {"usage", "args", "exit"}
    /\ next \in Nat \ {0} /\ had_error \in BOOLEAN
    /\ objects \in Seq(DOMAIN first) /\ failed \in BOOLEAN
    /\ Moved(r, at, next, had_error, objects, failed) /\ run'[r].said \in BOOLEAN
    /\ ~Contradictory(run[r])
    /\ at \in {"compile", "reject", "emit", "assemble", "assembled"} => next <= Len(run[r].inputs)
    /\ IF at = "returned" THEN run'[r].status = ExitStatus(run'[r])
       ELSE run'[r].status = "running"
    /\ DOMAIN disk' = DOMAIN disk /\ first' = first

\* The types after one of these steps.
LEMMA MovedTypes ==
  ASSUME TypeOK, NEW r, NEW at, NEW next, NEW had_error, NEW objects, NEW failed,
         MoveOK(r, at, next, had_error, objects, failed)
  PROVE  TypeOK'
<1> USE DEF MoveOK
<1> DEFINE q == run'[r]
<1>1. /\ Made(run[r], q, at, next, had_error, objects, failed) /\ DOMAIN run' = DOMAIN run
      /\ \A other \in DOMAIN run : other # r => run'[other] = run[other]
  BY DEF Moved
<1>2. MemoryOK(run[r]) /\ StageOK(run[r])
  BY DEF TypeOK
<1> HIDE DEF q
<1>3. /\ DOMAIN q = Fields /\ q.args = run[r].args /\ q.c = run[r].c /\ q.S = run[r].S
      /\ q.output = run[r].output /\ q.inputs = run[r].inputs /\ q.at = at /\ q.next = next
      /\ q.had_error = had_error /\ q.objects = objects /\ q.failed = failed
  BY <1>1 DEF Made, SameLine
<1>4. MemoryOK(q)
  BY <1>2, <1>3 DEF MemoryOK, q
<1>5. ~Contradictory(q)
  BY <1>3 DEF Contradictory
<1>6. StageOK(q)
  BY <1>3, <1>5 DEF StageOK, Compiling, q
<1>7. \A p : (MemoryOK(p) => MemoryOK(p)') /\ (StageOK(p) => StageOK(p)')
  BY DEF MemoryOK, LineOK, StageOK, Contradictory, Compiling, ExitStatus
<1>8. ASSUME NEW other \in DOMAIN run
      PROVE  MemoryOK(run'[other]) /\ StageOK(run'[other]) /\ run'[other].at \in Stages
  BY <1>1, <1>3, <1>4, <1>6 DEF TypeOK, q
<1> QED
  BY <1>1, <1>7, <1>8 DEF TypeOK

\* The input being compiled and its files.
LEMMA CurrentIsInput ==
  ASSUME TypeOK, NEW r \in DOMAIN run, run[r].next <= Len(run[r].inputs)
  PROVE  /\ run[r].next \in DOMAIN run[r].inputs /\ Current(r) \in Named(first)
         /\ Noted(r) \in Seq(DOMAIN first)
<1>1. run[r].inputs \in Seq(Named(first)) /\ run[r].next \in Nat \ {0} /\ run[r].objects \in Seq(DOMAIN first)
  BY DEF TypeOK, MemoryOK
<1>2. run[r].next \in DOMAIN run[r].inputs /\ Current(r) \in Named(first)
  BY <1>1 DEF Current
<1>3. OutFile(r, Current(r)) \in DOMAIN first
  BY <1>2, NamesAreFiles
<1> QED
  BY <1>1, <1>2, <1>3 DEF Noted

LEMMA TailIsSequence ==
  ASSUME NEW A, NEW s \in Seq(A), s # << >>
  PROVE  Tail(s) \in Seq(A)
OBVIOUS

LEMMA StepTypes ==
  ASSUME TypeOK, NEW r, Step(r)
  PROVE  TypeOK'
<1>1. CASE Usage(r)
  BY <1>1, FatalTypes DEF Usage, At
<1>2. CASE ParseArg(r)
  BY <1>2, ParseArgTypes
<1>3. ASSUME r \in DOMAIN run
      PROVE  /\ run[r].next \in Nat \ {0} /\ run[r].next + 1 \in Nat \ {0}
             /\ run[r].had_error \in BOOLEAN /\ run[r].failed \in BOOLEAN
             /\ run[r].said \in BOOLEAN /\ run[r].objects \in Seq(DOMAIN first)
             /\ StageOK(run[r])
  <2>1. MemoryOK(run[r]) /\ StageOK(run[r])
    BY <1>3 DEF TypeOK
  <2>2. run[r].next \in Nat \ {0} /\ run[r].objects \in Seq(DOMAIN first)
    BY <2>1 DEF MemoryOK
  <2> QED
    BY <2>1, <2>2 DEF MemoryOK
<1>4. CASE ArgsParsed(r)
  <2>1. /\ r \in DOMAIN run /\ DOMAIN disk' = DOMAIN disk /\ first' = first
    BY <1>4, ArgsParsedMoves, DiskDomain
  <2>2. \/ TypeOK'
        \/ MoveOK(r, "read", run[r].next, run[r].had_error, run[r].objects, run[r].failed)
    BY <1>3, <1>4, <2>1, ArgsParsedMoves DEF StageOK, Stages, MoveOK
  <2> QED
    BY <2>2, MovedTypes
<1>5. CASE ReadFile(r)
  <2>1. /\ r \in DOMAIN run /\ DOMAIN disk' = DOMAIN disk /\ first' = first
    BY <1>5, ReadFileMoves, DiskDomain
  <2>2. \/ TypeOK'
        \/ MoveOK(r, "compile", run[r].next, run[r].had_error, run[r].objects, run[r].failed)
    BY <1>3, <1>5, <2>1, ReadFileMoves DEF StageOK, Stages, MoveOK
  <2> QED
    BY <2>2, MovedTypes
<1>6. CASE Analyze(r)
  <2>1. /\ r \in DOMAIN run /\ run[r].at = "compile" /\ DOMAIN disk' = DOMAIN disk /\ first' = first
    BY <1>6, AnalyzeMoves, DiskDomain
  <2>2. ~Contradictory(run[r]) /\ run[r].next <= Len(run[r].inputs) /\ run[r].status = "running"
    BY <1>3, <2>1 DEF StageOK, Compiling
  <2>3. {"reject", "emit"} \subseteq Stages \ {"usage", "args", "exit", "returned"}
    BY DEF Stages
  <2>4. run'[r].said \in BOOLEAN /\ run'[r].status = "running"
    BY <1>6, <2>2, AnalyzeMoves
  <2>5. CASE run[r].had_error \/ run[r].text[1] # "program"
    <3>1. Moved(r, "reject", run[r].next, TRUE, run[r].objects, run[r].failed)
      BY <1>6, <2>5, AnalyzeMoves
    <3>2. MoveOK(r, "reject", run[r].next, TRUE, run[r].objects, run[r].failed)
      BY <1>3, <2>1, <2>2, <2>3, <2>4, <3>1 DEF MoveOK
    <3> QED
      BY <3>2, MovedTypes
  <2>6. CASE ~(run[r].had_error \/ run[r].text[1] # "program")
    <3>1. Moved(r, "emit", run[r].next, FALSE, run[r].objects, run[r].failed)
      BY <1>6, <2>6, AnalyzeMoves
    <3>2. MoveOK(r, "emit", run[r].next, FALSE, run[r].objects, run[r].failed)
      BY <1>3, <2>1, <2>2, <2>3, <2>4, <3>1 DEF MoveOK
    <3> QED
      BY <3>2, MovedTypes
  <2> QED
    BY <2>5, <2>6
<1>7. CASE Reject(r)
  <2>1. /\ r \in DOMAIN run /\ DOMAIN disk' = DOMAIN disk /\ first' = first
    BY <1>7, RejectMoves, DiskDomain DEF Removing
  <2>2. MoveOK(r, "read", run[r].next + 1, run[r].had_error, run[r].objects, TRUE)
    BY <1>3, <1>7, <2>1, RejectMoves DEF StageOK, Stages, Compiling, MoveOK
  <2> QED
    BY <2>2, MovedTypes
<1>8. CASE Emit(r)
  <2>1. /\ r \in DOMAIN run /\ run[r].at = "emit" /\ DOMAIN disk' = DOMAIN disk /\ first' = first
    BY <1>8, EmitMoves, DiskDomain
  <2>2. /\ ~Contradictory(run[r]) /\ run[r].next <= Len(run[r].inputs)
        /\ run[r].status = "running" /\ Noted(r) \in Seq(DOMAIN first)
    BY <1>3, <2>1, CurrentIsInput DEF StageOK, Compiling
  <2>3. {"read", "assemble"} \subseteq Stages \ {"usage", "args", "exit", "returned"}
    BY DEF Stages
  <2>4. /\ run'[r].said \in BOOLEAN /\ run'[r].status = "running"
        /\ IF run[r].S
           THEN Moved(r, "read", run[r].next + 1, run[r].had_error, Noted(r), run[r].failed)
           ELSE Moved(r, "assemble", run[r].next, run[r].had_error, run[r].objects, run[r].failed)
    BY <1>3, <1>8, <2>1, <2>2, EmitMoves
  <2>5. CASE run[r].S
    <3>1. Moved(r, "read", run[r].next + 1, run[r].had_error, Noted(r), run[r].failed)
      BY <2>4, <2>5
    <3>2. MoveOK(r, "read", run[r].next + 1, run[r].had_error, Noted(r), run[r].failed)
      BY <1>3, <2>1, <2>2, <2>3, <2>4, <3>1 DEF MoveOK
    <3> QED
      BY <3>2, MovedTypes
  <2>6. CASE ~run[r].S
    <3>1. Moved(r, "assemble", run[r].next, run[r].had_error, run[r].objects, run[r].failed)
      BY <2>4, <2>6
    <3>2. MoveOK(r, "assemble", run[r].next, run[r].had_error, run[r].objects, run[r].failed)
      BY <1>3, <2>1, <2>2, <2>3, <2>4, <3>1 DEF MoveOK
    <3> QED
      BY <3>2, MovedTypes
  <2> QED
    BY <2>5, <2>6
<1>9. CASE Assemble(r)
  <2>1. /\ r \in DOMAIN run /\ run[r].at = "assemble" /\ DOMAIN disk' = DOMAIN disk /\ first' = first
    BY <1>9, AssembleMoves, DiskDomain DEF Spoilt
  <2>2. /\ ~Contradictory(run[r]) /\ run[r].next <= Len(run[r].inputs) /\ run[r].status = "running"
    BY <1>3, <2>1 DEF StageOK, Compiling
  <2>3. "assembled" \in Stages \ {"usage", "args", "exit", "returned"}
    BY DEF Stages
  <2>4. \/ TypeOK'
        \/ /\ Moved(r, "assembled", run[r].next, run[r].had_error, run[r].objects, run[r].failed)
           /\ run'[r].said = run[r].said /\ run'[r].status = run[r].status
    BY <1>9, AssembleMoves
  <2>5. TypeOK' \/ MoveOK(r, "assembled", run[r].next, run[r].had_error, run[r].objects, run[r].failed)
    BY <1>3, <2>1, <2>2, <2>3, <2>4 DEF MoveOK
  <2> QED
    BY <2>5, MovedTypes
<1>10. CASE RemoveAsm(r)
  <2>1. /\ r \in DOMAIN run /\ run[r].at = "assembled" /\ DOMAIN disk' = DOMAIN disk /\ first' = first
    BY <1>10, RemoveAsmMoves, DiskDomain DEF Removing
  <2>2. /\ ~Contradictory(run[r]) /\ run[r].status = "running" /\ Noted(r) \in Seq(DOMAIN first)
    BY <1>3, <2>1, CurrentIsInput DEF StageOK, Compiling
  <2>3. "read" \in Stages \ {"usage", "args", "exit", "returned"}
    BY DEF Stages
  <2>4. MoveOK(r, "read", run[r].next + 1, run[r].had_error, Noted(r), run[r].failed)
    BY <1>3, <1>10, <2>1, <2>2, <2>3, RemoveAsmMoves DEF MoveOK
  <2> QED
    BY <2>4, MovedTypes
<1>11. CASE InputsDone(r)
  <2>1. /\ r \in DOMAIN run /\ DOMAIN disk' = DOMAIN disk /\ first' = first
    BY <1>11, InputsDoneMoves, DiskDomain
  <2>2. MoveOK(r, IF MayLink(r) THEN "link" ELSE "cleanup",
              run[r].next, run[r].had_error, run[r].objects, run[r].failed)
    BY <1>3, <1>11, <2>1, InputsDoneMoves DEF StageOK, Stages, MoveOK
  <2> QED
    BY <2>2, MovedTypes
<1>12. CASE Link(r)
  <2>1. /\ r \in DOMAIN run /\ run[r].at = "link" /\ DOMAIN disk' = DOMAIN disk /\ first' = first
    BY <1>12, LinkMoves, DiskDomain DEF Spoilt
  <2>2. ~Contradictory(run[r]) /\ run[r].status = "running"
    BY <1>3, <2>1 DEF StageOK
  <2>3. "cleanup" \in Stages \ {"usage", "args", "exit", "returned"}
    BY DEF Stages
  <2>4. \/ TypeOK'
        \/ /\ Moved(r, "cleanup", run[r].next, run[r].had_error, run[r].objects, run[r].failed)
           /\ run'[r].said = run[r].said /\ run'[r].status = run[r].status
    BY <1>12, LinkMoves
  <2>5. TypeOK' \/ MoveOK(r, "cleanup", run[r].next, run[r].had_error, run[r].objects, run[r].failed)
    BY <1>3, <2>1, <2>2, <2>3, <2>4 DEF MoveOK
  <2> QED
    BY <2>5, MovedTypes
<1>13. CASE RemoveObject(r)
  <2>1. /\ r \in DOMAIN run /\ run[r].at = "cleanup" /\ run[r].objects # << >>
        /\ DOMAIN disk' = DOMAIN disk /\ first' = first
    BY <1>13, RemoveObjectMoves, DiskDomain DEF Removing
  <2>2. Tail(run[r].objects) \in Seq(DOMAIN first)
    BY <1>3, <2>1, TailIsSequence
  <2>3. MoveOK(r, "cleanup", run[r].next, run[r].had_error, Tail(run[r].objects), run[r].failed)
    BY <1>3, <1>13, <2>1, <2>2, RemoveObjectMoves DEF StageOK, Stages, MoveOK
  <2> QED
    BY <2>3, MovedTypes
<1>14. CASE Return(r)
  <2>1. run'[r].status = ExitStatus(run'[r])
    BY <1>14, ReturnMoves DEF ExitStatus, Moved, Made
  <2>2. /\ r \in DOMAIN run /\ run[r].at = "cleanup"
        /\ Moved(r, "returned", run[r].next, run[r].had_error, run[r].objects, run[r].failed)
        /\ run'[r].said = run[r].said /\ DOMAIN disk' = DOMAIN disk /\ first' = first
    BY <1>14, ReturnMoves, DiskDomain
  <2>3. "returned" \in Stages \ {"usage", "args", "exit"} /\ ~Contradictory(run[r])
    BY <1>3, <2>2 DEF StageOK, Stages
  <2>4. MoveOK(r, "returned", run[r].next, run[r].had_error, run[r].objects, run[r].failed)
    BY <1>3, <2>1, <2>2, <2>3 DEF MoveOK
  <2> QED
    BY <2>4, MovedTypes
<1> QED
  BY <1>1, <1>2, <1>4, <1>5, <1>6, <1>7, <1>8, <1>9, <1>10, <1>11, <1>12, <1>13, <1>14 DEF Step

LEMMA NextTypes == TypeOK /\ [Next]_vars => TypeOK'
<1>1. ASSUME TypeOK, UNCHANGED vars PROVE TypeOK'
  <2>1. first' = first /\ run' = run /\ disk' = disk
    BY <1>1 DEF vars
  <2>2. \A p : (MemoryOK(p) => MemoryOK(p)') /\ (StageOK(p) => StageOK(p)')
    BY <2>1 DEF MemoryOK, LineOK, StageOK, Contradictory, Compiling, ExitStatus
  <2> QED
    BY <1>1, <2>1, <2>2 DEF TypeOK
<1> QED
  BY <1>1, StepTypes DEF Next

-----------------------------------------------------------------------------
(* The names an invocation uses, from its memory.                          *)
AsmOf(m, p) == IF m.S /\ m.output # None THEN m.output ELSE ReplaceExt(p, ".s")
ObjOf(m, p) == IF m.c /\ m.output # None THEN m.output ELSE ReplaceExt(p, ".o")
OutOf(m, p) == IF m.S THEN AsmOf(m, p) ELSE ObjOf(m, p)
LinkOf(m) == IF m.output = None THEN << "", "a", ".out" >> ELSE m.output
Links(m) == ~m.c /\ ~m.S
CurrentOf(m) == m.inputs[m.next]
TempsOf(m) == UNION {{AsmOf(m, p), OutOf(m, p)} : p \in ToSet(m.inputs)}
WritesOf(m) == TempsOf(m) \union (IF Links(m) THEN {LinkOf(m)} ELSE {})

LEMMA Names ==
  ASSUME NEW r
  PROVE  /\ \A p : /\ AsmFile(r, p) = AsmOf(run[r], p) /\ ObjFile(r, p) = ObjOf(run[r], p)
                   /\ OutFile(r, p) = OutOf(run[r], p)
         /\ LinkOutput(r) = LinkOf(run[r]) /\ (Linking(r) <=> Links(run[r]))
         /\ Current(r) = CurrentOf(run[r]) /\ Reads(r) = ToSet(run[r].inputs)
         /\ Writes(r) = WritesOf(run[r])
<1>1. \A p : /\ AsmFile(r, p) = AsmOf(run[r], p) /\ ObjFile(r, p) = ObjOf(run[r], p)
             /\ OutFile(r, p) = OutOf(run[r], p)
  BY DEF AsmFile, ObjFile, OutFile, AsmOf, ObjOf, OutOf
<1>2. /\ LinkOutput(r) = LinkOf(run[r]) /\ (Linking(r) <=> Links(run[r]))
      /\ Current(r) = CurrentOf(run[r]) /\ Reads(r) = ToSet(run[r].inputs)
  BY DEF LinkOutput, LinkOf, Linking, Links, Current, CurrentOf, Reads
<1>3. Writes(r) = WritesOf(run[r])
  <2>1. {{AsmFile(r, p), OutFile(r, p)} : p \in Reads(r)}
          = {{AsmOf(run[r], p), OutOf(run[r], p)} : p \in ToSet(run[r].inputs)}
    BY <1>1, <1>2
  <2>2. UNION {{AsmFile(r, p), OutFile(r, p)} : p \in Reads(r)} = TempsOf(run[r])
    BY <2>1, Zenon DEF TempsOf
  <2>3. (IF Linking(r) THEN {LinkOutput(r)} ELSE {})
          = (IF Links(run[r]) THEN {LinkOf(run[r])} ELSE {})
    BY <1>2
  <2> DEFINE A == UNION {{AsmFile(r, p), OutFile(r, p)} : p \in Reads(r)}
             B == IF Linking(r) THEN {LinkOutput(r)} ELSE {}
  <2>4. Writes(r) = A \union B
    BY DEF Writes
  <2>5. WritesOf(run[r]) = A \union B
    <3>1. A = TempsOf(run[r])
      BY <2>2
    <3> HIDE DEF A
    <3> QED
      BY <2>3, <3>1 DEF WritesOf
  <2> QED
    BY <2>4, <2>5
<1> QED
  BY <1>1, <1>2, <1>3

LEMMA SameNames ==
  ASSUME NEW p, NEW q, SameLine(p, q)
  PROVE  /\ \A x : AsmOf(q, x) = AsmOf(p, x) /\ ObjOf(q, x) = ObjOf(p, x) /\ OutOf(q, x) = OutOf(p, x)
         /\ LinkOf(q) = LinkOf(p) /\ (Links(q) <=> Links(p)) /\ q.inputs = p.inputs
         /\ TempsOf(q) = TempsOf(p) /\ WritesOf(q) = WritesOf(p)
<1>1. \A x : AsmOf(q, x) = AsmOf(p, x) /\ ObjOf(q, x) = ObjOf(p, x) /\ OutOf(q, x) = OutOf(p, x)
  BY DEF SameLine, AsmOf, ObjOf, OutOf
<1>2. LinkOf(q) = LinkOf(p) /\ (Links(q) <=> Links(p)) /\ q.inputs = p.inputs
  BY DEF SameLine, LinkOf, Links
<1> QED
  BY <1>1, <1>2 DEF TempsOf, WritesOf

\* Names are told apart by their base name and extension.
LEMMA NamesDiffer ==
  /\ \A p, x : ReplaceExt(p, ".s") # ReplaceExt(x, ".o")
  /\ \A p, x, ext : ReplaceExt(p, ext) = ReplaceExt(x, ext) <=> p[2] = x[2]
BY DEF ReplaceExt

\* An invocation that parsed its line and has not ended early.
Parsed(m) == m.at \notin {"usage", "args"}
Working(m) == Parsed(m) /\ m.at # "exit"
Collecting(m) == Compiling(m) \/ m.at \in {"read", "link"}
Finishing(m) == m.at \in {"link", "cleanup", "returned"}

StartOK(m) == ~Parsed(m) => m.next = 1 /\ ~m.had_error /\ ~m.failed /\ ~m.said

\* A program that was read is what was there at first.
TextOK(m, f) ==
    /\ m.text = << "program", << CurrentOf(m) >> >>
    /\ f[CurrentOf(m)][1] = "program"

\* The outputs so far are those of the first inputs, which are programs.
Collected(m, f) ==
    /\ Len(m.objects) <= Len(m.inputs)
    /\ \A i \in 1 .. Len(m.objects) : /\ m.objects[i] = OutOf(m, m.inputs[i])
                                      /\ f[m.inputs[i]][1] = "program"
    /\ IF m.had_error THEN Len(m.objects) < Len(m.inputs) ELSE Len(m.objects) = m.next - 1

\* How far an invocation came, f being the disk at first: what it does, it
\* does whatever the others do.
ProgressOK(m, f) ==
    Working(m) =>
        /\ \A i \in DOMAIN m.objects : \E p \in ToSet(m.inputs) : m.objects[i] = OutOf(m, p)
        /\ IF m.at = "reject" THEN m.had_error ELSE m.failed <=> m.had_error
        /\ ~m.had_error => ~m.said
        /\ m.at = "link" => Links(m) /\ ~m.failed
        /\ Finishing(m) => m.next > Len(m.inputs)
        /\ ~m.had_error => \A i \in 1 .. Len(m.inputs) : i < m.next => f[m.inputs[i]][1] = "program"
        /\ m.at = "compile" /\ m.text[1] = "program" => TextOK(m, f)
        /\ m.at \in {"emit", "assemble", "assembled"} => ~m.had_error /\ TextOK(m, f)
        /\ m.at \in {"assemble", "assembled"} => ~m.S
        /\ m.at = "returned" => m.objects = << >>
        /\ m.next <= Len(m.inputs) + 1
        /\ Collecting(m) => Collected(m, f)

\* Every input was compiled.
Complete(m) == m.next > Len(m.inputs) /\ ~m.failed

\* One that ended early without a failure before, if all was compiled, had
\* programs only.
EndOK(m, f) == m.at = "exit" /\ Complete(m) => \A i \in 1 .. Len(m.inputs) : f[m.inputs[i]][1] = "program"

\* What an invocation may have written.
HasWritten(m) ==
    TempsOf(m) \union (IF Links(m) /\ m.at \in {"cleanup", "returned", "exit"} /\ Complete(m)
                       THEN {LinkOf(m)} ELSE {})

\* A file holds what it did at first, or what cc, an invocation or a removal
\* left there. Only an invocation that is past parsing changes one.
FirstOK == \A p \in DOMAIN first : \/ first[p] = Nothing \/ first[p] = << "program", << p >> >>
                                   \/ first[p] = << "text", << >> >>
DiskOK ==
    \A p \in DOMAIN disk :
        \/ disk[p] = first[p]
        \/ /\ disk[p][1] \in {"none", "text", "asm", "object", "executable"}
           /\ \E r \in DOMAIN run : Parsed(run[r]) /\ p \in HasWritten(run[r])

\* The others, if past parsing, write none of an invocation's files.
Undisturbed(r) ==
    \A other \in DOMAIN run \ {r} :
        Parsed(run[other]) =>
            WritesOf(run[other]) \intersect (WritesOf(run[r]) \union ToSet(run[r].inputs)) = {}

LEMMA ApartIsUndisturbed ==
  ASSUME NEW r, Apart(r)
  PROVE  Undisturbed(r)
BY Names DEF Apart, Undisturbed

ControlInv ==
    /\ TypeOK /\ FirstOK /\ DiskOK
    /\ \A r \in DOMAIN run : StartOK(run[r]) /\ ProgressOK(run[r], first) /\ EndOK(run[r], first)

-----------------------------------------------------------------------------
LEMMA InitControls == Init => ControlInv
<1> SUFFICES ASSUME Init PROVE ControlInv
  OBVIOUS
<1>1. PICK s \in Situations :
        /\ disk = s.disk /\ first = s.disk
        /\ run = [r \in DOMAIN s.lines |->
                     [at |-> IF s.lines[r] = << >> THEN "usage" ELSE "args", args |-> s.lines[r],
                      c |-> FALSE, S |-> FALSE, output |-> None, inputs |-> << >>,
                      next |-> 1, text |-> Nothing, had_error |-> FALSE,
                      objects |-> << >>, failed |-> FALSE, said |-> FALSE, status |-> "running"]]
  BY DEF Init
<1>2. FirstOK
  BY <1>1, DriverAssumption DEF FirstOK
<1>3. ASSUME NEW r \in DOMAIN run
      PROVE  StartOK(run[r]) /\ ProgressOK(run[r], first) /\ EndOK(run[r], first)
  BY <1>1 DEF StartOK, ProgressOK, EndOK, Parsed, Working
<1> QED
  BY <1>1, <1>2, <1>3, InitTypes DEF ControlInv, DiskOK

\* The rest of a sequence.
LEMMA OfTail ==
  ASSUME NEW A, NEW s \in Seq(A), s # << >>
  PROVE  /\ \A i \in DOMAIN Tail(s) : \E j \in DOMAIN s : Tail(s)[i] = s[j]
         /\ \A j \in DOMAIN s : s[j] = Head(s) \/ \E i \in DOMAIN Tail(s) : Tail(s)[i] = s[j]
<1>1. PICK n \in Nat : n = Len(s)
  OBVIOUS
<1>2. /\ DOMAIN s = 1 .. n /\ DOMAIN Tail(s) = 1 .. n - 1 /\ Head(s) = s[1]
      /\ \A i \in 1 .. n - 1 : Tail(s)[i] = s[i + 1]
  BY <1>1
<1>3. \A i \in 1 .. n - 1 : i + 1 \in 1 .. n
  OBVIOUS
<1>4. \A j \in 1 .. n : j # 1 => j - 1 \in 1 .. n - 1 /\ (j - 1) + 1 = j
  OBVIOUS
<1> QED
  BY <1>2, <1>3, <1>4

\* One more output is collected.
LEMMA Noting ==
  ASSUME NEW A, NEW s \in Seq(A), NEW x \in A
  PROVE  /\ Len(Append(s, x)) = Len(s) + 1 /\ DOMAIN Append(s, x) = 1 .. Len(s) + 1
         /\ \A i \in 1 .. Len(s) : Append(s, x)[i] = s[i]
         /\ Append(s, x)[Len(s) + 1] = x
OBVIOUS

LEMMA CollectedOneMore ==
  ASSUME NEW m, NEW q, NEW f, Collected(m, f), SameLine(m, q), m.next \in Nat \ {0},
         m.next <= Len(m.inputs), m.inputs \in Seq(Named(f)), m.objects \in Seq(DOMAIN f),
         OutOf(m, CurrentOf(m)) \in DOMAIN f, ~m.had_error, ~q.had_error, f[CurrentOf(m)][1] = "program",
         q.objects = Append(m.objects, OutOf(m, CurrentOf(m))), q.next = m.next + 1
  PROVE  Collected(q, f)
<1>1. \A x : OutOf(q, x) = OutOf(m, x)
  BY SameNames
<1>2. PICK k \in Nat : k = Len(m.objects)
  OBVIOUS
<1>3. PICK l \in Nat : l = Len(m.inputs)
  OBVIOUS
<1>4. k = m.next - 1 /\ q.inputs = m.inputs /\ \A i \in 1 .. k : /\ m.objects[i] = OutOf(m, m.inputs[i])
                                                                /\ f[m.inputs[i]][1] = "program"
  BY <1>2 DEF Collected, SameLine
<1>5. /\ Len(q.objects) = k + 1 /\ q.objects[k + 1] = OutOf(m, m.inputs[m.next])
      /\ \A i \in 1 .. k : q.objects[i] = m.objects[i]
  BY <1>2, Noting DEF CurrentOf
<1>6. ASSUME NEW i \in 1 .. k + 1
      PROVE  q.objects[i] = OutOf(q, q.inputs[i]) /\ f[q.inputs[i]][1] = "program"
  <2>1. CASE i = k + 1
    <3>1. i = m.next /\ q.inputs[i] = m.inputs[m.next] /\ CurrentOf(m) = m.inputs[m.next]
      BY <1>4, <2>1 DEF CurrentOf
    <3>2. q.objects[i] = OutOf(m, m.inputs[m.next])
      BY <1>5, <2>1
    <3> QED
      BY <1>1, <3>1, <3>2
  <2>2. CASE i # k + 1
    <3>1. i \in 1 .. k
      BY <2>2
    <3> QED
      BY <1>1, <1>4, <1>5, <3>1
  <2> QED
    BY <2>1, <2>2
<1>7. k + 1 <= l /\ k + 1 = q.next - 1
  BY <1>3, <1>4
<1>8. Len(q.objects) <= Len(q.inputs) /\ Len(q.objects) = q.next - 1
  BY <1>3, <1>4, <1>5, <1>7
<1> QED
  BY <1>5, <1>6, <1>8 DEF Collected

\* A program on the disk is one that was there at first.
LEMMA ReadIsFirst ==
  ASSUME TypeOK, FirstOK, DiskOK, NEW p \in DOMAIN disk, disk[p][1] = "program"
  PROVE  disk[p] = << "program", << p >> >> /\ first[p] = disk[p]
<1>1. p \in DOMAIN first
  BY DEF TypeOK
<1>2. disk[p] = first[p]
  BY DEF DiskOK
<1>3. first[p][1] = "program"
  BY <1>2
<1>4. Nothing[1] # "program" /\ << "text", << >> >>[1] # "program"
  BY DEF Nothing
<1> QED
  BY <1>1, <1>2, <1>3, <1>4 DEF FirstOK

\* While its line is parsed an invocation touches no file.
LEMMA ParsingIs ==
  ASSUME TypeOK, NEW r, Usage(r) \/ ParseArg(r)
  PROVE  /\ r \in DOMAIN run /\ ~Parsed(run[r]) /\ ~Working(run'[r]) /\ Kept
         /\ StartOK(run[r]) => StartOK(run'[r])
         /\ run'[r].at = "exit" => Ended(r)
         /\ DOMAIN run' = DOMAIN run /\ \A other \in DOMAIN run : other # r => run'[other] = run[other]
<1>1. r \in DOMAIN run /\ run[r].at \in {"usage", "args"} /\ Kept /\ DOMAIN run[r] = Fields
  BY DEF Usage, ParseArg, At, TypeOK, MemoryOK
<1>2. \/ Becomes(r, Fatal(r))
      \/ \E q : /\ Becomes(r, q) /\ q.at = run[r].at /\ q.next = run[r].next
               /\ q.had_error = run[r].had_error /\ q.failed = run[r].failed /\ q.said = run[r].said
  <2> DEFINE args == run[r].args
             taken == [run[r] EXCEPT !.args = Tail(args)]
  <2>1. ASSUME NEW q, Becomes(r, q),
               \A field \in Fields \ {"args", "c", "S", "output", "inputs"} : q[field] = run[r][field]
        PROVE  \E x : /\ Becomes(r, x) /\ x.at = run[r].at /\ x.next = run[r].next
                      /\ x.had_error = run[r].had_error /\ x.failed = run[r].failed /\ x.said = run[r].said
    BY <2>1 DEF Fields
  <2>2. CASE Usage(r) \/ Becomes(r, Fatal(r))
    BY <2>2 DEF Usage
  <2>3. CASE Becomes(r, [taken EXCEPT !.c = TRUE])
    BY <1>1, <2>1, <2>3 DEF Fields
  <2>4. CASE Becomes(r, [taken EXCEPT !.S = TRUE])
    BY <1>1, <2>1, <2>4 DEF Fields
  <2>5. CASE Becomes(r, [run[r] EXCEPT !.output = args[2], !.args = SubSeq(args, 3, Len(args))])
    BY <1>1, <2>1, <2>5 DEF Fields
  <2>6. CASE Becomes(r, [taken EXCEPT !.inputs = Append(@, Head(args))])
    BY <1>1, <2>1, <2>6 DEF Fields
  <2> QED
    BY <2>2, <2>3, <2>4, <2>5, <2>6 DEF ParseArg
<1>3. CASE Becomes(r, Fatal(r))
  BY <1>1, <1>3, FatalIs, FatalMoves, Becoming DEF Parsed, Working, StartOK
<1>4. CASE ~Becomes(r, Fatal(r))
  <2>1. PICK q : /\ Becomes(r, q) /\ q.at = run[r].at /\ q.next = run[r].next
                 /\ q.had_error = run[r].had_error /\ q.failed = run[r].failed /\ q.said = run[r].said
    BY <1>2, <1>4
  <2> QED
    BY <1>1, <2>1, Becoming DEF Parsed, Working, StartOK
<1> QED
  BY <1>3, <1>4

LEMMA ProgressStep ==
  ASSUME ControlInv, NEW r, Step(r)
  PROVE  ProgressOK(run'[r], first)
<1> DEFINE p == run[r]
           q == run'[r]
<1>0. CASE ~Working(q)
  BY <1>0 DEF ProgressOK
<1>1. ASSUME r \in DOMAIN run
      PROVE  /\ TypeOK /\ StartOK(p) /\ ProgressOK(p, first) /\ MemoryOK(p) /\ StageOK(p)
             /\ p.next \in Nat \ {0} /\ p.inputs \in Seq(Named(first)) /\ p.objects \in Seq(DOMAIN first)
  <2>1. MemoryOK(p)
    BY <1>1 DEF ControlInv, TypeOK
  <2> QED
    BY <1>1, <2>1 DEF ControlInv, TypeOK, MemoryOK
<1>2. ASSUME SameLine(p, q)
      PROVE  /\ \A x : OutOf(q, x) = OutOf(p, x)
             /\ (Links(q) <=> Links(p)) /\ q.inputs = p.inputs
             /\ q.next = p.next => CurrentOf(q) = CurrentOf(p)
             /\ q.next = p.next /\ q.text = p.text /\ TextOK(p, first) => TextOK(q, first)
  BY <1>2, SameNames DEF CurrentOf, TextOK
<1>3. ASSUME SameLine(p, q), q.next = p.next, q.objects = p.objects,
             q.had_error = p.had_error, Collected(p, first)
      PROVE  Collected(q, first)
  BY <1>2, <1>3 DEF Collected
<1>4. CASE ArgsParsed(r)
  <2>1. CASE Ended(r)
    BY <1>0, <2>1 DEF Ended, Moved, Made, Working
  <2>2. CASE ~Ended(r)
    <3>1. /\ r \in DOMAIN run /\ p.at = "args" /\ Made(p, q, "read", p.next, p.had_error, p.objects, p.failed)
          /\ q.said = p.said
      BY <1>4, <2>2, ArgsParsedMoves DEF Moved, ControlInv
    <3>2. p.objects = << >> /\ p.next = 1 /\ ~p.had_error /\ ~p.failed /\ ~p.said
      BY <1>1, <3>1 DEF StartOK, StageOK, Parsed
    <3>3. Collected(q, first)
      BY <1>1, <3>1, <3>2 DEF Collected, Made, SameLine
    <3> QED
      BY <3>1, <3>2, <3>3 DEF ProgressOK, Made, Finishing
  <2> QED
    BY <2>1, <2>2
<1>5. CASE ReadFile(r)
  <2>1. CASE Ended(r)
    BY <1>0, <2>1 DEF Ended, Moved, Made, Working
  <2>2. CASE ~Ended(r)
    <3>1. /\ r \in DOMAIN run /\ p.at = "read" /\ p.next <= Len(p.inputs)
          /\ Made(p, q, "compile", p.next, p.had_error, p.objects, p.failed)
          /\ q.said = p.said /\ q.text = disk[Current(r)]
      BY <1>5, <2>2, ReadFileMoves DEF Moved, ControlInv
    <3>2. Current(r) \in DOMAIN disk
      BY <1>1, <3>1, CurrentIsInput DEF TypeOK, Named
    <3>3. q.text[1] = "program" => TextOK(q, first)
      BY <1>2, <3>1, <3>2, ReadIsFirst, Names DEF Made, TextOK, ControlInv
    <3>4. Collected(q, first)
      BY <1>1, <1>3, <3>1 DEF ProgressOK, Working, Parsed, Collecting, Made
    <3> QED
      BY <1>1, <1>2, <3>1, <3>3, <3>4 DEF ProgressOK, Made, Finishing, Working, Parsed
  <2> QED
    BY <2>1, <2>2
<1>6. CASE Analyze(r)
  <2>1. /\ r \in DOMAIN run /\ p.at = "compile" /\ q.at \in {"reject", "emit"}
        /\ SameLine(p, q) /\ q.next = p.next /\ q.objects = p.objects /\ q.failed = p.failed
        /\ q.text = p.text
        /\ \/ q.at = "reject" /\ q.had_error /\ (p.had_error \/ p.text[1] # "program")
           \/ /\ q.at = "emit" /\ ~q.had_error /\ ~p.had_error /\ p.text[1] = "program"
              /\ q.said => p.said
    BY <1>6, AnalyzeMoves DEF Moved, Made, ControlInv
  <2>2. /\ p.next <= Len(p.inputs) /\ Collected(p, first) /\ (p.text[1] = "program" => TextOK(p, first))
        /\ ~p.had_error => ~p.said
    BY <1>1, <2>1 DEF ProgressOK, Working, Parsed, Collecting, Compiling, StageOK
  <2>3. Collected(q, first)
    BY <1>1, <1>2, <2>1, <2>2 DEF Collected
  <2>4. /\ \A i \in DOMAIN q.objects : \E x \in ToSet(q.inputs) : q.objects[i] = OutOf(q, x)
        /\ ~p.had_error => ~p.failed
        /\ q.next <= Len(q.inputs) + 1
        /\ ~p.had_error => \A i \in 1 .. Len(p.inputs) : i < p.next => first[p.inputs[i]][1] = "program"
    <3>1. /\ \A i \in DOMAIN p.objects : \E x \in ToSet(p.inputs) : p.objects[i] = OutOf(p, x)
          /\ ~p.had_error => ~p.failed
          /\ p.next <= Len(p.inputs) + 1
          /\ ~p.had_error => \A i \in 1 .. Len(p.inputs) : i < p.next => first[p.inputs[i]][1] = "program"
      BY <1>1, <2>1 DEF ProgressOK, Working, Parsed
    <3>2. q.inputs = p.inputs /\ q.objects = p.objects /\ q.next = p.next
          /\ \A x : OutOf(q, x) = OutOf(p, x)
      BY <1>2, <2>1
    <3> QED
      BY <3>1, <3>2
  <2> QED
    BY <1>2, <2>1, <2>2, <2>3, <2>4 DEF ProgressOK, Finishing
<1>7. CASE Reject(r)
  <2>1. /\ r \in DOMAIN run /\ p.at = "reject"
        /\ Made(p, q, "read", p.next + 1, p.had_error, p.objects, TRUE)
    BY <1>7, RejectMoves DEF Moved, ControlInv
  <2>2. p.had_error /\ Collected(p, first)
    BY <1>1, <2>1 DEF ProgressOK, Working, Parsed, Collecting, Compiling
  <2>3. Collected(q, first)
    BY <1>1, <1>2, <2>1, <2>2 DEF Collected, Made
  <2>4. q.next <= Len(q.inputs) + 1
    BY <1>1, <1>2, <2>1 DEF StageOK, Compiling, Made
  <2> QED
    BY <1>1, <1>2, <2>1, <2>2, <2>3, <2>4 DEF ProgressOK, Finishing, Working, Parsed, Made
<1>8. ASSUME r \in DOMAIN run, p.at \in {"emit", "assembled"}, q.said = p.said,
             Made(p, q, "read", p.next + 1, p.had_error, Noted(r), p.failed)
      PROVE  ProgressOK(q, first)
  <2>1. /\ p.next <= Len(p.inputs) /\ Collected(p, first) /\ TextOK(p, first) /\ ~p.had_error
        /\ p.failed <=> p.had_error
        /\ ~p.said
    BY <1>1, <1>8 DEF ProgressOK, Working, Parsed, Collecting, Compiling, StageOK
  <2>2. /\ Noted(r) = Append(p.objects, OutOf(p, CurrentOf(p))) /\ OutOf(p, CurrentOf(p)) \in DOMAIN first
        /\ CurrentOf(p) \in ToSet(p.inputs)
    <3>1. p.next \in DOMAIN p.inputs /\ CurrentOf(p) \in Named(first)
      BY <1>1, <1>8, <2>1, CurrentIsInput, Names
    <3> QED
      BY <1>1, <1>8, <3>1, NamesAreFiles, Names DEF Noted, ToSet, CurrentOf
  <2>3. Collected(q, first)
    BY <1>1, <1>8, <2>1, <2>2, CollectedOneMore DEF Made, TextOK
  <2>4. ASSUME NEW i \in 1 .. Len(p.inputs), i < p.next + 1
        PROVE  first[p.inputs[i]][1] = "program"
    <3>1. i < p.next \/ i = p.next
      BY <1>1, <1>8, <2>4
    <3>2. CASE i < p.next
      BY <1>1, <1>8, <2>1, <3>2 DEF ProgressOK, Working, Parsed
    <3>3. CASE i = p.next
      BY <2>1, <3>3 DEF TextOK, CurrentOf
    <3> QED
      BY <3>1, <3>2, <3>3
  <2>5. ASSUME NEW i \in DOMAIN q.objects
        PROVE  \E x \in ToSet(q.inputs) : q.objects[i] = OutOf(q, x)
    <3>1. /\ \A j \in DOMAIN p.objects : \E x \in ToSet(p.inputs) : p.objects[j] = OutOf(p, x)
          /\ DOMAIN p.objects = 1 .. Len(p.objects) /\ Len(p.objects) \in Nat
      BY <1>1, <1>8 DEF ProgressOK, Working, Parsed
    <3>2. PICK n \in Nat : n = Len(p.objects)
      BY <3>1
    <3>3. /\ q.objects = Append(p.objects, OutOf(p, CurrentOf(p))) /\ q.inputs = p.inputs
          /\ \A x : OutOf(q, x) = OutOf(p, x)
      BY <1>2, <1>8, <2>2 DEF Made
    <3>4. /\ DOMAIN q.objects = 1 .. n + 1 /\ q.objects[n + 1] = OutOf(p, CurrentOf(p))
          /\ \A j \in 1 .. n : q.objects[j] = p.objects[j]
      BY <1>1, <2>2, <3>2, <3>3, Noting
    <3>5. CASE i = n + 1
      BY <2>2, <3>3, <3>4, <3>5
    <3>6. CASE i # n + 1
      <4>1. i \in 1 .. n
        BY <2>5, <3>4, <3>6
      <4> QED
        BY <3>1, <3>2, <3>3, <3>4, <4>1
    <3> QED
      BY <3>5, <3>6
  <2> QED
    BY <1>1, <1>2, <1>8, <2>1, <2>3, <2>4, <2>5 DEF ProgressOK, Finishing, Made
<1>9. CASE Emit(r)
  <2>1. CASE p.S
    BY <1>8, <1>9, <2>1, EmitMoves DEF Moved, ControlInv
  <2>2. CASE ~p.S
    <3>1. /\ r \in DOMAIN run /\ p.at = "emit" /\ q.said = p.said /\ q.text = p.text
          /\ Made(p, q, "assemble", p.next, p.had_error, p.objects, p.failed)
      BY <1>9, <2>2, EmitMoves DEF Moved, ControlInv
    <3>2. Collected(q, first)
      BY <1>1, <1>3, <3>1 DEF ProgressOK, Working, Parsed, Collecting, Compiling, Made
    <3> QED
      BY <1>1, <1>2, <2>2, <3>1, <3>2 DEF ProgressOK, Made, SameLine, Finishing, Working, Parsed
  <2> QED
    BY <2>1, <2>2
<1>10. CASE Assemble(r)
  <2>1. CASE Ended(r)
    BY <1>0, <2>1 DEF Ended, Moved, Made, Working
  <2>2. CASE ~Ended(r)
    <3>1. /\ r \in DOMAIN run /\ p.at = "assemble" /\ q.said = p.said /\ q.text = p.text
          /\ Made(p, q, "assembled", p.next, p.had_error, p.objects, p.failed)
      BY <1>10, <2>2, AssembleMoves DEF Moved, ControlInv
    <3>2. Collected(q, first)
      BY <1>1, <1>3, <3>1 DEF ProgressOK, Working, Parsed, Collecting, Compiling, Made
    <3> QED
      BY <1>1, <1>2, <3>1, <3>2 DEF ProgressOK, Made, SameLine, Finishing, Working, Parsed
  <2> QED
    BY <2>1, <2>2
<1>11. CASE RemoveAsm(r)
  BY <1>8, <1>11, RemoveAsmMoves DEF Moved, ControlInv
<1>12. CASE InputsDone(r)
  <2>1. /\ r \in DOMAIN run /\ p.at = "read" /\ q.said = p.said /\ p.next > Len(p.inputs)
        /\ SameLine(p, q) /\ q.next = p.next /\ q.had_error = p.had_error /\ q.objects = p.objects
        /\ q.failed = p.failed /\ q.at = IF MayLink(r) THEN "link" ELSE "cleanup"
    BY <1>12, InputsDoneMoves DEF Moved, Made, ControlInv
  <2>2. Collected(q, first)
    BY <1>1, <1>3, <2>1 DEF ProgressOK, Working, Parsed, Collecting
  <2>3. q.at = "link" => Links(q) /\ ~q.failed
    BY <1>2, <2>1, Names DEF MayLink
  <2> QED
    BY <1>1, <1>2, <2>1, <2>2, <2>3 DEF ProgressOK, Finishing, Working, Parsed
<1>13. CASE Link(r)
  <2>1. CASE Ended(r)
    BY <1>0, <2>1 DEF Ended, Moved, Made, Working
  <2>2. CASE ~Ended(r)
    <3>1. /\ r \in DOMAIN run /\ p.at = "link" /\ q.said = p.said
          /\ Made(p, q, "cleanup", p.next, p.had_error, p.objects, p.failed)
      BY <1>13, <2>2, LinkMoves DEF Moved, ControlInv
    <3> QED
      BY <1>1, <1>2, <3>1 DEF ProgressOK, Made, Finishing, Collecting, Compiling, Working, Parsed
  <2> QED
    BY <2>1, <2>2
<1>14. CASE RemoveObject(r)
  <2>1. /\ r \in DOMAIN run /\ p.at = "cleanup" /\ q.said = p.said /\ p.objects # << >>
        /\ Made(p, q, "cleanup", p.next, p.had_error, Tail(p.objects), p.failed)
    BY <1>14, RemoveObjectMoves DEF Moved, ControlInv
  <2>2. \A i \in DOMAIN Tail(p.objects) : \E j \in DOMAIN p.objects : Tail(p.objects)[i] = p.objects[j]
    BY <1>1, <2>1, OfTail
  <2> QED
    BY <1>1, <1>2, <2>1, <2>2 DEF ProgressOK, Made, Finishing, Collecting, Compiling, Working, Parsed
<1>15. CASE Return(r)
  <2>1. /\ r \in DOMAIN run /\ p.at = "cleanup" /\ q.said = p.said /\ p.objects = << >>
        /\ Made(p, q, "returned", p.next, p.had_error, p.objects, p.failed)
    BY <1>15, ReturnMoves DEF Moved, ControlInv
  <2>2. /\ Working(p) /\ Finishing(p) /\ ~Compiling(q) /\ ~Collecting(q)
        /\ q.at = "returned" /\ q.objects = << >> /\ q.next = p.next /\ q.inputs = p.inputs
        /\ q.had_error = p.had_error /\ q.failed = p.failed
    BY <2>1 DEF Made, SameLine, Finishing, Collecting, Compiling, Working, Parsed
  <2> QED
    BY <1>1, <1>2, <2>1, <2>2 DEF ProgressOK, Compiling
<1>16. CASE Usage(r) \/ ParseArg(r)
  BY <1>0, <1>16, ParsingIs DEF ControlInv
<1> QED
  BY <1>4, <1>5, <1>6, <1>7, <1>9, <1>10, <1>11, <1>12, <1>13, <1>14, <1>15, <1>16 DEF Step

\* Where an invocation ends early: before an input is over with, or at cc.
LEMMA EndsWhere ==
  ASSUME ControlInv, NEW r, Step(r), run'[r].at = "exit"
  PROVE  /\ r \in DOMAIN run /\ Ended(r)
         /\ \/ run[r].at \in {"usage", "args", "link"} \/ run[r].next <= Len(run[r].inputs)
<1>1. TypeOK
  BY DEF ControlInv
<1>2. CASE Usage(r) \/ ParseArg(r)
  BY <1>1, <1>2, ParsingIs DEF Parsed
<1>3. CASE ArgsParsed(r) \/ ReadFile(r)
  BY <1>1, <1>3, ArgsParsedMoves, ReadFileMoves DEF Moved, Made
<1>4. CASE Analyze(r)
  BY <1>1, <1>4, AnalyzeMoves DEF Moved, Made
<1>5. CASE Reject(r) \/ Emit(r) \/ RemoveAsm(r)
  BY <1>1, <1>5, RejectMoves, EmitMoves, RemoveAsmMoves DEF Moved, Made
<1>6. CASE Assemble(r)
  <2>1. r \in DOMAIN run /\ Ended(r) /\ run[r].at = "assemble"
    BY <1>1, <1>6, AssembleMoves DEF Moved, Made
  <2> QED
    BY <1>1, <2>1 DEF TypeOK, StageOK, Compiling
<1>7. CASE Link(r)
  BY <1>1, <1>7, LinkMoves DEF Moved, Made
<1>8. CASE InputsDone(r) \/ RemoveObject(r) \/ Return(r)
  BY <1>1, <1>8, InputsDoneMoves, RemoveObjectMoves, ReturnMoves DEF Moved, Made
<1> QED
  BY <1>2, <1>3, <1>4, <1>5, <1>6, <1>7, <1>8 DEF Step

LEMMA EndStep ==
  ASSUME ControlInv, NEW r, Step(r)
  PROVE  EndOK(run'[r], first)
<1> DEFINE p == run[r]
           q == run'[r]
<1> SUFFICES ASSUME q.at = "exit", Complete(q)
             PROVE  \A i \in 1 .. Len(q.inputs) : first[q.inputs[i]][1] = "program"
  BY DEF EndOK
<1>1. /\ r \in DOMAIN run /\ Ended(r)
      /\ \/ p.at \in {"usage", "args", "link"} \/ p.next <= Len(p.inputs)
  BY EndsWhere
<1>2. q.inputs = p.inputs /\ p.next > Len(p.inputs) /\ ~p.failed
  BY <1>1 DEF Ended, Moved, Made, SameLine, Complete
<1>3. StartOK(p) /\ ProgressOK(p, first) /\ p.next \in Nat /\ Len(p.inputs) \in Nat
  <2>1. MemoryOK(p)
    BY <1>1 DEF ControlInv, TypeOK
  <2>2. p.inputs \in Seq(Named(first)) /\ p.next \in Nat
    BY <2>1 DEF MemoryOK
  <2> QED
    BY <1>1, <2>2 DEF ControlInv
<1>4. CASE p.at \in {"usage", "args"}
  BY <1>2, <1>3, <1>4 DEF StartOK, Parsed
<1>5. CASE p.at = "link"
  BY <1>2, <1>3, <1>5 DEF ProgressOK, Working, Parsed
<1> QED
  BY <1>1, <1>2, <1>3, <1>4, <1>5

\* What a step may do to the files: it writes one of the invocation's own.
Touches(r) ==
    \E path, content : /\ Writing(path, content) /\ path \in HasWritten(run'[r]) \intersect WritesOf(run[r])
                       /\ content[1] \in {"none", "text", "asm", "object", "executable"}

LEMMA StepFiles ==
  ASSUME ControlInv, NEW r, Step(r)
  PROVE  /\ r \in DOMAIN run /\ DOMAIN run' = DOMAIN run
         /\ \A other \in DOMAIN run : other # r => run'[other] = run[other]
         /\ first' = first /\ (Kept \/ (Parsed(run[r]) /\ Touches(r)))
         /\ Parsed(run[r]) => /\ SameLine(run[r], run'[r]) /\ Parsed(run'[r])
                              /\ HasWritten(run[r]) \subseteq HasWritten(run'[r])
         /\ ~Working(run[r]) => ~Parsed(run[r]) /\ Kept
         /\ StartOK(run'[r])
<1> DEFINE p == run[r]
           q == run'[r]
<1>1. TypeOK /\ (r \in DOMAIN run => StartOK(p) /\ ProgressOK(p, first) /\ StageOK(p) /\ MemoryOK(p))
  BY DEF ControlInv, TypeOK
<1>2. CASE Usage(r) \/ ParseArg(r)
  BY <1>1, <1>2, ParsingIs DEF Working, Kept
<1>3. CASE ArgsParsed(r)
  <2>1. /\ r \in DOMAIN run /\ p.at = "args" /\ Kept /\ q.at \in {"exit", "read"}
        /\ DOMAIN run' = DOMAIN run
        /\ \A other \in DOMAIN run : other # r => run'[other] = run[other]
    BY <1>1, <1>3, ArgsParsedMoves DEF Ended, Moved, Made
  <2> QED
    BY <2>1 DEF Parsed, Working, StartOK, Kept
\* The steps past parsing.
<1>4. ASSUME NEW at \in {"read", "compile", "reject", "emit", "assemble", "assembled", "link",
                         "cleanup", "returned", "exit"},
             NEW next, NEW had_error, NEW objects, NEW failed, Moved(r, at, next, had_error, objects, failed),
             r \in DOMAIN run, Working(p), Kept \/ Touches(r),
             p.at = "cleanup" => at \in {"cleanup", "returned"} /\ failed = p.failed /\ next = p.next,
             p.at # "returned"
      PROVE  /\ DOMAIN run' = DOMAIN run
             /\ \A other \in DOMAIN run : other # r => run'[other] = run[other]
             /\ first' = first /\ (Kept \/ (Parsed(run[r]) /\ Touches(r)))
             /\ Parsed(run[r]) => /\ SameLine(run[r], run'[r]) /\ Parsed(run'[r])
                                  /\ HasWritten(run[r]) \subseteq HasWritten(run'[r])
             /\ ~Working(run[r]) => ~Parsed(run[r]) /\ Kept
             /\ StartOK(run'[r])
  <2>1. /\ SameLine(p, q) /\ q.at = at /\ q.failed = failed /\ q.next = next /\ DOMAIN run' = DOMAIN run
        /\ \A other \in DOMAIN run : other # r => run'[other] = run[other]
    BY <1>4 DEF Moved, Made
  <2>2. Parsed(q) /\ StartOK(q) /\ Parsed(p)
    BY <1>4, <2>1 DEF Parsed, StartOK, Working
  <2>3. HasWritten(p) \subseteq HasWritten(q)
    <3>1. (Links(q) <=> Links(p)) /\ LinkOf(q) = LinkOf(p) /\ TempsOf(q) = TempsOf(p) /\ q.inputs = p.inputs
      BY <2>1, SameNames DEF SameLine
    <3> QED
      BY <1>4, <2>1, <3>1 DEF HasWritten, Complete, Working
  <2>4. first' = first
    BY <1>4 DEF Kept, Touches, Writing
  <2> QED
    BY <1>4, <2>1, <2>2, <2>3, <2>4
<1>5. ASSUME r \in DOMAIN run, p.next <= Len(p.inputs), SameLine(p, q), NEW content,
             content[1] \in {"none", "text", "asm", "object", "executable"},
             \/ Writing(AsmFile(r, Current(r)), content)
             \/ Writing(OutFile(r, Current(r)), content)
      PROVE  Touches(r)
  <2>1. Current(r) \in ToSet(p.inputs)
    BY <1>1, <1>5, CurrentIsInput DEF ToSet, Current
  <2>2. {AsmFile(r, Current(r)), OutFile(r, Current(r))} \subseteq TempsOf(p)
    BY <2>1, Names DEF TempsOf
  <2> QED
    BY <1>5, <2>2, SameNames DEF Touches, HasWritten, WritesOf
<1>6. CASE ReadFile(r)
  BY <1>1, <1>4, <1>6, ReadFileMoves DEF Ended, Working, Parsed
<1>7. CASE Analyze(r)
  <2>1. r \in DOMAIN run /\ p.at = "compile" /\ Kept
    BY <1>1, <1>7, AnalyzeMoves
  <2>2. \E at \in {"reject", "emit"} : \E bad : Moved(r, at, p.next, bad, p.objects, p.failed)
    BY <1>1, <1>7, AnalyzeMoves
  <2> QED
    BY <1>4, <2>1, <2>2 DEF Working, Parsed
<1>8. Nothing[1] = "none"
  BY DEF Nothing
<1>9. CASE Reject(r)
  <2>1. /\ r \in DOMAIN run /\ p.at = "reject" /\ Writing(AsmFile(r, Current(r)), Nothing)
        /\ Moved(r, "read", p.next + 1, p.had_error, p.objects, TRUE)
    BY <1>1, <1>9, RejectMoves DEF Removing
  <2>2. p.next <= Len(p.inputs) /\ SameLine(p, q)
    BY <1>1, <2>1 DEF StageOK, Compiling, Moved, Made
  <2>3. Touches(r)
    BY <1>5, <1>8, <2>1, <2>2
  <2> QED
    BY <1>4, <2>1, <2>3 DEF Working, Parsed
<1>10. CASE Emit(r)
  <2>1. /\ r \in DOMAIN run /\ p.at = "emit"
        /\ Writing(AsmFile(r, Current(r)), << "asm", p.text[2] >>)
    BY <1>1, <1>10, EmitMoves
  <2>2. \E at \in {"read", "assemble"} : \E next, objects :
            Moved(r, at, next, p.had_error, objects, p.failed)
    BY <1>1, <1>10, EmitMoves
  <2>3. p.next <= Len(p.inputs) /\ SameLine(p, q)
    BY <1>1, <2>1, <2>2 DEF StageOK, Compiling, Moved, Made
  <2>4. Touches(r)
    BY <1>5, <2>1, <2>3
  <2> QED
    BY <1>4, <2>1, <2>2, <2>4 DEF Working, Parsed
<1>11. CASE Assemble(r)
  <2>1. r \in DOMAIN run /\ p.at = "assemble" /\ p.next <= Len(p.inputs) /\ ~p.S
    BY <1>1, <1>11, AssembleMoves DEF StageOK, Compiling, ProgressOK, Working, Parsed
  <2>2. ObjFile(r, Current(r)) = OutFile(r, Current(r))
    BY <2>1 DEF OutFile
  <2>3. CASE Ended(r) /\ Spoilt(ObjFile(r, Current(r)))
    <3>1. SameLine(p, q)
      BY <2>3 DEF Ended, Moved, Made
    <3>2. Kept \/ Touches(r)
      BY <1>5, <1>8, <2>1, <2>2, <2>3, <3>1 DEF Spoilt
    <3> QED
      BY <1>4, <2>1, <2>3, <3>2 DEF Ended, Working, Parsed
  <2>4. CASE ~(Ended(r) /\ Spoilt(ObjFile(r, Current(r))))
    <3>1. /\ Writing(ObjFile(r, Current(r)), << "object", disk[AsmFile(r, Current(r))][2] >>)
          /\ Moved(r, "assembled", p.next, p.had_error, p.objects, p.failed)
      BY <1>1, <1>11, <2>4, AssembleMoves
    <3>2. Touches(r)
      BY <1>5, <2>1, <2>2, <3>1 DEF Moved, Made
    <3> QED
      BY <1>4, <2>1, <3>1, <3>2 DEF Working, Parsed
  <2> QED
    BY <2>3, <2>4
<1>12. CASE RemoveAsm(r)
  <2>1. /\ r \in DOMAIN run /\ p.at = "assembled" /\ Writing(AsmFile(r, Current(r)), Nothing)
        /\ Moved(r, "read", p.next + 1, p.had_error, Noted(r), p.failed)
    BY <1>1, <1>12, RemoveAsmMoves DEF Removing
  <2>2. p.next <= Len(p.inputs) /\ SameLine(p, q)
    BY <1>1, <2>1 DEF StageOK, Compiling, Moved, Made
  <2>3. Touches(r)
    BY <1>5, <1>8, <2>1, <2>2
  <2> QED
    BY <1>4, <2>1, <2>3 DEF Working, Parsed
<1>13. CASE InputsDone(r)
  <2>1. r \in DOMAIN run /\ p.at = "read" /\ Kept
    BY <1>1, <1>13, InputsDoneMoves
  <2>2. \E at \in {"link", "cleanup"} : Moved(r, at, p.next, p.had_error, p.objects, p.failed)
    BY <1>1, <1>13, InputsDoneMoves
  <2> QED
    BY <1>4, <2>1, <2>2 DEF Working, Parsed
<1>14. CASE Link(r)
  <2>1. r \in DOMAIN run /\ p.at = "link"
    BY <1>1, <1>14, LinkMoves
  <2>2. Links(p) /\ Complete(p)
    BY <1>1, <2>1 DEF ProgressOK, Working, Parsed, Finishing, Complete
  <2>3. ASSUME NEW at \in {"cleanup", "exit"}, Moved(r, at, p.next, p.had_error, p.objects, p.failed)
        PROVE  LinkOutput(r) \in HasWritten(q) \intersect WritesOf(p)
    <3>1. SameLine(p, q) /\ q.at = at /\ q.next = p.next /\ q.failed = p.failed /\ q.inputs = p.inputs
      BY <2>3 DEF Moved, Made, SameLine
    <3> QED
      BY <2>2, <2>3, <3>1, Names, SameNames DEF HasWritten, WritesOf, Complete
  <2>4. CASE Ended(r) /\ Spoilt(LinkOutput(r))
    <3>1. Kept \/ Touches(r)
      BY <1>8, <2>3, <2>4 DEF Ended, Spoilt, Touches
    <3> QED
      BY <1>4, <2>1, <2>4, <3>1 DEF Ended, Working, Parsed
  <2>5. CASE ~(Ended(r) /\ Spoilt(LinkOutput(r)))
    <3>1. /\ Writing(LinkOutput(r), << "executable", AllCode(r) >>)
          /\ Moved(r, "cleanup", p.next, p.had_error, p.objects, p.failed)
      BY <1>1, <1>14, <2>5, LinkMoves
    <3>2. Touches(r)
      BY <2>3, <3>1 DEF Touches
    <3> QED
      BY <1>4, <2>1, <3>1, <3>2 DEF Working, Parsed
  <2> QED
    BY <2>4, <2>5
<1>15. CASE RemoveObject(r)
  <2>1. /\ r \in DOMAIN run /\ p.at = "cleanup" /\ p.objects # << >>
        /\ Kept \/ Writing(Head(p.objects), Nothing)
        /\ Moved(r, "cleanup", p.next, p.had_error, Tail(p.objects), p.failed)
    BY <1>1, <1>15, RemoveObjectMoves DEF Removing
  <2>2. 1 \in DOMAIN p.objects /\ Head(p.objects) = p.objects[1]
    BY <1>1, <2>1 DEF MemoryOK
  <2>3. \E x \in ToSet(p.inputs) : Head(p.objects) = OutOf(p, x)
    BY <1>1, <2>1, <2>2 DEF ProgressOK, Working, Parsed
  <2>4. Head(p.objects) \in TempsOf(p)
    BY <2>3 DEF TempsOf
  <2>5. Head(p.objects) \in HasWritten(q) \intersect WritesOf(p)
    BY <2>1, <2>4, SameNames DEF HasWritten, WritesOf, Moved, Made
  <2>6. Kept \/ Touches(r)
    BY <1>8, <2>1, <2>5 DEF Touches
  <2> QED
    BY <1>4, <2>1, <2>6 DEF Working, Parsed
<1>16. CASE Return(r)
  BY <1>1, <1>4, <1>16, ReturnMoves DEF Working, Parsed
<1> QED
  BY <1>2, <1>3, <1>6, <1>7, <1>9, <1>10, <1>11, <1>12, <1>13, <1>14, <1>15, <1>16 DEF Step

LEMMA StepControls ==
  ASSUME ControlInv, NEW r, Step(r)
  PROVE  ControlInv'
<1>1. /\ r \in DOMAIN run /\ DOMAIN run' = DOMAIN run
      /\ \A other \in DOMAIN run : other # r => run'[other] = run[other]
      /\ first' = first /\ (Kept \/ Touches(r))
      /\ Parsed(run[r]) => Parsed(run'[r]) /\ HasWritten(run[r]) \subseteq HasWritten(run'[r])
      /\ StartOK(run'[r])
  BY StepFiles
<1>2. ASSUME NEW s \in DOMAIN run
      PROVE  StartOK(run'[s]) /\ ProgressOK(run'[s], first) /\ EndOK(run'[s], first)
  <2>1. CASE s = r
    BY <1>1, <2>1, ProgressStep, EndStep
  <2>2. CASE s # r
    BY <1>1, <2>2 DEF ControlInv
  <2> QED
    BY <2>1, <2>2
<1>3. ASSUME NEW s \in DOMAIN run, Parsed(run[s])
      PROVE  Parsed(run'[s]) /\ HasWritten(run[s]) \subseteq HasWritten(run'[s])
  BY <1>1, <1>3
<1>4. TypeOK'
  BY StepTypes DEF ControlInv
<1>5. ASSUME NEW p \in DOMAIN disk
      PROVE  \/ disk'[p] = first[p]
             \/ /\ disk'[p][1] \in {"none", "text", "asm", "object", "executable"}
                /\ \E s \in DOMAIN run : Parsed(run'[s]) /\ p \in HasWritten(run'[s])
  <2>1. CASE disk'[p] = disk[p]
    BY <1>1, <1>3, <2>1 DEF ControlInv, DiskOK
  <2>2. CASE disk'[p] # disk[p]
    <3>1. Parsed(run[r]) /\ Touches(r)
      BY <2>2, StepFiles DEF Kept
    <3> QED
      BY <1>1, <2>2, <3>1 DEF Touches, Writing
  <2> QED
    BY <2>1, <2>2
<1>6. DiskOK'
  BY <1>1, <1>4, <1>5 DEF DiskOK, TypeOK, ControlInv
<1>7. FirstOK'
  BY <1>1 DEF FirstOK, ControlInv
<1> QED
  BY <1>1, <1>2, <1>4, <1>6, <1>7 DEF ControlInv

LEMMA NextControls == ControlInv /\ [Next]_vars => ControlInv'
<1>1. ASSUME ControlInv, UNCHANGED vars PROVE ControlInv'
  <2>1. TypeOK'
    BY <1>1, NextTypes DEF ControlInv
  <2> QED
    BY <1>1, <2>1 DEF vars, ControlInv, FirstOK, DiskOK
<1> QED
  BY <1>1, StepControls DEF Next

-----------------------------------------------------------------------------
LEMMA HasWrittenItsOwn == \A m : HasWritten(m) \subseteq WritesOf(m) /\ TempsOf(m) \subseteq WritesOf(m)
BY DEF HasWritten, WritesOf

LEMMA ErrorsKeep == ControlInv => ErrorsKeepExecutable
<1> SUFFICES ASSUME ControlInv, NEW r \in DOMAIN run, Linking(r), Apart(r),
                    LinkOutput(r) \notin UNION {{AsmFile(r, p), ObjFile(r, p)} : p \in Reads(r)},
                    disk[LinkOutput(r)] # first[LinkOutput(r)]
             PROVE  /\ Complete(run[r])
                    /\ \A i \in DOMAIN run[r].inputs : first[run[r].inputs[i]][1] = "program"
  BY DEF ErrorsKeepExecutable, Complete
<1> DEFINE m == run[r]
           o == LinkOf(m)
<1>1. o = LinkOutput(r) /\ o \in WritesOf(m) /\ ~m.S
  BY Names DEF WritesOf, Linking
<1>2. o \in DOMAIN disk
  BY <1>1, NamesAreFiles DEF ControlInv, TypeOK, MemoryOK, LinkOutput, Named
<1>3. o \notin TempsOf(m)
  <2>1. {{AsmOf(m, p), OutOf(m, p)} : p \in ToSet(m.inputs)}
          = {{AsmFile(r, p), ObjFile(r, p)} : p \in Reads(r)}
    BY <1>1, Names DEF OutOf
  <2> QED
    BY <1>1, <2>1 DEF TempsOf
<1>4. PICK s \in DOMAIN run : Parsed(run[s]) /\ o \in HasWritten(run[s])
  BY <1>1, <1>2 DEF ControlInv, DiskOK
<1>5. s = r
  BY <1>1, <1>4, ApartIsUndisturbed, HasWrittenItsOwn DEF Undisturbed
<1>6. m.at \in {"cleanup", "returned", "exit"} /\ Complete(m)
  BY <1>3, <1>4, <1>5 DEF HasWritten
<1>7. m.inputs \in Seq(Named(first)) /\ m.next \in Nat \ {0} /\ ProgressOK(m, first) /\ EndOK(m, first)
  BY DEF ControlInv, TypeOK, MemoryOK
<1>8. \A i \in 1 .. Len(m.inputs) : first[m.inputs[i]][1] = "program"
  <2>1. CASE m.at = "exit"
    BY <1>6, <1>7, <2>1 DEF EndOK
  <2>2. CASE m.at # "exit"
    BY <1>6, <1>7, <2>2 DEF ProgressOK, Complete, Working, Parsed
  <2> QED
    BY <2>1, <2>2
<1> QED
  BY <1>6, <1>7, <1>8

\* The executable of an earlier build is as it was until every file of this
\* one has been compiled, whatever fails before, if no other invocation writes
\* this one's files.
THEOREM ErrorsChangeNoExecutable == Spec => []ErrorsKeepExecutable
<1>1. Spec => []ControlInv
  BY InitControls, NextControls, PTL DEF Spec
<1> QED
  BY <1>1, ErrorsKeep, PTL

-----------------------------------------------------------------------------
(* What others have to do with an invocation.                              *)

\* Who is undisturbed was so before.
LEMMA UndisturbedBefore ==
  ASSUME ControlInv, NEW r, Step(r), NEW s \in DOMAIN run, s # r \/ Parsed(run[r]), Undisturbed(s)'
  PROVE  Undisturbed(s)
<1>1. /\ r \in DOMAIN run /\ DOMAIN run' = DOMAIN run
      /\ \A other \in DOMAIN run : other # r => run'[other] = run[other]
      /\ Parsed(run[r]) => SameLine(run[r], run'[r]) /\ Parsed(run'[r])
  BY StepFiles
<1>2. ASSUME NEW other \in DOMAIN run, Parsed(run[other])
      PROVE  /\ Parsed(run'[other]) /\ WritesOf(run'[other]) = WritesOf(run[other])
             /\ run'[other].inputs = run[other].inputs
  BY <1>1, <1>2, SameNames
<1>3. WritesOf(run'[s]) = WritesOf(run[s]) /\ run'[s].inputs = run[s].inputs
  BY <1>1, SameNames
<1> QED
  BY <1>1, <1>2, <1>3 DEF Undisturbed

\* No step of another changes a file of it.
LEMMA OthersLeave ==
  ASSUME ControlInv, NEW r, Step(r), NEW s \in DOMAIN run, s # r, Undisturbed(s)',
         NEW x \in WritesOf(run[s]) \union ToSet(run[s].inputs)
  PROVE  disk'[x] = disk[x]
<1>1. Kept \/ (Parsed(run[r]) /\ Touches(r) /\ r \in DOMAIN run)
  BY StepFiles
<1>2. CASE Kept
  BY <1>2 DEF Kept
<1>3. CASE Parsed(run[r]) /\ Touches(r) /\ r \in DOMAIN run
  <2>1. Undisturbed(s)
    BY UndisturbedBefore
  <2>2. x \notin WritesOf(run[r])
    BY <1>3, <2>1 DEF Undisturbed
  <2> QED
    BY <1>3, <2>2 DEF Touches, Writing
<1> QED
  BY <1>1, <1>2, <1>3

LEMMA InSequence ==
  ASSUME NEW A, NEW s \in Seq(A)
  PROVE  /\ ToSet(s) \subseteq A /\ \A i \in 1 .. Len(s) : s[i] \in ToSet(s)
         /\ \A n \in Nat \ {0} : n <= Len(s) => s[n] \in ToSet(s)
BY DEF ToSet

\* The files of an invocation.
LEMMA OwnFiles ==
  ASSUME TypeOK, NEW r \in DOMAIN run
  PROVE  /\ \A x \in ToSet(run[r].inputs) :
                /\ x \in DOMAIN disk /\ AsmOf(run[r], x) \in DOMAIN disk
                /\ ObjOf(run[r], x) \in DOMAIN disk /\ OutOf(run[r], x) \in DOMAIN disk
                /\ {AsmOf(run[r], x), OutOf(run[r], x)} \subseteq WritesOf(run[r])
                /\ Links(run[r]) => ObjOf(run[r], x) \in WritesOf(run[r])
         /\ LinkOf(run[r]) \in DOMAIN disk
         /\ \A i \in 1 .. Len(run[r].inputs) : run[r].inputs[i] \in ToSet(run[r].inputs)
         /\ run[r].next <= Len(run[r].inputs) => CurrentOf(run[r]) \in ToSet(run[r].inputs)
<1>1. /\ run[r].inputs \in Seq(Named(first)) /\ run[r].next \in Nat \ {0} /\ DOMAIN disk = DOMAIN first
      /\ run[r].output \in Named(first) \union {None} /\ << "", "a", ".out" >> \in Named(first)
  BY DEF TypeOK, MemoryOK
<1>2. ASSUME NEW x \in ToSet(run[r].inputs)
      PROVE  /\ x \in DOMAIN disk /\ AsmOf(run[r], x) \in DOMAIN disk
             /\ ObjOf(run[r], x) \in DOMAIN disk /\ OutOf(run[r], x) \in DOMAIN disk
             /\ {AsmOf(run[r], x), OutOf(run[r], x)} \subseteq WritesOf(run[r])
             /\ Links(run[r]) => ObjOf(run[r], x) \in WritesOf(run[r])
  <2>1. x \in Named(first)
    BY <1>1, InSequence
  <2>2. {AsmOf(run[r], x), OutOf(run[r], x)} \subseteq TempsOf(run[r])
    BY DEF TempsOf
  <2>3. Links(run[r]) => ObjOf(run[r], x) = OutOf(run[r], x)
    BY DEF Links, OutOf
  <2> QED
    BY <1>1, <2>1, <2>2, <2>3, HasWrittenItsOwn, NamesAreFiles, Names DEF Named
<1>3. LinkOf(run[r]) \in DOMAIN disk
  BY <1>1 DEF LinkOf, Named
<1>4. \A i \in 1 .. Len(run[r].inputs) : run[r].inputs[i] \in ToSet(run[r].inputs)
  BY <1>1, InSequence
<1>5. run[r].next <= Len(run[r].inputs) => CurrentOf(run[r]) \in ToSet(run[r].inputs)
  BY <1>1, InSequence DEF CurrentOf
<1> QED
  BY <1>2, <1>3, <1>4, <1>5

\* The inputs an undisturbed invocation does not write itself are as they were.
LEMMA InputsAsAtFirst ==
  ASSUME ControlInv, NEW r \in DOMAIN run, Undisturbed(r),
         ToSet(run[r].inputs) \intersect WritesOf(run[r]) = {}
  PROVE  \A x \in ToSet(run[r].inputs) : disk[x] = first[x]
<1> SUFFICES ASSUME NEW x \in ToSet(run[r].inputs)
             PROVE  disk[x] = first[x]
  OBVIOUS
<1>1. x \in DOMAIN disk
  BY OwnFiles DEF ControlInv
<1>2. \A s \in DOMAIN run : Parsed(run[s]) => x \notin HasWritten(run[s])
  BY HasWrittenItsOwn DEF Undisturbed
<1> QED
  BY <1>1, <1>2 DEF ControlInv, DiskOK

-----------------------------------------------------------------------------
(* Up to the first error.                                                  *)

\* Where nobody writes its inputs, an invocation rejects what was no program.
QuietOK(m, f) ==
    ToSet(m.inputs) \intersect WritesOf(m) = {} =>
        /\ m.at = "compile" => m.text = f[CurrentOf(m)]
        /\ Collecting(m) /\ m.had_error => f[m.inputs[Len(m.objects) + 1]][1] # "program"

QuietInv == \A r \in DOMAIN run : Undisturbed(r) => QuietOK(run[r], first)

LEMMA InitQuiet == Init => QuietInv
<1> SUFFICES ASSUME Init PROVE QuietInv
  OBVIOUS
<1>1. \A r \in DOMAIN run : run[r].at \in {"usage", "args"}
  BY DEF Init
<1> QED
  BY <1>1 DEF QuietInv, QuietOK, Collecting, Compiling

LEMMA QuietStep ==
  ASSUME ControlInv, NEW r, Step(r), Undisturbed(r)', r \in DOMAIN run,
         Parsed(run[r]) => QuietOK(run[r], first)
  PROVE  QuietOK(run'[r], first)
<1> DEFINE p == run[r]
           q == run'[r]
<1>1. /\ TypeOK /\ StartOK(p) /\ ProgressOK(p, first) /\ StageOK(p)
      /\ p.next \in Nat \ {0} /\ p.inputs \in Seq(Named(first)) /\ p.objects \in Seq(DOMAIN first)
  BY DEF ControlInv, TypeOK, MemoryOK
<1>2. CASE ~Working(q)
  BY <1>2 DEF QuietOK, Collecting, Compiling, Working, Parsed
<1>3. CASE Finishing(q) /\ q.at # "link"
  BY <1>3 DEF QuietOK, Finishing, Collecting, Compiling
<1>4. ASSUME SameLine(p, q)
      PROVE  /\ WritesOf(q) = WritesOf(p) /\ q.inputs = p.inputs
             /\ q.next = p.next => CurrentOf(q) = CurrentOf(p)
  BY <1>4, SameNames DEF CurrentOf
\* Steps that collect nothing.
<1>5. ASSUME SameLine(p, q), q.had_error = p.had_error, q.objects = p.objects, Collecting(p), Parsed(p),
             q.at # "compile"
      PROVE  QuietOK(q, first)
  BY <1>4, <1>5 DEF QuietOK
<1>6. CASE ArgsParsed(r)
  BY <1>1, <1>2, <1>6, ArgsParsedMoves DEF QuietOK, Ended, Moved, Made, Working, Parsed, StartOK
<1>7. CASE ReadFile(r)
  <2>1. CASE Ended(r)
    BY <1>2, <2>1 DEF Ended, Moved, Made, Working
  <2>2. CASE ~Ended(r)
    <3>1. /\ p.at = "read" /\ p.next <= Len(p.inputs)
          /\ Made(p, q, "compile", p.next, p.had_error, p.objects, p.failed)
          /\ q.text = disk[CurrentOf(p)]
      BY <1>1, <1>7, <2>2, ReadFileMoves, Names DEF Moved
    <3>2. Undisturbed(r) /\ CurrentOf(p) \in ToSet(p.inputs) /\ SameLine(p, q)
      BY <1>1, <3>1, UndisturbedBefore, OwnFiles DEF Parsed, Made
    <3>3. ToSet(p.inputs) \intersect WritesOf(p) = {} => q.text = first[CurrentOf(p)]
      BY <3>1, <3>2, InputsAsAtFirst
    <3> QED
      BY <1>4, <3>1, <3>2, <3>3 DEF QuietOK, Made, Collecting, Parsed
  <2> QED
    BY <2>1, <2>2
<1>8. CASE Analyze(r)
  <2>1. /\ p.at = "compile" /\ q.at \in {"reject", "emit"}
        /\ SameLine(p, q) /\ q.next = p.next /\ q.objects = p.objects
        /\ q.had_error => p.had_error \/ p.text[1] # "program"
    BY <1>1, <1>8, AnalyzeMoves DEF Moved, Made
  <2>2. Collected(p, first) /\ Parsed(p) /\ Collecting(p)
    BY <1>1, <2>1 DEF ProgressOK, Working, Parsed, Collecting, Compiling
  <2>3. ~p.had_error => p.inputs[Len(p.objects) + 1] = CurrentOf(p)
    BY <1>1, <2>2 DEF Collected, CurrentOf
  <2> QED
    BY <1>4, <2>1, <2>2, <2>3 DEF QuietOK
<1>9. CASE Reject(r)
  BY <1>1, <1>5, <1>9, RejectMoves DEF Moved, Made, Collecting, Compiling, Parsed
<1>10. ASSUME p.at \in {"emit", "assembled"}, q.had_error = p.had_error, q.at # "compile"
       PROVE  QuietOK(q, first)
  BY <1>1, <1>10 DEF QuietOK, ProgressOK, Working, Parsed
<1>11. CASE Emit(r)
  BY <1>1, <1>10, <1>11, EmitMoves DEF Moved, Made
<1>12. CASE Assemble(r)
  BY <1>1, <1>2, <1>5, <1>12, AssembleMoves
     DEF Ended, Moved, Made, Collecting, Compiling, Parsed, Working
<1>13. CASE RemoveAsm(r)
  BY <1>1, <1>10, <1>13, RemoveAsmMoves DEF Moved, Made
<1>14. CASE InputsDone(r)
  BY <1>1, <1>5, <1>14, InputsDoneMoves DEF Moved, Made, Collecting, Parsed
<1>15. CASE Link(r)
  BY <1>1, <1>2, <1>3, <1>15, LinkMoves DEF Ended, Moved, Made, Finishing, Working
<1>16. CASE RemoveObject(r)
  BY <1>1, <1>3, <1>16, RemoveObjectMoves DEF Moved, Made, Finishing
<1>17. CASE Return(r)
  BY <1>1, <1>3, <1>17, ReturnMoves DEF Moved, Made, Finishing
<1>18. CASE Usage(r) \/ ParseArg(r)
  BY <1>1, <1>2, <1>18, ParsingIs
<1> QED
  BY <1>6, <1>7, <1>8, <1>9, <1>11, <1>12, <1>13, <1>14, <1>15, <1>16, <1>17, <1>18 DEF Step

LEMMA NextQuiet == ControlInv /\ QuietInv /\ [Next]_vars => QuietInv'
<1>1. ASSUME QuietInv, UNCHANGED vars PROVE QuietInv'
  BY <1>1 DEF vars, QuietInv, Undisturbed
<1>2. ASSUME ControlInv, QuietInv, NEW r, Step(r) PROVE QuietInv'
  <2>1. /\ r \in DOMAIN run /\ DOMAIN run' = DOMAIN run /\ first' = first
        /\ \A other \in DOMAIN run : other # r => run'[other] = run[other]
    BY <1>2, StepFiles
  <2>2. ASSUME NEW s \in DOMAIN run, Undisturbed(s)'
        PROVE  QuietOK(run'[s], first)
    BY <1>2, <2>1, <2>2, UndisturbedBefore, QuietStep DEF QuietInv
  <2> QED
    BY <2>1, <2>2 DEF QuietInv
<1> QED
  BY <1>1, <1>2 DEF Next

LEMMA CompiledUpTo == ControlInv /\ QuietInv => CompiledUpToFirstError
<1> SUFFICES ASSUME ControlInv, QuietInv, NEW r \in DOMAIN run, AllRead(r), Apart(r),
                    Reads(r) \intersect Writes(r) = {}
             PROVE  LET n == CHOOSE n \in Good(r) : \A m \in Good(r) : m <= n
                    IN /\ run[r].objects = [i \in 1 .. n |-> OutFile(r, run[r].inputs[i])]
                       /\ run[r].failed <=> n < Len(run[r].inputs)
  BY DEF CompiledUpToFirstError
<1> DEFINE p == run[r]
           good(i) == first[p.inputs[i]][1] = "program"
<1>1. /\ ProgressOK(p, first) /\ QuietOK(p, first) /\ p.at = "read" /\ p.next > Len(p.inputs)
      /\ p.inputs \in Seq(Named(first)) /\ p.objects \in Seq(DOMAIN first) /\ p.next \in Nat
      /\ p.failed \in BOOLEAN
  BY ApartIsUndisturbed DEF ControlInv, QuietInv, TypeOK, MemoryOK, AllRead, At
<1>2. PICK k \in Nat, l \in Nat : k = Len(p.objects) /\ l = Len(p.inputs)
  BY <1>1
<1>3. Collected(p, first) /\ (p.failed <=> p.had_error)
  BY <1>1 DEF ProgressOK, Working, Parsed, Collecting
<1>4. /\ k <= l /\ \A i \in 1 .. k : p.objects[i] = OutOf(p, p.inputs[i]) /\ good(i)
      /\ IF p.had_error THEN k < l ELSE k = l
  BY <1>1, <1>2, <1>3 DEF Collected
<1>5. p.had_error => ~good(k + 1)
  BY <1>1, <1>2, Names DEF QuietOK, Collecting
<1> HIDE DEF good
<1>6. Good(r) = {n \in 0 .. l : \A i \in 1 .. n : good(i)}
  BY <1>2 DEF Good, good
<1>7. \A n \in 0 .. l : n \in Good(r) <=> n <= k
  <2>1. ASSUME NEW n \in 0 .. l, n <= k PROVE \A i \in 1 .. n : good(i)
    BY <1>4, <2>1
  <2>2. ASSUME NEW n \in 0 .. l, ~(n <= k) PROVE \E i \in 1 .. n : ~good(i)
    BY <1>4, <1>5, <2>2
  <2> QED
    BY <1>6, <2>1, <2>2
<1>8. Good(r) = 0 .. k
  BY <1>4, <1>6, <1>7
<1>9. k \in Good(r) /\ \A m \in Good(r) : m <= k
  BY <1>8
<1>10. \A n \in Good(r) : (\A m \in Good(r) : m <= n) => n = k
  BY <1>8
<1> DEFINE n == CHOOSE n \in Good(r) : \A m \in Good(r) : m <= n
<1>11. n = k
  BY <1>9, <1>10
<1> HIDE DEF n
<1>12. p.objects = [i \in 1 .. n |-> OutFile(r, p.inputs[i])]
  BY <1>1, <1>2, <1>4, <1>11, Names
<1>13. p.failed <=> n < Len(p.inputs)
  BY <1>2, <1>3, <1>4, <1>11
<1> QED
  BY <1>12, <1>13 DEF n

\* Compiling ends at the first file with errors: what comes out are the
\* outputs of the inputs before it, and the run fails exactly if there is one,
\* if no other invocation writes its files.
THEOREM CompilesUpToFirstError == Spec => []CompiledUpToFirstError
<1>1. Init => ControlInv /\ QuietInv
  BY InitControls, InitQuiet
<1>2. ControlInv /\ QuietInv /\ [Next]_vars => (ControlInv /\ QuietInv)'
  BY NextControls, NextQuiet
<1>3. Spec => [](ControlInv /\ QuietInv)
  BY <1>1, <1>2, PTL DEF Spec
<1> QED
  BY <1>3, CompiledUpTo, PTL

-----------------------------------------------------------------------------
(* What is left on the disk.                                               *)

\* The assembly of the inputs so far is removed, unless its name is another's
\* that is being compiled, or the executable's.
AsmGone(m, d) ==
    ~m.S => \A i \in 1 .. Len(m.inputs) : i < m.next =>
        \/ Links(m) /\ AsmOf(m, m.inputs[i]) = LinkOf(m)
        \/ d[AsmOf(m, m.inputs[i])] = Nothing
        \/ m.at \in {"assemble", "assembled"} /\ AsmOf(m, m.inputs[i]) = AsmOf(m, CurrentOf(m))

\* The objects to link are noted, or about to be, or removed.
ObjectsNoted(m, d) ==
    Links(m) => \A x \in ToSet(m.inputs) :
        d[ObjOf(m, x)][1] = "object" =>
            \/ \E i \in DOMAIN m.objects : m.objects[i] = ObjOf(m, x)
            \/ m.at = "assembled" /\ ObjOf(m, x) = ObjOf(m, CurrentOf(m))

LeftOK(m, d) == Working(m) => AsmGone(m, d) /\ ObjectsNoted(m, d)

LeftInv == \A r \in DOMAIN run : Undisturbed(r) => LeftOK(run[r], disk)

LEMMA InitLeft == Init => LeftInv
<1> SUFFICES ASSUME Init PROVE LeftInv
  OBVIOUS
<1>1. \A r \in DOMAIN run : run[r].at \in {"usage", "args"}
  BY DEF Init
<1> QED
  BY <1>1 DEF LeftInv, LeftOK, Working, Parsed

\* Names are made of the inputs' but where -c or -S has a name of its own,
\* for a single input.
LEMMA NamesMade ==
  ASSUME TypeOK, NEW r \in DOMAIN run, Working(run[r])
  PROVE  \/ \A x : /\ AsmOf(run[r], x) = ReplaceExt(x, ".s") /\ ObjOf(run[r], x) = ReplaceExt(x, ".o")
         \/ ~Links(run[r]) /\ Len(run[r].inputs) = 1
<1>1. /\ ~Contradictory(run[r]) /\ run[r].inputs \in Seq(Named(first))
      /\ run[r].c \in BOOLEAN /\ run[r].S \in BOOLEAN
  BY DEF TypeOK, MemoryOK, StageOK, Working, Parsed
<1>2. CASE run[r].output = None \/ Links(run[r])
  BY <1>2 DEF AsmOf, ObjOf, Links
<1>3. CASE ~(run[r].output = None \/ Links(run[r]))
  <2>1. PICK n \in Nat : n = Len(run[r].inputs)
    BY <1>1
  <2>2. n # 0 /\ ~(n > 1)
    BY <1>1, <1>3, <2>1 DEF Contradictory, Links
  <2>3. n = 1
    BY <2>2
  <2>4. ~Links(run[r])
    BY <1>3
  <2> QED
    BY <2>1, <2>3, <2>4
<1> QED
  BY <1>2, <1>3

\* What is written is there, and nothing else changes.
LEMMA Written ==
  ASSUME NEW path, NEW content, Writing(path, content)
  PROVE  \A x \in DOMAIN disk : /\ x = path => disk'[x] = content
                                /\ x # path => disk'[x] = disk[x]
BY DEF Writing

\* A claim of an invocation depends on its own files only.
LEMMA LeftOfOthers ==
  ASSUME NEW m, NEW d, NEW e, NEW A, m.inputs \in Seq(A), LeftOK(m, d),
         \A x \in WritesOf(m) : e[x] = d[x]
  PROVE  LeftOK(m, e)
<1>1. ASSUME NEW x \in ToSet(m.inputs)
      PROVE  /\ AsmOf(m, x) \in WritesOf(m) /\ OutOf(m, x) \in WritesOf(m)
             /\ Links(m) => ObjOf(m, x) \in WritesOf(m)
  <2>1. {AsmOf(m, x), OutOf(m, x)} \subseteq TempsOf(m)
    BY DEF TempsOf
  <2> QED
    BY <2>1, HasWrittenItsOwn DEF Links, OutOf
<1>2. \A i \in 1 .. Len(m.inputs) : m.inputs[i] \in ToSet(m.inputs)
  BY InSequence
<1> QED
  BY <1>1, <1>2 DEF LeftOK, AsmGone, ObjectsNoted

LEMMA GoneStep ==
  ASSUME ControlInv, NEW r, Step(r), r \in DOMAIN run, Working(run'[r]),
         Working(run[r]) => AsmGone(run[r], disk)
  PROVE  AsmGone(run'[r], disk')
<1> DEFINE p == run[r]
           q == run'[r]
           asm(i) == AsmOf(p, p.inputs[i])
           cur == CurrentOf(p)
<1>1. /\ TypeOK /\ StartOK(p) /\ ProgressOK(p, first) /\ StageOK(p)
      /\ p.next \in Nat \ {0} /\ p.inputs \in Seq(Named(first)) /\ p.objects \in Seq(DOMAIN first)
  BY DEF ControlInv, TypeOK, MemoryOK
<1>2. PICK l \in Nat : l = Len(p.inputs)
  BY <1>1
<1>3. \A i \in 1 .. l : asm(i) \in DOMAIN disk
  BY <1>1, <1>2, OwnFiles
<1>4. p.next <= l => cur \in ToSet(p.inputs) /\ AsmOf(p, cur) \in DOMAIN disk
                     /\ ObjOf(p, cur) \in DOMAIN disk /\ AsmOf(p, cur) = asm(p.next)
  BY <1>1, <1>2, OwnFiles DEF CurrentOf
<1>5. ASSUME SameLine(p, q)
      PROVE  /\ \A x : AsmOf(q, x) = AsmOf(p, x) /\ ObjOf(q, x) = ObjOf(p, x)
             /\ LinkOf(q) = LinkOf(p) /\ (Links(q) <=> Links(p)) /\ q.inputs = p.inputs /\ q.S = p.S
             /\ q.next = p.next => CurrentOf(q) = cur
  BY <1>5, SameNames DEF CurrentOf, SameLine
\* The same input, and only files of others or the executable are written.
<1>6. ASSUME SameLine(p, q), q.next = p.next, Working(p),
             p.at \in {"assemble", "assembled"} => q.at \in {"assemble", "assembled"},
             \A i \in 1 .. l : \/ i >= p.next
                               \/ disk'[asm(i)] \in {disk[asm(i)], Nothing}
                               \/ Links(p) /\ asm(i) = LinkOf(p)
                               \/ q.at \in {"assemble", "assembled"} /\ asm(i) = AsmOf(p, cur)
      PROVE  AsmGone(q, disk')
  <2>1. ASSUME NEW i \in 1 .. l, i < p.next, ~p.S
        PROVE  \/ Links(p) /\ asm(i) = LinkOf(p)
               \/ disk'[asm(i)] = Nothing
               \/ q.at \in {"assemble", "assembled"} /\ asm(i) = AsmOf(p, cur)
    <3>1. \/ Links(p) /\ asm(i) = LinkOf(p)
          \/ disk[asm(i)] = Nothing
          \/ p.at \in {"assemble", "assembled"} /\ asm(i) = AsmOf(p, cur)
      BY <1>2, <1>6, <2>1 DEF AsmGone
    <3>2. ~(i >= p.next)
      BY <1>1, <2>1
    <3> QED
      BY <1>6, <3>1, <3>2
  <2> QED
    BY <1>2, <1>5, <1>6, <2>1 DEF AsmGone
\* The current assembly is removed, and the next input is taken.
<1>7. ASSUME SameLine(p, q), q.next = p.next + 1, Working(p), p.next <= l,
             Writing(AsmOf(p, cur), Nothing)
      PROVE  AsmGone(q, disk')
  <2>1. ASSUME NEW i \in 1 .. l, i < p.next + 1, ~p.S
        PROVE  \/ Links(p) /\ asm(i) = LinkOf(p)
               \/ disk'[asm(i)] = Nothing
    <3>1. CASE asm(i) = AsmOf(p, cur)
      BY <1>3, <1>4, <1>7, <3>1, Written
    <3>2. CASE asm(i) # AsmOf(p, cur)
      <4>1. i < p.next
        BY <1>1, <1>4, <1>7, <2>1, <3>2
      <4>2. disk'[asm(i)] = disk[asm(i)]
        BY <1>3, <1>7, <3>2, Written
      <4> QED
        BY <1>2, <1>7, <2>1, <3>2, <4>1, <4>2 DEF AsmGone
    <3> QED
      BY <3>1, <3>2
  <2> QED
    BY <1>2, <1>5, <1>7, <2>1 DEF AsmGone
<1> HIDE DEF asm, cur
<1>8. ASSUME SameLine(p, q), q.next = p.next, Working(p), Kept, p.at \notin {"assemble", "assembled"}
      PROVE  AsmGone(q, disk')
  BY <1>6, <1>8 DEF Kept
<1>9. CASE ArgsParsed(r)
  <2>1. q.next = 1 /\ SameLine(p, q)
    BY <1>1, <1>9, ArgsParsedMoves DEF Ended, Moved, Made, Working, Parsed, StartOK
  <2> QED
    BY <2>1 DEF AsmGone
<1>10. CASE ReadFile(r)
  BY <1>1, <1>8, <1>10, ReadFileMoves DEF Ended, Moved, Made, Working, Parsed
<1>11. CASE Analyze(r)
  BY <1>1, <1>8, <1>11, AnalyzeMoves DEF Moved, Made, Working, Parsed
<1>12. CASE Reject(r)
  <2>1. /\ p.at = "reject" /\ SameLine(p, q) /\ q.next = p.next + 1
        /\ Removing(AsmFile(r, Current(r)))
    BY <1>1, <1>12, RejectMoves DEF Moved, Made
  <2>2. AsmFile(r, Current(r)) = AsmOf(p, cur)
    BY Names DEF cur
  <2> QED
    BY <1>1, <1>2, <1>7, <2>1, <2>2 DEF Working, Parsed, StageOK, Compiling, Removing
<1>13. CASE Emit(r)
  <2>1. CASE p.S
    <3>1. SameLine(p, q)
      BY <1>1, <1>13, EmitMoves DEF Moved, Made
    <3> QED
      BY <1>5, <2>1, <3>1 DEF AsmGone
  <2>2. CASE ~p.S
    <3>1. /\ p.at = "emit" /\ q.at = "assemble" /\ SameLine(p, q) /\ q.next = p.next
          /\ Writing(AsmOf(p, cur), << "asm", p.text[2] >>)
      <4>1. /\ p.at = "emit" /\ q.at = "assemble" /\ SameLine(p, q) /\ q.next = p.next
            /\ Writing(AsmFile(r, Current(r)), << "asm", p.text[2] >>)
        BY <1>1, <1>13, <2>2, EmitMoves DEF Moved, Made
      <4>2. AsmFile(r, Current(r)) = AsmOf(p, cur)
        BY Names DEF cur
      <4> QED
        BY <4>1, <4>2
    <3>2. \A i \in 1 .. l : disk'[asm(i)] = disk[asm(i)] \/ asm(i) = AsmOf(p, cur)
      BY <1>3, <3>1, Written
    <3> QED
      BY <1>6, <3>1, <3>2 DEF Working, Parsed
  <2> QED
    BY <2>1, <2>2
<1>14. CASE Assemble(r)
  <2>1. CASE Ended(r)
    BY <2>1 DEF Ended, Moved, Made, Working
  <2>2. CASE ~Ended(r)
    <3> DEFINE content == << "object", disk[AsmFile(r, Current(r))][2] >>
    <3>0. /\ p.at = "assemble" /\ q.at = "assembled" /\ SameLine(p, q) /\ q.next = p.next
          /\ Writing(ObjFile(r, Current(r)), content)
      BY <1>1, <1>14, <2>2, AssembleMoves DEF Moved, Made
    <3> HIDE DEF content
    <3>1. /\ p.at = "assemble" /\ q.at = "assembled" /\ SameLine(p, q) /\ q.next = p.next
          /\ Writing(ObjOf(p, cur), content)
      BY <3>0, Names DEF cur
    <3>2. p.next <= l /\ Working(p)
      BY <1>1, <1>2, <3>1 DEF StageOK, Compiling, Working, Parsed
    <3>3. ASSUME NEW i \in 1 .. l, i < p.next PROVE asm(i) # ObjOf(p, cur)
      <4>1. l # 1
        BY <1>1, <3>2, <3>3
      <4> QED
        BY <1>1, <1>2, <3>2, <4>1, NamesMade, NamesDiffer DEF asm
    <3>4. \A i \in 1 .. l : i < p.next => disk'[asm(i)] = disk[asm(i)]
      BY <1>3, <3>1, <3>3, Written
    <3>5. \A i \in 1 .. l : i < p.next \/ i >= p.next
      BY <1>1
    <3> QED
      BY <1>6, <3>1, <3>2, <3>4, <3>5
  <2> QED
    BY <2>1, <2>2
<1>15. CASE RemoveAsm(r)
  BY <1>1, <1>2, <1>7, <1>15, RemoveAsmMoves, Names
     DEF Moved, Made, Working, Parsed, StageOK, Compiling, Removing, cur
<1>16. CASE InputsDone(r)
  BY <1>1, <1>8, <1>16, InputsDoneMoves DEF Moved, Made, Working, Parsed
<1>17. CASE Link(r)
  <2>1. CASE Ended(r)
    BY <2>1 DEF Ended, Moved, Made, Working
  <2>2. CASE ~Ended(r)
    <3>1. /\ p.at = "link" /\ SameLine(p, q) /\ q.next = p.next
          /\ Writing(LinkOf(p), << "executable", AllCode(r) >>)
      BY <1>1, <1>17, <2>2, LinkMoves, Names DEF Moved, Made
    <3>2. Links(p) /\ Working(p)
      BY <1>1, <3>1 DEF ProgressOK, Working, Parsed
    <3>3. \A i \in 1 .. l : disk'[asm(i)] = disk[asm(i)] \/ asm(i) = LinkOf(p)
      BY <1>3, <3>1, Written
    <3> QED
      BY <1>6, <3>1, <3>2, <3>3
  <2> QED
    BY <2>1, <2>2
<1>18. CASE RemoveObject(r)
  <2>1. /\ p.at = "cleanup" /\ SameLine(p, q) /\ q.next = p.next
        /\ Kept \/ Writing(Head(p.objects), Nothing)
    BY <1>1, <1>18, RemoveObjectMoves DEF Moved, Made, Removing
  <2>2. \A i \in 1 .. l : disk'[asm(i)] \in {disk[asm(i)], Nothing}
    BY <1>3, <2>1, Written DEF Kept
  <2> QED
    BY <1>6, <2>1, <2>2 DEF Working, Parsed
<1>19. CASE Return(r)
  BY <1>1, <1>8, <1>19, ReturnMoves DEF Moved, Made, Working, Parsed
<1>20. CASE Usage(r) \/ ParseArg(r)
  BY <1>1, <1>20, ParsingIs
<1> QED
  BY <1>9, <1>10, <1>11, <1>12, <1>13, <1>14, <1>15, <1>16, <1>17, <1>18, <1>19, <1>20 DEF Step

LEMMA NotedStep ==
  ASSUME ControlInv, NEW r, Step(r), r \in DOMAIN run, Undisturbed(r)', Working(run'[r]),
         Working(run[r]) => ObjectsNoted(run[r], disk)
  PROVE  ObjectsNoted(run'[r], disk')
<1> DEFINE p == run[r]
           q == run'[r]
           cur == CurrentOf(p)
           noted(o) == \E i \in DOMAIN p.objects : p.objects[i] = o
<1>1. /\ TypeOK /\ StartOK(p) /\ ProgressOK(p, first) /\ StageOK(p)
      /\ p.next \in Nat \ {0} /\ p.inputs \in Seq(Named(first)) /\ p.objects \in Seq(DOMAIN first)
  BY DEF ControlInv, TypeOK, MemoryOK
<1>2. \A x \in ToSet(p.inputs) : ObjOf(p, x) \in DOMAIN disk /\ (Links(p) => ObjOf(p, x) \in WritesOf(p))
  BY <1>1, OwnFiles
<1>3. p.next <= Len(p.inputs) => cur \in ToSet(p.inputs) /\ AsmOf(p, cur) \in DOMAIN disk
  BY <1>1, OwnFiles
<1>4. ASSUME SameLine(p, q)
      PROVE  /\ \A x : ObjOf(q, x) = ObjOf(p, x)
             /\ (Links(q) <=> Links(p)) /\ q.inputs = p.inputs /\ WritesOf(q) = WritesOf(p)
             /\ q.next = p.next => CurrentOf(q) = cur
  BY <1>4, SameNames DEF CurrentOf
\* No object is made, and none is forgotten.
<1>5. ASSUME SameLine(p, q), Working(p), p.at # "assembled", q.objects = p.objects,
             \A x \in DOMAIN disk : disk'[x] = disk[x] \/ disk'[x][1] # "object"
      PROVE  ObjectsNoted(q, disk')
  BY <1>2, <1>4, <1>5 DEF ObjectsNoted
<1>6. Nothing[1] # "object"
  BY DEF Nothing
<1>7. ASSUME NEW path, NEW content, Writing(path, content), content[1] # "object"
      PROVE  \A x \in DOMAIN disk : disk'[x] = disk[x] \/ disk'[x][1] # "object"
  BY <1>7, Written
<1>8. Kept => \A x \in DOMAIN disk : disk'[x] = disk[x] \/ disk'[x][1] # "object"
  BY DEF Kept
<1>9. CASE ArgsParsed(r)
  <2>1. /\ ~Parsed(p) /\ SameLine(p, q) /\ Kept
    BY <1>1, <1>9, ArgsParsedMoves DEF Ended, Moved, Made, Parsed
  <2>2. ASSUME NEW x \in ToSet(p.inputs), Links(p)
        PROVE  disk[ObjOf(p, x)][1] # "object"
    <3>1. \A s \in DOMAIN run : Parsed(run[s]) => ObjOf(p, x) \notin HasWritten(run[s])
      <4>1. ASSUME NEW s \in DOMAIN run, Parsed(run[s])
            PROVE  ObjOf(p, x) \notin WritesOf(run[s])
        <5>1. s # r /\ run'[s] = run[s] /\ DOMAIN run' = DOMAIN run
          BY <2>1, <4>1, StepFiles
        <5> QED
          BY <1>2, <1>4, <2>1, <2>2, <4>1, <5>1 DEF Undisturbed
      <4> QED
        BY <4>1, HasWrittenItsOwn
    <3>2. disk[ObjOf(p, x)] = first[ObjOf(p, x)] /\ ObjOf(p, x) \in DOMAIN first
      BY <1>1, <1>2, <3>1 DEF ControlInv, DiskOK, TypeOK
    <3> QED
      BY <1>6, <3>2 DEF ControlInv, FirstOK
  <2> QED
    BY <1>4, <2>1, <2>2 DEF ObjectsNoted, Kept
<1> HIDE DEF cur
<1>10. CASE ReadFile(r)
  BY <1>1, <1>5, <1>8, <1>10, ReadFileMoves DEF Ended, Moved, Made, Working, Parsed
<1>11. CASE Analyze(r)
  BY <1>1, <1>5, <1>8, <1>11, AnalyzeMoves DEF Moved, Made, Working, Parsed
<1>12. CASE Reject(r)
  BY <1>1, <1>5, <1>6, <1>7, <1>12, RejectMoves DEF Moved, Made, Working, Parsed, Removing
<1>13. CASE Emit(r)
  <2> DEFINE content == << "asm", p.text[2] >>
  <2>1. p.at = "emit" /\ SameLine(p, q) /\ (~p.S => q.objects = p.objects)
    BY <1>1, <1>13, EmitMoves DEF Moved, Made
  <2>2. Writing(AsmFile(r, Current(r)), content) /\ content[1] # "object"
    BY <1>1, <1>13, EmitMoves
  <2>3. \A x \in DOMAIN disk : disk'[x] = disk[x] \/ disk'[x][1] # "object"
    BY <1>7, <2>2
  <2>4. CASE p.S
    BY <1>4, <2>1, <2>4 DEF ObjectsNoted, Links
  <2>5. CASE ~p.S
    BY <1>5, <2>1, <2>3, <2>5 DEF Working, Parsed
  <2> QED
    BY <2>4, <2>5
<1>14. CASE Assemble(r)
  <2>1. CASE Ended(r)
    BY <2>1 DEF Ended, Moved, Made, Working
  <2>2. CASE ~Ended(r)
    <3> DEFINE content == << "object", disk[AsmFile(r, Current(r))][2] >>
    <3>1. /\ p.at = "assemble" /\ q.at = "assembled" /\ SameLine(p, q) /\ q.next = p.next
          /\ q.objects = p.objects /\ Writing(ObjFile(r, Current(r)), content)
      BY <1>1, <1>14, <2>2, AssembleMoves DEF Moved, Made
    <3> HIDE DEF content
    <3>2. Writing(ObjOf(p, cur), content)
      BY <3>1, Names DEF cur
    <3>3. \A x \in DOMAIN disk : x = ObjOf(p, cur) \/ disk'[x] = disk[x]
      BY <3>2, Written
    <3>4. ObjectsNoted(p, disk)
      BY <3>1 DEF Working, Parsed
    <3> QED
      BY <1>2, <1>4, <3>1, <3>3, <3>4 DEF ObjectsNoted
  <2> QED
    BY <2>1, <2>2
<1>15. CASE RemoveAsm(r)
  <2>1. /\ p.at = "assembled" /\ SameLine(p, q) /\ Writing(AsmFile(r, Current(r)), Nothing)
        /\ q.objects = Noted(r)
    BY <1>1, <1>15, RemoveAsmMoves DEF Moved, Made, Removing
  <2>2. \A x \in DOMAIN disk : disk'[x] = disk[x] \/ disk'[x][1] # "object"
    BY <1>6, <1>7, <2>1
  <2>3. q.objects = Append(p.objects, ObjOf(p, cur)) /\ ObjOf(p, cur) \in DOMAIN first
    <3>1. ~p.S /\ p.next <= Len(p.inputs)
      BY <1>1, <2>1 DEF ProgressOK, Working, Parsed, StageOK, Compiling
    <3>2. OutOf(p, cur) = ObjOf(p, cur)
      BY <3>1 DEF OutOf
    <3> QED
      BY <1>1, <1>2, <1>3, <2>1, <3>1, <3>2, Names DEF Noted, cur, TypeOK
  <2>4. \A o : noted(o) \/ o = ObjOf(p, cur) => \E i \in DOMAIN q.objects : q.objects[i] = o
    <3>1. PICK k \in Nat : k = Len(p.objects) /\ DOMAIN p.objects = 1 .. k
      BY <1>1
    <3>2. /\ DOMAIN q.objects = 1 .. k + 1 /\ q.objects[k + 1] = ObjOf(p, cur)
          /\ \A i \in 1 .. k : q.objects[i] = p.objects[i]
      BY <1>1, <2>3, <3>1, Noting
    <3>3. k + 1 \in 1 .. k + 1 /\ \A i \in 1 .. k : i \in 1 .. k + 1
      OBVIOUS
    <3> QED
      BY <3>1, <3>2, <3>3
  <2> HIDE DEF noted
  <2>5. ObjectsNoted(p, disk)
    BY <2>1 DEF Working, Parsed
  <2>6. \A x \in ToSet(p.inputs) : Links(p) /\ disk[ObjOf(p, x)][1] = "object" =>
            noted(ObjOf(p, x)) \/ ObjOf(p, x) = ObjOf(p, cur)
    BY <2>5 DEF ObjectsNoted, cur, noted
  <2> QED
    BY <1>2, <1>4, <2>1, <2>2, <2>4, <2>6 DEF ObjectsNoted
<1>16. CASE InputsDone(r)
  BY <1>1, <1>5, <1>8, <1>16, InputsDoneMoves DEF Moved, Made, Working, Parsed
<1>17. CASE Link(r)
  <2>1. CASE Ended(r)
    BY <2>1 DEF Ended, Moved, Made, Working
  <2>2. CASE ~Ended(r)
    <3> DEFINE content == << "executable", AllCode(r) >>
    <3>1. /\ p.at = "link" /\ SameLine(p, q) /\ q.objects = p.objects
          /\ Writing(LinkOutput(r), content)
      BY <1>1, <1>17, <2>2, LinkMoves DEF Moved, Made
    <3>2. content[1] # "object"
      OBVIOUS
    <3> HIDE DEF content
    <3> QED
      BY <1>5, <1>7, <3>1, <3>2 DEF Working, Parsed
  <2> QED
    BY <2>1, <2>2
<1>18. CASE RemoveObject(r)
  <2>1. /\ p.at = "cleanup" /\ SameLine(p, q) /\ q.objects = Tail(p.objects) /\ p.objects # << >>
        /\ Links(p) => Writing(Head(p.objects), Nothing)
    BY <1>1, <1>18, RemoveObjectMoves, Names DEF Moved, Made, Removing
  <2>2. ASSUME Links(p), NEW x \in DOMAIN disk, disk'[x][1] = "object"
        PROVE  x # Head(p.objects) /\ disk[x][1] = "object"
    BY <1>6, <2>1, <2>2, Written
  <2>3. \A j \in DOMAIN p.objects : p.objects[j] = Head(p.objects)
                                      \/ \E i \in DOMAIN q.objects : q.objects[i] = p.objects[j]
    BY <1>1, <2>1, OfTail
  <2>4. ObjectsNoted(p, disk)
    BY <2>1 DEF Working, Parsed
  <2> QED
    BY <1>2, <1>4, <2>1, <2>2, <2>3, <2>4 DEF ObjectsNoted
<1>19. CASE Return(r)
  BY <1>1, <1>5, <1>8, <1>19, ReturnMoves DEF Moved, Made, Working, Parsed
<1>20. CASE Usage(r) \/ ParseArg(r)
  BY <1>1, <1>20, ParsingIs
<1> QED
  BY <1>9, <1>10, <1>11, <1>12, <1>13, <1>14, <1>15, <1>16, <1>17, <1>18, <1>19, <1>20 DEF Step

LEMMA NextLeft == ControlInv /\ LeftInv /\ [Next]_vars => LeftInv'
<1>1. ASSUME LeftInv, UNCHANGED vars PROVE LeftInv'
  BY <1>1 DEF vars, LeftInv, Undisturbed
<1>2. ASSUME ControlInv, LeftInv, NEW r, Step(r) PROVE LeftInv'
  <2>1. /\ r \in DOMAIN run /\ DOMAIN run' = DOMAIN run
        /\ \A other \in DOMAIN run : other # r => run'[other] = run[other]
    BY <1>2, StepFiles
  <2>2. ASSUME NEW s \in DOMAIN run, Undisturbed(s)', s # r
        PROVE  LeftOK(run[s], disk')
    <3>1. LeftOK(run[s], disk) /\ run[s].inputs \in Seq(Named(first))
      BY <1>2, <2>2, UndisturbedBefore DEF LeftInv, ControlInv, TypeOK, MemoryOK
    <3>2. \A x \in WritesOf(run[s]) : disk'[x] = disk[x]
      BY <1>2, <2>2, OthersLeave
    <3> QED
      BY <3>1, <3>2, LeftOfOthers
  <2>3. ASSUME Undisturbed(r)' PROVE LeftOK(run'[r], disk')
    <3>1. Working(run[r]) => LeftOK(run[r], disk)
      BY <1>2, <2>1, <2>3, UndisturbedBefore DEF LeftInv, Working
    <3> QED
      BY <1>2, <2>1, <2>3, <3>1, GoneStep, NotedStep DEF LeftOK
  <2> QED
    BY <2>1, <2>2, <2>3 DEF LeftInv
<1> QED
  BY <1>1, <1>2 DEF Next

LEMMA NothingLeft == ControlInv /\ LeftInv => NothingLeftBehind
<1> SUFFICES ASSUME ControlInv, LeftInv, NEW r \in DOMAIN run, At(r, "returned"), Apart(r),
                    NEW x \in Reads(r)
             PROVE  /\ run[r].S \/ (Linking(r) /\ AsmFile(r, x) = LinkOutput(r))
                          \/ disk[AsmFile(r, x)] = Nothing
                    /\ Linking(r) => disk[ObjFile(r, x)][1] # "object"
  BY DEF NothingLeftBehind, At
<1> DEFINE p == run[r]
<1>1. /\ LeftOK(p, disk) /\ p.at = "returned" /\ ProgressOK(p, first)
      /\ p.inputs \in Seq(Named(first)) /\ p.next \in Nat
  BY ApartIsUndisturbed DEF LeftInv, At, ControlInv, TypeOK, MemoryOK
<1>2. p.next > Len(p.inputs)
  BY <1>1 DEF ProgressOK, Working, Parsed, Finishing
<1>3. PICK i \in 1 .. Len(p.inputs) : x = p.inputs[i]
  BY <1>1, Names DEF ToSet
<1>4. i < p.next
  BY <1>1, <1>2, <1>3
<1>5. p.objects = << >>
  BY <1>1 DEF ProgressOK, Working, Parsed
<1> QED
  BY <1>1, <1>3, <1>4, <1>5, Names DEF LeftOK, AsmGone, ObjectsNoted, Working, Parsed

\* Where main returns, no temporary file is left: neither assembly nor the
\* objects of a program that is linked, if no other invocation writes the
\* files.
THEOREM LeavesNothingBehind == Spec => []NothingLeftBehind
<1>1. Init => ControlInv /\ LeftInv
  BY InitControls, InitLeft
<1>2. ControlInv /\ LeftInv /\ [Next]_vars => (ControlInv /\ LeftInv)'
  BY NextControls, NextLeft
<1>3. Spec => [](ControlInv /\ LeftInv)
  BY <1>1, <1>2, PTL DEF Spec
<1> QED
  BY <1>3, NothingLeft, PTL

-----------------------------------------------------------------------------
(* What the outputs hold.                                                  *)

\* Sequences of one element each, one after the other.
LEMMA FlattenOnes ==
  ASSUME NEW n \in Nat \ {0}, NEW A, NEW x \in [1 .. n -> A], NEW s, s = [i \in 1 .. n |-> << x[i] >>]
  PROVE  FlattenSeq(s) = x
<1> DEFINE step(f) == [i \in 1 .. n |-> IF i = 1 THEN s[i] ELSE f[i - 1] \o s[i]]
           front(m) == [j \in 1 .. m |-> x[j]]
           flat == CHOOSE f : f = step(f)
<1>1. Len(s) = n /\ s \in Seq(Seq(A)) /\ n # 0
  OBVIOUS
<1>2. FlattenSeq(s) = flat[n]
  BY <1>1 DEF FlattenSeq
<1>3. ASSUME NEW i \in 1 .. n PROVE front(i) = IF i = 1 THEN s[i] ELSE front(i - 1) \o s[i]
  <2>1. /\ \A j \in 1 .. n : x[j] \in A
        /\ \A j \in 1 .. i : j \in 1 .. n
    OBVIOUS
  <2>2. front(i) \in Seq(A) /\ Len(front(i)) = i /\ s[i] = << x[i] >>
    BY <2>1
  <2>3. CASE i = 1
    BY <2>1, <2>2, <2>3
  <2>4. CASE i # 1
    <3>1. i - 1 \in Nat /\ i - 1 \in 1 .. n /\ \A j \in 1 .. i - 1 : j \in 1 .. n
      BY <2>4
    <3>2. front(i - 1) \in Seq(A) /\ Len(front(i - 1)) = i - 1
      BY <2>1, <3>1
    <3>3. /\ front(i - 1) \o s[i] \in Seq(A) /\ Len(front(i - 1) \o s[i]) = i
          /\ \A j \in 1 .. i : (front(i - 1) \o s[i])[j] = x[j]
      BY <2>1, <2>2, <3>1, <3>2
    <3> QED
      BY <2>2, <2>4, <3>3
  <2> QED
    BY <2>3, <2>4
<1>4. [i \in 1 .. n |-> front(i)] = step([i \in 1 .. n |-> front(i)])
  <2> DEFINE g == [i \in 1 .. n |-> front(i)]
  <2>1. \A i \in 1 .. n : i # 1 => i - 1 \in 1 .. n
    OBVIOUS
  <2> HIDE DEF front
  <2>2. \A i \in 1 .. n : g[i] = front(i)
    OBVIOUS
  <2>3. \A i \in 1 .. n : front(i) = IF i = 1 THEN s[i] ELSE g[i - 1] \o s[i]
    BY <1>3, <2>1, <2>2
  <2> QED
    BY <2>3
<1>5. flat = step(flat)
  <2> HIDE DEF step
  <2> QED
    BY <1>4, Zenon
<1> HIDE DEF flat
<1>6. \A i \in 1 .. n : flat[i] = IF i = 1 THEN s[i] ELSE flat[i - 1] \o s[i]
  BY <1>5
<1> HIDE DEF front, step
<1> DEFINE T == {i \in 1 .. n : flat[i] # front(i)}
<1>7. T = {}
  <2> SUFFICES ASSUME T # {} PROVE FALSE
    OBVIOUS
  <2>1. PICK i \in T : \A k \in T : i <= k
    <3>1. T \subseteq Nat
      OBVIOUS
    <3> HIDE DEF T
    <3> DEFINE R == OpToRel(<, Nat)
    <3>2. PICK i \in T : \A k \in T : ~(<< k, i >> \in R)
      BY <3>1, NatLessThanWellFounded, WFMin, Zenon
    <3>3. \A p, q \in Nat : p < q => << p, q >> \in R
      BY DEF OpToRel
    <3> HIDE DEF R
    <3>4. \A k \in T : k \in Nat /\ i \in Nat /\ ~(k < i)
      BY <3>1, <3>2, <3>3
    <3> QED
      BY <3>4
  <2>2. CASE i = 1
    BY <1>3, <1>6, <2>1, <2>2
  <2>3. CASE i # 1
    <3>1. i - 1 \in 1 .. n /\ i - 1 \notin T
      BY <2>1, <2>3
    <3>2. flat[i - 1] = front(i - 1)
      BY <3>1
    <3>3. flat[i] = flat[i - 1] \o s[i] /\ front(i) = front(i - 1) \o s[i]
      BY <1>3, <1>6, <2>1, <2>3
    <3> QED
      BY <2>1, <3>2, <3>3
  <2> QED
    BY <2>2, <2>3
<1>8. flat[n] = front(n)
  BY <1>7
<1>9. front(n) = x
  BY DEF front
<1> QED
  BY <1>2, <1>8, <1>9

\* The inputs whose output is made.
Done(m) == IF m.at = "assembled" THEN m.next ELSE m.next - 1
Kind(m) == IF m.S THEN "asm" ELSE "object"

\* The outputs of the first n inputs hold the code of the last one of the
\* same base name.
Hold(m, d, n) ==
    \A i \in 1 .. n : \E j \in 1 .. n :
        /\ m.inputs[j][2] = m.inputs[i][2]
        /\ \A k \in 1 .. n : m.inputs[k][2] = m.inputs[i][2] => k <= j
        /\ d[OutOf(m, m.inputs[i])] = << Kind(m), << m.inputs[j] >> >>

CodeOf(inputs) ==
    [i \in DOMAIN inputs |->
        inputs[CHOOSE j \in DOMAIN inputs :
                   /\ inputs[j][2] = inputs[i][2]
                   /\ \A k \in DOMAIN inputs : inputs[k][2] = inputs[i][2] => k <= j]]

AssemblyOK(m, d) ==
    /\ m.at = "assemble" => d[AsmOf(m, CurrentOf(m))] = << "asm", << CurrentOf(m) >> >>
    /\ m.at = "assembled" => AsmOf(m, CurrentOf(m)) # ObjOf(m, CurrentOf(m))
OutputsOK(m, d) ==
    ~m.had_error /\ (~Links(m) \/ m.at \notin {"cleanup", "returned"}) => Hold(m, d, Done(m))
LinkedOK(m, d) ==
    Links(m) /\ m.at \in {"cleanup", "returned"} /\ ~m.failed =>
        /\ d[LinkOf(m)] = << "executable", CodeOf(m.inputs) >>
        /\ \A i \in DOMAIN m.objects : m.objects[i] # LinkOf(m)

MadeOK(m, d) == Working(m) => AssemblyOK(m, d) /\ OutputsOK(m, d) /\ LinkedOK(m, d)

MadeInv == \A r \in DOMAIN run : Undisturbed(r) => MadeOK(run[r], disk)

LEMMA InitMade == Init => MadeInv
<1> SUFFICES ASSUME Init PROVE MadeInv
  OBVIOUS
<1>1. \A r \in DOMAIN run : run[r].at \in {"usage", "args"}
  BY DEF Init
<1> QED
  BY <1>1 DEF MadeInv, MadeOK, Working, Parsed

LEMMA CodeIs == \A r : Code(r) = CodeOf(run[r].inputs)
BY DEF Code, CodeOf, Winner

\* One more output, which takes the place of those of its base name.
LEMMA HoldMore ==
  ASSUME NEW m, NEW d, NEW e, NEW n \in Nat, Hold(m, d, n),
         e[OutOf(m, m.inputs[n + 1])] = << Kind(m), << m.inputs[n + 1] >> >>,
         \A i \in 1 .. n :
             IF m.inputs[i][2] = m.inputs[n + 1][2]
             THEN OutOf(m, m.inputs[i]) = OutOf(m, m.inputs[n + 1])
             ELSE e[OutOf(m, m.inputs[i])] = d[OutOf(m, m.inputs[i])]
  PROVE  Hold(m, e, n + 1)
<1> SUFFICES ASSUME NEW i \in 1 .. n + 1
             PROVE  \E j \in 1 .. n + 1 :
                        /\ m.inputs[j][2] = m.inputs[i][2]
                        /\ \A k \in 1 .. n + 1 : m.inputs[k][2] = m.inputs[i][2] => k <= j
                        /\ e[OutOf(m, m.inputs[i])] = << Kind(m), << m.inputs[j] >> >>
  BY DEF Hold
<1>1. n + 1 \in 1 .. n + 1 /\ \A k \in 1 .. n + 1 : k <= n + 1 /\ (k # n + 1 => k \in 1 .. n)
  OBVIOUS
<1>2. CASE m.inputs[i][2] = m.inputs[n + 1][2]
  <2>1. e[OutOf(m, m.inputs[i])] = << Kind(m), << m.inputs[n + 1] >> >>
    BY <1>1, <1>2
  <2> QED
    BY <1>1, <1>2, <2>1
<1>3. CASE m.inputs[i][2] # m.inputs[n + 1][2]
  <2>1. i \in 1 .. n
    BY <1>1, <1>3
  <2>2. PICK j \in 1 .. n : /\ m.inputs[j][2] = m.inputs[i][2]
                            /\ \A k \in 1 .. n : m.inputs[k][2] = m.inputs[i][2] => k <= j
                            /\ d[OutOf(m, m.inputs[i])] = << Kind(m), << m.inputs[j] >> >>
    BY <2>1 DEF Hold
  <2>3. j \in 1 .. n + 1
    OBVIOUS
  <2>4. \A k \in 1 .. n + 1 : m.inputs[k][2] = m.inputs[i][2] => k <= j
    BY <1>1, <1>3, <2>2
  <2> QED
    BY <1>3, <2>1, <2>2, <2>3, <2>4
<1> QED
  BY <1>2, <1>3

LEMMA HoldSame ==
  ASSUME NEW m, NEW q, NEW d, NEW e, NEW n \in Nat, Hold(m, d, n), SameLine(m, q),
         \A i \in 1 .. n : e[OutOf(m, m.inputs[i])] = d[OutOf(m, m.inputs[i])]
  PROVE  Hold(q, e, n)
<1>1. q.inputs = m.inputs /\ Kind(q) = Kind(m) /\ \A x : OutOf(q, x) = OutOf(m, x)
  BY SameNames DEF SameLine, Kind
<1>2. ASSUME NEW i \in 1 .. n
      PROVE  \E j \in 1 .. n :
                 /\ q.inputs[j][2] = q.inputs[i][2]
                 /\ \A k \in 1 .. n : q.inputs[k][2] = q.inputs[i][2] => k <= j
                 /\ e[OutOf(q, q.inputs[i])] = << Kind(q), << q.inputs[j] >> >>
  <2>1. PICK j \in 1 .. n : /\ m.inputs[j][2] = m.inputs[i][2]
                            /\ \A k \in 1 .. n : m.inputs[k][2] = m.inputs[i][2] => k <= j
                            /\ d[OutOf(m, m.inputs[i])] = << Kind(m), << m.inputs[j] >> >>
    BY DEF Hold
  <2> QED
    BY <1>1, <2>1
<1> QED
  BY <1>2 DEF Hold

\* What the inputs' outputs are made of, when all are made.
LEMMA HeldCode ==
  ASSUME NEW m, NEW d, NEW A, m.inputs \in Seq(A), Hold(m, d, Len(m.inputs))
  PROVE  /\ CodeOf(m.inputs) \in [1 .. Len(m.inputs) -> A]
         /\ \A i \in 1 .. Len(m.inputs) :
               d[OutOf(m, m.inputs[i])] = << Kind(m), << CodeOf(m.inputs)[i] >> >>
<1> DEFINE l == Len(m.inputs)
           last(i, j) == /\ m.inputs[j][2] = m.inputs[i][2]
                         /\ \A k \in 1 .. l : m.inputs[k][2] = m.inputs[i][2] => k <= j
<1>1. l \in Nat /\ DOMAIN m.inputs = 1 .. l /\ \A i \in 1 .. l : m.inputs[i] \in A
  OBVIOUS
<1>2. \A i, j, k \in 1 .. l : last(i, j) /\ last(i, k) => j = k
  BY <1>1
<1>3. CodeOf(m.inputs) = [i \in 1 .. l |-> m.inputs[CHOOSE j \in 1 .. l : last(i, j)]]
  BY <1>1 DEF CodeOf
<1>4. \A i \in 1 .. l : \E j \in 1 .. l : last(i, j) /\ d[OutOf(m, m.inputs[i])] = << Kind(m), << m.inputs[j] >> >>
  BY DEF Hold
<1> HIDE DEF l, last
<1>5. \A i \in 1 .. l : /\ (CHOOSE j \in 1 .. l : last(i, j)) \in 1 .. l
                        /\ last(i, CHOOSE j \in 1 .. l : last(i, j))
  BY <1>4
<1>6. \A i \in 1 .. l : d[OutOf(m, m.inputs[i])] = << Kind(m), << m.inputs[CHOOSE j \in 1 .. l : last(i, j)] >> >>
  BY <1>2, <1>4, <1>5
<1>7. CodeOf(m.inputs) \in [1 .. l -> A]
  BY <1>1, <1>3, <1>5
<1> QED
  BY <1>3, <1>6, <1>7 DEF l

LEMMA OutputsStep ==
  ASSUME ControlInv, NEW r, Step(r), r \in DOMAIN run, Working(run'[r]),
         Working(run[r]) => AssemblyOK(run[r], disk) /\ OutputsOK(run[r], disk)
  PROVE  AssemblyOK(run'[r], disk') /\ OutputsOK(run'[r], disk')
<1> DEFINE p == run[r]
           q == run'[r]
           cur == CurrentOf(p)
           out(i) == OutOf(p, p.inputs[i])
<1>1. /\ TypeOK /\ StartOK(p) /\ ProgressOK(p, first) /\ StageOK(p)
      /\ p.next \in Nat \ {0} /\ p.inputs \in Seq(Named(first))
  BY DEF ControlInv, TypeOK, MemoryOK
<1>2. PICK l \in Nat : l = Len(p.inputs)
  BY <1>1
<1>3. \A i \in 1 .. l : out(i) \in DOMAIN disk
  BY <1>1, <1>2, OwnFiles
<1>4. p.next <= l => /\ AsmOf(p, cur) \in DOMAIN disk /\ ObjOf(p, cur) \in DOMAIN disk
                     /\ cur = p.inputs[p.next] /\ p.next \in 1 .. l
  BY <1>1, <1>2, OwnFiles DEF CurrentOf
<1>5. ASSUME SameLine(p, q)
      PROVE  /\ \A x : AsmOf(q, x) = AsmOf(p, x) /\ ObjOf(q, x) = ObjOf(p, x)
             /\ q.next = p.next => CurrentOf(q) = cur
             /\ q.S = p.S /\ q.inputs = p.inputs /\ (Links(q) <=> Links(p))
  BY <1>5, SameNames DEF CurrentOf, SameLine
\* As many outputs, none of which changes.
<1>6. ASSUME SameLine(p, q), Working(p), Done(q) = Done(p), Done(p) \in Nat,
             ~q.had_error => ~p.had_error,
             ~Links(p) \/ p.at \notin {"cleanup", "returned"},
             \A i \in 1 .. Done(p) : disk'[out(i)] = disk[out(i)]
      PROVE  OutputsOK(q, disk')
  BY <1>6, HoldSame DEF OutputsOK
\* The current input's is made.
<1>7. ASSUME SameLine(p, q), Working(p), p.at \in {"emit", "assemble"}, Done(q) = p.next,
             Writing(OutOf(p, cur), << Kind(p), << cur >> >>), ~p.had_error, p.next <= l
      PROVE  OutputsOK(q, disk')
  <2>1. PICK n \in Nat : n = p.next - 1 /\ n + 1 = p.next /\ n < l
    BY <1>1, <1>7
  <2>2. Hold(p, disk, n)
    BY <1>7, <2>1 DEF OutputsOK, Done
  <2>3. OutOf(p, cur) = out(n + 1) /\ n + 1 \in 1 .. l /\ \A i \in 1 .. n : i \in 1 .. l
    BY <1>4, <1>7, <2>1
  <2>4. ASSUME NEW i \in 1 .. n
        PROVE  IF p.inputs[i][2] = p.inputs[n + 1][2] THEN out(i) = out(n + 1)
               ELSE disk'[out(i)] = disk[out(i)]
    <3>1. l # 1
      BY <2>1, <2>4
    <3>2. p.inputs[i][2] = p.inputs[n + 1][2] <=> out(i) = out(n + 1)
      BY <1>1, <1>2, <1>7, <3>1, NamesMade, NamesDiffer DEF OutOf
    <3> QED
      BY <1>3, <1>7, <2>3, <3>2, Written
  <2>5. disk'[out(n + 1)] = << Kind(p), << p.inputs[n + 1] >> >>
    BY <1>3, <1>4, <1>7, <2>1, <2>3, Written
  <2>6. Hold(p, disk', n + 1)
    BY <2>2, <2>4, <2>5, HoldMore
  <2>7. Hold(q, disk', n + 1)
    BY <1>7, <2>1, <2>6, HoldSame
  <2> QED
    BY <1>7, <2>1, <2>7 DEF OutputsOK
\* The current assembly is none of the outputs.
<1>8. ASSUME Working(p), ~p.S, NEW i \in 1 .. l, i < p.next, p.next <= l
      PROVE  out(i) # AsmOf(p, cur)
  <2>1. l # 1
    BY <1>1, <1>8
  <2> QED
    BY <1>1, <1>2, <1>8, <2>1, NamesMade, NamesDiffer DEF OutOf
<1> HIDE DEF out, cur
<1>9. ASSUME SameLine(p, q), Working(p), q.next = p.next, Kept, ~q.had_error => ~p.had_error,
             {p.at, q.at} \intersect {"assemble", "assembled"} = {},
             ~Links(p) \/ p.at \notin {"cleanup", "returned"}
      PROVE  AssemblyOK(q, disk') /\ OutputsOK(q, disk')
  <2>1. Done(q) = Done(p) /\ Done(p) \in Nat
    <3>1. p.at # "assembled" /\ q.at # "assembled"
      BY <1>9
    <3> QED
      BY <1>1, <1>9, <3>1 DEF Done
  <2>2. OutputsOK(q, disk')
    BY <1>6, <1>9, <2>1 DEF Kept
  <2> QED
    BY <1>9, <2>2 DEF AssemblyOK
<1>10. CASE ArgsParsed(r)
  <2>1. q.next = 1 /\ q.at = "read"
    BY <1>1, <1>10, ArgsParsedMoves DEF Ended, Moved, Made, Working, Parsed, StartOK
  <2> QED
    BY <2>1 DEF AssemblyOK, OutputsOK, Hold, Done
<1>11. CASE ReadFile(r)
  BY <1>1, <1>9, <1>11, ReadFileMoves DEF Ended, Moved, Made, Working, Parsed
<1>12. CASE Analyze(r)
  <2>1. /\ p.at = "compile" /\ q.at \in {"reject", "emit"} /\ Kept /\ SameLine(p, q) /\ q.next = p.next
        /\ ~q.had_error => ~p.had_error
    BY <1>1, <1>12, AnalyzeMoves DEF Moved, Made
  <2> QED
    BY <1>9, <2>1 DEF Working, Parsed
<1>13. CASE Reject(r)
  <2>1. p.at = "reject" /\ q.at = "read" /\ q.had_error = p.had_error
    BY <1>1, <1>13, RejectMoves DEF Moved, Made
  <2>2. p.had_error
    BY <1>1, <2>1 DEF ProgressOK, Working, Parsed
  <2> QED
    BY <2>1, <2>2 DEF AssemblyOK, OutputsOK
<1>14. CASE Emit(r)
  <2>1. /\ p.at = "emit" /\ SameLine(p, q) /\ Writing(AsmFile(r, Current(r)), << "asm", p.text[2] >>)
        /\ IF p.S THEN q.at = "read" /\ q.next = p.next + 1 ELSE q.at = "assemble" /\ q.next = p.next
        /\ q.had_error = p.had_error
    BY <1>1, <1>14, EmitMoves DEF Moved, Made
  <2>2. ~p.had_error /\ p.text[2] = << cur >> /\ p.next <= l /\ Working(p)
    BY <1>1, <1>2, <2>1 DEF ProgressOK, TextOK, Working, Parsed, StageOK, Compiling, cur
  <2>3. Writing(AsmOf(p, cur), << "asm", << cur >> >>)
    BY <2>1, <2>2, Names DEF cur
  <2>4. CASE p.S
    <3>1. OutOf(p, cur) = AsmOf(p, cur) /\ Kind(p) = "asm" /\ Done(q) = p.next
      BY <1>1, <2>1, <2>4 DEF OutOf, Kind, Done
    <3> QED
      BY <1>7, <2>1, <2>2, <2>3, <2>4, <3>1 DEF AssemblyOK
  <2>5. CASE ~p.S
    <3>1. Done(p) = p.next - 1 /\ Done(q) = Done(p) /\ Done(p) \in Nat
      BY <1>1, <2>1, <2>5 DEF Done
    <3>2. ASSUME NEW i \in 1 .. Done(p) PROVE disk'[out(i)] = disk[out(i)]
      <4>1. i \in 1 .. l /\ i < p.next
        BY <1>1, <2>2, <3>1
      <4> QED
        BY <1>3, <1>8, <2>2, <2>3, <2>5, <4>1, Written
    <3>3. OutputsOK(q, disk')
      BY <1>6, <2>1, <2>2, <3>1, <3>2
    <3>4. disk'[AsmOf(p, cur)] = << "asm", << cur >> >>
      BY <1>4, <2>2, <2>3, Written
    <3> QED
      BY <1>5, <2>1, <2>5, <3>3, <3>4 DEF AssemblyOK
  <2> QED
    BY <2>4, <2>5
<1>15. CASE Assemble(r)
  <2>1. CASE Ended(r)
    BY <2>1 DEF Ended, Moved, Made, Working
  <2>2. CASE ~Ended(r)
    <3> DEFINE content == << "object", disk[AsmFile(r, Current(r))][2] >>
    <3>1. /\ p.at = "assemble" /\ q.at = "assembled" /\ SameLine(p, q) /\ q.next = p.next
          /\ q.had_error = p.had_error /\ Writing(ObjFile(r, Current(r)), content)
          /\ AsmFile(r, Current(r)) # ObjFile(r, Current(r))
      BY <1>1, <1>15, <2>2, AssembleMoves DEF Moved, Made
    <3>2. ~p.had_error /\ ~p.S /\ p.next <= l /\ Working(p)
      BY <1>1, <1>2, <3>1 DEF ProgressOK, Working, Parsed, StageOK, Compiling
    <3>3. content = << "object", << cur >> >>
      BY <3>1, <3>2, Names DEF AssemblyOK, cur
    <3> HIDE DEF content
    <3>4. Writing(OutOf(p, cur), << Kind(p), << cur >> >>)
      BY <3>1, <3>2, <3>3, Names DEF OutOf, Kind, cur
    <3>5. Done(q) = p.next
      BY <3>1 DEF Done
    <3>6. OutputsOK(q, disk')
      BY <1>7, <3>1, <3>2, <3>4, <3>5
    <3>7. AsmOf(p, cur) # ObjOf(p, cur)
      BY <3>1, Names DEF cur
    <3> QED
      BY <1>5, <3>1, <3>6, <3>7 DEF AssemblyOK
  <2> QED
    BY <2>1, <2>2
<1>16. CASE RemoveAsm(r)
  <2>1. /\ p.at = "assembled" /\ q.at = "read" /\ SameLine(p, q) /\ q.next = p.next + 1
        /\ q.had_error = p.had_error /\ Writing(AsmFile(r, Current(r)), Nothing)
    BY <1>1, <1>16, RemoveAsmMoves DEF Moved, Made, Removing
  <2>2. ~p.S /\ p.next <= l /\ Working(p)
    BY <1>1, <1>2, <2>1 DEF ProgressOK, Working, Parsed, StageOK, Compiling
  <2>3. Writing(AsmOf(p, cur), Nothing)
    BY <2>1, Names DEF cur
  <2>4. Done(p) = p.next /\ Done(q) = Done(p) /\ Done(p) \in Nat
    BY <1>1, <2>1 DEF Done
  <2>5. AsmOf(p, cur) # out(p.next)
    BY <1>4, <2>1, <2>2 DEF AssemblyOK, OutOf, cur, out
  <2>6. ASSUME NEW i \in 1 .. Done(p) PROVE disk'[out(i)] = disk[out(i)]
    <3>1. i \in 1 .. l /\ (i < p.next \/ i = p.next)
      BY <1>1, <2>2, <2>4
    <3> QED
      BY <1>3, <1>8, <2>2, <2>3, <2>5, <3>1, Written
  <2>7. OutputsOK(q, disk')
    BY <1>6, <2>1, <2>2, <2>4, <2>6
  <2> QED
    BY <2>1, <2>7 DEF AssemblyOK
<1>17. CASE InputsDone(r)
  BY <1>1, <1>9, <1>17, InputsDoneMoves DEF Moved, Made, Working, Parsed
<1>18. CASE Link(r)
  <2>1. CASE Ended(r)
    BY <2>1 DEF Ended, Moved, Made, Working
  <2>2. CASE ~Ended(r)
    <3>1. p.at = "link" /\ q.at = "cleanup" /\ SameLine(p, q)
      BY <1>1, <1>18, <2>2, LinkMoves DEF Moved, Made
    <3>2. Links(p)
      BY <1>1, <3>1 DEF ProgressOK, Working, Parsed
    <3> QED
      BY <1>5, <3>1, <3>2 DEF AssemblyOK, OutputsOK
  <2> QED
    BY <2>1, <2>2
<1>19. CASE RemoveObject(r)
  <2>1. /\ p.at = "cleanup" /\ q.at = "cleanup" /\ SameLine(p, q) /\ q.next = p.next
        /\ q.had_error = p.had_error /\ (~Links(p) => Kept)
    BY <1>1, <1>19, RemoveObjectMoves, Names DEF Moved, Made
  <2>2. CASE Links(p)
    BY <1>5, <2>1, <2>2 DEF AssemblyOK, OutputsOK
  <2>3. CASE ~Links(p)
    BY <1>9, <2>1, <2>3 DEF Working, Parsed
  <2> QED
    BY <2>2, <2>3
<1>20. CASE Return(r)
  <2>1. /\ p.at = "cleanup" /\ q.at = "returned" /\ SameLine(p, q) /\ q.next = p.next
        /\ q.had_error = p.had_error /\ Kept
    BY <1>1, <1>20, ReturnMoves DEF Moved, Made
  <2>2. CASE Links(p)
    BY <1>5, <2>1, <2>2 DEF AssemblyOK, OutputsOK
  <2>3. CASE ~Links(p)
    BY <1>9, <2>1, <2>3 DEF Working, Parsed
  <2> QED
    BY <2>2, <2>3
<1>21. CASE Usage(r) \/ ParseArg(r)
  BY <1>1, <1>21, ParsingIs
<1> QED
  BY <1>10, <1>11, <1>12, <1>13, <1>14, <1>15, <1>16, <1>17, <1>18, <1>19, <1>20, <1>21 DEF Step

LEMMA LinkedStep ==
  ASSUME ControlInv, NEW r, Step(r), r \in DOMAIN run, Working(run'[r]),
         Working(run[r]) => OutputsOK(run[r], disk) /\ LinkedOK(run[r], disk)
  PROVE  LinkedOK(run'[r], disk')
<1> DEFINE p == run[r]
           q == run'[r]
<1>1. /\ TypeOK /\ ProgressOK(p, first) /\ StageOK(p)
      /\ p.next \in Nat \ {0} /\ p.inputs \in Seq(Named(first)) /\ p.objects \in Seq(DOMAIN first)
  BY DEF ControlInv, TypeOK, MemoryOK
<1>2. CASE q.at \notin {"cleanup", "returned"}
  BY <1>2 DEF LinkedOK
<1>3. ASSUME SameLine(p, q)
      PROVE  LinkOf(q) = LinkOf(p) /\ (Links(q) <=> Links(p)) /\ q.inputs = p.inputs
  BY <1>3, SameNames
<1>4. LinkOf(p) \in DOMAIN disk
  BY <1>1, OwnFiles
<1>5. CASE Link(r) /\ ~Ended(r)
  <2> DEFINE code == CodeOf(p.inputs)
             l == Len(p.inputs)
             parts == [i \in DOMAIN p.objects |-> disk[p.objects[i]][2]]
  <2>1. /\ p.at = "link" /\ SameLine(p, q) /\ q.objects = p.objects
        /\ Writing(LinkOutput(r), << "executable", AllCode(r) >>)
        /\ \A i \in DOMAIN p.objects : p.objects[i] # LinkOutput(r)
    <3>1. /\ p.at = "link" /\ Moved(r, "cleanup", p.next, p.had_error, p.objects, p.failed)
          /\ Writing(LinkOutput(r), << "executable", AllCode(r) >>)
          /\ \A i \in DOMAIN p.objects : p.objects[i] # LinkOutput(r)
      BY <1>1, <1>5, LinkMoves
    <3> QED
      BY <3>1 DEF Moved, Made
  <2>2. Collected(p, first) /\ Links(p) /\ ~p.had_error /\ p.next > l /\ Working(p)
    BY <1>1, <2>1 DEF ProgressOK, Working, Parsed, Collecting, Finishing
  <2>3. /\ Len(p.objects) = l /\ DOMAIN p.objects = 1 .. l /\ p.next - 1 = l /\ l \in Nat
        /\ \A i \in 1 .. l : p.objects[i] = OutOf(p, p.inputs[i])
    BY <1>1, <2>2 DEF Collected
  <2>4. Hold(p, disk, l)
    BY <2>1, <2>2, <2>3 DEF OutputsOK, Done
  <2>5. /\ code \in [1 .. l -> Named(first)]
        /\ \A i \in 1 .. l : disk[OutOf(p, p.inputs[i])] = << Kind(p), << code[i] >> >>
    BY <1>1, <2>4, HeldCode
  <2> HIDE DEF code
  <2>6. parts = [i \in 1 .. l |-> << code[i] >>]
    <3>1. ASSUME NEW i \in 1 .. l PROVE disk[p.objects[i]][2] = << code[i] >>
      <4>1. disk[p.objects[i]] = << Kind(p), << code[i] >> >>
        BY <2>3, <2>5
      <4> QED
        BY <4>1
    <3> QED
      BY <2>3, <3>1
  <2>7. l # 0
    BY <1>1, <2>1 DEF StageOK, Contradictory
  <2> HIDE DEF l, parts
  <2>8. FlattenSeq(parts) = code
    BY <2>3, <2>5, <2>6, <2>7, FlattenOnes
  <2>9. AllCode(r) = code
    BY <2>8 DEF AllCode, parts
  <2>10. LinkOutput(r) = LinkOf(p)
    BY Names
  <2>11. disk'[LinkOf(p)] = << "executable", code >>
    BY <1>4, <2>1, <2>9, <2>10, Written
  <2> QED
    BY <1>3, <2>1, <2>10, <2>11 DEF LinkedOK, code
<1>6. CASE RemoveObject(r)
  <2>1. /\ p.at = "cleanup" /\ SameLine(p, q) /\ q.objects = Tail(p.objects) /\ p.objects # << >>
        /\ q.failed = p.failed /\ (Links(p) => Writing(Head(p.objects), Nothing))
    BY <1>1, <1>6, RemoveObjectMoves, Names DEF Moved, Made, Removing
  <2>2. 1 \in DOMAIN p.objects /\ Head(p.objects) = p.objects[1]
    BY <1>1, <2>1
  <2>3. \A i \in DOMAIN q.objects : \E j \in DOMAIN p.objects : q.objects[i] = p.objects[j]
    BY <1>1, <2>1, OfTail
  <2>4. ASSUME Links(p), ~p.failed
        PROVE  /\ disk[LinkOf(p)] = << "executable", CodeOf(p.inputs) >>
               /\ \A i \in DOMAIN p.objects : p.objects[i] # LinkOf(p)
    BY <2>1, <2>4 DEF LinkedOK, Working, Parsed
  <2>5. ASSUME Links(p), ~p.failed
        PROVE  disk'[LinkOf(p)] = disk[LinkOf(p)]
    BY <1>4, <2>1, <2>2, <2>4, <2>5, Written
  <2> QED
    BY <1>3, <2>1, <2>3, <2>4, <2>5 DEF LinkedOK
<1>7. CASE Return(r)
  <2>1. /\ p.at = "cleanup" /\ SameLine(p, q) /\ q.objects = p.objects /\ q.failed = p.failed /\ Kept
    BY <1>1, <1>7, ReturnMoves DEF Moved, Made
  <2>2. LinkedOK(p, disk)
    BY <2>1 DEF Working, Parsed
  <2> QED
    BY <1>3, <2>1, <2>2 DEF LinkedOK, Kept
<1>8. CASE InputsDone(r)
  <2>1. /\ SameLine(p, q) /\ q.failed = p.failed
        /\ q.at # "link" => ~(Links(p) /\ ~p.failed)
    BY <1>1, <1>8, InputsDoneMoves, Names DEF Moved, Made, MayLink
  <2> QED
    BY <1>2, <1>3, <2>1 DEF LinkedOK
<1>9. CASE ~(Link(r) /\ ~Ended(r)) /\ ~RemoveObject(r) /\ ~Return(r) /\ ~InputsDone(r)
  <2>1. CASE Ended(r)
    BY <2>1 DEF Ended, Moved, Made, Working
  <2>2. CASE ~Ended(r)
    <3>1. CASE Usage(r) \/ ParseArg(r)
      BY <1>1, <1>2, <2>2, <3>1, ParsingIs
    <3>2. CASE ArgsParsed(r) \/ ReadFile(r)
      BY <1>1, <1>2, <2>2, <3>2, ArgsParsedMoves, ReadFileMoves DEF Moved, Made
    <3>3. CASE Analyze(r)
      BY <1>1, <1>2, <3>3, AnalyzeMoves DEF Moved, Made
    <3>4. CASE Reject(r)
      BY <1>1, <1>2, <3>4, RejectMoves DEF Moved, Made
    <3>5. CASE Emit(r)
      BY <1>1, <1>2, <3>5, EmitMoves DEF Moved, Made
    <3>6. CASE Assemble(r)
      BY <1>1, <1>2, <2>2, <3>6, AssembleMoves DEF Moved, Made
    <3>7. CASE RemoveAsm(r)
      BY <1>1, <1>2, <3>7, RemoveAsmMoves DEF Moved, Made
    <3> QED
      BY <1>9, <2>2, <3>1, <3>2, <3>3, <3>4, <3>5, <3>6, <3>7 DEF Step
  <2> QED
    BY <2>1, <2>2
<1> QED
  BY <1>5, <1>6, <1>7, <1>8, <1>9

LEMMA MadeOfOthers ==
  ASSUME ControlInv, NEW s \in DOMAIN run, NEW e, MadeOK(run[s], disk),
         \A x \in WritesOf(run[s]) : e[x] = disk[x]
  PROVE  MadeOK(run[s], e)
<1> DEFINE m == run[s]
<1>1. /\ TypeOK /\ ProgressOK(m, first) /\ StageOK(m)
      /\ m.next \in Nat \ {0} /\ m.inputs \in Seq(Named(first))
  BY DEF ControlInv, TypeOK, MemoryOK
<1>2. \A x \in ToSet(m.inputs) : {AsmOf(m, x), OutOf(m, x)} \subseteq WritesOf(m)
  BY <1>1, OwnFiles
<1>3. CASE Working(m)
  <2>1. AssemblyOK(m, e)
    <3>1. CASE m.at = "assemble"
      <4>1. CurrentOf(m) \in ToSet(m.inputs)
        BY <1>1, <3>1, OwnFiles DEF StageOK, Compiling
      <4> QED
        BY <1>2, <1>3, <3>1, <4>1 DEF MadeOK, AssemblyOK
    <3> QED
      BY <1>3, <3>1 DEF MadeOK, AssemblyOK
  <2>2. OutputsOK(m, e)
    <3>1. Done(m) \in Nat /\ Done(m) <= Len(m.inputs)
      <4>1. CASE m.at = "assembled"
        BY <1>1, <4>1 DEF Done, StageOK, Compiling
      <4>2. CASE m.at # "assembled"
        BY <1>1, <1>3, <4>2 DEF Done, ProgressOK
      <4> QED
        BY <4>1, <4>2
    <3>2. \A i \in 1 .. Done(m) : e[OutOf(m, m.inputs[i])] = disk[OutOf(m, m.inputs[i])]
      <4>1. \A i \in 1 .. Done(m) : m.inputs[i] \in ToSet(m.inputs)
        BY <1>1, <3>1, OwnFiles
      <4> QED
        BY <1>2, <4>1
    <3>3. SameLine(m, m)
      BY <1>1 DEF SameLine, ControlInv, TypeOK, MemoryOK
    <3> HIDE DEF m
    <3> QED
      BY <1>3, <3>1, <3>2, <3>3, HoldSame DEF MadeOK, OutputsOK, m
  <2>3. LinkedOK(m, e)
    <3>1. Links(m) => LinkOf(m) \in WritesOf(m)
      BY DEF WritesOf
    <3> QED
      BY <1>3, <3>1 DEF MadeOK, LinkedOK
  <2> QED
    BY <2>1, <2>2, <2>3 DEF MadeOK
<1> QED
  BY <1>3 DEF MadeOK

LEMMA NextMade == ControlInv /\ MadeInv /\ [Next]_vars => MadeInv'
<1>1. ASSUME MadeInv, UNCHANGED vars PROVE MadeInv'
  BY <1>1 DEF vars, MadeInv, Undisturbed
<1>2. ASSUME ControlInv, MadeInv, NEW r, Step(r) PROVE MadeInv'
  <2>1. /\ r \in DOMAIN run /\ DOMAIN run' = DOMAIN run
        /\ \A other \in DOMAIN run : other # r => run'[other] = run[other]
    BY <1>2, StepFiles
  <2>2. ASSUME NEW s \in DOMAIN run, Undisturbed(s)', s # r
        PROVE  MadeOK(run[s], disk')
    <3>1. MadeOK(run[s], disk)
      BY <1>2, <2>2, UndisturbedBefore DEF MadeInv
    <3>2. \A x \in WritesOf(run[s]) : disk'[x] = disk[x]
      BY <1>2, <2>2, OthersLeave
    <3> QED
      BY <1>2, <3>1, <3>2, MadeOfOthers
  <2>3. ASSUME Undisturbed(r)' PROVE MadeOK(run'[r], disk')
    <3>1. Working(run[r]) => MadeOK(run[r], disk)
      BY <1>2, <2>1, <2>3, UndisturbedBefore DEF MadeInv, Working
    <3> QED
      BY <1>2, <2>1, <2>3, <3>1, OutputsStep, LinkedStep DEF MadeOK
  <2> QED
    BY <2>1, <2>2, <2>3 DEF MadeInv
<1> QED
  BY <1>1, <1>2 DEF Next

LEMMA SuccessIs == ControlInv /\ MadeInv => SuccessIsTrue
<1> SUFFICES ASSUME ControlInv, MadeInv, NEW r \in DOMAIN run, run[r].status = "success"
             PROVE  ~run[r].said /\ (Apart(r) =>
                      /\ \A i \in DOMAIN run[r].inputs : first[run[r].inputs[i]][1] = "program"
                      /\ IF Linking(r) THEN disk[LinkOutput(r)] = << "executable", Code(r) >>
                         ELSE \A i \in DOMAIN run[r].inputs :
                                  disk[OutFile(r, run[r].inputs[i])] =
                                      << IF run[r].S THEN "asm" ELSE "object", << Code(r)[i] >> >>)
  BY DEF SuccessIsTrue
<1> DEFINE p == run[r]
<1>1. /\ ProgressOK(p, first) /\ StageOK(p) /\ p.at \in Stages
      /\ p.inputs \in Seq(Named(first)) /\ p.next \in Nat \ {0}
  BY DEF ControlInv, TypeOK, MemoryOK
<1>2. p.at = "returned" /\ ~p.failed
  BY <1>1 DEF StageOK, Stages, Compiling, ExitStatus
<1>3. /\ ~p.had_error /\ ~p.said /\ p.next = Len(p.inputs) + 1
      /\ \A i \in 1 .. Len(p.inputs) : i < p.next => first[p.inputs[i]][1] = "program"
  BY <1>1, <1>2 DEF ProgressOK, Working, Parsed, Finishing
<1>4. PICK l \in Nat : l = Len(p.inputs) /\ DOMAIN p.inputs = 1 .. l
  BY <1>1
<1>5. \A i \in DOMAIN p.inputs : first[p.inputs[i]][1] = "program"
  BY <1>3, <1>4
<1>6. ASSUME Apart(r) PROVE OutputsOK(p, disk) /\ LinkedOK(p, disk)
  BY <1>2, <1>6, ApartIsUndisturbed DEF MadeInv, MadeOK, Working, Parsed
<1>7. ASSUME Apart(r), Linking(r)
      PROVE  disk[LinkOutput(r)] = << "executable", Code(r) >>
  BY <1>2, <1>6, <1>7, Names, CodeIs DEF LinkedOK
<1>8. ASSUME Apart(r), ~Linking(r), NEW i \in DOMAIN p.inputs
      PROVE  disk[OutFile(r, p.inputs[i])] = << IF p.S THEN "asm" ELSE "object", << Code(r)[i] >> >>
  <2>1. Done(p) = l
    BY <1>2, <1>3, <1>4 DEF Done
  <2>2. Hold(p, disk, l)
    BY <1>2, <1>3, <1>6, <1>8, <2>1, Names DEF OutputsOK
  <2> QED
    <3>1. disk[OutOf(p, p.inputs[i])] = << Kind(p), << CodeOf(p.inputs)[i] >> >>
      <4>1. i \in 1 .. l
        BY <1>4, <1>8
      <4> HIDE DEF p
      <4> QED
        BY <1>1, <1>4, <2>2, <4>1, HeldCode
    <3> QED
      BY <3>1, Names, CodeIs DEF Kind
<1> QED
  BY <1>3, <1>5, <1>7, <1>8

\* Success is the truth: every input was a program, what was asked for is
\* there and holds their code, if no other invocation writes the files, and
\* nothing was said on stderr.
THEOREM SuccessCanBeTrusted == Spec => []SuccessIsTrue
<1>1. Init => ControlInv /\ MadeInv
  BY InitControls, InitMade
<1>2. ControlInv /\ MadeInv /\ [Next]_vars => (ControlInv /\ MadeInv)'
  BY NextControls, NextMade
<1>3. Spec => [](ControlInv /\ MadeInv)
  BY <1>1, <1>2, PTL DEF Spec
<1> QED
  BY <1>3, SuccessIs, PTL

=============================================================================
