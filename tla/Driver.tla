------------------------------- MODULE Driver -------------------------------
(***************************************************************************)
(* main.c and the error count of diagnostics.c: invocations of the         *)
(* compiler, each turning the files of its command line into assembly,     *)
(* objects or an executable with the help of cc. Several may run at a time *)
(* over one file system, as make -j has it.                                *)
(*                                                                         *)
(* A path is << directory, base name, extension >>; an argument is a path  *)
(* or << option >>. A file's content is a kind and the sources it comes    *)
(* from: a "program" is C without errors, a "text" anything else a file    *)
(* may hold before, and what is made of programs is "asm", "object" or     *)
(* "executable".                                                           *)
(***************************************************************************)
EXTENDS Naturals, Sequences, FiniteSets, SequencesExt

CONSTANTS
    Runs,          \* the invocations there may be
    Situations     \* the command lines of some of them (lines, by invocation)
                   \* and what is on the disk before (disk, by path)

Nothing == << "none", << >> >>
None == << "-" >>        \* no output file given

Option == {<< "--help" >>, << "-o" >>, << "-c" >>, << "-S" >>}

\* replace_ext: the base name only, in the working directory.
ReplaceExt(path, ext) == << "", path[2], ext >>

\* The names for which a disk d has the files made of them, too.
Named(d) == {p \in DOMAIN d : {ReplaceExt(p, ".s"), ReplaceExt(p, ".o")} \subseteq DOMAIN d}

\* No output is named like an option, and there is nothing made by cc yet.
ASSUME DriverAssumption ==
    \A s \in Situations :
        /\ \A r \in DOMAIN s.lines :
              /\ s.lines[r] \in Seq(Option \union Named(s.disk))
              /\ \A i \in DOMAIN s.lines[r] \ {1} :
                    s.lines[r][i - 1] = << "-o" >> => s.lines[r][i] \in Named(s.disk)
        /\ << "", "a", ".out" >> \in Named(s.disk)
        /\ \A p \in DOMAIN s.disk :
              \/ s.disk[p] = Nothing
              \/ s.disk[p] = << "program", << p >> >>
              \/ s.disk[p] = << "text", << >> >>

VARIABLES
    disk,           \* the content of every path
    run,            \* every invocation's memory
    first           \* the disk before, for the properties

vars == << disk, run, first >>

-----------------------------------------------------------------------------
AsmFile(r, path) ==
    IF run[r].S /\ run[r].output # None THEN run[r].output ELSE ReplaceExt(path, ".s")

\* Mutant: the objects to link are named after the first file.
ObjFile_First(r, path) ==
    IF run[r].c /\ run[r].output # None THEN run[r].output ELSE ReplaceExt(run[r].inputs[1], ".o")

ObjFile(r, path) ==
    IF run[r].c /\ run[r].output # None THEN run[r].output ELSE ReplaceExt(path, ".o")

OutFile(r, path) == IF run[r].S THEN AsmFile(r, path) ELSE ObjFile(r, path)
LinkOutput(r) == IF run[r].output = None THEN << "", "a", ".out" >> ELSE run[r].output
Linking(r) == ~run[r].c /\ ~run[r].S

Current(r) == run[r].inputs[run[r].next]

Init ==
    \E s \in Situations :
        /\ disk = s.disk /\ first = s.disk
        /\ run = [r \in DOMAIN s.lines |->
                     [at |-> IF s.lines[r] = << >> THEN "usage" ELSE "args", args |-> s.lines[r],
                      c |-> FALSE, S |-> FALSE, output |-> None, inputs |-> << >>,
                      next |-> 1, text |-> Nothing, had_error |-> FALSE,
                      objects |-> << >>, failed |-> FALSE, said |-> FALSE, status |-> "running"]]

-----------------------------------------------------------------------------
\* Steps. An invocation goes on at the next step, or exits.
Becomes(r, changed) == run' = [run EXCEPT ![r] = changed]
Kept == UNCHANGED << disk, first >>

Exit(r, status) == [run[r] EXCEPT !.at = "exit", !.status = status]

\* fatal, usage and the errors of read_file: a message, and the process ends
\* where it is.
Fatal(r) == [Exit(r, "failure") EXCEPT !.said = TRUE]

Writing(path, content) == disk' = [disk EXCEPT ![path] = content] /\ UNCHANGED first
Removing(path) == Writing(path, Nothing)

\* run_command, when cc fails: main exits. cc has touched no file but its
\* output, which it may have left as it was, removed (as ld does when the link
\* fails) or written a part of.
CommandFails(r, output) ==
    /\ Becomes(r, Fatal(r))
    /\ \/ Kept
       \/ \E left \in {Nothing, << "text", << >> >>} : Writing(output, left)

At(r, where) == r \in DOMAIN run /\ run[r].at = where

-----------------------------------------------------------------------------
\* parse_args, one argument at a time. An option's last occurrence counts.
Usage(r) == At(r, "usage") /\ Becomes(r, Fatal(r)) /\ Kept

ParseArg(r) ==
    LET args == run[r].args
        taken == [run[r] EXCEPT !.args = Tail(args)]
    IN /\ At(r, "args") /\ args # << >>
       /\ \/ /\ \/ Head(args) = << "--help" >>
                \/ Head(args) = << "-o" >> /\ Len(args) = 1
             /\ Becomes(r, Fatal(r))
          \/ /\ Head(args) = << "-c" >>
             /\ Becomes(r, [taken EXCEPT !.c = TRUE])
          \/ /\ Head(args) = << "-S" >>
             /\ Becomes(r, [taken EXCEPT !.S = TRUE])
          \/ /\ Head(args) = << "-o" >> /\ Len(args) > 1
             /\ Becomes(r, [run[r] EXCEPT !.output = args[2], !.args = SubSeq(args, 3, Len(args))])
          \/ /\ Head(args) \notin Option
             /\ Becomes(r, [taken EXCEPT !.inputs = Append(@, Head(args))])
       /\ Kept

\* Its checks.
Contradictory(p) ==
    \/ p.inputs = << >>
    \/ p.S /\ p.c
    \/ p.output # None /\ Len(p.inputs) > 1 /\ (p.S \/ p.c)

ArgsParsed(r) ==
    /\ At(r, "args") /\ run[r].args = << >>
    /\ Becomes(r, IF Contradictory(run[r]) THEN Fatal(r) ELSE [run[r] EXCEPT !.at = "read"])
    /\ Kept

-----------------------------------------------------------------------------
\* compile_file, for every input in turn.

ReadFile(r) ==
    /\ At(r, "read") /\ run[r].next <= Len(run[r].inputs)
    /\ Becomes(r, IF disk[Current(r)] = Nothing THEN Fatal(r)
                  ELSE [run[r] EXCEPT !.at = "compile", !.text = disk[Current(r)]])
    /\ Kept

\* Mutant: every file's errors are its own.
HadError_ByFile(before, text) == text[1] # "program"

\* diagnostics_had_error after parsing and analysing a text: the count is
\* that of all files so far.
HadError(before, text) == before \/ text[1] # "program"

\* parse_translation_unit and sema_analyze.
Analyze(r) ==
    LET text == run[r].text
    IN /\ At(r, "compile")
       /\ Becomes(r, [run[r] EXCEPT !.at = IF HadError(run[r].had_error, text) THEN "reject" ELSE "emit",
                                    !.had_error = HadError(run[r].had_error, text),
                                    !.said = @ \/ text[1] # "program"])
       /\ Kept

\* The next input, the output of this one being noted or missing.
NextInput(r) == [run[r] EXCEPT !.at = "read", !.next = @ + 1]
Compiled(r) == [NextInput(r) EXCEPT !.objects = Append(@, OutFile(r, Current(r)))]

\* Mutant: the next input is not taken after one that failed.
Reject_Same(r) == /\ At(r, "reject")
                  /\ Removing(AsmFile(r, Current(r)))
                  /\ Becomes(r, [run[r] EXCEPT !.at = "read", !.failed = TRUE])

\* The .s that was not written is removed all the same.
Reject(r) == /\ At(r, "reject")
             /\ Removing(AsmFile(r, Current(r)))
             /\ Becomes(r, [NextInput(r) EXCEPT !.failed = TRUE])

Emit(r) == /\ At(r, "emit")
           /\ Writing(AsmFile(r, Current(r)), << "asm", run[r].text[2] >>)
           /\ Becomes(r, IF run[r].S THEN Compiled(r) ELSE [run[r] EXCEPT !.at = "assemble"])

\* cc -c, which refuses to write over its input, and may fail.
Assemble(r) ==
    LET asm == AsmFile(r, Current(r))
        obj == ObjFile(r, Current(r))
    IN /\ At(r, "assemble")
       /\ \/ /\ disk[asm][1] = "asm" /\ asm # obj
             /\ Writing(obj, << "object", disk[asm][2] >>)
             /\ Becomes(r, [run[r] EXCEPT !.at = "assembled"])
          \/ CommandFails(r, obj)

\* Mutant: the assembly is kept.
RemoveAsm_Kept(r) == /\ At(r, "assembled") /\ Kept /\ Becomes(r, Compiled(r))

RemoveAsm(r) == /\ At(r, "assembled")
                /\ Removing(AsmFile(r, Current(r)))
                /\ Becomes(r, Compiled(r))

-----------------------------------------------------------------------------
\* The end of main.
AllRead(r) == At(r, "read") /\ run[r].next > Len(run[r].inputs)

\* Mutant: what was compiled is linked although another file was not.
MayLink_Rest(r) == Linking(r) /\ run[r].objects # << >>

MayLink(r) == Linking(r) /\ ~run[r].failed

InputsDone(r) ==
    /\ AllRead(r)
    /\ Becomes(r, [run[r] EXCEPT !.at = IF MayLink(r) THEN "link" ELSE "cleanup"])
    /\ Kept

\* link_files. cc wants objects, none of them its output, and may fail.
Link(r) ==
    LET objects == run[r].objects
    IN /\ At(r, "link")
       /\ \/ /\ \A i \in DOMAIN objects : disk[objects[i]][1] = "object" /\ objects[i] # LinkOutput(r)
             /\ Writing(LinkOutput(r),
                        << "executable", FlattenSeq([i \in DOMAIN objects |-> disk[objects[i]][2]]) >>)
             /\ Becomes(r, [run[r] EXCEPT !.at = "cleanup"])
          \/ CommandFails(r, LinkOutput(r))

\* The objects are removed one by one unless they were asked for.
RemoveObject(r) ==
    /\ At(r, "cleanup") /\ run[r].objects # << >>
    /\ IF Linking(r) THEN Removing(Head(run[r].objects)) ELSE Kept
    /\ Becomes(r, [run[r] EXCEPT !.objects = Tail(@)])

ExitStatus(p) == IF p.failed THEN "failure" ELSE "success"

Return(r) ==
    /\ At(r, "cleanup") /\ run[r].objects = << >>
    /\ Becomes(r, [Exit(r, ExitStatus(run[r])) EXCEPT !.at = "returned"])
    /\ Kept

-----------------------------------------------------------------------------
Step(r) ==
    \/ Usage(r) \/ ParseArg(r) \/ ArgsParsed(r)
    \/ ReadFile(r) \/ Analyze(r) \/ Reject(r) \/ Emit(r) \/ Assemble(r) \/ RemoveAsm(r)
    \/ InputsDone(r) \/ Link(r) \/ RemoveObject(r) \/ Return(r)

Next == \E r \in Runs : Step(r)

\* Every invocation is scheduled, and cc comes to an end.
Spec == Init /\ [][Next]_vars /\ \A r \in Runs : WF_vars(Step(r))

-----------------------------------------------------------------------------
\* What an invocation reads and may write. Two whose files are apart do not
\* disturb each other; nothing in the code keeps others from doing so.
Reads(r) == ToSet(run[r].inputs)
Writes(r) == (UNION {{AsmFile(r, p), OutFile(r, p)} : p \in Reads(r)})
               \union (IF Linking(r) THEN {LinkOutput(r)} ELSE {})
Apart(r) == \A other \in DOMAIN run \ {r} : Writes(other) \intersect (Writes(r) \union Reads(r)) = {}

\* The input whose code ends up under the name of this one's output: names
\* come from base names, and the last input of a base name wins.
Winner(r, i) ==
    LET inputs == run[r].inputs
    IN CHOOSE j \in DOMAIN inputs :
           /\ inputs[j][2] = inputs[i][2]
           /\ \A k \in DOMAIN inputs : inputs[k][2] = inputs[i][2] => k <= j
Code(r) == [i \in DOMAIN run[r].inputs |-> run[r].inputs[Winner(r, i)]]

\* Success means that every input was a program, and that the executable, or
\* every object or assembly file asked for, is there and holds their code. A
\* run that said something on stderr is not one of success.
SuccessIsTrue ==
    \A r \in DOMAIN run : run[r].status = "success" => ~run[r].said /\ (Apart(r) =>
        /\ \A i \in DOMAIN run[r].inputs : first[run[r].inputs[i]][1] = "program"
        /\ IF Linking(r) THEN disk[LinkOutput(r)] = << "executable", Code(r) >>
           ELSE \A i \in DOMAIN run[r].inputs :
                    disk[OutFile(r, run[r].inputs[i])] =
                        << IF run[r].S THEN "asm" ELSE "object", << Code(r)[i] >> >>)

\* The first file with errors ends all compiling: the outputs are those of
\* the inputs before it, however good the later ones are.
Good(r) == {n \in 0 .. Len(run[r].inputs) :
                \A i \in 1 .. n : first[run[r].inputs[i]][1] = "program"}
CompiledUpToFirstError ==
    \A r \in DOMAIN run : AllRead(r) /\ Apart(r) /\ Reads(r) \intersect Writes(r) = {} =>
        LET n == CHOOSE n \in Good(r) : \A m \in Good(r) : m <= n
        IN /\ run[r].objects = [i \in 1 .. n |-> OutFile(r, run[r].inputs[i])]
           /\ run[r].failed <=> n < Len(run[r].inputs)

\* Where main returns there are no temporary files: no assembly but what -S
\* asked for, and no objects but what -c asked for. (Where a command fails or
\* a file cannot be read, the process ends at once and leaves them.)
NothingLeftBehind ==
    \A r \in DOMAIN run : At(r, "returned") /\ Apart(r) =>
        \A p \in Reads(r) :
            /\ run[r].S \/ (Linking(r) /\ AsmFile(r, p) = LinkOutput(r)) \/ disk[AsmFile(r, p)] = Nothing
            /\ Linking(r) => disk[ObjFile(r, p)][1] # "object"

\* An executable of an earlier build is safe until every file of this one has
\* been compiled: where one is missing, in error or cannot be assembled, it
\* stays as it was, if no other invocation writes this one's files. (Where cc
\* fails to link, it may be gone.)
ErrorsKeepExecutable ==
    \A r \in DOMAIN run :
        LET temporary == UNION {{AsmFile(r, p), ObjFile(r, p)} : p \in Reads(r)}
        IN /\ Linking(r) /\ Apart(r) /\ LinkOutput(r) \notin temporary
           /\ disk[LinkOutput(r)] # first[LinkOutput(r)]
           => /\ run[r].next > Len(run[r].inputs) /\ ~run[r].failed
              /\ \A i \in DOMAIN run[r].inputs : first[run[r].inputs[i]][1] = "program"

\* Every invocation exits.
EveryRunEnds == \A r \in Runs : <>(r \in DOMAIN run => run[r].status # "running")

=============================================================================
