------------------------------ MODULE MCDriver ------------------------------
(***************************************************************************)
(* One invocation over every command line of a few files, and two at the   *)
(* same time. x.c and d/x.c have one base name, and so one .s and one .o.  *)
(***************************************************************************)
EXTENDS Driver, TLC

CONSTANTS one, two

X == << "", "x", ".c" >>
XAsm == << "", "x", ".s" >>
Y == << "", "y", ".c" >>
DX == << "d", "x", ".c" >>

Path(b, ext) == << "", b, ext >>
Out == Path("out", "")
Paths == {X, Y, DX, Out, Path("a", ".out")} \union {Path(b, e) : b \in {"x", "y", "out", "a"}, e \in {".s", ".o"}}

\* What may be on the disk: programs and texts that are none at the paths
\* of the command lines, and texts where earlier work may have left some.
Disks(named) ==
    LET May(p) == {Nothing} \union (IF p \in named \union {XAsm, Out} THEN {<< "text", << >> >>} ELSE {})
                    \union (IF p \in named /\ p[3] = ".c" THEN {<< "program", << p >> >>} ELSE {})
        all == {d \in [named \union {XAsm, Out} -> UNION {May(p) : p \in Paths}] : \A p \in DOMAIN d : d[p] \in May(p)}
    IN {[p \in Paths |-> IF p \in DOMAIN d THEN d[p] ELSE Nothing] : d \in all}

Options == {<< >>, << << "-c" >> >>, << << "-S" >> >>}
Outputs == {<< >>} \union {<< << "-o" >>, p >> : p \in {Out, X, XAsm, Path("x", ".o")}}
Files == UNION {[1 .. n -> {X, Y, DX}] : n \in 1 .. 2}
           \union {<< XAsm >>, << X, XAsm >>, << X, Y, X >>, << X, Y, DX >>}

Odd == {<< >>, << X, << "-o" >> >>, << X, << "--help" >> >>, << << "-c" >> >>, << << "-S" >>, X, << "-c" >> >>,
        << << "-o" >>, X, << "-o" >>, Out, Y >>}

Alone == Odd \union {o \o out \o files : o \in Options, out \in Outputs, files \in Files}
Together == {<< << << "-c" >>, X >>, << << "-c" >>, Y >> >>,
             << << X, Y >>, << << "-S" >>, DX >> >>,
             << << X >>, << << "-o" >>, Out, Y >> >>}
Lines == {one :> a : a \in Alone} \union {one :> t[1] @@ two :> t[2] : t \in Together}

SituationsDef ==
    UNION {LET named == UNION {ToSet(lines[r]) : r \in DOMAIN lines} \intersect Paths
           IN {[lines |-> lines, disk |-> d] : d \in Disks(named)} : lines \in Lines}

=============================================================================
