------------------------------ MODULE MCParser ------------------------------
(***************************************************************************)
(* Small files for TLC, one for each part of the language, with the kinds  *)
(* of token that part needs. The last two are mostly not of the language.  *)
(***************************************************************************)
EXTENDS Parser, Grammar

File(scope, kinds, size, wild) == [scope |-> scope, kinds |-> kinds, size |-> size, wild |-> wild]

FilesDef ==
    [functions |-> File("unit", {"int", "static", "void", "ident", "(", ")", ",", ";", "=", "{", "}", "error"}, 6, 1),
     specifiers |-> File("unit", {"int", "long", "static", "ident", ";"}, 4, 3),
     nested |-> File("body", {"int", "ident", "(", ")", "{"}, 5, 3),
     danglingElse |-> File("statement", {"ident", "if", "else", "while", "(", ")", ";"}, 11, 0),
     blocks |-> File("body", {"ident", "if", "else", "(", ")", ";", "{", "}"}, 6, 1),
     loops |-> File("statement", {"ident", "while", "do", "for", "int", "(", ")", ";", "="}, 8, 0),
     switches |-> File("statement", {"ident", "switch", "case", "default", ":", "?", "(", ")", ";", "{", "}"}, 7, 0),
     jumps |-> File("body", {"ident", "return", "goto", "break", "continue", ":", ";", "int"}, 4, 1),
     operators |-> File("declarators", {"ident", "(", ")", "=", "+", "*", "++", "huge"}, 7, 1),
     calls |-> File("declarators", {"ident", "(", ")", ",", "?", ":", "=", "int", "static", "!"}, 7, 1),
     levels |-> File("declarators",
                     {"ident", "=", "?", ":", "||", "&&", "|", "^", "&", "==", "<", "<<", "-", "%"}, 7, 0),
     wrongUnit |-> File("unit", {"int", "ident", ";", "}", "error"}, 5, 5),
     wrongBody |-> File("body", {"int", "ident", ";", "{", "}", "error", "else"}, 4, 4)]

\* The tree of the file that holds a sentence.
Whole(scope, tree) ==
    << "unit", IF scope \in {"body", "statement"}
               THEN << Function(<< "int", "none" >>, << "ident" >>, << >>, << "block", tree >>) >>
               ELSE tree >>

Languages ==
    [f \in DOMAIN FilesDef |->
        LET file == FilesDef[f]
            phrases == Sentences(file.scope, file.kinds, file.size)
        IN [texts |-> {p.text : p \in phrases},
            viable |-> UNION {{SubSeq(p.text, 1, i) : i \in 0 .. Len(p.text)} : p \in phrases},
            parses |-> {<< p.text, Whole(file.scope, p.tree) >> : p \in phrases}]]
LanguageDef == Languages

=============================================================================
