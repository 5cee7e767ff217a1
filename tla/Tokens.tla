------------------------------- MODULE Tokens -------------------------------
(***************************************************************************)
(* The kinds of token of lexer.h, spelled as they are in a program, and    *)
(* the classes the parser and the grammar put them in. A token here is its *)
(* kind: "ident" and "const" stand for any identifier or constant, "huge"  *)
(* for a constant that no long can hold, "error" for characters that are   *)
(* no token and "eof" for the end of the file.                             *)
(***************************************************************************)

TypeSpecifiers == {"int", "long", "void"}
StorageSpecifiers == {"static", "extern", "auto", "register"}
DeclarationStarts == TypeSpecifiers \union StorageSpecifiers

AssignmentOps == {"=", "+=", "-=", "*=", "/=", "%=", "&=", "|=", "^=", "<<=", ">>="}
PrefixOps == {"+", "-", "!", "~"}
StepOps == {"++", "--"}     \* before or after their operand

\* What stands for a part a tree does not have, and for a part that is
\* missing because of an error.
Absent == << "absent" >>
Null == << "missing" >>

EmptyList == << "list", << >> >>

=============================================================================
