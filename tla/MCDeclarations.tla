--------------------------- MODULE MCDeclarations ---------------------------
(* Small translation units for TLC. *)
EXTENDS DeclarationRules, TLC

CONSTANTS x, y, anon

Object(n, base, sc, init, v) ==
    [name |-> n, kind |-> "object", base |-> base, sc |-> sc, init |-> init, value |-> v,
     params |-> << >>, body |-> FALSE, param |-> FALSE]

Param(n, base, sc) ==
    [name |-> n, kind |-> "object", base |-> base, sc |-> sc, init |-> "none", value |-> 0,
     params |-> << >>, body |-> FALSE, param |-> TRUE]

Function(n, base, sc, ps, body) ==
    [name |-> n, kind |-> "function", base |-> base, sc |-> sc, init |-> "none", value |-> 0,
     params |-> ps, body |-> body, param |-> FALSE]

\* One identifier in every role: what one declaration does to another of it.
OneName ==
    {Object(x, "int", sc, init, 5) : sc \in {"none", "static", "extern"},
                                     init \in {"none", "constant"}}
      \cup {Object(x, "long", sc, "none", 0) : sc \in {"extern", "register"}}
      \cup {Object(x, "long", "none", "constant", 5)}
      \cup {Function(x, "int", sc, << >>, b) : sc \in {"none", "static"}, b \in BOOLEAN}

\* Hosts for block scopes, parameters that take a name, and locals.
TwoNames ==
    {Function(y, "void", "none", ps, TRUE) :
        ps \in {<< >>, << Param(x, "int", "none") >>}}
      \cup {Object(x, "int", sc, "none", 0) : sc \in {"none", "static", "extern"}}
      \cup {Object(x, "int", sc, "constant", 1) : sc \in {"none", "static"}}
      \cup {Function(x, "int", "none", << >>, FALSE)}

\* The constraints on one declaration: parameters, initialisers, specifiers.
Specifiers ==
    {Function(y, "int", "none", ps, b) :
        b \in BOOLEAN,
        ps \in {<< Param(x, "int", "none"), Param(x, "long", "none") >>,
                << Param(x, "int", "register"), Param(anon, "int", "none") >>,
                << Param(x, "void", "none") >>, << Param(x, "int", "static") >>}}
      \cup {Function(y, "int", "register", << >>, b) : b \in BOOLEAN}
      \cup {Object(x, "int", sc, init, 1) :
              sc \in {"auto", "static", "extern"},
              init \in {"none", "runtime", "invalid", "constant"}}
      \cup {Object(x, "void", sc, init, 1) :
              sc \in {"auto", "static", "extern"}, init \in {"none", "constant"}}

\* All of these about one name and its function.
OneNameAnyForm == OneName \cup Specifiers
=============================================================================
