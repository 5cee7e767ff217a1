----------------------------- MODULE MCHashMap -----------------------------
(***************************************************************************)
(* Four keys for TLC: two arrays are outgrown. What a key's number is      *)
(* matters up to the order of the keys only.                               *)
(***************************************************************************)
EXTENDS HashMap

HashesDef == {h \in [Key -> {0, 3, 7}] : \A j, k \in Key : j < k => h[j] <= h[k]}
=============================================================================
