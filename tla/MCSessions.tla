------------------------------ MODULE MCSessions -----------------------------
(***************************************************************************)
(* TLC instance of Sessions: two requests at a time, four tokens in two    *)
(* sessions or in one rotated three times.                                 *)
(***************************************************************************)
EXTENDS Sessions, TLC

Symmetry == Permutations(Requests) \cup Permutations(Tokens)
=============================================================================
