----------------------------- MODULE MCSourceLedger -----------------------------
(* SourceLedger with two sources and three usernames, which are interchangeable. *)
EXTENDS SourceLedger, TLC

CONSTANTS na, nb, nc

Names    == {na, nb, nc}
Symmetry == Permutations(Names)
===============================================================================
