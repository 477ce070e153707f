------------------------------- MODULE Sums -------------------------------
(***************************************************************************)
(* The sum of what a function has for the members of a finite set.         *)
(***************************************************************************)
EXTENDS Integers, FiniteSetsExt

SumOver(f, S) == MapThenSumSet(LAMBDA x : f[x], S)
===========================================================================
