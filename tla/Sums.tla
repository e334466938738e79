-------------------------------- MODULE Sums --------------------------------
(***************************************************************************)
(* The one sum the models' books are stated with: of the values a function *)
(* takes on a finite set.  SumTheorems has the facts about it.             *)
(***************************************************************************)
EXTENDS Integers, FiniteSets, FiniteSetsExt

SumOf(f, S) == MapThenSumSet(LAMBDA x : f[x], S)
=============================================================================
