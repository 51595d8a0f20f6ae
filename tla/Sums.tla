-------------------------------- MODULE Sums --------------------------------
(***************************************************************************)
(* What the chaincodes' loops over rows, items and outputs compute: the    *)
(* sum of f over a finite set of its arguments.                            *)
(***************************************************************************)
EXTENDS Integers, FiniteSetsExt

SumOver(f, S) == MapThenSumSet(LAMBDA x : f[x], S)
=============================================================================
