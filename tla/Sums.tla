-------------------------------- MODULE Sums --------------------------------
(* Totals over the rows of a table.                                          *)
EXTENDS Integers, FiniteSetsExt

\* The sum of f[x] for x in S.
SumOf(f, S) == MapThenSumSet(LAMBDA x : f[x], S)
=============================================================================
