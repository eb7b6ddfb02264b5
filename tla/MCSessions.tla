----------------------------- MODULE MCSessions -----------------------------
EXTENDS Sessions, TLC

CONSTANTS t1, t2

\* The tabs are interchangeable.
Symmetric == Permutations({t1, t2})
=============================================================================
