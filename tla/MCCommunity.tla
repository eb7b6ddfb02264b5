---------------------------- MODULE MCCommunity ----------------------------
(* An instance of Community: two tabs, of one buyer or of two.              *)
EXTENDS Community, Onboarding, TLC

CONSTANTS t1, t2, n1, n2, n3

\* The tabs are interchangeable, and so are the ticket numbers.
Symmetric == Permutations(Tabs) \cup Permutations(Numbers)

Split(a, l, b, h) == [accounts |-> a, listings |-> l, talk |-> 0, buyer |-> b,
                      hearts |-> h, crash |-> 1]

NoCrash(b) == [b EXCEPT !.crash = 0]

\* Each service on its own, with more requests when there is no crash, and the
\* account together with the catalogue.
MCBudgets == {Split(3, 0, 0, 0), NoCrash(Split(4, 0, 0, 0)),
              Split(0, 3, 0, 0), NoCrash(Split(0, 4, 0, 0)),
              Split(1, 1, 0, 0), NoCrash(Split(0, 0, 4, 0)), Split(0, 0, 3, 0),
              Split(0, 0, 0, 3)}

MCTabUsers == {f \in [Tabs -> Buyers] : \E t \in Tabs : f[t] = 1}

\* Pay one ticket and get two.
MCPackBonuses == 1 :> 1
=============================================================================
