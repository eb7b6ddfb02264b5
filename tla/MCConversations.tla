-------------------------- MODULE MCConversations --------------------------
(* An instance of Conversations: two tabs write while both parties read.   *)
EXTENDS Conversations

CONSTANTS t1, t2

MCBudgets == {[accounts |-> 0, listings |-> 0, talk |-> 3, buyer |-> 0,
               hearts |-> 0, crash |-> 1]}
=============================================================================
