---------------------------- MODULE MCConnection ----------------------------
(* The instances of Connection that TLC checks.                            *)
EXTENDS Connection

\* A fragment, every record alone, and pairs in which the second must wait, must
\* not be reached, or must be refused.
MCMessages == {<< >>} \cup { << r >> : r \in Records } \cup
  { << "feed", "closed" >>, << "completion", "completion" >> }

\* One of each effect on the budgets.
MCFewMessages == { << >>, << "ignored" >>, << "feed", "completion" >>, << "closed" >> }

\* At once, and after a ping was due and both budgets were spent.
MCHandoffs == { 0, 5 }

\* None, and those at which a budget or the write of a ping may end too.
MCDeadlines == { NoDeadline, 4, 6 }

\* For the temporal properties: none, or one beyond the first timeouts.
MCLateDeadline == { NoDeadline, 3 }
=============================================================================
