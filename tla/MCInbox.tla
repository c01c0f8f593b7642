------------------------------ MODULE MCInbox ------------------------------
(* Small instances of Inbox: more posts than one page of mm new shows, and  *)
(* one of the agent's own among them.                                       *)
EXTENDS Inbox, TLC

CONSTANTS p1, p2, m1, g1, g2

TwoPosts == {p1, p2}
OneOfMine == {m1}
TwoAgents == {g1, g2}
OneOrTwo == {1, 2}
NoneOrSecond == {0, 2}

Symmetric == Permutations(Others) \cup Permutations(Agents)
=============================================================================
