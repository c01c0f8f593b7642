---------------------------- MODULE MCCacheSync ----------------------------
(* Small instances of CacheSync.  The page sizes keep the order they have   *)
(* in the code, 60 <= 100 <= 200 <= 500, shrunk to one, two, three, four. *)
EXTENDS CacheSync

CONSTANTS c1, c2

OneChannel == {c1}
TwoChannels == {c1, c2}

AllInOne == [p \in Posts |-> c1]
ThirdApart == [p \in Posts |-> IF p = 3 THEN c2 ELSE c1]
NoRoot == [p \in Posts |-> 0]
TwoReplies == [p \in Posts |-> IF p \in {2, 6} THEN 1 ELSE 0]
OneReaction == {"thumbsup"}
Nothing == {}
First == {1}
Sixth == {6}
=============================================================================
