------------------------- MODULE MCDaemonLifecycle -------------------------
(* Small instances of DaemonLifecycle: two daemons are enough for one to     *)
(* follow or to race another.                                                *)
EXTENDS DaemonLifecycle

CONSTANTS d1, d2, s1, s2, t1

TwoDaemons == {d1, d2}
TwoStarts == {s1, s2}
OneStop == {t1}
Nobody == {}
JustOne == {d1}
OldAndNew == [p \in TwoDaemons |-> IF p = d1 THEN 1 ELSE 2]
=============================================================================
