------------------------------ MODULE Replica ------------------------------
(***************************************************************************)
(* What the posts and reactions tables promise whoever reads them,         *)
(* whatever the daemon is doing: they hold nothing that the server never   *)
(* said.  A row shows some version its post has had, is marked deleted     *)
(* only if the post was deleted, carries only reactions the post has had,  *)
(* and is never removed.  It may lag, skip versions and even step back to  *)
(* an older one: no more than this is promised.                            *)
(***************************************************************************)
EXTENDS Integers

CONSTANTS MaxPost, MaxVer, Reactions

VARIABLES
  ver, del, had,                \* the server's posts: version (0: none yet),
                                \* deleted, every reaction so far
  copyVer, copyDel, copyReact   \* the copy's

Posts == 1..MaxPost
vars == <<ver, del, had, copyVer, copyDel, copyReact>>

Init ==
  /\ ver = [p \in Posts |-> 0] /\ copyVer = [p \in Posts |-> 0]
  /\ del = [p \in Posts |-> FALSE] /\ copyDel = [p \in Posts |-> FALSE]
  /\ had = [p \in Posts |-> {}] /\ copyReact = [p \in Posts |-> {}]

\* The server makes a post or a new version of it, deletes it, or shows a
\* reaction to it.
Write(p) ==
  /\ ~del[p] /\ ver[p] < MaxVer
  /\ ver' = [ver EXCEPT ![p] = @ + 1]
  /\ UNCHANGED <<del, had, copyVer, copyDel, copyReact>>

Delete(p) ==
  /\ ver[p] > 0
  /\ del' = [del EXCEPT ![p] = TRUE]
  /\ UNCHANGED <<ver, had, copyVer, copyDel, copyReact>>

React(p) ==
  /\ ver[p] > 0
  /\ \E r \in Reactions : had' = [had EXCEPT ![p] = @ \cup {r}]
  /\ UNCHANGED <<ver, del, copyVer, copyDel, copyReact>>

\* The copy takes over something the server has said of the post, with some of
\* the reactions it has had; or of its reactions alone.
HearReactions(p) ==
  /\ \E R \in SUBSET had[p] : copyReact' = [copyReact EXCEPT ![p] = R]
  /\ UNCHANGED <<ver, del, had>>

HearPost(p) ==
  /\ \E v \in 1..ver[p], d \in {FALSE, del[p]} :
       /\ copyVer' = [copyVer EXCEPT ![p] = v]
       /\ copyDel' = [copyDel EXCEPT ![p] = d]
  /\ HearReactions(p)

Hear(p) ==
  \/ HearPost(p)
  \/ HearReactions(p) /\ UNCHANGED <<copyVer, copyDel>>

Next == \E p \in Posts : Write(p) \/ Delete(p) \/ React(p) \/ Hear(p)

Spec == Init /\ [][Next]_vars
=============================================================================
