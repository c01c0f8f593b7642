----------------------------- MODULE LocalReads -----------------------------
(***************************************************************************)
(* What mm messages, mm unread and mm channels answer from the cache that  *)
(* CacheSync keeps, and what they would answer live.  A command reads in   *)
(* one SQL statement, so an answer is a function of the state; a post's    *)
(* number is its create_at.                                                *)
(***************************************************************************)
EXTENDS CacheSync

\* openFreshLocalCache: a daemon that is up and has finished its Backfill.
openFreshLocalCache == main \in {"connect", "reconcile", "consume"}

\* store.ChannelPosts, without the deleted ones.
ChannelPosts(c) == {p \in Posts : ChannelOf[p] = c /\ rowVer[p] > 0 /\ ~rowDel[p]}

\* At or after since, the newest limit of them; 0 stands for not given.
selectRecentMessages(S, since, limit) ==
  LET recent == {p \in S : p >= since}
  IN  IF limit = 0 THEN recent
      ELSE {p \in recent : Cardinality(NewerIn(recent, p)) < limit}

\* A slip: any cached post will do.
CoveredBySome(c, since, limit) == openFreshLocalCache /\ ChannelPosts(c) # {}

\* messagesLocal answers if the cache holds an older post than the window
\* asked for, or as many posts as the limit; everything else goes live.
Covered(c, since, limit) ==
  /\ openFreshLocalCache
  /\ IF since > 0 THEN \E p \in ChannelPosts(c) : p <= since
                  ELSE limit > 0 /\ Cardinality(ChannelPosts(c)) >= limit

messagesLocal(c, since, limit) == selectRecentMessages(ChannelPosts(c), since, limit)

\* runMessages against the API: one page, of the limit or of at least 200, and
\* of no more than the 200 the server gives.
runMessages(c, since, limit) ==
  LET perPage == IF limit = 0 \/ since > 0 \/ limit > PageSize THEN PageSize ELSE limit
  IN  selectRecentMessages(PageOf(Live(c), 0, perPage), since, limit)

\* mm unread from the tables: the channels joined with the memberships.
unreadRowsLocal ==
  {[id |-> c, unread |-> rowTotal[c] - rowRead[c]] :
     c \in {d \in Channels : rowTotal[d] # NoRow /\ rowRead[d] # NoRow
                             /\ rowTotal[d] - rowRead[d] > 0}}

\* The same from two calls to the API, and mm overview's part of it.
computeUnreadRows ==
  {[id |-> c, unread |-> ServerTotal(c) - srvRead[c]] :
     c \in {d \in joined : ServerTotal(d) - srvRead[d] > 0}}

\* mm channels from the table; from the API it lists the channels joined.
channelsLocal == {c \in Channels : rowTotal[c] # NoRow}

--------------------------------------------------------------------------
Sinces == 0..MaxPost
Limits == 0..MaxPost

\* An answer is about recent posts if it names no more than MinBackfill.
Recent(c, since, limit) ==
  \/ limit \in 1..MinBackfill
  \/ since > 0 /\ Cardinality({p \in Live(c) : p >= since}) <= MinBackfill

\* Nothing is missing that is newer than something held.
NoHole(c) == \A p \in Live(c) : \A q \in ChannelPosts(c) : p > q => rowVer[p] > 0

\* The live path reads a single page, whatever the limit.
FitsPage(c, since, limit) ==
  limit \in 1..PageSize \/ Cardinality({p \in Live(c) : p >= since}) <= PageSize

\* At rest, where nothing was ever deleted, a local answer is the live answer
\* whenever it is about recent posts, whatever outages came before, and for any
\* window and limit unless an outage has left a hole: the tests of messagesLocal
\* see where the cache begins, and the Reconcile of a reconnect leaves no hole
\* among the newest MinBackfill posts.  It is the same answer as long as the live
\* one fits the page the server gives.
CoveredIsRight ==
  AtRest /\ (\A p \in Posts : ~srvDel[p]) =>
    \A c \in joined \ leapt, since \in Sinces, limit \in Limits :
      Covered(c, since, limit) /\ FitsPage(c, since, limit)
        /\ (NoHole(c) \/ Recent(c, since, limit)) =>
          messagesLocal(c, since, limit) = runMessages(c, since, limit)

\* For the channels the user is a member of, mm unread and mm channels come to
\* answer from the cache what they answer live, for good, once the server is
\* quiet and the faults are over: the periodic Reconcile wins over every double
\* count, every stale write, every pair of answers that do not go together,
\* every event handled in vain, and over leaving and joining.  A channel left
\* for good stays in the tables as it was: nothing is said of it.
UnreadConverges ==
  <>[](/\ {r \in unreadRowsLocal : r.id \in joined} = computeUnreadRows
       /\ joined \subseteq channelsLocal)

\* messages.go: only answer locally when the cache certainly holds the full
\* requested set.  An answer would then miss no post of the live one.
CoveredIsWhole ==
  AtRest => \A c \in joined, since \in Sinces, limit \in Limits :
    Covered(c, since, limit) =>
      runMessages(c, since, limit) \subseteq messagesLocal(c, since, limit)
=============================================================================
