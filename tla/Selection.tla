------------------------------ MODULE Selection ------------------------------
(***************************************************************************)
(* How the read commands cut a list of posts down to what was asked for:   *)
(* mm mentions, search and overview merge the hits of several teams, mm    *)
(* messages keeps the newest of a channel, mm thread the root and the      *)
(* newest replies.                                                         *)
(*                                                                         *)
(* The hits are filtered and deduplicated in place, in one array: a pass   *)
(* reads position i and writes position n of the same buffer.              *)
(***************************************************************************)
EXTENDS Integers, Sequences, FiniteSets, Functions

CONSTANTS
  Ids,        \* posts, in the order of their ids
  CreateAt,   \* the create_at of each; equal ones are possible
  Root,       \* the one of them that is the root of the thread
  Day,        \* the length of a day
  NTeams,     \* the user's teams
  Moments,    \* what --since may name, 0 if not given
  MaxHits,    \* bound: posts a team's search finds
  MaxLimit    \* bound: --limit

ASSUME SelectionAssumption ==
  /\ Ids \subseteq Nat /\ Root \in Ids /\ CreateAt \in [Ids -> Nat \ {0}]
  /\ Day \in Nat \ {0} /\ NTeams \in Nat /\ Moments \subseteq Nat /\ MaxHits \in Nat /\ MaxLimit \in Nat

VARIABLES
  matches,    \* the posts of each team that the query matches, as the server lists them
  since,      \* --since, 0: not given
  limit,      \* --limit, 0: no limit
  in,         \* is --in given?
  team,       \* the next team to search
  searched,   \* the teams whose answer is among the hits
  buf,        \* the array
  phase,      \* "search", "filter", "dedupe", "done" or "failed"
  i,          \* the next position to read
  n           \* the positions written so far

query == <<matches, since, limit, in>>
vars == <<query, team, searched, buf, phase, i, n>>

--------------------------------------------------------------------------
\* The elements of s at the positions K, each behind those "before" has before it.
Arrange(s, K, before) ==
  LET Place(k) == 1 + Cardinality({j \in K : <<j, k>> \in before})
  IN  [r \in 1..Cardinality(K) |-> s[CHOOSE k \in K : Place(k) = r]]

\* The elements of s that are in S, as they come.
Filter(s, S) ==
  LET K == {k \in DOMAIN s : s[k] \in S}
  IN  Arrange(s, K, {jk \in K \X K : jk[1] < jk[2]})

\* sort.SliceStable: element k goes behind what is less, and behind what is
\* equal and was in front of it.
SortStable(s, less) ==
  LET Before(j, k) == <<s[j], s[k]>> \in less \/ (<<s[k], s[j]>> \notin less /\ j < k)
  IN  Arrange(s, DOMAIN s, {jk \in (DOMAIN s) \X (DOMAIN s) : Before(jk[1], jk[2])})

Newer == {pq \in Ids \X Ids : CreateAt[pq[1]] > CreateAt[pq[2]]}
Older ==
  {pq \in Ids \X Ids : \/ CreateAt[pq[1]] < CreateAt[pq[2]]
                       \/ CreateAt[pq[1]] = CreateAt[pq[2]] /\ pq[1] < pq[2]}

--------------------------------------------------------------------------
(* searchMentionHits and runSearch: the teams are searched one by one.      *)

\* A slip: the day of --since itself is excluded.
afterSinceItself == since \div Day

\* "after:" names a day and excludes it.
afterDateForSinceMs == since \div Day - 1

SearchPosts(t) ==
  Filter(matches[t], {p \in Ids : since = 0 \/ CreateAt[p] \div Day > afterDateForSinceMs})

\* searchChannelNameForTeam: the team does not have the channel of --in, or
\* the lookup fails.
SkipTeam ==
  /\ phase = "search" /\ team <= NTeams /\ in
  /\ team' = team + 1
  /\ UNCHANGED <<query, searched, buf, phase, i, n>>

SearchTeam ==
  /\ phase = "search" /\ team <= NTeams
  /\ buf' = buf \o SearchPosts(team)
  /\ searched' = searched \cup {team} /\ team' = team + 1
  /\ UNCHANGED <<query, phase, i, n>>

\* No part of an answer is printed.
SearchFails ==
  /\ phase = "search" /\ team <= NTeams /\ phase' = "failed"
  /\ UNCHANGED <<query, team, searched, buf, i, n>>

AllSearched ==
  /\ phase = "search" /\ team > NTeams
  /\ phase' = IF in /\ searched = {} THEN "failed" ELSE "filter"
  /\ UNCHANGED <<query, team, searched, buf, i, n>>

--------------------------------------------------------------------------
(* filterPostHitsSince and dedupeSortLimitPostHits, one element at a time.  *)

FilterHit ==
  /\ phase = "filter" /\ i <= Len(buf)
  /\ i' = i + 1
  /\ IF since > 0 /\ CreateAt[buf[i]] < since
     THEN UNCHANGED <<buf, n>>
     ELSE n' = n + 1 /\ buf' = [buf EXCEPT ![n + 1] = buf[i]]
  /\ UNCHANGED <<query, team, searched, phase>>

SortHits ==
  /\ phase = "filter" /\ i > Len(buf)
  /\ buf' = SortStable(SubSeq(buf, 1, n), Newer)
  /\ phase' = "dedupe" /\ i' = 1 /\ n' = 0
  /\ UNCHANGED <<query, team, searched>>

\* A slip: the limit counts what was read.
FullOfRead == limit > 0 /\ i > limit

Full == limit > 0 /\ n >= limit

\* "seen" is the set of the ids kept so far.
DedupeHit ==
  /\ phase = "dedupe" /\ i <= Len(buf) /\ ~Full
  /\ i' = i + 1
  /\ IF \E k \in 1..n : buf[k] = buf[i]
     THEN UNCHANGED <<buf, n>>
     ELSE n' = n + 1 /\ buf' = [buf EXCEPT ![n + 1] = buf[i]]
  /\ UNCHANGED <<query, team, searched, phase>>

Return ==
  /\ phase = "dedupe" /\ (i > Len(buf) \/ Full)
  /\ phase' = "done" /\ buf' = SubSeq(buf, 1, n)
  /\ UNCHANGED <<query, team, searched, i, n>>

\* What the server may list: a post once, in any order.
Listings ==
  {s \in UNION {[1..len -> Ids] : len \in 0..MaxHits} :
     \A j, k \in DOMAIN s : s[j] = s[k] => j = k}

Init ==
  /\ matches \in [1..NTeams -> Listings]
  /\ since \in Moments /\ limit \in 0..MaxLimit /\ in \in BOOLEAN
  /\ team = 1 /\ searched = {} /\ buf = <<>> /\ phase = "search" /\ i = 1 /\ n = 0

Next ==
  \/ SkipTeam \/ SearchTeam \/ SearchFails \/ AllSearched
  \/ FilterHit \/ SortHits \/ DedupeHit \/ Return

Spec == Init /\ [][Next]_vars

--------------------------------------------------------------------------
(* mm messages and mm thread, from the list to the answer.                  *)

SelectSince(s, t) == Filter(s, {p \in Ids : t = 0 \/ CreateAt[p] >= t})

\* A slip: the list is cut before it is sorted.
selectFirstMessages(s, t, l) ==
  LET recent == SelectSince(s, t)
      kept == IF l > 0 /\ Len(recent) > l THEN SubSeq(recent, 1, l) ELSE recent
  IN  SortStable(kept, Older)

selectRecentMessages(s, t, l) ==
  LET recent == SortStable(SelectSince(s, t), Newer)
      kept == IF l > 0 /\ Len(recent) > l THEN SubSeq(recent, 1, l) ELSE recent
  IN  SortStable(kept, Older)

\* GetPost and GetPostThread are two calls: the post asked for is added if
\* the thread came without it.
ensurePostPresent(s, asked) == IF asked \in Range(s) THEN s ELSE Append(s, asked)

splitThreadPosts(s) == Filter(s, Ids \ {Root})

\* A slip: the limit does not count the root.
selectThreadReplies(s, t, l) ==
  LET replies == SortStable(SelectSince(splitThreadPosts(s), t), Older)
      first == IF l > 0 /\ Len(replies) > l THEN Len(replies) - l + 1 ELSE 1
  IN  IF Root \in Range(s)
      THEN SortStable(<<Root>> \o SubSeq(replies, first, Len(replies)), Older) ELSE <<>>

\* limit counts the root, and the root is kept whatever since says.
selectThreadPosts(s, t, l) ==
  LET replies == SortStable(SelectSince(splitThreadPosts(s), t), Older)
      first == IF l > 0 /\ Len(replies) > l - 1 THEN Len(replies) - l + 2 ELSE 1
  IN  IF Root \in Range(s)
      THEN SortStable(<<Root>> \o SubSeq(replies, first, Len(replies)), Older) ELSE <<>>

runThread(s, asked, t, l) == selectThreadPosts(ensurePostPresent(s, asked), t, l)

--------------------------------------------------------------------------
(* What an answer should be: the newest "size" of S, each once, in order.   *)

Since(S, t) == {p \in S : CreateAt[p] >= t}

NewestOf(out, S, size, less) ==
  /\ Range(out) \subseteq S
  /\ Len(out) = IF size = 0 \/ Cardinality(S) < size THEN Cardinality(S) ELSE size
  /\ \A j, k \in 1..Len(out) : j < k => out[j] # out[k] /\ <<out[k], out[j]>> \notin less
  /\ \A p \in Range(out), q \in S \ Range(out) : CreateAt[q] <= CreateAt[p]

\* The hits of mm mentions and mm search are the newest that match, newest
\* first, every post once although each team may list it, over every team that was
\* asked.  A team that lacks the channel of --in, or whose lookup of it failed, is
\* not asked, and its hits may be missing; without --in all teams are.  "after:",
\* which knows only days, costs no post, no duplicate uses up the limit, and
\* writing into the array one reads from loses nothing.
HitsRight ==
  phase = "done" =>
    LET asked == IF in THEN searched ELSE 1..NTeams
        S == Since(UNION {Range(matches[t]) : t \in asked}, since)
    IN  (in => asked # {}) /\ NewestOf(buf, S, limit, Newer)

--------------------------------------------------------------------------
(* Why HitsRight holds.                                                     *)

TypeOK ==
  /\ matches \in [1..NTeams -> Listings]
  /\ since \in Moments /\ limit \in 0..MaxLimit /\ in \in BOOLEAN
  /\ team \in 1..NTeams + 1 /\ searched \subseteq 1..team - 1 /\ buf \in Seq(Ids)
  /\ phase \in {"search", "filter", "dedupe", "done", "failed"}
  /\ i \in Nat \ {0} /\ n \in Nat

\* Only --in leaves teams out, by a channel not found or a lookup failed, and
\* never every team.
TeamsAsked ==
  /\ ~in => searched = 1..team - 1
  /\ phase \in {"filter", "dedupe", "done"} => team = NTeams + 1 /\ (in => searched # {})

\* A pass does not write where it has still to read.
Cursor ==
  /\ phase = "search" => i = 1 /\ n = 0
  /\ phase \in {"filter", "dedupe"} => n < i /\ i <= Len(buf) + 1

\* What was written and what is still to be read.
Live == {buf[k] : k \in 1..n \cup i..Len(buf)}

\* The hits wanted of the teams searched so far are all there.
NothingLost ==
  LET Wanted == Since(UNION {Range(matches[t]) : t \in searched}, since)
  IN  /\ phase \in {"search", "filter"} => Since(Live, since) = Wanted
      /\ phase = "filter" => \A k \in 1..n : CreateAt[buf[k]] >= since
      /\ phase = "dedupe" => Live = Wanted

\* The hits kept come first, each once; what is still to be read is not newer.
NewestKept ==
  phase = "dedupe" =>
    /\ limit > 0 => n <= limit
    /\ \A j, k \in 1..n : j < k => buf[j] # buf[k]
    /\ \A j, k \in 1..n \cup i..Len(buf) : j < k => <<buf[k], buf[j]>> \notin Newer

IndInv == TypeOK /\ TeamsAsked /\ Cursor /\ NothingLost /\ NewestKept /\ HitsRight

--------------------------------------------------------------------------
\* A list of posts as GetPostsForChannel or GetPostThread may return it.
list == matches[1] \o matches[2]
Fresh ==
  phase = "search" /\ team = 1 /\ NTeams >= 2 /\ \A j, k \in DOMAIN list : list[j] = list[k] => j = k

\* mm messages: the newest limit posts at or after since, oldest first.
MessagesRight ==
  Fresh => NewestOf(selectRecentMessages(list, since, limit),
                    Since(Range(list), since), limit, Older)

\* mm thread: the root, whatever since and limit say, and the newest replies
\* that fit beside it, the post asked for among them even when the thread was
\* read before it was there; nothing if the root is nowhere to be seen.
ThreadRight ==
  Fresh => \A asked \in Ids :
    LET out == runThread(list, asked, since, limit)
        replies == splitThreadPosts(out)
        all == Range(list) \cup {asked}
    IN  IF Root \notin all THEN out = <<>>
        ELSE /\ Root \in Range(out) /\ Len(out) = Len(replies) + 1
             /\ IF limit = 1 THEN replies = <<>>
                ELSE NewestOf(replies, Since(all \ {Root}, since),
                              IF limit = 0 THEN 0 ELSE limit - 1, Older)
=============================================================================
