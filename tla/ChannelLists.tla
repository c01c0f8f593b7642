---------------------------- MODULE ChannelLists ----------------------------
(***************************************************************************)
(* Lists of channels.  mm channels and mm unread list those of the user's  *)
(* teams, or of one, from the server or from the rows the daemon has       *)
(* tagged with a team; mm find-channel searches them.  The lists of posts  *)
(* of Selection serve as the teams' lists of channels.                     *)
(***************************************************************************)
EXTENDS Selection, FiniteSetsExt

CONSTANTS
  Name,       \* the name of each channel: two teams may have one of a name
  Teamless    \* direct and group channels, listed by every team

ASSUME ListsAssumption == Name \in [Ids -> Nat] /\ Teamless \subseteq Ids

Lists(t, c) == c \in Range(matches[t])
Channels == {c \in Ids : \E t \in 1..NTeams : Lists(t, c)}

\* GetChannelsForTeamForUser: a channel is of one team, or of none and in all lists.
Listed ==
  /\ phase = "search" /\ team = 1
  /\ \A c \in Channels, t, u \in 1..NTeams :
       IF c \in Teamless THEN Lists(t, c) ELSE Lists(t, c) /\ Lists(u, c) => t = u

--------------------------------------------------------------------------
(* mm channels and mm unread: rows of a channel and the team shown with it. *)

selectedTeams(asked) == IF asked = 0 THEN 1..NTeams ELSE {asked}

\* A channel that several teams list is shown with the first.
teamByChannelID(c, teams) == Min({t \in teams : Lists(t, c)})

computeUnreadRows(teams, shown) ==
  {<<c, teamByChannelID(c, teams)>> : c \in {d \in shown : \E t \in teams : Lists(t, d)}}

\* The daemon's passes tag a teamless channel with the team they list, one
\* after the other; the latest pass may have ended at team "cut".
upsertChannelWithName(c, cut) ==
  LET by(last) == {t \in 1..last : Lists(t, c)}
  IN  IF by(cut) # {} THEN Max(by(cut)) ELSE Max(by(NTeams))

\* A slip: the clause of the team is left out.
channelsLocalAnyTeam(asked, cut) == Channels

\* No team asked for is 0.
channelsLocal(asked, cut) ==
  {c \in Channels : asked = 0 \/ upsertChannelWithName(c, cut) = asked}

unreadRowsLocal(asked, cut, shown) ==
  {<<c, upsertChannelWithName(c, cut)>> : c \in channelsLocal(asked, cut) \cap shown}

Only(rows) == {row[1] : row \in rows}

\* From the cache mm channels and mm unread list the channels they list live,
\* whatever their types or unread posts and wherever the daemon's last pass
\* ended, each with the team it is of.  Only what has no team may differ: live
\* it is shown for every --team, from the cache for exactly one of them.
TeamAlike ==
  Listed => \A cut \in 1..NTeams, shown \in SUBSET Ids :
    LET local(t) == unreadRowsLocal(t, cut, shown)
        live(t) == computeUnreadRows(selectedTeams(t), shown)
    IN  /\ Only(local(0)) = Only(live(0))
        /\ \A t \in 0..NTeams :
             {row \in local(t) : row[1] \notin Teamless}
               = {row \in live(t) : row[1] \notin Teamless}
        /\ \A t \in 1..NTeams : local(t) \subseteq live(t)
        /\ \A c \in Channels \cap shown \cap Teamless :
             Cardinality({t \in 1..NTeams : c \in Only(local(t))}) = 1

--------------------------------------------------------------------------
(* mm find-channel.                                                         *)

ByName == {cd \in Ids \X Ids : Name[cd[1]] < Name[cd[2]]}

\* The loop looks at --limit behind each row: one is taken even of none.
UpTo(s, size) == SubSeq(s, 1, Min({Len(s), Max({size, 1})}))
NotIn(s, found) == Filter(s, Ids \ Range(found))

\* One team more: what it lists and no team before it.
WithTeam(t, found, size) == found \o UpTo(NotIn(matches[t], found), size - Len(found))

\* A slip: the limit ends the loop over a team's channels, not that over the teams.
searchEveryTeam(size) ==
  LET found[t \in 0..NTeams] ==
        IF t = 0 THEN <<>> ELSE WithTeam(t, found[t - 1], size)
  IN  found[NTeams]

searchTeams(size) ==
  LET found[t \in 0..NTeams] ==
        IF t = 0 THEN <<>>
        ELSE IF t > 1 /\ Len(found[t - 1]) >= size THEN found[t - 1]
        ELSE WithTeam(t, found[t - 1], size)
  IN  found[NTeams]

\* The joined channels, as SQLite comes upon them.
findChannelLocal(joined, size) == UpTo(SortStable(joined, ByName), size)

\* A cache that knows none of them leaves the question to the server.
runFindChannel(joined, size) ==
  IF joined = <<>> THEN SortStable(searchTeams(size), ByName)
                   ELSE findChannelLocal(joined, size)

\* mm find-channel lists each channel once, by name, as many as --limit allows
\* and no more: of the joined ones, if there are any, the first in name; live,
\* where the cut comes before the sort, those of the first teams.  Its --limit
\* 0 gives one, and none if the first team has none.
FoundRight ==
  Listed /\ Channels \cap Teamless = {} =>
    \A joined \in {s \in Listings : Range(s) \subseteq Channels} :
      LET out == runFindChannel(joined, limit)
          S == IF joined = <<>> THEN Channels ELSE Range(joined)
          rest == S \ Range(out)
      IN  /\ Range(out) \subseteq S
          /\ \A j, k \in 1..Len(out) : j < k => out[j] # out[k] /\ <<out[k], out[j]>> \notin ByName
          /\ IF limit > 0 THEN Len(out) = Min({limit, Cardinality(S)})
             ELSE Len(out) = IF joined = <<>> /\ (NTeams = 0 \/ matches[1] = <<>>) THEN 0 ELSE 1
          /\ \A c \in Range(out), d \in rest :
               IF joined = <<>> THEN \A t \in 1..NTeams : Lists(t, d) => \E u \in 1..t : Lists(u, c)
                                ELSE <<d, c>> \notin ByName
=============================================================================
