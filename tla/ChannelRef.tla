----------------------------- MODULE ChannelRef -----------------------------
(***************************************************************************)
(* From a channel's name to a channel: the user's teams, or those that     *)
(* --team leaves of them, are asked one after the other, and a call that   *)
(* fails is taken like "no such channel".  Most commands take the first    *)
(* team that has the name; mm join wants it to be the only one.            *)
(* mm create-channel picks a team.                                         *)
(***************************************************************************)
EXTENDS Integers, FiniteSets

CONSTANT NTeams      \* bound: the user's teams

Teams == 1..NTeams
None == 0

ASSUME TeamsAssumption == NTeams \in Nat

VARIABLES
  command,   \* which mm command
  known,     \* how many teams are asked, in the order of GetTeamsForUser
  having,    \* teams with a channel of the name, as GetChannelByName would say;
             \* for mm create-channel those that fit its --team
  team,      \* the team to ask next
  hits,      \* teams that answered mm join with a channel
  missed,    \* teams whose call failed
  target     \* the team whose channel is used, or None

names == <<command, known, having, team, hits, missed, target>>

Asking == team <= known /\ target = None

\* The loop stops at the first channel found, except in mm join.
Found ==
  /\ Asking /\ team \in having
  /\ IF command = "join" THEN hits' = hits \cup {team} /\ team' = team + 1 /\ UNCHANGED target
                         ELSE target' = team /\ UNCHANGED <<hits, team>>
  /\ UNCHANGED <<command, known, having, missed>>

\* GetChannelByName answers 404.
NotThere ==
  /\ Asking /\ team \notin having
  /\ team' = team + 1
  /\ UNCHANGED <<command, known, having, hits, missed, target>>

\* It fails: a timeout, a 5xx, a rate limit.
LookupFails ==
  /\ Asking
  /\ missed' = missed \cup {team} /\ team' = team + 1
  /\ UNCHANGED <<command, known, having, hits, target>>

\* A slip: several hits are not told apart from one.
ChooseAny ==
  /\ ~Asking /\ target = None /\ hits # {}
  /\ target' \in hits
  /\ UNCHANGED <<command, known, having, team, hits, missed>>

\* mm join, at the end of the list: one hit, not more.
Choose ==
  /\ ~Asking /\ target = None /\ Cardinality(hits) = 1
  /\ target' \in hits
  /\ UNCHANGED <<command, known, having, team, hits, missed>>

NoChannel == ~Asking /\ target = None /\ Cardinality(hits) # 1

\* The team of a new channel: the first that fits --team; without it the user
\* may have no other.
resolveTeamRef(named) ==
  /\ target = None /\ target' \in 1..known
  /\ IF named THEN target' \in having /\ \A t \in having : target' <= t ELSE known = 1
  /\ UNCHANGED <<command, known, having, team, hits, missed>>

InitNames(commands) ==
  /\ command \in commands /\ known \in 0..NTeams /\ having \in SUBSET (1..known)
  /\ team = 1 /\ hits = {} /\ missed = {} /\ target = None

\* A name stands for the channel of the first team that has it, and for mm
\* join of the only one: nothing but a failed lookup hides a team.
NameRight ==
  target # None =>
    LET shown == having \ missed
    IN  /\ target \in shown
        /\ IF command = "join" THEN shown = {target} ELSE \A t \in shown : target <= t
=============================================================================
