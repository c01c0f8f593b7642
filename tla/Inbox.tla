-------------------------------- MODULE Inbox --------------------------------
(***************************************************************************)
(* mm new and mm seen: the agent's own "seen through" watermark, kept in   *)
(* agent_cursor by the daemon and read by every mm new.                    *)
(*                                                                         *)
(* An agent lists what is newer than the watermark, works on it, and       *)
(* moves the watermark with mm seen, which takes the time from the clock   *)
(* or from --at.  Meanwhile posts reach the cache: late if the daemon was  *)
(* down, with equal create_at if made in the same millisecond.  A moment   *)
(* of the model's clock is such a millisecond.                             *)
(***************************************************************************)
EXTENDS Integers, FiniteSets

CONSTANTS
  Others,      \* posts by other people
  Mine,        \* posts by the agent itself
  Agents,      \* agents (or sub-agents) that share the watermark
  Horizon,     \* bound: the last moment of the clock
  Limits,      \* --limit, with queryRowCap for 0
  Sinces       \* --since, 0 for not given

Posts == Others \cup Mine
NotListing == -1

ASSUME InboxAssumption ==
  /\ Others \cap Mine = {} /\ Horizon \in Nat \ {0}
  /\ Limits \subseteq Nat \ {0} /\ Sinces \subseteq Nat

VARIABLES
  now,         \* the clock
  createAt,    \* create_at of each post, 0 before it is made
  cached,      \* posts in the table
  cursor,      \* agent_cursor.seen_through_at of the scope "global"
  floor,       \* per agent: the floor its mm new has read, or NotListing
  last,        \* per agent: create_at of the last post it was shown
  sending,     \* per agent: the watermark of an mm seen on its way, or 0
  \* history
  listed,      \* posts that some mm new has printed
  late,        \* posts cached when one at least as new had been printed
  waived       \* the newest moment an agent has chosen not to look behind

agents == <<floor, last, sending>>
history == <<listed, late, waived>>
vars == <<now, createAt, cached, cursor, agents, history>>

AtLeast(a, b) == IF a < b THEN b ELSE a

--------------------------------------------------------------------------
Tick ==
  /\ now < Horizon /\ now' = now + 1
  /\ UNCHANGED <<createAt, cached, cursor, agents, history>>

MakePost(p) ==
  /\ createAt[p] = 0
  /\ createAt' = [createAt EXCEPT ![p] = now]
  /\ UNCHANGED <<now, cached, cursor, agents, history>>

\* The daemon's part: see CacheSync.
Cache(p) ==
  /\ createAt[p] > 0 /\ p \notin cached
  /\ cached' = cached \cup {p}
  /\ late' = IF \E q \in listed : createAt[p] <= createAt[q] THEN late \cup {p} ELSE late
  /\ UNCHANGED <<now, createAt, cursor, agents, listed, waived>>

\* mm new reads the watermark; --since narrows the listing.
ReadFloor(a) ==
  /\ floor[a] = NotListing /\ sending[a] = 0
  /\ \E since \in Sinces :
       /\ since <= now
       /\ floor' = [floor EXCEPT ![a] = AtLeast(cursor, since)]
       /\ waived' = AtLeast(waived, since)
  /\ UNCHANGED <<now, createAt, cached, cursor, last, sending, listed, late>>

\* What the agent is shown last is the newest of the page.
Show(a, page) ==
  /\ listed' = listed \cup page
  /\ \/ page = {} /\ UNCHANGED last
     \/ \E q \in page : /\ \A r \in page : createAt[r] <= createAt[q]
                        /\ last' = [last EXCEPT ![a] = createAt[q]]
  /\ floor' = [floor EXCEPT ![a] = NotListing]
  /\ UNCHANGED <<now, createAt, cached, cursor, sending, late, waived>>

\* Under a LIMIT: all the rows, or as many as it allows.
Fits(page, rows) ==
  \E limit \in Limits :
    \/ page = rows /\ Cardinality(rows) <= limit
    \/ Cardinality(page) = limit

\* Cached posts after the floor, whoever of these wrote them.
After(a, authored) == {p \in cached \cap authored : createAt[p] > floor[a]}

\* A slip: no ORDER BY under the LIMIT.
NewUnordered(a) ==
  LET rows == After(a, Others) IN
  /\ floor[a] # NotListing
  /\ \E page \in SUBSET rows : Fits(page, rows) /\ Show(a, page)

\* A slip: the newest first, as other listings have it.
NewestFirst(a) ==
  LET rows == After(a, Others) IN
  /\ floor[a] # NotListing
  /\ \E page \in SUBSET rows :
       /\ Fits(page, rows)
       /\ \A p \in page, q \in rows \ page : createAt[q] <= createAt[p]
       /\ Show(a, page)

\* WHERE create_at > ? AND user_id != ? ORDER BY create_at LIMIT ?: the rows
\* of equal create_at come in any order.  If sync_state cannot be read, which
\* nobody is told, there is no user to leave out: the agent's own posts come too,
\* and take up room.
New(a) ==
  /\ floor[a] # NotListing
  /\ \E authored \in {Others, Posts} :
       LET rows == After(a, authored) IN
       \E page \in SUBSET rows :
         /\ Fits(page, rows)
         /\ \A p \in page, q \in rows \ page : createAt[p] <= createAt[q]
         /\ Show(a, page)

\* An error of the database, or a query over its time: the rows read so far
\* are not printed.
NewFails(a) ==
  /\ floor[a] # NotListing /\ floor' = [floor EXCEPT ![a] = NotListing]
  /\ UNCHANGED <<now, createAt, cached, cursor, last, sending, history>>

\* mm seen posts a time to the daemon: with --at one no later than what the
\* agent was shown, without it the present.
Seen(a) ==
  /\ floor[a] = NotListing /\ sending[a] = 0
  /\ \/ \E at \in 1..last[a] : sending' = [sending EXCEPT ![a] = at] /\ UNCHANGED waived
     \/ sending' = [sending EXCEPT ![a] = now] /\ waived' = now
  /\ UNCHANGED <<now, createAt, cached, cursor, floor, last, listed, late>>

\* No daemon, no answer in time, or an error from its database.
SeenFails(a) ==
  /\ sending[a] > 0 /\ sending' = [sending EXCEPT ![a] = 0]
  /\ UNCHANGED <<now, createAt, cached, cursor, floor, last, history>>

\* SetSeenCursor overwrites what is there; an agent whose answer is lost may
\* well send the same again.
handleSeen(a) ==
  /\ sending[a] > 0
  /\ cursor' = sending[a]
  /\ sending' = [sending EXCEPT ![a] = 0]
  /\ UNCHANGED <<now, createAt, cached, floor, last, history>>

Init ==
  /\ now = 1 /\ createAt = [p \in Posts |-> 0] /\ cached = {}
  /\ cursor = 0
  /\ floor = [a \in Agents |-> NotListing]
  /\ last = [a \in Agents |-> 0] /\ sending = [a \in Agents |-> 0]
  /\ listed = {} /\ late = {} /\ waived = 0

Next ==
  \/ Tick
  \/ \E p \in Posts : MakePost(p) \/ Cache(p)
  \/ \E a \in Agents :
       \/ ReadFloor(a) \/ New(a) \/ NewFails(a)
       \/ Seen(a) \/ SeenFails(a) \/ handleSeen(a)

Spec == Init /\ [][Next]_vars

--------------------------------------------------------------------------
\* The type invariant.
TypeOK ==
  /\ now \in Nat /\ createAt \in [Posts -> Nat]
  /\ cached \subseteq Posts /\ cursor \in Nat
  /\ floor \in [Agents -> Nat \cup {NotListing}]
  /\ last \in [Agents -> Nat] /\ sending \in [Agents -> Nat]
  /\ listed \subseteq Posts /\ late \subseteq Posts /\ waived \in Nat

\* The ways for a post never to be listed: it came late, it was waived by a
\* --since or an mm seen without --at, or a post of its very millisecond was the
\* last that a page had room for.
Excused(p) ==
  \/ p \in listed \cup late \/ createAt[p] <= waived
  \/ \E q \in listed : createAt[q] = createAt[p]

Behind(t) == \A p \in cached \cap Others : createAt[p] <= t => Excused(p)

\* Nothing else of somebody else's ever falls behind the watermark without
\* having been listed: however the mm new and mm seen --at of several agents
\* overtake and fail one another, and with whatever limits, the watermark passes
\* over no post that no mm new has printed.
NothingPassedOver == Behind(cursor)

--------------------------------------------------------------------------
(* What is needed beside it for an induction.                               *)

\* Nothing behind t is unaccounted for, and what comes behind it is late.
Settled(t) ==
  /\ Behind(t)
  /\ t <= waived \/ \E q \in listed : t <= createAt[q]

\* The inductive invariant of Inbox_proofs: every time read, shown or sent by an
\* agent is settled, so that the daemon may take it (SetAgentCursor).
IndInv ==
  /\ TypeOK
  /\ \A p \in cached : createAt[p] > 0
  /\ listed \subseteq cached /\ waived <= now
  /\ Settled(cursor)
  /\ \A a \in Agents : Settled(floor[a]) /\ Settled(last[a]) /\ Settled(sending[a])
=============================================================================
