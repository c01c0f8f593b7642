----------------------------- MODULE WatchStream -----------------------------
(***************************************************************************)
(* mm watch: one goroutine that dials, consumes and dials again, and the   *)
(* idle timer of --timeout that runs beside it and cancels the stream.     *)
(*                                                                         *)
(* The server's events are numbered as it sends them.  "left" is what      *)
(* remains of the idle timer, in ticks.                                    *)
(***************************************************************************)
EXTENDS Integers, Sequences

CONSTANTS
  MaxEvents,   \* bound: events the server sends
  Event,       \* each of them: who caused it, whom it is about and where, and
               \* its message
  Types,       \* --types, {} for all
  Watched,     \* --channel, {} for all
  IncludeSelf, \* --include-self
  Me,          \* the user
  Limit,       \* --limit, 0 for none
  Timeout,     \* --timeout in ticks, 0 for none
  MaxDrops     \* bound: connections lost (a dial may fail for ever)

ASSUME WatchAssumption ==
  /\ MaxEvents \in Nat /\ IncludeSelf \in BOOLEAN
  /\ DOMAIN Event = 1..MaxEvents
  /\ Limit \in Nat /\ Timeout \in Nat /\ MaxDrops \in Nat

VARIABLES
  sent,        \* events the server has sent
  drops,
  at,          \* where runWatch is
  queue,       \* client.EventChannel: events of the present connection
  lost,        \* the present connection is broken
  hand,        \* the event consume has taken, 0 for none
  left,        \* ticks until the idle timer fires
  cancelled,   \* streamCtx is done
  printed,     \* the output
  exit         \* the exit code, or -1

vars == <<sent, drops, at, queue, lost, hand, left, cancelled, printed, exit>>
stream == <<queue, lost, hand>>
clock == <<left, cancelled>>

--------------------------------------------------------------------------
(* The filters.  A message carries a broadcast scope and data, and for some  *)
(* types the post or the reaction; what it does not carry is "".             *)

FirstNonEmpty(a, b) == IF a # "" THEN a ELSE b

eventTypeIncluded(e) == Types = {} \/ e.type \in Types

ChannelID(e) == FirstNonEmpty(e.scope.channel, e.data.channel)
eventChannelIncluded(e) == Watched = {} \/ ChannelID(e) \in Watched

UserID(e) == FirstNonEmpty(e.scope.user, e.data.user)

\* A slip: the scope's user is taken for who did it.
eventScopeID(e) == UserID(e)

\* The scope of a post or a reaction names no user: its payload does, or the data
\* where the payload does not decode.
Authored == {"posted", "post_edited", "post_deleted", "reaction_added", "reaction_removed"}
eventActorID(e) ==
  IF e.type \in Authored THEN FirstNonEmpty(e.payload, e.data.user) ELSE UserID(e)

Wanted(k) ==
  /\ eventTypeIncluded(Event[k]) /\ eventChannelIncluded(Event[k])
  /\ IncludeSelf \/ eventActorID(Event[k]) # Me

\* What one user may do to the post, the reaction or the membership of another:
\* pin or delete a post, take back a reaction, add or remove a member.
OnAnother == {"post_edited", "post_deleted", "reaction_removed", "user_added", "user_removed"}

\* A message says so in either of two places, and nothing else in either.
Says(a, b, what) == what \in {a, b} /\ {a, b} \subseteq {what, ""}

\* What the server's messages say: not who caused the event, but whom it is about,
\* the author of a post or a reaction and the member of a membership.  The two
\* are the same but for what is done to another's.
ASSUME MessageAssumption ==
  \A k \in 1..MaxEvents :
    /\ Event[k].of = Event[k].by \/ Event[k].type \in OnAnother
    /\ IF Event[k].type \in Authored
       THEN Says(Event[k].payload, Event[k].data.user, Event[k].of)
       ELSE Says(Event[k].scope.user, Event[k].data.user, Event[k].of)
    /\ Says(Event[k].scope.channel, Event[k].data.channel, Event[k].in)

--------------------------------------------------------------------------
(* The world: the server, the network and time.                             *)

\* What is sent while nobody is connected is never seen.
ServerSends ==
  /\ sent < MaxEvents /\ sent' = sent + 1
  /\ queue' = IF at \in {"select", "emit"} /\ ~lost THEN Append(queue, sent') ELSE queue
  /\ UNCHANGED <<drops, at, lost, hand, clock, printed, exit>>

\* The connection breaks, or its ping times out.
Drop ==
  /\ at \in {"select", "emit"} /\ ~lost /\ drops < MaxDrops
  /\ drops' = drops + 1 /\ lost' = TRUE
  /\ UNCHANGED <<sent, at, queue, hand, clock, printed, exit>>

\* time.AfterFunc calls stopStream on a goroutine of its own.
Tick ==
  /\ exit = -1 /\ Timeout > 0 /\ left > 0
  /\ left' = left - 1
  /\ UNCHANGED <<sent, drops, at, stream, cancelled, printed, exit>>

Fire ==
  /\ exit = -1 /\ Timeout > 0 /\ left = 0 /\ ~cancelled
  /\ cancelled' = TRUE
  /\ UNCHANGED <<sent, drops, at, stream, left, printed, exit>>

--------------------------------------------------------------------------
(* wsutil.Connections.                                                      *)

Exit(code) == exit' = code /\ at' = "over"

\* The context is looked at before a dial, never during one.
Dial ==
  /\ at = "top"
  /\ IF cancelled THEN Exit(4) ELSE at' = "dialling" /\ UNCHANGED exit
  /\ UNCHANGED <<sent, drops, stream, clock, printed>>

\* A slip: a new connection brings everything from the start.
ConnectReplays ==
  /\ at = "dialling" /\ at' = "select"
  /\ queue' = [k \in 1..sent |-> k] /\ lost' = FALSE
  /\ UNCHANGED <<sent, drops, hand, clock, printed, exit>>

Connect ==
  /\ at = "dialling" /\ at' = "select"
  /\ queue' = <<>> /\ lost' = FALSE
  /\ UNCHANGED <<sent, drops, hand, clock, printed, exit>>

\* A slip: an attempt to reconnect counts as a sign of life.
ConnectFailsResets ==
  /\ at = "dialling" /\ at' = "delay" /\ left' = Timeout
  /\ UNCHANGED <<sent, drops, stream, cancelled, printed, exit>>

ConnectFails ==
  /\ at = "dialling" /\ at' = "delay"
  /\ UNCHANGED <<sent, drops, stream, clock, printed, exit>>

\* The wait between two attempts ends early when the context does.
Redial ==
  /\ at = "delay"
  /\ IF cancelled THEN Exit(4) ELSE at' = "top" /\ UNCHANGED exit
  /\ UNCHANGED <<sent, drops, stream, clock, printed>>

--------------------------------------------------------------------------
(* consume: a select over three channels, any that is ready.                *)

Done ==
  /\ at = "select" /\ cancelled /\ Exit(4)
  /\ UNCHANGED <<sent, drops, stream, clock, printed>>

\* PingTimeoutChannel and EventChannel are two channels: a lost connection
\* may leave events unread behind.
Disconnected ==
  /\ at = "select" /\ lost /\ at' = "delay"
  /\ UNCHANGED <<sent, drops, stream, clock, printed, exit>>

\* A slip: a closed channel is read like an open one.
TakeClosed ==
  /\ at = "select" /\ (queue # <<>> \/ lost) /\ at' = "emit"
  /\ IF queue = <<>> THEN hand' = 0 /\ UNCHANGED queue
                     ELSE hand' = Head(queue) /\ queue' = Tail(queue)
  /\ UNCHANGED <<sent, drops, lost, clock, printed, exit>>

Take ==
  /\ at = "select" /\ queue # <<>>
  /\ queue' = Tail(queue)
  /\ IF Wanted(Head(queue)) THEN hand' = Head(queue) /\ at' = "emit"
                               ELSE UNCHANGED <<hand, at>>
  /\ UNCHANGED <<sent, drops, lost, clock, printed, exit>>

\* A slip: the limit is one too far.
EmitOneMore ==
  /\ at = "emit" /\ hand' = 0
  /\ printed' = Append(printed, hand)
  /\ left' = Timeout
  /\ IF Limit > 0 /\ Len(printed') > Limit THEN Exit(0)
                                           ELSE at' = "select" /\ UNCHANGED exit
  /\ UNCHANGED <<sent, drops, queue, lost, cancelled>>

\* Encode, flush, resetIdle, and the count.
Emit ==
  /\ at = "emit" /\ hand' = 0
  /\ printed' = Append(printed, hand)
  /\ left' = Timeout
  /\ IF Limit > 0 /\ Len(printed') >= Limit THEN Exit(0)
                                            ELSE at' = "select" /\ UNCHANGED exit
  /\ UNCHANGED <<sent, drops, queue, lost, cancelled>>

\* A slip: a broken pipe ends the stream as if it had been enough.
EmitFailsQuietly ==
  /\ at = "emit" /\ hand' = 0 /\ Exit(0)
  /\ UNCHANGED <<sent, drops, queue, lost, clock, printed>>

\* The line cannot be written, or not be flushed.
EmitFails ==
  /\ at = "emit" /\ hand' = 0 /\ Exit(1)
  /\ UNCHANGED <<sent, drops, queue, lost, clock, printed>>

--------------------------------------------------------------------------
Init ==
  /\ sent = 0 /\ drops = 0 /\ at = "top" /\ queue = <<>> /\ lost = FALSE /\ hand = 0
  /\ left = Timeout /\ cancelled = FALSE /\ printed = <<>> /\ exit = -1

Watch ==
  \/ Dial \/ Connect \/ ConnectFails \/ Redial
  \/ Done \/ Disconnected \/ Take \/ Emit \/ EmitFails

Next == ServerSends \/ Drop \/ Tick \/ Fire \/ Watch

Spec == Init /\ [][Next]_vars

\* Time passes, and a goroutine that can go on does; whether a dial succeeds
\* is nobody's promise.
FairSpec == Spec /\ WF_vars(Tick) /\ WF_vars(Fire) /\ WF_vars(Watch)

--------------------------------------------------------------------------
\* The type invariant.
TypeOK ==
  /\ sent \in 0..MaxEvents /\ drops \in 0..MaxDrops
  /\ at \in {"top", "dialling", "select", "emit", "delay", "over"}
  /\ queue \in Seq(1..MaxEvents) /\ lost \in BOOLEAN /\ hand \in 0..MaxEvents
  /\ left \in 0..Timeout /\ cancelled \in BOOLEAN
  /\ printed \in Seq(1..MaxEvents) /\ exit \in {-1, 0, 1, 4}

\* Nothing is printed of what the user wrote or did on his own, in whichever
\* place a message says so, and nothing that happened elsewhere than asked: a
\* program that answers what it reads does not answer itself (commands.md).  Of
\* what the user caused one kind does get out: what he did to another's post,
\* reaction or membership, a pin or a deletion, for its message names the other.
OnlyOthers ==
  \A k \in 1..Len(printed) : LET e == Event[printed[k]] IN
    /\ IncludeSelf \/ (e.of # Me /\ (e.by = Me => e.type \in OnAnother))
    /\ Watched = {} \/ e.in \in Watched

\* Over any number of connections an event is printed once at most, and in the
\* server's order.
OnceInOrder ==
  \A i, j \in 1..Len(printed) : i < j => printed[i] < printed[j]

\* Exit 0 is for the limit and for nothing else, and the limit is exact: not for a
\* stream that timed out, nor for one whose output broke.
ZeroMeansLimit ==
  /\ Limit > 0 => Len(printed) <= Limit
  /\ exit = 0 <=> Limit > 0 /\ Len(printed) = Limit

\* A --timeout ends the stream in the end, connected or not: dropped
\* connections and failed dials do not put it off.
TimeoutEnds == <>(exit # -1)

--------------------------------------------------------------------------
(* What is needed beside them for an induction.                             *)

Increasing(s) == \A i, j \in 1..Len(s) : i < j => s[i] < s[j]
Below(s, k) == \A i \in 1..Len(s) : s[i] < k

\* What was printed came before what is in hand, that before what waits, and all
\* of it has been sent.
Ordered ==
  /\ Increasing(printed) /\ Increasing(queue)
  /\ hand > 0 => Below(printed, hand) /\ hand <= sent
  /\ \A i \in 1..Len(queue) : Below(printed, queue[i]) /\ hand < queue[i]
  /\ Below(printed, sent + 1) /\ Below(queue, sent + 1)

\* The stream goes on below its limit, and ends at it.
Counted ==
  /\ at = "over" <=> exit # -1
  /\ at = "emit" <=> hand > 0
  /\ exit # 0 /\ Limit > 0 => Len(printed) < Limit
  /\ exit = 0 => Limit > 0 /\ Len(printed) = Limit

\* Nothing gets past the filters, and nothing else into the output.
Filtered == (hand > 0 => Wanted(hand)) /\ \A k \in 1..Len(printed) : Wanted(printed[k])

\* The inductive invariant of WatchStream_proofs: printed, in hand and queued
\* are one increasing sequence, the count is that of the lines (consume), and
\* each line has passed the filters.
IndInv == TypeOK /\ Ordered /\ Counted /\ Filtered
=============================================================================
