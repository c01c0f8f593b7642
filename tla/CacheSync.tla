------------------------------ MODULE CacheSync ------------------------------
(***************************************************************************)
(* How the daemon of internal/syncd keeps the SQLite cache of              *)
(* internal/store in step with the Mattermost server.                      *)
(*                                                                         *)
(* Four threads of the daemon write the cache and interleave between any   *)
(* two SQL statements or API calls:                                        *)
(*   "main"  Backfill, then (connect; Reconcile; consume) for ever         *)
(*   "tick"  reconcileLoop, a Reconcile every minute                       *)
(*   "hist"  LoadHistory, asked for over the control socket                *)
(*   "ipc"   handleIngestPost of the control socket, a goroutine a request *)
(* A Backfill, a Reconcile and a LoadHistory are the same pipeline: ask    *)
(* the server, then write what it answered one row at a time.  pass[w] is  *)
(* where thread w is in its pipeline and which answers it still holds.     *)
(*                                                                         *)
(* Time: posts are numbered in the order the server created them, and a    *)
(* post's number is also its CreateAt.  A post's version counts its        *)
(* writes (1 when created, +1 per edit); version 0 is "no such row".       *)
(* The reactions of a post are a set beside it, as in their own table.     *)
(***************************************************************************)
EXTENDS Integers, Sequences, FiniteSets

CONSTANTS
  Channels,       \* the channels of the user's team
  Leavable,       \* bound: channels the user may leave or join again
  MaxPost,        \* bound: posts the server ever creates
  MaxVer,         \* bound: versions a post ever has
  ChannelOf,      \* the channel each of the posts is made in
  RootOf,         \* the post it answers, 0 for one that answers none
  Mine,           \* posts written through mm post / reply / dm / edit
  Deletable,      \* bound: posts somebody may delete
  Reactions,      \* the reactions a post can get
  MaxChanges,     \* bound: reactions put or taken back, channels left or joined
  Viewed,         \* bound: totals at which the user may read a channel elsewhere
  Ticking,        \* BOOLEAN: is the periodic reconcile modelled?
  HistoryLimit,   \* the limit of a LoadHistory request; 0: nobody asks
  PageSize,       \* backfillPageSize  (200 in the code)
  MinBackfill,    \* minBackfillPosts  (60)
  WindowFloor,    \* windowFloorPosts  (100)
  WindowCap,      \* windowCapPosts    (500)
  MaxFaults       \* bound: dropped connections, failed calls and crashes

Posts == 1..MaxPost
Threads == {"main", "tick", "hist"}
Writers == Threads \cup {"ipc"}
NoRow == -1       \* a counter of a row the cache does not have

\* The sizes keep the order they have in the code; a page holds a post.
ASSUME SizesAssumption ==
  /\ MinBackfill \in Nat \ {0} /\ PageSize \in Nat
  /\ WindowFloor \in Nat \ {0} /\ WindowCap \in Nat
  /\ MinBackfill <= PageSize /\ WindowFloor <= WindowCap
  /\ HistoryLimit \in Nat

ASSUME ServerAssumption ==
  /\ Channels # {}
  /\ MaxPost \in Nat /\ MaxVer \in Nat \ {0} /\ MaxFaults \in Nat
  /\ ChannelOf \in [Posts -> Channels] /\ RootOf \in [Posts -> 0..MaxPost]
  /\ \A p \in Posts : RootOf[p] < p
  /\ Mine \subseteq Posts /\ Deletable \subseteq Posts /\ Viewed \subseteq Nat
  /\ Leavable \subseteq Channels /\ MaxChanges \in Nat /\ Ticking \in BOOLEAN

VARIABLES
  \* the server
  srvVer,         \* the current version of every post
  srvDel,         \* is the post deleted?
  srvReact,       \* its reactions
  hadReact,       \* every reaction it ever had (a history variable)
  srvRead,        \* msg_count of the user's membership, per channel
  joined,         \* the channels the user is a member of
  \* the wires
  conn,           \* is a WebSocket connection up?
  events,         \* events sent on it and not yet handled, oldest first
  notes,          \* <<post, version, reactions>> that mm commands have yet to
                  \* NotifyPost
  \* the daemon
  main,           \* what the main thread is doing
  pass,           \* each thread's progress through its pipeline
  upserts,        \* the UpsertPost calls that still have reactions to write
  \* the cache
  rowVer,         \* posts: the version held, 0 for no row
  rowDel,         \* posts: delete_at # 0
  rowReact,       \* reactions: the reactions of each post
  rowTotal,       \* channels.total_msg_count, or NoRow
  rowRead,        \* channel_members.msg_count, or NoRow
  oldest, newest, \* channel_cursors, 0 for no row
  \* bookkeeping of the model
  leapt,          \* channels whose newest_synced_at was ever moved by a page of
                  \* older posts (a history variable)
  caughtUp,       \* a Reconcile has ended that began on the present connection,
                  \* after the last event lost and the last channel joined
  faults, changes \* how many there were so far

server == <<srvVer, srvDel, srvReact, hadReact, srvRead, joined, changes>>
wires == <<conn, events, notes>>
rows == <<rowVer, rowDel, rowReact>>
posts == <<rows, upserts>>
counts == <<rowTotal, rowRead>>
cursors == <<oldest, newest, leapt>>
cache == <<posts, counts, cursors>>
vars == <<server, wires, main, pass, cache, caughtUp, faults>>

--------------------------------------------------------------------------
(* What the server answers.                                                *)

Created(c) == {p \in Posts : ChannelOf[p] = c /\ srvVer[p] > 0}
Live(c) == {p \in Created(c) : ~srvDel[p]}

\* The server keeps counting a deleted post, and keeps its LastPostAt.
ServerTotal(c) == Cardinality(Created(c))
IsLeast(p, S) == p \in S /\ \A q \in S : p <= q
IsGreatest(p, S) == p \in S /\ \A q \in S : q <= p
LastPostAt(c) == IF \E p \in Posts : IsGreatest(p, Created(c))
                 THEN CHOOSE p \in Posts : IsGreatest(p, Created(c))
                 ELSE 0

NewerIn(S, p) == {q \in S : q > p}

\* Page number k (from 0) of S, newest first, size posts to a page.
PageOf(S, k, size) ==
  {p \in S : k * size <= Cardinality(NewerIn(S, p))
             /\ Cardinality(NewerIn(S, p)) < (k + 1) * size}

--------------------------------------------------------------------------
(* A pipeline at rest, and one that has just begun.                        *)

Idle ==
  [at |-> "idle", kind |-> "none", total |-> [c \in Channels |-> 0],
   last |-> [c \in Channels |-> 0], read |-> [c \in Channels |-> 0],
   todo |-> {}, ch |-> CHOOSE c \in Channels : TRUE,
   pageNo |-> 0, target |-> 0, before |-> 0,
   got |-> [p \in Posts |-> 0], re |-> [p \in Posts |-> {}], left |-> {},
   full |-> FALSE, stray |-> FALSE, fresh |-> FALSE]

Begun(kind, fresh) == [Idle EXCEPT !.at = "channels", !.kind = kind, !.fresh = fresh]

\* BackfillPosts: cover the unread, at least the floor and at most the cap.
ClampWindow(unread) ==
  IF unread < WindowFloor THEN WindowFloor
  ELSE IF unread > WindowCap THEN WindowCap ELSE unread

--------------------------------------------------------------------------
(* The server and the other clients.                                       *)

Send(c, e) == events' = IF conn /\ c \in joined THEN Append(events, e) ELSE events

\* A message about a post carries the post as it then is.
Message(type, p, v) == [type |-> type, post |-> p, ver |-> v, re |-> srvReact[p]]

\* mm tells the daemon of a post it wrote; the API's answer is what it sends.
Notify(p, v) == notes' = IF p \in Mine THEN notes \cup {<<p, v, srvReact[p]>>} ELSE notes

\* mm writes where its user is a member.
MayWrite(p) == p \in Mine => ChannelOf[p] \in joined

ServerPost(p) ==
  /\ srvVer[p] = 0 /\ \A q \in 1..(p - 1) : srvVer[q] > 0
  /\ MayWrite(p)
  /\ srvVer' = [srvVer EXCEPT ![p] = 1]
  /\ Send(ChannelOf[p], Message("posted", p, 1))
  /\ Notify(p, 1)
  /\ UNCHANGED <<srvDel, srvReact, hadReact, srvRead, joined, changes, conn, main,
                 pass, cache, caughtUp, faults>>

ServerEdit(p) ==
  /\ srvVer[p] \in 1..(MaxVer - 1) /\ ~srvDel[p]
  /\ MayWrite(p)
  /\ srvVer' = [srvVer EXCEPT ![p] = @ + 1]
  /\ Send(ChannelOf[p], Message("edited", p, srvVer[p] + 1))
  /\ Notify(p, srvVer[p] + 1)
  /\ UNCHANGED <<srvDel, srvReact, hadReact, srvRead, joined, changes, conn, main,
                 pass, cache, caughtUp, faults>>

ServerDelete(p) ==
  /\ p \in Deletable /\ srvVer[p] > 0 /\ ~srvDel[p]
  /\ srvDel' = [srvDel EXCEPT ![p] = TRUE]
  /\ Send(ChannelOf[p], Message("deleted", p, srvVer[p]))
  /\ UNCHANGED <<srvVer, srvReact, hadReact, srvRead, joined, changes, conn, notes,
                 main, pass, cache, caughtUp, faults>>

Change == changes < MaxChanges /\ changes' = changes + 1

\* Somebody puts a reaction on a post, or takes it back.
ServerReact(p, r) ==
  /\ srvVer[p] > 0 /\ ~srvDel[p] /\ Change
  /\ srvReact' = [srvReact EXCEPT ![p] = IF r \in @ THEN @ \ {r} ELSE @ \cup {r}]
  /\ hadReact' = [hadReact EXCEPT ![p] = @ \cup {r}]
  /\ Send(ChannelOf[p], [type |-> IF r \in srvReact[p] THEN "unreacted" ELSE "reacted",
                         post |-> p, reaction |-> r])
  /\ UNCHANGED <<srvVer, srvDel, srvRead, joined, conn, notes, main, pass, cache,
                 caughtUp, faults>>

\* The user reads the channel in some client, or with mm mark-read.
ServerView(c) ==
  /\ c \in joined /\ ServerTotal(c) \in Viewed /\ srvRead[c] < ServerTotal(c)
  /\ srvRead' = [srvRead EXCEPT ![c] = ServerTotal(c)]
  /\ Send(c, [type |-> "viewed", ch |-> c])
  /\ UNCHANGED <<srvVer, srvDel, srvReact, hadReact, joined, changes, conn, notes, main,
                 pass, cache, caughtUp, faults>>

\* What a pass has read, and what has been told, is not the whole any more.
Outdated ==
  /\ caughtUp' = FALSE
  /\ pass' = [w \in Threads |-> [pass[w] EXCEPT !.fresh = FALSE]]

\* The user leaves a channel, or joins it.  The daemon handles no event of
\* either; whether a new member has read the channel is the server's choice.
ServerLeave(c) ==
  /\ c \in Leavable \cap joined /\ Change
  /\ joined' = joined \ {c}
  /\ UNCHANGED <<srvVer, srvDel, srvReact, hadReact, srvRead, wires, main, pass, cache,
                 caughtUp, faults>>

ServerJoin(c) ==
  /\ c \in Leavable \ joined /\ Change
  /\ joined' = joined \cup {c}
  /\ \E n \in {0, ServerTotal(c)} : srvRead' = [srvRead EXCEPT ![c] = n]
  /\ Outdated
  /\ UNCHANGED <<srvVer, srvDel, srvReact, hadReact, wires, main, cache, faults>>

--------------------------------------------------------------------------
(* The writes of internal/store, one statement to a step.                  *)

\* The row of the post.  That a row once deleted is live again is
\* delete_at=excluded.delete_at.
UpsertRow(p, v) ==
  /\ rowVer' = [rowVer EXCEPT ![p] = v]
  /\ rowDel' = [rowDel EXCEPT ![p] = FALSE]

\* UpsertPost within handlePosted's transaction.  A post that comes with
\* reactions replaces those held; one without any leaves them.
UpsertPostTx(p, v, R) ==
  /\ UpsertRow(p, v)
  /\ rowReact' = [rowReact EXCEPT ![p] = IF R = {} THEN @ ELSE R]
  /\ UNCHANGED upserts

\* UpsertPost on the database itself, by any other caller: the row now, the
\* reactions by statements to follow.
UpsertPost(by, p, v, R) ==
  /\ UpsertRow(p, v)
  /\ upserts' = IF R = {} THEN upserts
                ELSE upserts \cup {[by |-> by, post |-> p, clear |-> TRUE, re |-> R]}
  /\ UNCHANGED rowReact

Busy(by) == \E s \in upserts : s.by = by

\* DELETE the reactions held, then INSERT those of the post one by one.
WriteReactions(by) ==
  /\ \E s \in upserts :
       /\ s.by = by
       /\ \/ /\ s.clear
             /\ rowReact' = [rowReact EXCEPT ![s.post] = {}]
             /\ upserts' = (upserts \ {s}) \cup {[s EXCEPT !.clear = FALSE]}
          \/ /\ ~s.clear
             /\ \E r \in s.re :
                  /\ rowReact' = [rowReact EXCEPT ![s.post] = @ \cup {r}]
                  /\ upserts' = (upserts \ {s}) \cup
                       (IF s.re = {r} THEN {} ELSE {[s EXCEPT !.re = @ \ {r}]})
  /\ UNCHANGED <<server, wires, main, pass, rowVer, rowDel, counts, cursors, caughtUp,
                 faults>>

\* A slip: DELETE instead of UPDATE.
MarkPostDeletedForGood(p) ==
  /\ rowVer' = [rowVer EXCEPT ![p] = 0]
  /\ rowDel' = [rowDel EXCEPT ![p] = FALSE]
  /\ UNCHANGED <<rowReact, upserts>>

MarkPostDeleted(p) ==
  /\ rowDel' = IF rowVer[p] = 0 THEN rowDel ELSE [rowDel EXCEPT ![p] = TRUE]
  /\ UNCHANGED <<rowVer, rowReact, upserts>>

\* The reactions table asks for no row of the posts table.
UpsertReaction(p, r) ==
  /\ rowReact' = [rowReact EXCEPT ![p] = @ \cup {r}]
  /\ UNCHANGED <<rowVer, rowDel, upserts>>

DeleteReaction(p, r) ==
  /\ rowReact' = [rowReact EXCEPT ![p] = @ \ {r}]
  /\ UNCHANGED <<rowVer, rowDel, upserts>>

BumpChannelOnPost(c) ==
  rowTotal' = [rowTotal EXCEPT ![c] = IF @ = NoRow THEN NoRow ELSE @ + 1]

MarkChannelViewed(c) ==
  rowRead' = [rowRead EXCEPT ![c] = IF @ = NoRow THEN NoRow ELSE rowTotal[c]]

SetChannelCursor(c, lo, hi) ==
  /\ oldest' = [oldest EXCEPT ![c] = IF @ = 0 \/ lo < @ THEN lo ELSE @]
  /\ newest' = [newest EXCEPT ![c] = IF hi > @ THEN hi ELSE @]

--------------------------------------------------------------------------
(* The pipeline of thread w.                                               *)

At(w, l) == pass[w].at = l
Becomes(w, r) == pass' = [pass EXCEPT ![w] = r]

FetchChannels(w) ==
  /\ At(w, "channels")
  /\ Becomes(w, [pass[w] EXCEPT !.at = "members", !.todo = joined,
                   !.total = [c \in Channels |-> ServerTotal(c)],
                   !.last = [c \in Channels |-> LastPostAt(c)]])
  /\ UNCHANGED <<server, wires, main, cache, caughtUp, faults>>

\* A second call, so the memberships need not be those of the channels listed.
FetchMembers(w) ==
  /\ At(w, "members")
  /\ Becomes(w, [pass[w] EXCEPT !.at = "pick",
                   !.read = [c \in Channels |-> IF c \in joined THEN srvRead[c] ELSE NoRow]])
  /\ UNCHANGED <<server, wires, main, cache, caughtUp, faults>>

\* A slip: INSERT OR IGNORE, a channel that has a row keeps its count.
UpsertChannelIgnore(w) ==
  /\ At(w, "pick")
  /\ \E c \in pass[w].todo :
       /\ rowTotal' = [rowTotal EXCEPT ![c] = IF @ = NoRow THEN pass[w].total[c] ELSE @]
       /\ Becomes(w, [pass[w] EXCEPT !.at = "member", !.ch = c, !.todo = @ \ {c}])
  /\ UNCHANGED <<server, wires, main, posts, rowRead, cursors, caughtUp, faults>>

\* The loop over the channels, in the order the server listed them.
UpsertChannel(w) ==
  /\ At(w, "pick")
  /\ \E c \in pass[w].todo :
       /\ rowTotal' = [rowTotal EXCEPT ![c] = pass[w].total[c]]
       /\ Becomes(w, [pass[w] EXCEPT !.at = "member", !.ch = c, !.todo = @ \ {c}])
  /\ UNCHANGED <<server, wires, main, posts, rowRead, cursors, caughtUp, faults>>

\* A channel in the list and not in the memberships was left in between.  The
\* numbers used up are forgotten.
UpsertMember(w) ==
  LET c == pass[w].ch
      known == pass[w].read[c] # NoRow
      unread == pass[w].total[c] - (IF known THEN pass[w].read[c] ELSE 0)
      used == [pass[w] EXCEPT !.total[c] = 0, !.read[c] = 0]
  IN
  /\ At(w, "member")
  /\ rowRead' = IF known THEN [rowRead EXCEPT ![c] = pass[w].read[c]] ELSE rowRead
  /\ Becomes(w, IF pass[w].kind = "backfill"
                THEN [used EXCEPT !.at = "page", !.last[c] = 0, !.target = ClampWindow(unread)]
                ELSE [used EXCEPT !.at = "cursor"])
  /\ UNCHANGED <<server, wires, main, posts, rowTotal, cursors, caughtUp, faults>>

\* Reconcile only: has the channel moved beyond the posts already synced?
NextChannel(w) ==
  [pass[w] EXCEPT !.at = "pick", !.got = Idle.got, !.re = Idle.re, !.full = FALSE,
                  !.stray = FALSE, !.pageNo = 0, !.target = 0, !.last[pass[w].ch] = 0]

CheckNewest(w) ==
  /\ At(w, "cursor")
  /\ Becomes(w, IF pass[w].last[pass[w].ch] <= newest[pass[w].ch]
                THEN NextChannel(w)
                ELSE [pass[w] EXCEPT !.at = "page", !.last[pass[w].ch] = 0])
  /\ UNCHANGED <<server, wires, main, cache, caughtUp, faults>>

\* What follows the last page of a channel: the next one, or the reply to
\* the LoadHistory request.
AfterPages(w) == IF pass[w].kind = "history" THEN Idle ELSE NextChannel(w)

\* GetPostsForChannel, or GetPostsBefore the anchor of a LoadHistory.  Deleted
\* posts are never listed.
Listed(w) ==
  LET c == pass[w].ch
      S == IF pass[w].before = 0 THEN Live(c)
           ELSE {p \in Live(c) : p < pass[w].before}
  IN  IF pass[w].kind = "reconcile" THEN PageOf(S, 0, MinBackfill)
      ELSE PageOf(S, pass[w].pageNo, PageSize)

\* The answer, asked for with skipFetchThreads false, holds the posts listed and
\* the whole threads of the replies among them, whatever their age; before an
\* anchor also the threads of the roots listed.
Fetched(w) ==
  LET threads == ({RootOf[q] : q \in Listed(w)} \ {0})
                   \cup (IF pass[w].before = 0 THEN {} ELSE Listed(w))
  IN  Listed(w) \cup {q \in Live(pass[w].ch) : q \in threads \/ RootOf[q] \in threads}

\* Does a thread bring a reply newer than every post listed?
Strays(w) == \E p \in Fetched(w) : \A q \in Listed(w) : q < p

FetchPage(w) ==
  /\ At(w, "page")
  /\ Becomes(w, IF Listed(w) = {} THEN AfterPages(w)
                ELSE [pass[w] EXCEPT !.at = "write", !.left = Fetched(w),
                        !.full = (Cardinality(Listed(w)) = PageSize),
                        !.stray = Strays(w),
                        !.got = [p \in Posts |-> IF p \in Fetched(w) THEN srvVer[p] ELSE 0],
                        !.re = [p \in Posts |-> IF p \in Fetched(w) THEN srvReact[p] ELSE {}]])
  /\ UNCHANGED <<server, wires, main, cache, caughtUp, faults>>

\* ingestPosts walks a Go map: the posts come in any order, each written to the
\* last of its reactions before the next.
IngestPost(w) ==
  /\ At(w, "write") /\ ~Busy(w)
  /\ \E p \in pass[w].left :
       /\ UpsertPost(w, p, pass[w].got[p], pass[w].re[p])
       /\ Becomes(w, [pass[w] EXCEPT !.left = @ \ {p}, !.re[p] = {}])
  /\ UNCHANGED <<server, wires, main, counts, cursors, caughtUp, faults>>

Page(w) == {p \in Posts : pass[w].got[p] > 0}

\* A slip: the cursor is written before the rows it stands for.
IngestCursorEarly(w) ==
  /\ At(w, "write")
  /\ \E lo, hi \in Page(w) :
       /\ IsLeast(lo, Page(w)) /\ IsGreatest(hi, Page(w))
       /\ SetChannelCursor(pass[w].ch, lo, hi)
  /\ \/ UNCHANGED pass
     \/ pass[w].left = {} /\ Becomes(w, AfterPages(w))
  /\ UNCHANGED <<server, wires, main, posts, counts, leapt, caughtUp, faults>>

\* The channel's cursor, once the whole page is in: it takes the newest of all
\* that came, though a page of older posts may have strayed ahead.  Then the next
\* page while this one was full and the target is not reached.
IngestCursor(w) ==
  /\ At(w, "write") /\ pass[w].left = {} /\ ~Busy(w)
  /\ \E lo, hi \in Page(w) :
       /\ IsLeast(lo, Page(w)) /\ IsGreatest(hi, Page(w))
       /\ SetChannelCursor(pass[w].ch, lo, hi)
       /\ leapt' = IF pass[w].stray /\ newest[pass[w].ch] < hi
                   THEN leapt \cup {pass[w].ch} ELSE leapt
  /\ Becomes(w,
       IF /\ pass[w].kind # "reconcile"
          /\ pass[w].full
          /\ (pass[w].pageNo + 1) * PageSize < pass[w].target
       THEN [pass[w] EXCEPT !.at = "page", !.pageNo = @ + 1, !.got = Idle.got,
                              !.re = Idle.re, !.full = FALSE, !.stray = FALSE]
       ELSE AfterPages(w))
  /\ UNCHANGED <<server, wires, main, posts, counts, caughtUp, faults>>

\* Where the main thread goes when its pipeline ends: SetBackfillDone and the
\* WebSocket loop after a Backfill, consume after the Reconcile of a connect.
AfterPass == IF main = "backfill" THEN "connect" ELSE "consume"

FinishPass(w) ==
  /\ At(w, "pick") /\ pass[w].todo = {}
  /\ Becomes(w, Idle)
  /\ main' = IF w = "main" THEN AfterPass ELSE main
  /\ caughtUp' = (caughtUp \/ pass[w].fresh)
  /\ UNCHANGED <<server, wires, cache, faults>>

--------------------------------------------------------------------------
(* The life of the daemon.                                                 *)

\* Run: the process comes up on whatever the last one left in the cache.
Start ==
  /\ main = "down"
  /\ main' = "backfill"
  /\ Becomes("main", Begun("backfill", FALSE))
  /\ UNCHANGED <<server, wires, cache, caughtUp, faults>>

Dead ==
  /\ main' = "down"
  /\ pass' = [w \in Threads |-> Idle] /\ upserts' = {}
  /\ conn' = FALSE /\ events' = <<>> /\ caughtUp' = FALSE

Fault == faults < MaxFaults /\ faults' = faults + 1

\* SIGTERM or SIGKILL between two statements: SQLite keeps what was committed
\* and nothing else survives.
Crash ==
  /\ main # "down" /\ Fault
  /\ Dead
  /\ UNCHANGED <<server, notes, rows, counts, cursors>>

\* What by has not written yet is never written.
Forsake(by) == upserts' = {s \in upserts : s.by # by}

\* A failed Backfill ends the process; a failed Reconcile is only noted in
\* last_error, a failed LoadHistory in its answer.
PassFails(w) ==
  IF w = "main" /\ main = "backfill"
  THEN Dead
  ELSE /\ Becomes(w, Idle) /\ Forsake(w)
       /\ main' = IF w = "main" THEN AfterPass ELSE main
       /\ UNCHANGED <<conn, events, caughtUp>>

\* An API call of the pipeline fails for good (client.Retry gave up), or a
\* statement does.
FailPass(w) ==
  /\ ~At(w, "idle") /\ Fault
  /\ PassFails(w)
  /\ UNCHANGED <<server, notes, rows, counts, cursors>>

\* The user has left the channel since it was listed: the server may refuse
\* its posts.
RefusePage(w) ==
  /\ At(w, "page") /\ pass[w].ch \notin joined
  /\ PassFails(w)
  /\ UNCHANGED <<server, notes, rows, counts, cursors, faults>>

\* webSocketLoop: the connection comes first, the Reconcile after it.
Connect ==
  /\ main = "connect"
  /\ conn' = TRUE /\ events' = <<>>
  /\ main' = "reconcile"
  /\ Becomes("main", Begun("reconcile", TRUE))
  /\ UNCHANGED <<server, notes, cache, caughtUp, faults>>

\* The connection is lost, with the events that had not arrived.
Drop ==
  /\ conn /\ Fault
  /\ conn' = FALSE
  /\ \E k \in 0..Len(events) : events' = SubSeq(events, 1, k)
  /\ Outdated
  /\ UNCHANGED <<server, notes, main, cache>>

\* consume returns on a closed channel or a ping timeout: what it had not
\* handled is gone.
ConsumeEnd ==
  /\ main = "consume" /\ ~conn /\ ~Busy("main")
  /\ events' = <<>> /\ main' = "connect"
  /\ UNCHANGED <<server, conn, notes, pass, cache, caughtUp, faults>>

--------------------------------------------------------------------------
(* The handlers of WebSocket events, called by consume one at a time.      *)

Handling(type) ==
  /\ main = "consume" /\ ~Busy("main")
  /\ events # <<>> /\ Head(events).type = type
  /\ events' = Tail(events)
  /\ UNCHANGED <<server, conn, notes, main, pass, cursors, caughtUp, faults>>

\* A slip: the realtime event moves the cursor as well.
HandlePostedMovesCursor ==
  LET p == Head(events).post IN
  /\ main = "consume" /\ events # <<>> /\ Head(events).type = "posted"
  /\ events' = Tail(events)
  /\ UpsertPostTx(p, Head(events).ver, Head(events).re)
  /\ BumpChannelOnPost(ChannelOf[p])
  /\ SetChannelCursor(ChannelOf[p], p, p)
  /\ UNCHANGED <<server, conn, notes, main, pass, rowRead, leapt, caughtUp, faults>>

HandlePosted ==
  /\ Handling("posted")
  /\ UpsertPostTx(Head(events).post, Head(events).ver, Head(events).re)
  /\ BumpChannelOnPost(ChannelOf[Head(events).post])
  /\ UNCHANGED rowRead

HandlePostEdited ==
  /\ Handling("edited")
  /\ UpsertPost("main", Head(events).post, Head(events).ver, Head(events).re)
  /\ UNCHANGED counts

HandlePostDeleted ==
  /\ Handling("deleted")
  /\ MarkPostDeleted(Head(events).post)
  /\ UNCHANGED counts

HandleReaction ==
  /\ \/ Handling("reacted") /\ UpsertReaction(Head(events).post, Head(events).reaction)
     \/ Handling("unreacted") /\ DeleteReaction(Head(events).post, Head(events).reaction)
  /\ UNCHANGED counts

HandleChannelsViewed ==
  /\ Handling("viewed")
  /\ MarkChannelViewed(Head(events).ch)
  /\ UNCHANGED <<posts, rowTotal>>

\* A slip: the cursor is moved first, by a statement of its own.
FailEventPastCursor ==
  /\ main = "consume" /\ events # <<>> /\ Head(events).type = "posted" /\ Fault
  /\ events' = Tail(events)
  /\ SetChannelCursor(ChannelOf[Head(events).post], Head(events).post, Head(events).post)
  /\ Outdated
  /\ UNCHANGED <<server, conn, notes, main, posts, counts, leapt>>

\* A statement of a handler fails, the first or one of an edit's reactions: the
\* rest of the event is gone, and last_error is all that is left of it.
FailEvent ==
  /\ main = "consume" /\ Fault
  /\ \/ ~Busy("main") /\ events # <<>> /\ events' = Tail(events) /\ UNCHANGED upserts
     \/ Busy("main") /\ Forsake("main") /\ UNCHANGED events
  /\ Outdated
  /\ UNCHANGED <<server, conn, notes, main, rows, counts, cursors>>

--------------------------------------------------------------------------
(* The other threads.                                                      *)

TickReconcile ==
  /\ Ticking /\ At("tick", "idle") /\ main \in {"connect", "reconcile", "consume"}
  /\ Becomes("tick", Begun("reconcile", conn))
  /\ UNCHANGED <<server, wires, main, cache, caughtUp, faults>>

\* handleIngestPost: the post only, never the counts or the cursor.
HandleIngestPost ==
  /\ main # "down"
  /\ \E n \in notes : UpsertPost("ipc", n[1], n[2], n[3]) /\ notes' = notes \ {n}
  /\ UNCHANGED <<server, conn, events, main, pass, counts, cursors, caughtUp, faults>>

\* NotifyPost is best effort: no daemon, a full socket, or a timeout, which
\* cancels the statements the request has not come to.
LoseNote ==
  /\ \/ \E n \in notes : notes' = notes \ {n} /\ UNCHANGED upserts
     \/ \E s \in upserts : s.by = "ipc" /\ upserts' = upserts \ {s} /\ UNCHANGED notes
  /\ UNCHANGED <<server, conn, events, main, pass, rows, counts, cursors, caughtUp, faults>>

\* handleLoadHistory pages back from the oldest row, deleted or not.
HandleLoadHistory(c) ==
  LET held == {p \in Posts : ChannelOf[p] = c /\ rowVer[p] > 0} IN
  /\ HistoryLimit > 0 /\ main # "down" /\ At("hist", "idle")
  /\ \E first \in 0..MaxPost :
       /\ IF held = {} THEN first = 0 ELSE IsLeast(first, held)
       /\ Becomes("hist", [Idle EXCEPT !.at = "page", !.kind = "history", !.ch = c,
                             !.target = HistoryLimit, !.before = first])
  /\ UNCHANGED <<server, wires, main, cache, caughtUp, faults>>

--------------------------------------------------------------------------
Init ==
  /\ srvVer = [p \in Posts |-> 0]
  /\ srvDel = [p \in Posts |-> FALSE]
  /\ srvReact = [p \in Posts |-> {}] /\ hadReact = [p \in Posts |-> {}]
  /\ srvRead = [c \in Channels |-> 0] /\ joined = Channels
  /\ conn = FALSE /\ events = <<>> /\ notes = {}
  /\ main = "down" /\ pass = [w \in Threads |-> Idle]
  /\ rowVer = [p \in Posts |-> 0]
  /\ rowDel = [p \in Posts |-> FALSE] /\ rowReact = [p \in Posts |-> {}]
  /\ rowTotal = [c \in Channels |-> NoRow]
  /\ rowRead = [c \in Channels |-> NoRow]
  /\ oldest = [c \in Channels |-> 0]
  /\ newest = [c \in Channels |-> 0]
  /\ upserts = {} /\ leapt = {}
  /\ caughtUp = FALSE /\ faults = 0 /\ changes = 0

Server ==
  \/ \E p \in Posts : ServerPost(p) \/ ServerEdit(p) \/ ServerDelete(p)
  \/ \E p \in Posts, r \in Reactions : ServerReact(p, r)
  \/ \E c \in Channels : ServerView(c) \/ ServerLeave(c) \/ ServerJoin(c)

\* One step of the pipeline, other than its failure.
PassStep(w) ==
  \/ FetchChannels(w) \/ FetchMembers(w) \/ UpsertChannel(w) \/ UpsertMember(w)
  \/ CheckNewest(w) \/ FetchPage(w) \/ RefusePage(w) \/ IngestPost(w)
  \/ IngestCursor(w) \/ FinishPass(w)

Consume ==
  \/ HandlePosted \/ HandlePostEdited \/ HandlePostDeleted
  \/ HandleReaction \/ HandleChannelsViewed \/ ConsumeEnd

Next ==
  \/ Server
  \/ Start \/ Connect \/ Consume \/ TickReconcile
  \/ \E w \in Threads : PassStep(w) \/ FailPass(w)
  \/ \E c \in Channels : HandleLoadHistory(c)
  \/ HandleIngestPost \/ LoseNote
  \/ \E by \in Writers : WriteReactions(by)
  \/ Crash \/ Drop \/ FailEvent

Spec == Init /\ [][Next]_vars

\* The Go scheduler runs every goroutine; the ticker keeps ticking and the
\* loop keeps reconnecting; a restarted daemon is somebody's mm sync start.
Fairness ==
  /\ WF_vars(Start) /\ WF_vars(Connect) /\ WF_vars(Consume)
  /\ WF_vars(TickReconcile)
  /\ \A w \in Threads : WF_vars(PassStep(w))
  /\ \A by \in Writers : WF_vars(WriteReactions(by))
  /\ WF_vars(HandleIngestPost \/ LoseNote)

FairSpec == Spec /\ Fairness

--------------------------------------------------------------------------
(* What makes the cache correct.                                           *)

Pass ==
  [at : {"idle", "channels", "members", "pick", "member", "cursor", "page", "write"},
   kind : {"none", "backfill", "reconcile", "history"},
   total : [Channels -> Nat], last : [Channels -> Nat],
   read : [Channels -> Nat \cup {NoRow}],
   todo : SUBSET Channels, ch : Channels,
   pageNo : Nat, target : Nat, before : Nat,
   got : [Posts -> 0..MaxVer], re : [Posts -> SUBSET Reactions], left : SUBSET Posts,
   full : BOOLEAN, stray : BOOLEAN, fresh : BOOLEAN]

Upsert == [by : Writers, post : Posts, clear : BOOLEAN, re : SUBSET Reactions]

Event ==
  [type : {"posted", "edited", "deleted"}, post : Posts, ver : 1..MaxVer,
   re : SUBSET Reactions]
    \cup [type : {"reacted", "unreacted"}, post : Posts, reaction : Reactions]
    \cup [type : {"viewed"}, ch : Channels]

\* The type invariant.
TypeOK ==
  /\ srvVer \in [Posts -> 0..MaxVer] /\ srvDel \in [Posts -> BOOLEAN]
  /\ srvReact \in [Posts -> SUBSET Reactions] /\ hadReact \in [Posts -> SUBSET Reactions]
  /\ srvRead \in [Channels -> Nat] /\ joined \subseteq Channels
  /\ conn \in BOOLEAN /\ events \in Seq(Event)
  /\ notes \subseteq Posts \X (1..MaxVer) \X SUBSET Reactions
  /\ main \in {"down", "backfill", "connect", "reconcile", "consume"}
  /\ pass \in [Threads -> Pass] /\ upserts \subseteq Upsert
  /\ rowVer \in [Posts -> 0..MaxVer] /\ rowDel \in [Posts -> BOOLEAN]
  /\ rowReact \in [Posts -> SUBSET Reactions]
  /\ rowTotal \in [Channels -> Nat \cup {NoRow}]
  /\ rowRead \in [Channels -> Nat \cup {NoRow}]
  /\ oldest \in [Channels -> 0..MaxPost] /\ newest \in [Channels -> 0..MaxPost]
  /\ leapt \subseteq Channels
  /\ caughtUp \in BOOLEAN /\ faults \in Nat /\ changes \in Nat

\* A cursor never runs ahead of the rows: wherever a pass was cut short, the
\* two posts a channel's cursor names are in the cache, so that a Reconcile
\* that trusts newest_synced_at skips nothing (ingestPosts, NewestPostAt).
CursorBacked ==
  \A c \in Channels :
    \/ oldest[c] = 0 /\ newest[c] = 0
    \/ /\ 0 < oldest[c] /\ oldest[c] <= newest[c]
       /\ \A p \in {oldest[c], newest[c]} : ChannelOf[p] = c /\ rowVer[p] > 0

\* Behind the cursor the newest page is whole: a live post the cache lacks
\* although it is not newer than newest_synced_at lies at least a page behind
\* it.  It is what makes "LastPostAt <= newestLocal" a sound reason to skip.  It
\* is lost in one way only: a page of older posts, of a Backfill or of mm
\* history, brings a newer reply to one of them and moves the cursor past posts
\* nobody has fetched.
NewestPageWhole ==
  \A c \in Channels \ leapt : \A p \in Live(c) :
    (p <= newest[c] /\ rowVer[p] = 0) =>
      Cardinality({q \in Created(c) : p < q /\ q <= newest[c]}) >= MinBackfill

\* Connected, the queue drained, and a Reconcile has ended that began on this
\* connection and after whatever it could not tell: what mm sync status shows as
\* healthy.
AtRest == main = "consume" /\ conn /\ events = <<>> /\ caughtUp

\* At rest no recent post is missing from the user's channels, whatever was
\* dropped, failed, killed, left or joined before, unless the channel's cursor
\* has leapt: the Reconcile fills what the connection did not bring, up to its
\* page, and the connection brings what was posted after it.  For that the
\* handlers must leave the cursor alone.
NothingMissed ==
  AtRest => \A c \in joined \ leapt : \A p \in Live(c) :
    Cardinality(NewerIn(Created(c), p)) < MinBackfill => rowVer[p] > 0

\* No recent post of the user's channels stays missing for ever, not even one
\* whose event was handled in vain.
RecentConverge ==
  <>[](\A c \in joined \ leapt : \A p \in Live(c) :
         Cardinality(NewerIn(Created(c), p)) < MinBackfill => rowVer[p] > 0)

\* The posts of the cache are a faithful if belated copy: see Replica.
Copy == INSTANCE Replica WITH
          ver <- srvVer, del <- srvDel, had <- hadReact,
          copyVer <- rowVer, copyDel <- rowDel, copyReact <- rowReact
IsReplica == Copy!Spec

--------------------------------------------------------------------------
(* What is needed beside them for an induction.                            *)

\* Whatever is on its way to the cache was said by the server.
InFlightReal ==
  /\ \A w \in Threads : \A p \in Posts : pass[w].got[p] <= srvVer[p]
  /\ \A i \in 1..Len(events) : events[i].type \in {"posted", "edited", "deleted"} =>
       /\ events[i].ver <= srvVer[events[i].post]
       /\ events[i].type = "deleted" => srvDel[events[i].post]
  /\ \A n \in notes : n[2] <= srvVer[n[1]]
  /\ \A p \in Posts : rowVer[p] <= srvVer[p] /\ (srvDel[p] => srvVer[p] > 0)

\* And so were the reactions.
ReactionsReal ==
  /\ \A w \in Threads : \A p \in Posts : pass[w].re[p] \subseteq hadReact[p]
  /\ \A i \in 1..Len(events) :
       /\ events[i].type \in {"posted", "edited", "deleted"} =>
            events[i].re \subseteq hadReact[events[i].post]
       /\ events[i].type \in {"reacted", "unreacted"} =>
            events[i].reaction \in hadReact[events[i].post]
  /\ \A n \in notes : n[3] \subseteq hadReact[n[1]]
  /\ \A s \in upserts : s.re \subseteq hadReact[s.post]
  /\ \A p \in Posts : srvReact[p] \subseteq hadReact[p] /\ rowReact[p] \subseteq hadReact[p]

\* A page being written is of one channel, and what is not left to write is
\* in the cache.
PageIngested ==
  \A w \in Threads : At(w, "write") =>
    /\ pass[w].left \subseteq Page(w)
    /\ \A p \in Page(w) :
         ChannelOf[p] = pass[w].ch /\ (p \notin pass[w].left => rowVer[p] > 0)

\* The inductive invariant of CacheSync_proofs: what the pipelines and the wires
\* carry was said by the server, and the cursors stand on rows.
IndInv == TypeOK /\ InFlightReal /\ ReactionsReal /\ PageIngested /\ CursorBacked

\* Posts are made in the order of their numbers.
Ordered ==
  \A p \in Posts : srvVer[p] > 0 => \A q \in 1..(p - 1) : srvVer[q] > 0

\* The posts of a channel after p, up to h.
Between(c, p, h) == {q \in Posts : ChannelOf[q] = c /\ p < q /\ q <= h}

\* A page being written has no hole within MinBackfill posts of its newest,
\* unless that one strayed into it.
PageWhole(w) ==
  At(w, "write") /\ ~pass[w].stray => \A h \in Page(w) : IsGreatest(h, Page(w)) =>
    \A p \in Posts :
      (/\ ChannelOf[p] = pass[w].ch /\ ~srvDel[p] /\ p <= h
       /\ Cardinality(Between(pass[w].ch, p, h)) < MinBackfill)
      => p \in Page(w)

\* The post is in the cache, or on its way there over the connection.
Seen(p) ==
  \/ rowVer[p] > 0
  \/ \E i \in 1..Len(events) : events[i].type = "posted" /\ events[i].post = p

IsRecent(p) == Cardinality(NewerIn(Created(ChannelOf[p]), p)) < MinBackfill
Accounted(c) == \A p \in Live(c) : IsRecent(p) => Seen(p)
SeenAfter(c, n) == \A p \in Live(c) : p > n => Seen(p)

\* There is a connection for what is said of one.
Connected ==
  /\ \A w \in Threads : pass[w].fresh =>
       conn /\ pass[w].kind = "reconcile" /\ pass[w].before = 0
  /\ caughtUp => conn
  /\ main \in {"down", "backfill", "connect"} => ~conn

\* What a Reconcile that began on the present connection has settled: a channel
\* behind it is accounted for, of one before it whatever is newer than the
\* channel list said, of the one it is writing all but what is left.
Settled(w, c) ==
  LET current == ~At(w, "pick") /\ c = pass[w].ch
  IN
  /\ At(w, "members") => c \in pass[w].todo
  /\ (c \in pass[w].todo \/ (current /\ pass[w].at \in {"member", "cursor"})) =>
       SeenAfter(c, pass[w].last[c])
  /\ (c \notin pass[w].todo /\ ~current) => Accounted(c)
  /\ (current /\ At(w, "write")) =>
       \A p \in Live(c) : IsRecent(p) => Seen(p) \/ p \in pass[w].left

SettledSoFar ==
  /\ \A w \in Threads : pass[w].fresh =>
       /\ pass[w].at # "idle"
       /\ pass[w].at \notin {"channels", "members", "pick"} => pass[w].ch \notin pass[w].todo
       /\ ~At(w, "channels") => \A c \in joined \ leapt : Settled(w, c)
  /\ caughtUp => \A c \in joined \ leapt : Accounted(c)

\* The inductive invariant behind NewestPageWhole and NothingMissed: pages are
\* fetched and written without a hole near their newest post (getPosts,
\* ingestPosts), so the cursors stand before none; and what a Reconcile of the
\* present connection has passed is in the cache or waits in the queue.
RecentInv ==
  /\ Ordered /\ \A w \in Threads : PageWhole(w)
  /\ NewestPageWhole /\ Connected /\ SettledSoFar

--------------------------------------------------------------------------
(* What a comment says and the code does not do.                           *)

\* ipcserver.go: the WebSocket and the Reconcile keep the cache correct
\* regardless.  What it holds of a post would in the end be what the server has:
\* its text, that it was deleted, its reactions.
PostsConverge ==
  <>[](\A p \in Posts : rowVer[p] > 0 =>
         rowVer[p] = srvVer[p] /\ rowDel[p] = srvDel[p] /\ rowReact[p] = srvReact[p])
=============================================================================
