-------------------------- MODULE CacheSync_proofs --------------------------
(* Theorems of CacheSync, for any channels, posts, page sizes and bounds.   *)
EXTENDS CacheSync, FiniteSetTheorems, TLAPS

(* What the server answers is well typed.                                   *)
LEMMA ServerTotalType ==
  ASSUME NEW c \in Channels PROVE ServerTotal(c) \in Nat
<1>1. IsFiniteSet(Posts)
  BY ServerAssumption, FS_Interval DEF Posts
<1>2. IsFiniteSet(Created(c))
  BY <1>1, FS_Subset DEF Created
<1>. QED  BY <1>2, FS_CardinalityType DEF ServerTotal

LEMMA LastPostAtType ==
  ASSUME NEW c \in Channels PROVE LastPostAt(c) \in Nat
<1>1. Posts \subseteq Nat
  BY ServerAssumption DEF Posts
<1>. QED  BY <1>1 DEF LastPostAt

LEMMA IdleType == Idle \in Pass
<1>1. (CHOOSE c \in Channels : TRUE) \in Channels
  BY ServerAssumption
<1>. QED  BY <1>1, ServerAssumption DEF Idle, Pass

LEMMA BegunType ==
  ASSUME NEW k \in {"backfill", "reconcile"}, NEW f \in BOOLEAN
  PROVE  Begun(k, f) \in Pass
BY IdleType DEF Begun, Pass

LEMMA ClampWindowType ==
  ASSUME NEW n \in Int PROVE ClampWindow(n) \in Nat
BY SizesAssumption DEF ClampWindow

--------------------------------------------------------------------------
(* Types.                                                                   *)

LEMMA PassTypeStep ==
  ASSUME TypeOK, NEW w \in Threads, PassStep(w)
  PROVE  pass' \in [Threads -> Pass]
<1>. pass \in [Threads -> Pass] /\ pass[w] \in Pass
  BY DEF TypeOK
<1>1. NextChannel(w) \in Pass
  BY IdleType DEF NextChannel, Pass
<1>2. AfterPages(w) \in Pass
  BY <1>1, IdleType DEF AfterPages
<1>3. CASE FetchChannels(w)
  BY <1>3, ServerTotalType, LastPostAtType DEF FetchChannels, Becomes, Pass, TypeOK
<1>4. CASE FetchMembers(w)
  <2>1. [c \in Channels |-> IF c \in joined THEN srvRead[c] ELSE NoRow]
          \in [Channels -> Nat \cup {NoRow}]
    BY DEF TypeOK
  <2>. QED  BY <1>4, <2>1 DEF FetchMembers, Becomes, Pass
<1>5. CASE UpsertChannel(w)
  <2>1. PICK c \in pass[w].todo :
          Becomes(w, [pass[w] EXCEPT !.at = "member", !.ch = c, !.todo = @ \ {c}])
    BY <1>5 DEF UpsertChannel
  <2>2. c \in Channels /\ pass[w].todo \ {c} \in SUBSET Channels
    BY DEF Pass
  <2>. QED  BY <2>1, <2>2 DEF Becomes, Pass
<1>6. CASE UpsertMember(w)
  <2>. DEFINE c == pass[w].ch
              known == pass[w].read[c] # NoRow
              unread == pass[w].total[c] - (IF known THEN pass[w].read[c] ELSE 0)
              used == [pass[w] EXCEPT !.total[c] = 0, !.read[c] = 0]
  <2>1. c \in Channels /\ pass[w].total[c] \in Nat /\ pass[w].read[c] \in Nat \cup {NoRow}
    BY DEF Pass
  <2>2. unread \in Int
    BY <2>1
  <2>3. ClampWindow(unread) \in Nat
    BY <2>2, ClampWindowType
  <2>4. used \in Pass
    BY <2>1 DEF Pass
  <2>. HIDE DEF c, used, unread
  <2>5. /\ [used EXCEPT !.at = "page", !.last[c] = 0, !.target = ClampWindow(unread)] \in Pass
        /\ [used EXCEPT !.at = "cursor"] \in Pass
    BY <2>1, <2>3, <2>4 DEF Pass
  <2>6. \/ Becomes(w, [used EXCEPT !.at = "page", !.last[c] = 0, !.target = ClampWindow(unread)])
        \/ Becomes(w, [used EXCEPT !.at = "cursor"])
    BY <1>6 DEF UpsertMember, c, used, unread, known
  <2>. QED  BY <2>5, <2>6 DEF Becomes
<1>7. CASE CheckNewest(w)
  <2>1. [pass[w] EXCEPT !.at = "page", !.last[pass[w].ch] = 0] \in Pass
    BY DEF Pass
  <2>. QED  BY <1>1, <1>7, <2>1 DEF CheckNewest, Becomes
<1>8. CASE FetchPage(w)
  <2>1. Fetched(w) \subseteq Posts
    BY DEF Fetched, Listed, PageOf, Live, Created
  <2>2. [p \in Posts |-> IF p \in Fetched(w) THEN srvVer[p] ELSE 0] \in [Posts -> 0..MaxVer]
    BY ServerAssumption DEF TypeOK
  <2>3. [p \in Posts |-> IF p \in Fetched(w) THEN srvReact[p] ELSE {}]
          \in [Posts -> SUBSET Reactions]
    BY DEF TypeOK
  <2>4. (Cardinality(Listed(w)) = PageSize) \in BOOLEAN /\ Strays(w) \in BOOLEAN
    BY DEF Strays
  <2>. QED  BY <1>2, <1>8, <2>1, <2>2, <2>3, <2>4 DEF FetchPage, Becomes, Pass
<1>9. CASE IngestPost(w)
  <2>1. PICK p \in pass[w].left :
          Becomes(w, [pass[w] EXCEPT !.left = @ \ {p}, !.re[p] = {}])
    BY <1>9 DEF IngestPost
  <2>2. pass[w].left \ {p} \in SUBSET Posts
    BY DEF Pass
  <2>. QED  BY <2>1, <2>2 DEF Becomes, Pass
<1>10. CASE IngestCursor(w)
  <2>1. /\ Idle.got \in [Posts -> 0..MaxVer] /\ Idle.re \in [Posts -> SUBSET Reactions]
        /\ pass[w].pageNo + 1 \in Nat
    BY IdleType DEF Pass
  <2>2. [pass[w] EXCEPT !.at = "page", !.pageNo = @ + 1, !.got = Idle.got, !.re = Idle.re,
           !.full = FALSE, !.stray = FALSE] \in Pass
    BY <2>1 DEF Pass
  <2>. QED  BY <1>2, <1>10, <2>2 DEF IngestCursor, Becomes
<1>11. CASE FinishPass(w)
  BY <1>11, IdleType DEF FinishPass, Becomes
<1>12. CASE RefusePage(w)
  BY <1>12, IdleType DEF RefusePage, PassFails, Dead, Becomes
<1>. QED
  BY <1>3, <1>4, <1>5, <1>6, <1>7, <1>8, <1>9, <1>10, <1>11, <1>12 DEF PassStep

LEMMA InitType == Init => TypeOK
<1>1. [w \in Threads |-> Idle] \in [Threads -> Pass]
  BY IdleType
<1>2. <<>> \in Seq(Event)
  OBVIOUS
<1>3. {} \subseteq Posts \X (1..MaxVer) \X SUBSET Reactions
  OBVIOUS
<1>4. Init => /\ srvVer \in [Posts -> 0..MaxVer] /\ rowVer \in [Posts -> 0..MaxVer]
              /\ srvDel \in [Posts -> BOOLEAN] /\ rowDel \in [Posts -> BOOLEAN]
              /\ oldest \in [Channels -> 0..MaxPost] /\ newest \in [Channels -> 0..MaxPost]
  BY ServerAssumption DEF Init
<1>5. Init => /\ srvRead \in [Channels -> Nat]
              /\ rowTotal \in [Channels -> Nat \cup {NoRow}]
              /\ rowRead \in [Channels -> Nat \cup {NoRow}]
              /\ joined \subseteq Channels
  BY DEF Init
<1>5a. Init => /\ srvReact \in [Posts -> SUBSET Reactions]
               /\ hadReact \in [Posts -> SUBSET Reactions]
               /\ rowReact \in [Posts -> SUBSET Reactions]
  BY DEF Init
<1>6. Init => /\ pass \in [Threads -> Pass] /\ events \in Seq(Event)
              /\ notes \subseteq Posts \X (1..MaxVer) \X SUBSET Reactions
  BY <1>1, <1>2, <1>3 DEF Init
<1>6a. Init => upserts \subseteq Upsert /\ leapt \subseteq Channels
  BY DEF Init
<1>7. Init => conn \in BOOLEAN /\ caughtUp \in BOOLEAN
  BY Zenon DEF Init
<1>8. Init => /\ faults \in Nat /\ changes \in Nat
              /\ main \in {"down", "backfill", "connect", "reconcile", "consume"}
  BY DEF Init
<1>. QED  BY <1>4, <1>5, <1>5a, <1>6, <1>6a, <1>7, <1>8 DEF TypeOK

\* What is sent is an event, and sent to the queue.
LEMMA SendType ==
  ASSUME TypeOK, NEW c \in Channels, NEW e \in Event, Send(c, e)
  PROVE  events' \in Seq(Event)
BY DEF Send, TypeOK

LEMMA MessageType ==
  ASSUME TypeOK, NEW t \in {"posted", "edited", "deleted"}, NEW p \in Posts, NEW v \in 1..MaxVer
  PROVE  Message(t, p, v) \in Event
<1>1. srvReact[p] \in SUBSET Reactions
  BY DEF TypeOK
<1>. QED  BY <1>1 DEF Message, Event

LEMMA NotifyType ==
  ASSUME TypeOK, NEW p \in Posts, NEW v \in 1..MaxVer, Notify(p, v)
  PROVE  notes' \subseteq Posts \X (1..MaxVer) \X SUBSET Reactions
<1>1. <<p, v, srvReact[p]>> \in Posts \X (1..MaxVer) \X SUBSET Reactions
  BY DEF TypeOK
<1>. QED  BY <1>1 DEF Notify, TypeOK

LEMMA OutdatedType ==
  ASSUME TypeOK, Outdated PROVE pass' \in [Threads -> Pass] /\ caughtUp' \in BOOLEAN
<1>1. ASSUME NEW w \in Threads PROVE [pass[w] EXCEPT !.fresh = FALSE] \in Pass
  <2>1. pass[w] \in Pass
    BY DEF TypeOK
  <2>. QED  BY <2>1 DEF Pass
<1>. QED  BY <1>1 DEF Outdated

\* A server action changes the server's side and what is sent of it.
LEMMA ServerTypeStep ==
  ASSUME TypeOK, Server PROVE TypeOK'
<1>. \A p \in Posts : ChannelOf[p] \in Channels
  BY ServerAssumption
<1>1. ASSUME NEW p \in Posts, ServerPost(p) PROVE TypeOK'
  <2>1. 1 \in 1..MaxVer
    BY ServerAssumption
  <2>2. events' \in Seq(Event)
    BY <1>1, <2>1, MessageType, SendType DEF ServerPost
  <2>3. notes' \subseteq Posts \X (1..MaxVer) \X SUBSET Reactions
    BY <1>1, <2>1, NotifyType DEF ServerPost
  <2>4. srvVer' \in [Posts -> 0..MaxVer]
    BY <1>1, ServerAssumption DEF ServerPost, TypeOK
  <2>. QED  BY <1>1, <2>2, <2>3, <2>4 DEF ServerPost, TypeOK, cache, posts, rows, counts, cursors
<1>2. ASSUME NEW p \in Posts, ServerEdit(p) PROVE TypeOK'
  <2>1. srvVer[p] + 1 \in 1..MaxVer
    BY <1>2, ServerAssumption DEF ServerEdit, TypeOK
  <2>2. events' \in Seq(Event)
    BY <1>2, <2>1, MessageType, SendType DEF ServerEdit
  <2>3. notes' \subseteq Posts \X (1..MaxVer) \X SUBSET Reactions
    BY <1>2, <2>1, NotifyType DEF ServerEdit
  <2>4. srvVer' \in [Posts -> 0..MaxVer]
    BY <1>2, <2>1 DEF ServerEdit, TypeOK
  <2>. QED  BY <1>2, <2>2, <2>3, <2>4 DEF ServerEdit, TypeOK, cache, posts, rows, counts, cursors
<1>3. ASSUME NEW p \in Posts, ServerDelete(p) PROVE TypeOK'
  <2>1. srvVer[p] \in 1..MaxVer
    BY <1>3, ServerAssumption DEF ServerDelete, TypeOK
  <2>2. events' \in Seq(Event)
    BY <1>3, <2>1, MessageType, SendType DEF ServerDelete
  <2>. QED  BY <1>3, <2>2 DEF ServerDelete, TypeOK, cache, posts, rows, counts, cursors
<1>4. ASSUME NEW p \in Posts, NEW r \in Reactions, ServerReact(p, r) PROVE TypeOK'
  <2>. DEFINE e == [type |-> IF r \in srvReact[p] THEN "unreacted" ELSE "reacted",
                    post |-> p, reaction |-> r]
  <2>1. e \in Event
    BY DEF Event
  <2>2. events' \in Seq(Event)
    BY <1>4, <2>1, SendType DEF ServerReact
  <2>3. srvReact' \in [Posts -> SUBSET Reactions] /\ hadReact' \in [Posts -> SUBSET Reactions]
    BY <1>4 DEF ServerReact, TypeOK
  <2>4. changes' \in Nat
    BY <1>4 DEF ServerReact, Change, TypeOK
  <2>. QED  BY <1>4, <2>2, <2>3, <2>4 DEF ServerReact, TypeOK, cache, posts, rows, counts, cursors
<1>5. ASSUME NEW c \in Channels, ServerView(c) PROVE TypeOK'
  <2>. DEFINE e == [type |-> "viewed", ch |-> c]
  <2>1. e \in Event /\ ServerTotal(c) \in Nat
    BY ServerTotalType DEF Event
  <2>2. events' \in Seq(Event)
    BY <1>5, <2>1, SendType DEF ServerView
  <2>. QED  BY <1>5, <2>1, <2>2 DEF ServerView, TypeOK, cache, posts, rows, counts, cursors
<1>6. ASSUME NEW c \in Channels, ServerLeave(c) PROVE TypeOK'
  <2>1. changes' \in Nat /\ joined' \subseteq Channels
    BY <1>6 DEF ServerLeave, Change, TypeOK
  <2>. QED  BY <1>6, <2>1 DEF ServerLeave, TypeOK, wires, cache, posts, rows, counts, cursors
<1>7. ASSUME NEW c \in Channels, ServerJoin(c) PROVE TypeOK'
  <2>1. changes' \in Nat /\ joined' \subseteq Channels
    BY <1>7 DEF ServerJoin, Change, TypeOK
  <2>2. srvRead' \in [Channels -> Nat]
    BY <1>7, ServerTotalType DEF ServerJoin, TypeOK
  <2>3. pass' \in [Threads -> Pass] /\ caughtUp' \in BOOLEAN
    BY <1>7, OutdatedType DEF ServerJoin
  <2>. QED
    BY <1>7, <2>1, <2>2, <2>3 DEF ServerJoin, TypeOK, wires, cache, posts, rows, counts, cursors
<1>. QED  BY <1>1, <1>2, <1>3, <1>4, <1>5, <1>6, <1>7 DEF Server

\* The tables of posts and reactions, and what is still to be written to them.
RowsTyped ==
  /\ rowVer \in [Posts -> 0..MaxVer] /\ rowDel \in [Posts -> BOOLEAN]
  /\ rowReact \in [Posts -> SUBSET Reactions] /\ upserts \subseteq Upsert

LEMMA UpsertPostType ==
  ASSUME TypeOK, NEW p \in Posts, NEW v \in 0..MaxVer, NEW R \in SUBSET Reactions,
         \/ UpsertPostTx(p, v, R)
         \/ \E by \in Writers : UpsertPost(by, p, v, R)
  PROVE  RowsTyped'
<1>1. rowVer' \in [Posts -> 0..MaxVer] /\ rowDel' \in [Posts -> BOOLEAN]
  BY DEF UpsertPostTx, UpsertPost, UpsertRow, TypeOK
<1>2. CASE UpsertPostTx(p, v, R)
  BY <1>1, <1>2 DEF UpsertPostTx, RowsTyped, TypeOK
<1>3. ASSUME NEW by \in Writers, UpsertPost(by, p, v, R) PROVE RowsTyped'
  <2>1. [by |-> by, post |-> p, clear |-> TRUE, re |-> R] \in Upsert
    BY DEF Upsert
  <2>. QED  BY <1>1, <1>3, <2>1 DEF UpsertPost, RowsTyped, TypeOK
<1>. QED  BY <1>2, <1>3

\* What WriteReactions leaves of an upsert, and what it writes.
LEMMA WriteReactionsStep ==
  ASSUME TypeOK, NEW by \in Writers, WriteReactions(by)
  PROVE  \E s \in upserts, x \in Upsert :
           /\ upserts' \subseteq upserts \cup {x} /\ x.post = s.post /\ x.re \subseteq s.re
           /\ \E R \in {{}} \cup {rowReact[s.post] \cup {r} : r \in s.re} :
                rowReact' = [rowReact EXCEPT ![s.post] = R]
<1>1. PICK s \in upserts :
        \/ /\ rowReact' = [rowReact EXCEPT ![s.post] = {}]
           /\ upserts' = (upserts \ {s}) \cup {[s EXCEPT !.clear = FALSE]}
        \/ \E r \in s.re :
             /\ rowReact' = [rowReact EXCEPT ![s.post] = @ \cup {r}]
             /\ upserts' = (upserts \ {s}) \cup
                  (IF s.re = {r} THEN {} ELSE {[s EXCEPT !.re = @ \ {r}]})
  BY DEF WriteReactions
<1>2. s \in Upsert /\ s.post \in Posts
  BY DEF TypeOK, Upsert
<1>3. CASE /\ rowReact' = [rowReact EXCEPT ![s.post] = {}]
           /\ upserts' = (upserts \ {s}) \cup {[s EXCEPT !.clear = FALSE]}
  <2>. DEFINE x == [s EXCEPT !.clear = FALSE]
  <2>1. x \in Upsert /\ x.post = s.post /\ x.re = s.re
    BY <1>2 DEF Upsert
  <2>. HIDE DEF x
  <2>2. upserts' \subseteq upserts \cup {x}
    BY <1>3 DEF x
  <2>. QED  BY <1>3, <2>1, <2>2
<1>4. ASSUME NEW r \in s.re,
             rowReact' = [rowReact EXCEPT ![s.post] = @ \cup {r}],
             upserts' = (upserts \ {s}) \cup
                  (IF s.re = {r} THEN {} ELSE {[s EXCEPT !.re = @ \ {r}]})
      PROVE  \E x \in Upsert :
               /\ upserts' \subseteq upserts \cup {x} /\ x.post = s.post /\ x.re \subseteq s.re
               /\ \E R \in {rowReact[s.post] \cup {q} : q \in s.re} :
                    rowReact' = [rowReact EXCEPT ![s.post] = R]
  <2>. DEFINE x == [s EXCEPT !.re = @ \ {r}]
  <2>1. x \in Upsert /\ x.post = s.post /\ x.re \subseteq s.re
    BY <1>2 DEF Upsert
  <2>2. upserts' \subseteq upserts \cup {x}
    BY <1>4
  <2>3. rowReact' = [rowReact EXCEPT ![s.post] = rowReact[s.post] \cup {r}]
    BY <1>4
  <2>. HIDE DEF x
  <2>. QED  BY <2>1, <2>2, <2>3
<1>. QED  BY <1>1, <1>3, <1>4

\* The pipeline changes pass and the cache.
LEMMA PassStepType ==
  ASSUME TypeOK, NEW w \in Threads, PassStep(w) PROVE TypeOK'
<1>0. pass' \in [Threads -> Pass] /\ pass[w] \in Pass
  BY PassTypeStep DEF TypeOK
<1>1. CASE FetchChannels(w)
  BY <1>0, <1>1 DEF FetchChannels, TypeOK, server, wires, cache, posts, rows, counts, cursors
<1>2. CASE FetchMembers(w)
  BY <1>0, <1>2 DEF FetchMembers, TypeOK, server, wires, cache, posts, rows, counts, cursors
<1>3. CASE UpsertChannel(w)
  <2>1. PICK c \in pass[w].todo : rowTotal' = [rowTotal EXCEPT ![c] = pass[w].total[c]]
    BY <1>3 DEF UpsertChannel
  <2>2. pass[w].total[c] \in Nat
    BY <1>0 DEF Pass
  <2>3. rowTotal' \in [Channels -> Nat \cup {NoRow}]
    BY <2>1, <2>2 DEF TypeOK
  <2>. QED  BY <1>0, <1>3, <2>3 DEF UpsertChannel, TypeOK, server, wires, posts, rows, cursors
<1>4. CASE UpsertMember(w)
  <2>1. pass[w].read[pass[w].ch] \in Nat \cup {NoRow}
    BY <1>0 DEF Pass
  <2>2. rowRead' \in [Channels -> Nat \cup {NoRow}]
    BY <1>4, <2>1 DEF UpsertMember, TypeOK
  <2>. QED  BY <1>0, <1>4, <2>2 DEF UpsertMember, TypeOK, server, wires, posts, rows, cursors
<1>5. CASE CheckNewest(w)
  BY <1>0, <1>5 DEF CheckNewest, TypeOK, server, wires, cache, posts, rows, counts, cursors
<1>6. CASE FetchPage(w)
  BY <1>0, <1>6 DEF FetchPage, TypeOK, server, wires, cache, posts, rows, counts, cursors
<1>7. CASE IngestPost(w)
  <2>1. PICK p \in pass[w].left : UpsertPost(w, p, pass[w].got[p], pass[w].re[p])
    BY <1>7 DEF IngestPost
  <2>2. p \in Posts /\ pass[w].got[p] \in 0..MaxVer /\ pass[w].re[p] \in SUBSET Reactions
    BY <1>0 DEF Pass
  <2>3. RowsTyped'
    BY <2>1, <2>2, UpsertPostType DEF Writers
  <2>. QED  BY <1>0, <1>7, <2>3 DEF IngestPost, RowsTyped, TypeOK, server, wires, counts, cursors
<1>8. CASE IngestCursor(w)
  <2>1. PICK lo, hi \in Page(w) : SetChannelCursor(pass[w].ch, lo, hi)
    BY <1>8 DEF IngestCursor
  <2>2. lo \in 0..MaxPost /\ hi \in 0..MaxPost
    BY ServerAssumption DEF Page, Posts
  <2>3. oldest' \in [Channels -> 0..MaxPost] /\ newest' \in [Channels -> 0..MaxPost]
    BY <2>1, <2>2 DEF SetChannelCursor, TypeOK
  <2>4. leapt' \subseteq Channels
    BY <1>0, <1>8 DEF IngestCursor, TypeOK, Pass
  <2>. QED  BY <1>0, <1>8, <2>3, <2>4 DEF IngestCursor, TypeOK, server, wires, posts, rows, counts
<1>9. CASE FinishPass(w)
  <2>1. pass[w].fresh \in BOOLEAN
    BY <1>0 DEF Pass
  <2>. QED  BY <1>0, <1>9, <2>1 DEF FinishPass, AfterPass, TypeOK, server, wires, cache, posts, rows, counts, cursors
<1>10. CASE RefusePage(w)
  <2>1. <<>> \in Seq(Event)
    OBVIOUS
  <2>. QED
    BY <1>0, <1>10, <2>1 DEF RefusePage, PassFails, Forsake, Dead, AfterPass, TypeOK, server,
       rows, counts, cursors
<1>. QED
  BY <1>1, <1>2, <1>3, <1>4, <1>5, <1>6, <1>7, <1>8, <1>9, <1>10 DEF PassStep

\* The handlers of consume, the control socket and the life of the daemon.
LEMMA HandlerType ==
  ASSUME TypeOK,
         Consume \/ HandleIngestPost \/ LoseNote \/ \E by \in Writers : WriteReactions(by)
  PROVE  TypeOK'
<1>. /\ events \in Seq(Event)
     /\ events # <<>> => Head(events) \in Event /\ Tail(events) \in Seq(Event)
  BY DEF TypeOK
<1>1. CASE HandlePosted
  <2>. DEFINE e == Head(events)
  <2>1. e.post \in Posts /\ e.ver \in 0..MaxVer /\ e.re \in SUBSET Reactions
    BY <1>1 DEF HandlePosted, Handling, Event
  <2>2. ChannelOf[e.post] \in Channels
    BY <2>1, ServerAssumption
  <2>3. RowsTyped'
    BY <1>1, <2>1, UpsertPostType DEF HandlePosted
  <2>4. rowTotal' \in [Channels -> Nat \cup {NoRow}]
    BY <1>1, <2>2 DEF HandlePosted, BumpChannelOnPost, TypeOK, NoRow
  <2>. QED  BY <1>1, <2>3, <2>4 DEF HandlePosted, Handling, RowsTyped, TypeOK, server, cursors
<1>2. CASE HandlePostEdited
  <2>. DEFINE e == Head(events)
  <2>1. e.post \in Posts /\ e.ver \in 0..MaxVer /\ e.re \in SUBSET Reactions
    BY <1>2 DEF HandlePostEdited, Handling, Event
  <2>2. RowsTyped'
    BY <1>2, <2>1, UpsertPostType DEF HandlePostEdited, Writers, Threads
  <2>. QED  BY <1>2, <2>2 DEF HandlePostEdited, Handling, RowsTyped, TypeOK, server, counts, cursors
<1>3. CASE HandlePostDeleted
  <2>1. RowsTyped'
    BY <1>3 DEF HandlePostDeleted, MarkPostDeleted, RowsTyped, TypeOK
  <2>. QED  BY <1>3, <2>1 DEF HandlePostDeleted, Handling, RowsTyped, TypeOK, server, counts, cursors
<1>4. CASE HandleReaction
  <2>1. Head(events).post \in Posts /\ Head(events).reaction \in Reactions
    BY <1>4 DEF HandleReaction, Handling, Event
  <2>2. RowsTyped'
    <3>1. CASE UpsertReaction(Head(events).post, Head(events).reaction)
      BY <2>1, <3>1 DEF UpsertReaction, RowsTyped, TypeOK
    <3>2. CASE DeleteReaction(Head(events).post, Head(events).reaction)
      BY <2>1, <3>2 DEF DeleteReaction, RowsTyped, TypeOK
    <3>. QED  BY <1>4, <3>1, <3>2 DEF HandleReaction
  <2>. QED  BY <1>4, <2>2 DEF HandleReaction, Handling, RowsTyped, TypeOK, server, counts, cursors
<1>5. CASE HandleChannelsViewed
  <2>1. rowRead' \in [Channels -> Nat \cup {NoRow}]
    BY <1>5 DEF HandleChannelsViewed, MarkChannelViewed, TypeOK
  <2>. QED  BY <1>5, <2>1 DEF HandleChannelsViewed, Handling, TypeOK, server, posts, rows, cursors
<1>6. CASE ConsumeEnd
  <2>1. <<>> \in Seq(Event)
    OBVIOUS
  <2>. QED  BY <1>6, <2>1 DEF ConsumeEnd, TypeOK, server, cache, posts, rows, counts, cursors
<1>7. CASE HandleIngestPost
  <2>1. PICK n \in notes : UpsertPost("ipc", n[1], n[2], n[3]) /\ notes' = notes \ {n}
    BY <1>7 DEF HandleIngestPost
  <2>2. n[1] \in Posts /\ n[2] \in 0..MaxVer /\ n[3] \in SUBSET Reactions
    BY DEF TypeOK
  <2>3. RowsTyped'
    BY <2>1, <2>2, UpsertPostType DEF Writers
  <2>. QED  BY <1>7, <2>1, <2>3 DEF HandleIngestPost, RowsTyped, TypeOK, server, counts, cursors
<1>8. CASE LoseNote
  BY <1>8 DEF LoseNote, TypeOK, server, rows, counts, cursors
<1>9. ASSUME NEW by \in Writers, WriteReactions(by) PROVE TypeOK'
  <2>1. PICK s \in upserts, x \in Upsert :
          /\ upserts' \subseteq upserts \cup {x} /\ x.post = s.post /\ x.re \subseteq s.re
          /\ \E R \in {{}} \cup {rowReact[s.post] \cup {r} : r \in s.re} :
               rowReact' = [rowReact EXCEPT ![s.post] = R]
    BY <1>9, WriteReactionsStep
  <2>2. s.post \in Posts /\ s.re \subseteq Reactions
    BY DEF TypeOK, Upsert
  <2>3. rowReact' \in [Posts -> SUBSET Reactions]
    BY <2>1, <2>2 DEF TypeOK
  <2>4. upserts' \subseteq Upsert
    BY <2>1 DEF TypeOK
  <2>. QED  BY <1>9, <2>3, <2>4 DEF WriteReactions, TypeOK, server, wires, counts, cursors
<1>. QED  BY <1>1, <1>2, <1>3, <1>4, <1>5, <1>6, <1>7, <1>8, <1>9 DEF Consume

LEMMA LifeType ==
  ASSUME TypeOK,
         \/ Start \/ Connect \/ TickReconcile \/ Crash \/ Drop \/ FailEvent
         \/ \E w \in Threads : FailPass(w)
         \/ \E c \in Channels : HandleLoadHistory(c)
  PROVE  TypeOK'
<1>. pass \in [Threads -> Pass] /\ conn \in BOOLEAN
  BY DEF TypeOK
<1>a. <<>> \in Seq(Event)
  OBVIOUS
<1>b. Dead => /\ main' = "down" /\ pass' \in [Threads -> Pass] /\ conn' \in BOOLEAN
              /\ events' \in Seq(Event) /\ caughtUp' \in BOOLEAN /\ upserts' \subseteq Upsert
  BY <1>a, IdleType DEF Dead
<1>c. Fault => faults' \in Nat
  BY DEF Fault, TypeOK
<1>1. CASE Start
  <2>1. pass' \in [Threads -> Pass]
    BY <1>1, BegunType DEF Start, Becomes, Threads
  <2>. QED  BY <1>1, <2>1 DEF Start, TypeOK, server, wires, cache, posts, rows, counts, cursors
<1>2. CASE Connect
  <2>1. pass' \in [Threads -> Pass]
    BY <1>2, BegunType DEF Connect, Becomes, Threads
  <2>. QED  BY <1>2, <1>a, <2>1 DEF Connect, TypeOK, server, cache, posts, rows, counts, cursors
<1>3. CASE TickReconcile
  <2>1. pass' \in [Threads -> Pass]
    BY <1>3, BegunType DEF TickReconcile, Becomes, Threads
  <2>. QED  BY <1>3, <2>1 DEF TickReconcile, TypeOK, server, wires, cache, posts, rows, counts, cursors
<1>4. CASE Crash
  BY <1>4, <1>b, <1>c DEF Crash, TypeOK, server, rows, counts, cursors
<1>5. CASE Drop
  <2>1. pass' \in [Threads -> Pass] /\ caughtUp' \in BOOLEAN
    BY <1>5, OutdatedType DEF Drop
  <2>2. ASSUME NEW k \in 0..Len(events) PROVE SubSeq(events, 1, k) \in Seq(Event)
    BY DEF TypeOK
  <2>. QED  BY <1>5, <1>c, <2>1, <2>2 DEF Drop, TypeOK, server, cache, posts, rows, counts, cursors
<1>8. CASE FailEvent
  <2>1. pass' \in [Threads -> Pass] /\ caughtUp' \in BOOLEAN
    BY <1>8, OutdatedType DEF FailEvent
  <2>2. upserts' \subseteq Upsert
    BY <1>8 DEF FailEvent, Forsake, TypeOK
  <2>3. events' \in Seq(Event)
    <3>1. events # <<>> => Tail(events) \in Seq(Event)
      BY DEF TypeOK
    <3>2. events \in Seq(Event)
      BY DEF TypeOK
    <3>. QED  BY <1>8, <3>1, <3>2 DEF FailEvent
  <2>. QED  BY <1>8, <1>c, <2>1, <2>2, <2>3 DEF FailEvent, TypeOK, server, rows, counts, cursors
<1>6. ASSUME NEW w \in Threads, FailPass(w) PROVE TypeOK'
  <2>1. Becomes(w, Idle) => pass' \in [Threads -> Pass]
    BY IdleType DEF Becomes
  <2>2. CASE w = "main" /\ main = "backfill"
    BY <1>6, <1>b, <1>c, <2>2 DEF FailPass, PassFails, TypeOK, server, rows, counts, cursors
  <2>3. CASE ~(w = "main" /\ main = "backfill")
    BY <1>6, <1>c, <2>1, <2>3 DEF FailPass, PassFails, Forsake, AfterPass, TypeOK, server, rows,
       counts, cursors
  <2>. QED  BY <2>2, <2>3
<1>7. ASSUME NEW c \in Channels, HandleLoadHistory(c) PROVE TypeOK'
  <2>1. PICK first \in 0..MaxPost :
          Becomes("hist", [Idle EXCEPT !.at = "page", !.kind = "history", !.ch = c,
                             !.target = HistoryLimit, !.before = first])
    BY <1>7 DEF HandleLoadHistory
  <2>2. [Idle EXCEPT !.at = "page", !.kind = "history", !.ch = c,
           !.target = HistoryLimit, !.before = first] \in Pass
    <3>1. first \in Nat /\ HistoryLimit \in Nat
      BY SizesAssumption, ServerAssumption
    <3>. QED  BY <3>1, IdleType DEF Pass
  <2>3. pass' \in [Threads -> Pass]
    BY <2>1, <2>2 DEF Becomes, Threads
  <2>. QED
    BY <1>7, <2>3 DEF HandleLoadHistory, TypeOK, server, wires, cache, posts, rows, counts, cursors
<1>. QED  BY <1>1, <1>2, <1>3, <1>4, <1>5, <1>6, <1>7, <1>8

LEMMA TypeStep == TypeOK /\ [Next]_vars => TypeOK'
<1>. SUFFICES ASSUME TypeOK, [Next]_vars PROVE TypeOK'
  OBVIOUS
<1>1. CASE UNCHANGED vars
  BY <1>1 DEF vars, server, wires, cache, posts, rows, counts, cursors, TypeOK
<1>2. CASE Next
  BY <1>2, ServerTypeStep, PassStepType, HandlerType, LifeType DEF Next
<1>. QED  BY <1>1, <1>2

\* Every variable keeps its type: the typing half of the inductive invariant.
THEOREM TypeCorrect == Spec => []TypeOK
BY InitType, TypeStep, PTL DEF Spec

--------------------------------------------------------------------------
(* What is in flight was said by the server.                                *)

\* Only the server changes what is the server's.
LEMMA ServerFrame ==
  ASSUME [Next]_vars, ~Server PROVE UNCHANGED <<srvVer, srvDel, srvReact, hadReact>>
<1>1. CASE \/ Consume \/ HandleIngestPost \/ LoseNote
           \/ \E by \in Writers : WriteReactions(by)
  BY <1>1 DEF Consume, HandlePosted, HandlePostEdited, HandlePostDeleted, HandleReaction,
     HandleChannelsViewed, Handling, ConsumeEnd, HandleIngestPost, LoseNote, WriteReactions,
     server
<1>2. ASSUME NEW w \in Threads, PassStep(w) \/ FailPass(w)
      PROVE  UNCHANGED <<srvVer, srvDel, srvReact, hadReact>>
  BY <1>2 DEF PassStep, FetchChannels, FetchMembers, UpsertChannel, UpsertMember,
     CheckNewest, FetchPage, RefusePage, IngestPost, IngestCursor, FinishPass, FailPass, server
<1>3. CASE \/ Start \/ Connect \/ TickReconcile \/ Crash \/ Drop \/ FailEvent
           \/ UNCHANGED vars \/ \E c \in Channels : HandleLoadHistory(c)
  BY <1>3 DEF Start, Connect, TickReconcile, Crash, Drop, FailEvent, HandleLoadHistory,
     vars, server
<1>. QED  BY <1>1, <1>2, <1>3 DEF Next

\* The server leaves the daemon and the cache alone; a new membership only
\* tells that what was read is not the whole.
LEMMA ServerKeeps ==
  ASSUME Server
  PROVE  UNCHANGED <<conn, main, cache>> /\ (UNCHANGED pass \/ Outdated)
BY DEF Server, ServerPost, ServerEdit, ServerDelete, ServerReact, ServerView, ServerLeave,
   ServerJoin, wires

\* The server's side only grows.
Grows(p) ==
  /\ srvVer[p] <= srvVer'[p]
  /\ srvDel[p] => srvDel'[p]
  /\ hadReact[p] \subseteq hadReact'[p]

LEMMA ServerGrows ==
  ASSUME TypeOK, [Next]_vars, NEW p \in Posts PROVE Grows(p)
<1>. srvVer \in [Posts -> 0..MaxVer] /\ srvDel \in [Posts -> BOOLEAN]
  BY DEF TypeOK
<1>1. UNCHANGED <<srvVer, srvDel, hadReact>> => Grows(p)
  BY ServerAssumption DEF Grows
<1>2. ASSUME NEW q \in Posts, ServerPost(q) PROVE Grows(p)
  BY <1>2, ServerAssumption DEF ServerPost, Grows
<1>3. ASSUME NEW q \in Posts, ServerEdit(q) PROVE Grows(p)
  BY <1>3, ServerAssumption DEF ServerEdit, Grows
<1>4. ASSUME NEW q \in Posts, ServerDelete(q) PROVE Grows(p)
  <2>1. srvDel[p] => srvDel'[p]
    BY <1>4, Zenon DEF ServerDelete
  <2>. QED  BY <1>4, <2>1, ServerAssumption DEF ServerDelete, Grows
<1>5. ASSUME NEW q \in Posts, NEW r \in Reactions, ServerReact(q, r) PROVE Grows(p)
  <2>1. hadReact[p] \subseteq hadReact'[p]
    BY <1>5 DEF ServerReact, TypeOK
  <2>. QED  BY <1>5, <2>1, ServerAssumption DEF ServerReact, Grows
<1>6. ASSUME NEW c \in Channels, ServerView(c) \/ ServerLeave(c) \/ ServerJoin(c)
      PROVE  Grows(p)
  BY <1>1, <1>6 DEF ServerView, ServerLeave, ServerJoin
<1>7. CASE Server
  BY <1>2, <1>3, <1>4, <1>5, <1>6, <1>7 DEF Server
<1>. QED  BY <1>1, <1>7, ServerFrame

\* A page a thread holds is the one it held, none, or one just fetched.
Holds(v, p) ==
  /\ pass'[v].got[p] \in {0, pass[v].got[p], srvVer[p]}
  /\ pass'[v].re[p] \in {{}, pass[v].re[p], srvReact[p]}

LEMMA HoldsOutdated ==
  ASSUME TypeOK, Outdated, NEW v \in Threads, NEW p \in Posts PROVE Holds(v, p)
<1>1. pass[v] \in Pass /\ pass'[v] = [pass[v] EXCEPT !.fresh = FALSE]
  BY DEF TypeOK, Outdated
<1>. QED  BY <1>1 DEF Holds, Pass

LEMMA HoldsBecomes ==
  ASSUME TypeOK, NEW v \in Threads, NEW w \in Threads, NEW p \in Posts, NEW r,
         Becomes(w, r),
         r.got[p] \in {0, pass[w].got[p], srvVer[p]},
         r.re[p] \in {{}, pass[w].re[p], srvReact[p]}
  PROVE  Holds(v, p)
BY DEF Holds, Becomes, TypeOK

LEMMA HoldsPass ==
  ASSUME TypeOK, NEW v \in Threads, NEW w \in Threads, NEW p \in Posts,
         PassStep(w) \/ FailPass(w)
  PROVE  Holds(v, p)
<1>. pass \in [Threads -> Pass] /\ pass[v] \in Pass /\ pass[w] \in Pass
  BY DEF TypeOK
<1>0. Idle.got[p] = 0 /\ Idle.re[p] = {}
  BY DEF Idle
<1>1. /\ NextChannel(w).got[p] = 0 /\ AfterPages(w).got[p] = 0
      /\ NextChannel(w).re[p] = {} /\ AfterPages(w).re[p] = {}
  BY <1>0 DEF NextChannel, AfterPages, Pass
<1>2. PassFails(w) => Holds(v, p)
  <2>1. Dead => Holds(v, p)
    BY <1>0 DEF Dead, Holds
  <2>. QED  BY <1>0, <2>1, HoldsBecomes DEF PassFails
<1>3. CASE FetchChannels(w)
  <2>. DEFINE r == [pass[w] EXCEPT !.at = "members", !.todo = joined,
                   !.total = [c \in Channels |-> ServerTotal(c)],
                   !.last = [c \in Channels |-> LastPostAt(c)]]
  <2>1. r.got = pass[w].got /\ r.re = pass[w].re
    BY DEF Pass
  <2>. QED  BY <1>3, <2>1, HoldsBecomes DEF FetchChannels
<1>4. CASE FetchMembers(w)
  <2>. DEFINE r == [pass[w] EXCEPT !.at = "pick",
                   !.read = [c \in Channels |-> IF c \in joined THEN srvRead[c] ELSE NoRow]]
  <2>1. r.got = pass[w].got /\ r.re = pass[w].re
    BY DEF Pass
  <2>. QED  BY <1>4, <2>1, HoldsBecomes DEF FetchMembers
<1>5. CASE UpsertChannel(w)
  <2>1. PICK c \in pass[w].todo :
          Becomes(w, [pass[w] EXCEPT !.at = "member", !.ch = c, !.todo = @ \ {c}])
    BY <1>5 DEF UpsertChannel
  <2>. DEFINE r == [pass[w] EXCEPT !.at = "member", !.ch = c, !.todo = @ \ {c}]
  <2>2. r.got = pass[w].got /\ r.re = pass[w].re
    BY DEF Pass
  <2>. QED  BY <2>1, <2>2, HoldsBecomes
<1>6. CASE UpsertMember(w)
  BY <1>6 DEF UpsertMember, Becomes, Pass, Holds
<1>7. CASE CheckNewest(w)
  <2>. DEFINE r == [pass[w] EXCEPT !.at = "page", !.last[pass[w].ch] = 0]
  <2>1. r.got = pass[w].got /\ r.re = pass[w].re
    BY DEF Pass
  <2>2. Becomes(w, r) \/ Becomes(w, NextChannel(w))
    BY <1>7 DEF CheckNewest
  <2>. QED  BY <1>1, <2>1, <2>2, HoldsBecomes
<1>8. CASE FetchPage(w)
  <2>. DEFINE g == [q \in Posts |-> IF q \in Fetched(w) THEN srvVer[q] ELSE 0]
              e == [q \in Posts |-> IF q \in Fetched(w) THEN srvReact[q] ELSE {}]
              r == [pass[w] EXCEPT !.at = "write", !.left = Fetched(w),
                      !.full = (Cardinality(Listed(w)) = PageSize), !.stray = Strays(w),
                      !.got = g, !.re = e]
  <2>1. g[p] \in {0, srvVer[p]} /\ e[p] \in {{}, srvReact[p]}
    OBVIOUS
  <2>. HIDE DEF g, e
  <2>2. r.got = g /\ r.re = e
    BY DEF Pass
  <2>3. Becomes(w, r) \/ Becomes(w, AfterPages(w))
    BY <1>8 DEF FetchPage, g, e
  <2>. QED  BY <1>1, <2>1, <2>2, <2>3, HoldsBecomes
<1>9. CASE IngestPost(w)
  <2>1. PICK q \in pass[w].left :
          Becomes(w, [pass[w] EXCEPT !.left = @ \ {q}, !.re[q] = {}])
    BY <1>9 DEF IngestPost
  <2>. DEFINE r == [pass[w] EXCEPT !.left = @ \ {q}, !.re[q] = {}]
  <2>2. r.got = pass[w].got /\ r.re[p] \in {{}, pass[w].re[p]}
    BY DEF Pass
  <2>. QED  BY <2>1, <2>2, HoldsBecomes
<1>10. CASE IngestCursor(w)
  <2>. DEFINE r == [pass[w] EXCEPT !.at = "page", !.pageNo = @ + 1, !.got = Idle.got,
                      !.re = Idle.re, !.full = FALSE, !.stray = FALSE]
  <2>1. r.got = Idle.got /\ r.re = Idle.re
    BY DEF Pass
  <2>2. Becomes(w, r) \/ Becomes(w, AfterPages(w))
    BY <1>10 DEF IngestCursor
  <2>. QED  BY <1>0, <1>1, <2>1, <2>2, HoldsBecomes
<1>11. CASE FinishPass(w)
  BY <1>0, <1>11, HoldsBecomes DEF FinishPass
<1>12. CASE RefusePage(w) \/ FailPass(w)
  BY <1>2, <1>12 DEF RefusePage, FailPass
<1>. QED
  BY <1>3, <1>4, <1>5, <1>6, <1>7, <1>8, <1>9, <1>10, <1>11, <1>12 DEF PassStep

LEMMA GotStep ==
  ASSUME TypeOK, [Next]_vars, NEW v \in Threads, NEW p \in Posts
  PROVE  Holds(v, p)
<1>0. Idle.got[p] = 0 /\ Idle.re[p] = {}
  BY DEF Idle
<1>1. UNCHANGED pass => Holds(v, p)
  BY DEF Holds
<1>2. CASE Server \/ Drop \/ FailEvent
  BY <1>1, <1>2, ServerKeeps, HoldsOutdated DEF Drop, FailEvent
<1>3. CASE Start \/ Connect \/ TickReconcile
  <2>1. \A k, f : Begun(k, f).got = Idle.got /\ Begun(k, f).re = Idle.re
    BY IdleType DEF Begun, Pass
  <2>2. ASSUME NEW w \in Threads, NEW k, NEW f, Becomes(w, Begun(k, f)) PROVE Holds(v, p)
    BY <1>0, <2>1, <2>2, HoldsBecomes
  <2>. QED  BY <1>3, <2>2 DEF Start, Connect, TickReconcile, Threads
<1>4. CASE Crash
  BY <1>0, <1>4 DEF Crash, Dead, Holds
<1>5. ASSUME NEW c \in Channels, HandleLoadHistory(c) PROVE Holds(v, p)
  <2>1. PICK first \in 0..MaxPost :
          Becomes("hist", [Idle EXCEPT !.at = "page", !.kind = "history", !.ch = c,
                             !.target = HistoryLimit, !.before = first])
    BY <1>5 DEF HandleLoadHistory
  <2>. DEFINE r == [Idle EXCEPT !.at = "page", !.kind = "history", !.ch = c,
                      !.target = HistoryLimit, !.before = first]
  <2>2. r.got = Idle.got /\ r.re = Idle.re /\ "hist" \in Threads
    BY IdleType DEF Pass, Threads
  <2>. QED  BY <1>0, <2>1, <2>2, HoldsBecomes
<1>6. CASE \/ Consume \/ HandleIngestPost \/ LoseNote \/ UNCHANGED vars
           \/ \E by \in Writers : WriteReactions(by)
  BY <1>1, <1>6 DEF Consume, HandlePosted, HandlePostEdited, HandlePostDeleted,
     HandleReaction, HandleChannelsViewed, Handling, ConsumeEnd, HandleIngestPost,
     LoseNote, WriteReactions, vars
<1>7. ASSUME NEW w \in Threads, PassStep(w) \/ FailPass(w) PROVE Holds(v, p)
  BY <1>7, HoldsPass
<1>. QED  BY <1>2, <1>3, <1>4, <1>5, <1>6, <1>7, Zenon DEF Next

LEMMA GotReal ==
  ASSUME TypeOK, InFlightReal, ReactionsReal, [Next]_vars, NEW w \in Threads, NEW p \in Posts
  PROVE  pass'[w].got[p] <= srvVer'[p] /\ pass'[w].re[p] \subseteq hadReact'[p]
<1>0. TypeOK'
  BY TypeStep
<1>1. srvVer[p] \in Nat /\ srvVer'[p] \in Nat /\ pass[w].got[p] \in Nat
  <2>1. pass[w] \in Pass
    BY DEF TypeOK
  <2>. QED  BY <1>0, <2>1 DEF TypeOK, Pass
<1>2. /\ pass[w].got[p] <= srvVer[p] /\ srvVer[p] <= srvVer'[p]
      /\ pass[w].re[p] \subseteq hadReact[p] /\ srvReact[p] \subseteq hadReact[p]
      /\ hadReact[p] \subseteq hadReact'[p]
  BY ServerGrows DEF InFlightReal, ReactionsReal, Grows
<1>3. Holds(w, p)
  BY GotStep
<1>4. pass'[w].got[p] <= srvVer'[p]
  BY <1>1, <1>2, <1>3 DEF Holds
<1>5. pass'[w].re[p] \subseteq hadReact'[p]
  BY <1>2, <1>3 DEF Holds
<1>. QED  BY <1>4, <1>5

\* An event says what was so when it was sent, and still is.
OfPost(e) == e.type \in {"posted", "edited", "deleted"}
OfReaction(e) == e.type \in {"reacted", "unreacted"}
Said(e) ==
  /\ OfPost(e) => /\ e.ver <= srvVer[e.post]
                  /\ e.type = "deleted" => srvDel[e.post]
                  /\ e.re \subseteq hadReact[e.post]
  /\ OfReaction(e) => e.reaction \in hadReact[e.post]
SaidNext(e) ==
  /\ OfPost(e) => /\ e.ver <= srvVer'[e.post]
                  /\ e.type = "deleted" => srvDel'[e.post]
                  /\ e.re \subseteq hadReact'[e.post]
  /\ OfReaction(e) => e.reaction \in hadReact'[e.post]

LEMMA SaidStays ==
  ASSUME TypeOK, [Next]_vars, NEW e \in Event, Said(e) PROVE SaidNext(e)
<1>1. ASSUME OfPost(e)
      PROVE  /\ e.ver <= srvVer'[e.post]
             /\ e.type = "deleted" => srvDel'[e.post]
             /\ e.re \subseteq hadReact'[e.post]
  <2>1. e.post \in Posts /\ e.ver \in Nat
    BY <1>1 DEF OfPost, Event
  <2>2. TypeOK'
    BY TypeStep
  <2>3. srvVer[e.post] \in Nat /\ srvVer'[e.post] \in Nat
    BY <2>1, <2>2 DEF TypeOK
  <2>4. Grows(e.post)
    BY <2>1, ServerGrows
  <2>. QED  BY <1>1, <2>1, <2>3, <2>4 DEF Said, Grows
<1>2. ASSUME OfReaction(e) PROVE e.reaction \in hadReact'[e.post]
  <2>1. e.post \in Posts
    BY <1>2 DEF OfReaction, Event
  <2>2. Grows(e.post)
    BY <2>1, ServerGrows
  <2>. QED  BY <1>2, <2>2 DEF Said, Grows
<1>. QED  BY <1>1, <1>2 DEF SaidNext

\* The server sends what is so.
LEMMA SendSaid ==
  ASSUME TypeOK, ReactionsReal, Server
  PROVE  events' = events \/ \E e : events' = Append(events, e) /\ SaidNext(e)
<1>. DEFINE Sent == events' = events \/ \E e : events' = Append(events, e) /\ SaidNext(e)
<1>s. ASSUME NEW c, NEW e, Send(c, e), SaidNext(e) PROVE Sent
  BY <1>s DEF Send
<1>. HIDE DEF Sent
<1>0. \A p \in Posts : srvReact[p] \subseteq hadReact[p]
  BY DEF ReactionsReal
<1>1. ASSUME NEW p \in Posts, ServerPost(p) PROVE Sent
  <2>1. srvVer'[p] = 1 /\ hadReact' = hadReact
    BY <1>1 DEF ServerPost, TypeOK
  <2>2. SaidNext(Message("posted", p, 1))
    BY <1>0, <2>1 DEF SaidNext, Message, OfPost, OfReaction
  <2>. QED  BY <1>1, <1>s, <2>2 DEF ServerPost
<1>2. ASSUME NEW p \in Posts, ServerEdit(p) PROVE Sent
  <2>1. srvVer'[p] = srvVer[p] + 1 /\ hadReact' = hadReact /\ srvVer[p] \in Nat
    BY <1>2 DEF ServerEdit, TypeOK
  <2>2. SaidNext(Message("edited", p, srvVer[p] + 1))
    BY <1>0, <2>1 DEF SaidNext, Message, OfPost, OfReaction
  <2>. QED  BY <1>2, <1>s, <2>2 DEF ServerEdit
<1>3. ASSUME NEW p \in Posts, ServerDelete(p) PROVE Sent
  <2>1. srvVer' = srvVer /\ hadReact' = hadReact /\ srvVer[p] \in Nat
    BY <1>3 DEF ServerDelete, TypeOK
  <2>2. srvDel'[p]
    BY <1>3, Zenon DEF ServerDelete, TypeOK
  <2>3. SaidNext(Message("deleted", p, srvVer[p]))
    BY <1>0, <2>1, <2>2 DEF SaidNext, Message, OfPost, OfReaction
  <2>. QED  BY <1>3, <1>s, <2>3 DEF ServerDelete
<1>4. ASSUME NEW p \in Posts, NEW r \in Reactions, ServerReact(p, r) PROVE Sent
  <2>. DEFINE e == [type |-> IF r \in srvReact[p] THEN "unreacted" ELSE "reacted",
                    post |-> p, reaction |-> r]
  <2>1. r \in hadReact'[p]
    BY <1>4 DEF ServerReact, TypeOK
  <2>2. SaidNext(e)
    BY <2>1 DEF SaidNext, OfPost, OfReaction
  <2>. QED  BY <1>4, <1>s, <2>2 DEF ServerReact
<1>5. ASSUME NEW c \in Channels, ServerView(c) PROVE Sent
  <2>. DEFINE e == [type |-> "viewed", ch |-> c]
  <2>1. SaidNext(e)
    BY DEF SaidNext, OfPost, OfReaction
  <2>. QED  BY <1>5, <1>s, <2>1 DEF ServerView
<1>6. ASSUME NEW c \in Channels, ServerLeave(c) \/ ServerJoin(c) PROVE events' = events
  BY <1>6 DEF ServerLeave, ServerJoin, wires
<1>. QED  BY <1>1, <1>2, <1>3, <1>4, <1>5, <1>6 DEF Server, Sent

\* Events are sent by the server, taken off the front, or lost.
LEMMA EventStep ==
  ASSUME TypeOK, ReactionsReal, [Next]_vars, NEW i \in 1..Len(events')
  PROVE  SaidNext(events'[i]) \/ \E j \in 1..Len(events) : events'[i] = events[j]
<1>0. TypeOK'
  BY TypeStep
<1>. events \in Seq(Event) /\ events' \in Seq(Event)
  BY <1>0 DEF TypeOK
<1>1. CASE events' = events \/ events' = <<>>
  BY <1>1
<1>2. CASE events # <<>> /\ events' = Tail(events)
  BY <1>2
<1>3. CASE \E k \in 0..Len(events) : events' = SubSeq(events, 1, k)
  BY <1>3
<1>4. ASSUME NEW e, events' = Append(events, e), SaidNext(e)
      PROVE  SaidNext(events'[i]) \/ \E j \in 1..Len(events) : events'[i] = events[j]
  <2>1. Len(events') = Len(events) + 1 /\ Len(events) \in Nat
    BY <1>4
  <2>2. CASE i = Len(events) + 1
    BY <1>4, <2>2
  <2>3. CASE i # Len(events) + 1
    <3>1. i \in 1..Len(events)
      BY <2>1, <2>3
    <3>. QED  BY <1>4, <3>1
  <2>. QED  BY <2>2, <2>3
<1>7. CASE Server
  BY <1>1, <1>4, <1>7, SendSaid
<1>8. CASE Consume
  BY <1>1, <1>2, <1>8 DEF Consume, HandlePosted, HandlePostEdited, HandlePostDeleted,
     HandleReaction, HandleChannelsViewed, Handling, ConsumeEnd
<1>9. CASE Drop \/ FailEvent
  BY <1>2, <1>3, <1>9 DEF Drop, FailEvent
<1>10. ASSUME NEW w \in Threads, PassStep(w) \/ FailPass(w)
       PROVE  events' = events \/ events' = <<>>
  BY <1>10 DEF PassStep, FetchChannels, FetchMembers, UpsertChannel, UpsertMember,
     CheckNewest, FetchPage, IngestPost, IngestCursor, FinishPass, RefusePage, FailPass,
     PassFails, Dead, wires
<1>11. CASE \/ Start \/ Connect \/ TickReconcile \/ Crash \/ HandleIngestPost \/ LoseNote
            \/ \E by \in Writers : WriteReactions(by)
            \/ \E c \in Channels : HandleLoadHistory(c)
  BY <1>1, <1>11 DEF Start, Connect, TickReconcile, Crash, Dead, HandleIngestPost,
     LoseNote, WriteReactions, HandleLoadHistory, wires
<1>12. CASE UNCHANGED vars
  BY <1>1, <1>12 DEF vars, wires
<1>13. CASE Next
  BY <1>1, <1>7, <1>8, <1>9, <1>10, <1>11, <1>13 DEF Next
<1>. QED  BY <1>12, <1>13

LEMMA EventsReal ==
  ASSUME TypeOK, InFlightReal, ReactionsReal, [Next]_vars
  PROVE  \A i \in 1..Len(events') : SaidNext(events'[i])
<1>. SUFFICES ASSUME NEW i \in 1..Len(events') PROVE SaidNext(events'[i])
  OBVIOUS
<1>1. ASSUME NEW j \in 1..Len(events) PROVE SaidNext(events[j])
  <2>1. events[j] \in Event
    BY DEF TypeOK
  <2>2. Said(events[j])
    BY DEF InFlightReal, ReactionsReal, Said, OfPost, OfReaction
  <2>. QED  BY <2>1, <2>2, SaidStays
<1>. QED  BY <1>1, EventStep

\* What an mm command has yet to tell the daemon is the API's answer.
LEMMA NotesReal ==
  ASSUME TypeOK, InFlightReal, ReactionsReal, [Next]_vars
  PROVE  \A n \in notes' : n[2] <= srvVer'[n[1]] /\ n[3] \subseteq hadReact'[n[1]]
<1>. DEFINE Real(n) == n[2] <= srvVer'[n[1]] /\ n[3] \subseteq hadReact'[n[1]]
              AllReal == \A n \in notes' : Real(n)
<1>0. TypeOK'
  BY TypeStep
<1>1. ASSUME NEW n \in notes PROVE Real(n)
  <2>1. n[1] \in Posts /\ n[2] \in Nat
    BY DEF TypeOK
  <2>2. srvVer[n[1]] \in Nat /\ srvVer'[n[1]] \in Nat
    BY <1>0, <2>1 DEF TypeOK
  <2>3. Grows(n[1])
    BY <2>1, ServerGrows
  <2>. QED  BY <2>1, <2>2, <2>3 DEF Grows, InFlightReal, ReactionsReal
<1>2. notes' \subseteq notes => AllReal
  BY <1>1
<1>3. ASSUME NEW p \in Posts, NEW v \in Nat, v <= srvVer'[p], hadReact' = hadReact,
             Notify(p, v)
      PROVE  AllReal
  <2>1. notes' \subseteq notes \cup {<<p, v, srvReact[p]>>}
    BY <1>3 DEF Notify
  <2>2. Real(<<p, v, srvReact[p]>>)
    BY <1>3 DEF ReactionsReal
  <2>. QED  BY <1>1, <2>1, <2>2
<1>. SUFFICES AllReal
  OBVIOUS
<1>. HIDE DEF AllReal
<1>4. ASSUME NEW p \in Posts, ServerPost(p) PROVE AllReal
  <2>1. srvVer'[p] = 1 /\ hadReact' = hadReact /\ Notify(p, 1)
    BY <1>4 DEF ServerPost, TypeOK
  <2>. QED  BY <1>3, <2>1
<1>5. ASSUME NEW p \in Posts, ServerEdit(p) PROVE AllReal
  <2>1. /\ srvVer'[p] = srvVer[p] + 1 /\ srvVer[p] \in Nat
        /\ hadReact' = hadReact /\ Notify(p, srvVer[p] + 1)
    BY <1>5 DEF ServerEdit, TypeOK
  <2>. QED  BY <1>3, <2>1
<1>6. CASE Server
  <2>1. ASSUME NEW p \in Posts, ServerDelete(p) \/ \E r \in Reactions : ServerReact(p, r)
        PROVE  notes' \subseteq notes
    BY <2>1 DEF ServerDelete, ServerReact
  <2>2. ASSUME NEW c \in Channels, ServerView(c) \/ ServerLeave(c) \/ ServerJoin(c)
        PROVE  notes' \subseteq notes
    BY <2>2 DEF ServerView, ServerLeave, ServerJoin, wires
  <2>. QED  BY <1>2, <1>4, <1>5, <1>6, <2>1, <2>2 DEF Server
<1>7. CASE \/ Consume \/ HandleIngestPost \/ LoseNote
           \/ \E by \in Writers : WriteReactions(by)
  BY <1>2, <1>7 DEF Consume, HandlePosted, HandlePostEdited, HandlePostDeleted,
     HandleReaction, HandleChannelsViewed, Handling, ConsumeEnd, HandleIngestPost, LoseNote,
     WriteReactions, wires
<1>8. ASSUME NEW w \in Threads, PassStep(w) \/ FailPass(w) PROVE notes' \subseteq notes
  BY <1>8 DEF PassStep, FetchChannels, FetchMembers, UpsertChannel, UpsertMember,
     CheckNewest, FetchPage, RefusePage, IngestPost, IngestCursor, FinishPass, FailPass, wires
<1>9. CASE \/ Start \/ Connect \/ TickReconcile \/ Crash \/ Drop \/ FailEvent
           \/ UNCHANGED vars \/ \E c \in Channels : HandleLoadHistory(c)
  BY <1>2, <1>9 DEF Start, Connect, TickReconcile, Crash, Drop, FailEvent,
     HandleLoadHistory, vars, wires
<1>. QED  BY <1>2, <1>6, <1>7, <1>8, <1>9 DEF Next

--------------------------------------------------------------------------
(* The rows of the posts and reactions tables.                              *)

\* A step leaves the rows alone, or writes those of one post with something the
\* server has said, while the server does nothing.
SetReactions(p, R) == rowReact' = [rowReact EXCEPT ![p] = R]

Heard ==
  \/ UNCHANGED rows
  \/ /\ UNCHANGED <<srvVer, srvDel, hadReact>>
     /\ \E p \in Posts :
          \/ \E v \in 1..srvVer[p], R \in SUBSET hadReact[p] :
               UpsertRow(p, v) /\ SetReactions(p, R)
          \/ srvDel[p] /\ MarkPostDeleted(p)
          \/ \E R \in SUBSET hadReact[p] : SetReactions(p, R) /\ UNCHANGED <<rowVer, rowDel>>

LEMMA UpsertHeard ==
  ASSUME TypeOK, ReactionsReal, UNCHANGED <<srvVer, srvDel, hadReact>>,
         NEW p \in Posts, NEW v \in 1..srvVer[p], NEW R \in SUBSET hadReact[p],
         UpsertPostTx(p, v, R) \/ \E by : UpsertPost(by, p, v, R)
  PROVE  Heard
<1>. DEFINE S == IF UNCHANGED rowReact THEN rowReact[p] ELSE R
<1>1. SetReactions(p, S) /\ UpsertRow(p, v)
  BY DEF UpsertPostTx, UpsertPost, SetReactions, TypeOK
<1>2. S \in SUBSET hadReact[p]
  BY DEF ReactionsReal
<1>. QED  BY <1>1, <1>2 DEF Heard

LEMMA ReactionsHeard ==
  ASSUME TypeOK, ReactionsReal, NEW by \in Writers, WriteReactions(by)
  PROVE  Heard
<1>1. PICK s \in upserts : \E R \in {{}} \cup {rowReact[s.post] \cup {r} : r \in s.re} :
             SetReactions(s.post, R)
  BY WriteReactionsStep DEF SetReactions
<1>2. s.post \in Posts /\ s.re \subseteq hadReact[s.post]
  BY DEF TypeOK, Upsert, ReactionsReal
<1>3. \E R \in SUBSET hadReact[s.post] : SetReactions(s.post, R)
  BY <1>1, <1>2 DEF ReactionsReal
<1>4. UNCHANGED <<srvVer, srvDel, hadReact, rowVer, rowDel>>
  BY DEF WriteReactions, server
<1>. QED  BY <1>2, <1>3, <1>4 DEF Heard

LEMMA RowStep ==
  ASSUME TypeOK, InFlightReal, ReactionsReal, PageIngested, [Next]_vars
  PROVE  Heard
<1>1. ASSUME NEW w \in Threads, IngestPost(w) PROVE Heard
  <2>1. PICK p \in pass[w].left : UpsertPost(w, p, pass[w].got[p], pass[w].re[p])
    BY <1>1 DEF IngestPost
  <2>2. p \in Posts /\ pass[w].got[p] > 0 /\ pass[w].got[p] \in Nat
    BY <1>1 DEF TypeOK, PageIngested, Page, Pass, IngestPost
  <2>3. pass[w].got[p] \in 1..srvVer[p]
    BY <2>2 DEF InFlightReal, TypeOK
  <2>4. pass[w].re[p] \in SUBSET hadReact[p]
    BY <2>2 DEF ReactionsReal
  <2>5. UNCHANGED <<srvVer, srvDel, hadReact>>
    BY <1>1 DEF IngestPost, server
  <2>. QED  BY <2>1, <2>2, <2>3, <2>4, <2>5, UpsertHeard
<1>2. CASE HandlePosted \/ HandlePostEdited \/ HandlePostDeleted
  <2>. DEFINE e == Head(events)
  <2>1. events # <<>> /\ e \in Event /\ e = events[1] /\ 1 \in 1..Len(events)
    BY <1>2 DEF HandlePosted, HandlePostEdited, HandlePostDeleted, Handling, TypeOK
  <2>2. e.type \in {"posted", "edited", "deleted"}
    BY <1>2 DEF HandlePosted, HandlePostEdited, HandlePostDeleted, Handling
  <2>3. e.post \in Posts /\ e.ver \in Nat /\ e.ver > 0
    BY <2>1, <2>2 DEF Event
  <2>4. e.ver <= srvVer[e.post] /\ (e.type = "deleted" => srvDel[e.post])
    BY <2>1, <2>2 DEF InFlightReal
  <2>5. e.re \in SUBSET hadReact[e.post]
    BY <2>1, <2>2 DEF ReactionsReal
  <2>6. e.ver \in 1..srvVer[e.post]
    BY <2>3, <2>4 DEF TypeOK
  <2>7. CASE HandlePosted \/ HandlePostEdited
    BY <2>3, <2>5, <2>6, <2>7, UpsertHeard DEF HandlePosted, HandlePostEdited, Handling, server
  <2>8. CASE HandlePostDeleted
    BY <2>3, <2>4, <2>8 DEF HandlePostDeleted, Handling, server, Heard
  <2>. QED  BY <1>2, <2>7, <2>8
<1>3. CASE HandleReaction
  <2>. DEFINE e == Head(events)
  <2>1. events # <<>> /\ e \in Event /\ e = events[1] /\ 1 \in 1..Len(events)
    BY <1>3 DEF HandleReaction, Handling, TypeOK
  <2>2. e.type \in {"reacted", "unreacted"}
    BY <1>3 DEF HandleReaction, Handling
  <2>3. e.post \in Posts /\ e.reaction \in hadReact[e.post]
    BY <2>1, <2>2 DEF Event, ReactionsReal
  <2>. DEFINE R == IF UpsertReaction(e.post, e.reaction)
                   THEN rowReact[e.post] \cup {e.reaction} ELSE rowReact[e.post] \ {e.reaction}
  <2>4. R \in SUBSET hadReact[e.post]
    BY <2>3 DEF ReactionsReal
  <2>5. SetReactions(e.post, R) /\ UNCHANGED <<rowVer, rowDel, srvVer, srvDel, hadReact>>
    BY <1>3 DEF HandleReaction, Handling, UpsertReaction, DeleteReaction, SetReactions, server
  <2>. QED  BY <2>3, <2>4, <2>5 DEF Heard
<1>4. CASE HandleIngestPost
  <2>1. PICK n \in notes : UpsertPost("ipc", n[1], n[2], n[3])
    BY <1>4 DEF HandleIngestPost
  <2>2. n[1] \in Posts /\ n[2] \in 1..MaxVer /\ n[2] <= srvVer[n[1]]
    BY DEF TypeOK, InFlightReal
  <2>3. n[2] \in 1..srvVer[n[1]] /\ n[3] \in SUBSET hadReact[n[1]]
    BY <2>2, ServerAssumption DEF TypeOK, ReactionsReal
  <2>4. UNCHANGED <<srvVer, srvDel, hadReact>>
    BY <1>4 DEF HandleIngestPost, server
  <2>. QED  BY <2>1, <2>2, <2>3, <2>4, UpsertHeard
<1>5. ASSUME NEW w \in Threads, PassStep(w) \/ FailPass(w), ~IngestPost(w)
      PROVE  UNCHANGED rows
  BY <1>5 DEF PassStep, FetchChannels, FetchMembers, UpsertChannel, UpsertMember,
     CheckNewest, FetchPage, RefusePage, IngestCursor, FinishPass, FailPass, cache, posts
<1>6. CASE Server
  BY <1>6, ServerKeeps DEF cache, posts, Heard
<1>7. CASE \/ Start \/ Connect \/ ConsumeEnd \/ HandleChannelsViewed \/ TickReconcile
           \/ Crash \/ Drop \/ FailEvent \/ LoseNote \/ UNCHANGED vars
           \/ \E c \in Channels : HandleLoadHistory(c)
  BY <1>7 DEF Start, Connect, ConsumeEnd, HandleChannelsViewed, TickReconcile, Crash, Drop,
     FailEvent, LoseNote, HandleLoadHistory, vars, cache, posts, Heard
<1>8. UNCHANGED rows => Heard
  BY DEF Heard
<1>9. CASE Next
  BY <1>1, <1>2, <1>3, <1>4, <1>5, <1>6, <1>7, <1>8, <1>9, ReactionsHeard, Zenon
  DEF Next, Consume
<1>. QED  BY <1>7, <1>9

\* A row once there is there for good.
LEMMA RowsStay ==
  ASSUME TypeOK, InFlightReal, ReactionsReal, PageIngested, [Next]_vars,
         NEW p \in Posts, rowVer[p] > 0
  PROVE  rowVer'[p] > 0
<1>1. CASE UNCHANGED rowVer
  BY <1>1
<1>2. ASSUME NEW q \in Posts, NEW v \in 1..srvVer[q], UpsertRow(q, v)
      PROVE  rowVer'[p] > 0
  BY <1>2 DEF UpsertRow, TypeOK
<1>. QED  BY <1>1, <1>2, RowStep DEF Heard, rows, MarkPostDeleted

LEMMA RowsReal ==
  ASSUME TypeOK, InFlightReal, ReactionsReal, PageIngested, [Next]_vars, NEW p \in Posts
  PROVE  rowVer'[p] <= srvVer'[p] /\ rowReact'[p] \subseteq hadReact'[p]
<1>0. TypeOK'
  BY TypeStep
<1>1. Grows(p)
  BY ServerGrows
<1>2. rowVer' = rowVer => rowVer'[p] <= srvVer'[p]
  BY <1>0, <1>1 DEF Grows, InFlightReal, TypeOK
<1>3. rowReact' = rowReact => rowReact'[p] \subseteq hadReact'[p]
  BY <1>1 DEF Grows, ReactionsReal
<1>4. ASSUME NEW q \in Posts, NEW v \in 1..srvVer[q], NEW R \in SUBSET hadReact[q],
             UpsertRow(q, v), SetReactions(q, R), UNCHANGED <<srvVer, hadReact>>
      PROVE  rowVer'[p] <= srvVer'[p] /\ rowReact'[p] \subseteq hadReact'[p]
  BY <1>4 DEF UpsertRow, SetReactions, TypeOK, InFlightReal, ReactionsReal
<1>5. ASSUME NEW q \in Posts, MarkPostDeleted(q)
      PROVE  rowVer'[p] <= srvVer'[p] /\ rowReact'[p] \subseteq hadReact'[p]
  BY <1>2, <1>3, <1>5 DEF MarkPostDeleted
<1>6. ASSUME NEW q \in Posts, NEW R \in SUBSET hadReact[q], UNCHANGED <<rowVer, hadReact>>,
             SetReactions(q, R)
      PROVE  rowVer'[p] <= srvVer'[p] /\ rowReact'[p] \subseteq hadReact'[p]
  <2>1. rowReact'[p] \subseteq hadReact'[p]
    BY <1>6 DEF SetReactions, TypeOK, ReactionsReal
  <2>. QED  BY <1>2, <1>6, <2>1
<1>7. CASE UNCHANGED rows
  BY <1>2, <1>3, <1>7 DEF rows
<1>. QED  BY <1>4, <1>5, <1>6, <1>7, RowStep DEF Heard

\* An upsert under way began with what the server said, and only has less to do.
LEMMA UpsertsStep ==
  ASSUME TypeOK, ReactionsReal, [Next]_vars, NEW x \in upserts'
  PROVE  \/ x.re \subseteq hadReact[x.post]
         \/ \E s \in upserts : x.post = s.post /\ x.re \subseteq s.re
<1>. DEFINE Goal == \/ x.re \subseteq hadReact[x.post]
                    \/ \E s \in upserts : x.post = s.post /\ x.re \subseteq s.re
<1>1. upserts' \subseteq upserts => Goal
  OBVIOUS
<1>2. ASSUME NEW by, NEW p, NEW v, NEW R \in SUBSET hadReact[p], UpsertPost(by, p, v, R)
      PROVE  Goal
  BY <1>2 DEF UpsertPost
<1>3. ASSUME NEW by \in Writers, WriteReactions(by) PROVE Goal
  BY <1>3, WriteReactionsStep
<1>4. ASSUME NEW w \in Threads, IngestPost(w) PROVE Goal
  <2>1. PICK p \in pass[w].left : UpsertPost(w, p, pass[w].got[p], pass[w].re[p])
    BY <1>4 DEF IngestPost
  <2>2. p \in Posts
    BY DEF TypeOK, Pass
  <2>. QED  BY <1>2, <2>1, <2>2 DEF ReactionsReal
<1>5. CASE HandlePostEdited
  <2>. DEFINE e == Head(events)
  <2>1. e = events[1] /\ 1 \in 1..Len(events) /\ e.type = "edited"
    BY <1>5 DEF HandlePostEdited, Handling, TypeOK
  <2>2. e.re \in SUBSET hadReact[e.post]
    BY <2>1 DEF ReactionsReal
  <2>. QED  BY <1>2, <1>5, <2>2 DEF HandlePostEdited
<1>6. CASE HandleIngestPost
  BY <1>2, <1>6 DEF HandleIngestPost, ReactionsReal
<1>. HIDE DEF Goal
<1>7. CASE Consume
  BY <1>1, <1>5, <1>7 DEF Consume, HandlePosted, UpsertPostTx, HandlePostDeleted,
     MarkPostDeleted, HandleReaction, UpsertReaction, DeleteReaction, HandleChannelsViewed,
     ConsumeEnd, posts, cache
<1>8. ASSUME NEW w \in Threads, PassStep(w) \/ FailPass(w), ~IngestPost(w)
      PROVE  upserts' \subseteq upserts
  BY <1>8 DEF PassStep, FetchChannels, FetchMembers, UpsertChannel, UpsertMember,
     CheckNewest, FetchPage, RefusePage, IngestCursor, FinishPass, FailPass, PassFails,
     Forsake, Dead, cache, posts
<1>9. CASE Server
  BY <1>1, <1>9, ServerKeeps DEF cache, posts
<1>10. CASE \/ Start \/ Connect \/ TickReconcile \/ Crash \/ Drop \/ FailEvent \/ LoseNote
            \/ UNCHANGED vars \/ \E c \in Channels : HandleLoadHistory(c)
  <2>1. CASE FailEvent
    BY <1>1, <2>1 DEF FailEvent, Forsake
  <2>2. CASE LoseNote
    BY <1>1, <2>2 DEF LoseNote
  <2>3. CASE Crash
    BY <1>1, <2>3 DEF Crash, Dead
  <2>. QED
    BY <1>1, <1>10, <2>1, <2>2, <2>3 DEF Start, Connect, TickReconcile, Drop,
       HandleLoadHistory, vars, cache, posts
<1>11. CASE Next
  <2>1. ASSUME NEW w \in Threads, PassStep(w) \/ FailPass(w) PROVE Goal
    BY <1>1, <1>4, <1>8, <2>1
  <2>2. CASE \/ Start \/ Connect \/ TickReconcile \/ Crash \/ Drop \/ FailEvent \/ LoseNote
             \/ \E c \in Channels : HandleLoadHistory(c)
    BY <1>10, <2>2
  <2>. QED  BY <1>3, <1>6, <1>7, <1>9, <1>11, <2>1, <2>2, Zenon DEF Next, Goal
<1>. QED  BY <1>10, <1>11 DEF Goal

LEMMA UpsertsReal ==
  ASSUME TypeOK, ReactionsReal, [Next]_vars
  PROVE  \A x \in upserts' : x.re \subseteq hadReact'[x.post]
<1>. SUFFICES ASSUME NEW x \in upserts' PROVE x.re \subseteq hadReact'[x.post]
  OBVIOUS
<1>1. x.post \in Posts
  BY TypeStep DEF TypeOK, Upsert
<1>2. hadReact[x.post] \subseteq hadReact'[x.post]
  BY <1>1, ServerGrows DEF Grows
<1>. QED  BY <1>2, UpsertsStep DEF ReactionsReal

\* Only a post that was made is deleted, and a reaction shown was once made.
LEMMA ServerReal ==
  ASSUME TypeOK, InFlightReal, ReactionsReal, [Next]_vars, NEW p \in Posts
  PROVE  (srvDel'[p] => srvVer'[p] > 0) /\ srvReact'[p] \subseteq hadReact'[p]
<1>. DEFINE Goal == (srvDel'[p] => srvVer'[p] > 0) /\ srvReact'[p] \subseteq hadReact'[p]
<1>0. srvVer[p] > 0 => srvVer'[p] > 0
  <2>1. srvVer[p] \in Nat /\ srvVer'[p] \in Nat
    <3>1. TypeOK'
      BY TypeStep
    <3>. QED  BY <3>1 DEF TypeOK
  <2>. QED  BY <2>1, ServerGrows DEF Grows
<1>1. (srvDel[p] => srvVer[p] > 0) /\ srvReact[p] \subseteq hadReact[p]
  BY DEF InFlightReal, ReactionsReal
<1>2. UNCHANGED <<srvDel, srvReact, hadReact>> => Goal
  BY <1>0, <1>1
<1>3. ASSUME NEW q \in Posts, ServerDelete(q) PROVE Goal
  <2>1. UNCHANGED <<srvReact, hadReact>> /\ srvVer[q] > 0
    BY <1>3 DEF ServerDelete
  <2>2. CASE p = q
    BY <1>0, <1>1, <2>1, <2>2
  <2>3. CASE p # q
    <3>1. srvDel'[p] = srvDel[p]
      BY <1>3, <2>3, Zenon DEF ServerDelete, TypeOK
    <3>. QED  BY <1>0, <1>1, <2>1, <3>1
  <2>. QED  BY <2>2, <2>3
<1>4. ASSUME NEW q \in Posts, NEW r \in Reactions, ServerReact(q, r) PROVE Goal
  <2>1. UNCHANGED <<srvVer, srvDel>>
    BY <1>4 DEF ServerReact
  <2>2. srvReact'[p] \subseteq hadReact'[p]
    BY <1>1, <1>4 DEF ServerReact, TypeOK
  <2>. QED  BY <1>1, <2>1, <2>2
<1>5. CASE Server
  BY <1>2, <1>3, <1>4, <1>5 DEF Server, ServerPost, ServerEdit, ServerView, ServerLeave,
     ServerJoin
<1>. QED  BY <1>2, <1>5, ServerFrame

LEMMA InFlightStep ==
  ASSUME TypeOK, InFlightReal, ReactionsReal, PageIngested, [Next]_vars
  PROVE  InFlightReal' /\ ReactionsReal'
<1>1. /\ \A w \in Threads : \A p \in Posts :
            pass'[w].got[p] <= srvVer'[p] /\ pass'[w].re[p] \subseteq hadReact'[p]
      /\ \A p \in Posts : rowVer'[p] <= srvVer'[p] /\ rowReact'[p] \subseteq hadReact'[p]
      /\ \A p \in Posts : (srvDel'[p] => srvVer'[p] > 0) /\ srvReact'[p] \subseteq hadReact'[p]
  BY GotReal, RowsReal, ServerReal
<1>2. InFlightReal'
  BY <1>1, EventsReal, NotesReal DEF InFlightReal, SaidNext, OfPost
<1>3. ReactionsReal'
  BY <1>1, EventsReal, NotesReal, UpsertsReal DEF ReactionsReal, SaidNext, OfPost, OfReaction
<1>. QED  BY <1>2, <1>3

--------------------------------------------------------------------------
(* Pages and cursors.                                                       *)

\* What thread w holds of a page: nothing, or a page of its channel.
PageOK(w) ==
  At(w, "write") =>
    /\ pass[w].left \subseteq Page(w)
    /\ \A p \in Page(w) :
         ChannelOf[p] = pass[w].ch /\ (p \notin pass[w].left => rowVer[p] > 0)

\* A step that leaves the page of w as it was.
LEMMA PageKept ==
  ASSUME TypeOK, InFlightReal, ReactionsReal, PageIngested, [Next]_vars, NEW w \in Threads,
         pass'[w].left = pass[w].left, pass'[w].got = pass[w].got,
         pass[w].at = "write", pass'[w].ch = pass[w].ch
  PROVE  PageOK(w)'
<1>1. Page(w)' = Page(w)
  BY DEF Page
<1>2. \A p \in Page(w) : rowVer[p] > 0 => rowVer'[p] > 0
  BY RowsStay DEF Page
<1>. QED  BY <1>1, <1>2 DEF PageOK, PageIngested, At

\* A thread that goes anywhere but to "write" disturbs no page.
LEMMA Elsewhere ==
  ASSUME TypeOK, NEW v \in Threads, NEW w \in Threads, NEW r,
         Becomes(w, r), r.at # "write", pass'[v].at = "write"
  PROVE  pass'[v] = pass[v]
BY DEF Becomes, TypeOK

LEMMA PageStep ==
  ASSUME TypeOK, InFlightReal, ReactionsReal, PageIngested, [Next]_vars
  PROVE  PageIngested'
<1>. SUFFICES ASSUME NEW v \in Threads, pass'[v].at = "write" PROVE PageOK(v)'
  BY DEF PageIngested, PageOK, At
<1>0. TypeOK' /\ pass \in [Threads -> Pass] /\ pass[v] \in Pass
  BY TypeStep DEF TypeOK
<1>i. /\ Idle \in Pass /\ Idle.at = "idle"
      /\ \A k, f : Begun(k, f).at = "channels"
  BY IdleType DEF Idle, Begun
<1>1. CASE pass'[v] = pass[v]
  BY <1>1, PageKept
<1>2. ASSUME NEW w \in Threads, FetchPage(w), pass'[v] # pass[v] PROVE PageOK(v)'
  <2>. DEFINE g == [p \in Posts |-> IF p \in Fetched(v) THEN srvVer[p] ELSE 0]
              e == [p \in Posts |-> IF p \in Fetched(v) THEN srvReact[p] ELSE {}]
              r == [pass[v] EXCEPT !.at = "write", !.left = Fetched(v),
                      !.full = (Cardinality(Listed(v)) = PageSize), !.stray = Strays(v),
                      !.got = g, !.re = e]
  <2>1. v = w /\ (pass'[v] = AfterPages(v) \/ pass'[v] = r)
    BY <1>0, <1>2 DEF FetchPage, Becomes
  <2>2. AfterPages(v).at # "write"
    BY <1>0, <1>i DEF AfterPages, NextChannel, Pass
  <2>3. pass'[v] = r
    BY <2>1, <2>2
  <2>4. pass'[v].left = Fetched(v) /\ pass'[v].ch = pass[v].ch /\ pass'[v].got = g
    BY <1>0, <2>3 DEF Pass
  <2>5. Listed(v) \subseteq Live(pass[v].ch)
    BY DEF Listed, PageOf
  <2>6. \A p \in Fetched(v) : p \in Posts /\ ChannelOf[p] = pass[v].ch /\ srvVer[p] > 0
    BY <2>5 DEF Fetched, Live, Created
  <2>7. Page(v)' = Fetched(v)
    BY <2>4, <2>6 DEF Page
  <2>. QED  BY <2>4, <2>6, <2>7 DEF PageOK
<1>3. ASSUME NEW w \in Threads, IngestPost(w), pass'[v] # pass[v] PROVE PageOK(v)'
  <2>1. PICK q \in pass[w].left :
          /\ UpsertPost(w, q, pass[w].got[q], pass[w].re[q])
          /\ Becomes(w, [pass[w] EXCEPT !.left = @ \ {q}, !.re[q] = {}])
    BY <1>3 DEF IngestPost
  <2>2. v = w /\ pass[v].at = "write" /\ pass'[v] = [pass[v] EXCEPT !.left = @ \ {q}, !.re[q] = {}]
    BY <1>0, <1>3, <2>1 DEF Becomes, IngestPost, At
  <2>3. /\ pass'[v].left = pass[v].left \ {q} /\ pass'[v].got = pass[v].got
        /\ pass'[v].ch = pass[v].ch
    BY <1>0, <2>2 DEF Pass
  <2>4. /\ pass[v].left \subseteq Page(v)
        /\ \A p \in Page(v) :
             ChannelOf[p] = pass[v].ch /\ (p \notin pass[v].left => rowVer[p] > 0)
    BY <2>2 DEF PageIngested, At
  <2>5. Page(v)' = Page(v) /\ Page(v) \subseteq Posts
    BY <2>3 DEF Page
  <2>6. \A p \in Page(v) : rowVer[p] > 0 => rowVer'[p] > 0
    BY <2>5, RowsStay
  <2>7. q \in Posts /\ rowVer'[q] > 0
    BY <2>1, <2>2, <2>4 DEF UpsertPost, UpsertRow, TypeOK, Page
  <2>. QED  BY <2>3, <2>4, <2>5, <2>6, <2>7 DEF PageOK
<1>4. ASSUME NEW w \in Threads, PassStep(w) \/ FailPass(w), ~FetchPage(w), ~IngestPost(w)
      PROVE  pass'[v] = pass[v]
  <2>n. NextChannel(w).at # "write" /\ AfterPages(w).at # "write"
    BY <1>0, <1>i DEF AfterPages, NextChannel, Pass
  <2>. pass[w] \in Pass
    BY <1>0
  <2>1. CASE FetchChannels(w) \/ FetchMembers(w) \/ UpsertMember(w)
    <3>. \A r : Becomes(w, r) /\ r.at # "write" => pass'[v] = pass[v]
      BY Elsewhere
    <3>1. CASE FetchChannels(w)
      BY <3>1 DEF FetchChannels, Pass
    <3>2. CASE FetchMembers(w)
      BY <3>2 DEF FetchMembers, Pass
    <3>3. CASE UpsertMember(w)
      BY <3>3 DEF UpsertMember, Pass
    <3>. QED  BY <2>1, <3>1, <3>2, <3>3
  <2>2. CASE UpsertChannel(w)
    <3>1. PICK c \in pass[w].todo :
            Becomes(w, [pass[w] EXCEPT !.at = "member", !.ch = c, !.todo = @ \ {c}])
      BY <2>2 DEF UpsertChannel
    <3>. DEFINE r == [pass[w] EXCEPT !.at = "member", !.ch = c, !.todo = @ \ {c}]
    <3>2. r.at = "member"
      BY DEF Pass
    <3>. QED  BY <3>1, <3>2, Elsewhere
  <2>4. CASE CheckNewest(w) \/ IngestCursor(w) \/ FinishPass(w)
    <3>. \A r : Becomes(w, r) /\ r.at # "write" => pass'[v] = pass[v]
      BY Elsewhere
    <3>1. CASE CheckNewest(w)
      BY <3>1, <2>n DEF CheckNewest, Pass
    <3>2. CASE IngestCursor(w)
      BY <3>2, <2>n DEF IngestCursor, Pass
    <3>3. CASE FinishPass(w)
      BY <3>3, <1>i DEF FinishPass
    <3>. QED  BY <2>4, <3>1, <3>2, <3>3
  <2>3. CASE RefusePage(w) \/ FailPass(w)
    <3>1. Dead => pass'[v] = pass[v]
      BY <1>i DEF Dead
    <3>2. Becomes(w, Idle) => pass'[v] = pass[v]
      BY <1>i, Elsewhere
    <3>. QED  BY <2>3, <3>1, <3>2 DEF RefusePage, FailPass, PassFails
  <2>. QED  BY <1>4, <2>1, <2>2, <2>3, <2>4 DEF PassStep
<1>o. Outdated => PageOK(v)'
  <2>. SUFFICES ASSUME Outdated PROVE PageOK(v)'
    OBVIOUS
  <2>1. pass'[v] = [pass[v] EXCEPT !.fresh = FALSE]
    BY DEF Outdated
  <2>. QED  BY <1>0, <2>1, PageKept DEF Pass
<1>5. CASE \/ Server \/ Consume \/ HandleIngestPost \/ LoseNote \/ UNCHANGED vars
           \/ \E by \in Writers : WriteReactions(by)
  <2>1. CASE Server
    BY <1>1, <1>o, <2>1, ServerKeeps
  <2>2. CASE \/ Consume \/ HandleIngestPost \/ LoseNote \/ UNCHANGED vars
             \/ \E by \in Writers : WriteReactions(by)
    BY <1>1, <2>2 DEF Consume, HandlePosted, HandlePostEdited, HandlePostDeleted,
       HandleReaction, HandleChannelsViewed, Handling, ConsumeEnd, HandleIngestPost,
       LoseNote, WriteReactions, vars
  <2>. QED  BY <1>5, <2>1, <2>2
<1>6. CASE Start \/ Connect \/ TickReconcile \/ Crash \/ \E c \in Channels : HandleLoadHistory(c)
  <2>. \A w \in Threads : \A r : Becomes(w, r) /\ r.at # "write" => pass'[v] = pass[v]
    BY Elsewhere
  <2>. "main" \in Threads /\ "tick" \in Threads /\ "hist" \in Threads
    BY DEF Threads
  <2>1. CASE Start \/ Connect \/ TickReconcile
    BY <1>1, <1>i, <2>1 DEF Start, Connect, TickReconcile
  <2>2. CASE Crash
    BY <1>i, <2>2 DEF Crash, Dead
  <2>3. ASSUME NEW c \in Channels, HandleLoadHistory(c) PROVE pass'[v] = pass[v]
    <3>1. PICK b \in 0..MaxPost :
            Becomes("hist", [Idle EXCEPT !.at = "page", !.kind = "history", !.ch = c,
                               !.target = HistoryLimit, !.before = b])
      BY <2>3 DEF HandleLoadHistory
    <3>. DEFINE r == [Idle EXCEPT !.at = "page", !.kind = "history", !.ch = c,
                        !.target = HistoryLimit, !.before = b]
    <3>2. r.at = "page"
      BY <1>i DEF Pass
    <3>. QED  BY <3>1, <3>2
  <2>. QED  BY <1>1, <1>6, <2>1, <2>2, <2>3
<1>7. CASE Drop \/ FailEvent
  BY <1>o, <1>7 DEF Drop, FailEvent
<1>8. CASE Next
  BY <1>1, <1>2, <1>3, <1>4, <1>5, <1>6, <1>7, <1>8, Zenon DEF Next
<1>. QED  BY <1>5, <1>8

\* The cursors move only in IngestCursor.
LEMMA CursorsKept ==
  ASSUME [Next]_vars, \A w \in Threads : ~IngestCursor(w) PROVE UNCHANGED cursors
<1>1. ASSUME NEW w \in Threads, PassStep(w) \/ FailPass(w) PROVE UNCHANGED cursors
  BY <1>1 DEF PassStep, FetchChannels, FetchMembers, UpsertChannel, UpsertMember,
     CheckNewest, FetchPage, RefusePage, IngestPost, FinishPass, FailPass, cache
<1>2. CASE Server
  BY <1>2, ServerKeeps DEF cache
<1>3. CASE Consume
  BY <1>3 DEF Consume, HandlePosted, HandlePostEdited, HandlePostDeleted, HandleReaction,
     HandleChannelsViewed, Handling, ConsumeEnd, cache
<1>4. CASE \/ Start \/ Connect \/ TickReconcile \/ HandleIngestPost \/ LoseNote \/ Crash
           \/ Drop \/ FailEvent \/ UNCHANGED vars \/ \E c \in Channels : HandleLoadHistory(c)
           \/ \E by \in Writers : WriteReactions(by)
  BY <1>4 DEF Start, Connect, TickReconcile, HandleIngestPost, LoseNote, Crash, Drop,
     FailEvent, HandleLoadHistory, WriteReactions, vars, cache
<1>. QED  BY <1>1, <1>2, <1>3, <1>4 DEF Next

\* The cursor of channel c names two rows of the cache.
Backed(c) ==
  \/ oldest[c] = 0 /\ newest[c] = 0
  \/ /\ 0 < oldest[c] /\ oldest[c] <= newest[c]
     /\ ChannelOf[oldest[c]] = c /\ rowVer[oldest[c]] > 0
     /\ ChannelOf[newest[c]] = c /\ rowVer[newest[c]] > 0

LEMMA CursorStep ==
  ASSUME TypeOK, InFlightReal, ReactionsReal, PageIngested, CursorBacked, [Next]_vars
  PROVE  CursorBacked'
<1>. SUFFICES ASSUME NEW c \in Channels PROVE Backed(c)'
  BY DEF CursorBacked, Backed
<1>0. /\ oldest \in [Channels -> 0..MaxPost] /\ newest \in [Channels -> 0..MaxPost]
      /\ pass \in [Threads -> Pass] /\ MaxPost \in Nat
  BY ServerAssumption DEF TypeOK
<1>1. \/ oldest[c] = 0 /\ newest[c] = 0
      \/ /\ oldest[c] \in Posts /\ newest[c] \in Posts
         /\ 0 < oldest[c] /\ oldest[c] <= newest[c]
         /\ ChannelOf[oldest[c]] = c /\ rowVer'[oldest[c]] > 0
         /\ ChannelOf[newest[c]] = c /\ rowVer'[newest[c]] > 0
  BY <1>0, RowsStay DEF CursorBacked, Posts
<1>2. CASE UNCHANGED cursors
  BY <1>1, <1>2 DEF cursors, Backed
<1>3. ASSUME NEW w \in Threads, IngestCursor(w) PROVE Backed(c)'
  <2>1. PICK lo \in Page(w), hi \in Page(w) :
          /\ IsLeast(lo, Page(w)) /\ IsGreatest(hi, Page(w))
          /\ SetChannelCursor(pass[w].ch, lo, hi)
    BY <1>3 DEF IngestCursor
  <2>2. /\ lo \in Posts /\ hi \in Posts /\ lo <= hi
        /\ ChannelOf[lo] = pass[w].ch /\ rowVer[lo] > 0
        /\ ChannelOf[hi] = pass[w].ch /\ rowVer[hi] > 0
    BY <1>3, <2>1 DEF IngestCursor, PageIngested, IsLeast, Page
  <2>3. rowVer'[lo] > 0 /\ rowVer'[hi] > 0 /\ 0 < lo /\ lo \in Nat /\ hi \in Nat
    BY <2>2, <1>0, RowsStay DEF Posts
  <2>4. CASE c = pass[w].ch
    <3>1. /\ oldest'[c] = IF oldest[c] = 0 \/ lo < oldest[c] THEN lo ELSE oldest[c]
          /\ newest'[c] = IF hi > newest[c] THEN hi ELSE newest[c]
      BY <1>0, <2>1, <2>4 DEF SetChannelCursor
    <3>2. CASE ~(oldest[c] = 0 /\ newest[c] = 0)
      BY <1>0, <1>1, <2>2, <2>3, <2>4, <3>1, <3>2 DEF Backed
    <3>3. CASE newest[c] = 0 /\ oldest[c] = 0
      BY <2>2, <2>3, <2>4, <3>1, <3>3 DEF Backed
    <3>. QED  BY <1>0, <3>2, <3>3
  <2>5. CASE c # pass[w].ch
    BY <1>1, <2>1, <2>5 DEF SetChannelCursor, Backed
  <2>. QED  BY <2>4, <2>5
<1>. QED  BY <1>2, <1>3, CursorsKept

--------------------------------------------------------------------------
(* The theorems.                                                            *)

LEMMA IndInvInit == ASSUME Init PROVE IndInv
<1>1. TypeOK
  BY InitType
<1>2. InFlightReal
  <2>1. \A p \in Posts : Idle.got[p] = 0
    BY DEF Idle
  <2>2. Len(events) = 0 /\ \A w \in Threads : pass[w] = Idle
    BY DEF Init
  <2>. QED  BY <2>1, <2>2 DEF Init, InFlightReal
<1>2a. ReactionsReal
  <2>1. \A p \in Posts : Idle.re[p] = {}
    BY DEF Idle
  <2>2. Len(events) = 0 /\ \A w \in Threads : pass[w] = Idle
    BY DEF Init
  <2>. QED  BY <2>1, <2>2 DEF Init, ReactionsReal
<1>3. PageIngested
  BY DEF Init, PageIngested, At, Idle
<1>4. CursorBacked
  BY DEF Init, CursorBacked
<1>. QED  BY <1>1, <1>2, <1>2a, <1>3, <1>4 DEF IndInv

LEMMA IndInvStep == ASSUME IndInv, [Next]_vars PROVE IndInv'
BY TypeStep, InFlightStep, PageStep, CursorStep DEF IndInv

\* The inductive invariant: whatever is on its way to the cache was said by
\* the server (InFlightReal, ReactionsReal), a page half written is of one channel and its
\* written half is in the cache (PageIngested), and so a cursor set after the
\* last row of a page names rows that are there (CursorBacked).
THEOREM Inductive == Spec => []IndInv
<1>. QED  BY IndInvInit, IndInvStep, PTL DEF Spec

\* ingestPosts (backfill.go) sets a channel's cursor only behind the rows of
\* the page, so that the two posts it names are in the posts table, through
\* any interleaving of the threads, any failure and any crash.
THEOREM CursorsAreBacked == Spec => []CursorBacked
BY Inductive, PTL DEF IndInv

\* What a step does to the posts, seen as the abstract copy sees it.
LEMMA HeardIsCopy ==
  ASSUME TypeOK, InFlightReal, ReactionsReal, Heard, ~UNCHANGED rows
  PROVE  [Copy!Next]_(Copy!vars)
<1>1. UNCHANGED <<srvVer, srvDel, hadReact>>
  BY DEF Heard
<1>2. ASSUME NEW p \in Posts, NEW v \in 1..srvVer[p], NEW R \in SUBSET hadReact[p],
             UpsertRow(p, v), SetReactions(p, R)
      PROVE  Copy!Hear(p)
  <2>1. Copy!HearReactions(p)
    BY <1>1, <1>2 DEF Copy!HearReactions, SetReactions
  <2>. QED  BY <1>2, <2>1 DEF UpsertRow, Copy!Hear, Copy!HearPost
<1>3. ASSUME NEW p \in Posts, srvDel[p], MarkPostDeleted(p)
      PROVE  Copy!Hear(p)
  <2>1. /\ rowVer[p] # 0 /\ rowVer' = rowVer /\ rowReact' = rowReact
        /\ rowDel' = [rowDel EXCEPT ![p] = TRUE]
    BY <1>3, Zenon DEF MarkPostDeleted, rows
  <2>2. rowVer[p] \in 1..srvVer[p] /\ rowVer' = [rowVer EXCEPT ![p] = rowVer[p]]
    BY <2>1 DEF TypeOK, InFlightReal
  <2>3. TRUE \in {FALSE, srvDel[p]}
    BY <1>3 DEF TypeOK
  <2>4. Copy!HearReactions(p)
    <3>1. rowReact[p] \in SUBSET hadReact[p] /\ rowReact' = [rowReact EXCEPT ![p] = rowReact[p]]
      BY <2>1 DEF ReactionsReal, TypeOK
    <3>. QED  BY <1>1, <3>1 DEF Copy!HearReactions
  <2>. QED  BY <2>1, <2>2, <2>3, <2>4 DEF Copy!Hear, Copy!HearPost
<1>4. ASSUME NEW p \in Posts, NEW R \in SUBSET hadReact[p], SetReactions(p, R),
             UNCHANGED <<rowVer, rowDel>>
      PROVE  Copy!Hear(p)
  BY <1>1, <1>4 DEF Copy!Hear, Copy!HearReactions, SetReactions
<1>. QED  BY <1>2, <1>3, <1>4 DEF Heard, Copy!Next, Copy!Posts, Posts

LEMMA ServerIsCopy ==
  ASSUME TypeOK, InFlightReal, Server PROVE [Copy!Next]_(Copy!vars)
<1>. UNCHANGED <<rowVer, rowDel, rowReact>>
  BY ServerKeeps DEF cache, posts, rows
<1>1. ASSUME NEW p \in Posts, ServerPost(p) PROVE Copy!Write(p)
  BY <1>1, ServerAssumption DEF ServerPost, Copy!Write, TypeOK, InFlightReal
<1>2. ASSUME NEW p \in Posts, ServerEdit(p) PROVE Copy!Write(p)
  BY <1>2, ServerAssumption DEF ServerEdit, Copy!Write, TypeOK
<1>3. ASSUME NEW p \in Posts, ServerDelete(p) PROVE Copy!Delete(p)
  BY <1>3 DEF ServerDelete, Copy!Delete
<1>4. ASSUME NEW p \in Posts, NEW r \in Reactions, ServerReact(p, r) PROVE Copy!React(p)
  BY <1>4 DEF ServerReact, Copy!React
<1>5. ASSUME NEW c \in Channels, ServerView(c) \/ ServerLeave(c) \/ ServerJoin(c)
      PROVE  UNCHANGED Copy!vars
  BY <1>5 DEF ServerView, ServerLeave, ServerJoin, Copy!vars
<1>. QED  BY <1>1, <1>2, <1>3, <1>4, <1>5 DEF Server, Copy!Next, Copy!Posts, Posts

\* Neither the server nor the rows move, or the server alone does, or a row is
\* written with something the server has said.
LEMMA CopyStep ==
  ASSUME IndInv, [Next]_vars PROVE [Copy!Next]_(Copy!vars)
<1>. TypeOK /\ InFlightReal /\ ReactionsReal /\ PageIngested
  BY DEF IndInv
<1>1. CASE Server
  BY <1>1, ServerIsCopy
<1>2. CASE ~UNCHANGED rows
  BY <1>2, RowStep, HeardIsCopy
<1>3. CASE UNCHANGED rows /\ ~Server
  BY <1>3, ServerFrame DEF rows, Copy!vars
<1>. QED  BY <1>1, <1>2, <1>3

\* The posts table is a faithful, if belated, copy: whatever the threads, the
\* faults and the late messages do, a row only ever shows what the server has
\* said of its post, and no row is ever removed.
THEOREM ImplementsReplica == Spec => IsReplica
<1>1. Init => Copy!Init
  BY DEF Init, Copy!Init, Posts, Copy!Posts
<1>2. IndInv /\ [Next]_vars => [Copy!Next]_(Copy!vars)
  BY CopyStep
<1>. QED  BY <1>1, <1>2, Inductive, PTL DEF Spec, IsReplica, Copy!Spec
=============================================================================
