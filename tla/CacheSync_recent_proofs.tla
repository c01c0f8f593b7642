----------------------- MODULE CacheSync_recent_proofs -----------------------
(* Why no recent post is missing, and why mm messages may answer from the   *)
(* cache: theorems of CacheSync and LocalReads, for any channels, posts,    *)
(* page sizes and bounds.                                                   *)
EXTENDS CacheSync_proofs, LocalReads, WellFoundedInduction

(* Numbers and pages.                                                       *)

\* A set of numbers that is not empty has a least.
LEMMA LeastExists ==
  ASSUME NEW S \in SUBSET Nat, S # {} PROVE \E x \in S : \A y \in S : x <= y
<1>. DEFINE Upto(x) == {y \in S : y <= x}
            T == {Upto(x) : x \in S}
<1>1. T \subseteq FiniteSubsetsOf(Nat) /\ T # {}
  <2>1. ASSUME NEW x \in S PROVE IsFiniteSet(Upto(x)) /\ Upto(x) \in SUBSET Nat
    BY FS_BoundedSetOfNaturals
  <2>. QED  BY <2>1 DEF FiniteSubsetsOf
<1>2. PICK U \in T : \A V \in T : ~(<<V, U>> \in StrictSubsetOrdering(Nat))
  <2>. HIDE DEF T
  <2>. DEFINE R == StrictSubsetOrdering(Nat)
              F == FiniteSubsetsOf(Nat)
  <2>1. IsWellFoundedOn(R, F)
    BY FS_StrictSubsetOrderingWellFounded
  <2>2. T \subseteq F
    BY <1>1
  <2>. HIDE DEF R, F
  <2>3. \E U \in T : \A V \in T : ~(<<V, U>> \in R)
    BY <1>1, <2>1, <2>2, WFMin
  <2>. QED  BY <2>3 DEF R
<1>3. PICK x \in S : U = Upto(x)
  OBVIOUS
<1>4. ASSUME NEW y \in S, y < x PROVE FALSE
  <2>. \A z \in S : z \in Nat
    OBVIOUS
  <2>a. \A z \in S : z <= y => z <= x
    BY <1>4
  <2>b. Upto(y) \subseteq Upto(x)
    BY <2>a
  <2>c. x \in Upto(x) /\ x \notin Upto(y)
    BY <1>4
  <2>1. Upto(y) \subseteq Upto(x) /\ x \in Upto(x) /\ x \notin Upto(y)
    BY <2>b, <2>c
  <2>2. <<Upto(y), Upto(x)>> \in StrictSubsetOrdering(Nat)
    BY <2>1 DEF StrictSubsetOrdering
  <2>. QED  BY <1>2, <1>3, <2>2
<1>5. \A y \in S : x <= y
  <2>. HIDE DEF T, Upto
  <2>. QED  BY <1>4
<1>. QED  BY <1>5

LEMMA PostsFinite ==
  ASSUME NEW S \in SUBSET Posts
  PROVE  IsFiniteSet(S) /\ Cardinality(S) \in Nat
<1>1. IsFiniteSet(Posts)
  BY ServerAssumption, FS_Interval DEF Posts
<1>2. IsFiniteSet(S)
  BY <1>1, FS_Subset
<1>. QED  BY <1>2, FS_CardinalityType

LEMMA FewerPosts ==
  ASSUME NEW S \in SUBSET Posts, NEW T \in SUBSET S
  PROVE  /\ Cardinality(S) \in Nat /\ Cardinality(T) \in Nat
         /\ Cardinality(T) <= Cardinality(S)
BY PostsFinite, FS_Subset

LEMMA Times ==
  ASSUME NEW a \in Nat, NEW b \in Nat
  PROVE  a * b \in Nat /\ (a + 1) * b = a * b + b
<1>1. a * b \in Nat
  BY Z3
<1>2. (a + 1) * b = a * b + b
  BY Z3
<1>. QED  BY <1>1, <1>2

\* A page that has a post above it is full below it: nothing is left out within
\* size posts of its newest.
LEMMA PageIsWhole ==
  ASSUME NEW S \in SUBSET Posts, NEW k \in Nat, NEW size \in Nat,
         NEW h \in PageOf(S, k, size), \A q \in PageOf(S, k, size) : q <= h,
         NEW p \in S, p <= h,
         NEW n \in Nat, n <= size, Cardinality({q \in S : p < q /\ q <= h}) < n
  PROVE  p \in PageOf(S, k, size)
<1>. DEFINE D == {q \in S : p < q /\ q <= h}
            Above == NewerIn(S, h)
            Below == NewerIn(S, p)
            m == k * size
<1>1. m \in Nat /\ (k + 1) * size = m + size
  BY Times
<1>. HIDE DEF m
<1>2. \A x : x \in PageOf(S, k, size) <=>
         x \in S /\ m <= Cardinality(NewerIn(S, x)) /\ Cardinality(NewerIn(S, x)) < m + size
  BY <1>1 DEF PageOf, m
<1>. \A q \in S : q \in Nat
  BY DEF Posts
<1>. h \in S
  BY <1>2
<1>3. D \in SUBSET Posts /\ Above \in SUBSET Posts /\ Below \in SUBSET Posts
  BY DEF NewerIn
<1>4. Below = Above \cup D /\ Above \cap D = {}
  <2>1. \A q \in S : (q > p <=> (q > h \/ (p < q /\ q <= h))) /\ ~(q > h /\ q <= h)
    OBVIOUS
  <2>. QED  BY <2>1, Zenon DEF NewerIn
<1>5. Cardinality(Below) = Cardinality(Above) + Cardinality(D)
  <2>. HIDE DEF Below, Above, D
  <2>1. Cardinality(Above \cap D) = 0
    BY <1>4, FS_EmptySet
  <2>2. Cardinality(Above) \in Nat /\ Cardinality(D) \in Nat
    BY <1>3, PostsFinite
  <2>3. Cardinality(Above \cup D) = Cardinality(Above) + Cardinality(D) - 0
    BY <1>3, <2>1, PostsFinite, FS_Union
  <2>. QED  BY <1>4, <2>2, <2>3
<1>6. Cardinality(Above) = m
  <2>1. m <= Cardinality(Above) /\ Cardinality(Above) < m + size /\ Cardinality(Above) \in Nat
    BY <1>2, <1>3, PostsFinite
  <2>2. SUFFICES ASSUME Cardinality(Above) > m PROVE FALSE
    BY <1>1, <2>1
  <2>3. PICK g \in Above : \A q \in Above : g <= q
    <3>1. Above # {}
      BY <1>1, <2>2, FS_EmptySet
    <3>2. Above \in SUBSET Nat
      BY DEF NewerIn
    <3>. QED  BY <3>1, <3>2, LeastExists
  <2>4. g \in S /\ g > h /\ NewerIn(S, g) = Above \ {g}
    <3>1. g \in S /\ g > h
      BY <2>3 DEF NewerIn
    <3>2. \A q \in S : q > g <=> (q > h /\ q # g)
      <4>1. \A q \in S : q > h => q >= g
        BY <2>3 DEF NewerIn
      <4>. QED  BY <3>1, <4>1
    <3>. QED  BY <3>1, <3>2, Zenon DEF NewerIn
  <2>5. Cardinality(NewerIn(S, g)) = Cardinality(Above) - 1
    BY <1>3, <2>3, <2>4, PostsFinite, FS_RemoveElement
  <2>6. g \in PageOf(S, k, size)
    <3>1. m <= Cardinality(NewerIn(S, g)) /\ Cardinality(NewerIn(S, g)) < m + size
      <4>. HIDE DEF Above
      <4>. QED  BY <1>1, <2>1, <2>2, <2>5
    <3>. QED  BY <1>2, <2>4, <3>1
  <2>. QED  BY <2>4, <2>6
<1>7. Cardinality(D) \in Nat /\ Cardinality(D) < size
  BY <1>3, PostsFinite
<1>. QED  BY <1>1, <1>2, <1>5, <1>6, <1>7

--------------------------------------------------------------------------
(* What a step does to the pipeline of thread v.                            *)

\* It leaves it, takes a step of it, lets it begin or rest, or finds it outdated.
Moves(v) ==
  \/ pass'[v] = pass[v]
  \/ Outdated
  \/ pass'[v] = Idle
  \/ pass'[v] = Begun("backfill", FALSE)
  \/ \E f \in BOOLEAN : pass'[v] = Begun("reconcile", f) /\ (f => conn')
  \/ pass'[v].at = "page" /\ pass'[v].fresh = FALSE
  \/ PassStep(v)

LEMMA OthersRest ==
  ASSUME TypeOK, NEW v \in Threads, NEW w \in Threads, v # w, PassStep(w) \/ FailPass(w)
  PROVE  pass'[v] = pass[v] \/ pass'[v] = Idle
<1>. pass \in [Threads -> Pass]
  BY DEF TypeOK
<1>1. ASSUME NEW r, Becomes(w, r) PROVE pass'[v] = pass[v]
  BY <1>1 DEF Becomes
<1>2. PassFails(w) => pass'[v] = pass[v] \/ pass'[v] = Idle
  BY <1>1 DEF PassFails, Dead
<1>. QED
  BY <1>1, <1>2 DEF PassStep, FetchChannels, FetchMembers, UpsertChannel, UpsertMember,
     CheckNewest, FetchPage, RefusePage, IngestPost, IngestCursor, FinishPass, FailPass

LEMMA PassMoves ==
  ASSUME TypeOK, [Next]_vars, NEW v \in Threads PROVE Moves(v)
<1>. pass \in [Threads -> Pass]
  BY DEF TypeOK
<1>1. CASE Server \/ Drop \/ FailEvent
  BY <1>1, ServerKeeps DEF Drop, FailEvent, Moves
<1>2. CASE Start \/ Connect \/ TickReconcile
  <2>1. CASE Start
    BY <2>1 DEF Start, Becomes, Moves
  <2>2. CASE Connect
    BY <2>2 DEF Connect, Becomes, Moves
  <2>3. CASE TickReconcile
    <3>1. conn' = conn /\ conn \in BOOLEAN /\ Becomes("tick", Begun("reconcile", conn))
      BY <2>3 DEF TickReconcile, wires, TypeOK
    <3>. QED  BY <3>1, Zenon DEF Becomes, Moves
  <2>. QED  BY <1>2, <2>1, <2>2, <2>3
<1>3. CASE Crash
  BY <1>3 DEF Crash, Dead, Moves
<1>4. ASSUME NEW c \in Channels, HandleLoadHistory(c) PROVE Moves(v)
  <2>1. PICK b \in 0..MaxPost :
          Becomes("hist", [Idle EXCEPT !.at = "page", !.kind = "history", !.ch = c,
                             !.target = HistoryLimit, !.before = b])
    BY <1>4 DEF HandleLoadHistory
  <2>. DEFINE r == [Idle EXCEPT !.at = "page", !.kind = "history", !.ch = c,
                      !.target = HistoryLimit, !.before = b]
  <2>2. r.at = "page" /\ r.fresh = FALSE
    BY DEF Idle
  <2>. QED  BY <2>1, <2>2 DEF Becomes, Moves
<1>5. CASE Consume \/ HandleIngestPost \/ LoseNote \/ UNCHANGED vars
           \/ \E by \in Writers : WriteReactions(by)
  BY <1>5 DEF Consume, HandlePosted, HandlePostEdited, HandlePostDeleted, HandleReaction,
     HandleChannelsViewed, Handling, ConsumeEnd, HandleIngestPost, LoseNote, WriteReactions,
     vars, Moves
<1>6. ASSUME NEW w \in Threads, PassStep(w) \/ FailPass(w) PROVE Moves(v)
  <2>1. CASE v # w
    BY <1>6, <2>1, OthersRest DEF Moves
  <2>2. CASE v = w /\ FailPass(w)
    <3>1. Becomes(w, Idle) \/ Dead
      BY <2>2 DEF FailPass, PassFails
    <3>. QED  BY <2>2, <3>1 DEF Becomes, Dead, Moves
  <2>. QED  BY <1>6, <2>1, <2>2 DEF Moves
<1>. QED  BY <1>1, <1>2, <1>3, <1>4, <1>5, <1>6, Zenon DEF Next

\* What FetchPage leaves in thread v when the answer holds a post.
Fetching(v) ==
  [pass[v] EXCEPT !.at = "write", !.left = Fetched(v),
     !.full = (Cardinality(Listed(v)) = PageSize), !.stray = Strays(v),
     !.got = [p \in Posts |-> IF p \in Fetched(v) THEN srvVer[p] ELSE 0],
     !.re = [p \in Posts |-> IF p \in Fetched(v) THEN srvReact[p] ELSE {}]]

\* A page being written is the one that was, or has just been fetched.
LEMMA WriteMoves ==
  ASSUME TypeOK, [Next]_vars, NEW v \in Threads, pass'[v].at = "write"
  PROVE  \/ /\ pass[v].at = "write"
            /\ pass'[v].got = pass[v].got /\ pass'[v].ch = pass[v].ch
            /\ pass'[v].stray = pass[v].stray
         \/ /\ At(v, "page") /\ Listed(v) # {} /\ pass'[v] = Fetching(v)
            /\ UNCHANGED <<server, cache, wires>>
<1>. pass \in [Threads -> Pass] /\ pass[v] \in Pass
  BY DEF TypeOK
<1>i. Idle.at = "idle" /\ \A k, f : Begun(k, f).at = "channels"
  BY IdleType DEF Idle, Begun
<1>n. NextChannel(v).at = "pick" /\ AfterPages(v).at # "write"
  BY <1>i DEF AfterPages, NextChannel, Pass
<1>1. CASE pass'[v] = pass[v]
  BY <1>1
<1>2. CASE Outdated
  BY <1>2 DEF Outdated, Pass
<1>3. CASE PassStep(v)
  <2>1. CASE FetchPage(v)
    BY <1>n, <2>1 DEF FetchPage, Becomes, Fetching
  <2>2. CASE IngestPost(v)
    BY <2>2 DEF IngestPost, Becomes, Pass, At
  <2>3. CASE FetchChannels(v) \/ FetchMembers(v) \/ UpsertMember(v)
    <3>1. CASE FetchChannels(v)
      BY <3>1 DEF FetchChannels, Becomes, Pass
    <3>2. CASE FetchMembers(v)
      BY <3>2 DEF FetchMembers, Becomes, Pass
    <3>3. CASE UpsertMember(v)
      BY <3>3 DEF UpsertMember, Becomes, Pass
    <3>. QED  BY <2>3, <3>1, <3>2, <3>3
  <2>4. CASE UpsertChannel(v)
    BY <2>4 DEF UpsertChannel, Becomes, Pass
  <2>5. CASE CheckNewest(v)
    BY <1>n, <2>5 DEF CheckNewest, Becomes, Pass
  <2>6. CASE IngestCursor(v)
    <3>. DEFINE r == [pass[v] EXCEPT !.at = "page", !.pageNo = @ + 1, !.got = Idle.got,
                        !.re = Idle.re, !.full = FALSE, !.stray = FALSE]
    <3>1. r.at = "page"
      BY DEF Pass
    <3>2. Becomes(v, r) \/ Becomes(v, AfterPages(v))
      BY <2>6 DEF IngestCursor
    <3>. QED  BY <1>n, <3>1, <3>2 DEF Becomes
  <2>7. CASE FinishPass(v)
    BY <1>i, <2>7 DEF FinishPass, Becomes
  <2>8. CASE RefusePage(v)
    BY <1>i, <2>8 DEF RefusePage, PassFails, Dead, Becomes
  <2>. QED  BY <1>3, <2>1, <2>2, <2>3, <2>4, <2>5, <2>6, <2>7, <2>8 DEF PassStep
<1>. QED  BY <1>i, <1>1, <1>2, <1>3, PassMoves DEF Moves

LEMMA OrderedStep ==
  ASSUME TypeOK, Ordered, [Next]_vars PROVE Ordered'
<1>. SUFFICES ASSUME NEW p \in Posts, srvVer'[p] > 0, NEW q \in 1..(p - 1)
              PROVE  srvVer'[q] > 0
  BY DEF Ordered
<1>. q \in Posts
  BY ServerAssumption DEF Posts
<1>0. srvVer[q] \in Nat /\ srvVer'[q] \in Nat
  <2>1. TypeOK'
    BY TypeStep
  <2>. QED  BY <2>1 DEF TypeOK
<1>1. srvVer[q] > 0 => srvVer'[q] > 0
  BY <1>0, ServerGrows DEF Grows
<1>2. CASE srvVer[p] > 0
  BY <1>1, <1>2 DEF Ordered
<1>3. CASE ~(srvVer[p] > 0)
  <2>1. Server
    BY <1>3, ServerFrame
  <2>2. PICK r \in Posts : ServerPost(r) \/ ServerEdit(r)
    BY <1>3, <2>1 DEF Server, ServerDelete, ServerReact, ServerView, ServerLeave, ServerJoin
  <2>3. r = p
    BY <1>3, <2>2 DEF ServerPost, ServerEdit, TypeOK
  <2>. QED  BY <1>1, <1>3, <2>2, <2>3 DEF ServerPost, ServerEdit, TypeOK
<1>. QED  BY <1>2, <1>3

\* FetchPage's answer has no hole within MinBackfill posts of its newest: what the
\* threads bring beside the posts listed is older than the newest of those, unless
\* it strays, and a page is at least that big.
LEMMA FetchedWhole ==
  ASSUME TypeOK, Ordered, NEW w \in Threads, NEW h, IsGreatest(h, Fetched(w)),
         ~Strays(w), Listed(w) # {},
         NEW p \in Posts, ChannelOf[p] = pass[w].ch, ~srvDel[p], p <= h,
         Cardinality(Between(pass[w].ch, p, h)) < MinBackfill
  PROVE  p \in Listed(w)
<1>. DEFINE c == pass[w].ch
            S == IF pass[w].before = 0 THEN Live(c) ELSE {q \in Live(c) : q < pass[w].before}
            k == IF pass[w].kind = "reconcile" THEN 0 ELSE pass[w].pageNo
            size == IF pass[w].kind = "reconcile" THEN MinBackfill ELSE PageSize
<1>0. S \in SUBSET Posts /\ k \in Nat /\ size \in Nat /\ MinBackfill <= size /\ MinBackfill \in Nat
  <2>1. pass[w] \in Pass
    BY DEF TypeOK
  <2>. QED  BY <2>1, SizesAssumption DEF Live, Created, Pass
<1>1. Listed(w) = PageOf(S, k, size)
  BY DEF Listed
<1>2. \A q : q \in S <=> /\ q \in Posts /\ ChannelOf[q] = c /\ srvVer[q] > 0 /\ ~srvDel[q]
                         /\ (pass[w].before = 0 \/ q < pass[w].before)
  BY DEF Live, Created
<1>. HIDE DEF S, k, size
<1>3. h \in Listed(w) /\ \A q \in Listed(w) : q <= h
  <2>1. h \in Fetched(w) /\ \A q \in Fetched(w) : q <= h
    BY DEF IsGreatest
  <2>2. ASSUME h \notin Listed(w) PROVE FALSE
    <3>1. PICK q \in Listed(w) : ~(q < h)
      BY <2>1 DEF Strays
    <3>2. q \in Fetched(w) /\ q <= h
      BY <2>1, <3>1 DEF Fetched
    <3>3. q \in Posts /\ h \in Posts
      BY <1>0, <1>1, <2>1, <3>1 DEF Fetched, PageOf, Live, Created
    <3>. QED  BY <2>2, <3>1, <3>2, <3>3 DEF Posts
  <2>. QED  BY <2>1, <2>2 DEF Fetched
<1>4. h \in S /\ h \in Posts
  BY <1>0, <1>1, <1>3 DEF PageOf
<1>5. p \in S
  <2>1. srvVer[p] > 0
    <3>1. CASE p = h
      BY <1>2, <1>4, <3>1
    <3>2. CASE p # h
      <4>1. p \in 1..(h - 1)
        BY <1>4, <3>2 DEF Posts
      <4>. QED  BY <1>2, <1>4, <4>1 DEF Ordered
    <3>. QED  BY <3>1, <3>2
  <2>2. pass[w].before = 0 \/ p < pass[w].before
    <3>1. pass[w].before \in Nat /\ p \in Nat /\ h \in Nat
      BY <1>4 DEF TypeOK, Pass, Posts
    <3>. QED  BY <1>2, <1>4, <3>1
  <2>. QED  BY <1>2, <2>1, <2>2
<1>6. Cardinality({q \in S : p < q /\ q <= h}) < MinBackfill
  <2>1. {q \in S : p < q /\ q <= h} \in SUBSET Between(c, p, h)
    BY <1>2 DEF Between
  <2>2. Between(c, p, h) \in SUBSET Posts
    BY DEF Between
  <2>. QED  BY <1>0, <2>1, <2>2, FewerPosts
<1>. QED
  <2>1. h \in PageOf(S, k, size) /\ \A q \in PageOf(S, k, size) : q <= h
    BY <1>1, <1>3
  <2>2. p \in PageOf(S, k, size)
    BY <1>0, <1>5, <1>6, <2>1, PageIsWhole
  <2>. QED  BY <1>1, <2>2

LEMMA PageWholeStep ==
  ASSUME TypeOK, Ordered, [Next]_vars, NEW v \in Threads, PageWhole(v)
  PROVE  PageWhole(v)'
<1>. SUFFICES ASSUME pass'[v].at = "write", ~pass'[v].stray,
                     NEW h \in Page(v)', IsGreatest(h, Page(v)'),
                     NEW p \in Posts, ChannelOf[p] = pass'[v].ch, ~srvDel'[p], p <= h,
                     Cardinality(Between(pass'[v].ch, p, h)) < MinBackfill
              PROVE  p \in Page(v)'
  BY DEF PageWhole, At, IsGreatest, Between
<1>0. ~srvDel[p]
  BY ServerGrows DEF Grows
<1>1. CASE /\ pass[v].at = "write"
           /\ pass'[v].got = pass[v].got /\ pass'[v].ch = pass[v].ch
           /\ pass'[v].stray = pass[v].stray
  <2>1. Page(v)' = Page(v)
    BY <1>1 DEF Page
  <2>. QED  BY <1>0, <1>1, <2>1 DEF PageWhole, At
<1>2. CASE pass'[v] = Fetching(v) /\ Listed(v) # {}
  <2>1. pass[v] \in Pass
    BY DEF TypeOK
  <2>2. /\ pass'[v].got = [q \in Posts |-> IF q \in Fetched(v) THEN srvVer[q] ELSE 0]
        /\ pass'[v].ch = pass[v].ch /\ ~Strays(v)
    BY <1>2, <2>1 DEF Fetching, Pass
  <2>3. \A q \in Fetched(v) : q \in Posts /\ srvVer[q] > 0
    BY DEF Fetched, Listed, PageOf, Live, Created
  <2>4. Page(v)' = Fetched(v)
    BY <2>2, <2>3 DEF Page
  <2>5. p \in Listed(v)
    BY <1>0, <1>2, <2>2, <2>4, FetchedWhole
  <2>. QED  BY <2>4, <2>5 DEF Fetched
<1>. QED  BY <1>1, <1>2, WriteMoves

\* NewestPageWhole, without the server's posts: whatever is at most newest exists.
Whole(c) ==
  \A p \in Posts :
    (ChannelOf[p] = c /\ ~srvDel[p] /\ p <= newest[c] /\ rowVer[p] = 0)
      => Cardinality(Between(c, p, newest[c])) >= MinBackfill

LEMMA BetweenCreated ==
  ASSUME TypeOK, InFlightReal, CursorBacked, Ordered, NEW c \in Channels, NEW p \in Posts,
         p <= newest[c]
  PROVE  /\ srvVer[p] > 0
         /\ {q \in Created(c) : p < q /\ q <= newest[c]} = Between(c, p, newest[c])
<1>. newest[c] \in 0..MaxPost /\ MaxPost \in Nat
  BY ServerAssumption DEF TypeOK
<1>1. newest[c] \in Posts /\ rowVer[newest[c]] > 0
  BY DEF CursorBacked, Posts
<1>2. srvVer[newest[c]] > 0
  BY <1>1 DEF InFlightReal, TypeOK
<1>3. ASSUME NEW q \in Posts, q <= newest[c] PROVE srvVer[q] > 0
  <2>1. CASE q = newest[c]
    BY <1>2, <2>1
  <2>2. CASE q # newest[c]
    <3>1. q \in 1..(newest[c] - 1)
      BY <1>1, <1>3, <2>2 DEF Posts
    <3>. QED  BY <1>1, <1>2, <3>1 DEF Ordered
  <2>. QED  BY <2>1, <2>2
<1>. QED  BY <1>3 DEF Between, Created

LEMMA WholeIs ==
  ASSUME TypeOK, InFlightReal, CursorBacked, Ordered
  PROVE  NewestPageWhole <=> \A c \in Channels \ leapt : Whole(c)
<1>1. ASSUME NewestPageWhole, NEW c \in Channels \ leapt PROVE Whole(c)
  <2>. SUFFICES ASSUME NEW p \in Posts, ChannelOf[p] = c, ~srvDel[p], p <= newest[c], rowVer[p] = 0
                PROVE  Cardinality(Between(c, p, newest[c])) >= MinBackfill
    BY DEF Whole
  <2>1. p \in Live(c)
    BY BetweenCreated DEF Live, Created
  <2>. QED  BY <1>1, <2>1, BetweenCreated DEF NewestPageWhole
<1>2. ASSUME \A c \in Channels \ leapt : Whole(c) PROVE NewestPageWhole
  <2>. SUFFICES ASSUME NEW c \in Channels \ leapt, NEW p \in Live(c), p <= newest[c], rowVer[p] = 0
                PROVE  Cardinality({q \in Created(c) : p < q /\ q <= newest[c]}) >= MinBackfill
    BY DEF NewestPageWhole
  <2>1. p \in Posts /\ ChannelOf[p] = c /\ ~srvDel[p]
    BY DEF Live, Created
  <2>. QED  BY <1>2, <2>1, BetweenCreated DEF Whole
<1>. QED  BY <1>1, <1>2

\* Once a cursor has leapt it is not trusted again.
LEMMA LeaptGrows ==
  ASSUME [Next]_vars PROVE leapt \subseteq leapt'
<1>1. ASSUME NEW w \in Threads, IngestCursor(w) PROVE leapt \subseteq leapt'
  BY <1>1, Zenon DEF IngestCursor
<1>2. UNCHANGED cursors => leapt' = leapt
  BY Zenon DEF cursors
<1>. QED  BY <1>1, <1>2, CursorsKept

LEMMA WholeStep ==
  ASSUME IndInv, NEW c \in Channels, c \notin leapt', Whole(c), \A w \in Threads : PageWhole(w), [Next]_vars
  PROVE  Whole(c)'
<1>. TypeOK /\ InFlightReal /\ ReactionsReal /\ PageIngested /\ CursorBacked /\ TypeOK'
  BY TypeStep DEF IndInv
<1>. SUFFICES ASSUME NEW p \in Posts, ChannelOf[p] = c, ~srvDel'[p], p <= newest'[c], rowVer'[p] = 0
              PROVE  Cardinality(Between(c, p, newest'[c])) >= MinBackfill
  BY DEF Whole, Between
<1>1. ~srvDel[p] /\ rowVer[p] = 0
  <2>1. rowVer[p] \in Nat
    BY DEF TypeOK
  <2>. QED  BY <2>1, ServerGrows, RowsStay DEF Grows
<1>2. CASE newest'[c] = newest[c]
  BY <1>1, <1>2 DEF Whole
<1>3. ASSUME NEW w \in Threads, IngestCursor(w), newest'[c] # newest[c]
      PROVE  Cardinality(Between(c, p, newest'[c])) >= MinBackfill
  <2>1. PICK lo \in Page(w), hi \in Page(w) :
          /\ IsGreatest(hi, Page(w)) /\ SetChannelCursor(pass[w].ch, lo, hi)
          /\ pass[w].stray /\ newest[pass[w].ch] < hi => pass[w].ch \in leapt'
    BY <1>3 DEF IngestCursor
  <2>2. newest'[c] = hi /\ c = pass[w].ch /\ newest[c] < hi
    BY <1>3, <2>1 DEF SetChannelCursor, TypeOK
  <2>6a. ~pass[w].stray
    BY <2>1, <2>2
  <2>3. \A q \in Page(w) : rowVer[q] > 0
    BY <1>3 DEF IngestCursor, PageIngested
  <2>4. p \notin Page(w)
    BY <1>1, <2>3
  <2>5. ~(Cardinality(Between(c, p, hi)) < MinBackfill)
    BY <1>1, <1>3, <2>1, <2>2, <2>4, <2>6a DEF PageWhole, IngestCursor
  <2>6. Cardinality(Between(c, p, hi)) \in Nat /\ MinBackfill \in Nat
    BY PostsFinite, SizesAssumption DEF Between
  <2>. QED  BY <2>2, <2>5, <2>6
<1>. QED  BY <1>2, <1>3, CursorsKept DEF cursors

--------------------------------------------------------------------------
(* Connections.                                                             *)

Offline == {"down", "backfill", "connect"}

\* What becomes of the connection: it is lost, it is made, or it stays.
LEMMA WireMoves ==
  ASSUME TypeOK, [Next]_vars
  PROVE  \/ Outdated /\ main' = main /\ (conn' = conn \/ conn' = FALSE)
         \/ Dead
         \/ Connect
         \/ /\ conn' = conn
            /\ main' \in Offline => main \in Offline \/ ~conn
            /\ caughtUp' => caughtUp \/ \E w \in Threads : FinishPass(w) /\ pass[w].fresh
<1>. DEFINE Stays == /\ conn' = conn
                     /\ main' \in Offline => main \in Offline \/ ~conn
                     /\ caughtUp' => caughtUp \/ \E w \in Threads : FinishPass(w) /\ pass[w].fresh
<1>1. UNCHANGED <<conn, main, caughtUp>> => Stays
  OBVIOUS
<1>2. AfterPass \in Offline => main \in Offline
  BY DEF AfterPass, Offline
<1>. HIDE DEF Stays
<1>. SUFFICES Stays \/ Dead \/ Connect \/ (Outdated /\ main' = main /\ (conn' = conn \/ conn' = FALSE))
  BY DEF Stays
<1>3. CASE Server
  <2>1. CASE Outdated
    BY <1>3, <2>1, ServerKeeps
  <2>2. CASE ~Outdated
    BY <1>1, <1>3, <2>2 DEF Server, ServerPost, ServerEdit, ServerDelete, ServerReact, ServerView,
       ServerLeave, ServerJoin, wires
  <2>. QED  BY <2>1, <2>2
<1>4. CASE Drop \/ FailEvent
  BY <1>4 DEF Drop, FailEvent
<1>5. CASE Crash
  BY <1>5 DEF Crash
<1>6. CASE Start \/ ConsumeEnd
  BY <1>6 DEF Start, ConsumeEnd, Offline, wires, Stays
<1>7. ASSUME NEW w \in Threads, FinishPass(w) PROVE Stays
  BY <1>2, <1>7 DEF FinishPass, wires, Stays
<1>8. ASSUME NEW w \in Threads, RefusePage(w) \/ FailPass(w) PROVE Stays \/ Dead
  BY <1>2, <1>8 DEF RefusePage, FailPass, PassFails, Stays
<1>9. ASSUME NEW w \in Threads, PassStep(w), ~FinishPass(w), ~RefusePage(w) PROVE Stays
  BY <1>1, <1>9 DEF PassStep, FetchChannels, FetchMembers, UpsertChannel, UpsertMember,
     CheckNewest, FetchPage, IngestPost, IngestCursor, wires
<1>10. CASE \/ TickReconcile \/ HandleIngestPost \/ LoseNote \/ UNCHANGED vars
            \/ \E c \in Channels : HandleLoadHistory(c)
            \/ \E by \in Writers : WriteReactions(by)
  BY <1>1, <1>10 DEF TickReconcile, HandleIngestPost, LoseNote, HandleLoadHistory,
     WriteReactions, vars, wires
<1>11. CASE Consume /\ ~ConsumeEnd
  BY <1>1, <1>11 DEF Consume, HandlePosted, HandlePostEdited, HandlePostDeleted,
     HandleReaction, HandleChannelsViewed, Handling
<1>12. CASE Next
  <2>1. ASSUME NEW w \in Threads, PassStep(w) \/ FailPass(w) PROVE Stays \/ Dead
    BY <2>1, <1>7, <1>8, <1>9
  <2>. QED  BY <1>3, <1>4, <1>5, <1>6, <1>10, <1>11, <1>12, <2>1, Zenon DEF Next
<1>. QED  BY <1>10, <1>12

\* A step of its own leaves a Reconcile what it is.
LEMMA FreshStays ==
  ASSUME TypeOK, NEW v \in Threads, PassStep(v), pass'[v].fresh
  PROVE  /\ pass[v].fresh
         /\ pass'[v].kind = pass[v].kind /\ pass'[v].before = pass[v].before
         /\ ~RefusePage(v) /\ ~FinishPass(v)
<1>. pass \in [Threads -> Pass] /\ pass[v] \in Pass
  BY DEF TypeOK
<1>. DEFINE Same(r) == r.fresh = pass[v].fresh /\ r.kind = pass[v].kind /\ r.before = pass[v].before
<1>i. Idle.fresh = FALSE
  BY DEF Idle
<1>1. ASSUME NEW r, Becomes(v, r) PROVE pass'[v] = r
  BY <1>1 DEF Becomes
<1>2. Same(NextChannel(v)) /\ (AfterPages(v) = Idle \/ Same(AfterPages(v)))
  BY DEF NextChannel, AfterPages, Pass
<1>3. ASSUME RefusePage(v) \/ FinishPass(v) PROVE FALSE
  BY <1>i, <1>1, <1>3 DEF RefusePage, FinishPass, PassFails, Dead
<1>4. CASE FetchChannels(v) \/ FetchMembers(v) \/ UpsertMember(v)
  <2>1. CASE FetchChannels(v)
    BY <1>3, <2>1 DEF FetchChannels, Becomes, Pass
  <2>2. CASE FetchMembers(v)
    BY <1>3, <2>2 DEF FetchMembers, Becomes, Pass
  <2>3. CASE UpsertMember(v)
    BY <1>3, <2>3 DEF UpsertMember, Becomes, Pass
  <2>. QED  BY <1>3, <1>4, <2>1, <2>2, <2>3
<1>5. CASE UpsertChannel(v)
  BY <1>3, <1>5 DEF UpsertChannel, Becomes, Pass
<1>6. CASE CheckNewest(v)
  <2>. DEFINE r == [pass[v] EXCEPT !.at = "page", !.last[pass[v].ch] = 0]
  <2>1. Same(r)
    BY DEF Pass
  <2>2. pass'[v] = r \/ pass'[v] = NextChannel(v)
    BY <1>1, <1>6 DEF CheckNewest
  <2>. QED  BY <1>2, <1>3, <2>1, <2>2
<1>7. CASE FetchPage(v)
  <2>1. Same(Fetching(v))
    BY DEF Fetching, Pass
  <2>2. pass'[v] = Fetching(v) \/ pass'[v] = AfterPages(v)
    BY <1>1, <1>7 DEF FetchPage, Fetching
  <2>. QED  BY <1>i, <1>2, <1>3, <2>1, <2>2
<1>8. CASE IngestPost(v)
  BY <1>3, <1>8 DEF IngestPost, Becomes, Pass
<1>9. CASE IngestCursor(v)
  <2>. DEFINE r == [pass[v] EXCEPT !.at = "page", !.pageNo = @ + 1, !.got = Idle.got,
                      !.re = Idle.re, !.full = FALSE, !.stray = FALSE]
  <2>1. Same(r)
    BY DEF Pass
  <2>2. pass'[v] = r \/ pass'[v] = AfterPages(v)
    BY <1>1, <1>9 DEF IngestCursor
  <2>. QED  BY <1>i, <1>2, <1>3, <2>1, <2>2
<1>. QED  BY <1>3, <1>4, <1>5, <1>6, <1>7, <1>8, <1>9 DEF PassStep

\* A thread that says it is up to date was so before, or has just begun.
LEMMA FreshMoves ==
  ASSUME TypeOK, [Next]_vars, NEW v \in Threads, pass'[v].fresh
  PROVE  \/ pass'[v] = pass[v] /\ ~Outdated /\ ~Dead
         \/ PassStep(v) /\ pass[v].fresh /\ ~Outdated /\ ~Dead
         \/ pass'[v] = Begun("reconcile", TRUE) /\ conn'
<1>1. Idle.fresh = FALSE /\ \A k, f : Begun(k, f).fresh = f
  BY IdleType DEF Idle, Begun, Pass
<1>2. ~Outdated
  <2>1. ASSUME Outdated PROVE FALSE
    BY <2>1 DEF Outdated, TypeOK, Pass
  <2>. QED  BY <2>1
<1>3. ~Dead
  BY <1>1 DEF Dead
<1>4. Moves(v)
  BY PassMoves
<1>5. PassStep(v) => pass[v].fresh
  BY FreshStays
<1>6. (\E f \in BOOLEAN : pass'[v] = Begun("reconcile", f) /\ (f => conn'))
        => pass'[v] = Begun("reconcile", TRUE) /\ conn'
  BY <1>1, Zenon
<1>7. pass'[v] # Idle /\ pass'[v] # Begun("backfill", FALSE) /\ pass'[v].fresh # FALSE
  BY <1>1, Zenon
<1>. QED  BY <1>2, <1>3, <1>4, <1>5, <1>6, <1>7, Zenon DEF Moves

LEMMA ConnectedStep ==
  ASSUME TypeOK, Connected, [Next]_vars PROVE Connected'
<1>. TypeOK'
  BY TypeStep
<1>0. Connect => conn' /\ main' = "reconcile"
  BY Zenon DEF Connect
<1>1. ASSUME NEW v \in Threads, pass'[v].fresh
      PROVE  conn' /\ pass'[v].kind = "reconcile" /\ pass'[v].before = 0
  <2>1. CASE pass'[v] = Begun("reconcile", TRUE) /\ conn'
    <3>1. Begun("reconcile", TRUE).kind = "reconcile" /\ Begun("reconcile", TRUE).before = 0
      BY IdleType DEF Begun, Idle, Pass
    <3>. QED  BY <2>1, <3>1, Zenon
  <2>2. CASE (pass'[v] = pass[v] \/ PassStep(v)) /\ pass[v].fresh /\ ~Outdated /\ ~Dead
    <3>1. pass[v].kind = "reconcile" /\ pass[v].before = 0 /\ conn
      BY <2>2 DEF Connected
    <3>2. pass'[v].kind = "reconcile" /\ pass'[v].before = 0
      BY <1>1, <2>2, <3>1, FreshStays
    <3>3. conn'
      BY <1>0, <2>2, <3>1, WireMoves, Zenon
    <3>. QED  BY <3>2, <3>3, Zenon
  <2>. QED  BY <1>1, <2>1, <2>2, FreshMoves, Zenon
<1>2. ASSUME caughtUp' PROVE conn'
  <2>1. ~Outdated /\ ~Dead
    BY <1>2, Zenon DEF Outdated, Dead
  <2>2. CASE Connect
    BY <1>0, <2>2, Zenon
  <2>3. CASE ~Connect
    <3>1. conn' = conn /\ (caughtUp \/ \E w \in Threads : FinishPass(w) /\ pass[w].fresh)
      BY <1>2, <2>1, <2>3, WireMoves, Zenon
    <3>2. conn
      BY <3>1, Zenon DEF Connected
    <3>. QED  BY <3>1, <3>2, Zenon
  <2>. QED  BY <2>2, <2>3
<1>3. ASSUME main' \in Offline PROVE ~conn'
  <2>1. CASE Dead
    BY <2>1, Zenon DEF Dead
  <2>2. CASE Connect
    BY <1>0, <1>3, <2>2 DEF Offline
  <2>3. CASE main' = main /\ (conn' = conn \/ conn' = FALSE)
    <3>1. ~conn
      BY <1>3, <2>3 DEF Connected, Offline
    <3>. QED  BY <2>3, <3>1, Zenon
  <2>4. CASE conn' = conn /\ (main \in Offline \/ ~conn)
    <3>1. ~conn
      BY <2>4 DEF Connected, Offline
    <3>. QED  BY <2>4, <3>1, Zenon
  <2>. QED  BY <1>3, <2>1, <2>2, <2>3, <2>4, WireMoves, Zenon
<1>. QED  BY <1>1, <1>2, <1>3 DEF Connected, Offline

--------------------------------------------------------------------------
(* What has been seen.                                                      *)

Queued(p) == \E i \in 1..Len(events) : events[i].type = "posted" /\ events[i].post = p

\* While the connection holds, events are only added at the end and taken off
\* the front, and a post taken off is in the cache.
LEMMA QueueMoves ==
  ASSUME IndInv, Connected, [Next]_vars, conn, conn', ~Outdated
  PROVE  \/ events' = events
         \/ \E e : events' = Append(events, e)
         \/ /\ events # <<>> /\ events' = Tail(events)
            /\ Head(events).type = "posted" => rowVer'[Head(events).post] > 0
<1>. DEFINE Goal == \/ events' = events
                    \/ \E e : events' = Append(events, e)
                    \/ /\ events # <<>> /\ events' = Tail(events)
                       /\ Head(events).type = "posted" => rowVer'[Head(events).post] > 0
<1>. TypeOK
  BY DEF IndInv
<1>1. ~Dead /\ ~Connect
  <2>1. ~Dead
    BY Zenon DEF Dead
  <2>2. Connect => main = "connect"
    BY DEF Connect
  <2>3. main # "connect"
    BY DEF Connected
  <2>. QED  BY <2>1, <2>2, <2>3
<1>2. CASE Server
  BY <1>2 DEF Server, ServerPost, ServerEdit, ServerDelete, ServerReact, ServerView, ServerLeave,
     ServerJoin, wires, Send
<1>3. CASE HandlePosted
  <2>. DEFINE e == Head(events)
  <2>1. events # <<>> /\ events' = Tail(events) /\ e \in Event /\ e.type = "posted"
    BY <1>3 DEF HandlePosted, Handling, TypeOK
  <2>2. e.post \in Posts /\ e.ver \in Nat /\ e.ver > 0
    BY <2>1 DEF Event
  <2>3. rowVer'[e.post] > 0
    BY <1>3, <2>2 DEF HandlePosted, UpsertPostTx, UpsertRow, TypeOK
  <2>. QED  BY <2>1, <2>3
<1>4. CASE Consume /\ ~HandlePosted
  BY <1>4 DEF Consume, HandlePostEdited, HandlePostDeleted, HandleReaction,
     HandleChannelsViewed, Handling, ConsumeEnd
<1>5. ~Drop /\ ~FailEvent /\ ~Crash
  BY <1>1, Zenon DEF Drop, FailEvent, Crash
<1>6. ASSUME NEW w \in Threads, PassStep(w) \/ FailPass(w) PROVE events' = events
  BY <1>1, <1>6 DEF PassStep, FetchChannels, FetchMembers, UpsertChannel, UpsertMember,
     CheckNewest, FetchPage, RefusePage, IngestPost, IngestCursor, FinishPass, FailPass,
     PassFails, wires
<1>7. ASSUME \/ Start \/ TickReconcile \/ HandleIngestPost \/ LoseNote \/ UNCHANGED vars
             \/ \E c \in Channels : HandleLoadHistory(c)
             \/ \E by \in Writers : WriteReactions(by)
      PROVE  events' = events
  BY <1>7 DEF Start, TickReconcile, HandleIngestPost, LoseNote, HandleLoadHistory,
     WriteReactions, vars, wires
<1>8. CASE events' # events /\ ~Server /\ ~Consume
  BY <1>1, <1>5, <1>6, <1>7, <1>8, Zenon DEF Next
<1>. QED  BY <1>2, <1>3, <1>4, <1>8

LEMMA SeenStays ==
  ASSUME IndInv, Connected, [Next]_vars, conn, conn', ~Outdated, NEW p \in Posts, Seen(p)
  PROVE  Seen(p)'
<1>. TypeOK /\ InFlightReal /\ ReactionsReal /\ PageIngested
  BY DEF IndInv
<1>. events \in Seq(Event)
  BY DEF TypeOK
<1>1. CASE rowVer[p] > 0
  BY <1>1, RowsStay DEF Seen
<1>2. CASE Queued(p)
  <2>1. PICK i \in 1..Len(events) : events[i].type = "posted" /\ events[i].post = p
    BY <1>2 DEF Queued
  <2>2. CASE events' = events
    BY <2>1, <2>2 DEF Seen
  <2>3. ASSUME NEW e, events' = Append(events, e) PROVE Seen(p)'
    <3>1. i \in 1..Len(events') /\ events'[i] = events[i]
      BY <2>1, <2>3
    <3>. QED  BY <2>1, <3>1 DEF Seen
  <2>4. CASE /\ events # <<>> /\ events' = Tail(events)
             /\ Head(events).type = "posted" => rowVer'[Head(events).post] > 0
    <3>1. CASE i = 1
      <4>1. Head(events) = events[1]
        BY <2>4
      <4>. QED  BY <2>1, <2>4, <3>1, <4>1 DEF Seen
    <3>2. CASE i # 1
      <4>1. i - 1 \in 1..Len(events') /\ events'[i - 1] = events[i]
        BY <2>4, <3>2
      <4>. QED  BY <2>1, <4>1 DEF Seen
    <3>. QED  BY <3>1, <3>2
  <2>. QED  BY <2>2, <2>3, <2>4, QueueMoves
<1>. QED  BY <1>1, <1>2 DEF Seen, Queued

\* A post made while the connection holds is sent on it.
LEMMA NewIsSeen ==
  ASSUME TypeOK, [Next]_vars, conn, NEW p \in Posts, ChannelOf[p] \in joined,
         ~(srvVer[p] > 0), srvVer'[p] > 0
  PROVE  Seen(p)'
<1>1. Server
  BY ServerFrame
<1>2. PICK r \in Posts : ServerPost(r) \/ ServerEdit(r)
  BY <1>1 DEF Server, ServerDelete, ServerReact, ServerView, ServerLeave, ServerJoin
<1>3. r = p
  BY <1>2 DEF ServerPost, ServerEdit, TypeOK
<1>3a. srvVer[p] \in Nat /\ ServerEdit(p) => srvVer[p] > 0
  BY DEF ServerEdit
<1>3b. ServerPost(p)
  BY <1>2, <1>3, <1>3a DEF TypeOK
<1>. DEFINE e == Message("posted", p, 1)
<1>4. events' = Append(events, e) /\ events \in Seq(Event)
  BY <1>3b DEF ServerPost, Send, TypeOK
<1>5. e.type = "posted" /\ e.post = p
  BY DEF Message
<1>. HIDE DEF e
<1>6. Len(events) + 1 \in 1..Len(events') /\ events'[Len(events) + 1] = e
  BY <1>4
<1>. QED  BY <1>5, <1>6 DEF Seen

\* A channel's posts only grow older.
LEMMA RecentShrinks ==
  ASSUME TypeOK, [Next]_vars, NEW p \in Posts, IsRecent(p)' PROVE IsRecent(p)
<1>. DEFINE Old == NewerIn(Created(ChannelOf[p]), p)
            New == NewerIn(Created(ChannelOf[p])', p)
<1>1. \A q \in Posts : srvVer[q] > 0 => srvVer'[q] > 0
  <2>1. TypeOK'
    BY TypeStep
  <2>2. \A q \in Posts : srvVer[q] \in Nat /\ srvVer'[q] \in Nat
    BY <2>1 DEF TypeOK
  <2>. QED  BY <2>2, ServerGrows DEF Grows
<1>2. Old \in SUBSET New /\ New \in SUBSET Posts
  BY <1>1 DEF NewerIn, Created
<1>3. Cardinality(Old) <= Cardinality(New) /\ Cardinality(Old) \in Nat /\ Cardinality(New) \in Nat
  <2>. HIDE DEF Old, New
  <2>. QED  BY <1>2, FewerPosts
<1>4. Cardinality(New) < MinBackfill /\ MinBackfill \in Nat
  BY SizesAssumption DEF IsRecent, NewerIn
<1>5. Cardinality(Old) < MinBackfill
  <2>. HIDE DEF Old, New
  <2>. QED  BY <1>3, <1>4
<1>. QED  BY <1>5 DEF IsRecent

\* What was true of the posts of a channel is true after the step.
LEMMA Carried ==
  ASSUME IndInv, Connected, [Next]_vars, conn, conn', ~Outdated, NEW c \in joined'
  PROVE  /\ c \in joined
         /\ \A p \in Posts : Seen(p) => Seen(p)'
         /\ \A p \in Live(c)' : p \in Live(c) \/ Seen(p)'
         /\ \A p \in Posts : IsRecent(p)' => IsRecent(p)
         /\ Accounted(c) => Accounted(c)'
<1>. TypeOK
  BY DEF IndInv
<1>1. c \in joined
  <2>1. CASE Server
    BY <2>1 DEF Server, ServerPost, ServerEdit, ServerDelete, ServerReact, ServerView,
       ServerLeave, ServerJoin
  <2>2. CASE Consume \/ HandleIngestPost \/ LoseNote \/ \E by \in Writers : WriteReactions(by)
    BY <2>2 DEF Consume, HandlePosted, HandlePostEdited, HandlePostDeleted, HandleReaction,
       HandleChannelsViewed, Handling, ConsumeEnd, HandleIngestPost, LoseNote, WriteReactions, server
  <2>3. ASSUME NEW w \in Threads, PassStep(w) \/ FailPass(w) PROVE joined' = joined
    BY <2>3 DEF PassStep, FetchChannels, FetchMembers, UpsertChannel, UpsertMember,
       CheckNewest, FetchPage, RefusePage, IngestPost, IngestCursor, FinishPass, FailPass, server
  <2>4. CASE \/ Start \/ Connect \/ TickReconcile \/ Crash \/ Drop \/ FailEvent
             \/ UNCHANGED vars \/ \E d \in Channels : HandleLoadHistory(d)
    BY <2>4 DEF Start, Connect, TickReconcile, Crash, Drop, FailEvent, HandleLoadHistory,
       vars, server
  <2>. QED  BY <2>1, <2>2, <2>3, <2>4 DEF Next
<1>2. \A p \in Posts : Seen(p) => Seen(p)'
  BY SeenStays
<1>3. ASSUME NEW p \in Live(c)' PROVE p \in Posts /\ (p \in Live(c) \/ Seen(p)')
  <2>1. p \in Posts /\ ChannelOf[p] = c /\ srvVer'[p] > 0 /\ ~srvDel'[p]
    BY DEF Live, Created
  <2>2. ~srvDel[p]
    BY <2>1, ServerGrows DEF Grows
  <2>3. CASE srvVer[p] > 0
    BY <2>1, <2>2, <2>3 DEF Live, Created
  <2>4. CASE ~(srvVer[p] > 0)
    BY <1>1, <2>1, <2>4, NewIsSeen
  <2>. QED  BY <2>1, <2>3, <2>4
<1>4. \A p \in Posts : IsRecent(p)' => IsRecent(p)
  BY RecentShrinks
<1>5. Accounted(c) => Accounted(c)'
  BY <1>2, <1>3, <1>4 DEF Accounted
<1>. QED  BY <1>1, <1>2, <1>3, <1>4, <1>5

--------------------------------------------------------------------------
(* What a Reconcile settles.                                                *)

LEMMA LastPostIsLast ==
  ASSUME NEW c \in Channels, NEW p \in Created(c) PROVE p <= LastPostAt(c)
<1>. DEFINE S == Created(c)
            T == {MaxPost - x : x \in S}
<1>1. S \subseteq Posts /\ MaxPost \in Nat
  BY ServerAssumption DEF Created
<1>2. T \in SUBSET Nat /\ T # {}
  BY <1>1 DEF Posts
<1>3. PICK t \in T : \A u \in T : t <= u
  <2>. HIDE DEF T
  <2>. QED  BY <1>2, LeastExists
<1>4. PICK g \in S : t = MaxPost - g
  BY <1>3
<1>5. ASSUME NEW q \in S PROVE q <= g
  <2>1. MaxPost - q \in T
    OBVIOUS
  <2>2. MaxPost - g <= MaxPost - q
    BY <1>3, <1>4, <2>1
  <2>3. q \in Nat /\ g \in Nat
    BY <1>1 DEF Posts
  <2>. QED  BY <1>1, <2>2, <2>3
<1>6. g \in Posts /\ IsGreatest(g, S)
  BY <1>1, <1>5 DEF IsGreatest
<1>. HIDE DEF S
<1>7. IsGreatest(CHOOSE x \in Posts : IsGreatest(x, S), S)
  BY <1>6
<1>8. LastPostAt(c) = CHOOSE x \in Posts : IsGreatest(x, S)
  BY <1>6 DEF LastPostAt, S
<1>. QED  BY <1>7, <1>8 DEF IsGreatest, S

\* "LastPostAt <= newestLocal" is a sound reason to skip a channel: what is newer
\* than the list said has been seen, and behind the cursor the page is whole.
LEMMA SkipIsSound ==
  ASSUME IndInv, NewestPageWhole, NEW c \in Channels \ leapt, NEW n \in Nat, n <= newest[c],
         SeenAfter(c, n)
  PROVE  Accounted(c)
<1>. TypeOK
  BY DEF IndInv
<1>. SUFFICES ASSUME NEW p \in Live(c), IsRecent(p), ~Seen(p) PROVE FALSE
  BY DEF Accounted
<1>1. p \in Posts /\ ChannelOf[p] = c /\ p \in Nat
  BY DEF Live, Created, Posts
<1>2. newest[c] \in Nat /\ rowVer[p] \in Nat
  BY <1>1, ServerAssumption DEF TypeOK
<1>3. p <= newest[c] /\ rowVer[p] = 0
  BY <1>1, <1>2 DEF SeenAfter, Seen
<1>. DEFINE D == {q \in Created(c) : p < q /\ q <= newest[c]}
            N == NewerIn(Created(c), p)
<1>4. Cardinality(D) >= MinBackfill
  BY <1>3 DEF NewestPageWhole
<1>5. Cardinality(N) < MinBackfill
  BY <1>1 DEF IsRecent
<1>6. N \in SUBSET Posts /\ D \in SUBSET N
  <2>1. \A q \in Posts : p < q => q > p
    BY <1>1 DEF Posts
  <2>. QED  BY <2>1 DEF NewerIn, Created
<1>7. Cardinality(D) <= Cardinality(N) /\ Cardinality(D) \in Nat /\ Cardinality(N) \in Nat
  <2>. HIDE DEF D, N
  <2>. QED  BY <1>6, FewerPosts
<1>. HIDE DEF D, N
<1>. QED  BY <1>4, <1>5, <1>7, SizesAssumption

\* The page a Reconcile asks for holds every recent post of the channel.
LEMMA PageHoldsRecent ==
  ASSUME TypeOK, NEW w \in Threads, pass[w].kind = "reconcile", pass[w].before = 0,
         NEW p \in Live(pass[w].ch), IsRecent(p)
  PROVE  p \in Listed(w)
<1>. DEFINE c == pass[w].ch
            L == NewerIn(Live(c), p)
            N == NewerIn(Created(c), p)
<1>1. MinBackfill \in Nat /\ 0 * MinBackfill = 0 /\ (0 + 1) * MinBackfill = MinBackfill
  BY SizesAssumption
<1>2. ChannelOf[p] = c
  BY DEF Live, Created
<1>3. N \in SUBSET Posts /\ L \in SUBSET N
  BY DEF NewerIn, Live, Created
<1>4. Cardinality(N) < MinBackfill
  BY <1>2 DEF IsRecent
<1>5. Cardinality(L) \in Nat /\ Cardinality(L) < MinBackfill
  <2>1. Cardinality(L) <= Cardinality(N) /\ Cardinality(L) \in Nat /\ Cardinality(N) \in Nat
    <3>. HIDE DEF L, N
    <3>. QED  BY <1>3, FewerPosts
  <2>. HIDE DEF L, N
  <2>. QED  BY <1>1, <1>4, <2>1
<1>6. Listed(w) = PageOf(Live(c), 0, MinBackfill)
  BY DEF Listed
<1>. QED  BY <1>1, <1>5, <1>6 DEF PageOf

\* What holds of thread v while it is up to date.
Current(v) ==
  /\ pass[v].at # "idle"
  /\ pass[v].at \notin {"channels", "members", "pick"} => pass[v].ch \notin pass[v].todo
  /\ ~At(v, "channels") => \A c \in joined \ leapt : Settled(v, c)

\* Only what the step changes of the pipeline matters for a channel.
LEMMA SettledKept ==
  ASSUME IndInv, Connected, [Next]_vars, conn, conn', ~Outdated, NEW v \in Threads,
         NEW c \in joined', Settled(v, c),
         pass'[v].at = pass[v].at, pass'[v].ch = pass[v].ch, pass'[v].todo = pass[v].todo,
         pass'[v].last = pass[v].last,
         \A p \in pass[v].left : p \in pass'[v].left \/ Seen(p)'
  PROVE  Settled(v, c)'
<1>2. /\ c \in joined
      /\ \A p \in Posts : Seen(p) => Seen(p)'
      /\ \A p \in Live(c)' : p \in Live(c) \/ Seen(p)'
      /\ \A p \in Posts : IsRecent(p)' => IsRecent(p)
      /\ Accounted(c) => Accounted(c)'
  BY Carried
<1>. DEFINE current == ~At(v, "pick") /\ c = pass[v].ch
<1>3. At(v, "members")' => c \in pass'[v].todo
  BY DEF Settled, At
<1>4. (c \in pass'[v].todo \/ (current' /\ pass'[v].at \in {"member", "cursor"})) =>
        SeenAfter(c, pass[v].last[c])'
  <2>1. SeenAfter(c, pass[v].last[c]) => SeenAfter(c, pass[v].last[c])'
    <3>1. \A p \in Live(c)' : p \in Posts
      BY DEF Live, Created
    <3>. QED  BY <1>2, <3>1 DEF SeenAfter
  <2>2. (c \in pass'[v].todo \/ (current' /\ pass'[v].at \in {"member", "cursor"})) =>
          SeenAfter(c, pass[v].last[c])
    BY DEF Settled, At
  <2>. QED  BY <2>1, <2>2
<1>5. (c \notin pass'[v].todo /\ ~current') => Accounted(c)'
  BY <1>2 DEF Settled, At
<1>6. (current' /\ At(v, "write")') =>
        \A p \in Live(c)' : IsRecent(p)' => Seen(p)' \/ p \in pass'[v].left
  <2>1. \A p \in Live(c)' : p \in Posts
    BY DEF Live, Created
  <2>. QED  BY <1>2, <2>1 DEF Settled, At
<1>. QED  BY <1>3, <1>4, <1>5, <1>6, Zenon DEF Settled, At

LEMMA SettledBy ==
  ASSUME NEW v \in Threads, NEW c,
         pass'[v].at = "members" => c \in pass'[v].todo,
         (c \in pass'[v].todo \/ (c = pass'[v].ch /\ pass'[v].at \in {"member", "cursor"})) =>
           \A p \in Live(c)' : p > pass'[v].last[c] => Seen(p)',
         (c \notin pass'[v].todo /\ (pass'[v].at = "pick" \/ c # pass'[v].ch)) => Accounted(c)',
         (c = pass'[v].ch /\ pass'[v].at = "write") =>
           \A p \in Live(c)' : IsRecent(p)' => Seen(p)' \/ p \in pass'[v].left
  PROVE  Settled(v, c)'
BY DEF Settled, At, SeenAfter

\* A channel v is done with, or has not come to, while it goes on to the next.
LEMMA CurrentStep ==
  ASSUME IndInv, NewestPageWhole, Connected, [Next]_vars, conn, conn', ~Outdated,
         NEW v \in Threads, PassStep(v), pass'[v].fresh, pass[v].fresh, Current(v)
  PROVE  Current(v)'
<1>. TypeOK /\ TypeOK'
  BY TypeStep DEF IndInv
<1>. pass \in [Threads -> Pass] /\ pass[v] \in Pass
  BY DEF TypeOK
<1>0. pass[v].kind = "reconcile" /\ pass[v].before = 0
  BY DEF Connected
<1>c. ASSUME NEW c \in (joined \ leapt)'
      PROVE  /\ c \in joined \ leapt /\ c \in Channels
             /\ \A p \in Live(c)' : p \in Posts /\ (p \in Live(c) \/ Seen(p)')
             /\ \A p \in Posts : (Seen(p) => Seen(p)') /\ (IsRecent(p)' => IsRecent(p))
             /\ Accounted(c) => Accounted(c)'
  <2>1. \A p \in Live(c)' : p \in Posts
    BY DEF Live, Created
  <2>2. joined \subseteq Channels
    BY DEF TypeOK
  <2>3. c \in joined' /\ c \notin leapt
    BY LeaptGrows
  <2>. QED  BY <2>1, <2>2, <2>3, Carried
\* What was settled of channel c before the step.
<1>s. ASSUME NEW c \in joined \ leapt, ~At(v, "channels")
      PROVE  /\ pass[v].at = "members" => c \in pass[v].todo
             /\ (c \in pass[v].todo \/ (c = pass[v].ch /\ pass[v].at \in {"member", "cursor"})) =>
                  \A p \in Live(c) : p > pass[v].last[c] => Seen(p)
             /\ (c \notin pass[v].todo /\ (pass[v].at = "pick" \/ c # pass[v].ch)) => Accounted(c)
             /\ (c = pass[v].ch /\ pass[v].at = "write") =>
                  \A p \in Live(c) : IsRecent(p) => Seen(p) \/ p \in pass[v].left
  BY <1>s DEF Current, Settled, SeenAfter, At
\* On to the next channel, when this one is accounted for.
<1>n. ASSUME pass'[v] = NextChannel(v), ~At(v, "channels"), ~At(v, "members"), ~At(v, "pick"),
             pass[v].ch \in joined \ leapt => Accounted(pass[v].ch)
      PROVE  Current(v)'
  <2>1. /\ pass'[v].at = "pick" /\ pass'[v].todo = pass[v].todo
        /\ \A c \in Channels : c # pass[v].ch => pass'[v].last[c] = pass[v].last[c]
    BY <1>n DEF NextChannel, Pass
  <2>2. pass[v].ch \notin pass[v].todo
    <3>1. pass[v].at # "channels" /\ pass[v].at # "members" /\ pass[v].at # "pick"
      BY <1>n DEF At
    <3>. QED  BY <3>1 DEF Current
  <2>3. ASSUME NEW c \in (joined \ leapt)' PROVE Settled(v, c)'
    <3>1. c \in pass'[v].todo => \A p \in Live(c)' : p > pass'[v].last[c] => Seen(p)'
      BY <1>c, <1>n, <1>s, <2>1, <2>2, <2>3
    <3>2. c \notin pass'[v].todo => Accounted(c)'
      BY <1>c, <1>n, <1>s, <2>1, <2>3
    <3>. QED  BY <2>1, <3>1, <3>2, SettledBy
  <2>. QED  BY <2>1, <2>3 DEF Current, At
<1>1. CASE FetchChannels(v)
  <2>1. /\ pass'[v].at = "members" /\ pass'[v].todo = joined /\ joined' = joined
        /\ pass'[v].last = [c \in Channels |-> LastPostAt(c)]
        /\ UNCHANGED <<srvVer, srvDel>>
    BY <1>1 DEF FetchChannels, Becomes, Pass, server
  <2>2. ASSUME NEW c \in (joined \ leapt)' PROVE Settled(v, c)'
    <3>1. c \in Channels /\ pass'[v].last[c] = LastPostAt(c)
      BY <1>c, <2>1, <2>2
    <3>2. \A p \in Live(c)' : p \in Created(c) /\ p \in Nat
      BY <2>1 DEF Live, Created, Posts
    <3>3. LastPostAt(c) \in Nat
      BY <3>1, LastPostAtType
    <3>4. \A p \in Live(c)' : ~(p > pass'[v].last[c])
      BY <3>1, <3>2, <3>3, LastPostIsLast
    <3>. QED  BY <2>1, <2>2, <3>4, SettledBy
  <2>. QED  BY <2>1, <2>2 DEF Current, At
<1>2. CASE FetchMembers(v)
  <2>1. /\ pass'[v].at = "pick" /\ pass'[v].todo = pass[v].todo /\ pass'[v].last = pass[v].last
        /\ pass[v].at = "members"
    BY <1>2 DEF FetchMembers, Becomes, Pass, At
  <2>2. ASSUME NEW c \in (joined \ leapt)' PROVE Settled(v, c)'
    <3>1. c \in pass'[v].todo
      BY <1>c, <1>s, <2>1, <2>2 DEF At
    <3>2. \A p \in Live(c)' : p > pass'[v].last[c] => Seen(p)'
      BY <1>c, <1>s, <2>1, <2>2, <3>1 DEF At
    <3>. QED  BY <2>1, <3>1, <3>2, SettledBy
  <2>. QED  BY <2>1, <2>2 DEF Current, At
<1>3. CASE UpsertChannel(v)
  <2>1. PICK d \in pass[v].todo :
          Becomes(v, [pass[v] EXCEPT !.at = "member", !.ch = d, !.todo = @ \ {d}])
    BY <1>3 DEF UpsertChannel
  <2>2. /\ pass'[v].at = "member" /\ pass'[v].ch = d /\ pass'[v].todo = pass[v].todo \ {d}
        /\ pass'[v].last = pass[v].last /\ pass[v].at = "pick"
    BY <1>3, <2>1 DEF UpsertChannel, Becomes, Pass, At
  <2>3. ASSUME NEW c \in (joined \ leapt)' PROVE Settled(v, c)'
    <3>1. c \in pass[v].todo => \A p \in Live(c)' : p > pass'[v].last[c] => Seen(p)'
      BY <1>c, <1>s, <2>2, <2>3 DEF At
    <3>2. c \notin pass[v].todo => Accounted(c)'
      BY <1>c, <1>s, <2>2, <2>3 DEF At
    <3>3. (c \in pass'[v].todo \/ c = pass'[v].ch) => c \in pass[v].todo
      BY <2>2
    <3>4. (c \notin pass'[v].todo /\ c # pass'[v].ch) => c \notin pass[v].todo
      BY <2>2
    <3>. QED  BY <2>2, <3>1, <3>2, <3>3, <3>4, SettledBy
  <2>. QED  BY <2>2, <2>3 DEF Current, At
<1>4. CASE UpsertMember(v)
  <2>1. /\ pass'[v].at = "cursor" /\ pass'[v].todo = pass[v].todo /\ pass'[v].ch = pass[v].ch
        /\ pass'[v].last = pass[v].last /\ pass[v].at = "member"
    BY <1>0, <1>4 DEF UpsertMember, Becomes, Pass, At
  <2>2. ASSUME NEW c \in (joined \ leapt)' PROVE Settled(v, c)'
    <3>1. (c \in pass'[v].todo \/ c = pass'[v].ch) =>
            \A p \in Live(c)' : p > pass'[v].last[c] => Seen(p)'
      BY <1>c, <1>s, <2>1, <2>2 DEF At
    <3>2. (c \notin pass'[v].todo /\ c # pass'[v].ch) => Accounted(c)'
      BY <1>c, <1>s, <2>1, <2>2 DEF At
    <3>. QED  BY <2>1, <3>1, <3>2, SettledBy
  <2>. QED  BY <2>1, <2>2 DEF Current, At
<1>5. CASE CheckNewest(v)
  <2>. DEFINE c0 == pass[v].ch
  <2>1. pass[v].at = "cursor" /\ c0 \in Channels /\ pass[v].last[c0] \in Nat
    BY <1>5 DEF CheckNewest, At, Pass
  <2>2. CASE pass[v].last[c0] <= newest[c0]
    <3>1. pass'[v] = NextChannel(v)
      BY <1>5, <2>2 DEF CheckNewest, Becomes
    <3>2. ASSUME c0 \in joined \ leapt PROVE Accounted(c0)
      <4>1. SeenAfter(c0, pass[v].last[c0])
        BY <1>s, <2>1, <3>2 DEF SeenAfter, At
      <4>. QED  BY <2>1, <2>2, <3>2, <4>1, SkipIsSound
    <3>. QED  BY <1>n, <2>1, <3>1, <3>2 DEF At
  <2>3. CASE ~(pass[v].last[c0] <= newest[c0])
    <3>1. /\ pass'[v].at = "page" /\ pass'[v].todo = pass[v].todo /\ pass'[v].ch = c0
          /\ \A c \in Channels : c # c0 => pass'[v].last[c] = pass[v].last[c]
      BY <1>5, <2>3 DEF CheckNewest, Becomes, Pass
    <3>2. c0 \notin pass[v].todo
      BY <2>1 DEF Current
    <3>3. ASSUME NEW c \in (joined \ leapt)' PROVE Settled(v, c)'
      <4>1. c \in pass'[v].todo => \A p \in Live(c)' : p > pass'[v].last[c] => Seen(p)'
        BY <1>c, <1>s, <2>1, <3>1, <3>2, <3>3 DEF At
      <4>2. (c \notin pass'[v].todo /\ c # pass'[v].ch) => Accounted(c)'
        BY <1>c, <1>s, <2>1, <3>1, <3>3 DEF At
      <4>. QED  BY <3>1, <4>1, <4>2, SettledBy
    <3>. QED  BY <3>1, <3>2, <3>3 DEF Current, At
  <2>. QED  BY <2>2, <2>3
<1>6. CASE FetchPage(v)
  <2>. DEFINE c0 == pass[v].ch
  <2>1. pass[v].at = "page"
    BY <1>6 DEF FetchPage, At
  <2>2. c0 \notin pass[v].todo
    BY <2>1 DEF Current
  <2>l. \A p \in Live(c0) : IsRecent(p) => p \in Listed(v)
    BY <1>0, PageHoldsRecent
  <2>3. CASE Listed(v) = {}
    <3>1. pass'[v] = NextChannel(v)
      BY <1>0, <1>6, <2>3 DEF FetchPage, Becomes, AfterPages
    <3>2. Accounted(c0)
      BY <2>l, <2>3 DEF Accounted
    <3>. QED  BY <1>n, <2>1, <3>1, <3>2 DEF At
  <2>4. CASE Listed(v) # {}
    <3>1. pass'[v] = Fetching(v)
      BY <1>6, <2>4 DEF FetchPage, Becomes, Fetching
    <3>2. /\ pass'[v].at = "write" /\ pass'[v].todo = pass[v].todo /\ pass'[v].ch = c0
          /\ pass'[v].last = pass[v].last /\ pass'[v].left = Fetched(v)
      BY <3>1 DEF Fetching, Pass
    <3>3. ASSUME NEW c \in (joined \ leapt)' PROVE Settled(v, c)'
      <4>1. c \in pass'[v].todo => \A p \in Live(c)' : p > pass'[v].last[c] => Seen(p)'
        BY <1>c, <1>s, <2>1, <3>2, <3>3 DEF At
      <4>2. (c \notin pass'[v].todo /\ c # pass'[v].ch) => Accounted(c)'
        BY <1>c, <1>s, <2>1, <3>2, <3>3 DEF At
      <4>3. c = c0 => \A p \in Live(c)' : IsRecent(p)' => Seen(p)' \/ p \in pass'[v].left
        BY <1>c, <2>l, <3>2, <3>3 DEF Fetched
      <4>. QED  BY <3>2, <4>1, <4>2, <4>3, SettledBy
    <3>. QED  BY <2>2, <3>2, <3>3 DEF Current, At
  <2>. QED  BY <2>3, <2>4
<1>7. CASE IngestPost(v)
  <2>1. PICK q \in pass[v].left :
          /\ UpsertPost(v, q, pass[v].got[q], pass[v].re[q])
          /\ Becomes(v, [pass[v] EXCEPT !.left = @ \ {q}, !.re[q] = {}])
    BY <1>7 DEF IngestPost
  <2>2. /\ pass'[v].at = pass[v].at /\ pass'[v].todo = pass[v].todo /\ pass'[v].ch = pass[v].ch
        /\ pass'[v].last = pass[v].last /\ pass'[v].left = pass[v].left \ {q}
        /\ pass[v].at = "write"
    BY <1>7, <2>1 DEF IngestPost, Becomes, Pass, At
  <2>3. Seen(q)'
    <3>1. q \in Posts /\ pass[v].got[q] > 0
      BY <2>2 DEF IndInv, PageIngested, Page, At, Pass
    <3>2. rowVer'[q] > 0
      BY <2>1, <3>1 DEF UpsertPost, UpsertRow, TypeOK
    <3>. QED  BY <3>2 DEF Seen
  <2>4. \A p \in pass[v].left : p \in pass'[v].left \/ Seen(p)'
    BY <2>2, <2>3
  <2>5. ASSUME NEW c \in (joined \ leapt)' PROVE Settled(v, c)'
    <3>1. Settled(v, c)
      BY <1>c, <2>2, <2>5 DEF Current, At
    <3>. QED  BY <2>2, <2>4, <3>1, SettledKept
  <2>. QED  BY <2>2, <2>5 DEF Current, At
<1>8. CASE IngestCursor(v)
  <2>1. pass[v].at = "write" /\ pass[v].left = {} /\ pass'[v] = NextChannel(v)
    BY <1>0, <1>8 DEF IngestCursor, Becomes, AfterPages, At
  <2>2. ASSUME pass[v].ch \in joined \ leapt PROVE Accounted(pass[v].ch)
    BY <1>s, <2>1, <2>2 DEF Accounted, At
  <2>. QED  BY <1>n, <2>1, <2>2 DEF At
<1>. QED
  BY <1>1, <1>2, <1>3, <1>4, <1>5, <1>6, <1>7, <1>8, FreshStays DEF PassStep

LEMMA SettledStep ==
  ASSUME IndInv, NewestPageWhole, Connected, SettledSoFar, [Next]_vars PROVE SettledSoFar'
<1>. TypeOK
  BY DEF IndInv
<1>0. Connected'
  BY ConnectedStep
<1>1. ASSUME NEW v \in Threads, pass'[v].fresh PROVE Current(v)'
  <2>1. CASE pass'[v] = Begun("reconcile", TRUE)
    <3>1. pass'[v].at = "channels"
      BY <2>1, IdleType DEF Begun, Pass
    <3>. QED  BY <3>1 DEF Current, At
  <2>2. CASE (pass'[v] = pass[v] \/ PassStep(v)) /\ pass[v].fresh /\ ~Outdated
    <3>1. conn /\ conn'
      BY <1>0, <1>1, <2>2 DEF Connected
    <3>2. Current(v)
      BY <2>2 DEF SettledSoFar, Current
    <3>3. CASE PassStep(v)
      BY <1>1, <2>2, <3>1, <3>2, <3>3, CurrentStep
    <3>4. CASE pass'[v] = pass[v]
      <4>1. ASSUME NEW c \in (joined \ leapt)', ~At(v, "channels") PROVE Settled(v, c)'
        <5>1. c \in joined \ leapt
          BY <2>2, <3>1, Carried, LeaptGrows
        <5>2. Settled(v, c)
          BY <3>2, <4>1, <5>1 DEF Current
        <5>. QED  BY <2>2, <3>1, <3>4, <5>2, SettledKept
      <4>. QED  BY <3>2, <3>4, <4>1 DEF Current, At
    <3>. QED  BY <2>2, <3>3, <3>4
  <2>. QED  BY <1>1, <2>1, <2>2, FreshMoves, Zenon
<1>2. ASSUME caughtUp', NEW c \in (joined \ leapt)' PROVE Accounted(c)'
  <2>1. ~Outdated /\ ~Dead /\ conn'
    BY <1>0, <1>2, Zenon DEF Outdated, Dead, Connected
  <2>2. ~Connect
    <3>1. Connect => main = "connect" /\ caughtUp' = caughtUp
      BY Zenon DEF Connect
    <3>2. ~(caughtUp /\ main = "connect")
      BY DEF Connected
    <3>. QED  BY <1>2, <3>1, <3>2, Zenon
  <2>3. conn' = conn /\ (caughtUp \/ \E w \in Threads : FinishPass(w) /\ pass[w].fresh)
    BY <1>2, <2>1, <2>2, WireMoves, Zenon
  <2>4. conn
    BY <2>1, <2>3, Zenon
  <2>5. c \in joined \ leapt /\ (Accounted(c) => Accounted(c)')
    BY <2>1, <2>4, Carried, LeaptGrows
  <2>6. CASE caughtUp
    BY <2>5, <2>6, Zenon DEF SettledSoFar
  <2>7. ASSUME NEW w \in Threads, FinishPass(w), pass[w].fresh PROVE Accounted(c)
    <3>1. pass[w].at = "pick" /\ pass[w].todo = {}
      BY <2>7 DEF FinishPass, At
    <3>2. Settled(w, c)
      BY <2>5, <2>7, <3>1 DEF SettledSoFar, At
    <3>. QED  BY <3>1, <3>2 DEF Settled, At
  <2>. QED  BY <2>3, <2>5, <2>6, <2>7
<1>. QED  BY <1>1, <1>2 DEF SettledSoFar, Current

--------------------------------------------------------------------------
(* The theorems.                                                            *)

LEMMA RecentInit == ASSUME Init PROVE RecentInv
<1>1. \A w \in Threads : pass[w].at = "idle" /\ pass[w].fresh = FALSE
  BY DEF Init, Idle
<1>2. Ordered
  BY DEF Init, Ordered
<1>3. \A w \in Threads : PageWhole(w)
  BY <1>1 DEF PageWhole, At
<1>4. NewestPageWhole
  BY DEF Init, NewestPageWhole, Live, Created
<1>5. Connected /\ SettledSoFar
  BY <1>1, Zenon DEF Init, Connected, SettledSoFar
<1>. QED  BY <1>2, <1>3, <1>4, <1>5 DEF RecentInv

LEMMA RecentStep == ASSUME IndInv, RecentInv, [Next]_vars PROVE IndInv' /\ RecentInv'
<1>. TypeOK /\ InFlightReal /\ CursorBacked
  BY DEF IndInv
<1>1. IndInv'
  BY IndInvStep
<1>2. Ordered'
  BY OrderedStep DEF RecentInv
<1>3. ASSUME NEW w \in Threads PROVE PageWhole(w)'
  BY PageWholeStep DEF RecentInv
<1>4. NewestPageWhole'
  <2>1. \A c \in Channels \ leapt : Whole(c)
    BY WholeIs DEF RecentInv
  <2>2. ASSUME NEW c \in (Channels \ leapt)' PROVE Whole(c)'
    BY <2>1, LeaptGrows, WholeStep DEF RecentInv
  <2>3. TypeOK' /\ InFlightReal' /\ CursorBacked'
    BY <1>1 DEF IndInv
  <2>4. (TypeOK /\ InFlightReal /\ CursorBacked /\ Ordered =>
           (NewestPageWhole <=> \A c \in Channels \ leapt : Whole(c)))'
    BY WholeIs, PTL
  <2>. QED  BY <1>2, <2>2, <2>3, <2>4
<1>5. Connected' /\ SettledSoFar'
  BY ConnectedStep, SettledStep DEF RecentInv
<1>. QED  BY <1>1, <1>2, <1>3, <1>4, <1>5 DEF RecentInv

\* The inductive invariant of what is recent.  A page fetched has no hole near its
\* newest post (PageWhole), so that the cursor set behind it has none
\* (NewestPageWhole); a Reconcile that began on the connection that is up then
\* settles channel after channel, while the connection brings what is posted
\* meanwhile (Connected, SettledSoFar).
THEOREM RecentInductive == Spec => [](IndInv /\ RecentInv)
<1>1. Init => IndInv /\ RecentInv
  BY IndInvInit, RecentInit
<1>2. (IndInv /\ RecentInv) /\ [Next]_vars => (IndInv /\ RecentInv)'
  BY RecentStep
<1>. QED  BY <1>1, <1>2, PTL DEF Spec

\* Reconcile's test, LastPostAt <= newest_synced_at, is sound while no page of
\* older posts has moved the cursor: a page behind the newest post synced no live
\* post is missing, whatever pass wrote the cursor and wherever the passes before
\* it stopped (ingestPosts, NewestPostAt).
THEOREM NewestPageIsWhole == Spec => []NewestPageWhole
BY RecentInductive, PTL DEF RecentInv

\* What mm sync status shows as healthy is: connected, drained and reconciled, no
\* recent post of the user's channels is missing from the cache, but where a page
\* of older posts moved the cursor, through any interleaving of the threads,
\* dropped connections, failed calls, crashes, and channels left and joined
\* (webSocketLoop: connect first, Reconcile after).
THEOREM NothingIsMissed == Spec => []NothingMissed
<1>1. ASSUME IndInv, RecentInv PROVE NothingMissed
  <2>. SUFFICES ASSUME AtRest, NEW c \in joined \ leapt, NEW p \in Live(c),
                       Cardinality(NewerIn(Created(c), p)) < MinBackfill
                PROVE  rowVer[p] > 0
    BY DEF NothingMissed
  <2>1. ChannelOf[p] = c
    BY DEF Live, Created
  <2>2. Seen(p)
    BY <1>1, <2>1 DEF RecentInv, SettledSoFar, AtRest, Accounted, IsRecent
  <2>3. Len(events) = 0
    BY DEF AtRest
  <2>. QED  BY <2>2, <2>3 DEF Seen
<1>. QED  BY <1>1, RecentInductive, PTL

--------------------------------------------------------------------------
(* What mm messages answers from the cache.                                 *)

\* A row is marked deleted only if the post was: that much the replica promises.
DeletedIsReal == \A p \in Posts : rowDel[p] => srvDel[p]

LEMMA DeletedStep == ASSUME IndInv, DeletedIsReal, [Next]_vars PROVE DeletedIsReal'
<1>. rowDel \in [Posts -> BOOLEAN] /\ srvDel \in [Posts -> BOOLEAN]
  BY DEF IndInv, TypeOK
<1>1. [Copy!Next]_(Copy!vars)
  BY CopyStep
<1>2. ASSUME NEW p \in Posts, Copy!Write(p) PROVE DeletedIsReal'
  BY <1>2 DEF DeletedIsReal, Copy!Write
<1>3. ASSUME NEW p \in Posts, Copy!Delete(p) PROVE DeletedIsReal'
  BY <1>3 DEF DeletedIsReal, Copy!Delete
<1>4. ASSUME NEW p \in Posts, Copy!React(p) PROVE DeletedIsReal'
  BY <1>4 DEF DeletedIsReal, Copy!React
<1>5. ASSUME NEW p \in Posts, Copy!Hear(p) PROVE DeletedIsReal'
  BY <1>5 DEF DeletedIsReal, Copy!Hear, Copy!HearPost, Copy!HearReactions
<1>6. UNCHANGED Copy!vars => DeletedIsReal'
  BY DEF DeletedIsReal, Copy!vars
<1>. QED
  BY <1>1, <1>2, <1>3, <1>4, <1>5, <1>6 DEF Copy!Next, Copy!Posts, Posts

\* A set of posts that is not empty has a newest.
LEMMA NewestExists ==
  ASSUME NEW S \in SUBSET Posts, S # {} PROVE \E x \in S : \A y \in S : y <= x
<1>. DEFINE T == {MaxPost - x : x \in S}
<1>1. MaxPost \in Nat /\ \A x \in S : x \in Nat /\ x <= MaxPost
  BY ServerAssumption DEF Posts
<1>2. T \in SUBSET Nat /\ T # {}
  BY <1>1
<1>3. PICK t \in T : \A u \in T : t <= u
  <2>. HIDE DEF T
  <2>. QED  BY <1>2, LeastExists
<1>4. PICK x \in S : t = MaxPost - x
  BY <1>3
<1>5. \A y \in S : MaxPost - y \in T
  OBVIOUS
<1>6. ASSUME NEW y \in S PROVE y <= x
  <2>1. MaxPost - x <= MaxPost - y
    BY <1>3, <1>4, <1>5
  <2>. QED  BY <1>1, <2>1
<1>. QED  BY <1>6

\* How many posts of S are newer than p.
Above(S, p) == Cardinality(NewerIn(S, p))

LEMMA AboveFewer ==
  ASSUME NEW S \in SUBSET Posts, NEW T \in SUBSET Posts, NEW p, NEW q,
         NewerIn(T, q) \subseteq NewerIn(S, p)
  PROVE  Above(T, q) \in Nat /\ Above(S, p) \in Nat /\ Above(T, q) <= Above(S, p)
<1>1. NewerIn(S, p) \in SUBSET Posts
  BY DEF NewerIn
<1>. QED  BY <1>1, FewerPosts DEF Above

\* selectRecentMessages cuts first by time, then by count; the count is the same
\* before the first cut.
LEMMA SelectIs ==
  ASSUME NEW S \in SUBSET Posts, NEW t \in Nat, NEW l \in Nat
  PROVE  selectRecentMessages(S, t, l) = {p \in S : p >= t /\ (l = 0 \/ Above(S, p) < l)}
<1>1. ASSUME NEW p \in S, p >= t PROVE NewerIn({q \in S : q >= t}, p) = NewerIn(S, p)
  <2>1. \A q \in S : q \in Nat
    BY ServerAssumption DEF Posts
  <2>. QED  BY <1>1, <2>1 DEF NewerIn
<1>2. CASE l = 0
  BY <1>2 DEF selectRecentMessages
<1>3. CASE l # 0
  BY <1>1, <1>3 DEF selectRecentMessages, Above
<1>. QED  BY <1>2, <1>3

\* Where the live path's one page is enough, the answer is that of the whole channel.
LEMMA LiveAnswer ==
  ASSUME NEW c \in Channels, NEW t \in Nat, NEW l \in Nat, FitsPage(c, t, l)
  PROVE  runMessages(c, t, l) = selectRecentMessages(Live(c), t, l)
<1>. DEFINE L == Live(c)
            size == IF l = 0 \/ t > 0 \/ l > PageSize THEN PageSize ELSE l
            P == PageOf(L, 0, size)
<1>0. L \in SUBSET Posts /\ \A p \in L : p \in Nat
  BY ServerAssumption DEF Live, Created, Posts
<1>1. size \in Nat /\ (l \in 1..PageSize => l <= size) /\ (l \notin 1..PageSize => size = PageSize)
  BY SizesAssumption
<1>2. runMessages(c, t, l) = selectRecentMessages(P, t, l)
  BY DEF runMessages
<1>. HIDE DEF L, size
<1>3. \A p \in L : Above(L, p) \in Nat
  BY <1>0, AboveFewer
<1>4. P = {p \in L : Above(L, p) < size}
  <2>1. 0 * size = 0 /\ (0 + 1) * size = size
    BY <1>1, Times
  <2>. QED  BY <1>3, <2>1 DEF PageOf, Above
<1>. HIDE DEF P
<1>5. ASSUME NEW p \in P PROVE Above(P, p) = Above(L, p)
  <2>1. ASSUME NEW q \in L, q > p PROVE q \in P
    <3>1. NewerIn(L, q) \subseteq NewerIn(L, p)
      BY <1>0, <1>4, <2>1 DEF NewerIn
    <3>. QED  BY <1>0, <1>1, <1>4, <3>1, AboveFewer
  <2>2. NewerIn(P, p) = NewerIn(L, p)
    BY <1>4, <2>1 DEF NewerIn
  <2>. QED  BY <2>2 DEF Above
<1>6. ASSUME NEW p \in L, p >= t, l = 0 \/ Above(L, p) < l PROVE p \in P
  <2>1. CASE l \notin 1..PageSize
    <3>. DEFINE R == {q \in L : q >= t}
    <3>1. Cardinality(R) <= PageSize /\ R \in SUBSET Posts
      BY <1>0, <2>1 DEF FitsPage, L
    <3>2. Above(L, p) < Cardinality(R)
      <4>1. NewerIn(L, p) \in SUBSET R /\ p \in R /\ p \notin NewerIn(L, p)
        BY <1>0, <1>6 DEF NewerIn
      <4>. HIDE DEF R
      <4>2. IsFiniteSet(R)
        BY <3>1, PostsFinite
      <4>3. Above(L, p) # Cardinality(R)
        BY <4>1, <4>2, FS_Subset DEF Above
      <4>. QED  BY <3>1, <4>1, <4>3, FewerPosts DEF Above
    <3>. QED  BY <1>1, <1>3, <1>4, <2>1, <3>1, <3>2, PostsFinite, SizesAssumption
  <2>2. CASE l \in 1..PageSize
    BY <1>1, <1>3, <1>4, <1>6, <2>2, SizesAssumption
  <2>. QED  BY <2>1, <2>2
<1>7. P \in SUBSET Posts
  BY <1>0, <1>4
<1>8. selectRecentMessages(P, t, l) = {p \in P : p >= t /\ (l = 0 \/ Above(P, p) < l)}
  BY <1>7, SelectIs
<1>9. selectRecentMessages(L, t, l) = {p \in L : p >= t /\ (l = 0 \/ Above(L, p) < l)}
  BY <1>0, SelectIs
<1>10. selectRecentMessages(P, t, l) = selectRecentMessages(L, t, l)
  BY <1>4, <1>5, <1>6, <1>8, <1>9
<1>. QED  BY <1>2, <1>10 DEF L

\* If nothing wanted of L is missing from its part H, then H gives what L gives:
\* the newest of L that H lacks would itself be wanted.
LEMMA PartAnswers ==
  ASSUME NEW L \in SUBSET Posts, NEW H \in SUBSET L, NEW t \in Nat, NEW l \in Nat,
         \A p \in L : p >= t /\ (l = 0 \/ Above(L, p) < l) => p \in H
  PROVE  selectRecentMessages(H, t, l) = selectRecentMessages(L, t, l)
<1>0. H \in SUBSET Posts /\ \A p \in L : p \in Nat
  BY ServerAssumption DEF Posts
<1>1. \A p \in L : Above(H, p) \in Nat /\ Above(L, p) \in Nat /\ Above(H, p) <= Above(L, p)
  <2>. SUFFICES ASSUME NEW p \in L
                PROVE  Above(H, p) \in Nat /\ Above(L, p) \in Nat /\ Above(H, p) <= Above(L, p)
    OBVIOUS
  <2>1. NewerIn(H, p) \subseteq NewerIn(L, p)
    BY DEF NewerIn
  <2>. QED  BY <1>0, <2>1, AboveFewer
<1>2. ASSUME NEW p \in H, p >= t, l # 0, Above(H, p) < l PROVE Above(L, p) < l
  <2>. DEFINE Lacking == {q \in L : q > p /\ q \notin H}
  <2>1. CASE Lacking = {}
    <3>1. NewerIn(L, p) = NewerIn(H, p)
      BY <2>1 DEF NewerIn
    <3>. QED  BY <1>2, <3>1 DEF Above
  <2>2. CASE Lacking # {}
    <3>0. Lacking \in SUBSET Posts
      OBVIOUS
    <3>1. PICK q \in Lacking : \A r \in Lacking : r <= q
      <4>. HIDE DEF Lacking
      <4>. QED  BY <2>2, <3>0, NewestExists
    <3>2. q \in L /\ q > p /\ q \notin H /\ q >= t
      BY <1>0, <1>2
    <3>3. ASSUME NEW r \in L, r > q PROVE r \in H /\ r > p
      BY <1>0, <3>1, <3>2, <3>3
    <3>4. NewerIn(L, q) \subseteq NewerIn(H, p)
      BY <3>3 DEF NewerIn
    <3>5. Above(L, q) \in Nat /\ Above(H, p) \in Nat /\ Above(L, q) <= Above(H, p)
      BY <1>0, <3>4, AboveFewer
    <3>6. Above(L, q) < l
      BY <1>2, <3>5
    <3>. QED  BY <3>2, <3>6
  <2>. QED  BY <2>1, <2>2
<1>3. selectRecentMessages(H, t, l) = {p \in H : p >= t /\ (l = 0 \/ Above(H, p) < l)}
  BY <1>0, SelectIs
<1>4. selectRecentMessages(L, t, l) = {p \in L : p >= t /\ (l = 0 \/ Above(L, p) < l)}
  BY SelectIs
<1>5. ASSUME NEW p \in H, p >= t, l = 0 \/ Above(H, p) < l PROVE l = 0 \/ Above(L, p) < l
  BY <1>2, <1>5
<1>6. ASSUME NEW p \in L, p >= t, l = 0 \/ Above(L, p) < l
      PROVE  p \in H /\ (l = 0 \/ Above(H, p) < l)
  BY <1>1, <1>6
<1>. QED  BY <1>3, <1>4, <1>5, <1>6

\* At rest, and if nothing was ever deleted, the cache holds what is wanted.
LEMMA WantedIsHeld ==
  ASSUME IndInv, NothingMissed, DeletedIsReal, AtRest, \A p \in Posts : ~srvDel[p],
         NEW c \in joined \ leapt, NEW t \in Nat, NEW l \in Nat,
         Covered(c, t, l), NoHole(c) \/ Recent(c, t, l)
  PROVE  /\ ChannelPosts(c) \subseteq Live(c) /\ Live(c) \subseteq Posts
         /\ \A p \in Live(c) : p >= t /\ (l = 0 \/ Above(Live(c), p) < l) => p \in ChannelPosts(c)
<1>. DEFINE L == Live(c)
            H == ChannelPosts(c)
<1>0. TypeOK /\ InFlightReal
  BY DEF IndInv
<1>1. L \in SUBSET Posts /\ L = Created(c) /\ \A p \in L : p \in Nat
  BY ServerAssumption DEF Live, Created, Posts
<1>2. H = {p \in Posts : ChannelOf[p] = c /\ rowVer[p] > 0}
  BY DEF ChannelPosts, DeletedIsReal
<1>3. H \subseteq L
  BY <1>0, <1>1, <1>2, ServerAssumption DEF Created, InFlightReal, TypeOK
<1>4. \A p \in L : rowVer[p] > 0 => p \in H
  BY <1>1, <1>2 DEF Created
<1>5. \A p \in L : Above(L, p) < MinBackfill => rowVer[p] > 0
  BY <1>1 DEF NothingMissed, Above
<1>6. \A p \in L : Above(L, p) \in Nat
  BY <1>1, AboveFewer
<1>7. ASSUME NEW p \in L, p >= t, l = 0 \/ Above(L, p) < l PROVE p \in H
  <2>1. CASE NoHole(c)
    <3>1. \A q \in H : p > q => p \in H
      BY <1>4, <2>1 DEF NoHole
    <3>2. CASE t > 0
      <4>1. PICK q \in H : q <= t
        BY <3>2 DEF Covered
      <4>2. q \in Nat /\ p \in Nat
        BY <1>1, <1>3
      <4>. QED  BY <1>7, <3>1, <4>1, <4>2
    <3>3. CASE ~(t > 0)
      <4>1. l > 0 /\ Cardinality(H) >= l
        BY <3>3 DEF Covered
      <4>2. SUFFICES ASSUME p \notin H PROVE FALSE
        OBVIOUS
      <4>3. \A q \in H : q > p
        BY <1>1, <1>3, <3>1, <4>2
      <4>4. H \subseteq NewerIn(L, p) /\ NewerIn(L, p) \in SUBSET Posts
        BY <1>1, <1>3, <4>3 DEF NewerIn
      <4>5. Cardinality(H) \in Nat /\ Cardinality(H) <= Above(L, p)
        BY <4>4, FewerPosts DEF Above
      <4>. QED  BY <1>6, <1>7, <4>1, <4>5
    <3>. QED  BY <3>2, <3>3
  <2>2. CASE l \in 1..MinBackfill
    <3>1. Above(L, p) < MinBackfill
      BY <1>6, <1>7, <2>2, SizesAssumption
    <3>. QED  BY <1>4, <1>5, <3>1
  <2>3. CASE Cardinality({q \in L : q >= t}) <= MinBackfill
    <3>. DEFINE R == {q \in L : q >= t}
    <3>1. NewerIn(L, p) \in SUBSET R /\ p \in R /\ p \notin NewerIn(L, p) /\ R \in SUBSET Posts
      BY <1>1, <1>7 DEF NewerIn
    <3>. HIDE DEF L
    <3>2. Cardinality(R) <= MinBackfill
      BY <2>3
    <3>. HIDE DEF R
    <3>3. IsFiniteSet(R) /\ Cardinality(R) \in Nat /\ Above(L, p) <= Cardinality(R)
      BY <3>1, PostsFinite, FewerPosts DEF Above
    <3>4. Above(L, p) # Cardinality(R)
      BY <3>1, <3>3, FS_Subset DEF Above
    <3>5. Above(L, p) < MinBackfill
      BY <1>6, <3>2, <3>3, <3>4, SizesAssumption
    <3>. QED  BY <1>4, <1>5, <3>5
  <2>. QED  BY <2>1, <2>2, <2>3 DEF Recent
<1>. QED  BY <1>1, <1>3, <1>7

\* The tests by which messagesLocal trusts the cache are right where nothing was
\* deleted: at rest, for any --since and --limit, mm messages answers from it what
\* it would answer live, if no outage left a hole or the answer is about no more
\* posts than a Reconcile fetches, and if the live answer fits the page the server
\* gives (beyond it the cache gives more).  The cut by count of the part that is
\* held and that of the whole channel are the same cut.
THEOREM CoveredAnswersAreRight == Spec => []CoveredIsRight
<1>1. ASSUME IndInv, NothingMissed, DeletedIsReal PROVE CoveredIsRight
  <2>. SUFFICES ASSUME AtRest, \A p \in Posts : ~srvDel[p],
                       NEW c \in joined \ leapt, NEW t \in Sinces, NEW l \in Limits,
                       Covered(c, t, l), FitsPage(c, t, l), NoHole(c) \/ Recent(c, t, l)
                PROVE  messagesLocal(c, t, l) = runMessages(c, t, l)
    BY <1>1 DEF CoveredIsRight
  <2>1. t \in Nat /\ l \in Nat /\ c \in Channels
    BY <1>1, ServerAssumption DEF Sinces, Limits, IndInv, TypeOK
  <2>2. /\ ChannelPosts(c) \subseteq Live(c) /\ Live(c) \subseteq Posts
        /\ \A p \in Live(c) :
             p >= t /\ (l = 0 \/ Above(Live(c), p) < l) => p \in ChannelPosts(c)
    BY <1>1, <2>1, WantedIsHeld
  <2>3. selectRecentMessages(ChannelPosts(c), t, l) = selectRecentMessages(Live(c), t, l)
    BY <2>1, <2>2, PartAnswers
  <2>4. runMessages(c, t, l) = selectRecentMessages(Live(c), t, l)
    BY <2>1, LiveAnswer
  <2>. QED  BY <2>3, <2>4 DEF messagesLocal
<1>2. Init => DeletedIsReal
  BY DEF Init, DeletedIsReal
<1>3. IndInv /\ DeletedIsReal /\ [Next]_vars => DeletedIsReal'
  BY DeletedStep
<1>. QED  BY <1>1, <1>2, <1>3, Inductive, NothingIsMissed, PTL DEF Spec
=============================================================================
