---------------------------- MODULE Inbox_proofs ----------------------------
(***************************************************************************)
(* Proofs about Inbox for any number of agents, posts and limits.          *)
(*                                                                         *)
(* The watermark is what some mm seen carried, that what some mm new had   *)
(* shown or the clock, and a listing what followed an earlier watermark.   *)
(* So the same is shown of all four: nothing behind them is unaccounted    *)
(* for (Settled), and this stays so while the history grows.               *)
(***************************************************************************)
EXTENDS Inbox, TLAPS

\* The history grows, and a post that is cached behind one listed is late.
Grown ==
  /\ listed \subseteq listed' /\ late \subseteq late' /\ waived <= waived'
  /\ \A p \in cached : createAt'[p] = createAt[p]
  /\ listed' \subseteq cached'
  /\ \A p \in cached' \ cached :
       \A q \in listed : createAt'[p] <= createAt[q] => p \in late'

\* What holds of a time that is settled holds of it after any step.
LEMMA SettledStays ==
  ASSUME TypeOK, TypeOK', listed \subseteq cached, Grown,
         \A p \in cached' \ cached : waived = waived' /\ createAt'[p] = createAt[p]
  PROVE  \A t \in Int : Settled(t) =>
           /\ \A p \in cached' \cap Others : createAt'[p] <= t => Excused(p)'
           /\ t <= waived' \/ \E q \in listed' : t <= createAt'[q]
<1>. SUFFICES ASSUME NEW t \in Int, Settled(t)
              PROVE  /\ \A p \in cached' \cap Others : createAt'[p] <= t => Excused(p)'
                     /\ t <= waived' \/ \E q \in listed' : t <= createAt'[q]
  OBVIOUS
<1>. USE DEF TypeOK
<1>1. t <= waived' \/ \E q \in listed' : t <= createAt'[q]
  BY DEF Settled, Grown, Posts
<1>2. ASSUME NEW p \in cached' \cap Others, createAt'[p] <= t PROVE Excused(p)'
  <2>1. CASE p \in cached
    <3>1. Excused(p)
      BY <2>1, <1>2 DEF Settled, Behind, Grown
    <3>. QED  BY <2>1, <3>1 DEF Excused, Grown, Posts
  <2>2. CASE p \notin cached
    <3>1. t <= waived \/ \E q \in listed : t <= createAt[q]
      BY DEF Settled
    <3>. QED  BY <1>2, <2>2, <3>1 DEF Excused, Grown, Posts
  <2>. QED  BY <2>1, <2>2
<1>. QED  BY <1>1, <1>2

\* The page of a listing: what follows its floor, up to the last post shown.
LEMMA ShownSettles ==
  ASSUME TypeOK, NEW a \in Agents, floor[a] # NotListing, Settled(floor[a]),
         NEW authored \in {Others, Posts}, NEW page \in SUBSET After(a, authored),
         \A p \in page, q \in After(a, authored) \ page : createAt[p] <= createAt[q],
         NEW q \in page, \A r \in page : createAt[r] <= createAt[q],
         listed' = listed \cup page, UNCHANGED <<createAt, cached, late, waived>>
  PROVE  /\ \A p \in cached' \cap Others : createAt'[p] <= createAt[q] => Excused(p)'
         /\ \E r \in listed' : createAt[q] <= createAt'[r]
<1>. USE DEF TypeOK, NotListing
<1>1. q \in Posts /\ createAt[q] \in Nat /\ floor[a] \in Nat
  BY DEF After
<1>2. ASSUME NEW p \in cached' \cap Others, createAt'[p] <= createAt[q] PROVE Excused(p)'
  <2>. createAt[p] \in Nat /\ p \in cached
    BY <1>2
  <2>1. CASE createAt[p] <= floor[a]
    <3>1. Excused(p)
      BY <2>1, <1>2 DEF Settled, Behind
    <3>. QED  BY <3>1 DEF Excused
  <2>2. CASE p \in page
    BY <2>2 DEF Excused
  <2>3. CASE createAt[p] > floor[a] /\ p \notin page
    <3>1. createAt[q] <= createAt[p]
      BY <2>3, <1>2 DEF After, Posts
    <3>2. createAt'[q] = createAt'[p] /\ q \in listed'
      BY <3>1, <1>1, <1>2
    <3>. QED  BY <3>2 DEF Excused
  <2>. QED  BY <2>1, <2>2, <2>3, <1>1
<1>. QED  BY <1>1, <1>2

--------------------------------------------------------------------------
LEMMA TypeStep == IndInv /\ [Next]_vars => TypeOK'
<1>. SUFFICES ASSUME IndInv, [Next]_vars PROVE TypeOK'
  OBVIOUS
<1>. USE InboxAssumption DEF IndInv, TypeOK, NotListing, AtLeast, agents, history
<1>1. CASE Tick
  BY <1>1 DEF Tick
<1>2. ASSUME NEW p \in Posts, MakePost(p) PROVE TypeOK'
  BY <1>2 DEF MakePost
<1>3. ASSUME NEW p \in Posts, Cache(p) PROVE TypeOK'
  BY <1>3 DEF Cache
<1>4. ASSUME NEW a \in Agents, ReadFloor(a) PROVE TypeOK'
  BY <1>4 DEF ReadFloor
<1>5. ASSUME NEW a \in Agents, New(a) PROVE TypeOK'
  <2>1. PICK page \in SUBSET Posts : Show(a, page)
    BY <1>5 DEF New, After
  <2>2. \A q \in page : createAt[q] \in Nat
    OBVIOUS
  <2>. QED  BY <2>1, <2>2 DEF Show
<1>6. ASSUME NEW a \in Agents, Seen(a) PROVE TypeOK'
  BY <1>6 DEF Seen
<1>7. ASSUME NEW a \in Agents, SeenFails(a) PROVE TypeOK'
  BY <1>7 DEF SeenFails
<1>8. ASSUME NEW a \in Agents, handleSeen(a) PROVE TypeOK'
  BY <1>8 DEF handleSeen
<1>10. ASSUME NEW a \in Agents, NewFails(a) PROVE TypeOK'
  BY <1>10 DEF NewFails
<1>9. CASE UNCHANGED vars
  BY <1>9 DEF vars
<1>. QED  BY <1>1, <1>2, <1>3, <1>4, <1>5, <1>6, <1>7, <1>8, <1>9, <1>10 DEF Next

LEMMA GrownStep ==
  IndInv /\ [Next]_vars =>
    /\ Grown /\ waived' <= now' /\ (\A p \in cached' : createAt'[p] > 0)
    /\ \A p \in cached' \ cached : waived = waived' /\ createAt'[p] = createAt[p]
<1>. DEFINE Goal ==
       /\ Grown /\ waived' <= now' /\ (\A p \in cached' : createAt'[p] > 0)
       /\ \A p \in cached' \ cached : waived = waived' /\ createAt'[p] = createAt[p]
<1>. SUFFICES ASSUME IndInv, [Next]_vars PROVE Goal
  OBVIOUS
<1>. USE InboxAssumption DEF IndInv, TypeOK, Grown, AtLeast, agents, history
<1>1. CASE Tick
  BY <1>1 DEF Tick
<1>2. ASSUME NEW p \in Posts, MakePost(p) PROVE Goal
  BY <1>2 DEF MakePost
<1>3. ASSUME NEW p \in Posts, Cache(p) PROVE Goal
  BY <1>3 DEF Cache
<1>4. ASSUME NEW a \in Agents, ReadFloor(a) PROVE Goal
  BY <1>4 DEF ReadFloor
<1>5. ASSUME NEW a \in Agents, New(a) PROVE Goal
  BY <1>5 DEF New, After, Show
<1>6. ASSUME NEW a \in Agents, Seen(a) PROVE Goal
  BY <1>6 DEF Seen
<1>7. ASSUME NEW a \in Agents, SeenFails(a) PROVE Goal
  BY <1>7 DEF SeenFails
<1>8. ASSUME NEW a \in Agents, handleSeen(a) PROVE Goal
  BY <1>8 DEF handleSeen
<1>10. ASSUME NEW a \in Agents, NewFails(a) PROVE Goal
  BY <1>10 DEF NewFails
<1>9. CASE UNCHANGED vars
  BY <1>9 DEF vars
<1>. QED  BY <1>1, <1>2, <1>3, <1>4, <1>5, <1>6, <1>7, <1>8, <1>9, <1>10 DEF Next
--------------------------------------------------------------------------
\* The watermarks on their way, after a step.
Marks ==
  /\ Settled(cursor)
  /\ \A a \in Agents : Settled(floor[a]) /\ Settled(last[a]) /\ Settled(sending[a])

LEMMA MarksStep == IndInv /\ [Next]_vars => Marks'
<1>. SUFFICES ASSUME IndInv, [Next]_vars PROVE Marks'
  OBVIOUS
<1>. DEFINE Then(t) ==
       /\ \A p \in cached' \cap Others : createAt'[p] <= t => Excused(p)'
       /\ t <= waived' \/ \E q \in listed' : t <= createAt'[q]
<1>a. TypeOK /\ TypeOK' /\ Grown
  BY TypeStep, GrownStep DEF IndInv
<1>b. \A t \in Int : Settled(t) => Then(t)
  BY <1>a, GrownStep, SettledStays DEF IndInv
<1>c. /\ cursor \in Int
      /\ \A a \in Agents : floor[a] \in Int /\ last[a] \in Int /\ sending[a] \in Int
  BY <1>a DEF TypeOK, NotListing
<1>d. /\ Then(cursor)
      /\ \A a \in Agents : Then(floor[a]) /\ Then(last[a]) /\ Then(sending[a])
  BY <1>b, <1>c DEF IndInv
<1>e. \A t \in Int : t <= waived' => Then(t)
  BY <1>a DEF TypeOK, Excused, Posts
<1>f. ASSUME Then(cursor'),
             \A a \in Agents : Then(floor'[a]) /\ Then(last'[a]) /\ Then(sending'[a])
      PROVE  Marks'
  BY <1>f DEF Marks, Settled, Behind
<1>. HIDE DEF Then
<1>n. Then(0) /\ Then(NotListing)
  BY <1>a, <1>e DEF TypeOK, NotListing
<1>1. CASE Tick
  BY <1>1, <1>d, <1>f DEF Tick, agents
<1>2. ASSUME NEW p \in Posts, MakePost(p) PROVE Marks'
  BY <1>2, <1>d, <1>f DEF MakePost, agents
<1>3. ASSUME NEW p \in Posts, Cache(p) PROVE Marks'
  BY <1>3, <1>d, <1>f DEF Cache, agents
<1>4. ASSUME NEW a \in Agents, ReadFloor(a) PROVE Marks'
  <2>1. PICK since \in Sinces : /\ floor' = [floor EXCEPT ![a] = AtLeast(cursor, since)]
                                /\ waived' = AtLeast(waived, since)
    BY <1>4 DEF ReadFloor
  <2>2. Then(AtLeast(cursor, since))
    BY <2>1, <1>a, <1>d, <1>e, InboxAssumption DEF AtLeast, TypeOK
  <2>3. \A b \in Agents : Then(floor'[b])
    BY <2>1, <2>2, <1>a, <1>d DEF TypeOK
  <2>. QED  BY <1>4, <2>3, <1>d, <1>f DEF ReadFloor
<1>5. ASSUME NEW a \in Agents, New(a) PROVE Marks'
  <2>0. PICK authored \in {Others, Posts} :
          \E page \in SUBSET After(a, authored) :
            /\ \A p \in page, q \in After(a, authored) \ page : createAt[p] <= createAt[q]
            /\ Show(a, page)
    BY <1>5 DEF New
  <2>1. PICK page \in SUBSET After(a, authored) :
          /\ \A p \in page, q \in After(a, authored) \ page : createAt[p] <= createAt[q]
          /\ Show(a, page)
    BY <2>0
  <2>2. \A b \in Agents : Then(last'[b])
    <3>1. CASE UNCHANGED last
      BY <3>1, <1>d
    <3>2. ASSUME NEW q \in page, \A r \in page : createAt[r] <= createAt[q],
                 last' = [last EXCEPT ![a] = createAt[q]]
          PROVE  \A b \in Agents : Then(last'[b])
      <4>1. Then(createAt[q])
        <5>1. Settled(floor[a]) /\ floor[a] # NotListing
          BY <1>5 DEF New, IndInv
        <5>2. listed' = listed \cup page /\ UNCHANGED <<createAt, cached, late, waived>>
          BY <2>1 DEF Show
        <5>. QED  BY <5>1, <5>2, <3>2, <2>1, <1>a, ShownSettles DEF Then
      <4>. QED  BY <4>1, <3>2, <1>a, <1>d DEF TypeOK
    <3>. QED  BY <3>1, <3>2, <2>1 DEF Show
  <2>3. \A b \in Agents : Then(floor'[b])
    BY <2>1, <1>a, <1>d, <1>n DEF Show, TypeOK
  <2>. QED  BY <2>1, <2>2, <2>3, <1>d, <1>f DEF Show
<1>6. ASSUME NEW a \in Agents, Seen(a) PROVE Marks'
  <2>1. CASE sending' = [sending EXCEPT ![a] = now] /\ waived' = now
    <3>1. Then(now)
      BY <2>1, <1>a, <1>e DEF TypeOK
    <3>2. \A b \in Agents : Then(sending'[b])
      BY <2>1, <3>1, <1>a, <1>d DEF TypeOK
    <3>. QED  BY <1>6, <3>2, <1>d, <1>f DEF Seen
  <2>2. ASSUME NEW at \in 1..last[a], sending' = [sending EXCEPT ![a] = at]
        PROVE  Marks'
    <3>1. Then(last[a]) /\ last[a] \in Nat /\ at \in Nat /\ at <= last[a]
      BY <1>a, <1>d DEF TypeOK
    <3>2. Then(at)
      BY <3>1, <1>a DEF Then, TypeOK, Posts
    <3>3. \A b \in Agents : Then(sending'[b])
      BY <2>2, <3>2, <1>a, <1>d DEF TypeOK
    <3>. QED  BY <1>6, <3>3, <1>d, <1>f DEF Seen
  <2>. QED  BY <1>6, <2>1, <2>2 DEF Seen
<1>7. ASSUME NEW a \in Agents, SeenFails(a) PROVE Marks'
  <2>1. \A b \in Agents : Then(sending'[b])
    BY <1>7, <1>a, <1>d, <1>n DEF SeenFails, TypeOK
  <2>. QED  BY <1>7, <2>1, <1>d, <1>f DEF SeenFails
<1>8. ASSUME NEW a \in Agents, handleSeen(a) PROVE Marks'
  <2>1. \A b \in Agents : Then(sending'[b])
    BY <1>8, <1>a, <1>d, <1>n DEF handleSeen, TypeOK
  <2>. QED  BY <1>8, <2>1, <1>d, <1>f DEF handleSeen
<1>10. ASSUME NEW a \in Agents, NewFails(a) PROVE Marks'
  <2>1. \A b \in Agents : Then(floor'[b])
    BY <1>10, <1>a, <1>d, <1>n DEF NewFails, TypeOK
  <2>. QED  BY <1>10, <2>1, <1>d, <1>f DEF NewFails
<1>9. CASE UNCHANGED vars
  BY <1>9, <1>d, <1>f DEF vars, agents
<1>. QED  BY <1>1, <1>2, <1>3, <1>4, <1>5, <1>6, <1>7, <1>8, <1>9, <1>10 DEF Next

--------------------------------------------------------------------------
LEMMA IndInvInit == Init => IndInv
BY InboxAssumption
   DEF Init, IndInv, TypeOK, Settled, Behind, Excused, NotListing, Posts

LEMMA IndInvStep == IndInv /\ [Next]_vars => IndInv'
BY TypeStep, GrownStep, MarksStep DEF IndInv, Marks, Grown

\* The inductive invariant, for any number of agents that share the watermark:
\* every time that any of them has read, been shown or sent is settled.
THEOREM Inductive == Spec => []IndInv
BY IndInvInit, IndInvStep, PTL DEF Spec

\* The watermark of mm seen passes over nothing that mm new has not printed, but
\* for posts that came late, were waived, or shared the millisecond of the last
\* one a page had room for.
THEOREM NothingIsPassedOver == Spec => []NothingPassedOver
<1>1. IndInv => NothingPassedOver
  BY DEF IndInv, Settled, NothingPassedOver
<1>. QED  BY <1>1, Inductive, PTL
=============================================================================
