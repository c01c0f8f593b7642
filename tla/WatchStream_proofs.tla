-------------------------- MODULE WatchStream_proofs --------------------------
(***************************************************************************)
(* Proofs about WatchStream for any events, limit, timeout and number of   *)
(* lost connections: the order of the output, whose events are in it, and  *)
(* what exit 0 means.                                                      *)
(***************************************************************************)
EXTENDS WatchStream, SequenceTheorems, TLAPS

(* Sequences of numbers.                                                     *)

LEMMA AppendIncreasing ==
  ASSUME NEW s \in Seq(Nat), NEW k \in Nat, Increasing(s), Below(s, k)
  PROVE  Increasing(Append(s, k))
BY DEF Increasing, Below

LEMMA AppendBelow ==
  ASSUME NEW s \in Seq(Nat), NEW k \in Nat, NEW n \in Nat, Below(s, n), k < n
  PROVE  Below(Append(s, k), n)
BY DEF Below

LEMMA BelowMore ==
  ASSUME NEW s \in Seq(Nat), NEW m \in Nat, NEW n \in Nat, m <= n, Below(s, m)
  PROVE  Below(s, n)
<1>1. \A i \in 1..Len(s) : s[i] \in Nat
  OBVIOUS
<1>. QED  BY <1>1 DEF Below

\* The head of an increasing sequence is less than all that follows it.
LEMMA TailIncreasing ==
  ASSUME NEW s \in Seq(Nat), s # <<>>, Increasing(s)
  PROVE  /\ Head(s) \in Nat /\ Tail(s) \in Seq(Nat) /\ Len(Tail(s)) = Len(s) - 1
         /\ \A i \in 1..Len(Tail(s)) : i + 1 \in 1..Len(s) /\ Tail(s)[i] = s[i + 1]
         /\ Increasing(Tail(s)) /\ \A i \in 1..Len(Tail(s)) : Head(s) < Tail(s)[i]
<1>1. /\ Head(s) = s[1] /\ Head(s) \in Nat
      /\ Tail(s) \in Seq(Nat) /\ Len(Tail(s)) = Len(s) - 1 /\ Len(s) \in Nat \ {0}
  OBVIOUS
<1>2. \A i \in 1..Len(Tail(s)) : i + 1 \in 1..Len(s) /\ Tail(s)[i] = s[i + 1]
  BY <1>1
<1>3. Increasing(Tail(s))
  BY <1>1, <1>2 DEF Increasing
<1>4. \A i \in 1..Len(Tail(s)) : Head(s) < Tail(s)[i]
  BY <1>1, <1>2 DEF Increasing
<1>. QED  BY <1>1, <1>2, <1>3, <1>4

LEMMA SeqNat ==
  TypeOK => printed \in Seq(Nat) /\ queue \in Seq(Nat)
BY WatchAssumption DEF TypeOK

--------------------------------------------------------------------------
LEMMA TypeStep == IndInv /\ [Next]_vars => TypeOK'
<1>. SUFFICES ASSUME TypeOK, Counted, [Next]_vars PROVE TypeOK'
  BY DEF IndInv
<1>. USE WatchAssumption DEF TypeOK, stream, clock, Exit
<1>1. CASE ServerSends
  <2>1. sent' \in 1..MaxEvents
    BY <1>1 DEF ServerSends
  <2>2. Append(queue, sent') \in Seq(1..MaxEvents)
    BY <2>1
  <2>3. queue' \in Seq(1..MaxEvents)
    BY <1>1, <2>2 DEF ServerSends
  <2>. QED  BY <1>1, <2>1, <2>3 DEF ServerSends
<1>2. CASE Drop
  BY <1>2 DEF Drop
<1>3. CASE Tick
  BY <1>3 DEF Tick
<1>4. CASE Fire
  BY <1>4 DEF Fire
<1>5. CASE Watch
  <2>1. CASE Dial
    BY <2>1 DEF Dial
  <2>2. CASE Connect
    <3>1. <<>> \in Seq(1..MaxEvents)
      OBVIOUS
    <3>2. queue' \in Seq(1..MaxEvents)
      BY <2>2, <3>1 DEF Connect
    <3>. QED  BY <2>2, <3>2 DEF Connect
  <2>3. CASE ConnectFails
    BY <2>3 DEF ConnectFails
  <2>4. CASE Redial
    BY <2>4 DEF Redial
  <2>5. CASE Done
    BY <2>5 DEF Done
  <2>6. CASE Disconnected
    BY <2>6 DEF Disconnected
  <2>7. CASE Take
    <3>1. Head(queue) \in 1..MaxEvents /\ Tail(queue) \in Seq(1..MaxEvents)
      BY <2>7, HeadTailProperties DEF Take
    <3>2. queue' \in Seq(1..MaxEvents) /\ hand' \in 0..MaxEvents
      BY <2>7, <3>1 DEF Take
    <3>. QED  BY <2>7, <3>2 DEF Take
  <2>9. CASE EmitFails
    BY <2>9 DEF EmitFails
  <2>8. CASE Emit
    <3>1. hand \in 1..MaxEvents
      BY <2>8 DEF Emit, Counted
    <3>2. Append(printed, hand) \in Seq(1..MaxEvents)
      BY <3>1
    <3>3. printed' \in Seq(1..MaxEvents)
      BY <2>8, <3>2 DEF Emit
    <3>. QED  BY <2>8, <3>3 DEF Emit
  <2>. QED
    BY <1>5, <2>1, <2>2, <2>3, <2>4, <2>5, <2>6, <2>7, <2>8, <2>9 DEF Watch
<1>6. CASE UNCHANGED vars
  BY <1>6 DEF vars
<1>. QED  BY <1>1, <1>2, <1>3, <1>4, <1>5, <1>6 DEF Next

--------------------------------------------------------------------------
\* Where nothing moves, nothing changes place.
LEMMA OrderedSame ==
  Ordered /\ UNCHANGED <<printed, queue, hand, sent>> => Ordered'
BY DEF Ordered, Increasing, Below

LEMMA OrderedStep == IndInv /\ [Next]_vars => Ordered'
<1>. SUFFICES ASSUME IndInv, [Next]_vars PROVE Ordered'
  OBVIOUS
<1>t. TypeOK /\ TypeOK' /\ Ordered /\ Counted
  BY TypeStep DEF IndInv
<1>s. /\ printed \in Seq(Nat) /\ queue \in Seq(Nat)
      /\ sent \in Nat /\ hand \in Nat
  BY <1>t, SeqNat, WatchAssumption DEF TypeOK
<1>1. CASE ServerSends
  <2>1. /\ sent' = sent + 1 /\ UNCHANGED <<printed, hand>>
        /\ queue' \in {queue, Append(queue, sent + 1)}
    BY <1>1 DEF ServerSends, clock
  <2>2. Below(printed, sent + 2) /\ Below(queue, sent + 2)
    BY <1>t, <1>s, BelowMore DEF Ordered
  <2>3. CASE queue' = queue
    BY <2>1, <2>2, <2>3, <1>t, <1>s DEF Ordered, Increasing
  <2>4. CASE queue' = Append(queue, sent + 1)
    <3>1. Increasing(queue') /\ Below(queue', sent + 2)
      BY <2>2, <2>4, <1>t, <1>s, AppendIncreasing, AppendBelow DEF Ordered
    <3>2. \A i \in 1..Len(queue') : Below(printed, queue'[i]) /\ hand < queue'[i]
      <4>1. Below(printed, sent + 1) /\ hand < sent + 1
        BY <1>t, <1>s DEF Ordered
      <4>2. ASSUME NEW i \in 1..Len(queue') PROVE Below(printed, queue'[i]) /\ hand < queue'[i]
        <5>1. \/ i \in 1..Len(queue) /\ queue'[i] = queue[i]
              \/ queue'[i] = sent + 1
          BY <2>4, <1>s
        <5>. QED  BY <5>1, <4>1, <1>t DEF Ordered
      <4>. QED  BY <4>2
    <3>3. /\ Increasing(printed') /\ (hand' > 0 => Below(printed', hand') /\ hand' <= sent')
          /\ Below(printed', sent' + 1)
      BY <2>1, <2>2, <1>t, <1>s DEF Ordered, Increasing, Below
    <3>4. sent' + 1 = sent + 2
      BY <2>1, <1>s
    <3>. QED  BY <2>1, <3>1, <3>2, <3>3, <3>4 DEF Ordered, Increasing, Below
  <2>. QED  BY <2>1, <2>3, <2>4
<1>2. CASE Drop \/ Tick \/ Fire \/ UNCHANGED vars
  BY <1>2, <1>t, OrderedSame DEF Drop, Tick, Fire, vars, stream, clock
<1>3. CASE Dial \/ ConnectFails \/ Redial \/ Done \/ Disconnected
  BY <1>3, <1>t, OrderedSame
     DEF Dial, ConnectFails, Redial, Done, Disconnected, Exit, stream, clock
<1>4. CASE Connect
  BY <1>4, <1>t, <1>s DEF Connect, Ordered, Increasing, Below, clock
<1>5. CASE Take
  <2>. DEFINE h == Head(queue)
  <2>1. queue # <<>> /\ queue' = Tail(queue) /\ UNCHANGED <<printed, sent>>
        /\ hand' \in {hand, h} /\ at = "select"
    BY <1>5 DEF Take, clock
  <2>2. hand = 0
    BY <2>1, <1>t, <1>s DEF Counted
  <2>3. /\ h \in Nat /\ Increasing(queue')
        /\ \A i \in 1..Len(queue') : /\ i + 1 \in 1..Len(queue) /\ queue'[i] = queue[i + 1]
                                     /\ h < queue'[i]
    BY <2>1, <1>t, <1>s, TailIncreasing DEF Ordered
  <2>4. Below(printed, h) /\ h <= sent
    <3>1. 1 \in 1..Len(queue) /\ h = queue[1]
      BY <2>1, <1>s
    <3>. QED  BY <3>1, <2>3, <1>t, <1>s DEF Ordered, Below
  <2>5. Below(queue', sent + 1)
    BY <2>3, <1>t DEF Ordered, Below
  <2>6. \A i \in 1..Len(queue') : Below(printed, queue'[i]) /\ hand' < queue'[i]
    BY <2>1, <2>2, <2>3, <1>t, <1>s DEF Ordered
  <2>7. hand' > 0 => Below(printed, hand') /\ hand' <= sent
    BY <2>1, <2>2, <2>4
  <2>. QED  BY <2>1, <2>3, <2>5, <2>6, <2>7, <1>t DEF Ordered, Increasing, Below
<1>6. CASE Emit
  <2>1. hand > 0 /\ hand' = 0 /\ printed' = Append(printed, hand) /\ UNCHANGED <<queue, sent>>
    BY <1>6, <1>t DEF Emit, Counted
  <2>2. Increasing(printed')
    BY <2>1, <1>t, <1>s, AppendIncreasing DEF Ordered
  <2>3. Below(printed', sent + 1)
    BY <2>1, <1>t, <1>s, AppendBelow DEF Ordered
  <2>4. ASSUME NEW i \in 1..Len(queue) PROVE Below(printed', queue[i]) /\ 0 < queue[i]
    <3>1. queue[i] \in Nat /\ Below(printed, queue[i]) /\ hand < queue[i]
      BY <1>t, <1>s DEF Ordered
    <3>. QED  BY <3>1, <2>1, <1>s, AppendBelow
  <2>. QED  BY <2>1, <2>2, <2>3, <2>4, <1>t DEF Ordered, Increasing, Below
<1>7. CASE EmitFails
  <2>1. hand > 0 /\ hand' = 0 /\ UNCHANGED <<printed, queue, sent>>
    BY <1>7, <1>t DEF EmitFails, Counted, clock
  <2>2. \A i \in 1..Len(queue) : queue[i] \in Nat /\ hand < queue[i]
    BY <1>t, <1>s DEF Ordered
  <2>3. \A i \in 1..Len(queue) : 0 < queue[i]
    BY <1>s, <2>1, <2>2
  <2>4. /\ Increasing(printed') /\ Increasing(queue') /\ ~(hand' > 0)
        /\ Below(printed', sent' + 1) /\ Below(queue', sent' + 1)
    BY <2>1, <1>t DEF Ordered, Increasing, Below
  <2>5. \A i \in 1..Len(queue') : Below(printed', queue'[i]) /\ hand' < queue'[i]
    BY <2>1, <2>3, <1>t DEF Ordered, Below
  <2>. QED  BY <2>4, <2>5 DEF Ordered, Increasing, Below
<1>. QED  BY <1>1, <1>2, <1>3, <1>4, <1>5, <1>6, <1>7 DEF Next, Watch

LEMMA CountedStep == IndInv /\ [Next]_vars => Counted'
<1>. SUFFICES ASSUME IndInv, [Next]_vars PROVE Counted'
  OBVIOUS
<1>s. /\ printed \in Seq(Nat) /\ Len(printed) \in Nat /\ Limit \in Nat
      /\ sent \in Nat /\ hand \in Nat
  BY SeqNat, WatchAssumption DEF IndInv, TypeOK
<1>c. Counted /\ at \in {"top", "dialling", "select", "emit", "delay", "over"}
      /\ exit \in {-1, 0, 1, 4}
  BY DEF IndInv, TypeOK
<1>. USE DEF Counted, Exit, stream, clock
<1>1. CASE ServerSends \/ Drop \/ Tick \/ Fire \/ UNCHANGED vars
  BY <1>1, <1>c DEF ServerSends, Drop, Tick, Fire, vars
<1>2. CASE Dial \/ Connect \/ ConnectFails \/ Redial \/ Done \/ Disconnected
  BY <1>2, <1>c, <1>s DEF Dial, Connect, ConnectFails, Redial, Done, Disconnected
<1>3. CASE Take
  <2>1. Wanted(Head(queue)) => Head(queue) > 0
    <3>1. queue \in Seq(1..MaxEvents) /\ queue # <<>>
      BY <1>3 DEF IndInv, TypeOK, Take
    <3>2. Head(queue) \in 1..MaxEvents
      BY <3>1, HeadTailProperties
    <3>. QED  BY <3>2, WatchAssumption
  <2>. QED  BY <1>3, <2>1, <1>c, <1>s DEF Take
<1>4. CASE Emit
  <2>1. Len(printed') = Len(printed) + 1
    BY <1>4, <1>s DEF Emit
  <2>. QED  BY <1>4, <2>1, <1>c, <1>s DEF Emit
<1>5. CASE EmitFails
  BY <1>5, <1>c, <1>s DEF EmitFails
<1>. QED  BY <1>1, <1>2, <1>3, <1>4, <1>5 DEF Next, Watch

LEMMA FilteredStep == IndInv /\ [Next]_vars => Filtered'
<1>. SUFFICES ASSUME IndInv, [Next]_vars PROVE Filtered'
  OBVIOUS
<1>0. /\ printed \in Seq(Nat) /\ hand \in Nat
      /\ Filtered /\ Counted
  BY SeqNat, WatchAssumption DEF IndInv, TypeOK
<1>1. CASE UNCHANGED <<hand, printed>>
  BY <1>0, <1>1 DEF Filtered
<1>2. CASE Take
  BY <1>0, <1>2 DEF Take, Filtered, clock
<1>3. CASE Emit
  <2>1. Wanted(hand) /\ hand' = 0 /\ printed' = Append(printed, hand)
    BY <1>0, <1>3 DEF Emit, Counted, Filtered
  <2>2. ASSUME NEW k \in 1..Len(printed') PROVE Wanted(printed'[k])
    <3>1. (k \in 1..Len(printed) /\ printed'[k] = printed[k]) \/ printed'[k] = hand
      BY <1>0, <2>1
    <3>. QED  BY <1>0, <2>1, <3>1 DEF Filtered
  <2>. QED  BY <2>1, <2>2 DEF Filtered
<1>5. CASE EmitFails
  BY <1>0, <1>5 DEF EmitFails, Filtered, clock
<1>4. Take \/ Emit \/ EmitFails \/ UNCHANGED <<hand, printed>>
  BY DEF Next, Watch, ServerSends, Drop, Tick, Fire, Dial, Connect, ConnectFails, Redial,
         Done, Disconnected, Exit, vars, stream, clock
<1>. QED  BY <1>1, <1>2, <1>3, <1>4, <1>5

--------------------------------------------------------------------------
LEMMA IndInvInit == Init => IndInv
<1>1. <<>> \in Seq(1..MaxEvents) /\ Len(<<>>) = 0
  OBVIOUS
<1>2. Init => TypeOK
  <2>1. Init => queue \in Seq(1..MaxEvents) /\ printed \in Seq(1..MaxEvents)
    BY <1>1 DEF Init
  <2>2. 0 \in 0..MaxEvents /\ 0 \in 0..MaxDrops /\ Timeout \in 0..Timeout
    BY WatchAssumption
  <2>. QED  BY <2>1, <2>2 DEF Init, TypeOK
<1>3. Init => Ordered
  BY <1>1, WatchAssumption DEF Init, Ordered, Increasing, Below
<1>4. Init => Counted
  BY <1>1, WatchAssumption DEF Init, Counted
<1>5. Init => Filtered
  BY <1>1 DEF Init, Filtered
<1>. QED  BY <1>2, <1>3, <1>4, <1>5 DEF IndInv

LEMMA IndInvStep == IndInv /\ [Next]_vars => IndInv'
BY TypeStep, OrderedStep, CountedStep, FilteredStep DEF IndInv

\* The inductive invariant, for any events, filters and number of connections.
THEOREM Inductive == Spec => []IndInv
BY IndInvInit, IndInvStep, PTL DEF Spec

\* No event is printed twice or out of the server's order over any number of
\* reconnects.
THEOREM NoneTwice == Spec => []OnceInOrder
<1>1. IndInv => OnceInOrder
  BY DEF IndInv, Ordered, Increasing, OnceInOrder
<1>. QED  BY <1>1, Inductive, PTL

\* Exit 0 means that exactly --limit events were printed.
THEOREM ZeroIsLimit == Spec => []ZeroMeansLimit
<1>1. IndInv => ZeroMeansLimit
  <2>1. TypeOK => Len(printed) \in Nat /\ Limit \in Nat
    BY WatchAssumption DEF TypeOK
  <2>. QED  BY <2>1 DEF IndInv, TypeOK, Counted, ZeroMeansLimit
<1>. QED  BY <1>1, Inductive, PTL

\* The parts of a message that the filters read say what happened.
LEMMA SaysIs ==
  ASSUME NEW a, NEW b, NEW what, Says(a, b, what)
  PROVE  FirstNonEmpty(a, b) = what
BY DEF Says, FirstNonEmpty

\* Whatever is sent, lost and dialled again, nothing is printed of what the user
\* wrote or did on his own and nothing from another channel, in whichever of its
\* two places a message names whom it is about and where; what he did to another's
\* post, reaction or membership is the exception, and the only one (eventActorID,
\* eventChannelIncluded).
THEOREM OthersOnly == Spec => []OnlyOthers
<1>1. ASSUME NEW k \in 1..MaxEvents, Wanted(k)
      PROVE  /\ \/ IncludeSelf
                \/ /\ Event[k].of # Me
                   /\ Event[k].by = Me => Event[k].type \in OnAnother
             /\ Watched = {} \/ Event[k].in \in Watched
  <2>1. eventActorID(Event[k]) = Event[k].of
    BY MessageAssumption, SaysIs DEF eventActorID, UserID
  <2>3. Event[k].of = Event[k].by \/ Event[k].type \in OnAnother
    BY MessageAssumption
  <2>2. ChannelID(Event[k]) = Event[k].in
    BY MessageAssumption, SaysIs DEF ChannelID
  <2>. QED  BY <1>1, <2>1, <2>2, <2>3 DEF Wanted, eventChannelIncluded
<1>2. IndInv => OnlyOthers
  <2>1. TypeOK => \A k \in 1..Len(printed) : printed[k] \in 1..MaxEvents
    BY ElementOfSeq DEF TypeOK
  <2>. QED  BY <1>1, <2>1 DEF IndInv, Filtered, OnlyOthers
<1>. QED  BY <1>2, Inductive, PTL
=============================================================================
