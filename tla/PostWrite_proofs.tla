--------------------------- MODULE PostWrite_proofs ---------------------------
(***************************************************************************)
(* Proofs about PostWrite for any number of teams, attachments and tries.  *)
(* The steps fall into four kinds: those that look for the target, the     *)
(* single calls, the uploads with the post, and those that only move on.   *)
(***************************************************************************)
EXTENDS PostWrite, FiniteSetTheorems, SequenceTheorems, TLAPS

Move ==
  \/ ReadInput \/ CheckArguments \/ LookAtPost \/ ResolveReply \/ OpenDirect
  \/ ListTeams \/ WalkEnds \/ GiveUp \/ NotifyPost \/ Interrupt

Upload == UploadSucceeds \/ UploadUnanswered \/ UploadRefused
Post == CreatePost \/ CreatePostFails

LEMMA NextCases ==
  ASSUME [Next]_vars
  PROVE  Move \/ Walk \/ PickTeam \/ CallOnce \/ Upload \/ Post \/ UNCHANGED vars
BY DEF Next, Command, Move, Upload, Post

\* A move changes only where the command is, and what it has told.
LEMMA MoveFrame ==
  ASSUME Move
  PROVE  /\ UNCHANGED <<names, files, acted, did, given>>
         /\ told' \in BOOLEAN \/ told' = told
BY DEF Move, ReadInput, CheckArguments, LookAtPost, ResolveReply, OpenDirect, ListTeams,
       WalkEnds, GiveUp, NotifyPost, Interrupt, server, files

LEMMA CallFrame ==
  ASSUME CallOnce
  PROVE  /\ UNCHANGED <<names, files, told, given>>
         /\ at \in {"call", "text"}
         /\ Effect \/ UNCHANGED <<did, acted>>
BY DEF CallOnce, AddChannelMember, ViewChannel, CreateChannel, UpdatePost, DeletePost,
       SaveReaction, PinPost, UpdateUserStatus, UpdateUserCustomStatus,
       RemoveUserCustomStatus, CallFails, Answer

--------------------------------------------------------------------------
(* The files and the posts that carry them.                                 *)

FileTypes ==
  /\ tries \in Nat /\ infos \in Seq(1..Len(stored)) /\ Len(infos) <= NFiles
  /\ stored \in Seq(1..NFiles) /\ posts \in Seq(Seq(1..Len(stored)))

LEMMA ElementOf == \A S : \A s \in Seq(S) : \A k \in 1..Len(s) : s[k] \in S
OBVIOUS

LEMMA Appended ==
  ASSUME NEW S, NEW s \in Seq(S), NEW e \in S
  PROVE  /\ Append(s, e) \in Seq(S) /\ Len(Append(s, e)) = Len(s) + 1 /\ Len(s) \in Nat
         /\ \A j \in 1..Len(s) : Append(s, e)[j] = s[j]
         /\ Append(s, e)[Len(s) + 1] = e
OBVIOUS

LEMMA SeqGrows ==
  ASSUME NEW m \in Nat, NEW n \in Nat, m <= n
  PROVE  /\ \A s \in Seq(1..m) : s \in Seq(1..n)
         /\ \A s \in Seq(Seq(1..m)) : s \in Seq(Seq(1..n))
<1>1. ASSUME NEW s \in Seq(1..m) PROVE s \in Seq(1..n)
  <2>1. \A k \in 1..Len(s) : s[k] \in 1..n
    BY SMT
  <2>. QED  BY <2>1
<1>2. ASSUME NEW s \in Seq(Seq(1..m)) PROVE s \in Seq(Seq(1..n))
  <2>1. \A k \in 1..Len(s) : s[k] \in Seq(1..n)
    BY <1>1
  <2>. QED  BY <2>1
<1>. QED  BY <1>1, <1>2

\* An upload may leave a copy of the file it is at, and nothing else.
LEMMA UploadFrame ==
  ASSUME FileTypes, Upload
  PROVE  /\ \/ stored' = stored
            \/ stored' = Append(stored, Len(infos) + 1) /\ Len(infos) < NFiles
         /\ stored' \in Seq(1..NFiles) /\ Len(stored) <= Len(stored')
         /\ \A j \in 1..Len(stored) : stored'[j] = stored[j]
         /\ tries' \in Nat
         /\ UNCHANGED <<names, posts, acted, did, told, given>>
<1>. USE WriteAssumption DEF FileTypes
<1>0. Len(infos) \in Nat /\ at = "upload" /\ Len(infos) < NFiles
  BY DEF Upload, UploadSucceeds, UploadUnanswered, UploadRefused, Calling
<1>1. stored' = stored \/ stored' = Append(stored, Len(infos) + 1)
  BY DEF Upload, UploadSucceeds, UploadUnanswered, UploadRefused, Store
<1>2. Len(infos) + 1 \in 1..NFiles
  BY <1>0
<1>3. /\ Append(stored, Len(infos) + 1) \in Seq(1..NFiles)
      /\ Len(Append(stored, Len(infos) + 1)) = Len(stored) + 1 /\ Len(stored) \in Nat
      /\ \A j \in 1..Len(stored) : Append(stored, Len(infos) + 1)[j] = stored[j]
  BY <1>2, Appended
<1>4. tries' \in Nat /\ UNCHANGED <<names, posts, acted, did, told, given>>
  BY DEF Upload, UploadSucceeds, UploadUnanswered, UploadRefused
<1>5. /\ stored' \in Seq(1..NFiles) /\ Len(stored) <= Len(stored')
      /\ \A j \in 1..Len(stored) : stored'[j] = stored[j]
  <2>1. CASE stored' = stored
    BY <1>3, <2>1
  <2>2. CASE stored' = Append(stored, Len(infos) + 1)
    BY <1>3, <2>2
  <2>. QED  BY <1>1, <2>1, <2>2
<1>. QED  BY <1>0, <1>1, <1>4, <1>5

FilesInv == FileTypes /\ InfosRight /\ WholePost

LEMMA FilesStep == IndInv /\ [Next]_vars => FilesInv'
<1>. SUFFICES ASSUME IndInv, [Next]_vars PROVE FilesInv'
  OBVIOUS
<1>. USE WriteAssumption
<1>0. FilesInv
  BY DEF IndInv, TypeOK, FilesInv, FileTypes
<1>1. CASE UNCHANGED files
  BY <1>0, <1>1 DEF FilesInv, FileTypes, InfosRight, WholePost, files
<1>2. CASE Upload
  <2>. USE <1>0 DEF FilesInv, FileTypes
  <2>1. /\ stored' = stored \/ stored' = Append(stored, Len(infos) + 1)
        /\ stored' \in Seq(1..NFiles) /\ Len(stored) <= Len(stored')
        /\ \A j \in 1..Len(stored) : stored'[j] = stored[j]
        /\ tries' \in Nat /\ posts' = posts
    BY <1>2, UploadFrame
  <2>2. infos \in Seq(1..Len(stored')) /\ posts' \in Seq(Seq(1..Len(stored')))
    BY <2>1, SeqGrows
  <2>3. \A k \in 1..Len(infos) : stored'[infos[k]] = k
    BY <2>1, ElementOf DEF InfosRight
  <2>4. WholePost'
    <3>1. ASSUME NEW i \in 1..Len(posts), NEW k \in 1..NFiles
          PROVE  stored'[posts[i][k]] = k /\ Len(posts[i]) = NFiles
      <4>1. posts[i] \in Seq(1..Len(stored)) /\ Len(posts[i]) = NFiles /\ stored[posts[i][k]] = k
        BY <3>1 DEF WholePost
      <4>2. posts[i][k] \in 1..Len(stored)
        BY <4>1, ElementOf
      <4>. QED  BY <4>1, <4>2, <2>1
    <3>2. \A i \in 1..Len(posts) : Len(posts[i]) = NFiles
      BY DEF WholePost
    <3>3. posts' = posts
      BY <2>1
    <3>. QED  BY <3>1, <3>2, <3>3, Zenon DEF WholePost
  <2>5. CASE UNCHANGED infos
    BY <2>1, <2>2, <2>3, <2>4, <2>5 DEF InfosRight
  <2>6. CASE UploadSucceeds
    <3>1. /\ stored' = Append(stored, Len(infos) + 1) /\ infos' = Append(infos, Len(stored'))
          /\ Len(infos) < NFiles
      BY <2>6 DEF UploadSucceeds, Store, Calling
    <3>0. Len(infos) + 1 \in 1..NFiles /\ Len(infos) \in Nat
      BY <3>1
    <3>2. /\ Len(stored') = Len(stored) + 1 /\ Len(stored') \in 1..Len(stored')
          /\ stored'[Len(stored')] = Len(infos) + 1
      BY <3>0, <3>1, Appended
    <3>3. /\ infos' \in Seq(1..Len(stored')) /\ Len(infos') = Len(infos) + 1
          /\ \A j \in 1..Len(infos) : infos'[j] = infos[j]
          /\ infos'[Len(infos) + 1] = Len(stored')
      BY <3>1, <3>2, <2>2, Appended
    <3>4. \A k \in 1..Len(infos') : stored'[infos'[k]] = k
      <4>1. \A k \in 1..Len(infos') : k \in 1..Len(infos) \/ k = Len(infos) + 1
        BY <3>0, <3>3
      <4>. QED  BY <4>1, <3>2, <3>3, <2>3
    <3>5. FileTypes'
      BY <3>0, <3>1, <3>3, <2>1, <2>2
    <3>. QED  BY <2>4, <3>4, <3>5 DEF InfosRight
  <2>. QED  BY <1>2, <2>5, <2>6 DEF Upload, UploadUnanswered, UploadRefused
<1>3. CASE Post
  <2>. USE <1>0 DEF FilesInv, FileTypes
  <2>1. /\ UNCHANGED <<tries, infos, stored>> /\ Len(infos) = NFiles
        /\ posts' = Append(posts, infos) \/ posts' = posts
    BY <1>3 DEF Post, CreatePost, CreatePostFails
  <2>2. posts' \in Seq(Seq(1..Len(stored')))
    <3>1. infos \in Seq(1..Len(stored)) /\ posts \in Seq(Seq(1..Len(stored)))
      OBVIOUS
    <3>2. Append(posts, infos) \in Seq(Seq(1..Len(stored)))
      BY <3>1, Appended
    <3>. QED  BY <3>1, <3>2, <2>1
  <2>3. WholePost'
    <3>1. CASE posts' = posts
      BY <3>1, <2>1 DEF WholePost
    <3>2. CASE posts' = Append(posts, infos)
      <4>. SUFFICES ASSUME NEW i \in 1..Len(posts')
                    PROVE  Len(posts'[i]) = NFiles /\ \A k \in 1..NFiles : stored'[posts'[i][k]] = k
        BY DEF WholePost
      <4>1. posts'[i] = infos \/ (i \in 1..Len(posts) /\ posts'[i] = posts[i])
        BY <3>2
      <4>2. stored' = stored
        BY <2>1
      <4>3. CASE posts'[i] = infos
        <5>1. Len(infos) = NFiles /\ \A k \in 1..NFiles : stored[infos[k]] = k
          BY <2>1 DEF InfosRight
        <5>. QED  BY <4>2, <4>3, <5>1
      <4>4. CASE i \in 1..Len(posts) /\ posts'[i] = posts[i]
        <5>1. Len(posts[i]) = NFiles /\ \A k \in 1..NFiles : stored[posts[i][k]] = k
          BY <4>4 DEF WholePost
        <5>. QED  BY <4>2, <4>4, <5>1
      <4>. QED  BY <4>1, <4>3, <4>4
    <3>. QED  BY <2>1, <3>1, <3>2, Zenon
  <2>. QED  BY <2>1, <2>2, <2>3 DEF InfosRight
<1>4. Walk \/ PickTeam \/ UNCHANGED vars => UNCHANGED files
  BY DEF Walk, PickTeam, vars, server, files
<1>. QED  BY <1>1, <1>2, <1>3, <1>4, NextCases, MoveFrame, CallFrame

--------------------------------------------------------------------------
(* The walk over the teams.                                                 *)

NameTypes ==
  /\ command \in Posting \cup Single \cup ByPost \cup Statuses \cup {"create-channel"}
  /\ known \in 0..NTeams /\ having \subseteq 1..known /\ hits \subseteq 1..known
  /\ missed \subseteq 1..known /\ team \in 1..(known + 1) /\ target \in {None} \cup 1..known

LEMMA OneHit ==
  ASSUME NameTypes, Cardinality(hits) = 1
  PROVE  \E h \in 1..known : hits = {h}
<1>1. IsFiniteSet(1..known)
  BY TeamsAssumption, FS_Interval DEF NameTypes
<1>2. IsFiniteSet(hits)
  BY <1>1, FS_Subset DEF NameTypes
<1>. QED  BY <1>2, FS_Singleton DEF NameTypes

\* The right half of RightChannel, for every command but an mm create-channel
\* without --team.
Rightly == IF command = "create-channel" /\ ~given THEN target # None => known = 1 ELSE NameRight

WalkInv == NameTypes /\ WalkFits /\ Rightly

LEMMA WalkStep ==
  ASSUME WalkInv, at = "walk", command # "create-channel", Walk
  PROVE  WalkInv'
<1>. USE TeamsAssumption DEF WalkInv, NameTypes, Teams, None
<1>0. /\ target = None /\ UNCHANGED <<at, command, known, having, given>>
      /\ Found \/ NotThere \/ LookupFails \/ Choose
  BY DEF Walk, Found, NotThere, LookupFails, Choose, Asking
<1>. DEFINE seen == (having \ missed) \cap 1..(team - 1)
<1>1. CASE NotThere
  <2>1. team \notin having /\ team' = team + 1 /\ team <= known /\ UNCHANGED <<hits, missed, target>>
    BY <1>1 DEF NotThere, Asking
  <2>2. ((having \ missed) \cap 1..(team - 1))' = seen
    BY <1>0, <2>1
  <2>3. NameTypes' /\ Rightly'
    BY <1>0, <2>1 DEF Rightly, NameRight
  <2>4. (missed \subseteq 1..(team - 1))'
    BY <1>0, <2>1 DEF WalkFits
  <2>5. (hits = IF command = "join" THEN (having \ missed) \cap 1..(team - 1) ELSE {})'
    BY <1>0, <2>1, <2>2 DEF WalkFits
  <2>6. (target = None /\ command # "join" => (having \ missed) \cap 1..(team - 1) = {})'
    BY <1>0, <2>1, <2>2 DEF WalkFits
  <2>. QED  BY <1>0, <2>3, <2>4, <2>5, <2>6 DEF WalkFits, Before
<1>2. CASE LookupFails
  <2>1. missed' = missed \cup {team} /\ team' = team + 1 /\ team <= known /\ UNCHANGED <<hits, target>>
    BY <1>2 DEF LookupFails, Asking
  <2>2. ((having \ missed) \cap 1..(team - 1))' = seen
    BY <1>0, <2>1
  <2>3. NameTypes' /\ Rightly'
    BY <1>0, <2>1 DEF Rightly, NameRight
  <2>4. (missed \subseteq 1..(team - 1))'
    BY <1>0, <2>1 DEF WalkFits
  <2>5. (hits = IF command = "join" THEN (having \ missed) \cap 1..(team - 1) ELSE {})'
    BY <1>0, <2>1, <2>2 DEF WalkFits
  <2>6. (target = None /\ command # "join" => (having \ missed) \cap 1..(team - 1) = {})'
    BY <1>0, <2>1, <2>2 DEF WalkFits
  <2>. QED  BY <1>0, <2>3, <2>4, <2>5, <2>6 DEF WalkFits, Before
<1>3. CASE Found /\ command = "join"
  <2>1. /\ team \in having /\ hits' = hits \cup {team} /\ team' = team + 1 /\ team <= known
        /\ UNCHANGED <<missed, target>>
    BY <1>3 DEF Found, Asking
  <2>2. ((having \ missed) \cap 1..(team - 1))' = seen \cup {team}
    BY <1>0, <2>1 DEF WalkFits
  <2>. QED  BY <1>0, <1>3, <2>1, <2>2 DEF WalkFits, Rightly, NameRight
<1>4. CASE Found /\ command # "join"
  <2>1. /\ team \in having /\ target' = team /\ team <= known
        /\ UNCHANGED <<missed, hits, team>>
    BY <1>4 DEF Found, Asking
  <2>2. seen = {} /\ team \notin missed
    BY <1>0, <1>4 DEF WalkFits
  <2>3. \A t \in having \ missed : team <= t
    BY <2>2
  <2>. QED  BY <1>0, <1>4, <2>1, <2>2, <2>3 DEF WalkFits, Rightly, NameRight
<1>5. CASE Choose
  <2>1. /\ Cardinality(hits) = 1 /\ target' \in hits /\ team > known
        /\ UNCHANGED <<missed, hits, team>>
    BY <1>0, <1>5 DEF Choose, Asking
  <2>2. PICK h \in 1..known : hits = {h}
    BY <2>1, OneHit
  <2>3. command = "join" /\ having \ missed = {h} /\ target' = h
    <3>1. command = "join" /\ hits = (having \ missed) \cap 1..(team - 1)
      BY <2>2 DEF WalkFits
    <3>2. (having \ missed) \cap 1..(team - 1) = having \ missed
      <4>1. team = known + 1 /\ known \in Nat
        BY <2>1
      <4>2. 1..(team - 1) = 1..known
        BY <4>1
      <4>3. having \subseteq 1..known
        OBVIOUS
      <4>. QED  BY <4>2, <4>3
    <3>. QED  BY <2>1, <2>2, <3>1, <3>2
  <2>. QED  BY <1>0, <2>1, <2>2, <2>3 DEF WalkFits, Rightly, NameRight
<1>. QED  BY <1>0, <1>1, <1>2, <1>3, <1>4, <1>5

LEMMA TargetStep == IndInv /\ [Next]_vars => WalkInv'
<1>. SUFFICES ASSUME IndInv, [Next]_vars PROVE WalkInv'
  OBVIOUS
<1>0. WalkInv
  BY DEF IndInv, TypeOK, WalkInv, NameTypes, RightChannel, Rightly
<1>1. CASE UNCHANGED <<names, given>> /\ (at' \in Before => at \in Before) /\ (at' \in Before \ {"walk"} => at \in Before \ {"walk"})
  BY <1>0, <1>1 DEF WalkInv, NameTypes, WalkFits, Rightly, NameRight, names
<1>2. CASE Walk
  BY <1>0, <1>2, WalkStep DEF Walk, IndInv, StageFits, Single
<1>3. CASE PickTeam
  <2>. USE <1>0, <1>3, TeamsAssumption DEF PickTeam, WalkInv
  <2>1. CASE UNCHANGED names /\ Goes("failed")
    BY <2>1 DEF NameTypes, WalkFits, Rightly, NameRight, names, Goes, Before
  <2>2. CASE resolveTeamRef(given) /\ Goes("call")
    <3>1. /\ UNCHANGED <<command, known, having, team, hits, missed, given>>
          /\ target' \in 1..known
          /\ IF given THEN target' \in having /\ \A t \in having : target' <= t ELSE known = 1
          /\ at' = "call" /\ command = "create-channel"
      BY <2>2 DEF resolveTeamRef, Goes
    <3>2. team = 1 /\ missed = {}
      BY DEF WalkFits, Before
    <3>. QED  BY <3>1, <3>2 DEF NameTypes, WalkFits, Rightly, NameRight, Before, None
  <2>. QED  BY <2>1, <2>2
<1>4. CASE Move
  <2>1. UNCHANGED <<names, given>>
    BY <1>4, MoveFrame
  <2>2. /\ at' \in Before => at \in Before
        /\ at' \in Before \ {"walk"} => at \in Before \ {"walk"}
    BY <1>4 DEF Move, ReadInput, CheckArguments, LookAtPost, ResolveReply, OpenDirect,
       ListTeams, WalkEnds, GiveUp, NotifyPost, Interrupt, Goes, Before
  <2>. QED  BY <1>1, <2>1, <2>2
<1>5. CASE CallOnce
  <2>1. at' \notin Before
    BY <1>5 DEF CallOnce, AddChannelMember, ViewChannel, CreateChannel, UpdatePost, DeletePost,
       SaveReaction, PinPost, UpdateUserStatus, UpdateUserCustomStatus,
       RemoveUserCustomStatus, CallFails, Answer, Goes, Before
  <2>. QED  BY <1>1, <1>5, <2>1, CallFrame
<1>6. CASE Upload \/ Post
  <2>1. UNCHANGED <<names, given>> /\ at' \notin Before
    BY <1>6 DEF Upload, UploadSucceeds, UploadUnanswered, UploadRefused, Calling,
       Post, CreatePost, CreatePostFails, Goes, Before
  <2>. QED  BY <1>1, <2>1
<1>7. CASE UNCHANGED vars
  BY <1>1, <1>7 DEF vars
<1>. QED  BY <1>2, <1>3, <1>4, <1>5, <1>6, <1>7, NextCases

--------------------------------------------------------------------------
(* What has been done by each stage.                                        *)

StageTypes ==
  /\ at \in {"read", "check", "look", "resolve", "walk", "call", "text", "upload",
             "notify"} \cup Over
  /\ acted \subseteq Teams /\ did \in Seq({"call", "text"})
  /\ told \in BOOLEAN /\ given \in BOOLEAN

StageInv ==
  /\ StageTypes /\ StageFits /\ OnePost /\ CallsInStep
  /\ acted \subseteq {target} \ {None}
  /\ posts # <<>> /\ command = "post" => target # None

LEMMA MoveStage == StageInv /\ NameTypes /\ FileTypes /\ Move => StageInv'
<1>. SUFFICES ASSUME StageInv, NameTypes, FileTypes, Move PROVE StageInv'
  OBVIOUS
<1>. USE DEF StageInv, StageTypes, OnePost, CallsInStep, Goes, names, server
<1>0. UNCHANGED <<command, target, posts, acted, did, given>> /\ told' \in BOOLEAN
  BY MoveFrame DEF files
<1>1. CASE ReadInput
  BY <1>0, <1>1 DEF ReadInput, StageFits, Before, Over
<1>2. CASE CheckArguments
  BY <1>0, <1>2 DEF CheckArguments, StageFits, Before, Over, Posting, ByPost, Statuses
<1>3. CASE LookAtPost
  BY <1>0, <1>3 DEF LookAtPost, StageFits, Before, Over, Posting
<1>4. CASE ResolveReply \/ OpenDirect
  BY <1>0, <1>4 DEF ResolveReply, OpenDirect, StageFits, Before, Over, Posting
<1>5. CASE ListTeams
  BY <1>0, <1>5 DEF ListTeams, StageFits, Before, Over
<1>6. CASE WalkEnds
  BY <1>0, <1>6 DEF WalkEnds, StageFits, Before, Over, Posting, Single
<1>7. CASE GiveUp \/ Interrupt
  BY <1>0, <1>7 DEF GiveUp, Interrupt, StageFits, Before, Over
<1>8. CASE NotifyPost
  BY <1>0, <1>8 DEF NotifyPost, StageFits, Before, Over, Posting
<1>. QED  BY <1>1, <1>2, <1>3, <1>4, <1>5, <1>6, <1>7, <1>8 DEF Move

LEMMA TwoCalls ==
  /\ Append(<<>>, "call") = <<"call">> /\ Append(<<"call">>, "text") = <<"call", "text">>
  /\ <<"call">> \in Seq({"call", "text"}) /\ <<"call", "text">> \in Seq({"call", "text"})
<1>. DEFINE s == Append(<<"call">>, "text")
<1>1. /\ s \in Seq({"call", "text"}) /\ Len(s) = 2 /\ s[1] = "call" /\ s[2] = "text"
  OBVIOUS
<1>2. /\ <<"call", "text">> \in Seq({"call", "text"}) /\ Len(<<"call", "text">>) = 2
  OBVIOUS
<1>3. \A i \in 1..Len(s) : s[i] = <<"call", "text">>[i]
  BY <1>1, <1>2
<1>. HIDE DEF s
<1>4. s = <<"call", "text">>
  BY <1>1, <1>2, <1>3, SeqEqual
<1>5. Append(<<>>, "call") = <<"call">>
  OBVIOUS
<1>6. <<"call">> \in Seq({"call", "text"})
  OBVIOUS
<1>. QED  BY <1>2, <1>4, <1>5, <1>6 DEF s

\* A call that took effect, or may have, is recorded behind those before it.
LEMMA EffectStage ==
  ASSUME StageInv, NameTypes, Effect, at \in {"call", "text"}, UNCHANGED target
  PROVE  /\ did' = IF at = "call" THEN <<"call">> ELSE <<"call", "text">>
         /\ did' \in Seq({"call", "text"})
         /\ acted' \subseteq Teams /\ acted' \subseteq {target'} \ {None}
<1>1. did = IF at = "call" THEN <<>> ELSE <<"call">>
  BY DEF StageInv, StageFits
<1>2. did' = Append(did, at) /\ acted' = acted \cup ({target} \ {None})
  BY DEF Effect
<1>3. did' = IF at = "call" THEN <<"call">> ELSE <<"call", "text">>
  <2>1. CASE at = "call"
    BY <1>1, <1>2, <2>1, TwoCalls
  <2>2. CASE at = "text"
    BY <1>1, <1>2, <2>2, TwoCalls
  <2>. QED  BY <2>1, <2>2
<1>4. {target} \ {None} \subseteq Teams
  BY TeamsAssumption DEF NameTypes, Teams, None
<1>5. did' \in Seq({"call", "text"})
  BY <1>3, TwoCalls
<1>6. acted' \subseteq Teams /\ acted' \subseteq {target'} \ {None}
  BY <1>2, <1>4 DEF StageInv, StageTypes
<1>. QED  BY <1>3, <1>5, <1>6

LEMMA CallStage == StageInv /\ NameTypes /\ FileTypes /\ CallOnce => StageInv'
<1>. SUFFICES ASSUME StageInv, NameTypes, FileTypes, CallOnce PROVE StageInv'
  OBVIOUS
<1>. USE DEF Goes, Answer
<1>0. /\ UNCHANGED <<command, target, posts, told, given>> /\ at \in {"call", "text"}
      /\ Effect \/ UNCHANGED <<did, acted>>
  BY CallFrame DEF names, files
<1>1. posts = <<>> /\ command \notin Posting /\ (command \in {"edit", "delete"} => given)
  BY <1>0 DEF StageInv, StageFits, Posting
<1>2. /\ did' \in Seq({"call", "text"}) /\ acted' \subseteq Teams
      /\ acted' \subseteq {target'} \ {None}
      /\ did' \in {<<>>, <<"call">>} \/ (did' = <<"call", "text">> /\ at = "text")
  <2>1. CASE Effect
    BY <1>0, <2>1, EffectStage
  <2>2. CASE UNCHANGED <<did, acted>>
    <3>1. did \in {<<>>, <<"call">>}
      BY <1>0 DEF StageInv, StageFits
    <3>. QED  BY <1>0, <2>2, <3>1 DEF StageInv, StageTypes
  <2>. QED  BY <1>0, <2>1, <2>2
<1>3. at = "text" => command = "status" /\ given
  BY DEF StageInv, StageFits
<1>4. CASE at' = "done" /\ Effect /\ (at = "call" => ~(command = "status" /\ given))
  <2>1. did' = IF at = "call" THEN <<"call">> ELSE <<"call", "text">>
    BY <1>0, <1>4, EffectStage
  <2>. QED  BY <1>0, <1>1, <1>2, <1>3, <1>4, <2>1
            DEF StageInv, StageTypes, StageFits, OnePost, CallsInStep, Over, Before
<1>5. CASE UpdateUserStatus /\ given
  <2>1. did' = <<"call">> /\ at' = "text" /\ command = "status"
    BY <1>0, <1>5, EffectStage DEF UpdateUserStatus
  <2>. QED  BY <1>0, <1>1, <1>2, <1>5, <2>1
            DEF StageInv, StageTypes, StageFits, OnePost, CallsInStep, Over, Before
<1>6. CASE UpdatePost
  <2>1. did' = <<"call">> /\ at' = "notify" /\ command = "edit"
    BY <1>0, <1>6, EffectStage DEF UpdatePost
  <2>. QED  BY <1>0, <1>1, <1>2, <1>6, <2>1
            DEF StageInv, StageTypes, StageFits, OnePost, CallsInStep, Over, Before
<1>7. CASE CallFails
  <2>1. at' = "failed"
    BY <1>7 DEF CallFails
  <2>. QED  BY <1>0, <1>1, <1>2, <1>3, <1>7, <2>1
            DEF StageInv, StageTypes, StageFits, OnePost, CallsInStep, Over, Before
<1>8. \/ (UpdateUserStatus /\ given) \/ UpdatePost \/ CallFails
      \/ at' = "done" /\ Effect /\ (at = "call" => ~(command = "status" /\ given))
  BY DEF CallOnce, AddChannelMember, ViewChannel, CreateChannel, UpdatePost, DeletePost,
         SaveReaction, PinPost, UpdateUserStatus, UpdateUserCustomStatus,
         RemoveUserCustomStatus
<1>. QED  BY <1>4, <1>5, <1>6, <1>7, <1>8

LEMMA StageStep == IndInv /\ [Next]_vars => StageInv'
<1>. SUFFICES ASSUME IndInv, [Next]_vars PROVE StageInv'
  OBVIOUS
<1>0. StageInv /\ NameTypes /\ FileTypes
  BY DEF IndInv, TypeOK, StageInv, StageTypes, RightChannel, NameTypes, FileTypes
<1>1. CASE Move
  BY <1>0, <1>1, MoveStage
<1>2. CASE CallOnce
  BY <1>0, <1>2, CallStage
<1>3. CASE Walk
  <2>1. /\ UNCHANGED <<at, command, infos, posts, acted, did, told, given>>
        /\ at = "walk" /\ target = None
    BY <1>3 DEF Walk, Found, NotThere, LookupFails, Choose, Asking, server
  <2>. QED  BY <1>0, <2>1
            DEF StageInv, StageTypes, StageFits, OnePost, CallsInStep, Before
<1>4. CASE PickTeam
  <2>1. /\ UNCHANGED <<command, posts, acted, did, told, given>>
        /\ at = "resolve" /\ at' \in {"call", "failed"} /\ command = "create-channel"
    BY <1>4 DEF PickTeam, resolveTeamRef, names, server, Goes
  <2>. QED  BY <1>0, <2>1
            DEF StageInv, StageTypes, StageFits, OnePost, CallsInStep, Before, Over, Posting
<1>5. CASE Upload
  <2>1. /\ UNCHANGED <<names, posts, acted, did, told, given>>
        /\ at = "upload" /\ at' \in {"upload", "failed"}
    BY <1>0, <1>5, UploadFrame
       DEF Upload, UploadSucceeds, UploadUnanswered, UploadRefused, Calling, Goes
  <2>. QED  BY <1>0, <2>1
            DEF names, StageInv, StageTypes, StageFits, OnePost, CallsInStep, Before, Over
<1>6. CASE Post
  <2>1. /\ UNCHANGED <<command, target, acted, did, told, given>> /\ at = "upload"
        /\ at' \in {"notify", "failed"} /\ posts = <<>> /\ command \in Posting
        /\ posts' = Append(posts, infos) \/ (posts' = posts /\ at' = "failed")
    BY <1>0, <1>6 DEF Post, CreatePost, CreatePostFails, Goes, names, StageInv, StageFits
  <2>2. infos \in Seq(1..Len(stored)) /\ posts \in Seq(Seq(1..Len(stored)))
    BY <1>0 DEF FileTypes
  <2>3. Len(Append(posts, infos)) = Len(posts) + 1
    BY <2>2, Appended
  <2>4. posts = <<>> /\ Len(posts) = 0
    BY <2>1
  <2>5. Len(posts') <= 1 /\ (at' = "notify" => Len(posts') = 1)
    <3>1. CASE posts' = Append(posts, infos)
      <4>1. Len(posts') = 1
        BY <3>1, <2>3, <2>4
      <4>. QED  BY <4>1
    <3>2. CASE posts' = posts /\ at' = "failed"
      BY <2>4, <3>2
    <3>. QED  BY <2>1, <3>1, <3>2
  <2>6. acted = {} /\ did = <<>> /\ (command = "post" => target # None)
    BY <1>0, <2>1 DEF StageInv, StageFits
  <2>7. StageTypes'
    BY <1>0, <2>1 DEF StageInv, StageTypes, Over
  <2>8. StageFits'
    BY <2>1, <2>5, <2>6 DEF StageFits, Before, Posting
  <2>. QED  BY <2>1, <2>5, <2>6, <2>7, <2>8 DEF StageInv, OnePost, CallsInStep
<1>7. CASE UNCHANGED vars
  BY <1>0, <1>7 DEF vars, names, server, StageInv, StageTypes, StageFits, OnePost, CallsInStep
<1>. QED  BY <1>1, <1>2, <1>3, <1>4, <1>5, <1>6, <1>7, NextCases

--------------------------------------------------------------------------
(* The copies of each file.                                                 *)

LEMMA CopiesFinite ==
  ASSUME NEW S, NEW s \in Seq(S), NEW k
  PROVE  IsFiniteSet(Copies(s, k)) /\ Cardinality(Copies(s, k)) \in Nat
<1>1. IsFiniteSet(1..Len(s))
  BY FS_Interval
<1>2. IsFiniteSet(Copies(s, k))
  BY <1>1, FS_Subset DEF Copies
<1>. QED  BY <1>2, FS_CardinalityType

\* A try adds a copy of the file it is at, or none.
LEMMA UploadCopies ==
  ASSUME FileTypes, Upload, NEW k \in 1..NFiles
  PROVE  /\ k # Len(infos) + 1 => Copies(stored', k) = Copies(stored, k)
         /\ k = Len(infos) + 1 => Cardinality(Copies(stored', k)) <= Cardinality(Copies(stored, k)) + 1
<1>1. /\ stored' = stored \/ stored' = Append(stored, Len(infos) + 1)
      /\ Len(infos) + 1 \in 1..NFiles \/ stored' = stored
  BY UploadFrame, WriteAssumption DEF FileTypes
<1>f. IsFiniteSet(Copies(stored, k)) /\ Cardinality(Copies(stored, k)) \in Nat
  BY CopiesFinite DEF FileTypes
<1>2. CASE stored' = stored
  <2>1. Copies(stored', k) = Copies(stored, k)
    BY <1>2
  <2>. QED  BY <1>f, <2>1
<1>3. CASE stored' = Append(stored, Len(infos) + 1) /\ stored' # stored
  <2>1. /\ Len(stored') = Len(stored) + 1 /\ Len(stored) \in Nat
        /\ \A j \in 1..Len(stored) : stored'[j] = stored[j]
        /\ stored'[Len(stored) + 1] = Len(infos) + 1
    BY <1>1, <1>3, Appended DEF FileTypes
  <2>2. \A j : j \in 1..Len(stored') <=> j \in 1..Len(stored) \/ j = Len(stored) + 1
    BY <2>1
  <2>3. Copies(stored', k) = IF k = Len(infos) + 1 THEN Copies(stored, k) \cup {Len(stored) + 1} ELSE Copies(stored, k)
    BY <2>1, <2>2 DEF Copies
  <2>4. Cardinality(Copies(stored, k) \cup {Len(stored) + 1}) <= Cardinality(Copies(stored, k)) + 1
    BY <1>f, FS_AddElement
  <2>. QED  BY <2>3, <2>4
<1>. QED  BY <1>1, <1>2, <1>3

CopiesInv == CopiesFit /\ FewOrphans

\* Nothing but an upload touches the copies, and into the uploads a command
\* comes with none.
LEMMA CopiesKept ==
  ASSUME FileTypes, CopiesInv, UNCHANGED <<tries, infos, stored>>,
         at' \in Before => at \in Before, at' = "upload" => at \in Before \cup {"upload"}
  PROVE  CopiesInv'
<1>1. \A k : Copies(stored', k) = Copies(stored, k)
  BY DEF Copies
<1>2. at \in Before => \A k : Copies(stored, k) = {}
  <2>1. at \in Before => Len(stored) = 0
    BY DEF CopiesInv, CopiesFit
  <2>. QED  BY <2>1 DEF Copies
<1>3. ASSUME at' = "upload", NEW k \in 1..NFiles
      PROVE  /\ k = Len(infos) + 1 => Cardinality(Copies(stored, k)) <= tries
             /\ k > Len(infos) + 1 => Copies(stored, k) = {}
  <2>1. CASE at \in Before
    <3>1. Copies(stored, k) = {} /\ Cardinality(Copies(stored, k)) = 0 /\ tries = 0
      BY <1>2, <2>1, FS_EmptySet DEF CopiesInv, CopiesFit
    <3>. QED  BY <3>1
  <2>2. CASE at = "upload"
    BY <2>2 DEF CopiesInv, CopiesFit
  <2>. QED  BY <1>3, <2>1, <2>2
<1>4. FewOrphans'
  BY <1>1 DEF CopiesInv, FewOrphans
<1>5. CopiesFit'
  BY <1>1, <1>3 DEF CopiesInv, CopiesFit
<1>. QED  BY <1>4, <1>5 DEF CopiesInv

LEMMA CopiesStep == IndInv /\ [Next]_vars => CopiesInv'
<1>. SUFFICES ASSUME IndInv, [Next]_vars PROVE CopiesInv'
  OBVIOUS
<1>0. FileTypes /\ CopiesInv
  BY DEF IndInv, TypeOK, FileTypes, CopiesInv
<1>1. CASE Upload
  <2>. USE <1>0, <1>1, WriteAssumption
  <2>0. /\ at = "upload" /\ Len(infos) < NFiles /\ tries < MaxTries /\ Len(infos) \in Nat
        /\ tries \in Nat /\ at' \in {"upload", "failed"}
    BY DEF Upload, UploadSucceeds, UploadUnanswered, UploadRefused, Calling, FileTypes, Goes
  <2>1. \A k \in 1..NFiles :
          /\ Cardinality(Copies(stored, k)) \in Nat /\ Cardinality(Copies(stored', k)) \in Nat
          /\ k # Len(infos) + 1 => Copies(stored', k) = Copies(stored, k)
          /\ k = Len(infos) + 1 => Cardinality(Copies(stored', k)) <= tries + 1
    <3>1. FileTypes'
      BY FilesStep DEF FilesInv
    <3>2. ASSUME NEW k \in 1..NFiles
          PROVE  /\ Cardinality(Copies(stored, k)) \in Nat /\ Cardinality(Copies(stored', k)) \in Nat
                 /\ k = Len(infos) + 1 => Cardinality(Copies(stored, k)) <= tries
      <4>1. Cardinality(Copies(stored, k)) \in Nat /\ Cardinality(Copies(stored', k)) \in Nat
        BY <1>0, <3>1, CopiesFinite DEF FileTypes
      <4>. QED  BY <4>1, <2>0 DEF CopiesInv, CopiesFit
    <3>3. ASSUME NEW k \in 1..NFiles
          PROVE  /\ k # Len(infos) + 1 => Copies(stored', k) = Copies(stored, k)
                 /\ k = Len(infos) + 1 => Cardinality(Copies(stored', k)) <= Cardinality(Copies(stored, k)) + 1
      BY UploadCopies
    <3>. QED  BY <3>2, <3>3, <2>0
  <2>2. FewOrphans'
    <3>1. ASSUME NEW k \in 1..NFiles PROVE Cardinality(Copies(stored', k)) <= MaxTries
      BY <2>0, <2>1 DEF CopiesInv, FewOrphans
    <3>. QED  BY <3>1 DEF FewOrphans
  <2>3. CASE UNCHANGED infos /\ tries' \in {tries, tries + 1} /\ (at' = "upload" => tries' = tries + 1)
    BY <2>0, <2>1, <2>2, <2>3 DEF CopiesInv, CopiesFit, Before
  <2>4. CASE UploadSucceeds
    <3>1. tries' = 0 /\ Len(infos') = Len(infos) + 1
      <4>1. stored' = Append(stored, Len(infos) + 1) /\ Len(infos) + 1 \in 1..NFiles
        BY <2>0, <2>4 DEF UploadSucceeds, Store
      <4>2. infos \in Seq(1..Len(stored)) /\ infos' = Append(infos, Len(stored'))
        BY <2>4 DEF UploadSucceeds, FileTypes
      <4>. QED  BY <2>4, <4>2 DEF UploadSucceeds
    <3>2. ASSUME NEW k \in 1..NFiles, k > Len(infos) + 1 PROVE Copies(stored', k) = {}
      <4>1. k # Len(infos) + 1
        BY <2>0, <3>2
      <4>2. Copies(stored', k) = Copies(stored, k)
        BY <2>1, <4>1
      <4>3. Copies(stored, k) = {}
        BY <2>0, <3>2 DEF CopiesInv, CopiesFit
      <4>. QED  BY <4>2, <4>3
    <3>3. \A k \in 1..NFiles : k = Len(infos) + 2 => Cardinality(Copies(stored', k)) <= 0
      BY <2>0, <3>2, FS_EmptySet
    <3>. QED  BY <2>0, <2>2, <3>1, <3>2, <3>3 DEF CopiesInv, CopiesFit, Before
  <2>5. UploadSucceeds \/ (UNCHANGED infos /\ tries' \in {tries, tries + 1} /\ (at' = "upload" => tries' = tries + 1))
    BY DEF Upload, UploadUnanswered, UploadRefused, Goes
  <2>. QED  BY <2>3, <2>4, <2>5
<1>2. CASE ~Upload
  <2>1. UNCHANGED <<tries, infos, stored>>
    BY <1>2, NextCases, MoveFrame, CallFrame
       DEF Walk, PickTeam, Post, CreatePost, CreatePostFails, vars, server, files
  <2>2. /\ at' \in Before => at \in Before
        /\ at' = "upload" => at \in Before \cup {"upload"}
    <3>1. CASE Move
      BY <3>1 DEF Move, ReadInput, CheckArguments, LookAtPost, ResolveReply, OpenDirect,
         ListTeams, WalkEnds, GiveUp, NotifyPost, Interrupt, Goes, Before
    <3>2. CASE CallOnce
      BY <3>2 DEF CallOnce, AddChannelMember, ViewChannel, CreateChannel, UpdatePost, DeletePost,
         SaveReaction, PinPost, UpdateUserStatus, UpdateUserCustomStatus,
         RemoveUserCustomStatus, CallFails, Answer, Goes, Before
    <3>3. CASE Walk \/ PickTeam \/ Post \/ UNCHANGED vars
      BY <3>3 DEF Walk, PickTeam, Post, CreatePost, CreatePostFails, Goes, Before, vars
    <3>. QED  BY <1>2, <3>1, <3>2, <3>3, NextCases
  <2>. QED  BY <1>0, <2>1, <2>2, CopiesKept
<1>. QED  BY <1>1, <1>2

--------------------------------------------------------------------------
LEMMA IndInvInit == Init => IndInv
<1>. SUFFICES ASSUME Init PROVE IndInv
  OBVIOUS
<1>. USE TeamsAssumption, WriteAssumption DEF Init, InitNames
<1>1. TypeOK
  <2>1. <<>> \in Seq(1..Len(stored)) /\ <<>> \in Seq(Seq(1..Len(stored)))
        /\ <<>> \in Seq(1..NFiles) /\ <<>> \in Seq({"call", "text"}) /\ Len(<<>>) <= NFiles
    OBVIOUS
  <2>2. known \in Nat /\ 1 \in 1..(known + 1)
    OBVIOUS
  <2>. QED  BY <2>1, <2>2 DEF TypeOK, Teams, None, Over
<1>2. StageFits
  BY DEF StageFits, Posting, Single, ByPost, Statuses, Before
<1>3. WalkFits /\ InfosRight /\ WholePost /\ RightChannel
  BY DEF WalkFits, InfosRight, WholePost, RightChannel, NameRight, None
<1>4. OnePost /\ CallsInStep
  BY DEF OnePost, CallsInStep
<1>5. CopiesFit /\ FewOrphans
  <2>1. tries = 0 /\ MaxTries \in Nat /\ tries <= MaxTries /\ \A k : Copies(stored, k) = {}
    BY DEF Copies
  <2>2. \A k : Cardinality(Copies(stored, k)) = 0
    BY <2>1, FS_EmptySet
  <2>. QED  BY <2>1, <2>2 DEF CopiesFit, FewOrphans
<1>. QED  BY <1>1, <1>2, <1>3, <1>4, <1>5 DEF IndInv

LEMMA IndInvStep == IndInv /\ [Next]_vars => IndInv'
<1>. SUFFICES ASSUME IndInv, [Next]_vars PROVE IndInv'
  OBVIOUS
<1>1. FilesInv' /\ WalkInv' /\ StageInv' /\ CopiesInv'
  BY FilesStep, TargetStep, StageStep, CopiesStep
<1>. QED  BY <1>1
          DEF CopiesInv, FilesInv, WalkInv, StageInv, FileTypes, NameTypes, StageTypes, Rightly,
              IndInv, TypeOK, RightChannel

\* The inductive invariant, for any number of teams, attachments and tries: what
\* has been done by each stage, and what the walk has seen of the teams.
THEOREM Inductive == Spec => []IndInv
BY IndInvInit, IndInvStep, PTL DEF Spec

\* Through any number of repeated uploads a post has its attachments, each once
\* and in order (uploadAttachments).
THEOREM PostsAreWhole == Spec => []WholePost
<1>1. IndInv => WholePost
  BY DEF IndInv
<1>. QED  BY <1>1, Inductive, PTL

\* One command makes one post, whatever answers are lost.
THEOREM OnePostEach == Spec => []OnePost
<1>1. IndInv => OnePost
  BY DEF IndInv
<1>. QED  BY <1>1, Inductive, PTL

\* A name that lookups failed for, or that several teams have, sends nothing to
\* a channel it does not stand for.
THEOREM ChannelIsRight == Spec => []RightChannel
<1>1. IndInv => RightChannel
  BY DEF IndInv
<1>. QED  BY <1>1, Inductive, PTL

\* No call is made twice, out of turn, or after one that failed.
THEOREM CallsAreInStep == Spec => []CallsInStep
<1>1. IndInv => CallsInStep
  BY DEF IndInv
<1>. QED  BY <1>1, Inductive, PTL

\* Whatever answers are lost, the server is left no more copies of an attachment
\* than client.Retry makes calls for it (uploadAttachments).
THEOREM OrphansAreFew == Spec => []FewOrphans
<1>1. IndInv => FewOrphans
  BY DEF IndInv
<1>. QED  BY <1>1, Inductive, PTL
=============================================================================
