------------------------------ MODULE PostWrite ------------------------------
(***************************************************************************)
(* The commands that write to the server.  mm post, mm reply and mm dm     *)
(* read the attachments, find the channel, upload the files one after the  *)
(* other, create the post and tell the daemon.  mm join, mm add-user and   *)
(* mm mark-read find the channel and make a single call, mm create-channel *)
(* finds a team.  The rest change a post they are given or the user's      *)
(* status, and only mm status may take two calls for it.                   *)
(*                                                                         *)
(* Only the uploads go through client.Retry; a call whose answer is lost   *)
(* may have done its work on the server all the same.                      *)
(***************************************************************************)
EXTENDS ChannelRef, Sequences

CONSTANTS
  NFiles,      \* --file arguments, at most maxAttachments
  MaxTries     \* calls client.Retry makes (3)

ASSUME WriteAssumption == NFiles \in Nat /\ MaxTries \in Nat \ {0}

VARIABLES
  at,          \* where the command is
  tries,       \* calls made of the present upload
  infos,       \* the file ids uploadAttachments has collected
  stored,      \* the server's files: of file id k, the attachment it holds
  posts,       \* the server's posts: the file ids of each
  acted,       \* where a call took effect: teams' channels
  did,         \* the calls that took effect, "text" for the second of mm status
  told,        \* the daemon was told of the post
  given        \* mm delete --yes, mm status with a text, mm create-channel
               \* --team; for mm edit, a post of the user's own

server == <<stored, posts, acted, did>>
vars == <<names, at, tries, infos, server, told, given>>
files == <<tries, infos, stored, posts>>

Posting == {"post", "reply", "dm"}
Single == {"join", "add-user", "mark-read"}
ByPost == {"edit", "delete", "react", "unreact", "pin", "unpin"}
Statuses == {"status", "clear"}
Over == {"done", "failed"}
Goes(l) == at' = l

--------------------------------------------------------------------------
(* From the arguments to a channel.                                         *)

\* readPostInput: every path is read before the first byte is sent.
ReadInput ==
  /\ at = "read" /\ (Goes("resolve") \/ Goes("failed"))
  /\ UNCHANGED <<names, tries, infos, server, told, given>>

\* What the commands want that are given a post or a status: input, a post id,
\* an emoji, one of four states, and mm delete its --yes.
CheckArguments ==
  /\ at = "check"
  /\ \/ /\ command = "delete" => given
        /\ Goes(IF command = "edit" THEN "look" ELSE "call")
     \/ Goes("failed")
  /\ UNCHANGED <<names, tries, infos, server, told, given>>

\* GetPost: whose is it?
LookAtPost ==
  /\ at = "look" /\ ((given /\ Goes("call")) \/ Goes("failed"))
  /\ UNCHANGED <<names, tries, infos, server, told, given>>

\* The channel of the post replied to.
ResolveReply ==
  /\ at = "resolve" /\ command = "reply"
  /\ (Goes("upload") \/ Goes("failed"))
  /\ UNCHANGED <<names, tries, infos, server, told, given>>

\* The direct channel with a user; making one that exists changes nothing.
OpenDirect ==
  /\ at = "resolve" /\ command = "dm"
  /\ (Goes("upload") \/ Goes("failed"))
  /\ UNCHANGED <<names, tries, infos, server, told, given>>

\* GetTeamsForUser, before the walk.
ListTeams ==
  /\ at = "resolve" /\ command \in {"post"} \cup Single
  /\ (Goes("walk") \/ Goes("failed"))
  /\ UNCHANGED <<names, tries, infos, server, told, given>>

Walk ==
  /\ at = "walk" /\ (Found \/ NotThere \/ LookupFails \/ Choose)
  /\ UNCHANGED <<at, tries, infos, server, told, given>>

WalkEnds ==
  /\ at = "walk"
  /\ \/ target # None /\ Goes(IF command \in Single THEN "call" ELSE "upload")
     \/ NoChannel /\ Goes("failed")
  /\ UNCHANGED <<names, tries, infos, server, told, given>>

\* mm create-channel.
PickTeam ==
  /\ at = "resolve" /\ command = "create-channel"
  /\ \/ resolveTeamRef(given) /\ Goes("call")
     \/ Goes("failed") /\ UNCHANGED names
  /\ UNCHANGED <<tries, infos, server, told, given>>

--------------------------------------------------------------------------
(* A single call, or the two of mm status.                                  *)

Effect ==
  /\ did' = Append(did, at)
  /\ acted' = acted \cup ({target} \ {None})

\* The server's answer to the call of one of the commands.
Answer(commands, l) ==
  /\ at = "call" /\ command \in commands /\ Goes(l)
  /\ Effect
  /\ UNCHANGED <<names, files, told, given>>

AddChannelMember == Answer({"join", "add-user"}, "done")
ViewChannel == Answer({"mark-read"}, "done")
CreateChannel == Answer({"create-channel"}, "done")
UpdatePost == Answer({"edit"}, "notify")
DeletePost == Answer({"delete"}, "done")
SaveReaction == Answer({"react", "unreact"}, "done")
PinPost == Answer({"pin", "unpin"}, "done")
RemoveUserCustomStatus == Answer({"clear"}, "done")

\* The state, and then the text.
UpdateUserStatus == Answer({"status"}, IF given THEN "text" ELSE "done")

UpdateUserCustomStatus ==
  /\ at = "text" /\ Goes("done") /\ Effect
  /\ UNCHANGED <<names, files, told, given>>

\* A slip: an error of the first call does not stop the second.
CallFailsOn ==
  /\ at \in {"call", "text"}
  /\ Goes(IF at = "call" /\ command = "status" THEN "text" ELSE "failed")
  /\ Effect \/ UNCHANGED <<did, acted>>
  /\ UNCHANGED <<names, files, told, given>>

\* The user or post is unknown, the channel is not public, or the call fails,
\* its work done or not.
CallFails ==
  /\ at \in {"call", "text"} /\ Goes("failed")
  /\ Effect \/ UNCHANGED <<did, acted>>
  /\ UNCHANGED <<names, files, told, given>>

--------------------------------------------------------------------------
(* The uploads and the post.                                                *)

\* A slip: one call too many; an upload beyond the last file.
CallingOnceMore == at = "upload" /\ Len(infos) < NFiles /\ tries <= MaxTries
CallingTooFar == at = "upload" /\ Len(infos) <= NFiles /\ tries < MaxTries

Calling == at = "upload" /\ Len(infos) < NFiles /\ tries < MaxTries
Store == stored' = Append(stored, Len(infos) + 1)

UploadSucceeds ==
  /\ Calling /\ Store
  /\ infos' = Append(infos, Len(stored'))
  /\ tries' = 0
  /\ UNCHANGED <<names, at, posts, acted, did, told, given>>

\* A slip: the loop goes on with the answer to the upload before.
UploadUnansweredKept ==
  /\ Calling /\ stored # <<>>
  /\ infos' = Append(infos, Len(stored))
  /\ tries' = 0
  /\ UNCHANGED <<names, at, stored, posts, acted, did, told, given>>

\* A 429, a 5xx or no response: the file may be there or not.
UploadUnanswered ==
  /\ Calling /\ (Store \/ UNCHANGED stored)
  /\ tries' = tries + 1
  /\ UNCHANGED <<names, at, infos, posts, acted, did, told, given>>

\* Any other status, or an answer without a file info.
UploadRefused ==
  /\ Calling /\ (Store \/ UNCHANGED stored)
  /\ Goes("failed")
  /\ UNCHANGED <<names, tries, infos, posts, acted, did, told, given>>

\* A slip: the count is compared one too late.
GiveUpLate ==
  /\ at = "upload" /\ tries > MaxTries /\ Goes("failed")
  /\ UNCHANGED <<names, tries, infos, server, told, given>>

\* The fourth call, 45 s of them, or the end of the context: the last error.
GiveUp ==
  /\ at = "upload" /\ tries > 0 /\ Goes("failed")
  /\ UNCHANGED <<names, tries, infos, server, told, given>>

CreatePost ==
  /\ at = "upload" /\ Len(infos) = NFiles
  /\ Goes("notify")
  /\ posts' = Append(posts, infos)
  /\ UNCHANGED <<names, tries, infos, stored, acted, did, told, given>>

\* A slip: creating the post is retried as well.
CreatePostRetried ==
  /\ at = "upload" /\ Len(infos) = NFiles /\ Len(posts) < MaxTries
  /\ posts' = Append(posts, infos) \/ UNCHANGED posts
  /\ UNCHANGED <<names, at, tries, infos, stored, acted, did, told, given>>

\* One call, not retried: it may still have made the post.
CreatePostFails ==
  /\ at = "upload" /\ Len(infos) = NFiles
  /\ Goes("failed")
  /\ posts' = Append(posts, infos) \/ UNCHANGED posts
  /\ UNCHANGED <<names, tries, infos, stored, acted, did, told, given>>

NotifyPost ==
  /\ at = "notify" /\ Goes("done")
  /\ told' \in BOOLEAN
  /\ UNCHANGED <<names, tries, infos, server, given>>

\* Ctrl-C, or the process killed.
Interrupt ==
  /\ at \notin Over /\ Goes("failed")
  /\ UNCHANGED <<names, tries, infos, server, told, given>>

Init ==
  /\ InitNames(Posting \cup Single \cup ByPost \cup Statuses \cup {"create-channel"})
  /\ at = (IF command \in Posting THEN "read"
           ELSE IF command \in ByPost \cup Statuses THEN "check" ELSE "resolve")
  /\ tries = 0 /\ infos = <<>> /\ told = FALSE /\ given \in BOOLEAN
  /\ stored = <<>> /\ posts = <<>> /\ acted = {} /\ did = <<>>

CallOnce ==
  \/ AddChannelMember \/ ViewChannel \/ CreateChannel
  \/ UpdatePost \/ DeletePost \/ SaveReaction \/ PinPost
  \/ UpdateUserStatus \/ UpdateUserCustomStatus \/ RemoveUserCustomStatus \/ CallFails

Command ==
  \/ ReadInput \/ CheckArguments \/ LookAtPost
  \/ ResolveReply \/ OpenDirect \/ ListTeams \/ Walk \/ WalkEnds \/ PickTeam
  \/ CallOnce
  \/ UploadSucceeds \/ UploadUnanswered \/ UploadRefused \/ GiveUp
  \/ CreatePost \/ CreatePostFails \/ NotifyPost

Next == Command \/ Interrupt

Spec == Init /\ [][Next]_vars

\* The command runs until it ends.
FairSpec == Spec /\ WF_vars(Command)

--------------------------------------------------------------------------
\* The type invariant.
TypeOK ==
  /\ at \in {"read", "check", "look", "resolve", "walk", "call", "text", "upload",
             "notify"} \cup Over
  /\ tries \in Nat /\ infos \in Seq(1..Len(stored)) /\ Len(infos) <= NFiles
  /\ stored \in Seq(1..NFiles) /\ posts \in Seq(Seq(1..Len(stored)))
  /\ acted \subseteq Teams /\ did \in Seq({"call", "text"})
  /\ told \in BOOLEAN /\ given \in BOOLEAN
  /\ command \in Posting \cup Single \cup ByPost \cup Statuses \cup {"create-channel"}
  /\ known \in 0..NTeams /\ having \subseteq 1..known /\ hits \subseteq 1..known
  /\ missed \subseteq 1..known /\ team \in 1..(known + 1) /\ target \in {None} \cup 1..known

\* A post that exists carries every attachment once, in the order given,
\* however many uploads were repeated on the way: no upload that failed leaves
\* a post without its file (attach.go, commands.md).
WholePost ==
  \A i \in 1..Len(posts) :
    /\ Len(posts[i]) = NFiles
    /\ \A k \in 1..NFiles : stored[posts[i][k]] = k

\* One command makes one post at most, whatever answers were lost, and exactly
\* one if it says so.
OnePost ==
  Len(posts) <= 1 /\ (at = "done" /\ command \in Posting => Len(posts) = 1)

\* What a command writes goes to the channel the name stands for: that of the
\* first team that has it, for mm join of the only one, where nothing but a
\* failed lookup hides a team, and a new channel to the team asked for or the
\* only one; no channel, no write (resolveMessagesChannel).
RightChannel ==
  /\ IF command = "create-channel" /\ ~given THEN target # None => known = 1 ELSE NameRight
  /\ acted \subseteq {target} \ {None}
  /\ posts # <<>> /\ command = "post" => target # None

\* A command makes each of its calls once and in their order: one that failed
\* has done what comes before, perhaps the call that failed, and nothing that
\* comes after, so that mm status leaves no text beside the state before; one
\* that says so has done them all.  No edit is sent for another's post, and no
\* deletion without --yes.
CallsInStep ==
  LET calls == IF command = "status" /\ given THEN <<"call", "text">> ELSE <<"call">>
  IN  /\ did \in {<<>>, <<"call">>, calls}
      /\ at = "done" => did = IF command \in Posting THEN <<>> ELSE calls
      /\ did # <<>> /\ command \in {"edit", "delete"} => given

\* The copies of an attachment among the server's files.
Copies(s, k) == {i \in 1..Len(s) : s[i] = k}

\* The copies a repeated upload leaves for the server to reap are bounded: of
\* each attachment no more than client.Retry makes calls.
FewOrphans == \A k \in 1..NFiles : Cardinality(Copies(stored, k)) <= MaxTries

\* No server keeps a command busy for ever.
CommandEnds == <>(at \in Over)

--------------------------------------------------------------------------
(* What is needed beside them for an induction.                             *)

Before == {"read", "check", "look", "resolve", "walk"}

\* Who is where, and what has been done by then.
StageFits ==
  /\ at \in {"read", "upload"} => command \in Posting
  /\ at = "check" => command \in ByPost \cup Statuses
  /\ at = "look" => command = "edit"
  /\ at = "resolve" => command \in Posting \cup Single \cup {"create-channel"}
  /\ at = "walk" => command \in {"post"} \cup Single
  /\ at = "call" => command \notin Posting /\ (command \in {"edit", "delete"} => given)
  /\ at = "text" => command = "status" /\ given /\ did = <<"call">>
  /\ at = "notify" => command \in Posting \cup {"edit"}
  /\ at = "notify" /\ command = "edit" => did = <<"call">>
  /\ at \in {"upload", "notify"} /\ command = "post" => target # None
  /\ at \in Before \cup {"upload", "call"} => acted = {} /\ did = <<>>
  /\ at \in Before \cup {"upload"} => posts = <<>>
  /\ command \in Posting => did = <<>>
  /\ command \notin Posting => posts = <<>>
  /\ at = "notify" /\ command \in Posting => Len(posts) = 1

\* What the walk has seen of the teams behind it.
WalkFits ==
  /\ at \in Before \ {"walk"} => team = 1 /\ target = None
  /\ command = "create-channel" => team = 1
  /\ missed \subseteq 1..(team - 1)
  /\ hits = IF command = "join" THEN (having \ missed) \cap 1..(team - 1) ELSE {}
  /\ target = None /\ command # "join" => (having \ missed) \cap 1..(team - 1) = {}

InfosRight == \A k \in 1..Len(infos) : stored[infos[k]] = k

\* Every copy was left by a try: of the file being uploaded there are no more
\* than tries so far, of those behind it none.
CopiesFit ==
  /\ tries <= MaxTries
  /\ at \in Before => stored = <<>> /\ tries = 0 /\ infos = <<>>
  /\ at = "upload" => \A k \in 1..NFiles :
       /\ k = Len(infos) + 1 => Cardinality(Copies(stored, k)) <= tries
       /\ k > Len(infos) + 1 => Copies(stored, k) = {}

\* The inductive invariant of PostWrite_proofs: what a command has done by each
\* of its stages, and what its walk over the teams has seen.
IndInv ==
  /\ TypeOK /\ StageFits /\ WalkFits /\ InfosRight
  /\ WholePost /\ OnePost /\ RightChannel /\ CallsInStep
  /\ CopiesFit /\ FewOrphans
=============================================================================
