# A TLA+ model of mattermost-cli

`mm` is a command-line client for Mattermost. Most commands are one API call
and some output. What is hard is around them: a **sync daemon** that keeps a
SQLite cache in step with a server it hears of through a lossy WebSocket, the
**processes** that start, stop and trust that daemon, and the few commands that
do several things in a row and may be cut short between any two.

The modules below model that part of the code, TLC checks them on small
instances, and TLAPS proves most of what is said of them for every instance. Paths are relative to
`src/internal/`.

## The system

| component | state | operations | what is hard |
|---|---|---|---|
| sync daemon (`syncd/`) | nothing of its own beyond goroutines; the cache | Backfill, Reconcile, LoadHistory, WebSocket handlers, ingest endpoint | four writers interleave between SQL statements and API calls; snapshots are stale when written; events are lost with a connection; crashes |
| store (`store/`) | posts, reactions, channels, members, cursors, `sync_state`, `agent_cursor`, the schema's version | upserts, each one statement or transaction; migrations; reads by other processes | upserts take whatever copy they are given |
| lifecycle (`syncd/lifecycle.go`, `cli/sync.go`) | lock file, socket path, row of `sync_state`, pids | start, stop, `__sync-run`, "may I trust the cache?" | two starts at once, a start beside an unwinding daemon, crashes, pid reuse |
| control socket (`ipc/`, `syncd/ipcserver.go`) | a path | ingest a post, move the watermark, load history | best effort, bound and unlinked by different processes |
| local reads (`cli/messages.go`, `unread.go`, `channels.go`, `localcache.go`) | none | answer from the cache or ask the server | is the cache whole for this request? |
| inbox (`cli/inbox.go`) | one watermark | `mm new`, `mm seen` | listing and moving are two commands, of several agents |
| watch (`cli/watch.go`, `wsutil/`) | a connection, a timer | stream, filter, reconnect, limit, timeout | the timer runs beside the loop; who caused an event is said in different places |
| writes (`cli/post.go`, `reply.go`, `dm.go`, `attach.go`, `join.go`, `add_user.go`, `mark_read.go`, `edit.go`, `delete.go`, `react.go`, `pin.go`, `status.go`, `create_channel.go`, `client/`) | uploaded ids | upload with retries, create; a single call; the two of `mm status` | answers are lost, retries repeat, the second call fails |
| names (`cli/channel_ref.go`, `cli/messages.go`, `cli/join.go`, `resolve/`) | none | ask team after team | a failed lookup looks like "no" |
| channel lists (`cli/channels.go`, `unread.go`, `find_channel.go`) | none | merge the teams' lists, live or from the cache | channels that no team has, limits before and after a sort |
| files (`config/`, `cli/auth.go`, `cli/download.go`) | a file, a session on the server | log in, log out, download; replace atomically | kills, power cuts, two at once |
| selection (`cli/search_helpers.go`, `messages.go`, `thread.go`) | arrays filtered in place | search team by team, filter, sort, dedupe, cut | whole days against milliseconds, aliasing, ties, limits |
| single reads, formatting | none | one API call, output | not modelled, see the end |

They meet in few places. Write commands call the server and then tell the
daemon over the socket; the daemon alone writes the database; read commands
open it read-only and decide from one row, `sync_state`, whether to believe it.

## The modules

### CacheSync: the daemon and its cache

`main`, `tick` and `hist` are the goroutines of `Run`, `reconcileLoop` and
`handleLoadHistory`; `HandleIngestPost` is a request of its own. A Backfill, a
Reconcile and a LoadHistory are one pipeline, and `pass[w]` is where thread `w`
is in it and which answers of the server it holds: the channel totals, the
memberships, a page of posts with the whole threads of the replies on it. Each
API call is an action (`FetchChannels`, `FetchMembers`, `FetchPage`) and each
statement on the cache is one (`UpsertChannel`, `UpsertMember`, `IngestPost`,
`IngestCursor`), so that everything else may happen between any two. `Handle*` are
the WebSocket handlers, which `consume` calls one at a time.

Only `handlePosted` stores a post in a transaction (`UpsertPostTx`). `ingestPosts`,
`handlePostEdited` and `handleIngestPost` hand `UpsertPost` the database itself:
the row is one statement, the `DELETE` of the reactions held a second, and each
reaction's `INSERT` one more (`WriteReactions`). `upserts` holds the calls that are
not through; a pass and `consume` wait for their own (`Busy`), other writers come
in between, and an error or a crash leaves the rest unwritten (`Forsake`).

The faults are `FailPass`, `RefusePage` (the page of a channel the user has left
meanwhile), `FailEvent` (a statement of a handler fails and the rest of the event
is gone), `Drop`, `Crash` and `LoseNote`.

A post is its number, in the order of creation, which is also its `create_at`;
a post's content is its version, its reactions are a set beside it. Deleted
posts are not listed by the server but stay counted, as in Mattermost. The user
may leave and join channels (`ServerLeave`, `ServerJoin`).

`Replica` is the abstract specification of the posts and reactions tables: a
server that writes, deletes and is reacted to, and a copy that hears of it late,
more than once and in any order. `CacheSync!Copy` instantiates it (`INSTANCE
Replica WITH`) with the server's variables and the rows; the property
`IsReplica` is that the daemon implements it. It says what *is* promised: a row
holds a version that was real and reactions that were, is never forgotten, and a
tombstone is only put on what the server deleted. It does not say that the row
ends up current, and the run `deleted` shows that it does not.

### DaemonLifecycle: the processes

A process of `Procs` is a pid that runs `newSyncRunCmd` once: `AcquireLock`,
`New` (login and `store.Open`), `Migrate` once per missing migration,
`InitSyncState`, `SetBackfillDone`, and then the deferred calls in their order,
`CloseStore`, `CancelContext`, `Unlock`, `Exit`. Each daemon is of a build that
knows the migrations up to `Latest[p]`. `serveIPC` is a goroutine beside it
(`ipc[p]`), whose clean-up nobody waits for. `StartCheck`/`Spawn`/`WaitFresh` and
`StopCheck`/`StopKill`/`StopWait` are the commands, which see other processes
only through the row and `kill(pid, 0)`. Time is one bit, `fresh`: the row's
heartbeat is younger than 30 s.

`SingleWriter` is what the lock is for: one writer at a time, and every write
of the row stamped with the writer's pid. `IsSingleWriter` (`INSTANCE
SingleWriter WITH`) maps the writer to the process that has the store open.

### LocalReads

Extends CacheSync with what the commands answer: `messagesLocal` for a channel,
a `--since` and a `--limit` against `runMessages`, what the API path would answer
at that moment, with `Covered`, the test by which the code takes the first; and `unreadRowsLocal` and `channelsLocal` against
`computeUnreadRows` and the server's list. The live path reads one page, of which
the server gives at most 200 posts (`PageSize`), whatever `--limit` says; the cache
gives as many rows as asked for. `CoveredIsRight` therefore speaks of answers that
fit a page (`FitsPage`). A command is one SQL statement, so it needs no state of
its own.

### ChannelRef and PostWrite: the commands that write to the server

**ChannelRef** is the walk from a channel's name to a channel: one of the user's
`known` teams asked after the other, a failed call taken like "no such channel";
most commands stop at the first hit, `mm join` goes on and wants only one. `mm
create-channel` picks a team (`resolveTeamRef`). **PostWrite** extends it. `mm
post`, `reply` and `dm` read their files, find the channel, upload with
`client.Retry`, create the post and tell the daemon; `mm join`, `add-user` and
`mark-read` find the channel and make one call; `mm edit` looks whose the post is
and tells the daemon of the new text; `mm delete` (which wants `--yes`, and leaves
it to the server whose post it is), `react`, `unreact`, `pin`, `unpin` make one
call; `mm status` one or two, `--clear` one. Every call may succeed, be refused,
or do its work and lose its answer; `did` and `acted` are what took effect.

### Inbox, WatchStream, SavedFile

* **Inbox** has a clock of milliseconds, posts that reach the cache at once or
  late, agents that read the watermark (`ReadFloor`), list (`New`, two statements,
  the second of which may fail: `NewFails`; that the user's id could not be read is
  ignored, and then the agent's own posts are listed and counted too), work, and send a watermark (`Seen`),
  which the daemon takes (`handleSeen`) or does not (`SeenFails`); its answer may
  be lost, and the agent sends it again. `listed`, `late` and `waived` are history
  variables: `Excused` names the only ways for a post never to be listed.
* **WatchStream** is the loop of `wsutil.Connections` with `consume` in it, the
  filters by type, channel and actor as the code finds them in a message
  (`eventTypeIncluded`, `eventChannelIncluded`, `eventActorID`), and the idle
  timer, counted in ticks. `Fire` is the timer's own goroutine; a line that cannot
  be written ends the stream with 1 (`EmitFails`). What really happened (`by` whom,
  `of` whom it is said, `in` which channel) is beside the message in `Event`, so
  that `OnlyOthers` can compare the filters with it. A message names `of` and never
  `by`: the author of a post that another pins, the member whom another adds.
* **SavedFile** is the write-temp-and-rename of `config.Save` and
  `writeFileAtomic`; `program` is which of the two a behaviour is about. Only
  the first flushes, only the second (without `--force`) looks first. Around the
  first stand `Login`, which opens a session on the server, and `mm logout`:
  `ReadConfig`, `LogoutBestEffort`, `Clear`. `lost` and `raced` say whose file a
  download replaced, and who saved between its look and its rename. A command that
  fails removes its temporary file or does not: nobody looks at the error of
  `os.Remove` (`Fail`), so a copy of the token may stay, and no property denies it.
  Each login opens a session of its own.

### Selection and ChannelLists

* **Selection** searches team after team with the `after:` modifier, which counts
  whole days, executes the in-place filter and deduplication step by step on one
  array (`buf`), and states `selectRecentMessages` and `runThread` as functions
  of a list; each is compared with a definition over sets. `Filter` and
  `SortStable` say of each element where it goes, by counting what goes before
  it. A team is left out if it lacks the channel of `--in` or if its lookup failed,
  which the code does not tell apart (`SkipTeam`): `HitsRight` speaks of the teams
  that were asked. A `--in` that no team has is an error, so no answer is of no team.
* **ChannelLists** takes the teams' lists for lists of channels: the rows of `mm
  channels` and `mm unread` live (`computeUnreadRows`) and from the tags of the
  daemon's passes (`unreadRowsLocal`), with and without `--team`; and `mm
  find-channel` (`searchTeams`, `findChannelLocal`, `runFindChannel`).

The `MC...` modules hold constants for the runs. An operator commented "A slip"
is a plausible error in the definition below it, kept there because the property
it breaks is the reason for the property.

## What the runs show

Properties that hold:

| run | question | bounds | states |
|---|---|---|---|
| `recent` | is anything recent missing behind a cursor, or at rest? are local answers the live ones? do the invariants of the proofs hold? | 6 posts in two channels, three of them a thread, one written through `mm`, pages of 3, of 2 for a Reconcile, 2 faults; every `--since` and `--limit`; no ticks, no `mm history`, no deletions | 871 000 |
| `sync` | an edit, a deletion, ingests, reactions and `mm history` beside Backfill and Reconcile, statement by statement: cursors backed, posts and reactions refine Replica | 1 post, written through `mm`, 2 versions, 1 reaction put or taken back twice, 1 fault, pages of 1 | 1 493 000 |
| `live` | `mm unread`, `mm channels` and recent posts come to agree with the server for good, two Reconciles at once | 1 channel with 1 post, viewed elsewhere, the channel left and joined again, 1 fault, fairness | 254 000 |
| `lifecycle` | one writer; trust is earned; the row is the writer's; migrations run once; `mm sync stop` comes back; a daemon comes up whatever the dead ones left | 2 daemons of two builds, 2 starts, 1 stop, 2 faults, a reused pid, fairness | 381 000 |
| `inbox` | the watermark passes over nothing without an excuse | 2 posts of others, 1 own, 2 agents, 3 moments, `--limit` 1 or 2, `--since`, a user's id that may be unreadable | 965 000 |
| `watch` | whose events are printed, their order, exit codes, the end of the stream | 7 events of four types, own ones, a pin of another's post and another's of the own among them, limit 2, 2 lost connections, failed writes, fairness | 11 300 |
| `files` | attachments whole, one post, the right channel, calls in step, an end | every command; 3 files, 3 tries, up to 3 teams with or without the name, fairness | 55 000 |
| `saved` | a reader sees a whole file, whatever temporary file stays; no config names a session that was ended; no download overwrites what it has seen | 3 writers, 2 logouts, a power cut | 245 000 |
| `lists` | the selections and the channel lists are right | 4 posts, two of one millisecond, over two days; 4 channels, two of a name, one direct; 2 teams with up to 2 of them in every order; every `--since` and `--limit` up to 3 | 200 000 |

The page sizes are scaled down and keep their order (`MinBackfill <= PageSize`,
`WindowFloor <= WindowCap`): a page of three for a Backfill and of two for a
Reconcile, five posts in a channel overflow the first, and three leave a hole behind
the second. One fault is enough for a pass or a connection cut short anywhere, two
for a second one during the repair. For larger instances only what is proved below
is claimed.

No run has all of CacheSync at once. In `recent` the ticker, `mm history` and
deletions are off, so that for its properties the interplay of three pipelines is
covered by the proofs alone, which have every thread; a cursor leaps there (see
below), but the posts are too few for it to leap over one that stays missing. `live`
has the two Reconciles but one channel: that a refused page ends a pass before it
gets to other channels is in the model and not in that run. In `lifecycle` a pid may
be given away, and no property says that `mm sync stop` spares the program that got
it: it does not.

"Recent" means within the newest `MinBackfill` (60) posts of a channel: it is
what one Reconcile fetches, and the code promises no more. "At rest"
(`AtRest`) means connected, no event unhandled, and a Reconcile that *began* on
this connection over: a Reconcile that began before it may have read the
channel list too early, and there `NothingMissed` would be false.

Disagreements between a comment and the code, each found by its run as a
violation of the quoted text:

| run | text | what happens |
|---|---|---|
| `deleted` | "the WebSocket/reconcile keep the cache correct regardless" (`syncd/ipcserver.go:19`) | a late write of an old copy brings a deleted post back for good |
| `hole` | "only answer locally when the cache certainly holds the full requested set" (`cli/messages.go:151`) | after an outage of more than a page the cache has a hole and answers all the same |
| `socket` | the socket runs "until ctx is cancelled" (`syncd/ipcserver.go:17`) | a leaving daemon unlinks its successor's |

Others were met on the way. A property states what holds around each of them:

* The unread count is one too high between a reconnect and the next Reconcile;
  `UnreadConverges` says that it is repaired. `PostsConverge` also fails for an
  edit made while disconnected, which is never fetched, and for a last reaction
  taken back then: an empty list deletes none (`store/write.go:136`).
* A page of *older* posts can move `newest_synced_at` ahead. The server sends the
  whole threads of the replies on a page, and `ingestPosts` takes the newest of all
  that came (`syncd/backfill.go:151`): a Backfill's second page, or `mm history`,
  that brings a reply newer than anything fetched moves the cursor past posts nobody
  has, and the next Reconcile skips the channel. `leapt` marks the channels where a
  page moved the cursor so; `NewestPageWhole`, `NothingMissed`, `RecentConverge` and
  `CoveredIsRight` leave them out, and say that nothing else makes such a hole.
* With `--limit` above 200, `mm messages` gives 200 posts live and as many as asked
  for from the cache.
* `mm watch` prints what the user did to another's post or membership, a pin or a
  deletion, and hides what others did to the user's: the message names the author,
  and `eventActorID` takes him for who acted. `OnlyOthers` says that nothing else of
  the user's own gets out.
* `mm sync start` takes a dead daemon's heartbeat for the new one's and says
  "started"; `StartServes` says that a daemon comes up all the same.
* With `--team`, `mm unread` lists a direct message live under every team and
  from the cache only under the team the daemon listed last; and without it the
  live `team` of the row is the first team that lists it. The comment at
  `syncd/backfill.go:41` ("the same team as the live commands") holds for users
  of one team. `TeamAlike` says that nothing else differs.
* `skills/mattermost/references/commands.md:219` calls local output "identical to
  live". It is not for channels the user has left, whose rows stay, nor for `mm
  find-channel` where a joined channel is found: the public ones not joined, and
  with a limit other channels than live, are then not shown (`FoundRight`).
* `mm seen` without `--at` covers posts that were never listed, and a page's
  last millisecond may hold one more (`NothingPassedOver` excuses exactly these).
* `mm watch` may exit 4 right after a line of output. A failed lookup counts as
  "no such channel" (`RightChannel` says that nothing else hides a team). `mm
  download` overwrites what is made between its look and its rename
  (`NoClobber`: and nothing else). `mm status` may leave the state without the
  text (`CallsInStep`: never the text without the state).
* A cache of another account is trusted: nothing compares `me_user_id` with the
  config. `mm find-channel --limit 0` gives one row. A failed `mm login` may leave a copy of
  the token in a temporary file. `mm new` lists the user's own posts if `sync_state`
  cannot be read. The comments at
  `store/migrate.go:28` and `syncd/handlers.go:15` say more than the code does.

## Fairness

`CacheSync!Fairness`: weak fairness for each pipeline's next step, for `consume`,
for connecting, for the ticker, and for the delivery or loss of a notification.
They are goroutines that nothing blocks for ever: API calls have timeouts and
retries that give up, the database has one connection that is handed round, the
loops are unconditional. `Start` is fair because a daemon that nobody starts
promises nothing. Faults and the server's users are not fair, and faults are
bounded: the convergence properties speak of the time after the last one.

`DaemonLifecycle!Fairness`: a process and a started command run on. A crash is
never forced. `mm sync stop` may give up after 10 s, at any time the model
likes, at the cost of a fault.

`WatchStream`: time passes and the goroutines run; a dial need not ever succeed.
`PostWrite`: the command runs on; no call need ever succeed. The other modules
state no liveness.

`CHECK_DEADLOCK FALSE` is said where the bounds let the model stop: no more
posts, no more processes, a command that is over.

## What is proved

Eight modules of proofs, each from its constants' assumptions alone: any number
of channels, posts, versions, processes, builds, commands, agents, teams, files
and faults. In each an `IndInv` is shown to be inductive (`Inductive`, one step
per action; in `Selection_proofs` `HitsInductive`) and the properties follow from
it; a run checks the same invariant of the daemon, the inbox, the stream, the
files and the commands, and `recent` the `RecentInv` that is added to that of
CacheSync.

* `CacheSync_proofs`. **CursorsAreBacked**: a channel's cursor names two posts of
  the channel that are in the cache. It is not inductive: `IngestCursor` writes
  it from a page, so one must know that all of the page's rows are in
  (`PageIngested`), that they are of the channel, and that a row is never taken
  back to version 0, which needs every version in flight to be a real one
  (`InFlightReal`) and everything well typed (`TypeOK`). **ImplementsReplica**:
  every step of CacheSync is a step of Replica or a stutter; `InFlightReal` and
  `ReactionsReal` are what makes each write of a row a legal `Hear`.
* `CacheSync_recent_proofs`. **NewestPageIsWhole**, **NothingIsMissed**, from
  `IndInv` and `RecentInv` (**RecentInductive**). The server's first page holds
  every live post with fewer than `MinBackfill` posts between it and the page's
  newest, and so does a later page into which no newer reply has strayed; that stays so while posts are made and deleted (`PageWhole`), and when
  the page is written the cursor stands before no hole (`NewestPageWhole`), which
  is why the test `LastPostAt <= newest_synced_at` may skip a channel. A
  Reconcile that began on the connection that is up (`Connected`) then settles
  channel after channel, while every post made meanwhile is in the cache or in
  the queue (`SettledSoFar`): at rest the queue is empty and no channel is left.
  Channels joined and left, failing handlers and the second Reconcile of the
  timer are among the steps. **CoveredAnswersAreRight**, of LocalReads, follows:
  a row is marked deleted only if its post was (`DeletedIsReal`, which the
  refinement of Replica preserves), what is wanted of the channel is held
  (`WantedIsHeld`), and then the part held, cut by count, gives what the whole
  channel gives (`PartAnswers`), which is what its one page gives (`LiveAnswer`), a
  page that holds the answer. The three are about channels whose cursor has not leapt.
* `DaemonLifecycle_proofs`. **NeverTwoWriters**: from `LockHeld`, the lock is
  held by exactly those between `AcquireLock` and `Unlock`; it is that which
  orders the deferred calls. **TrustIsEarned**: from `RowOfDaemon` (while a
  daemon runs the row is its own) and `DoneIsFilled`. **MigrationsFit**: what a
  process read of the schema stays so while it migrates (`SchemaRead`), because
  it holds the lock. **ImplementsSingleWriter**: the refinement mapping picks the
  one process that writes; that it is one is `NeverTwoWriters`.
* `Inbox_proofs`. **NothingIsPassedOver**: every time an agent has read, was
  shown or has sent is `Settled`: nothing behind it is unaccounted for, and what
  comes behind it later is late or waived.
* `WatchStream_proofs`. **NoneTwice**, **ZeroIsLimit**: what is printed, in hand
  and queued is one increasing sequence. **OthersOnly**: what is in hand or
  printed passed the filters (`Filtered`), and the filters find the actor and the
  channel of a message in either of the two places where the server puts them.
  What the server puts there is `MessageAssumption`: whom the event is about, who
  is the one who caused it but for what is done to another's post, reaction or
  membership (`OnAnother`).
* `SavedFile_proofs`. **NeverAPart**, **NoSessionIsDead**,
  **NothingIsClobbered**: how the temporary file, the target and the sessions fit
  together at each stage of each writer.
* `PostWrite_proofs`. **PostsAreWhole**, **OnePostEach**, **ChannelIsRight**,
  **CallsAreInStep**, **OrphansAreFew**: `StageFits` says which command can be
  where and what has been done by then, `WalkFits` what the walk has seen of the
  teams behind it, `InfosRight` that the ids collected are of the files in order,
  `CopiesFit` that the server has no more copies of a file than calls were made
  for it, and none of a file whose turn has not come.
* `Selection_proofs`, of Selection and ChannelLists. **HitsAreRight**, from
  `HitsInductive`: no pass over the array writes where it has still to read
  (`Cursor`), what was written and what is still to be read are together what was
  wanted (`NothingLost`), and what was kept is the front of a sorted list
  (`NewestKept`); so cutting it by count keeps the newest. **MessagesAreRight**,
  **ThreadIsRight**: the same of functions on a list. **TeamsAlike**,
  **FindChannelIsRight**: of the lists of channels. They rest on one lemma on
  `Arrange`, the operator that both filtering and stable sorting are made of: when
  "before" orders the positions strictly and totally, the places are a bijection
  (`Placed`, `Arranged`); hence what a stable sort and a filter return (`SortedStable`,
  `Filtered`), and how many are in it (`OnceCounts`). `searchTeams` is a recursive
  function; that there is one is itself a lemma (`LoopEnds`), by induction on a
  set of numbers.

Only model-checked: everything under fairness (`UnreadConverges`,
`RecentConverge`, `StopTerminates`, `StartServes`, `TimeoutEnds`, `CommandEnds`),
which is out of the prover's reach. Every invariant that a run expects to
hold, and both refinements, have a theorem.

## What is not modelled

* Files, users and statuses in the cache: they are written beside the posts and
  no decision rests on them. The daemon's resolver (`resolve/`), which is only
  asked for the display names of direct channels, and the per-command memo of
  the same code.
* Several teams in CacheSync: one list of channels; ChannelLists says what
  several change. The cache's own look-up by name (`store.ChannelByRefLocal`),
  references by id or `@user`.
* Accounts: one. The server's deletion of the replies of a deleted root.
* The durability of SQLite and of a rename: a committed statement and a renamed
  path stay; `config.Save` flushes the file and not its directory.
* `mm overview`'s counts, `mm pinned`, and the single reads (members, user, whoami,
  query, history's output): a read and output.
* Formatting, time parsing, flags, error codes: conversions with tests.

## Where it could go

Several accounts in DaemonLifecycle, if the code comes to compare them; several
teams in CacheSync, if teams come to be left.
