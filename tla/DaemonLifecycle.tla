--------------------------- MODULE DaemonLifecycle ---------------------------
(***************************************************************************)
(* The processes around the daemon: mm sync start, mm sync stop, the       *)
(* detached mm __sync-run it spawns, and the commands that decide from the *)
(* one row of sync_state whether to trust the cache.                       *)
(*                                                                         *)
(* What they share: the lock file, the control socket's path, the database *)
(* with its schema and the row of sync_state, and the process table.  A    *)
(* process of the model is a pid, used by one daemon in its life.  Time is *)
(* abstract: "fresh" says the row's heartbeat is younger than              *)
(* heartbeatStale, and GrowStale is the passing of 30 s without a beat.    *)
(***************************************************************************)
EXTENDS Integers, Sequences

CONSTANTS
  Procs,       \* pids of the daemons ever spawned
  None,        \* no process
  Starts,      \* invocations of mm sync start
  Stops,       \* invocations of mm sync stop
  Reusable,    \* pids the system may give to another program
  Latest,      \* SchemaVersion of the build each daemon is of
  MaxFaults    \* bound: crashes, failed calls and suspensions

ASSUME LifecycleAssumption ==
  /\ None \notin Procs /\ MaxFaults \in Nat /\ Reusable \subseteq Procs
  /\ Latest \in [Procs -> Nat]

VARIABLES
  proc,        \* where each daemon process is in newSyncRunCmd
  term,        \* processes whose context is cancelled
  lock,        \* the process that holds the flock on daemon.lock, or None
  ipc,         \* each process's serveIPC goroutine
  sock,        \* the process whose socket is bound at the path, or None
  row,         \* the row of sync_state; pid None: no such row
  fresh,       \* HeartbeatFresh of the row
  version,     \* PRAGMA user_version
  applied,     \* the migrations run on the database so far, in order
  upto,        \* the version up to which each process believes it migrated
  filled,      \* processes whose Backfill succeeded
  reused,      \* pids that another program now has
  starts,      \* progress of each mm sync start
  stops,       \* progress of each mm sync stop
  target,      \* the pid each of them read from the row
  faults

daemon == <<proc, term, lock, filled>>
socket == <<ipc, sock>>
schema == <<version, applied, upto>>
state == <<row, fresh, schema>>
commands == <<starts, stops, target>>
vars == <<daemon, socket, state, reused, commands, faults>>

Alive(p) == proc[p] \notin {"none", "exited"}

\* The store is open read-write, from store.Open in New to d.close in Run.
Writing(p) == proc[p] \in {"migrate", "init", "backfill", "sync", "closing"}

Fault == faults < MaxFaults /\ faults' = faults + 1

--------------------------------------------------------------------------
(* lifecycle.go: what the row says to another process.                      *)

processAlive(p) == Alive(p) \/ p \in reused

Running == row.pid # None /\ fresh /\ processAlive(row.pid)

\* openFreshLocalCache: a read command answers from the cache.
Trusted == Running /\ row.done

--------------------------------------------------------------------------
(* mm __sync-run: take the lock, log in and open the store, run, unwind.    *)

Goes(p, l) == proc' = [proc EXCEPT ![p] = l]

\* A slip: the result of the non-blocking flock is not looked at.
AcquireLockBlind(p) ==
  /\ proc[p] = "spawned" /\ lock' = p /\ Goes(p, "login")
  /\ UNCHANGED <<term, filled, socket, state, reused, commands, faults>>

\* The loser of the race for the lock exits quietly.
AcquireLock(p) ==
  /\ proc[p] = "spawned"
  /\ IF lock = None THEN lock' = p /\ Goes(p, "login")
                    ELSE UNCHANGED lock /\ Goes(p, "exited")
  /\ UNCHANGED <<term, filled, socket, state, reused, commands, faults>>

\* Login, then store.Open: Migrate reads how far the schema is.
New(p) ==
  /\ proc[p] = "login" /\ Goes(p, "migrate")
  /\ upto' = [upto EXCEPT ![p] = version]
  /\ UNCHANGED <<term, lock, filled, socket, row, fresh, version, applied, reused,
                 commands, faults>>

\* A slip: no transaction, so that the process may die between the two.
MigrateThenCount(p) ==
  /\ proc[p] = "migrate" /\ upto[p] < Latest[p]
  /\ applied' = Append(applied, upto[p] + 1)
  /\ \/ /\ version' = upto[p] + 1 /\ upto' = [upto EXCEPT ![p] = @ + 1]
        /\ UNCHANGED <<daemon, faults>>
     \/ /\ Fault /\ Goes(p, "exited") /\ lock' = None
        /\ UNCHANGED <<version, upto, term, filled>>
  /\ UNCHANGED <<socket, row, fresh, reused, commands>>

\* One migration and its number, in a transaction.
Migrate(p) ==
  /\ proc[p] = "migrate" /\ upto[p] < Latest[p]
  /\ applied' = Append(applied, upto[p] + 1)
  /\ version' = upto[p] + 1
  /\ upto' = [upto EXCEPT ![p] = @ + 1]
  /\ UNCHANGED <<daemon, socket, row, fresh, reused, commands, faults>>

\* Nothing to do on a database of this build's version, or of a later one.
Migrated(p) ==
  /\ proc[p] = "migrate" /\ upto[p] >= Latest[p] /\ Goes(p, "init")
  /\ UNCHANGED <<term, lock, filled, socket, state, reused, commands, faults>>

\* A heartbeat, alone or as part of another write of the row.
Beat == fresh' = TRUE

\* A slip: the upsert leaves backfill_done as the last daemon left it.
InitSyncStateKeepsDone(p) ==
  /\ proc[p] = "init" /\ Goes(p, "backfill")
  /\ row' = [pid |-> p, done |-> row.done]
  /\ Beat
  /\ ipc' = [ipc EXCEPT ![p] = "clear"]
  /\ UNCHANGED <<term, lock, filled, sock, schema, reused, commands, faults>>

\* InitSyncState, and the goroutines it is followed by.
InitSyncState(p) ==
  /\ proc[p] = "init" /\ Goes(p, "backfill")
  /\ row' = [pid |-> p, done |-> FALSE]
  /\ Beat
  /\ ipc' = [ipc EXCEPT ![p] = "clear"]
  /\ UNCHANGED <<term, lock, filled, sock, schema, reused, commands, faults>>

\* heartbeatLoop: the statement fails once the context is cancelled.
Heartbeat(p) ==
  /\ proc[p] \in {"backfill", "sync"} /\ p \notin term
  /\ Beat
  /\ UNCHANGED <<daemon, socket, row, schema, reused, commands, faults>>

SetBackfillDone(p) ==
  /\ proc[p] = "backfill" /\ p \notin term /\ Goes(p, "sync")
  /\ filled' = filled \cup {p}
  /\ row' = [row EXCEPT !.done = TRUE]
  /\ UNCHANGED <<term, lock, socket, fresh, schema, reused, commands, faults>>

\* A slip: the lock is let go before the store is closed.
EndRunUnlocks(p) ==
  /\ proc[p] \in {"backfill", "sync"} /\ p \in term /\ Goes(p, "closing")
  /\ lock' = None
  /\ UNCHANGED <<term, filled, socket, state, reused, commands, faults>>

\* A slip: the Backfill does not look at its context.
EndRunAfterBackfill(p) ==
  /\ proc[p] = "sync" /\ p \in term /\ Goes(p, "closing")
  /\ UNCHANGED <<term, lock, filled, socket, state, reused, commands, faults>>

\* Run returns because its context was cancelled.
EndRun(p) ==
  /\ proc[p] \in {"backfill", "sync"} /\ p \in term /\ Goes(p, "closing")
  /\ UNCHANGED <<term, lock, filled, socket, state, reused, commands, faults>>

\* Login is refused, the store cannot be migrated or written, or an API call
\* of the Backfill fails for good.
Fail(p) ==
  /\ \/ proc[p] \in {"login", "migrate"} /\ Goes(p, "closed")
     \/ proc[p] \in {"init", "backfill"} /\ Goes(p, "closing")
  /\ Fault
  /\ UNCHANGED <<term, lock, filled, socket, state, reused, commands>>

\* The deferred calls: d.close of Run, then stop, lock.Close and the exit.
CloseStore(p) ==
  /\ proc[p] = "closing" /\ Goes(p, "closed")
  /\ UNCHANGED <<term, lock, filled, socket, state, reused, commands, faults>>

CancelContext(p) ==
  /\ proc[p] = "closed" /\ Goes(p, "unlocking")
  /\ term' = term \cup {p}
  /\ UNCHANGED <<lock, filled, socket, state, reused, commands, faults>>

Unlock(p) ==
  /\ proc[p] = "unlocking" /\ Goes(p, "leaving")
  /\ lock' = None
  /\ UNCHANGED <<term, filled, socket, state, reused, commands, faults>>

\* The goroutines go with the process, wherever they were.
Exit(p) ==
  /\ proc[p] = "leaving" /\ Goes(p, "exited")
  /\ ipc' = [ipc EXCEPT ![p] = "off"]
  /\ UNCHANGED <<term, lock, filled, sock, state, reused, commands, faults>>

\* A slip: a lock file instead of a flock outlives the process that made it.
CrashKeepsLock(p) ==
  /\ Alive(p) /\ Fault /\ Goes(p, "exited")
  /\ ipc' = [ipc EXCEPT ![p] = "off"]
  /\ UNCHANGED <<term, lock, filled, sock, state, reused, commands>>

\* SIGKILL, a panic, out of memory: the system drops the lock, the socket's
\* file stays.
Crash(p) ==
  /\ Alive(p) /\ Fault /\ Goes(p, "exited")
  /\ lock' = IF lock = p THEN None ELSE lock
  /\ ipc' = [ipc EXCEPT ![p] = "off"]
  /\ UNCHANGED <<term, filled, sock, state, reused, commands>>

--------------------------------------------------------------------------
(* serveIPC, a goroutine that lives as long as its process.                 *)

ClearSocket(p) ==
  /\ ipc[p] = "clear"
  /\ ipc' = [ipc EXCEPT ![p] = "listen"] /\ sock' = None
  /\ UNCHANGED <<daemon, state, reused, commands, faults>>

\* net.Listen fails where the path is taken.
Listen(p) ==
  /\ ipc[p] = "listen"
  /\ IF sock = None THEN ipc' = [ipc EXCEPT ![p] = "up"] /\ sock' = p
                    ELSE ipc' = [ipc EXCEPT ![p] = "off"] /\ UNCHANGED sock
  /\ UNCHANGED <<daemon, state, reused, commands, faults>>

\* srv.Close and os.Remove unlink whatever is bound at the path.
CloseSocket(p) ==
  /\ ipc[p] = "up" /\ p \in term
  /\ ipc' = [ipc EXCEPT ![p] = "off"] /\ sock' = None
  /\ UNCHANGED <<daemon, state, reused, commands, faults>>

--------------------------------------------------------------------------
(* mm sync start and mm sync stop.                                          *)

StartCheck(s) ==
  /\ starts[s] = "idle"
  /\ starts' = [starts EXCEPT ![s] = IF Running THEN "already" ELSE "spawn"]
  /\ UNCHANGED <<daemon, socket, state, reused, stops, target, faults>>

Spawn(s) ==
  /\ starts[s] = "spawn"
  /\ \E p \in Procs : proc[p] = "none" /\ Goes(p, "spawned")
  /\ starts' = [starts EXCEPT ![s] = "waiting"]
  /\ UNCHANGED <<term, lock, filled, socket, state, reused, stops, target, faults>>

\* WaitFresh polls the row for 15 s.
WaitFresh(s) ==
  /\ starts[s] = "waiting"
  /\ starts' = [starts EXCEPT ![s] = IF fresh THEN "started" ELSE "failed"]
  /\ UNCHANGED <<daemon, socket, state, reused, stops, target, faults>>

StopCheck(s) ==
  /\ stops[s] = "idle"
  /\ IF Running
     THEN stops' = [stops EXCEPT ![s] = "kill"] /\ target' = [target EXCEPT ![s] = row.pid]
     ELSE stops' = [stops EXCEPT ![s] = "not running"] /\ UNCHANGED target
  /\ UNCHANGED <<daemon, socket, state, reused, starts, faults>>

\* SIGTERM cancels the daemon's context; no process, no signal.
StopKill(s) ==
  /\ stops[s] = "kill"
  /\ term' = IF Alive(target[s]) THEN term \cup {target[s]} ELSE term
  /\ stops' = [stops EXCEPT ![s] =
                 IF processAlive(target[s]) THEN "waiting" ELSE "failed"]
  /\ UNCHANGED <<proc, lock, filled, socket, state, reused, starts, target, faults>>

StopWait(s) ==
  /\ stops[s] = "waiting" /\ ~processAlive(target[s])
  /\ stops' = [stops EXCEPT ![s] = "stopped"]
  /\ UNCHANGED <<daemon, socket, state, reused, starts, target, faults>>

\* Stop gives the daemon 10 s.
StopTimeout(s) ==
  /\ stops[s] = "waiting" /\ processAlive(target[s]) /\ Fault
  /\ stops' = [stops EXCEPT ![s] = "failed"]
  /\ UNCHANGED <<daemon, socket, state, reused, starts, target>>

--------------------------------------------------------------------------
(* The world around them.                                                   *)

\* 30 s pass without a heartbeat: nobody beats, or the machine was suspended.
GrowStale ==
  /\ fresh /\ fresh' = FALSE
  /\ IF \E p \in Procs : proc[p] \in {"backfill", "sync"} /\ p \notin term
     THEN Fault ELSE UNCHANGED faults
  /\ UNCHANGED <<daemon, socket, row, schema, reused, commands>>

Reuse(p) ==
  /\ p \in Reusable \ reused /\ proc[p] = "exited"
  /\ reused' = reused \cup {p}
  /\ UNCHANGED <<daemon, socket, state, commands, faults>>

--------------------------------------------------------------------------
Init ==
  /\ proc = [p \in Procs |-> "none"] /\ term = {} /\ lock = None
  /\ ipc = [p \in Procs |-> "off"] /\ sock = None
  /\ row = [pid |-> None, done |-> FALSE]
  /\ version = 0 /\ applied = <<>> /\ upto = [p \in Procs |-> 0]
  /\ fresh = FALSE /\ filled = {} /\ reused = {}
  /\ starts = [s \in Starts |-> "idle"] /\ stops = [s \in Stops |-> "idle"]
  /\ target = [s \in Stops |-> None]
  /\ faults = 0

\* One step of the main goroutine of daemon p, other than its failure.
Main(p) ==
  \/ AcquireLock(p) \/ New(p) \/ Migrate(p) \/ Migrated(p)
  \/ InitSyncState(p) \/ SetBackfillDone(p) \/ EndRun(p)
  \/ CloseStore(p) \/ CancelContext(p) \/ Unlock(p) \/ Exit(p)

ServeIPC(p) == ClearSocket(p) \/ Listen(p) \/ CloseSocket(p)

Start(s) == StartCheck(s) \/ Spawn(s) \/ WaitFresh(s)
Stop(s) == StopCheck(s) \/ StopKill(s) \/ StopWait(s) \/ StopTimeout(s)

Next ==
  \/ \E p \in Procs :
       Main(p) \/ Heartbeat(p) \/ ServeIPC(p) \/ Fail(p) \/ Crash(p) \/ Reuse(p)
  \/ \E s \in Starts : Start(s)
  \/ \E s \in Stops : Stop(s)
  \/ GrowStale

Spec == Init /\ [][Next]_vars

\* A process runs until it ends, and so does a command once it has begun.
Fairness ==
  /\ \A p \in Procs : WF_vars(Main(p)) /\ WF_vars(ServeIPC(p)) /\ WF_vars(Heartbeat(p))
  /\ \A s \in Starts : WF_vars(Spawn(s) \/ WaitFresh(s))
  /\ \A s \in Stops : WF_vars(StopKill(s) \/ StopWait(s))

FairSpec == Spec /\ Fairness

--------------------------------------------------------------------------
Rows == [pid : Procs \cup {None}, done : BOOLEAN]

\* The type invariant.
TypeOK ==
  /\ proc \in [Procs -> {"none", "spawned", "login", "migrate", "init", "backfill", "sync",
                         "closing", "closed", "unlocking", "leaving", "exited"}]
  /\ term \subseteq Procs /\ lock \in Procs \cup {None}
  /\ ipc \in [Procs -> {"off", "clear", "listen", "up"}] /\ sock \in Procs \cup {None}
  /\ row \in Rows /\ fresh \in BOOLEAN
  /\ version \in Nat /\ applied \in Seq(Nat) /\ upto \in [Procs -> Nat]
  /\ filled \subseteq Procs /\ reused \subseteq Procs
  /\ starts \in [Starts -> {"idle", "already", "spawn", "waiting", "started", "failed"}]
  /\ stops \in [Stops -> {"idle", "not running", "kill", "waiting", "stopped", "failed"}]
  /\ target \in [Stops -> Procs \cup {None}]
  /\ \A s \in Stops : stops[s] \in {"kill", "waiting"} => target[s] \in Procs
  /\ faults \in Nat

\* The lock is held exactly from AcquireLock to Unlock.
LockHeld ==
  \A p \in Procs :
    lock = p <=> proc[p] \in {"login", "migrate", "init", "backfill", "sync", "closing",
                              "closed", "unlocking"}

\* Never two writers of the store: the lock is taken before the database is
\* opened and let go after it is closed, on every way out of newSyncRunCmd.
OneWriter == \A p, q \in Procs : Writing(p) /\ Writing(q) => p = q

\* The row of the one process that writes it.
writer == IF \E p \in Procs : Writing(p) THEN CHOOSE p \in Procs : Writing(p) ELSE None
Single == INSTANCE SingleWriter WITH writer <- writer, row <- row
IsSingleWriter == Single!Spec

\* A read command trusts the cache only of a daemon that has finished its own
\* Backfill, and never while another is in the middle of one: the flag that a
\* previous daemon left in the row is not taken for its successor's.
TrustedIsBackfilled ==
  Trusted => row.pid \in filled /\ \A p \in Procs : proc[p] # "backfill"

\* A signalled daemon unwinds, whatever it was doing, and mm sync stop sees it
\* go, if it does not give up first and no other program gets the pid.
StopTerminates ==
  /\ (\E p \in term : Alive(p)) ~> (\A p \in term : ~Alive(p))
  /\ \A s \in Stops : stops[s] = "waiting" ~>
       stops[s] \in {"stopped", "failed"} \/ target[s] \in reused

\* Through crashes between two migrations, daemons of an older and of a newer
\* build and races for the lock: the migrations run on the database are those up
\* to user_version, each of them once, in order, and a daemon that writes finds
\* all those it knows of (Migrate: a second run of one would fail on its tables,
\* and no daemon would ever come up again).
SchemaFits ==
  /\ applied = [i \in 1..version |-> i]
  /\ \A p \in Procs : Writing(p) /\ proc[p] # "migrate" => version >= Latest[p]

\* A daemon on its way up.
Coming(p) ==
  proc[p] \in {"spawned", "login", "migrate", "init", "backfill", "sync"} /\ p \notin term

\* When nothing more fails and nobody stops it, a daemon that is on its way up
\* comes up, or another it lost the lock to does, whatever the crashed, the failed
\* and the suspended ones before have left behind; and read commands take the
\* cache.
StartServes ==
  /\ faults = MaxFaults
  /\ \E p \in Procs : Alive(p)
  /\ \A p \in Procs : Alive(p) => Coming(p)
  ~> Trusted \/ \E t \in Stops : stops[t] = "kill"

--------------------------------------------------------------------------
(* What is needed beside them for an induction.                            *)

\* What a process read of the schema is still so while it migrates.
SchemaRead == \A p \in Procs : proc[p] = "migrate" => upto[p] = version

\* While a daemon runs, the row is its own and says how far it is.
RowOfDaemon ==
  \A p \in Procs :
    /\ proc[p] = "backfill" => row.pid = p /\ ~row.done
    /\ proc[p] = "sync" => row.pid = p /\ row.done

DoneIsFilled == row.done => row.pid \in filled

\* The inductive invariant of DaemonLifecycle_proofs: what each process is at
\* (AcquireLock ... Unlock) against the lock, the row and the schema.
IndInv == TypeOK /\ LockHeld /\ RowOfDaemon /\ DoneIsFilled /\ SchemaRead /\ SchemaFits

--------------------------------------------------------------------------
(* What a comment says and the code does not do.                           *)

\* ipcserver.go: the control socket runs until the context is cancelled.
SocketIsMine == \A p \in Procs : ipc[p] = "up" /\ p \notin term => sock = p
=============================================================================
