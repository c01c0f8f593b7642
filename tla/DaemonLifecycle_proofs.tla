----------------------- MODULE DaemonLifecycle_proofs -----------------------
(* Proofs about DaemonLifecycle: the inductive invariant, one writer at a     *)
(* time, and the single-writer row it implements.                             *)
EXTENDS DaemonLifecycle, TLAPS

LEMMA FaultType == ASSUME faults \in Nat, Fault PROVE faults' \in Nat
BY LifecycleAssumption DEF Fault

LEMMA MigrateType ==
  ASSUME TypeOK, NEW p \in Procs, Migrate(p)
  PROVE  applied' \in Seq(Nat) /\ version' \in Nat /\ upto' \in [Procs -> Nat]
<1>1. upto \in [Procs -> Nat] /\ applied \in Seq(Nat)
  BY DEF TypeOK
<1>2. upto[p] + 1 \in Nat
  BY <1>1
<1>. QED  BY <1>1, <1>2 DEF Migrate

\* The writes of one process's place, and of one element of the other
\* functions, keep their types.
LEMMA TypeStep ==
  ASSUME TypeOK, [Next]_vars PROVE TypeOK'
<1>. USE DEF TypeOK
<1>1. ASSUME NEW p \in Procs, Main(p) PROVE TypeOK'
  <2>1. CASE AcquireLock(p)
    BY <2>1 DEF AcquireLock, Goes, socket, state, schema, commands
  <2>2. CASE New(p)
    BY <2>2 DEF New, Goes, socket, commands
  <2>2a. CASE Migrate(p)
    BY <2>2a, MigrateType DEF Migrate, daemon, socket, commands
  <2>2b. CASE Migrated(p)
    BY <2>2b DEF Migrated, Goes, socket, state, schema, commands
  <2>3. CASE InitSyncState(p)
    BY <2>3 DEF InitSyncState, Goes, Beat, Rows, schema, commands
  <2>4. CASE SetBackfillDone(p)
    BY <2>4 DEF SetBackfillDone, Goes, Rows, socket, schema, commands
  <2>5. CASE EndRun(p) \/ CloseStore(p)
    BY <2>5 DEF EndRun, CloseStore, Goes, socket, state, schema, commands
  <2>6. CASE CancelContext(p) \/ Unlock(p) \/ Exit(p)
    BY <2>6 DEF CancelContext, Unlock, Exit, Goes, socket, state, schema, commands
  <2>. QED  BY <1>1, <2>1, <2>2, <2>2a, <2>2b, <2>3, <2>4, <2>5, <2>6 DEF Main
<1>2. ASSUME NEW p \in Procs, Heartbeat(p) \/ Fail(p) \/ Crash(p) \/ Reuse(p) PROVE TypeOK'
  <2>1. CASE Heartbeat(p)
    BY <2>1 DEF Heartbeat, Beat, daemon, socket, schema, commands
  <2>2. CASE Fail(p)
    BY <2>2, FaultType DEF Fail, Goes, socket, state, schema, commands
  <2>3. CASE Crash(p)
    BY <2>3, FaultType DEF Crash, Goes, state, schema, commands
  <2>4. CASE Reuse(p)
    BY <2>4 DEF Reuse, daemon, socket, state, schema, commands
  <2>. QED  BY <1>2, <2>1, <2>2, <2>3, <2>4
<1>3. ASSUME NEW p \in Procs, ServeIPC(p) PROVE TypeOK'
  BY <1>3 DEF ServeIPC, ClearSocket, Listen, CloseSocket, daemon, state, schema, commands
<1>4. ASSUME NEW s \in Starts, Start(s) PROVE TypeOK'
  <2>1. CASE StartCheck(s) \/ WaitFresh(s)
    BY <2>1 DEF StartCheck, WaitFresh, daemon, socket, state, schema
  <2>2. CASE Spawn(s)
    BY <2>2 DEF Spawn, Goes, socket, state, schema
  <2>. QED  BY <1>4, <2>1, <2>2 DEF Start
<1>5. ASSUME NEW s \in Stops, Stop(s) PROVE TypeOK'
  <2>1. CASE StopCheck(s)
    BY <2>1 DEF StopCheck, Running, Rows, daemon, socket, state, schema
  <2>2. CASE StopKill(s)
    <3>1. target[s] \in Procs
      BY <2>2 DEF StopKill
    <3>2. term' \subseteq Procs
      BY <2>2, <3>1 DEF StopKill
    <3>3. PICK x \in {"waiting", "failed"} : stops' = [stops EXCEPT ![s] = x]
      BY <2>2 DEF StopKill
    <3>. QED  BY <2>2, <3>1, <3>2, <3>3 DEF StopKill, socket, state, schema
  <2>3. CASE StopWait(s) \/ StopTimeout(s)
    BY <2>3, FaultType DEF StopWait, StopTimeout, daemon, socket, state, schema
  <2>. QED  BY <1>5, <2>1, <2>2, <2>3 DEF Stop
<1>6. CASE GrowStale
  BY <1>6, FaultType DEF GrowStale, daemon, socket, schema, commands
<1>7. CASE UNCHANGED vars
  BY <1>7 DEF vars, daemon, socket, state, schema, commands
<1>. QED  BY <1>1, <1>2, <1>3, <1>4, <1>5, <1>6, <1>7 DEF Next

LEMMA InitInv == ASSUME Init PROVE IndInv
<1>1. applied = [i \in 1..version |-> i] /\ applied \in Seq(Nat)
  BY DEF Init
<1>. QED
  BY <1>1, LifecycleAssumption DEF Init, IndInv, TypeOK, LockHeld, RowOfDaemon, DoneIsFilled,
     Rows, SchemaRead, SchemaFits, Writing

--------------------------------------------------------------------------
(* The lock and the row.                                                    *)

\* The places of a process that holds the lock.
Holding == {"login", "migrate", "init", "backfill", "sync", "closing", "closed", "unlocking"}

\* A step that moves one process from a place to another, both with the lock
\* or both without it.
LEMMA Moves ==
  ASSUME TypeOK, LockHeld, NEW p \in Procs, NEW l, Goes(p, l), lock' = lock,
         proc[p] \in Holding <=> l \in Holding
  PROVE  LockHeld'
BY DEF TypeOK, LockHeld, Goes, Holding

LEMMA LockStep ==
  ASSUME TypeOK, LockHeld, [Next]_vars PROVE LockHeld'
<1>1. ASSUME NEW p \in Procs, Main(p) PROVE LockHeld'
  <2>1. CASE AcquireLock(p)
    <3>1. CASE lock = None
      <4>1. \A q \in Procs : proc[q] \notin Holding
        BY <3>1, LifecycleAssumption DEF LockHeld, Holding
      <4>2. lock' = p /\ proc' = [proc EXCEPT ![p] = "login"]
        BY <2>1, <3>1 DEF AcquireLock, Goes
      <4>. QED  BY <4>1, <4>2 DEF LockHeld, TypeOK, Holding
    <3>2. CASE lock # None
      <4>1. Goes(p, "exited") /\ lock' = lock /\ proc[p] = "spawned"
        BY <2>1, <3>2 DEF AcquireLock
      <4>. QED  BY <4>1, Moves DEF Holding
    <3>. QED  BY <3>1, <3>2
  <2>2. CASE New(p) \/ Migrated(p) \/ InitSyncState(p) \/ SetBackfillDone(p) \/ EndRun(p) \/ CloseStore(p)
             \/ CancelContext(p) \/ Exit(p)
    BY <2>2, Moves DEF New, Migrated, InitSyncState, SetBackfillDone, EndRun, CloseStore,
       CancelContext, Exit, Holding
  <2>2a. CASE Migrate(p)
    BY <2>2a DEF Migrate, daemon, LockHeld
  <2>3. CASE Unlock(p)
    <3>1. lock = p /\ lock' = None /\ proc' = [proc EXCEPT ![p] = "leaving"]
      BY <2>3 DEF Unlock, Goes, LockHeld
    <3>. QED  BY <3>1, LifecycleAssumption DEF LockHeld, TypeOK
  <2>. QED  BY <1>1, <2>1, <2>2, <2>2a, <2>3 DEF Main
<1>2. ASSUME NEW p \in Procs, Fail(p) PROVE LockHeld'
  BY <1>2, Moves DEF Fail, Holding
<1>3. ASSUME NEW p \in Procs, Crash(p) PROVE LockHeld'
  <2>1. /\ lock' = IF lock = p THEN None ELSE lock
        /\ proc' = [proc EXCEPT ![p] = "exited"]
    BY <1>3 DEF Crash, Goes
  <2>. QED  BY <2>1, LifecycleAssumption DEF LockHeld, TypeOK
<1>4. ASSUME NEW s \in Starts, Spawn(s) PROVE LockHeld'
  <2>1. PICK p \in Procs : proc[p] = "none" /\ Goes(p, "spawned") /\ lock' = lock
    BY <1>4 DEF Spawn
  <2>. QED  BY <2>1, Moves DEF Holding
<1>5. CASE UNCHANGED <<proc, lock>>
  BY <1>5 DEF LockHeld
<1>6. CASE UNCHANGED vars
  BY <1>5, <1>6 DEF vars, daemon
<1>7. ASSUME NEW p \in Procs, Heartbeat(p) \/ ServeIPC(p) \/ Reuse(p) PROVE LockHeld'
  BY <1>5, <1>7 DEF Heartbeat, ServeIPC, ClearSocket, Listen, CloseSocket, Reuse, daemon
<1>8. ASSUME NEW s \in Starts, StartCheck(s) \/ WaitFresh(s) PROVE LockHeld'
  BY <1>5, <1>8 DEF StartCheck, WaitFresh, daemon
<1>9. ASSUME NEW s \in Stops, Stop(s) PROVE LockHeld'
  BY <1>5, <1>9 DEF Stop, StopCheck, StopKill, StopWait, StopTimeout, daemon
<1>10. CASE GrowStale
  BY <1>5, <1>10 DEF GrowStale, daemon
<1>. QED  BY <1>1, <1>2, <1>3, <1>4, <1>6, <1>7, <1>8, <1>9, <1>10 DEF Next, Start

\* A process whose place is past the lock is the only one.
LEMMA OneHolder ==
  ASSUME LockHeld, NEW p \in Procs, NEW q \in Procs,
         proc[p] \in Holding, proc[q] \in Holding
  PROVE  p = q
BY DEF LockHeld, Holding

LEMMA RowStep ==
  ASSUME TypeOK, LockHeld, RowOfDaemon, DoneIsFilled, [Next]_vars
  PROVE  RowOfDaemon' /\ DoneIsFilled'
<1>1. ASSUME NEW p \in Procs, NEW l, Goes(p, l), l \notin {"backfill", "sync"},
             UNCHANGED <<row, filled>>
      PROVE  RowOfDaemon' /\ DoneIsFilled'
  BY <1>1 DEF Goes, TypeOK, RowOfDaemon, DoneIsFilled
<1>2. ASSUME NEW p \in Procs, InitSyncState(p) PROVE RowOfDaemon' /\ DoneIsFilled'
  <2>1. \A q \in Procs \ {p} : proc[q] \notin {"backfill", "sync"}
    BY <1>2, OneHolder DEF InitSyncState, Holding
  <2>2. proc' = [proc EXCEPT ![p] = "backfill"] /\ row'.pid = p /\ row'.done = FALSE
    BY <1>2 DEF InitSyncState, Goes
  <2>3. DoneIsFilled'
    BY <2>2 DEF DoneIsFilled
  <2>4. RowOfDaemon'
    BY <2>1, <2>2 DEF RowOfDaemon, TypeOK
  <2>. QED  BY <2>3, <2>4
<1>3. ASSUME NEW p \in Procs, SetBackfillDone(p) PROVE RowOfDaemon' /\ DoneIsFilled'
  <2>1. \A q \in Procs \ {p} : proc[q] \notin {"backfill", "sync"}
    BY <1>3, OneHolder DEF SetBackfillDone, Holding
  <2>2. /\ proc' = [proc EXCEPT ![p] = "sync"] /\ p \in filled'
        /\ row.pid = p /\ row' = [row EXCEPT !.done = TRUE]
    BY <1>3 DEF SetBackfillDone, Goes, RowOfDaemon
  <2>3. row'.pid = p /\ row'.done
    BY <2>2 DEF TypeOK, Rows
  <2>4. DoneIsFilled'
    BY <2>2, <2>3 DEF DoneIsFilled
  <2>5. RowOfDaemon'
    BY <2>1, <2>2, <2>3 DEF RowOfDaemon, TypeOK
  <2>. QED  BY <2>4, <2>5
<1>4. ASSUME NEW p \in Procs, Main(p), ~InitSyncState(p), ~SetBackfillDone(p), ~Migrate(p)
      PROVE  RowOfDaemon' /\ DoneIsFilled'
  BY <1>1, <1>4 DEF Main, AcquireLock, New, Migrated, EndRun, CloseStore, CancelContext, Unlock, Exit,
     state, schema
<1>5. ASSUME NEW p \in Procs, Fail(p) \/ Crash(p) PROVE RowOfDaemon' /\ DoneIsFilled'
  BY <1>1, <1>5 DEF Fail, Crash, state, schema
<1>6. ASSUME NEW s \in Starts, Spawn(s) PROVE RowOfDaemon' /\ DoneIsFilled'
  BY <1>1, <1>6 DEF Spawn, state, schema
<1>7. CASE UNCHANGED <<proc, row, filled>>
  BY <1>7 DEF RowOfDaemon, DoneIsFilled
<1>8. ASSUME NEW p \in Procs, Migrate(p) \/ Heartbeat(p) \/ ServeIPC(p) \/ Reuse(p)
      PROVE  RowOfDaemon' /\ DoneIsFilled'
  BY <1>7, <1>8 DEF Migrate, Heartbeat, ServeIPC, ClearSocket, Listen, CloseSocket, Reuse, daemon, state, schema
<1>9. ASSUME NEW s \in Starts, StartCheck(s) \/ WaitFresh(s)
      PROVE  RowOfDaemon' /\ DoneIsFilled'
  BY <1>7, <1>9 DEF StartCheck, WaitFresh, daemon, state, schema
<1>10. ASSUME NEW s \in Stops, Stop(s) PROVE RowOfDaemon' /\ DoneIsFilled'
  BY <1>7, <1>10 DEF Stop, StopCheck, StopKill, StopWait, StopTimeout, daemon, state, schema
<1>11. CASE GrowStale \/ UNCHANGED vars
  BY <1>7, <1>11 DEF GrowStale, daemon, state, schema, vars
<1>. QED  BY <1>2, <1>3, <1>4, <1>5, <1>6, <1>8, <1>9, <1>10, <1>11 DEF Next, Start

--------------------------------------------------------------------------
(* The schema.                                                              *)

\* Only Migrate touches the database's schema, and New reads it.
LEMMA SchemaFrame ==
  ASSUME [Next]_vars, \A p \in Procs : ~Migrate(p) PROVE UNCHANGED <<version, applied>>
<1>1. ASSUME NEW p \in Procs, Main(p) PROVE UNCHANGED <<version, applied>>
  BY <1>1 DEF Main, AcquireLock, New, Migrated, InitSyncState, SetBackfillDone, EndRun,
     CloseStore, CancelContext, Unlock, Exit, state, schema
<1>2. ASSUME NEW p \in Procs, Heartbeat(p) \/ ServeIPC(p) \/ Fail(p) \/ Crash(p) \/ Reuse(p)
      PROVE  UNCHANGED <<version, applied>>
  BY <1>2 DEF Heartbeat, ServeIPC, ClearSocket, Listen, CloseSocket, Fail, Crash, Reuse,
     state, schema
<1>3. ASSUME NEW s \in Starts, Start(s) PROVE UNCHANGED <<version, applied>>
  BY <1>3 DEF Start, StartCheck, Spawn, WaitFresh, state, schema
<1>4. ASSUME NEW s \in Stops, Stop(s) PROVE UNCHANGED <<version, applied>>
  BY <1>4 DEF Stop, StopCheck, StopKill, StopWait, StopTimeout, state, schema
<1>5. CASE GrowStale \/ UNCHANGED vars
  BY <1>5 DEF GrowStale, vars, state, schema
<1>. QED  BY <1>1, <1>2, <1>3, <1>4, <1>5 DEF Next

\* Where a process is, and what it read, changes by its own steps only.
LEMMA PlaceFrame ==
  ASSUME TypeOK, [Next]_vars, NEW q \in Procs, ~Main(q),
         proc'[q] \in {"migrate", "init", "backfill", "sync", "closing"}
  PROVE  /\ upto'[q] = upto[q]
         /\ proc'[q] = proc[q] \/ (proc[q] \in {"init", "backfill"} /\ proc'[q] = "closing")
<1>. DEFINE Goal == /\ upto'[q] = upto[q]
                    /\ proc'[q] = proc[q] \/ (proc[q] \in {"init", "backfill"} /\ proc'[q] = "closing")
<1>0. UNCHANGED <<proc, upto>> => Goal
  OBVIOUS
<1>1. ASSUME NEW p \in Procs, Main(p), p # q PROVE Goal
  BY <1>1 DEF Main, AcquireLock, New, Migrate, Migrated, InitSyncState, SetBackfillDone,
     EndRun, CloseStore, CancelContext, Unlock, Exit, Goes, daemon, state, schema, TypeOK
<1>2. ASSUME NEW p \in Procs, Fail(p) \/ Crash(p) PROVE Goal
  BY <1>2 DEF Fail, Crash, Goes, state, schema, TypeOK
<1>3. ASSUME NEW p \in Procs, Heartbeat(p) \/ ServeIPC(p) \/ Reuse(p) PROVE Goal
  BY <1>0, <1>3 DEF Heartbeat, ServeIPC, ClearSocket, Listen, CloseSocket, Reuse, daemon,
     state, schema
<1>4. ASSUME NEW s \in Starts, Start(s) PROVE Goal
  BY <1>4 DEF Start, StartCheck, Spawn, WaitFresh, Goes, daemon, state, schema, TypeOK
<1>5. ASSUME NEW s \in Stops, Stop(s) PROVE Goal
  BY <1>0, <1>5 DEF Stop, StopCheck, StopKill, StopWait, StopTimeout, daemon, state, schema
<1>6. CASE GrowStale \/ UNCHANGED vars
  BY <1>0, <1>6 DEF GrowStale, vars, daemon, state, schema
<1>. QED  BY <1>1, <1>2, <1>3, <1>4, <1>5, <1>6 DEF Next

LEMMA SchemaStep ==
  ASSUME TypeOK, LockHeld, SchemaRead, SchemaFits, [Next]_vars
  PROVE  SchemaRead' /\ SchemaFits'
<1>. version \in Nat /\ Latest \in [Procs -> Nat] /\ upto \in [Procs -> Nat]
  BY LifecycleAssumption DEF TypeOK
<1>1. ASSUME NEW p \in Procs, Migrate(p) PROVE SchemaRead' /\ SchemaFits'
  <2>1. /\ proc[p] = "migrate" /\ upto[p] = version /\ proc' = proc
        /\ version' = version + 1 /\ applied' = Append(applied, version + 1)
        /\ upto' = [upto EXCEPT ![p] = version + 1]
    BY <1>1 DEF Migrate, SchemaRead, daemon
  <2>2. \A q \in Procs \ {p} : proc[q] \notin Holding
    BY <2>1, OneHolder DEF Holding
  <2>3. applied' = [i \in 1..version' |-> i]
    BY <2>1 DEF SchemaFits
  <2>4. SchemaRead'
    BY <2>1, <2>2 DEF SchemaRead, Holding
  <2>5. \A q \in Procs : ~(Writing(q)' /\ proc'[q] # "migrate")
    BY <2>1, <2>2 DEF Writing, Holding
  <2>. QED  BY <2>3, <2>4, <2>5 DEF SchemaFits
<1>2. CASE \A p \in Procs : ~Migrate(p)
  <2>1. UNCHANGED <<version, applied>>
    BY <1>2, SchemaFrame
  <2>2. ASSUME NEW q \in Procs,
               proc'[q] \in {"migrate", "init", "backfill", "sync", "closing"}
        PROVE  IF proc'[q] = "migrate" THEN upto'[q] = version ELSE version >= Latest[q]
    <3>1. CASE Main(q)
      <4>1. CASE New(q)
        BY <4>1 DEF New, Goes, TypeOK
      <4>2. CASE Migrated(q)
        BY <4>2 DEF Migrated, Goes, SchemaRead, TypeOK
      <4>3. CASE InitSyncState(q) \/ SetBackfillDone(q) \/ EndRun(q)
        BY <4>3 DEF InitSyncState, SetBackfillDone, EndRun, Goes, SchemaFits, Writing, TypeOK
      <4>4. CASE AcquireLock(q) \/ CloseStore(q) \/ CancelContext(q) \/ Unlock(q) \/ Exit(q)
        BY <2>2, <4>4 DEF AcquireLock, CloseStore, CancelContext, Unlock, Exit, Goes, TypeOK
      <4>. QED  BY <1>2, <3>1, <4>1, <4>2, <4>3, <4>4 DEF Main
    <3>2. CASE ~Main(q)
      <4>1. /\ upto'[q] = upto[q]
            /\ proc'[q] = proc[q] \/ (proc[q] \in {"init", "backfill"} /\ proc'[q] = "closing")
        BY <2>2, <3>2, PlaceFrame
      <4>. QED  BY <2>2, <4>1 DEF SchemaRead, SchemaFits, Writing
    <3>. QED  BY <3>1, <3>2
  <2>. QED  BY <2>1, <2>2 DEF SchemaRead, SchemaFits, Writing
<1>. QED  BY <1>1, <1>2

--------------------------------------------------------------------------
(* The theorems about states.                                               *)

LEMMA IndInvStep == ASSUME IndInv, [Next]_vars PROVE IndInv'
BY TypeStep, LockStep, RowStep, SchemaStep DEF IndInv

\* The inductive invariant: the lock is held from AcquireLock to lock.Close on
\* every way out (LockHeld); so one process at a time is between the two, and
\* the row is that process's and says how far it is (RowOfDaemon), its
\* backfill_done true of it and of nobody before it (DoneIsFilled); and what it
\* read of the schema stays true while it migrates (SchemaRead).
THEOREM Inductive == Spec => []IndInv
BY InitInv, IndInvStep, PTL DEF Spec

\* AcquireLock and the order of the deferred calls of newSyncRunCmd keep the
\* store open for writing in one process at a time.
THEOREM NeverTwoWriters == Spec => []OneWriter
<1>1. IndInv => OneWriter
  BY OneHolder DEF IndInv, OneWriter, Writing, Holding
<1>. QED  BY <1>1, Inductive, PTL

\* openFreshLocalCache trusts the cache only behind a finished Backfill.
THEOREM TrustIsEarned == Spec => []TrustedIsBackfilled
<1>1. IndInv => TrustedIsBackfilled
  BY DEF IndInv, RowOfDaemon, DoneIsFilled, TrustedIsBackfilled, Trusted
<1>. QED  BY <1>1, Inductive, PTL

\* Migrate runs each migration once and in order, whatever build each daemon is of
\* and wherever one of them dies, and no daemon writes to a schema older than it
\* knows.
THEOREM MigrationsFit == Spec => []SchemaFits
BY Inductive, PTL DEF IndInv

--------------------------------------------------------------------------
(* The single writer.                                                       *)

LEMMA WriterIs == ASSUME LockHeld, NEW p \in Procs, Writing(p) PROVE writer = p
BY OneHolder DEF writer, Writing, Holding

LEMMA NoWriter == ASSUME \A p \in Procs : ~Writing(p) PROVE writer = None
BY DEF writer

LEMMA NextWriterIs ==
  ASSUME LockHeld', NEW p \in Procs, Writing(p)' PROVE writer' = p
<1>1. \A q \in Procs : Writing(q)' => q = p
  BY DEF Writing, LockHeld
<1>. QED  BY <1>1 DEF writer

LEMMA NextNoWriter == ASSUME \A p \in Procs : ~Writing(p)' PROVE writer' = None
BY DEF writer

\* The processes that write are the same before and after.
LEMMA WriterKept ==
  ASSUME \A p \in Procs : Writing(p)' <=> Writing(p) PROVE writer' = writer
BY Zenon DEF writer

LEMMA SingleStep ==
  ASSUME IndInv, IndInv', [Next]_vars PROVE [Single!Next]_(Single!vars)
<1>. TypeOK /\ LockHeld /\ LockHeld' /\ TypeOK'
  BY DEF IndInv
<1>1. CASE writer' = writer /\ row' = row
  BY <1>1 DEF Single!vars
<1>0. ASSUME UNCHANGED <<proc, row>> PROVE [Single!Next]_(Single!vars)
  <2>1. \A q \in Procs : Writing(q)' <=> Writing(q)
    BY <1>0 DEF Writing
  <2>. QED  BY <1>0, <1>1, <2>1, WriterKept
<1>2. ASSUME NEW p \in Procs, NEW l, Goes(p, l), row' = row,
             Writing(p) <=> l \in {"migrate", "init", "backfill", "sync", "closing"}
      PROVE  [Single!Next]_(Single!vars)
  <2>1. \A q \in Procs : Writing(q)' <=> Writing(q)
    BY <1>2 DEF Goes, Writing, TypeOK
  <2>. QED  BY <1>1, <1>2, <2>1, WriterKept
<1>3. ASSUME NEW p \in Procs, NEW l, Goes(p, l), row' = row, Writing(p),
             l \notin {"migrate", "init", "backfill", "sync", "closing"}
      PROVE  Single!Close
  <2>1. \A q \in Procs : ~Writing(q)'
    <3>1. \A q \in Procs \ {p} : ~Writing(q)
      BY <1>3, OneHolder DEF Writing, Holding
    <3>. QED  BY <1>3, <3>1 DEF Goes, Writing, TypeOK
  <2>2. writer' = None /\ writer = p
    BY <1>3, <2>1, NextNoWriter, WriterIs
  <2>. QED  BY <1>3, <2>2, LifecycleAssumption DEF Single!Close
<1>4. ASSUME NEW p \in Procs, New(p) PROVE Single!Open(p)
  <2>1. \A q \in Procs : ~Writing(q)
    BY <1>4, OneHolder DEF New, Writing, Holding
  <2>2. Writing(p)'
    BY <1>4 DEF New, Goes, Writing, TypeOK
  <2>3. writer = None /\ writer' = p
    BY <2>1, <2>2, NoWriter, NextWriterIs
  <2>. QED  BY <1>4, <2>3 DEF New, state, schema, Single!Open
<1>5. ASSUME NEW p \in Procs, InitSyncState(p) \/ SetBackfillDone(p) PROVE Single!Write(p)
  <2>1. Writing(p) /\ Writing(p)'
    BY <1>5 DEF InitSyncState, SetBackfillDone, Goes, Writing, TypeOK
  <2>2. writer = p /\ writer' = p
    BY <2>1, WriterIs, NextWriterIs
  <2>3. row'.pid = p
    <3>1. CASE InitSyncState(p)
      BY <3>1 DEF InitSyncState
    <3>2. CASE SetBackfillDone(p)
      <4>1. row.pid = p /\ row \in Rows /\ row' = [row EXCEPT !.done = TRUE]
        BY <3>2 DEF SetBackfillDone, IndInv, RowOfDaemon, TypeOK
      <4>. QED  BY <4>1 DEF Rows
    <3>. QED  BY <1>5, <3>1, <3>2
  <2>4. row' \in Rows
    BY DEF TypeOK
  <2>. QED  BY <2>2, <2>3, <2>4 DEF Single!Write
<1>6. ASSUME NEW p \in Procs, Main(p) PROVE [Single!Next]_(Single!vars)
  <2>1. CASE AcquireLock(p)
    BY <1>2, <2>1 DEF AcquireLock, Writing, state, schema
  <2>2. CASE Migrated(p) \/ EndRun(p) \/ CancelContext(p) \/ Unlock(p) \/ Exit(p)
    BY <1>2, <2>2 DEF Migrated, EndRun, CancelContext, Unlock, Exit, Writing, state, schema
  <2>3. CASE CloseStore(p)
    BY <1>3, <2>3 DEF CloseStore, Writing, state, schema, Single!Next
  <2>4. CASE Migrate(p)
    <3>1. proc' = proc /\ row' = row
      BY <2>4 DEF Migrate, daemon
    <3>. QED  BY <1>0, <3>1
  <2>5. CASE New(p) \/ InitSyncState(p) \/ SetBackfillDone(p)
    BY <1>4, <1>5, <2>5 DEF Single!Next
  <2>. QED  BY <1>6, <2>1, <2>2, <2>3, <2>4, <2>5 DEF Main
<1>7. ASSUME NEW p \in Procs, Fail(p) PROVE [Single!Next]_(Single!vars)
  <2>1. row' = row
    BY <1>7 DEF Fail, state
  <2>2. CASE proc[p] = "login" /\ Goes(p, "closed")
    BY <1>2, <2>1, <2>2 DEF Writing
  <2>3. CASE proc[p] = "migrate" /\ Goes(p, "closed")
    BY <1>3, <2>1, <2>3 DEF Writing, Single!Next
  <2>4. CASE proc[p] \in {"init", "backfill"} /\ Goes(p, "closing")
    BY <1>2, <2>1, <2>4 DEF Writing
  <2>. QED  BY <1>7, <2>2, <2>3, <2>4 DEF Fail
<1>8. ASSUME NEW p \in Procs, Crash(p) PROVE [Single!Next]_(Single!vars)
  <2>1. Goes(p, "exited") /\ row' = row
    BY <1>8 DEF Crash, state, schema
  <2>2. CASE Writing(p)
    BY <1>3, <2>1, <2>2 DEF Single!Next
  <2>3. CASE ~Writing(p)
    BY <1>2, <2>1, <2>3
  <2>. QED  BY <2>2, <2>3
<1>9. ASSUME NEW s \in Starts, Spawn(s) PROVE [Single!Next]_(Single!vars)
  BY <1>2, <1>9 DEF Spawn, Writing, state, schema
<1>11. ASSUME NEW p \in Procs, Heartbeat(p) \/ ServeIPC(p) \/ Reuse(p)
       PROVE  UNCHANGED <<proc, row>>
  BY <1>11 DEF Heartbeat, ServeIPC, ClearSocket, Listen, CloseSocket, Reuse, daemon, state, schema
<1>12. ASSUME NEW s \in Starts, StartCheck(s) \/ WaitFresh(s) PROVE UNCHANGED <<proc, row>>
  BY <1>12 DEF StartCheck, WaitFresh, daemon, state, schema
<1>13. ASSUME NEW s \in Stops, Stop(s) PROVE UNCHANGED <<proc, row>>
  BY <1>13 DEF Stop, StopCheck, StopKill, StopWait, StopTimeout, daemon, state, schema
<1>14. ASSUME GrowStale \/ UNCHANGED vars
       PROVE  UNCHANGED <<proc, row>>
  BY <1>14 DEF GrowStale, daemon, state, schema, vars
<1>. QED  BY <1>6, <1>7, <1>8, <1>9, <1>0, <1>11, <1>12, <1>13, <1>14, Zenon DEF Next, Start

\* The daemon's processes behave, towards the store, as one writer at a time
\* that writes the row of sync_state in its own name.
THEOREM ImplementsSingleWriter == Spec => IsSingleWriter
<1>1. Init => Single!Init
  BY NoWriter DEF Init, Single!Init, Rows, Writing
<1>2. IndInv /\ IndInv' /\ [Next]_vars => [Single!Next]_(Single!vars)
  BY SingleStep
<1>. QED  BY <1>1, <1>2, Inductive, PTL DEF Spec, IsSingleWriter, Single!Spec
=============================================================================
