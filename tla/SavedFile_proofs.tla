--------------------------- MODULE SavedFile_proofs ---------------------------
(***************************************************************************)
(* Proofs about SavedFile for any number of commands, saves and power      *)
(* cuts.  Its conjuncts lean on one another, so that each step is shown to *)
(* keep a group of them: the types, the temporary files, the sessions and  *)
(* what a download replaces.                                               *)
(***************************************************************************)
EXTENDS SavedFile, TLAPS

\* Which writer steps: at changes for nobody else.
WriterStep(w) ==
  \/ Login(w) \/ Download(w) \/ Stat(w)
  \/ CreateTemp(w) \/ Write(w) \/ Flush(w) \/ Rename(w) \/ Fail(w) \/ Kill(w)

RemoverStep(r) == ReadConfig(r) \/ LogoutBestEffort(r) \/ Clear(r) \/ KillLogout(r)

LEMMA NextCases ==
  ASSUME [Next]_vars
  PROVE  \/ \E w \in Writers : WriterStep(w)
         \/ \E r \in Removers : RemoverStep(r)
         \/ PowerCut
         \/ UNCHANGED vars
BY DEF Next, WriterStep, RemoverStep

\* What a power cut leaves of the files.
LEMMA CutFiles ==
  ASSUME TypeOK, PowerCut
  PROVE  /\ tmp' \in [Writers -> {"none", "part", "full", "flushed"}]
         /\ \A w \in Writers : tmp'[w] = "none" <=> tmp[w] = "none"
         /\ whole' \in BOOLEAN /\ (safe => whole' = whole)
         /\ cuts' = cuts + 1
         /\ at' = [w \in Writers |-> "over"]
         /\ rm' = [r \in Removers |-> IF rm[r] = "over" THEN "over" ELSE "failed"]
         /\ UNCHANGED <<program, path, safe, open, held, clobbers>>
<1>1. PICK t \in {"part", "full"} :
        tmp' = [w \in Writers |-> IF tmp[w] = "full" THEN t ELSE tmp[w]]
  BY DEF PowerCut
<1>2. whole' \in BOOLEAN /\ (safe => whole' = whole)
  BY DEF PowerCut, TypeOK
<1>3. /\ tmp' \in [Writers -> {"none", "part", "full", "flushed"}]
      /\ \A w \in Writers : tmp'[w] = "none" <=> tmp[w] = "none"
  BY <1>1 DEF TypeOK
<1>4. /\ cuts' = cuts + 1
      /\ at' = [w \in Writers |-> "over"]
      /\ rm' = [r \in Removers |-> IF rm[r] = "over" THEN "over" ELSE "failed"]
      /\ UNCHANGED <<program, path, safe, open, held, clobbers>>
  BY DEF PowerCut
<1>. QED  BY <1>2, <1>3, <1>4

LEMMA TypeStep == TypeOK /\ [Next]_vars => TypeOK'
<1>. SUFFICES ASSUME TypeOK, [Next]_vars PROVE TypeOK'
  OBVIOUS
<1>. USE FileAssumption DEF TypeOK, Goes, Temp, MoveOn, target, logouts, clobbers, world
<1>1. ASSUME NEW w \in Writers, WriterStep(w) PROVE TypeOK'
  <2>1. CASE Login(w)
    BY <2>1 DEF Login
  <2>2. CASE Download(w)
    BY <2>2 DEF Download
  <2>3. CASE Stat(w)
    BY <2>3 DEF Stat
  <2>4. CASE CreateTemp(w)
    BY <2>4 DEF CreateTemp
  <2>5. CASE Write(w)
    BY <2>5 DEF Write
  <2>6. CASE Flush(w)
    BY <2>6 DEF Flush
  <2>7. CASE Rename(w)
    BY <2>7 DEF Rename
  <2>8. CASE Fail(w)
    BY <2>8 DEF Fail
  <2>9. CASE Kill(w)
    BY <2>9 DEF Kill
  <2>. QED
    BY <1>1, <2>1, <2>2, <2>3, <2>4, <2>5, <2>6, <2>7, <2>8, <2>9 DEF WriterStep
<1>2. ASSUME NEW r \in Removers, RemoverStep(r) PROVE TypeOK'
  BY <1>2 DEF RemoverStep, ReadConfig, LogoutBestEffort, Clear, KillLogout
<1>3. CASE PowerCut
  BY <1>3, CutFiles
<1>4. CASE UNCHANGED vars
  BY <1>4 DEF vars
<1>. QED  BY <1>1, <1>2, <1>3, <1>4, NextCases

--------------------------------------------------------------------------
(* The temporary files and the target.                                      *)

Files ==
  /\ TempFits /\ NeverPartial
  /\ program = "config" => whole /\ safe

LEMMA FilesStep == TypeOK /\ Files /\ [Next]_vars => Files'
<1>. SUFFICES ASSUME TypeOK, Files, [Next]_vars PROVE Files'
  OBVIOUS
<1>. USE DEF TypeOK, Files, TempFits, NeverPartial, Goes, Temp, MoveOn,
             target, logouts, clobbers, world
<1>1. ASSUME NEW w \in Writers, WriterStep(w) PROVE Files'
  <2>1. CASE Login(w)
    BY <2>1 DEF Login
  <2>2. CASE Download(w)
    BY <2>2 DEF Download
  <2>3. CASE Stat(w)
    BY <2>3 DEF Stat
  <2>4. CASE CreateTemp(w)
    BY <2>4 DEF CreateTemp
  <2>5. CASE Write(w)
    BY <2>5 DEF Write
  <2>6. CASE Flush(w)
    BY <2>6 DEF Flush
  <2>7. CASE Rename(w)
    BY <2>7 DEF Rename
  <2>8. CASE Fail(w)
    BY <2>8 DEF Fail
  <2>9. CASE Kill(w)
    BY <2>9 DEF Kill
  <2>. QED
    BY <1>1, <2>1, <2>2, <2>3, <2>4, <2>5, <2>6, <2>7, <2>8, <2>9 DEF WriterStep
<1>2. ASSUME NEW r \in Removers, RemoverStep(r) PROVE Files'
  BY <1>2 DEF RemoverStep, ReadConfig, LogoutBestEffort, Clear, KillLogout
<1>3. CASE PowerCut
  BY <1>3, CutFiles
<1>4. CASE UNCHANGED vars
  BY <1>4 DEF vars
<1>. QED  BY <1>1, <1>2, <1>3, <1>4, NextCases

--------------------------------------------------------------------------
(* The sessions.                                                            *)

Sessions == SessionsFit /\ NoDeadSession

LEMMA SessionsStep == TypeOK /\ Sessions /\ [Next]_vars => Sessions'
<1>. SUFFICES ASSUME TypeOK, Sessions, [Next]_vars PROVE Sessions'
  OBVIOUS
<1>. USE FileAssumption DEF TypeOK, Sessions, SessionsFit, NoDeadSession, Goes, Temp,
                            MoveOn, target, logouts, clobbers, world
<1>1. ASSUME NEW w \in Writers, WriterStep(w) PROVE Sessions'
  <2>1. CASE Login(w)
    BY <2>1 DEF Login
  <2>2. CASE Download(w)
    BY <2>2 DEF Download
  <2>3. CASE Stat(w)
    BY <2>3 DEF Stat
  <2>4. CASE CreateTemp(w)
    BY <2>4 DEF CreateTemp
  <2>5. CASE Write(w)
    BY <2>5 DEF Write
  <2>6. CASE Flush(w)
    BY <2>6 DEF Flush
  <2>7. CASE Rename(w)
    BY <2>7 DEF Rename
  <2>8. CASE Fail(w)
    BY <2>8 DEF Fail
  <2>9. CASE Kill(w)
    BY <2>9 DEF Kill
  <2>. QED
    BY <1>1, <2>1, <2>2, <2>3, <2>4, <2>5, <2>6, <2>7, <2>8, <2>9 DEF WriterStep
<1>2. ASSUME NEW r \in Removers, RemoverStep(r) PROVE Sessions'
  <2>1. CASE ReadConfig(r)
    BY <2>1 DEF ReadConfig
  <2>2. CASE LogoutBestEffort(r)
    BY <2>2 DEF LogoutBestEffort
  <2>3. CASE Clear(r)
    BY <2>3 DEF Clear
  <2>4. CASE KillLogout(r)
    BY <2>4 DEF KillLogout
  <2>. QED  BY <1>2, <2>1, <2>2, <2>3, <2>4 DEF RemoverStep
<1>3. CASE PowerCut
  BY <1>3 DEF PowerCut
<1>4. CASE UNCHANGED vars
  BY <1>4 DEF vars
<1>. QED  BY <1>1, <1>2, <1>3, <1>4, NextCases

--------------------------------------------------------------------------
(* What a download replaces.                                                *)

Clobbers ==
  /\ NoClobber
  /\ \A w \in Writers : Unforced(w) => path \in raced \cup {Nothing}

LEMMA ClobbersStep == TypeOK /\ Clobbers /\ [Next]_vars => Clobbers'
<1>. SUFFICES ASSUME TypeOK, Clobbers, [Next]_vars PROVE Clobbers'
  OBVIOUS
<1>. USE DEF TypeOK, Clobbers, NoClobber, Unforced, Goes, Temp, MoveOn,
             target, logouts, clobbers, world
<1>1. ASSUME NEW w \in Writers, WriterStep(w) PROVE Clobbers'
  <2>1. CASE Login(w)
    BY <2>1 DEF Login
  <2>2. CASE Download(w)
    BY <2>2 DEF Download
  <2>3. CASE Stat(w)
    BY <2>3 DEF Stat
  <2>4. CASE CreateTemp(w)
    BY <2>4 DEF CreateTemp
  <2>5. CASE Write(w)
    BY <2>5 DEF Write
  <2>6. CASE Flush(w)
    BY <2>6 DEF Flush
  <2>7. CASE Rename(w)
    BY <2>7 DEF Rename
  <2>8. CASE Fail(w)
    BY <2>8 DEF Fail
  <2>9. CASE Kill(w)
    BY <2>9 DEF Kill
  <2>. QED
    BY <1>1, <2>1, <2>2, <2>3, <2>4, <2>5, <2>6, <2>7, <2>8, <2>9 DEF WriterStep
<1>2. ASSUME NEW r \in Removers, RemoverStep(r) PROVE Clobbers'
  BY <1>2 DEF RemoverStep, ReadConfig, LogoutBestEffort, Clear, KillLogout
<1>3. CASE PowerCut
  BY <1>3 DEF PowerCut
<1>4. CASE UNCHANGED vars
  BY <1>4 DEF vars
<1>. QED  BY <1>1, <1>2, <1>3, <1>4, NextCases

--------------------------------------------------------------------------
LEMMA IndInvInit == Init => IndInv
BY FileAssumption
   DEF Init, IndInv, TypeOK, TempFits, SessionsFit, NeverPartial,
       NoDeadSession, NoClobber, Unforced

LEMMA IndInvStep == IndInv /\ [Next]_vars => IndInv'
BY TypeStep, FilesStep, SessionsStep, ClobbersStep
   DEF IndInv, Files, Sessions, Clobbers

\* The inductive invariant, for any number of commands that save and clear.
THEOREM Inductive == Spec => []IndInv
BY IndInvInit, IndInvStep, PTL DEF Spec

\* What a reader finds is one writer's whole content, whatever was killed.
THEOREM NeverAPart == Spec => []NeverPartial
BY Inductive, PTL DEF IndInv

\* The config names no closed session, but under an mm logout that was stopped.
THEOREM NoSessionIsDead == Spec => []NoDeadSession
BY Inductive, PTL DEF IndInv

\* A download without --force replaces nothing that was there when it looked.
THEOREM NothingIsClobbered == Spec => []NoClobber
BY Inductive, PTL DEF IndInv
=============================================================================
