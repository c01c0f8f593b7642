------------------------------ MODULE SavedFile ------------------------------
(***************************************************************************)
(* The two programs that replace a file: config.Save, which mm login runs  *)
(* and every other command reads after, and writeFileAtomic of mm          *)
(* download.  Both write a temporary file beside the target and rename it; *)
(* config.Save also flushes it to the disk, mm download without --force    *)
(* looks whether the target exists.  mm logout closes the session that the *)
(* config names, if the server lets it, and removes the config.            *)
(*                                                                         *)
(* A process may be killed between any two steps, and the machine may lose *)
(* its power, and with it the data of a file that was never flushed.       *)
(***************************************************************************)
EXTENDS Integers, FiniteSets

CONSTANTS
  Writers,     \* the commands, each with content of its own
  Nothing,     \* no file
  Old,         \* what a command or somebody else saved before
  Removers,    \* invocations of mm logout
  MaxCuts      \* bound: power cuts

ASSUME FileAssumption ==
  /\ {Nothing, Old} \cap Writers = {} /\ Nothing # Old
  /\ MaxCuts \in Nat

VARIABLES
  program,     \* "config" or "download": all writers replace one file
  at,          \* where each writer is
  tmp,         \* its temporary file: "none", "part", "full" or "flushed"
  path,        \* whose content the target holds, or Nothing
  whole,       \* it holds all of it
  safe,        \* and so it will after a power cut
  open,        \* logins whose session the server has open
  rm,          \* where each mm logout is
  held,        \* the config it has read
  \* history
  forced,      \* mm download --force
  lost,        \* whose file a download without --force has replaced
  raced,       \* who saved while such a download was between look and rename
  cuts         \* power cuts so far

target == <<path, whole, safe>>
logouts == <<rm, held>>
clobbers == <<forced, lost, raced>>
vars == <<program, at, tmp, target, open, logouts, clobbers, cuts>>
world == <<program, open, logouts, cuts>>

Goes(w, l) == at' = [at EXCEPT ![w] = l]
Temp(w, t) == tmp' = [tmp EXCEPT ![w] = t]

--------------------------------------------------------------------------
(* Before the file is written.                                              *)

\* mm login: a session for the password, or a token, that GetMe accepts.
Login(w) ==
  /\ at[w] = "login"
  /\ \/ Goes(w, "create") /\ open' = open \cup {w}
     \/ Goes(w, "over") /\ open' \in {open, open \cup {w}}
  /\ UNCHANGED <<program, tmp, target, logouts, clobbers, cuts>>

\* mm download holds the whole file in memory before it looks at the disk;
\* --force skips the look.
Download(w) ==
  /\ at[w] = "download"
  /\ \/ Goes(w, "stat") /\ UNCHANGED forced
     \/ Goes(w, "create") /\ forced' = forced \cup {w}
     \/ Goes(w, "over") /\ UNCHANGED forced
  /\ UNCHANGED <<tmp, target, lost, raced, world>>

\* A slip: only an error other than "there is nothing" refuses.
StatAnyway(w) ==
  /\ at[w] = "stat" /\ (Goes(w, "create") \/ Goes(w, "over"))
  /\ UNCHANGED <<tmp, target, clobbers, world>>

\* Refuse if there is something already.
Stat(w) ==
  /\ at[w] = "stat"
  /\ Goes(w, IF path # Nothing THEN "over" ELSE "create")
  /\ UNCHANGED <<tmp, target, clobbers, world>>

--------------------------------------------------------------------------
(* The temporary file.                                                      *)

CreateTemp(w) ==
  /\ at[w] = "create" /\ Goes(w, "write") /\ Temp(w, "part")
  /\ UNCHANGED <<target, clobbers, world>>

\* A slip: no flush.
WriteOnly(w) ==
  /\ at[w] = "write" /\ Temp(w, "full") /\ Goes(w, "rename")
  /\ UNCHANGED <<target, clobbers, world>>

Write(w) ==
  /\ at[w] = "write" /\ Temp(w, "full")
  /\ Goes(w, IF program = "config" THEN "flush" ELSE "rename")
  /\ UNCHANGED <<target, clobbers, world>>

Flush(w) ==
  /\ at[w] = "flush" /\ Goes(w, "rename") /\ Temp(w, "flushed")
  /\ UNCHANGED <<target, clobbers, world>>

\* Past the look, and without --force.
Unforced(w) ==
  program = "download" /\ at[w] \in {"create", "write", "rename"} /\ w \notin forced

Rename(w) ==
  /\ at[w] = "rename" /\ Goes(w, "over") /\ Temp(w, "none")
  /\ lost' = IF Unforced(w) THEN lost \cup ({path} \ {Nothing}) ELSE lost
  /\ raced' = IF \E v \in Writers \ {w} : Unforced(v) THEN raced \cup {w} ELSE raced
  /\ path' = w /\ whole' = (tmp[w] # "part") /\ safe' = (tmp[w] = "flushed")
  /\ UNCHANGED <<forced, world>>

\* A full disk, an unwritable directory.  The deferred os.Remove clears up, but its
\* own error is ignored: where the directory cannot be written the temporary
\* file stays, and with it a copy of the token.
Fail(w) ==
  /\ at[w] \in {"create", "write", "flush", "rename"}
  /\ Goes(w, "over") /\ (Temp(w, "none") \/ UNCHANGED tmp)
  /\ UNCHANGED <<target, clobbers, world>>

--------------------------------------------------------------------------
(* mm logout.                                                               *)

MoveOn(r, l) == rm' = [rm EXCEPT ![r] = l]

\* config.Resolve: a file that cannot be read, or credentials of the
\* environment, leave no session of the config's to close.
ReadConfig(r) ==
  /\ program = "config" /\ rm[r] = "read"
  /\ \/ path # Nothing /\ whole /\ MoveOn(r, "logout") /\ held' = [held EXCEPT ![r] = path]
     \/ MoveOn(r, "clear") /\ UNCHANGED held
  /\ UNCHANGED <<program, at, tmp, target, open, clobbers, cuts>>

\* A slip: without an answer from the server the command ends here.
LogoutOrEnd(r) ==
  /\ rm[r] = "logout" /\ (MoveOn(r, "clear") \/ MoveOn(r, "over"))
  /\ open' \in {open, open \ {held[r]}}
  /\ UNCHANGED <<program, at, tmp, target, held, clobbers, cuts>>

\* The answer, if any, is not looked at.
LogoutBestEffort(r) ==
  /\ rm[r] = "logout" /\ MoveOn(r, "clear")
  /\ open' \in {open, open \ {held[r]}}
  /\ UNCHANGED <<program, at, tmp, target, held, clobbers, cuts>>

\* config.Clear, of whatever config is there by now.
Clear(r) ==
  /\ rm[r] = "clear" /\ MoveOn(r, "over")
  /\ path' = Nothing /\ whole' = TRUE /\ safe' = TRUE
  /\ UNCHANGED <<program, at, tmp, open, held, clobbers, cuts>>

--------------------------------------------------------------------------
(* What stops a command.                                                    *)

\* A kill, or for mm logout a directory that cannot be written as well.
KillLogout(r) ==
  /\ rm[r] \in {"logout", "clear"} /\ MoveOn(r, "failed")
  /\ UNCHANGED <<program, at, tmp, target, open, held, clobbers, cuts>>

Kill(w) ==
  /\ at[w] # "over" /\ Goes(w, "over")
  /\ UNCHANGED <<tmp, target, clobbers, world>>

\* Nothing that runs survives; of a file that was not flushed the name may be
\* on the disk and the data not.
PowerCut ==
  /\ cuts < MaxCuts /\ cuts' = cuts + 1
  /\ at' = [w \in Writers |-> "over"]
  /\ rm' = [r \in Removers |-> IF rm[r] = "over" THEN "over" ELSE "failed"]
  /\ tmp' \in {[w \in Writers |-> IF tmp[w] = "full" THEN t ELSE tmp[w]] :
                 t \in {"part", "full"}}
  /\ whole' \in IF safe THEN {whole} ELSE {whole, FALSE}
  /\ UNCHANGED <<program, path, safe, open, held, clobbers>>

Init ==
  /\ program \in {"config", "download"}
  /\ at = [w \in Writers |-> IF program = "config" THEN "login" ELSE "download"]
  /\ tmp = [w \in Writers |-> "none"]
  /\ path \in {Nothing, Old} /\ whole = TRUE /\ safe = TRUE
  /\ open = {Old} /\ rm = [r \in Removers |-> "read"] /\ held = [r \in Removers |-> Nothing]
  /\ forced = {} /\ lost = {} /\ raced = {} /\ cuts = 0

Next ==
  \/ \E w \in Writers :
       \/ Login(w) \/ Download(w) \/ Stat(w)
       \/ CreateTemp(w) \/ Write(w) \/ Flush(w) \/ Rename(w) \/ Fail(w) \/ Kill(w)
  \/ \E r \in Removers :
       ReadConfig(r) \/ LogoutBestEffort(r) \/ Clear(r) \/ KillLogout(r)
  \/ PowerCut

Spec == Init /\ [][Next]_vars

--------------------------------------------------------------------------
\* Whoever reads the file reads the whole of what one writer wrote, whatever
\* else runs or is killed; the config also after a power cut (config.Save,
\* whose comment promises it for Ctrl-C, and writeFileAtomic).
NeverPartial == whole \/ (program = "download" /\ cuts > 0)

\* The config names no session that mm logout has closed, but while that command
\* is on its way to remove it, or was stopped there: whatever the server answers,
\* and however logins and logouts overlap (LogoutBestEffort's comment).
NoDeadSession ==
  program = "config" /\ path # Nothing /\ path \notin open =>
    \E r \in Removers : held[r] = path /\ rm[r] \in {"clear", "failed"}

\* A download without --force replaces no file that was there when it looked:
\* what it does replace was saved by another command between its look and its
\* rename (runDownload).
NoClobber == lost \subseteq raced

--------------------------------------------------------------------------
(* What is needed beside them for an induction.                             *)

\* The type invariant.
TypeOK ==
  /\ program \in {"config", "download"}
  /\ at \in [Writers -> {"login", "download", "stat", "create", "write", "flush",
                         "rename", "over"}]
  /\ \A w \in Writers : at[w] \in {"login", "flush"} => program = "config"
  /\ \A w \in Writers : at[w] \in {"download", "stat"} => program = "download"
  /\ tmp \in [Writers -> {"none", "part", "full", "flushed"}]
  /\ path \in Writers \cup {Nothing, Old} /\ whole \in BOOLEAN /\ safe \in BOOLEAN
  /\ open \subseteq Writers \cup {Old}
  /\ rm \in [Removers -> {"read", "logout", "clear", "over", "failed"}]
  /\ held \in [Removers -> Writers \cup {Nothing, Old}]
  /\ cuts \in Nat

\* The temporary file of a writer, by where the writer is.
TempFits ==
  \A w \in Writers :
    /\ at[w] \in {"login", "download", "stat", "create"} => tmp[w] = "none"
    /\ at[w] = "flush" => tmp[w] = "full"
    /\ at[w] = "rename" => tmp[w] = (IF program = "config" THEN "flushed" ELSE "full")

\* A session is named by the config, or held by an mm logout, only once its
\* login is over; until then it is open.
SessionsFit ==
  /\ \A w \in Writers : (path = w \/ \E r \in Removers : held[r] = w) => at[w] = "over"
  /\ program = "config" =>
       \A w \in Writers : at[w] \in {"create", "write", "flush", "rename"} => w \in open

\* The inductive invariant of SavedFile_proofs: how a writer's stage, its
\* temporary file, the target and the sessions fit together.
IndInv ==
  /\ TypeOK /\ TempFits /\ SessionsFit
  /\ program = "config" => whole /\ safe
  /\ NeverPartial /\ NoDeadSession /\ NoClobber
  /\ \A w \in Writers : Unforced(w) => path \in raced \cup {Nothing}
=============================================================================
