---------------------------- MODULE DepmodOutput ----------------------------
(***************************************************************************)
(* How depmod replaces the files in /lib/modules/<version>: every one is   *)
(* written under a temporary name, the old one is removed, and the new one *)
(* gets its name.  One depmod runs after another while modules are         *)
(* installed; a write may fail, and depmod may die between any two steps.  *)
(***************************************************************************)
EXTENDS Integers, FiniteSets

CONSTANTS
  N,          \* number of files, of which the first is modules.dep
  Builtin,    \* files made of modules.builtin, which may be missing
  MaxInodes,  \* bound: files that exist at the same time
  MaxTime,    \* bound: of the time
  Second,     \* how many times of a stamp are in one second
  MaxRuns     \* bound: runs of depmod

File == 1..N
Inode == 1..MaxInodes
NoInode == 0

ASSUME OutputConstants ==
  /\ N \in Nat \ {0} /\ Builtin \subseteq File /\ MaxInodes \in Nat /\ N <= MaxInodes
  /\ MaxRuns \in Nat /\ MaxTime \in Nat /\ Second \in Nat \ {0}

VARIABLES
  now,      \* the time of the file system, as far as stamps tell it
  newest,   \* the time of the newest module
  dir,      \* dir[f]: the file of that name in the directory
  tmp,      \* tmp[f]: the file of that name with .tmp
  inode,    \* inode[x]: what was written, and when
  mapped,   \* the files that other programs have open
  pc, f,    \* depmod: its next step, the file it is at,
  gen,      \*   the run, if it writes files,
  ferr,     \*   whether a write of the file has failed
  skipped,  \*   the files it could not open
  runs,
  failed    \* history: a file cut short has been installed

depmodVars == <<pc, f, gen, ferr, skipped, runs, failed>>
clock == <<now, newest>>
outputVars == <<clock, dir, tmp, inode, depmodVars>>

\* What is in a file: the run that wrote it, and the time of the last write to it.
\* It is partial from its creation to its close.
NoContent == [gen |-> 0, stamp |-> 0, content |-> "partial"]

\* No depmod has run yet, or one that has written all files.
OutputInit ==
  /\ now = 0 /\ newest = 0 /\ failed = FALSE
  /\ tmp = [g \in File |-> NoInode]
  /\ \/ dir = tmp /\ inode = [x \in Inode |-> NoContent]
     \/ dir = [g \in File |-> g] /\ inode = [x \in Inode |-> [NoContent EXCEPT !.content = "full"]]
  /\ pc = "idle" /\ f = 1 /\ gen = 0 /\ ferr = FALSE /\ skipped = {} /\ runs = 0

Running == pc \notin {"idle", "success", "failure", "dead"}

----------------------------------------------------------------------------
\* Time goes on between two writes, or not as far as their stamps tell.
Tick == now' \in {now, now + 1} \cap 0..MaxTime

\* Modules are installed.
InstallModules ==
  /\ Tick /\ newest' = now'
  /\ UNCHANGED <<dir, tmp, inode, mapped, depmodVars>>

\* depfile_up_to_date: modules.dep is there and no module is newer, by seconds
UpToDate == dir[1] # NoInode /\ newest \div Second <= inode[dir[1]].stamp \div Second

\* do_depmod up to depmod_output, with -A or not: the modules are read and their
\* dependencies calculated.
Start ==
  /\ ~Running /\ runs < MaxRuns
  /\ runs' = runs + 1 /\ f' = 1 /\ skipped' = {} /\ ferr' = FALSE
  /\ \/ pc' = "success" /\ gen' = 0 /\ UpToDate
     \/ pc' = "open" /\ gen' = runs'
  /\ UNCHANGED <<clock, dir, tmp, inode, mapped, failed>>

\* The next file, or the end of depmod_output
NextFile == IF f = N THEN pc' = "success" /\ f' = f ELSE pc' = "open" /\ f' = f + 1

\* openat or fdopen fails: the file is left as it is, and the result is no error.
OpenFails ==
  /\ pc = "open"
  /\ NextFile
  /\ skipped' = skipped \cup {f}
  /\ UNCHANGED <<clock, dir, tmp, inode, mapped, gen, ferr, runs, failed>>

InUse == {dir[g] : g \in File} \cup {tmp[g] : g \in File} \cup mapped

\* A new file
Fresh == IF Inode \subseteq InUse THEN {} ELSE {CHOOSE x \in Inode : x \notin InUse}

\* Mutant of Open: the file is written under its own name.
OpenInPlace ==
  /\ pc = "open"
  /\ \E x \in IF dir[f] # NoInode THEN {dir[f]} ELSE Fresh :
       /\ tmp' = [tmp EXCEPT ![f] = x]
       /\ inode' = [inode EXCEPT ![x] = [gen |-> gen, stamp |-> now, content |-> "partial"]]
  /\ pc' = "write"
  /\ UNCHANGED <<clock, dir, mapped, f, gen, ferr, skipped, runs, failed>>

\* openat with O_CREAT and O_TRUNC
Open ==
  /\ pc = "open"
  /\ \E x \in IF tmp[f] # NoInode THEN {tmp[f]} ELSE Fresh :
       /\ tmp' = [tmp EXCEPT ![f] = x]
       /\ inode' = [inode EXCEPT ![x] = [gen |-> gen, stamp |-> now, content |-> "partial"]]
  /\ pc' = "write"
  /\ UNCHANGED <<clock, dir, mapped, f, gen, ferr, skipped, runs, failed>>

Close(c) == inode' = [inode EXCEPT ![tmp[f]] = [gen |-> gen, stamp |-> now', content |-> c]]

\* The function of the file and fclose; output_builtin_bin writes nothing when
\* there is no modules.builtin.
Write ==
  /\ pc = "write"
  /\ Tick
  /\ \/ Close("full") /\ ferr' = FALSE
     \/ f \in Builtin /\ Close("empty") /\ ferr' = FALSE
     \/ Close("cut") /\ ferr' = TRUE
  /\ pc' = "unlink"
  /\ UNCHANGED <<newest, dir, tmp, mapped, f, gen, skipped, runs, failed>>

\* Mutant of WriteFails: the file is installed as if it were complete.
WriteFailsInstalls ==
  /\ pc = "write"
  /\ pc' = "unlink"
  /\ UNCHANGED <<clock, dir, tmp, inode, mapped, f, gen, ferr, skipped, runs, failed>>

\* The function returns an error: the temporary file is removed.
WriteFails ==
  /\ pc = "write"
  /\ tmp' = [tmp EXCEPT ![f] = NoInode]
  /\ pc' = "failure"
  /\ UNCHANGED <<clock, dir, inode, mapped, f, gen, ferr, skipped, runs, failed>>

Unlink ==
  /\ pc = "unlink"
  /\ dir' = [dir EXCEPT ![f] = NoInode]
  /\ pc' = "rename"
  /\ UNCHANGED <<clock, tmp, inode, mapped, f, gen, ferr, skipped, runs, failed>>

\* Mutant of Rename: a write error is not looked at.
RenameIgnores ==
  /\ pc = "rename"
  /\ dir' = [dir EXCEPT ![f] = tmp[f]]
  /\ tmp' = [tmp EXCEPT ![f] = NoInode]
  /\ NextFile
  /\ UNCHANGED <<clock, inode, mapped, gen, ferr, skipped, runs, failed>>

\* renameat, and only then the look at the errors of the file
Rename ==
  /\ pc = "rename"
  /\ dir' = [dir EXCEPT ![f] = tmp[f]]
  /\ tmp' = [tmp EXCEPT ![f] = NoInode]
  /\ IF ferr THEN pc' = "failure" /\ f' = f ELSE NextFile
  /\ failed' = (failed \/ ferr)
  /\ UNCHANGED <<clock, inode, mapped, gen, ferr, skipped, runs>>

\* renameat fails, with the old file already removed.
RenameFails ==
  /\ pc = "rename"
  /\ pc' = "failure"
  /\ UNCHANGED <<clock, dir, tmp, inode, mapped, f, gen, ferr, skipped, runs, failed>>

\* depmod is killed; what was not flushed is lost.
Die ==
  /\ Running
  /\ pc' = "dead"
  /\ UNCHANGED <<clock, dir, tmp, inode, mapped, f, gen, ferr, skipped, runs, failed>>

OutputNext ==
  \/ InstallModules
  \/ Start \/ OpenFails \/ Open \/ Write \/ WriteFails \/ Unlink \/ Rename \/ RenameFails \/ Die

----------------------------------------------------------------------------
(* Properties.                                                             *)

Complete(g) ==
  inode[dir[g]].content \in {"full"} \cup (IF g \in Builtin THEN {"empty"} ELSE {})

\* A file under its own name is complete, whenever a depmod was killed and
\* whatever it left behind, unless depmod has failed with an error that a file
\* was truncated.
InstalledComplete == ~failed => \A g \in File : dir[g] # NoInode => Complete(g)

\* A depmod that succeeds has installed all its files, each complete and written by
\* itself, but those it said it could not open: whatever earlier depmods left behind,
\* and even if one of them has installed a file cut short.
SuccessInstalls ==
  pc = "success" /\ gen # 0 =>
    \A g \in File \ skipped : dir[g] # NoInode /\ Complete(g) /\ inode[dir[g]].gen = gen
=============================================================================
