---------------------------- MODULE LibkmodProof ----------------------------
(***************************************************************************)
(* The library libkmod: theorems about the indexes of its context while    *)
(* depmod replaces them, about its module objects and about its hash       *)
(* table.  Each part is about modules of its own and uses nothing of the   *)
(* other parts.                                                            *)
(***************************************************************************)
EXTENDS KmodResources, KmodModule, KmodHash,
        SequenceTheorems, FiniteSetTheorems, WellFoundedInduction, TLAPS

----------------------------------------------------------------------------
(***************************************************************************)
(* The context's indexes and depmod's output, for any number of files,     *)
(* runs and crashes of depmod: what is installed is complete, and a depmod *)
(* that succeeds has installed all its files.                              *)
(***************************************************************************)

FileContents == {"partial", "full", "empty", "cut"}

FilesTypes ==
  /\ now \in Nat /\ newest \in Nat /\ runs \in Nat /\ gen \in Nat
  /\ f \in File /\ ferr \in BOOLEAN /\ failed \in BOOLEAN
  /\ skipped \subseteq File
  /\ pc \in {"idle", "open", "write", "unlink", "rename", "success", "failure", "dead"}
  /\ dir \in [File -> Inode \cup {NoInode}] /\ tmp \in [File -> Inode \cup {NoInode}]
  /\ inode \in [Inode -> [gen : Nat, stamp : Nat, content : FileContents]]

\* No file has two names.
OneName ==
  /\ \A g, h \in File : dir[g] = tmp[h] => dir[g] = NoInode
  /\ \A g, h \in File : g # h /\ dir[g] = dir[h] => dir[g] = NoInode
  /\ \A g, h \in File : g # h /\ tmp[g] = tmp[h] => tmp[g] = NoInode

\* What a complete file f may hold
Whole(g) == {"full"} \cup (IF g \in Builtin THEN {"empty"} ELSE {})

\* The temporary file of the run, as far as it has got
Temporary ==
  /\ pc \in {"write", "unlink", "rename"} => tmp[f] # NoInode
  /\ pc \in {"unlink", "rename"} =>
       /\ inode[tmp[f]].gen = gen
       /\ ~ferr => inode[tmp[f]].content \in Whole(f)

InstalledBy(g) == dir[g] # NoInode /\ inode[dir[g]].content \in Whole(g) /\ inode[dir[g]].gen = gen

\* The run has installed the files before f, and all when it succeeds.
Progress ==
  /\ pc \in {"open", "write", "unlink", "rename"} =>
       \A g \in File \ skipped : g < f => InstalledBy(g)
  /\ pc = "success" /\ gen # 0 => \A g \in File \ skipped : InstalledBy(g)

AllComplete == ~failed => \A g \in File : dir[g] # NoInode => inode[dir[g]].content \in Whole(g)

\* The inductive invariant
FilesInv == FilesTypes /\ OneName /\ Temporary /\ Progress /\ AllComplete

----------------------------------------------------------------------------
\* At first every file is missing or complete.
LEMMA FilesInvInit == ResourcesSpecInit => FilesInv
<1> SUFFICES ASSUME ResourcesSpecInit PROVE FilesInv
  OBVIOUS
<1> USE OutputConstants DEF ResourcesSpecInit, OutputInit, NoInode, Inode, File, NoContent
<1>1. FilesTypes
  <2>1. tmp \in [File -> Inode \cup {NoInode}] /\ dir \in [File -> Inode \cup {NoInode}]
    OBVIOUS
  <2>2. inode \in [Inode -> [gen : Nat, stamp : Nat, content : FileContents]]
    BY DEF FileContents
  <2>3. f \in File /\ gen \in Nat /\ now \in Nat /\ newest \in Nat /\ runs \in Nat /\ pc = "idle"
    OBVIOUS
  <2>4. ferr \in BOOLEAN /\ failed \in BOOLEAN /\ skipped \subseteq File
    OBVIOUS
  <2> HIDE DEF ResourcesSpecInit, OutputInit, NoInode, Inode, File
  <2> QED
    BY <2>1, <2>2, <2>3, <2>4, Zenon DEF FilesTypes
<1>2. OneName
  BY DEF OneName
<1>3. Temporary /\ Progress
  BY DEF Temporary, Progress
<1>4. AllComplete
  BY DEF AllComplete, Whole
<1> QED
  BY <1>1, <1>2, <1>3, <1>4 DEF FilesInv

\* A step that changes neither the files nor where depmod is
LEMMA FilesInvSame == FilesInv /\ UNCHANGED outputVars => FilesInv'
BY DEF FilesInv, FilesTypes, OneName, Temporary, Progress, AllComplete, InstalledBy, Whole, outputVars, clock, depmodVars

\* A step that leaves the files and the names alone, and depmod's place in them
LEMMA FilesKept ==
  ASSUME FilesInv, UNCHANGED <<dir, tmp, inode, failed>>, FilesTypes', Temporary', Progress'
  PROVE  FilesInv'
BY DEF FilesInv, OneName, AllComplete, Whole

\* The time is a number.
LEMMA TickTime == Tick => now' \in Nat
BY OutputConstants DEF Tick

\* depmod's steps, and a crash between any two.
LEMMA OutputStep == FilesInv /\ OutputNext => FilesInv'
<1> SUFFICES ASSUME FilesInv, OutputNext PROVE FilesInv'
  OBVIOUS
<1> USE OutputConstants
<1>1. CASE InstallModules
  BY <1>1, TickTime DEF InstallModules, depmodVars, FilesInv, FilesTypes, OneName, Temporary, Progress, AllComplete, InstalledBy, Whole
<1>2. CASE Start
  <2>1. FilesTypes'
    <3>0. ferr' \in BOOLEAN
      BY <1>2, Zenon DEF Start
    <3>1. f' \in File /\ gen' \in Nat /\ skipped' \subseteq File
      <4>1. f' = 1 /\ skipped' = {} /\ (gen' = 0 \/ gen' = runs')
        BY <1>2 DEF Start
      <4>2. runs' \in Nat
        BY <1>2 DEF Start, FilesInv, FilesTypes
      <4>3. 1 \in File
        BY SMT DEF File, OutputConstants
      <4> QED
        BY <4>1, <4>2, <4>3
    <3>2. pc' \in {"open", "success"}
      BY <1>2 DEF Start
    <3>3. /\ now' = now /\ newest' = newest /\ runs' = runs + 1
          /\ dir' = dir /\ tmp' = tmp /\ inode' = inode /\ failed' = failed
      BY <1>2 DEF Start, clock
    <3>4. pc' \in {"idle", "open", "write", "unlink", "rename", "success", "failure", "dead"}
      BY <3>2
    <3>5. FilesTypes
      BY DEF FilesInv
    <3> QED
      BY <3>0, <3>1, <3>3, <3>4, <3>5 DEF FilesTypes
  <2>2. Temporary' /\ Progress'
    BY <1>2, <2>1 DEF Start, FilesInv, FilesTypes, Temporary, Progress, File
  <2> QED
    BY <1>2, <2>1, <2>2, FilesKept DEF Start
<1>3. CASE OpenFails
  <2>1. FilesTypes'
    BY <1>3 DEF OpenFails, NextFile, clock, FilesInv, FilesTypes, File
  <2>2. Temporary'
    BY <1>3 DEF OpenFails, NextFile, Temporary
  <2>3. Progress'
    <3>1. \A g \in File \ skipped' : g < f => InstalledBy(g)'
      BY <1>3 DEF OpenFails, FilesInv, Progress, InstalledBy, Whole
    <3>2. \A g \in File \ skipped' : g # f
      BY <1>3 DEF OpenFails
    <3> QED
      BY <1>3, <3>1, <3>2 DEF OpenFails, NextFile, Progress, FilesInv, FilesTypes, File
  <2> QED
    BY <1>3, <2>1, <2>2, <2>3, FilesKept DEF OpenFails
<1>4. CASE Open
  <2> PICK x \in (IF tmp[f] # NoInode THEN {tmp[f]} ELSE Fresh) :
         /\ tmp' = [tmp EXCEPT ![f] = x]
         /\ inode' = [inode EXCEPT ![x] = [gen |-> gen, stamp |-> now, content |-> "partial"]]
    BY <1>4 DEF Open
  <2>1. x \in Inode /\ (\A g \in File : dir[g] # x) /\ (\A g \in File : g # f => tmp[g] # x)
    <3>1. CASE tmp[f] # NoInode
      BY <3>1 DEF FilesInv, FilesTypes, OneName
    <3>2. CASE tmp[f] = NoInode
      <4>1. ~(Inode \subseteq InUse) /\ x = CHOOSE y \in Inode : y \notin InUse
        BY <3>2 DEF Fresh
      <4>2. x \in Inode /\ x \notin InUse
        BY <4>1
      <4> QED
        BY <4>2 DEF InUse
    <3> QED
      BY <3>1, <3>2
  <2>2. x # NoInode
    BY <2>1 DEF Inode, NoInode
  <2>3. FilesTypes'
    BY <1>4, <2>1 DEF Open, clock, FilesInv, FilesTypes, FileContents
  <2>4. OneName'
    BY <1>4, <2>1, <2>2 DEF Open, FilesInv, FilesTypes, OneName
  <2>5. \A g \in File : dir[g] # NoInode => inode'[dir[g]] = inode[dir[g]]
    BY <2>1 DEF FilesInv, FilesTypes
  <2>6. Temporary'
    BY <1>4, <2>2 DEF Open, Temporary, FilesInv, FilesTypes
  <2>7. Progress'
    BY <1>4, <2>5 DEF Open, Progress, FilesInv, FilesTypes, InstalledBy, Whole
  <2>8. AllComplete'
    BY <1>4, <2>5 DEF Open, AllComplete, FilesInv, Whole
  <2> QED
    BY <2>3, <2>4, <2>6, <2>7, <2>8 DEF FilesInv
<1>5. CASE Write
  <2> PICK c \in FileContents :
        inode' = [inode EXCEPT ![tmp[f]] = [gen |-> gen, stamp |-> now', content |-> c]]
          /\ (~ferr' => c \in Whole(f)) /\ ferr' \in BOOLEAN
    BY <1>5 DEF Write, Close, FileContents, Whole
  <2>1. tmp[f] \in Inode /\ \A g \in File : dir[g] # tmp[f]
    BY <1>5 DEF Write, FilesInv, FilesTypes, OneName, Temporary
  <2>2. FilesTypes'
    BY <1>5, <2>1, TickTime DEF Write, FilesInv, FilesTypes
  <2>3. \A g \in File : dir[g] # NoInode => inode'[dir[g]] = inode[dir[g]]
    BY <2>1 DEF FilesInv, FilesTypes
  <2>4. Temporary'
    BY <1>5, <2>1 DEF Write, Temporary, FilesInv, FilesTypes, Whole
  <2>5. Progress'
    BY <1>5, <2>3 DEF Write, Progress, FilesInv, FilesTypes, InstalledBy, Whole
  <2>6. OneName' /\ AllComplete'
    BY <1>5, <2>3 DEF Write, OneName, AllComplete, FilesInv, Whole
  <2> QED
    BY <2>2, <2>4, <2>5, <2>6 DEF FilesInv
<1>6. CASE WriteFails
  <2>1. FilesTypes'
    BY <1>6 DEF WriteFails, clock, FilesInv, FilesTypes
  <2>2. OneName'
    BY <1>6 DEF WriteFails, FilesInv, FilesTypes, OneName
  <2> QED
    BY <1>6, <2>1, <2>2 DEF WriteFails, FilesInv, Temporary, Progress, AllComplete, Whole
<1>7. CASE Unlink
  <2>1. FilesTypes' /\ OneName'
    BY <1>7 DEF Unlink, clock, FilesInv, FilesTypes, OneName
  <2>2. Temporary'
    BY <1>7 DEF Unlink, FilesInv, Temporary, Whole
  <2>3. Progress'
    BY <1>7 DEF Unlink, FilesInv, FilesTypes, Progress, InstalledBy, Whole, File
  <2>4. AllComplete'
    BY <1>7 DEF Unlink, FilesInv, FilesTypes, AllComplete, Whole
  <2> QED
    BY <2>1, <2>2, <2>3, <2>4 DEF FilesInv
<1>8. CASE Rename
  <2>1. FilesTypes'
    BY <1>8 DEF Rename, NextFile, clock, FilesInv, FilesTypes, File
  <2>2. OneName'
    BY <1>8 DEF Rename, FilesInv, FilesTypes, OneName
  <2>3. Temporary'
    BY <1>8 DEF Rename, NextFile, Temporary
  <2>4. \A g \in File : g = f /\ ~ferr => InstalledBy(g)'
    <3>1. dir'[f] = tmp[f] /\ tmp[f] # NoInode /\ inode[tmp[f]].gen = gen
      BY <1>8 DEF Rename, FilesInv, FilesTypes, Temporary
    <3>2. ~ferr => inode[tmp[f]].content \in Whole(f)
      BY <1>8 DEF Rename, FilesInv, Temporary
    <3>3. f \in File /\ inode' = inode /\ gen' = gen
      BY <1>8 DEF Rename, FilesInv, FilesTypes
    <3> QED
      BY <3>1, <3>2, <3>3 DEF InstalledBy, Whole
  <2>5. \A g \in File \ skipped' : g < f => InstalledBy(g)'
    BY <1>8 DEF Rename, FilesInv, FilesTypes, Progress, InstalledBy, Whole, File
  <2>6. Progress'
    <3>1. CASE ferr
      BY <1>8, <3>1 DEF Rename, Progress
    <3>2. CASE ~ferr /\ f = N
      <4>1. pc' = "success" /\ f' = f /\ skipped' = skipped
        BY <1>8, <3>2 DEF Rename, NextFile
      <4>2. \A g \in File : g = f \/ g < f
        BY <3>2 DEF File
      <4> QED
        BY <3>2, <4>1, <4>2, <2>4, <2>5 DEF Progress
    <3>3. CASE ~ferr /\ f # N
      <4>1. pc' = "open" /\ f' = f + 1 /\ skipped' = skipped
        BY <1>8, <3>3 DEF Rename, NextFile
      <4>2. \A g \in File : g < f + 1 => g = f \/ g < f
        BY DEF File, FilesInv, FilesTypes
      <4> QED
        BY <3>3, <4>1, <4>2, <2>4, <2>5 DEF Progress
    <3> QED
      BY <3>1, <3>2, <3>3
  <2>7. AllComplete'
    <3> SUFFICES ASSUME ~failed', NEW g \in File, dir'[g] # NoInode
                 PROVE  inode'[dir'[g]].content \in Whole(g)
      BY DEF AllComplete, Whole
    <3>1. ~failed /\ ~ferr
      BY <1>8 DEF Rename
    <3>2. CASE g = f
      BY <3>1, <3>2, <2>4 DEF InstalledBy, Whole
    <3>3. CASE g # f
      BY <1>8, <3>1, <3>3 DEF Rename, FilesInv, FilesTypes, AllComplete
    <3> QED
      BY <3>2, <3>3
  <2> QED
    BY <2>1, <2>2, <2>3, <2>6, <2>7 DEF FilesInv
<1>9. CASE Die \/ RenameFails
  BY <1>9 DEF Die, RenameFails, clock, FilesInv, FilesTypes, OneName, Temporary, Progress, AllComplete, Whole
<1> QED
  BY <1>1, <1>2, <1>3, <1>4, <1>5, <1>6, <1>7, <1>8, <1>9 DEF OutputNext

\* A program that has the files open changes none.
LEMMA FilesInvStep == FilesInv /\ [ResourcesNext]_allVars => FilesInv'
<1> SUFFICES ASSUME FilesInv, [ResourcesNext]_allVars PROVE FilesInv'
  OBVIOUS
<1>1. CASE OutputNext
  BY <1>1, OutputStep
<1>2. CASE UNCHANGED outputVars
  BY <1>2, FilesInvSame
<1>3. ResourcesStep => UNCHANGED outputVars
  BY DEF ResourcesStep, Load, LoadFails, ValidateNext, MustReload, LookupMapped, LookupFile
<1> QED
  BY <1>1, <1>2, <1>3 DEF ResourcesNext, allVars

\* The inductive invariant holds of every behaviour of depmod and its readers.
THEOREM FilesInvariance == ResourcesSpec => []FilesInv
BY FilesInvInit, FilesInvStep, PTL DEF ResourcesSpec

\* InstalledComplete for every number of files: no crash, error or order of steps
\* leaves a file under its own name that is not complete, unless depmod has said so.
THEOREM InstalledAreComplete == ResourcesSpec => []InstalledComplete
<1>1. FilesInv => InstalledComplete
  BY DEF FilesInv, AllComplete, InstalledComplete, Complete, Whole
<1> QED
  BY <1>1, FilesInvariance, PTL

\* SuccessInstalls for every number of files, whatever earlier runs left behind.
THEOREM SuccessHasInstalled == ResourcesSpec => []SuccessInstalls
<1>1. FilesInv => SuccessInstalls
  BY DEF FilesInv, Progress, InstalledBy, SuccessInstalls, Complete, Whole
<1> QED
  BY <1>1, FilesInvariance, PTL

----------------------------------------------------------------------------
(* The program's mapped files.                                             *)

\* A set of files has a first one.
LEMMA LeastFile ==
  ASSUME NEW S \in SUBSET File, S # {}
  PROVE  \E g \in S : \A h \in S : g <= h
<1>1. S \subseteq Nat
  BY OutputConstants DEF File
<1> DEFINE R == OpToRel(<, Nat)
<1>2. IsWellFoundedOn(R, Nat)
  BY NatLessThanWellFounded, Zenon
<1>3. \A x, y \in Nat : x < y => <<x, y>> \in R
  BY DEF OpToRel
<1> HIDE DEF R
<1>4. \E g \in S : \A h \in S : ~ (<<h, g>> \in R)
  BY <1>1, <1>2, WFMin, ZenonT(30)
<1>5. PICK g \in S : \A h \in S : ~ (<<h, g>> \in R)
  BY <1>4
<1>6. ASSUME NEW h \in S PROVE g <= h
  <2>1. h \in Nat /\ g \in Nat
    BY <1>1
  <2>2. ~ (h < g)
    BY <1>3, <1>5, <2>1, Zenon
  <2> QED
    BY <2>1, <2>2
<1> QED
  BY <1>6

\* What is mapped is no temporary file, and complete: depmod does not write to a file
\* that has got its name, and the place of one that is mapped is not given away.
MapInv ==
  /\ indexes \in [Index -> Inode \cup {NoInode}] /\ mapped \subseteq Inode
  /\ at[2] \in Index
  /\ \A g \in Index : indexes[g] # NoInode => indexes[g] \in mapped
  /\ \A h \in File : tmp[h] \notin mapped
  /\ ~failed => \A x \in mapped : inode[x].content = "full"

\* The program goes on with one of its indexes.
LEMMA GoesOn ==
  ASSUME NEW step, NEW end, at[2] \in Index, GoOn(step, end)
  PROVE  at'[2] \in Index
<1>1. First \in Index
  BY LeastFile, IndexType DEF First
<1>2. ASSUME Later(at[2]) # {}
      PROVE  (CHOOSE g \in Later(at[2]) : \A h \in Later(at[2]) : g <= h) \in Index
  <2>1. Later(at[2]) \in SUBSET File /\ Later(at[2]) \subseteq Index
    BY IndexType DEF Later
  <2> QED
    BY <1>2, <2>1, LeastFile
<1> QED
  BY <1>1, <1>2 DEF GoOn

\* depmod leaves what is mapped alone.
LEMMA OutputMaps == ASSUME FilesInv, MapInv, OutputNext, UNCHANGED resourceVars PROVE MapInv'
<1> USE DEF MapInv, resourceVars
<1>1. mapped' = mapped /\ indexes' = indexes /\ at' = at
  BY DEF OutputNext, InstallModules, Start, OpenFails, Open, Write, WriteFails, Unlink, Rename,
         RenameFails, Die
<1>2. CASE Open
  <2>1. PICK x \in (IF tmp[f] # NoInode THEN {tmp[f]} ELSE Fresh) :
         /\ tmp' = [tmp EXCEPT ![f] = x]
         /\ inode' = [inode EXCEPT ![x] = [gen |-> gen, stamp |-> now, content |-> "partial"]]
    BY <1>2 DEF Open
  <2>2. x \notin mapped
    <3>1. CASE tmp[f] # NoInode
      BY <2>1, <3>1 DEF FilesInv, FilesTypes
    <3>2. CASE tmp[f] = NoInode
      <4>1. ~(Inode \subseteq InUse) /\ x = CHOOSE y \in Inode : y \notin InUse
        BY <2>1, <3>2 DEF Fresh
      <4>2. x \notin InUse
        BY <4>1
      <4> QED
        BY <4>2 DEF InUse
    <3> QED
      BY <3>1, <3>2
  <2>3. \A h \in File : tmp'[h] \notin mapped
    BY <2>1, <2>2 DEF FilesInv, FilesTypes
  <2>4. \A y \in mapped : inode'[y] = inode[y]
    BY <2>1, <2>2 DEF FilesInv, FilesTypes
  <2>5. failed' = failed
    BY <1>2 DEF Open
  <2> QED
    BY <1>1, <2>3, <2>4, <2>5
<1>3. CASE Write
  <2>1. PICK c \in FileContents :
          inode' = [inode EXCEPT ![tmp[f]] = [gen |-> gen, stamp |-> now', content |-> c]]
    BY <1>3 DEF Write, Close, FileContents
  <2>2. tmp[f] \notin mapped
    BY DEF FilesInv, FilesTypes
  <2>3. \A y \in mapped : inode'[y] = inode[y]
    BY <2>1, <2>2 DEF FilesInv, FilesTypes
  <2>4. tmp' = tmp /\ failed' = failed
    BY <1>3 DEF Write
  <2> QED
    BY <1>1, <2>3, <2>4
<1>4. CASE Rename \/ WriteFails
  <2>1. tmp' = [tmp EXCEPT ![f] = NoInode] /\ inode' = inode
    BY <1>4 DEF Rename, WriteFails
  <2>4. failed => failed'
    <3>1. CASE Rename
      BY <3>1 DEF Rename
    <3>2. CASE WriteFails
      BY <3>2 DEF WriteFails
    <3> QED
      BY <1>4, <3>1, <3>2
  <2>2. NoInode \notin mapped
    BY OutputConstants DEF Inode, NoInode
  <2>3. \A h \in File : tmp'[h] \notin mapped
    BY <2>1, <2>2 DEF FilesInv, FilesTypes
  <2> QED
    BY <1>1, <2>1, <2>3, <2>4
<1>5. CASE InstallModules \/ Start \/ OpenFails \/ Unlink \/ RenameFails \/ Die
  <2>1. tmp' = tmp /\ inode' = inode /\ failed' = failed
    BY <1>5 DEF InstallModules, Start, OpenFails, Unlink, RenameFails, Die, depmodVars
  <2> QED
    BY <1>1, <2>1
<1> QED
  BY <1>2, <1>3, <1>4, <1>5 DEF OutputNext

\* The program maps what is installed, and nothing that is empty.
LEMMA ResourcesMaps == ASSUME FilesInv, MapInv, ResourcesStep PROVE MapInv'
<1>u. UNCHANGED outputVars
  BY DEF ResourcesStep, Load, LoadFails, ValidateNext, MustReload, LookupMapped, LookupFile
<1>v. tmp' = tmp /\ inode' = inode /\ failed' = failed /\ dir' = dir
  BY <1>u DEF outputVars, depmodVars
<1>f. First \in Index
  BY LeastFile, IndexType DEF First
<1>1. CASE Load
  <2> DEFINE g == at[2]
  <2>1. /\ indexes' = [indexes EXCEPT ![g] = dir[g]] /\ mapped' = mapped \cup {dir[g]}
        /\ dir[g] # NoInode /\ inode[dir[g]].content # "empty"
    BY <1>1 DEF Load, MayOpen
  <2>2. g \in Index /\ g \in File
    BY IndexType DEF MapInv
  <2>3. dir[g] \in Inode /\ \A h \in File : tmp[h] # dir[g]
    BY <2>1, <2>2 DEF FilesInv, FilesTypes, OneName
  <2>4. ~failed => inode[dir[g]].content = "full"
    BY <2>1, <2>2 DEF FilesInv, AllComplete, Whole
  <2>5. at'[2] \in Index
    BY <1>1, GoesOn DEF Load, MapInv
  <2> HIDE DEF g
  <2> QED
    BY <1>v, <2>1, <2>2, <2>3, <2>4, <2>5 DEF MapInv
<1>2. CASE LoadFails \/ MustReload
  <2>1. indexes' = Unloaded /\ mapped' = {} /\ at'[2] = First
    BY <1>2 DEF LoadFails, MustReload, Unload
  <2> QED
    BY <1>f, <1>v, <2>1 DEF MapInv, Unloaded
<1>3. CASE ValidateNext \/ LookupMapped \/ LookupFile
  <2>1. indexes' = indexes /\ mapped' = mapped
    BY <1>3 DEF ValidateNext, LookupMapped, LookupFile
  <2>2. at'[2] \in Index
    BY <1>3, GoesOn DEF ValidateNext, LookupMapped, LookupFile, MapInv
  <2> QED
    BY <1>v, <2>1, <2>2 DEF MapInv
<1> QED
  BY <1>1, <1>2, <1>3 DEF ResourcesStep

\* A search in a mapped file finds what it looks for.
LEMMA MappedFound == ASSUME MapInv, LookupMapped, ~failed PROVE result' = "found"
<1>1. indexes[at[2]] \in mapped
  BY DEF MapInv, LookupMapped
<1>2. inode[indexes[at[2]]].content = "full"
  BY <1>1 DEF MapInv
<1>3. result' \in {"found"}
  BY <1>2 DEF LookupMapped, Outcomes
<1> QED
  BY <1>3

\* LoadedFind for any number of files and readers' steps: depmod's unlink and rename,
\* its crashes and what it leaves behind never reach a file that a program has mapped.
THEOREM MappedAreFound == ResourcesSpec => LoadedFind
<1>1. ResourcesSpecInit => MapInv
  <2> SUFFICES ASSUME ResourcesSpecInit PROVE MapInv
    OBVIOUS
  <2>1. indexes = Unloaded /\ mapped = {} /\ at[2] = First
    BY DEF ResourcesSpecInit, ResourcesInit
  <2>2. First \in Index
    BY LeastFile, IndexType DEF First
  <2> QED
    BY <2>1, <2>2 DEF MapInv, Unloaded
<1>2. FilesInv /\ MapInv /\ [ResourcesNext]_allVars => MapInv'
  <2> SUFFICES ASSUME FilesInv, MapInv, [ResourcesNext]_allVars PROVE MapInv'
    OBVIOUS
  <2>1. CASE UNCHANGED allVars
    BY <2>1 DEF MapInv, allVars, outputVars, clock, depmodVars, resourceVars
  <2> QED
    BY <2>1, OutputMaps, ResourcesMaps DEF ResourcesNext
<1>3. MapInv /\ [ResourcesNext]_allVars => [LookupMapped /\ ~failed => result' = "found"]_allVars
  BY MappedFound
<1> QED
  BY <1>1, <1>2, <1>3, FilesInvariance, PTL DEF ResourcesSpec, LoadedFind

----------------------------------------------------------------------------
(***************************************************************************)
(* Module objects.  Reference counting is exact, for every set of modules  *)
(* and every modules.dep, cyclic ones included: the proofs that TypeOK,    *)
(* RefcountExact, NoDangling and CtxOutlivesModules are invariants of      *)
(* KmodModule, and more.                                                   *)
(***************************************************************************)

\* A count of references is positive exactly for the objects of the pool, and
\* an object whose line was not parsed has no dependency list.
PoolInv ==
  \A k \in Key :
    /\ k \in pool <=> refcount[k] > 0
    /\ k \in pool /\ ~initdep[k] => dep[k] = {}

\* What is known of the running call: the releases of a call come after the
\* rest of it, a module is visited once, and the module whose line is parsed
\* is allocated and has no list yet.
CallInv ==
  /\ call.op # "none" => todo = NoRefs
  /\ call.op = "none" => call.list = {} /\ call.mod = "-"
  /\ call.op = "lookup" => call.mod = "-"
  /\ call.op = "depline" => call.list = {} /\ call.mod \in pool
  /\ call.op = "parse" => call.mod \in pool /\ initdep[call.mod] /\ dep[call.mod] = {}
  /\ call.list \cap call.rest = {}

IInv == TypeOK /\ PoolInv /\ CallInv /\ RefcountExact /\ CtxOutlivesModules

----------------------------------------------------------------------------
(* Lemmas about counts and owners.                                         *)

\* Adding one reference of each member of a set to a count.
LEMMA PlusType ==
  ASSUME NEW c \in [Key -> Nat], NEW S
  PROVE  /\ Plus(c, S) \in [Key -> Nat]
         /\ \A k \in Key : Plus(c, S)[k] = c[k] + IF k \in S THEN 1 ELSE 0
  BY DEF Plus

\* The parents of a module are finitely many.
LEMMA ParentsFinite ==
  ASSUME TypeOK, NEW k \in Key
  PROVE  IsFiniteSet(Parents(k)) /\ Cardinality(Parents(k)) \in Nat
  <1>1. Parents(k) \subseteq Key  BY DEF Parents, TypeOK
  <1>2. QED  BY <1>1, KeyFinite, FS_Subset, FS_CardinalityType

\* There are finitely many objects in the pool.
LEMMA PoolFinite ==
  ASSUME TypeOK
  PROVE  IsFiniteSet(pool) /\ Cardinality(pool) \in Nat
  BY KeyFinite, FS_Subset, FS_CardinalityType DEF TypeOK

\* A new object has no dependency list, so it is nobody's parent.
LEMMA CreateStep ==
  ASSUME IInv, NEW n \in Key, NEW p \in Paths, Create(n, p)
  PROVE  /\ \A k \in Key : Parents(k)' = Parents(k)
         /\ refcount[n] = 0
         /\ refcount' = Plus(refcount, {n})
         /\ ctxref' = ctxref + 1
         /\ Cardinality(pool') = Cardinality(pool) + 1
         /\ path' \in [Key -> Paths] /\ initdep' \in [Key -> BOOLEAN]
         /\ dep' \in [Key -> SUBSET Key] /\ pool' \in SUBSET Key
         /\ \A k \in pool :
              k \in pool' /\ dep'[k] = dep[k] /\ initdep'[k] = initdep[k]
         /\ PoolInv'
  <1> USE DEF IInv
  <1>1. \A k \in Key : Parents(k)' = Parents(k)
        BY DEF Create, Parents, TypeOK
  <1>2. refcount[n] = 0
        BY DEF Create, PoolInv, TypeOK
  <1>3. refcount' = Plus(refcount, {n})
        <2>1. refcount' = [k \in Key |-> IF k = n THEN 1 ELSE refcount[k]]
              BY DEF Create, TypeOK
        <2>2. \A k \in Key : (IF k = n THEN 1 ELSE refcount[k])
                               = refcount[k] + IF k \in {n} THEN 1 ELSE 0
              BY <1>2 DEF TypeOK
        <2>3. QED  BY <2>1, <2>2 DEF Plus
  <1>4. Cardinality(pool') = Cardinality(pool) + 1
        BY PoolFinite, FS_AddElement DEF Create
  <1>5. PoolInv'
        BY DEF Create, PoolInv, TypeOK
  <1>6. QED
        BY <1>1, <1>2, <1>3, <1>4, <1>5 DEF Create, TypeOK

\* kmod_module_new and kmod_module_new_from_path count one more reference of
\* the module they return and change no dependency list.
LEMMA NewStep ==
  ASSUME IInv, NEW n \in Key, NEW p \in Paths,
         NewModule(n) \/ NewFromPathOk(n, p)
  PROVE  /\ \A k \in Key : Parents(k)' = Parents(k)
         /\ refcount' = Plus(refcount, {n})
         /\ ctxref' - ctxref = Cardinality(pool') - Cardinality(pool)
         /\ ctxref' \in Int
         /\ path' \in [Key -> Paths] /\ initdep' \in [Key -> BOOLEAN]
         /\ dep' \in [Key -> SUBSET Key] /\ pool' \in SUBSET Key
         /\ \A k \in pool :
              k \in pool' /\ dep'[k] = dep[k] /\ initdep'[k] = initdep[k]
         /\ PoolInv'
  <1> USE DEF IInv
  <1>c. Cardinality(pool) \in Nat  BY PoolFinite
  <1>1. CASE \E q \in Paths : Create(n, q)
        <2>1. PICK q \in Paths : Create(n, q)  BY <1>1
        <2>2. ctxref \in Int  BY DEF TypeOK
        <2>3. /\ \A k \in Key : Parents(k)' = Parents(k)
              /\ refcount' = Plus(refcount, {n})
              /\ ctxref' = ctxref + 1
              /\ Cardinality(pool') = Cardinality(pool) + 1
              /\ path' \in [Key -> Paths] /\ initdep' \in [Key -> BOOLEAN]
              /\ dep' \in [Key -> SUBSET Key] /\ pool' \in SUBSET Key
              /\ \A k \in pool :
                   k \in pool' /\ dep'[k] = dep[k] /\ initdep'[k] = initdep[k]
              /\ PoolInv'
              BY <2>1, CreateStep
        <2>4. QED  BY <2>2, <2>3, <1>c
  <1>2. CASE n \in pool /\ RefAll({n})
        <2>1. \A k \in Key : Parents(k)' = Parents(k)
              BY <1>2 DEF RefAll, Parents
        <2>2. PoolInv'
              BY <1>2, PlusType DEF RefAll, PoolInv, TypeOK
        <2>3. QED  BY <1>2, <1>c, <2>1, <2>2 DEF RefAll, TypeOK
  <1>3. CASE /\ n \in pool
             /\ path' = [path EXCEPT ![n] = p]
             /\ refcount' = Plus(refcount, {n})
             /\ UNCHANGED <<ctxref, pool, initdep, dep>>
        <2>1. \A k \in Key : Parents(k)' = Parents(k)
              BY <1>3 DEF Parents
        <2>2. PoolInv'
              BY <1>3, PlusType DEF PoolInv, TypeOK
        <2>3. QED  BY <1>3, <1>c, <2>1, <2>2 DEF TypeOK
  <1>4. QED  BY <1>1, <1>2, <1>3 DEF NewModule, NewFromPathOk, Paths

\* One reference of k if it is on the list under construction
Listed(k) == IF k \in call.list THEN 1 ELSE 0

\* A step keeps the count of k exact if it changes refcount[k] by as much as
\* the number of its owners.
LEMMA Balance ==
  ASSUME TypeOK, TypeOK', RefcountExact, NEW k \in Key,
         refcount'[k] - refcount[k] =
           (held'[k] - held[k])
             + (Cardinality(Parents(k)') - Cardinality(Parents(k)))
             + (todo'[k] - todo[k]) + (leaked'[k] - leaked[k])
             + (Listed(k)' - Listed(k))
  PROVE  refcount'[k] = Owners(k)'
  <1> DEFINE r == refcount[k]  r2 == refcount'[k]
             h == held[k]      h2 == held'[k]
             t == todo[k]      t2 == todo'[k]
             x == leaked[k]    x2 == leaked'[k]
             c == Cardinality(Parents(k))
             c2 == Cardinality(Parents(k)')
             l == Listed(k)    l2 == Listed(k)'
  <1>1. c2 \in Int
        <2>1. Parents(k)' \subseteq Key  BY DEF Parents, TypeOK
        <2>2. QED  BY <2>1, KeyFinite, FS_Subset, FS_CardinalityType
  <1>2. /\ r \in Int /\ h \in Int /\ t \in Int /\ x \in Int /\ c \in Int
        /\ r2 \in Int /\ h2 \in Int /\ t2 \in Int /\ x2 \in Int
        /\ l \in Int /\ l2 \in Int
        BY ParentsFinite DEF TypeOK, Listed
  <1>3. r = h + c + t + x + l
        BY DEF RefcountExact, Owners, Listed
  <1>4. Owners(k)' = h2 + c2 + t2 + x2 + l2
        BY DEF Owners, Listed
  <1>5. r2 - r = (h2 - h) + (c2 - c) + (t2 - t) + (x2 - x) + (l2 - l)
        OBVIOUS
  <1> HIDE DEF r, r2, h, h2, t, t2, x, x2, c, c2, l, l2
  <1>6. r2 = h2 + c2 + t2 + x2 + l2
        BY <1>1, <1>2, <1>3, <1>5
  <1>7. QED  BY <1>4, <1>6 DEF r2

\* What somebody has a reference of is allocated.
LEMMA OwnedInPool ==
  ASSUME IInv, NEW k \in Key,
         \/ held[k] > 0 \/ Parents(k) # {} \/ todo[k] > 0
         \/ leaked[k] > 0 \/ k \in call.list
  PROVE  k \in pool
  <1> DEFINE r == refcount[k]
             h == held[k]
             t == todo[k]
             x == leaked[k]
             c == Cardinality(Parents(k))
             l == Listed(k)
  <1>1. /\ r \in Nat /\ h \in Nat /\ t \in Nat /\ x \in Nat /\ c \in Nat
        /\ l \in Nat
        BY ParentsFinite DEF IInv, TypeOK, Listed
  <1>2. r = h + c + t + x + l
        BY DEF IInv, RefcountExact, Owners, Listed
  <1>3. Parents(k) # {} => c > 0
        BY <1>1, ParentsFinite, FS_EmptySet DEF IInv
  <1>4. h > 0 \/ c > 0 \/ t > 0 \/ x > 0 \/ l > 0
        BY <1>3 DEF Listed
  <1>5. r > 0 => k \in pool  BY DEF IInv, PoolInv
  <1> HIDE DEF r, h, t, x, c, l
  <1>6. r > 0  BY <1>1, <1>2, <1>4
  <1>7. QED  BY <1>5, <1>6

----------------------------------------------------------------------------
\* The program begins without objects.
LEMMA InitInv == Init => IInv
  <1> SUFFICES ASSUME Init PROVE IInv  OBVIOUS
  <1> USE DEF Init
  <1>1. TypeOK
        BY DEF TypeOK, NoRefs, NoCall, Calls, Paths
  <1>2. PoolInv /\ CallInv
        BY DEF PoolInv, CallInv, NoRefs, NoCall
  <1>3. RefcountExact
        <2>1. ASSUME NEW k \in Key PROVE Cardinality(Parents(k)) = 0
              BY FS_EmptySet DEF Parents
        <2>2. QED  BY <2>1 DEF RefcountExact, Owners, NoRefs, NoCall
  <1>4. CtxOutlivesModules
        BY FS_EmptySet DEF CtxOutlivesModules
  <1>5. QED  BY <1>1, <1>2, <1>3, <1>4 DEF IInv

----------------------------------------------------------------------------
(* Each action preserves the invariant.                                    *)

\* The part of the invariant that only reads the objects is kept by a step
\* that leaves them alone.
LEMMA SameObjects ==
  ASSUME IInv, UNCHANGED objects
  PROVE  PoolInv' /\ \A k \in Key : Parents(k)' = Parents(k)
  BY DEF IInv, PoolInv, Parents, objects

\* The program takes or drops its references of the context: no object changes.
LEMMA CtxStep == ASSUME IInv, CtxRef \/ CtxUnref PROVE IInv'
  <1> USE DEF IInv, CtxRef, CtxUnref, objects
  <1>1. TypeOK'  BY DEF TypeOK
  <1>2. CallInv'  BY DEF CallInv
  <1>3. RefcountExact'  BY SameObjects DEF RefcountExact, Owners
  <1>4. CtxOutlivesModules'
        BY PoolFinite DEF CtxOutlivesModules, TypeOK
  <1>5. QED  BY <1>1, <1>2, <1>3, <1>4, SameObjects

\* A call that gives the program one more reference of module n.
LEMMA GiveStep ==
  ASSUME IInv, NEW n \in Key, NEW p \in Paths,
         Idle, NewModule(n) \/ NewFromPathOk(n, p),
         held' = Plus(held, {n}),
         UNCHANGED <<userctx, todo, leaked>>,
         \/ call' = call
         \/ call' = [NoCall EXCEPT !.op = "depline", !.mod = n] /\ n \in pool'
  PROVE  IInv'
  <1>n. /\ \A k \in Key : Parents(k)' = Parents(k)
        /\ refcount' = Plus(refcount, {n})
        /\ ctxref' - ctxref = Cardinality(pool') - Cardinality(pool)
        /\ ctxref' \in Int
        /\ path' \in [Key -> Paths] /\ initdep' \in [Key -> BOOLEAN]
        /\ dep' \in [Key -> SUBSET Key] /\ pool' \in SUBSET Key
        /\ \A k \in pool :
             k \in pool' /\ dep'[k] = dep[k] /\ initdep'[k] = initdep[k]
        /\ PoolInv'
        BY NewStep
  <1> USE DEF IInv
  <1>0. /\ refcount' = Plus(refcount, {n})
        /\ refcount' \in [Key -> Nat] /\ held' \in [Key -> Nat]
        /\ \A k \in Key :
             /\ refcount'[k] = refcount[k] + IF k \in {n} THEN 1 ELSE 0
             /\ held'[k] = held[k] + IF k \in {n} THEN 1 ELSE 0
        <2>1. refcount' = Plus(refcount, {n})  BY <1>n
        <2>2. refcount \in [Key -> Nat] /\ held \in [Key -> Nat]  BY DEF TypeOK
        <2>3. QED  BY <2>1, <2>2, PlusType
  <1>1. TypeOK'
        <2>1. call' \in Calls  BY DEF TypeOK, NoCall, Calls
        <2>2. QED  BY <1>0, <2>1, <1>n DEF TypeOK
  <1>2. CallInv'
        BY DEF CallInv, NoCall, Idle
  <1>3. call'.list = call.list
        BY DEF CallInv, NoCall, Idle
  <1>4. RefcountExact'
        <2> SUFFICES ASSUME NEW k \in Key PROVE refcount'[k] = Owners(k)'
            BY DEF RefcountExact
        <2> DEFINE u == IF k \in {n} THEN 1 ELSE 0
        <2>1. Cardinality(Parents(k)') - Cardinality(Parents(k)) = 0
              BY <1>n, ParentsFinite
        <2>2. /\ leaked'[k] - leaked[k] = 0 /\ todo'[k] - todo[k] = 0
              /\ Listed(k)' - Listed(k) = 0
              BY <1>3 DEF TypeOK, Listed
        <2>3. refcount'[k] - refcount[k] = u /\ held'[k] - held[k] = u
              <3>1. refcount[k] \in Int /\ held[k] \in Int /\ u \in Int
                    BY DEF TypeOK
              <3>2. refcount'[k] = refcount[k] + u /\ held'[k] = held[k] + u
                    BY <1>0
              <3> HIDE DEF u, IInv
              <3>3. QED  BY <3>1, <3>2
        <2>4. u \in Int /\ u = u + 0 + 0 + 0 + 0  OBVIOUS
        <2> HIDE DEF u, IInv
        <2>5. QED  BY <2>1, <2>2, <2>3, <2>4, <1>1, Balance DEF IInv
  <1>5. CtxOutlivesModules'
        <2>1. ctxref' - ctxref = Cardinality(pool') - Cardinality(pool)
              BY <1>n
        <2>2. Cardinality(pool') \in Nat  BY <1>1, PoolFinite, FS_Subset,
              FS_CardinalityType, KeyFinite DEF TypeOK
        <2>3. QED
              BY <2>1, <2>2, <1>1, PoolFinite DEF CtxOutlivesModules, TypeOK
  <1>6. PoolInv'  BY <1>n
  <1>7. QED  BY <1>1, <1>2, <1>4, <1>5, <1>6

\* kmod_module_new_from_name gives the program one more reference.
LEMMA NewFromNameStep ==
  ASSUME IInv, NEW k \in Key, NewFromName(k) PROVE IInv'
  BY GiveStep DEF NewFromName, Paths

\* kmod_module_new_from_path does the same, also for an object with another path.
LEMMA NewFromPathStep ==
  ASSUME IInv, NEW k \in Key, NEW p \in {"dep", "other"}, NewFromPath(k, p)
  PROVE  IInv'
  BY GiveStep DEF NewFromPath, Paths

\* kmod_module_ref is called on an object that is in the pool.
LEMMA RefStep == ASSUME IInv, NEW k \in Key, Ref(k) PROVE IInv'
  <1>1. k \in pool  BY OwnedInPool DEF Ref
  <1>2. QED  BY <1>1, GiveStep DEF Ref, NewModule, Paths

\* A lookup in modules.dep finds or creates the object and references it; the reference
\* may be lost.
LEMMA LookupModdepStep ==
  ASSUME IInv, NEW n \in Key, LookupModdep(n) PROVE IInv'
  <1>0. n \in pool'
        BY DEF LookupModdep, NewModule, Create, RefAll
  <1>g. CASE held' = Plus(held, {n}) /\ UNCHANGED leaked
        BY <1>0, <1>g, GiveStep DEF LookupModdep, Paths
  <1>l. CASE leaked' = Plus(leaked, {n}) /\ UNCHANGED held
        <2>p. NewModule(n) /\ "none" \in Paths  BY DEF LookupModdep, Paths
        <2>n. /\ \A k \in Key : Parents(k)' = Parents(k)
              /\ refcount' = Plus(refcount, {n})
              /\ ctxref' - ctxref = Cardinality(pool') - Cardinality(pool)
              /\ ctxref' \in Int
              /\ path' \in [Key -> Paths] /\ initdep' \in [Key -> BOOLEAN]
              /\ dep' \in [Key -> SUBSET Key] /\ pool' \in SUBSET Key
              /\ PoolInv'
              BY <2>p, NewStep
        <2> USE DEF IInv, LookupModdep
        <2>1. /\ refcount' \in [Key -> Nat] /\ leaked' \in [Key -> Nat]
              /\ \A k \in Key :
                   /\ refcount'[k] = refcount[k] + IF k \in {n} THEN 1 ELSE 0
                   /\ leaked'[k] = leaked[k] + IF k \in {n} THEN 1 ELSE 0
              <3>1. refcount \in [Key -> Nat] /\ leaked \in [Key -> Nat]  BY DEF TypeOK
              <3>2. QED  BY <1>l, <2>n, <3>1, PlusType
        <2>2. TypeOK'
              <3>1. call' \in Calls  BY DEF TypeOK, NoCall, Calls
              <3>2. QED  BY <1>l, <2>1, <3>1, <2>n DEF TypeOK
        <2>3. CallInv'  BY <1>0 DEF CallInv, NoCall, Idle
        <2>4. call'.list = call.list  BY DEF CallInv, NoCall, Idle
        <2>5. RefcountExact'
              <3> SUFFICES ASSUME NEW k \in Key PROVE refcount'[k] = Owners(k)'
                  BY DEF RefcountExact
              <3> DEFINE u == IF k \in {n} THEN 1 ELSE 0
              <3>1. Cardinality(Parents(k)') - Cardinality(Parents(k)) = 0
                    BY <2>n, ParentsFinite
              <3>2. /\ held'[k] - held[k] = 0 /\ todo'[k] - todo[k] = 0
                    /\ Listed(k)' - Listed(k) = 0
                    BY <1>l, <2>4 DEF TypeOK, Listed
              <3>3. refcount'[k] - refcount[k] = u /\ leaked'[k] - leaked[k] = u
                    <4>1. refcount[k] \in Int /\ leaked[k] \in Int /\ u \in Int
                          BY DEF TypeOK
                    <4>2. refcount'[k] = refcount[k] + u /\ leaked'[k] = leaked[k] + u
                          BY <2>1
                    <4> HIDE DEF u, IInv
                    <4>3. QED  BY <4>1, <4>2
              <3>4. u \in Int /\ u = 0 + 0 + 0 + u + 0  OBVIOUS
              <3> HIDE DEF u, IInv
              <3>5. QED  BY <3>1, <3>2, <3>3, <3>4, <2>2, Balance DEF IInv
        <2>6. CtxOutlivesModules'
              <3>1. Cardinality(pool') \in Nat  BY <2>2, PoolFinite, FS_Subset,
                    FS_CardinalityType, KeyFinite DEF TypeOK
              <3>2. QED
                    BY <2>n, <3>1, <2>2, PoolFinite DEF CtxOutlivesModules, TypeOK
        <2>7. QED  BY <2>n, <2>2, <2>3, <2>5, <2>6
  <1>2. QED  BY <1>g, <1>l DEF LookupModdep

\* kmod_module_unref takes one of the program's references back; the release of the
\* object, if it was the last one, is left to the steps of the cascade.
LEMMA UnrefStep == ASSUME IInv, NEW n \in Key, Unref(n) PROVE IInv'
  <1> USE DEF IInv, Unref, Idle, NoRefs
  <1>1. TypeOK'  BY DEF TypeOK, objects
  <1>2. CallInv'  BY DEF CallInv, objects
  <1>3. PoolInv' /\ \A k \in Key : Parents(k)' = Parents(k)
        BY SameObjects
  <1>4. RefcountExact'
        <2> SUFFICES ASSUME NEW k \in Key PROVE refcount'[k] = Owners(k)'
            BY DEF RefcountExact
        <2> DEFINE u == IF k = n THEN 1 ELSE 0
        <2>1. Cardinality(Parents(k)') - Cardinality(Parents(k)) = 0
              BY <1>3, ParentsFinite
        <2>2. /\ refcount'[k] - refcount[k] = 0
              /\ leaked'[k] - leaked[k] = 0
              /\ Listed(k)' - Listed(k) = 0
              BY DEF TypeOK, objects, Listed
        <2>3. held'[k] - held[k] = - u /\ todo'[k] - todo[k] = u
              BY DEF TypeOK
        <2>4. u \in Int /\ -u \in Int /\ 0 = -u + 0 + u + 0 + 0  OBVIOUS
        <2> HIDE DEF u, IInv
        <2>5. QED  BY <2>1, <2>2, <2>3, <2>4, <1>1, Balance DEF IInv
  <1>5. CtxOutlivesModules'
        BY DEF CtxOutlivesModules, objects
  <1>6. QED  BY <1>1, <1>2, <1>3, <1>4, <1>5

\* A call that begins: only the description of the call changes.
LEMMA BeginStep ==
  ASSUME IInv, Idle, UNCHANGED <<userctx, ctxref, objects, held, todo, leaked>>,
         call' \in Calls, call'.list = {}, call'.op \in {"depline", "lookup"},
         call'.op = "depline" => call'.mod \in pool,
         call'.op = "lookup" => call'.mod = "-"
  PROVE  IInv'
  <1> USE DEF IInv
  <1>1. TypeOK'  BY DEF TypeOK, objects
  <1>2. CallInv'  BY DEF CallInv, objects, Idle
  <1>3. RefcountExact'
        BY SameObjects DEF RefcountExact, Owners, objects, CallInv, Idle
  <1>4. CtxOutlivesModules'
        BY DEF CtxOutlivesModules, objects
  <1>5. QED  BY <1>1, <1>2, <1>3, <1>4, SameObjects

\* A call that begins has no list and no module of its own yet.
LEMMA BeginCalls ==
  ASSUME IInv,
         \/ \E k \in Key : GetDependencies(k) \/ GetPath(k)
         \/ \E S \in SUBSET (Key \ Plain) : LookupAlias(S)
  PROVE  IInv'
  <1>1. ASSUME NEW k \in Key, GetDependencies(k) \/ GetPath(k)
        PROVE  IInv'
        <2>1. k \in pool
              BY ZenonT(30), <1>1, OwnedInPool DEF GetDependencies, GetPath
        <2>2. call' \in Calls /\ call'.list = {} /\ call'.op = "depline"
              /\ call'.mod = k
              BY <1>1 DEF GetDependencies, GetPath, NoCall, Calls
        <2>3. QED
              BY ZenonT(30), <1>1, <2>1, <2>2, BeginStep DEF GetDependencies, GetPath
  <1>2. ASSUME NEW S \in SUBSET (Key \ Plain), LookupAlias(S)
        PROVE  IInv'
        <2>1. call' \in Calls /\ call'.list = {} /\ call'.op = "lookup"
              /\ call'.mod = "-"
              BY <1>2 DEF LookupAlias, NoCall, Calls
        <2>2. QED  BY <1>2, <2>1, BeginStep DEF LookupAlias
  <1>3. QED  BY SMTT(30), <1>1, <1>2

\* Two counts that Plus adds to differ by one exactly on the added set.
LEMMA PlusDiff ==
  ASSUME NEW c \in [Key -> Nat], NEW S, NEW k \in Key
  PROVE  Plus(c, S)[k] - c[k] = IF k \in S THEN 1 ELSE 0
  <1> DEFINE u == IF k \in S THEN 1 ELSE 0
  <1>1. c[k] \in Int /\ u \in Int  OBVIOUS
  <1>2. Plus(c, S)[k] = c[k] + u  BY PlusType
  <1> HIDE DEF u
  <1>3. Plus(c, S)[k] - c[k] = u  BY <1>1, <1>2
  <1>4. QED  BY <1>3 DEF u

\* Adding the references of no module changes no count.
LEMMA PlusNothing ==
  ASSUME NEW c \in [Key -> Nat]
  PROVE  c = Plus(c, {})
  <1>1. \A k \in Key : c[k] = c[k] + 0  OBVIOUS
  <1>2. c = [k \in Key |-> c[k] + 0]  BY <1>1
  <1>3. QED  BY <1>2 DEF Plus

\* The list of an object that is already parsed is copied for the program.
LEMMA DeplineCachedStep == ASSUME IInv, DeplineCached PROVE IInv'
  <1> USE DEF IInv, DeplineCached, Return, RefAll
  <1> DEFINE S == IF call.returns THEN dep[call.mod] ELSE {}
  <1>0. /\ refcount \in [Key -> Nat] /\ held \in [Key -> Nat]
        /\ todo \in [Key -> Nat] /\ leaked \in [Key -> Nat]
        BY DEF TypeOK
  <1>1. held' = Plus(held, S) /\ refcount' = Plus(refcount, S)
        <2>1. CASE call.returns  BY <2>1
        <2>2. CASE ~call.returns  BY <2>2, <1>0, PlusNothing
        <2>3. QED  BY <2>1, <2>2
  <1>2. held' \in [Key -> Nat] /\ refcount' \in [Key -> Nat]
        BY <1>0, <1>1, PlusType
  <1>3. TypeOK'
        <2>1. call' \in Calls  BY DEF NoCall, Calls
        <2>2. QED  BY <1>2, <2>1 DEF TypeOK
  <1>4. CallInv'  BY DEF CallInv, NoCall
  <1>5. \A k \in Key : Parents(k)' = Parents(k)  BY DEF Parents
  <1>6. PoolInv'
        <2>1. ASSUME NEW k \in Key PROVE k \in S => k \in pool
              <3>1. CASE k \in S
                    <4>1. call.mod \in pool /\ k \in dep[call.mod]
                          BY <3>1 DEF CallInv
                    <4>2. Parents(k) # {}  BY <4>1 DEF Parents
                    <4>3. QED  BY <4>2, OwnedInPool
              <3>2. QED  BY <3>1
        <2>2. QED  BY <1>0, <1>1, <2>1, PlusType DEF PoolInv
  <1>7. RefcountExact'
        <2> SUFFICES ASSUME NEW k \in Key PROVE refcount'[k] = Owners(k)'
            BY DEF RefcountExact
        <2> DEFINE u == IF k \in S THEN 1 ELSE 0
        <2>1. Cardinality(Parents(k)') - Cardinality(Parents(k)) = 0
              BY <1>5, ParentsFinite
        <2>2. /\ leaked'[k] - leaked[k] = 0 /\ todo'[k] - todo[k] = 0
              /\ Listed(k)' - Listed(k) = 0
              BY DEF TypeOK, Listed, CallInv, NoCall
        <2>3. refcount'[k] - refcount[k] = u /\ held'[k] - held[k] = u
              BY <1>0, <1>1, PlusDiff
        <2>4. u \in Int /\ u = u + 0 + 0 + 0 + 0  OBVIOUS
        <2> HIDE DEF u, S, IInv, DeplineCached
        <2>5. QED  BY <2>1, <2>2, <2>3, <2>4, <1>3, Balance DEF IInv
  <1>8. CtxOutlivesModules'  BY DEF CtxOutlivesModules
  <1>9. QED  BY <1>3, <1>4, <1>6, <1>7, <1>8

\* The line of a module is parsed: it has no list of dependencies before.
LEMMA ParseBeginStep == ASSUME IInv, ParseBegin PROVE IInv'
  <1> USE DEF IInv, ParseBegin
  <1>1. TypeOK'
        <2>1. call.mod \in Key /\ ModOf[call.mod] \in Key
              BY ModOfType DEF CallInv, TypeOK
        <2>2. call' \in Calls
              BY <2>1, DepLineType DEF TypeOK, Calls
        <2>3. path' \in [Key -> Paths] /\ initdep' \in [Key -> BOOLEAN]
              BY <2>1 DEF TypeOK, Paths
        <2>4. QED  BY <2>2, <2>3 DEF TypeOK
  <1>2. \A k \in Key : Parents(k)' = Parents(k)  BY DEF Parents
  <1>3. PoolInv'  BY DEF PoolInv, TypeOK
  <1>4. CallInv'  BY DEF CallInv, PoolInv, TypeOK, Calls
  <1>5. RefcountExact'
        BY <1>2 DEF RefcountExact, Owners, CallInv, TypeOK, Calls
  <1>6. CtxOutlivesModules'  BY DEF CtxOutlivesModules
  <1>7. QED  BY <1>1, <1>3, <1>4, <1>5, <1>6

\* One more entry of the list under construction: the reference that
\* kmod_module_new returned is the one the list carries.
LEMMA ListStep ==
  ASSUME IInv, NEW n \in Key, NEW p \in Paths,
         NewModule(n) \/ NewFromPathOk(n, p),
         call.op \in {"parse", "lookup"}, n \in call.rest,
         call' = [call EXCEPT !.rest = @ \ {n}, !.list = @ \cup {n}],
         UNCHANGED <<userctx, held, todo, leaked>>
  PROVE  IInv'
  <1>n. /\ \A k \in Key : Parents(k)' = Parents(k)
        /\ refcount' = Plus(refcount, {n})
        /\ ctxref' - ctxref = Cardinality(pool') - Cardinality(pool)
        /\ ctxref' \in Int
        /\ path' \in [Key -> Paths] /\ initdep' \in [Key -> BOOLEAN]
        /\ dep' \in [Key -> SUBSET Key] /\ pool' \in SUBSET Key
        /\ \A k \in pool :
             k \in pool' /\ dep'[k] = dep[k] /\ initdep'[k] = initdep[k]
        /\ PoolInv'
        BY NewStep
  <1> USE DEF IInv
  <1>1. /\ refcount' = Plus(refcount, {n}) /\ refcount' \in [Key -> Nat]
        /\ refcount \in [Key -> Nat]
        <2>1. refcount \in [Key -> Nat]  BY DEF TypeOK
        <2>2. QED  BY <2>1, <1>n, PlusType
  <1>2. TypeOK'
        <2>1. call' \in Calls  BY DEF TypeOK, Calls
        <2>2. QED  BY <1>1, <2>1, <1>n DEF TypeOK
  <1>3. CallInv'
        <2>1. call' = [call EXCEPT !.rest = call.rest \ {n},
                                   !.list = call.list \cup {n}]  OBVIOUS
        <2>2. call'.op = call.op /\ call'.mod = call.mod
              /\ call'.rest = call.rest \ {n} /\ call'.list = call.list \cup {n}
              BY <2>1 DEF TypeOK, Calls
        <2>3. \A k \in pool : /\ k \in pool' /\ dep'[k] = dep[k]
                             /\ initdep'[k] = initdep[k]
              BY <1>n
        <2>4. QED  BY <2>2, <2>3 DEF CallInv
  <1>4. RefcountExact'
        <2> SUFFICES ASSUME NEW k \in Key PROVE refcount'[k] = Owners(k)'
            BY DEF RefcountExact
        <2> DEFINE u == IF k \in {n} THEN 1 ELSE 0
        <2>1. Cardinality(Parents(k)') - Cardinality(Parents(k)) = 0
              BY <1>n, ParentsFinite
        <2>2. /\ leaked'[k] - leaked[k] = 0 /\ todo'[k] - todo[k] = 0
              /\ held'[k] - held[k] = 0
              BY DEF TypeOK
        <2>3. refcount'[k] - refcount[k] = u  BY <1>1, PlusDiff
        <2>4. Listed(k)' - Listed(k) = u
              BY DEF Listed, CallInv, TypeOK, Calls
        <2>5. u \in Int /\ u = 0 + 0 + 0 + 0 + u  OBVIOUS
        <2> HIDE DEF u, IInv
        <2>6. QED  BY <2>1, <2>2, <2>3, <2>4, <2>5, <1>2, Balance DEF IInv
  <1>5. CtxOutlivesModules'
        <2>1. ctxref' - ctxref = Cardinality(pool') - Cardinality(pool)
              BY <1>n
        <2>2. Cardinality(pool') \in Nat
              BY <1>2, FS_Subset, FS_CardinalityType, KeyFinite DEF TypeOK
        <2>3. QED
              BY <2>1, <2>2, <1>2, PoolFinite DEF CtxOutlivesModules, TypeOK
  <1>6. QED  BY <1>2, <1>3, <1>4, <1>5, <1>n

\* One dependency of the line joins the list, with a reference.
LEMMA ParseStepStep ==
  ASSUME IInv, NEW d \in Key, ParseStep(d) PROVE IInv'
  BY ListStep DEF ParseStep, Paths

\* One module that the alias matches joins the list, with a reference.
LEMMA LookupStepStep ==
  ASSUME IInv, NEW k \in Key, LookupStep(k) PROVE IInv'
  BY ListStep DEF LookupStep, Paths

\* kmod_list_prepend or kmod_list_append fails: the entries of the list and the new one are lost.
LEMMA NoMemStep ==
  ASSUME IInv, NEW n \in Key, ParseStepNoMem(n) \/ LookupStepNoMem(n) PROVE IInv'
  <1>p. (NewFromPathOk(n, "dep") \/ NewModule(n)) /\ "dep" \in Paths
        BY DEF ParseStepNoMem, LookupStepNoMem, Paths
  <1>n. /\ \A k \in Key : Parents(k)' = Parents(k)
        /\ refcount' = Plus(refcount, {n})
        /\ ctxref' - ctxref = Cardinality(pool') - Cardinality(pool)
        /\ ctxref' \in Int
        /\ path' \in [Key -> Paths] /\ initdep' \in [Key -> BOOLEAN]
        /\ dep' \in [Key -> SUBSET Key] /\ pool' \in SUBSET Key
        /\ \A k \in pool :
             k \in pool' /\ dep'[k] = dep[k] /\ initdep'[k] = initdep[k]
        /\ PoolInv'
        BY <1>p, NewStep
  <1> USE DEF IInv, ParseStepNoMem, LookupStepNoMem
  <1>1. /\ refcount' = Plus(refcount, {n}) /\ refcount' \in [Key -> Nat]
        /\ refcount \in [Key -> Nat] /\ leaked \in [Key -> Nat]
        /\ leaked' \in [Key -> Nat]
        <2>1. refcount \in [Key -> Nat] /\ leaked \in [Key -> Nat]
              BY DEF TypeOK
        <2>2. QED  BY <2>1, <1>n, PlusType
  <1>2. TypeOK'
        <2>1. call' \in Calls  BY DEF TypeOK, Calls
        <2>2. QED  BY <1>1, <2>1, <1>n DEF TypeOK
  <1>3. CallInv'
        <2>1. call'.op = call.op /\ call'.mod = call.mod
              /\ call'.list = {}
              BY DEF TypeOK, Calls
        <2>2. \A k \in pool : /\ k \in pool' /\ dep'[k] = dep[k]
                             /\ initdep'[k] = initdep[k]
              BY <1>n
        <2>3. QED  BY <2>1, <2>2 DEF CallInv
  <1>4. RefcountExact'
        <2> SUFFICES ASSUME NEW k \in Key PROVE refcount'[k] = Owners(k)'
            BY DEF RefcountExact
        <2> DEFINE u == IF k \in {n} THEN 1 ELSE 0
                   l == IF k \in call.list THEN 1 ELSE 0
        <2>1. Cardinality(Parents(k)') - Cardinality(Parents(k)) = 0
              BY <1>n, ParentsFinite
        <2>2. todo'[k] - todo[k] = 0 /\ held'[k] - held[k] = 0
              BY DEF TypeOK
        <2>3. refcount'[k] - refcount[k] = u  BY <1>1, PlusDiff
        <2>4. leaked'[k] - leaked[k] = u + l
              <3>1. leaked'[k] - leaked[k]
                      = IF k \in call.list \cup {n} THEN 1 ELSE 0
                    BY <1>1, PlusDiff
              <3>2. ~(k \in call.list /\ k \in {n})
                    BY DEF CallInv
              <3>3. QED  BY <3>1, <3>2
        <2>5. Listed(k)' - Listed(k) = - l
              <3>1. call'.list = {}  BY DEF TypeOK, Calls
              <3> HIDE DEF IInv, ParseStepNoMem, LookupStepNoMem
              <3>2. QED  BY <3>1 DEF Listed
        <2>6. u \in Int /\ l \in Int /\ u = 0 + 0 + 0 + (u + l) + (- l)
              OBVIOUS
        <2> HIDE DEF u, l, IInv
        <2>7. QED
              BY <2>1, <2>2, <2>3, <2>4, <2>5, <2>6, <1>2, Balance DEF IInv
  <1>5. CtxOutlivesModules'
        <2>1. ctxref' - ctxref = Cardinality(pool') - Cardinality(pool)
              BY <1>n
        <2>2. Cardinality(pool') \in Nat
              BY <1>2, FS_Subset, FS_CardinalityType, KeyFinite DEF TypeOK
        <2>3. QED
              BY <2>1, <2>2, <1>2, PoolFinite DEF CtxOutlivesModules, TypeOK
  <1>6. QED  BY <1>2, <1>3, <1>4, <1>5, <1>n

\* A dependency cannot be created: the list under construction becomes the
\* unrefs to be made.
LEMMA ParseFailStep ==
  ASSUME IInv, NEW n \in Key, ParseFail(n) PROVE IInv'
  <1> USE DEF IInv, ParseFail
  <1>1. todo \in [Key -> Nat] /\ todo' \in [Key -> Nat]
        BY PlusType DEF TypeOK
  <1>2. TypeOK'
        <2>1. call' \in Calls  BY DEF NoCall, Calls
        <2>2. QED  BY <1>1, <2>1 DEF TypeOK
  <1>3. CallInv'  BY DEF CallInv, NoCall
  <1>4. \A k \in Key : Parents(k)' = Parents(k)  BY DEF Parents
  <1>5. PoolInv'  BY DEF PoolInv, CallInv, TypeOK
  <1>6. RefcountExact'
        <2> SUFFICES ASSUME NEW k \in Key PROVE refcount'[k] = Owners(k)'
            BY DEF RefcountExact
        <2> DEFINE l == IF k \in call.list THEN 1 ELSE 0
        <2>1. Cardinality(Parents(k)') - Cardinality(Parents(k)) = 0
              BY <1>4, ParentsFinite
        <2>2. /\ leaked'[k] - leaked[k] = 0 /\ held'[k] - held[k] = 0
              /\ refcount'[k] - refcount[k] = 0
              BY DEF TypeOK
        <2>3. todo'[k] - todo[k] = l  BY <1>1, PlusDiff
        <2>4. Listed(k)' - Listed(k) = - l  BY DEF Listed, NoCall
        <2>5. l \in Int /\ 0 = 0 + 0 + l + 0 + (- l)  OBVIOUS
        <2> HIDE DEF l, IInv, ParseFail
        <2>6. QED  BY <2>1, <2>2, <2>3, <2>4, <2>5, <1>2, Balance DEF IInv
  <1>7. CtxOutlivesModules'  BY DEF CtxOutlivesModules
  <1>8. QED  BY <1>2, <1>3, <1>5, <1>6, <1>7

\* The list becomes the module's, and is copied for the program if asked for.
LEMMA ParseDoneStep == ASSUME IInv, ParseDone PROVE IInv'
  <1> USE DEF IInv, ParseDone, Return
  <1> DEFINE S == IF call.returns THEN call.list ELSE {}
  <1>0. /\ refcount \in [Key -> Nat] /\ held \in [Key -> Nat]
        /\ call.list \subseteq Key /\ call.mod \in pool /\ call.mod \in Key
        BY DEF TypeOK, Calls, CallInv
  <1>1. held' = Plus(held, S) /\ refcount' = Plus(refcount, S)
        <2>1. CASE call.returns  BY <2>1
        <2>2. CASE ~call.returns  BY <2>2, <1>0, PlusNothing
        <2>3. QED  BY <2>1, <2>2
  <1>2. held' \in [Key -> Nat] /\ refcount' \in [Key -> Nat]
        BY <1>0, <1>1, PlusType
  <1>3. TypeOK'
        <2>1. call' \in Calls  BY DEF NoCall, Calls
        <2>2. QED  BY <1>0, <1>2, <2>1 DEF TypeOK
  <1>4. CallInv'  BY DEF CallInv, NoCall
  <1>5. \A k \in S : k \in pool  BY <1>0, OwnedInPool
  <1>6. PoolInv'
        BY <1>0, <1>1, <1>5, PlusType DEF PoolInv, CallInv, TypeOK
  <1>7. RefcountExact'
        <2> SUFFICES ASSUME NEW k \in Key PROVE refcount'[k] = Owners(k)'
            BY DEF RefcountExact
        <2> DEFINE u == IF k \in S THEN 1 ELSE 0
                   l == IF k \in call.list THEN 1 ELSE 0
        <2>1. Cardinality(Parents(k)') - Cardinality(Parents(k)) = l
              <3>1. CASE k \in call.list
                    <4>1. Parents(k)' = Parents(k) \cup {call.mod}
                          BY <3>1, <1>0 DEF Parents, TypeOK
                    <4>2. call.mod \notin Parents(k)
                          BY <1>0 DEF Parents, CallInv
                    <4>3. Cardinality(Parents(k)') = Cardinality(Parents(k)) + 1
                          BY <4>1, <4>2, ParentsFinite, FS_AddElement
                    <4>4. QED  BY <3>1, <4>3, ParentsFinite
              <3>2. CASE k \notin call.list
                    <4>1. Parents(k)' = Parents(k)
                          BY <3>2, <1>0 DEF Parents, TypeOK, CallInv
                    <4>2. QED  BY <3>2, <4>1, ParentsFinite
              <3>3. QED  BY <3>1, <3>2
        <2>2. leaked'[k] - leaked[k] = 0 /\ todo'[k] - todo[k] = 0
              BY DEF TypeOK
        <2>3. refcount'[k] - refcount[k] = u /\ held'[k] - held[k] = u
              BY <1>0, <1>1, PlusDiff
        <2>4. Listed(k)' - Listed(k) = - l  BY DEF Listed, NoCall
        <2>5. u \in Int /\ l \in Int /\ u = u + l + 0 + 0 + (- l)  OBVIOUS
        <2> HIDE DEF u, l, S, IInv, ParseDone
        <2>6. QED  BY <2>1, <2>2, <2>3, <2>4, <2>5, <1>3, Balance DEF IInv
  <1>8. CtxOutlivesModules'  BY DEF CtxOutlivesModules
  <1>9. QED  BY <1>3, <1>4, <1>6, <1>7, <1>8

\* A lookup hands its list to the program, or loses it.
LEMMA LookupEndStep ==
  ASSUME IInv, LookupDone \/ LookupFail PROVE IInv'
  <1> USE DEF IInv, LookupDone, LookupFail
  <1>0. held \in [Key -> Nat] /\ leaked \in [Key -> Nat]
        BY DEF TypeOK
  <1>1. held' \in [Key -> Nat] /\ leaked' \in [Key -> Nat]
        BY <1>0, PlusType
  <1>2. TypeOK'
        <2>1. call' = NoCall  OBVIOUS
        <2>2. NoCall \in Calls  BY DEF NoCall, Calls
        <2>3. QED  BY <1>1, <2>1, <2>2 DEF TypeOK, objects
  <1>3. CallInv'  BY DEF CallInv, NoCall
  <1>4. RefcountExact'
        <2> SUFFICES ASSUME NEW k \in Key PROVE refcount'[k] = Owners(k)'
            BY DEF RefcountExact
        <2> DEFINE l == IF k \in call.list THEN 1 ELSE 0
        <2>1. Cardinality(Parents(k)') - Cardinality(Parents(k)) = 0
              BY SameObjects, ParentsFinite
        <2>2. todo'[k] - todo[k] = 0 /\ refcount'[k] - refcount[k] = 0
              BY DEF TypeOK, objects
        <2>3. \/ held'[k] - held[k] = l /\ leaked'[k] - leaked[k] = 0
              \/ held'[k] - held[k] = 0 /\ leaked'[k] - leaked[k] = l
              <3>1. held[k] - held[k] = 0 /\ leaked[k] - leaked[k] = 0
                    BY <1>0
              <3>2. QED  BY <1>0, <3>1, PlusDiff
        <2>4. Listed(k)' - Listed(k) = - l  BY DEF Listed, NoCall
        <2>5. /\ l \in Int /\ 0 = l + 0 + 0 + 0 + (- l)
              /\ 0 = 0 + 0 + 0 + l + (- l)
              OBVIOUS
        <2> HIDE DEF l, IInv, LookupDone, LookupFail
        <2>6. QED  BY <2>1, <2>2, <2>3, <2>4, <2>5, <1>2, Balance DEF IInv
  <1>5. CtxOutlivesModules'  BY DEF CtxOutlivesModules, objects
  <1>6. QED  BY <1>2, <1>3, <1>4, <1>5, SameObjects

\* A release while other references remain
LEMMA UnrefKeepStep ==
  ASSUME IInv, NEW n \in Key, UnrefKeep(n) PROVE IInv'
  <1> USE DEF IInv, UnrefKeep
  <1>1. TypeOK'  BY DEF TypeOK
  <1>2. CallInv'
        BY DEF CallInv, NoRefs
  <1>3. \A k \in Key : Parents(k)' = Parents(k)  BY DEF Parents
  <1>4. PoolInv'  BY DEF PoolInv, TypeOK
  <1>5. RefcountExact'
        <2> SUFFICES ASSUME NEW k \in Key PROVE refcount'[k] = Owners(k)'
            BY DEF RefcountExact
        <2> DEFINE u == IF k = n THEN 1 ELSE 0
        <2>1. Cardinality(Parents(k)') - Cardinality(Parents(k)) = 0
              BY <1>3, ParentsFinite
        <2>2. /\ held'[k] - held[k] = 0 /\ leaked'[k] - leaked[k] = 0
              /\ Listed(k)' - Listed(k) = 0
              BY DEF TypeOK, Listed
        <2>3. refcount'[k] - refcount[k] = - u /\ todo'[k] - todo[k] = - u
              BY DEF TypeOK
        <2>4. u \in Int /\ - u = 0 + 0 + (- u) + 0 + 0  OBVIOUS
        <2> HIDE DEF u, IInv, UnrefKeep
        <2>5. QED  BY <2>1, <2>2, <2>3, <2>4, <1>1, Balance DEF IInv
  <1>6. CtxOutlivesModules'  BY DEF CtxOutlivesModules
  <1>7. QED  BY <1>1, <1>2, <1>4, <1>5, <1>6

\* If the unref to be made is the only reference, nobody else has one.
LEMMA LastReference ==
  ASSUME IInv, NEW n \in Key, todo[n] > 0, refcount[n] = 1
  PROVE  /\ Parents(n) = {} /\ todo[n] = 1 /\ n \notin call.list
         /\ n \in pool /\ n \notin dep[n]
  <1> DEFINE r == refcount[n]
             h == held[n]
             t == todo[n]
             x == leaked[n]
             c == Cardinality(Parents(n))
             l == Listed(n)
  <1>1. /\ r \in Nat /\ h \in Nat /\ t \in Nat /\ x \in Nat /\ c \in Nat
        /\ l \in Nat
        BY ParentsFinite DEF IInv, TypeOK, Listed
  <1>2. r = h + c + t + x + l /\ r = 1 /\ t > 0
        BY DEF IInv, RefcountExact, Owners, Listed
  <1>3. Parents(n) # {} => c > 0
        BY <1>1, ParentsFinite, FS_EmptySet DEF IInv
  <1>4. n \in call.list => l = 1  BY DEF Listed
  <1>5. n \in pool  BY OwnedInPool
  <1>6. n \in dep[n] => Parents(n) # {}  BY <1>5 DEF Parents
  <1> HIDE DEF r, h, t, x, c, l
  <1>7. t = 1 /\ c = 0 /\ l = 0  BY <1>1, <1>2
  <1>8. QED  BY <1>3, <1>4, <1>5, <1>6, <1>7 DEF t

\* A release of the last reference: the object's own references become unrefs
\* to be made, and the context loses a reference with the pool.
LEMMA UnrefFreeStep ==
  ASSUME IInv, NEW n \in Key, UnrefFree(n) PROVE IInv'
  <1>0. /\ Parents(n) = {} /\ todo[n] = 1 /\ n \notin call.list
        /\ n \in pool /\ n \notin dep[n]
        BY LastReference DEF UnrefFree
  <1> USE DEF IInv, UnrefFree
  <1> DEFINE rest == [todo EXCEPT ![n] = @ - 1]
  <1>1. rest \in [Key -> Nat] /\ todo' = Plus(rest, dep[n])
        /\ todo' \in [Key -> Nat]
        <2>1. rest \in [Key -> Nat]  BY <1>0 DEF TypeOK
        <2>2. QED  BY <2>1, PlusType
  <1>2. TypeOK'
        <2>1. /\ refcount' \in [Key -> Nat] /\ path' \in [Key -> Paths]
              /\ initdep' \in [Key -> BOOLEAN] /\ dep' \in [Key -> SUBSET Key]
              BY DEF TypeOK, Paths
        <2>2. pool' \in SUBSET Key /\ ctxref' \in Int  BY DEF TypeOK
        <2>3. QED  BY <1>1, <2>1, <2>2 DEF TypeOK
  <1>3. CallInv'  BY DEF CallInv, NoRefs
  <1>4. PoolInv'  BY DEF PoolInv, TypeOK
  <1>r. \A k \in Key : rest[k] = todo[k] - (IF k = n THEN 1 ELSE 0)
        BY DEF TypeOK
  <1> HIDE DEF rest
  <1>5. RefcountExact'
        <2> SUFFICES ASSUME NEW k \in Key PROVE refcount'[k] = Owners(k)'
            BY DEF RefcountExact
        <2> DEFINE u == IF k = n THEN 1 ELSE 0
                   v == IF k \in dep[n] THEN 1 ELSE 0
        <2>1. Cardinality(Parents(k)') - Cardinality(Parents(k)) = - v
              <3>1. Parents(k)' = Parents(k) \ {n}
                    BY <1>0 DEF Parents, TypeOK
              <3>2. CASE k \in dep[n]
                    <4>1. n \in Parents(k)  BY <1>0, <3>2 DEF Parents
                    <4>2. Cardinality(Parents(k)') = Cardinality(Parents(k)) - 1
                          BY <3>1, <4>1, ParentsFinite, FS_RemoveElement
                    <4>3. QED  BY <3>2, <4>2, ParentsFinite
              <3>3. CASE k \notin dep[n]
                    <4>1. Parents(k)' = Parents(k)  BY <3>1, <3>3 DEF Parents
                    <4>2. QED  BY <3>3, <4>1, ParentsFinite
              <3>4. QED  BY <3>2, <3>3
        <2>2. /\ held'[k] - held[k] = 0 /\ leaked'[k] - leaked[k] = 0
              /\ Listed(k)' - Listed(k) = 0
              BY DEF TypeOK, Listed
        <2>3. refcount'[k] - refcount[k] = - u  BY DEF TypeOK
        <2>4. todo'[k] - todo[k] = v - u
              <3>1. todo'[k] - rest[k] = v  BY <1>1, PlusDiff
              <3>2. rest[k] = todo[k] - u  BY <1>r
              <3>3. /\ rest[k] \in Int /\ todo'[k] \in Int /\ todo[k] \in Int
                    /\ v \in Int /\ u \in Int
                    <4>1. todo \in [Key -> Nat]  BY DEF TypeOK
                    <4> HIDE DEF IInv, UnrefFree
                    <4>2. QED  BY <1>1, <4>1
              <3> HIDE DEF u, v, IInv, UnrefFree
              <3>4. QED  BY <3>3, <3>1, <3>2
        <2>5. u \in Int /\ v \in Int /\ - u = 0 + (- v) + (v - u) + 0 + 0
              OBVIOUS
        <2> HIDE DEF u, v, IInv, UnrefFree
        <2>6. QED  BY <2>1, <2>2, <2>3, <2>4, <2>5, <1>2, Balance DEF IInv
  <1>6. CtxOutlivesModules'
        <2>1. Cardinality(pool') = Cardinality(pool) - 1
              BY <1>0, PoolFinite, FS_RemoveElement
        <2>2. QED  BY <2>1, PoolFinite DEF CtxOutlivesModules, TypeOK
  <1>7. QED  BY <1>2, <1>3, <1>4, <1>5, <1>6

----------------------------------------------------------------------------
\* Every step keeps the counts exact.
LEMMA NextInv == ASSUME IInv, [Next]_vars PROVE IInv'
  <1>1. CASE UserCall
        <2>1. CASE CtxRef \/ CtxUnref  BY <2>1, CtxStep
        <2>2. CASE \E k \in Key : NewFromName(k) \/ Ref(k) \/ Unref(k)
                                  \/ LookupModdep(k)
              BY <2>2, NewFromNameStep, RefStep, UnrefStep, LookupModdepStep
        <2>3. CASE \E k \in Key, p \in {"dep", "other"} : NewFromPath(k, p)
              BY <2>3, NewFromPathStep
        <2>4. CASE \/ \E k \in Key : GetDependencies(k) \/ GetPath(k)
                   \/ \E S \in SUBSET (Key \ Plain) : LookupAlias(S)
              BY <2>4, BeginCalls
        <2>5. QED  BY <1>1, <2>1, <2>2, <2>3, <2>4 DEF UserCall
  <1>2. CASE LibraryStep
        <2>1. CASE DeplineCached \/ ParseBegin \/ ParseDone
              BY <2>1, DeplineCachedStep, ParseBeginStep, ParseDoneStep
        <2>2. CASE LookupDone \/ LookupFail  BY <2>2, LookupEndStep
        <2>3. CASE \E d \in Key : ParseStep(d) \/ ParseStepNoMem(d)
                                   \/ ParseFail(d)
              BY <2>3, ParseStepStep, NoMemStep, ParseFailStep
        <2>4. CASE \E k \in Key : LookupStep(k) \/ LookupStepNoMem(k) \/ UnrefKeep(k)
                                   \/ UnrefFree(k)
              BY <2>4, LookupStepStep, NoMemStep, UnrefKeepStep, UnrefFreeStep
        <2>5. QED  BY <1>2, <2>1, <2>2, <2>3, <2>4 DEF LibraryStep
  <1>3. CASE UNCHANGED vars
        <2>1. TypeOK' /\ PoolInv' /\ CallInv' /\ CtxOutlivesModules'
              BY <1>3 DEF vars, IInv, TypeOK, PoolInv, CallInv,
                          CtxOutlivesModules
        <2>2. RefcountExact'
              BY <1>3 DEF vars, IInv, RefcountExact, Owners, Parents
        <2>3. QED  BY <2>1, <2>2 DEF IInv
  <1>4. QED  BY <1>1, <1>2, <1>3 DEF Next

\* The strengthened invariant holds throughout.
THEOREM Invariance == Spec => []IInv
  <1>1. IInv /\ [Next]_vars => IInv'  BY NextInv
  <1>2. QED  BY InitInv, <1>1, PTL DEF Spec

\* The counters, lists and flags of libkmod's objects stay well-formed.
THEOREM TypeCorrect == Spec => []TypeOK
  <1>1. IInv => TypeOK  BY DEF IInv
  <1>2. QED  BY <1>1, Invariance, PTL

\* mod->refcount is the number of references somebody will give back or lost.
THEOREM RefcountsAreExact == Spec => []RefcountExact
  <1>1. IInv => RefcountExact  BY DEF IInv
  <1>2. QED  BY <1>1, Invariance, PTL

\* No reference outlives its object: not the program's, not a dependency
\* list's, not the running call's.
THEOREM NoReferenceDangles == Spec => []NoDangling
  <1>1. ASSUME IInv PROVE NoDangling
        <2> SUFFICES ASSUME NEW k \in Key, Owners(k) > 0 \/ call.mod = k
                     PROVE  k \in pool
            BY DEF NoDangling
        <2>1. CASE Owners(k) > 0
              BY <1>1, <2>1 DEF IInv, RefcountExact, PoolInv
        <2>2. CASE call.mod = k
              <3>1. call.mod # "-"  BY <2>2, KeyFinite
              <3>2. QED  BY <1>1, <2>2, <3>1 DEF IInv, CallInv, TypeOK, Calls
        <2>3. QED  BY <2>1, <2>2
  <1>2. QED  BY <1>1, Invariance, PTL

\* The context has one reference for each of the program's and one for each
\* module that is allocated, so it is freed after the last of them.
THEOREM ContextOutlivesModules == Spec => []CtxOutlivesModules
  <1>1. IInv => CtxOutlivesModules  BY DEF IInv
  <1>2. QED  BY <1>1, Invariance, PTL

----------------------------------------------------------------------------
(* What is cached in modules.                                              *)

\* A new reference changes nothing that is cached.
LEMMA CachedByNew ==
  ASSUME IInv, NEW n \in Key, NEW p \in Paths, NewModule(n) \/ NewFromPathOk(n, p),
         NEW k \in pool
  PROVE  /\ initdep[k] => dep'[k] = dep[k] /\ initdep'[k]
         /\ path[k] # "none" => path'[k] = path[k]
BY DEF IInv, TypeOK, NewModule, NewFromPathOk, Create, RefAll

\* What a call of the program does to the objects, the parsing of lines aside
NewOrSame ==
  \/ UNCHANGED <<pool, path, initdep, dep>>
  \/ \E n \in Key, p \in Paths : NewModule(n) \/ NewFromPathOk(n, p)

\* A call of the program makes at most one new reference of a module.
LEMMA UserObjects == ASSUME UserCall PROVE NewOrSame
<1> DEFINE new == \E n \in Key, p \in Paths : NewModule(n) \/ NewFromPathOk(n, p)
<1>1. CASE CtxRef \/ CtxUnref
  BY <1>1 DEF CtxRef, CtxUnref, objects, NewOrSame
<1>2. CASE \E k \in Key : NewFromName(k)
  <2>1. PICK k \in Key : NewModule(k)
    BY <1>2 DEF NewFromName
  <2>2. "none" \in Paths
    BY DEF Paths
  <2>3. new
    BY <2>1, <2>2
  <2> QED
    BY <2>3 DEF NewOrSame
<1>3. CASE \E k \in Key : Ref(k)
  BY <1>3 DEF Ref, RefAll, NewOrSame
<1>4. CASE \E k \in Key : Unref(k)
  BY <1>4 DEF Unref, objects, NewOrSame
<1>5. CASE \E k \in Key, p \in {"dep", "other"} : NewFromPath(k, p)
  <2>1. PICK k \in Key, p \in {"dep", "other"} : NewFromPathOk(k, p)
    BY <1>5 DEF NewFromPath
  <2>2. p \in Paths
    BY DEF Paths
  <2>3. new
    BY <2>1, <2>2
  <2> QED
    BY <2>3 DEF NewOrSame
<1>6. CASE \E k \in Key : GetDependencies(k)
  BY <1>6 DEF GetDependencies, objects, NewOrSame
<1>7. CASE \E k \in Key : GetPath(k)
  BY <1>7 DEF GetPath, objects, NewOrSame
<1>8. CASE \E k \in Key : LookupModdep(k)
  <2>1. PICK k \in Key : NewModule(k)
    BY <1>8 DEF LookupModdep
  <2>2. "none" \in Paths
    BY DEF Paths
  <2>3. new
    BY <2>1, <2>2
  <2> QED
    BY <2>3 DEF NewOrSame
<1>9. CASE \E S \in SUBSET (Key \ Plain) : LookupAlias(S)
  BY <1>9 DEF LookupAlias, objects, NewOrSame
<1> QED
  BY <1>1, <1>2, <1>3, <1>4, <1>5, <1>6, <1>7, <1>8, <1>9 DEF UserCall

\* A step of a loop that builds a list makes one new reference.
LEMMA ListObjects ==
  ASSUME NEW d \in Key, ParseStep(d) \/ ParseStepNoMem(d) \/ LookupStep(d) \/ LookupStepNoMem(d)
  PROVE  \E n \in Key, p \in Paths : NewModule(n) \/ NewFromPathOk(n, p)
<1>1. NewModule(d) \/ NewFromPathOk(d, "dep")
  BY DEF ParseStep, ParseStepNoMem, LookupStep, LookupStepNoMem
<1>2. "dep" \in Paths
  BY DEF Paths
<1> QED
  BY <1>1, <1>2

\* No step changes what is cached in a module that stays allocated.
LEMMA CachedStep ==
  ASSUME IInv, [Next]_vars, NEW k \in pool, k \in pool'
  PROVE  /\ initdep[k] /\ call.mod # k => dep'[k] = dep[k] /\ initdep'[k]
         /\ path[k] # "none" => path'[k] = path[k]
<1>t. k \in Key /\ path \in [Key -> Paths] /\ initdep \in [Key -> BOOLEAN] /\ dep \in [Key -> SUBSET Key]
  BY DEF IInv, TypeOK
<1>1. CASE \E n \in Key, p \in Paths : NewModule(n) \/ NewFromPathOk(n, p)
  BY <1>1, CachedByNew
<1>2. CASE UserCall
  <2>1. CASE UNCHANGED <<pool, path, initdep, dep>>
    BY <2>1
  <2> QED
    BY <1>1, <1>2, <2>1, UserObjects DEF NewOrSame
<1>3. CASE LibraryStep
  <2>1. CASE DeplineCached
    BY <2>1 DEF DeplineCached, RefAll
  <2>2. CASE ParseBegin \/ ParseDone
    BY <1>t, <2>2 DEF ParseBegin, ParseDone
  <2>3. CASE LookupDone \/ LookupFail
    BY <2>3 DEF LookupDone, LookupFail, objects
  <2>4. CASE \/ \E d \in Key : ParseStep(d) \/ ParseStepNoMem(d)
             \/ \E n \in Key : LookupStep(n) \/ LookupStepNoMem(n)
    BY <1>1, <2>4, ListObjects
  <2>5. CASE \E d \in Key : ParseFail(d)
    BY <1>t, <2>5 DEF ParseFail
  <2>6. CASE \E n \in Key : UnrefKeep(n)
    BY <2>6 DEF UnrefKeep
  <2>7. CASE \E n \in Key : UnrefFree(n)
    BY <1>t, <2>7 DEF UnrefFree
  <2>8. QED
    BY <1>3, <2>1, <2>2, <2>3, <2>4, <2>5, <2>6, <2>7 DEF LibraryStep
<1>4. CASE UNCHANGED vars
  BY <1>4 DEF vars
<1> QED
  BY <1>2, <1>3, <1>4 DEF Next

\* What a program reads from a module that it holds, its parsed dependencies and its
\* path, stays as it is until the module is released, whatever else is called.
THEOREM CachedStays == Spec => CachedUntilFreed
<1>1. IInv /\ [Next]_vars =>
        [\A k \in pool \cap pool' :
           /\ initdep[k] /\ call.mod # k => dep'[k] = dep[k] /\ initdep'[k]
           /\ path[k] # "none" => path'[k] = path[k]]_vars
  BY CachedStep
<1> QED
  BY <1>1, Invariance, PTL DEF Spec, CachedUntilFreed

----------------------------------------------------------------------------
(* Garbage.                                                                *)

\* A cached list is a part of the line in modules.dep.
LineInv ==
  /\ \A k \in Key : dep[k] \subseteq DepLine[ModOf[k]]
  /\ call.op = "parse" => call.rest \cup call.list \subseteq DepLine[ModOf[call.mod]]

\* Lists are made of the lines.
LEMMA LineStep == ASSUME IInv, LineInv, [Next]_vars PROVE LineInv'
<1>t. /\ path \in [Key -> Paths] /\ initdep \in [Key -> BOOLEAN] /\ dep \in [Key -> SUBSET Key]
      /\ call \in Calls
  BY DEF IInv, TypeOK
<1>1. ASSUME NEW n \in Key, NEW p \in Paths, NewModule(n) \/ NewFromPathOk(n, p)
      PROVE  \A k \in Key : dep'[k] \subseteq DepLine[ModOf[k]]
  BY <1>t, <1>1 DEF LineInv, NewModule, NewFromPathOk, Create, RefAll
<1>2. CASE UserCall
  <2>1. call' = call \/ call'.op # "parse"
    <3>1. CASE CtxRef \/ CtxUnref
      BY <3>1 DEF CtxRef, CtxUnref
    <3>2. CASE \E k \in Key : NewFromName(k) \/ Ref(k) \/ Unref(k)
      BY <3>2 DEF NewFromName, Ref, Unref
    <3>3. CASE \E k \in Key, p \in {"dep", "other"} : NewFromPath(k, p)
      BY <3>3 DEF NewFromPath
    <3>4. CASE \E k \in Key : GetDependencies(k)
      BY <3>4 DEF GetDependencies, NoCall
    <3>5. CASE \E k \in Key : GetPath(k)
      BY <3>5 DEF GetPath, NoCall
    <3>6. CASE \E k \in Key : LookupModdep(k)
      BY <3>6 DEF LookupModdep, NoCall
    <3>7. CASE \E S \in SUBSET (Key \ Plain) : LookupAlias(S)
      BY <3>7 DEF LookupAlias, NoCall
    <3> QED
      BY <1>2, <3>1, <3>2, <3>3, <3>4, <3>5, <3>6, <3>7 DEF UserCall
  <2>2. \A k \in Key : dep'[k] \subseteq DepLine[ModOf[k]]
    <3>1. CASE UNCHANGED <<pool, path, initdep, dep>>
      BY <3>1 DEF LineInv
    <3> QED
      BY <1>1, <1>2, <3>1, UserObjects DEF NewOrSame
  <2> QED
    BY <2>1, <2>2 DEF LineInv
<1>3. CASE DeplineCached \/ ParseBegin
  <2>1. CASE DeplineCached
    BY <2>1 DEF LineInv, DeplineCached, RefAll, Return, NoCall
  <2>2. CASE ParseBegin
    <3>1. /\ call'.mod = call.mod /\ call'.rest = DepLine[ModOf[call.mod]]
          /\ call'.list = call.list /\ dep' = dep /\ call.op = "depline"
      BY <1>t, <2>2 DEF ParseBegin, Calls
    <3>2. call.list = {}
      BY <3>1 DEF IInv, CallInv
    <3> QED
      BY <3>1, <3>2 DEF LineInv
  <2> QED
    BY <1>3, <2>1, <2>2
<1>4. CASE ParseDone
  <2>1. call.mod \in Key
    BY <1>4 DEF IInv, TypeOK, CallInv, ParseDone
  <2>2. QED
    BY <1>t, <1>4, <2>1 DEF LineInv, ParseDone, Return, NoCall
<1>5. CASE LookupDone \/ LookupFail \/ \E d \in Key : ParseFail(d)
  BY <1>5 DEF LineInv, LookupDone, LookupFail, ParseFail, NoCall, objects
<1>6. CASE \E d \in Key : ParseStep(d) \/ ParseStepNoMem(d)
  <2>1. PICK d \in Key : ParseStep(d) \/ ParseStepNoMem(d)
    BY <1>6
  <2>2. \A k \in Key : dep'[k] \subseteq DepLine[ModOf[k]]
    BY <1>1, <2>1, ListObjects
  <2>3. /\ call.op = "parse" /\ d \in call.rest /\ call'.mod = call.mod
        /\ call'.rest \subseteq call.rest /\ call'.list \subseteq call.list \cup {d}
    BY <1>t, <2>1 DEF ParseStep, ParseStepNoMem, Calls
  <2>4. QED
    BY <2>2, <2>3 DEF LineInv
<1>7. CASE \E k \in Key : LookupStep(k) \/ LookupStepNoMem(k)
  <2>1. PICK n \in Key : LookupStep(n) \/ LookupStepNoMem(n)
    BY <1>7
  <2>2. \A k \in Key : dep'[k] \subseteq DepLine[ModOf[k]]
    BY <1>1, <2>1, ListObjects
  <2>3. call'.op # "parse"
    BY <1>t, <2>1 DEF LookupStep, LookupStepNoMem, Calls
  <2>4. QED
    BY <2>2, <2>3 DEF LineInv
<1>8. CASE \E k \in Key : UnrefKeep(k) \/ UnrefFree(k)
  BY <1>t, <1>8 DEF LineInv, UnrefKeep, UnrefFree
<1>9. CASE UNCHANGED vars
  BY <1>9 DEF LineInv, vars
<1> QED
  BY <1>2, <1>3, <1>4, <1>5, <1>6, <1>7, <1>8, <1>9 DEF Next, LibraryStep

\* modules.dep has no cycle: of any modules, one is in no line of the others.
Acyclic ==
  \A B \in SUBSET Key : B # {} => \E k \in B : \A j \in B : k \notin DepLine[ModOf[j]]

\* Of the objects that are allocated between two calls, those that nothing keeps would
\* each be in the list of another one, which is a cycle.
LEMMA NothingLeft ==
  ASSUME IInv, LineInv, Acyclic, Idle
  PROVE  pool = Reach({k \in Key : held[k] > 0 \/ leaked[k] > 0})
<1> DEFINE roots == {k \in Key : held[k] > 0 \/ leaked[k] > 0}
<1>t. pool \subseteq Key /\ held \in [Key -> Nat] /\ leaked \in [Key -> Nat] /\ todo \in [Key -> Nat]
  BY DEF IInv, TypeOK
<1>i. call.list = {} /\ \A k \in Key : todo[k] = 0
  BY DEF IInv, CallInv, Idle, NoRefs
<1>o. \A k \in Key : Owners(k) = held[k] + Cardinality(Parents(k)) + leaked[k]
  <2> SUFFICES ASSUME NEW k \in Key PROVE Owners(k) = held[k] + Cardinality(Parents(k)) + leaked[k]
    OBVIOUS
  <2>1. Cardinality(Parents(k)) \in Nat
    BY ParentsFinite DEF IInv
  <2> QED
    BY <1>t, <1>i, <2>1 DEF Owners
<1>p. \A k \in Key : Cardinality(Parents(k)) \in Nat /\ IsFiniteSet(Parents(k))
  BY ParentsFinite DEF IInv
<1>1. roots \subseteq pool
  <2> SUFFICES ASSUME NEW k \in Key, held[k] > 0 \/ leaked[k] > 0 PROVE k \in pool
    OBVIOUS
  <2>1. refcount[k] > 0
    <3>1. refcount[k] = held[k] + Cardinality(Parents(k)) + leaked[k]
      BY <1>o DEF IInv, RefcountExact
    <3> QED
      BY <1>t, <1>p, <3>1
  <2> QED
    BY <2>1 DEF IInv, PoolInv
<1>2. Closed(pool)
  <2> SUFFICES ASSUME NEW j \in pool, NEW k \in dep[j] PROVE k \in pool
    BY DEF Closed
  <2>1. k \in Key /\ j \in Parents(k)
    BY <1>t DEF IInv, TypeOK, Parents
  <2>2. Cardinality(Parents(k)) # 0
    BY <1>p, <2>1, FS_EmptySet
  <2>3. refcount[k] = held[k] + Cardinality(Parents(k)) + leaked[k]
    BY <1>o, <2>1 DEF IInv, RefcountExact
  <2>4. refcount[k] > 0
    BY <1>t, <1>p, <2>1, <2>2, <2>3
  <2> QED
    BY <2>1, <2>4 DEF IInv, PoolInv
<1>3. Reach(roots) \subseteq pool
  BY <1>t, <1>1, <1>2 DEF Reach
<1>4. ASSUME NEW C \in SUBSET Key, roots \subseteq C, Closed(C) PROVE pool \subseteq C
  <2> DEFINE B == pool \ C
  <2> SUFFICES ASSUME B # {} PROVE FALSE
    OBVIOUS
  <2>1. PICK k \in B : \A j \in B : k \notin DepLine[ModOf[j]]
    BY <1>t DEF Acyclic
  <2>2. k \in Key /\ held[k] = 0 /\ leaked[k] = 0
    BY <1>t, <1>4
  <2>3. refcount[k] > 0 /\ refcount[k] = held[k] + Cardinality(Parents(k)) + leaked[k]
    BY <1>o, <2>2 DEF IInv, RefcountExact, PoolInv
  <2>4. Parents(k) # {}
    BY <1>p, <2>2, <2>3, FS_EmptySet
  <2>5. PICK j \in pool : k \in dep[j]
    BY <2>4 DEF Parents
  <2>6. j \notin C
    BY <1>4, <2>5 DEF Closed
  <2>7. k \in DepLine[ModOf[j]]
    BY <1>t, <2>5 DEF LineInv
  <2> QED
    BY <2>1, <2>5, <2>6, <2>7
<1>5. pool \subseteq Reach(roots)
  BY <1>t, <1>4 DEF Reach
<1> QED
  BY <1>3, <1>5

\* Unless modules.dep has a cycle, nothing stays allocated between two calls that the
\* program does not reach: the cascade of releases misses no module, whatever calls
\* failed half way before it.
THEOREM NothingIsLeft ==
  ASSUME Acyclic
  PROVE  Spec => []NoGarbage
<1>1. Init => LineInv
  BY DEF Init, LineInv, NoCall
<1>2. IInv /\ LineInv /\ [Next]_vars => LineInv'
  BY LineStep
<1>3. IInv /\ LineInv => NoGarbage
  BY NothingLeft DEF NoGarbage
<1> QED
  BY <1>1, <1>2, <1>3, Invariance, PTL DEF Spec

----------------------------------------------------------------------------
(***************************************************************************)
(* The hash table.  For any number of buckets, keys and values: bisection  *)
(* of a bucket finds what is in it, the entry behind the used ones is a    *)
(* part of the bucket, values are neither leaked nor freed while they are  *)
(* used, an iteration returns each value once, and the table implements    *)
(* the map KmodMap.                                                        *)
(***************************************************************************)


Entry == [key : HashKey, value : Value]
Total == [entries : Seq(Entry), total : Nat]

\* The order of a bucket
Sorted(es) == \A i, j \in 1..Len(es) : i < j => es[i].key < es[j].key

----------------------------------------------------------------------------
(* Bisection.                                                              *)

Bisect(fun, es, k) ==
  [r \in (0..Len(es)) \X (0..Len(es)) |->
     LET m == (r[1] + r[2]) \div 2
     IN  IF r[1] >= r[2] THEN 0
         ELSE IF es[m+1].key = k THEN m + 1
         ELSE fun[IF k < es[m+1].key THEN <<r[1], m>> ELSE <<m + 1, r[2]>>]]

\* Entries have keys, which are numbers.
LEMMA Keys ==
  ASSUME NEW es \in Seq(Entry)
  PROVE  /\ Len(es) \in Nat
         /\ \A i \in 1..Len(es) : es[i] \in Entry /\ es[i].key \in HashKey /\ es[i].key \in Nat
<1>1. \A i \in 1..Len(es) : es[i] \in Entry
  OBVIOUS
<1>2. \A e \in Entry : e.key \in HashKey /\ e.key \in Nat
  BY KeyType DEF Entry
<1> QED BY <1>1, <1>2

\* What is before and behind an entry of a sorted bucket has other keys.
LEMMA Sides ==
  ASSUME NEW es \in Seq(Entry), NEW k \in HashKey, Sorted(es), NEW i \in 1..Len(es)
  PROVE  /\ k < es[i].key => \A j \in 1..Len(es) : j >= i => es[j].key # k
         /\ es[i].key < k => \A j \in 1..Len(es) : j <= i => es[j].key # k
<1>1. Len(es) \in Nat /\ k \in Nat /\ \A j \in 1..Len(es) : es[j].key \in Nat
  BY KeyType, Keys
<1>2. ASSUME NEW j \in 1..Len(es) PROVE j > i => es[i].key < es[j].key
  BY DEF Sorted
<1>3. ASSUME NEW j \in 1..Len(es) PROVE j < i => es[j].key < es[i].key
  BY DEF Sorted
<1>4. ASSUME NEW j \in 1..Len(es) PROVE j \in Nat /\ i \in Nat /\ es[j].key \in Nat /\ es[i].key \in Nat
  BY <1>1
<1> QED BY <1>1, <1>2, <1>3, <1>4

\* The middle of an interval is in it, and both halves are shorter.
LEMMA Middle ==
  ASSUME NEW l \in Nat, NEW u \in Nat, l < u
  PROVE  LET m == (l + u) \div 2 IN m \in Nat /\ l <= m /\ m < u
OBVIOUS

\* One step of the recursion
LEMMA BisectStep ==
  ASSUME NEW es \in Seq(Entry), NEW k \in HashKey, NEW fun,
         NEW l \in 0..Len(es), NEW u \in 0..Len(es)
  PROVE  LET m == (l + u) \div 2
             g == Bisect(fun, es, k)
         IN  /\ l >= u => g[<<l, u>>] = 0
             /\ l < u => /\ m \in Nat /\ l <= m /\ m < u /\ m + 1 \in 1..Len(es)
                         /\ es[m+1].key = k => g[<<l, u>>] = m + 1
                         /\ k < es[m+1].key => g[<<l, u>>] = fun[<<l, m>>]
                         /\ es[m+1].key < k => g[<<l, u>>] = fun[<<m + 1, u>>]
<1> DEFINE m == (l + u) \div 2
           g == Bisect(fun, es, k)
<1>1. Len(es) \in Nat /\ l \in Nat /\ u \in Nat /\ k \in Nat
  BY KeyType
<1>2. <<l, u>> \in (0..Len(es)) \X (0..Len(es)) /\ <<l, u>>[1] = l /\ <<l, u>>[2] = u
  OBVIOUS
<1>3. g[<<l, u>>] = IF l >= u THEN 0
                  ELSE IF es[m+1].key = k THEN m + 1
                  ELSE fun[IF k < es[m+1].key THEN <<l, m>> ELSE <<m + 1, u>>]
  BY <1>2 DEF Bisect
<1>4. l < u => m \in Nat /\ l <= m /\ m < u /\ m + 1 \in 1..Len(es)
  BY <1>1, Middle
<1> HIDE DEF m, g
<1>5. l < u => es[m+1].key \in Nat
  BY <1>4, Keys
<1>6. l >= u => g[<<l, u>>] = 0
  BY <1>1, <1>3
<1>7. l < u /\ es[m+1].key = k => g[<<l, u>>] = m + 1
  BY <1>1, <1>3
<1>8. l < u /\ k < es[m+1].key => g[<<l, u>>] = fun[<<l, m>>]
  BY <1>1, <1>3, <1>5
<1>9. l < u /\ es[m+1].key < k => g[<<l, u>>] = fun[<<m + 1, u>>]
  BY <1>1, <1>3, <1>5
<1> QED BY <1>4, <1>6, <1>7, <1>8, <1>9 DEF m, g

\* Some function satisfies the recursion of bsearch: what it returns can be told
\* without recursion when the entries are sorted.
LEMMA BisectExists ==
  ASSUME NEW es \in Seq(Entry), NEW k \in HashKey, Sorted(es)
  PROVE  \E fun : fun = Bisect(fun, es, k)
<1> DEFINE n == Len(es)
           D == (0..n) \X (0..n)
           In(j, l, u) == l < j /\ j <= u /\ es[j].key = k
           fun == [r \in D |-> IF \E j \in 1..n : In(j, r[1], r[2])
                             THEN CHOOSE j \in 1..n : es[j].key = k ELSE 0]
<1>1. n \in Nat /\ k \in Nat /\ \A i \in 1..n : es[i].key \in Nat
  BY KeyType, Keys
<1>2. \A i, j \in 1..n : es[i].key = k /\ es[j].key = k => i = j
  BY <1>1 DEF Sorted
<1>3. \A j \in 1..n : es[j].key = k => (CHOOSE i \in 1..n : es[i].key = k) = j
  BY <1>2
<1>4. ASSUME NEW l \in 0..n, NEW u \in 0..n
      PROVE  /\ \A j \in 1..n : In(j, l, u) => fun[<<l, u>>] = j
             /\ (\A j \in 1..n : ~In(j, l, u)) => fun[<<l, u>>] = 0
  <2>1. <<l, u>> \in D /\ <<l, u>>[1] = l /\ <<l, u>>[2] = u
    OBVIOUS
  <2>2. fun[<<l, u>>] = IF \E j \in 1..n : In(j, l, u)
                      THEN CHOOSE j \in 1..n : es[j].key = k ELSE 0
    BY <2>1
  <2> HIDE DEF fun
  <2> QED BY <1>3, <2>2
<1> HIDE DEF fun
<1>5. ASSUME NEW l \in 0..n, NEW u \in 0..n
      PROVE  fun[<<l, u>>] = Bisect(fun, es, k)[<<l, u>>]
  <2> DEFINE m == (l + u) \div 2
             v == Bisect(fun, es, k)[<<l, u>>]
  <2>1. l \in Nat /\ u \in Nat
    BY <1>1
  <2>2. l >= u => v = 0
    BY BisectStep
  <2>3. l < u => /\ m \in Nat /\ l <= m /\ m < u /\ m + 1 \in 1..n
                 /\ es[m+1].key = k => v = m + 1
                 /\ k < es[m+1].key => v = fun[<<l, m>>]
                 /\ es[m+1].key < k => v = fun[<<m + 1, u>>]
    BY BisectStep
  <2> SUFFICES fun[<<l, u>>] = v
    OBVIOUS
  <2> HIDE DEF m, v
  <2>4. CASE l >= u
    <3>1. \A j \in 1..n : ~In(j, l, u)
      BY <1>1, <2>1, <2>4
    <3> HIDE DEF In
    <3> QED BY <1>4, <2>2, <2>4, <3>1
  <2>5. CASE l < u
    <3>1. m \in 0..n /\ m + 1 \in 0..n /\ es[m+1].key \in Nat
      BY <1>1, <2>1, <2>3, <2>5
    <3>2. CASE es[m+1].key = k
      <4>1. In(m + 1, l, u)
        BY <2>1, <2>3, <2>5, <3>2
      <4> HIDE DEF In
      <4> QED BY <1>4, <2>3, <2>5, <3>2, <4>1
    <3>3. CASE k < es[m+1].key
      <4>1. \A j \in 1..n : j > m => es[j].key # k
        BY <1>1, <2>3, <2>5, <3>3, Sides
      <4>2. \A j \in 1..n : In(j, l, u) <=> In(j, l, m)
        BY <1>1, <2>1, <2>3, <2>5, <3>1, <4>1
      <4> HIDE DEF In
      <4>3. fun[<<l, u>>] = fun[<<l, m>>]
        BY <1>4, <3>1, <4>2
      <4> QED BY <2>3, <2>5, <3>3, <4>3
    <3>4. CASE es[m+1].key < k
      <4>1. \A j \in 1..n : j <= m + 1 => es[j].key # k
        BY <1>1, <2>3, <2>5, <3>4, Sides
      <4>2. \A j \in 1..n : In(j, l, u) <=> In(j, m + 1, u)
        BY <1>1, <2>1, <2>3, <2>5, <3>1, <4>1
      <4> HIDE DEF In
      <4>3. fun[<<l, u>>] = fun[<<m + 1, u>>]
        BY <1>4, <3>1, <4>2
      <4> QED BY <2>3, <2>5, <3>4, <4>3
    <3> QED BY <1>1, <3>1, <3>2, <3>3, <3>4
  <2> QED BY <2>1, <2>4, <2>5
<1>6. \A r \in D : fun[r] = Bisect(fun, es, k)[r]
  <2> SUFFICES ASSUME NEW r \in D PROVE fun[r] = Bisect(fun, es, k)[r]
    OBVIOUS
  <2>1. r = <<r[1], r[2]>> /\ r[1] \in 0..n /\ r[2] \in 0..n
    OBVIOUS
  <2> QED BY <1>5, <2>1, Zenon
<1>7. fun = [r \in D |-> fun[r]]
  BY DEF fun
<1>8. Bisect(fun, es, k) = [r \in D |-> Bisect(fun, es, k)[r]]
  BY DEF Bisect
<1> HIDE DEF D
<1>9. [r \in D |-> fun[r]] = [r \in D |-> Bisect(fun, es, k)[r]]
  BY <1>6
<1> QED BY <1>7, <1>8, <1>9, Zenon

\* Bisection of a sorted bucket returns the entry with the key, and 0 if there is none.
LEMMA BSearchFinds ==
  ASSUME NEW es \in Seq(Entry), NEW k \in HashKey, Sorted(es)
  PROVE  /\ BSearch(es, k) # 0 => BSearch(es, k) \in 1..Len(es) /\ es[BSearch(es, k)].key = k
         /\ BSearch(es, k) = 0 => \A j \in 1..Len(es) : es[j].key # k
<1> DEFINE n == Len(es)
           fun == CHOOSE g : g = Bisect(g, es, k)
<1>1. fun = Bisect(fun, es, k)
  BY BisectExists
<1>2. BSearch(es, k) = fun[<<0, n>>]
  BY DEF BSearch, Bisect
<1> HIDE DEF fun
<1>3. n \in Nat /\ k \in Nat /\ \A i \in 1..n : es[i].key \in Nat
  BY KeyType, Keys
<1> DEFINE Answer(i, l, u) ==
             /\ i # 0 => i \in 1..n /\ es[i].key = k
             /\ i = 0 => \A j \in 1..n : l < j /\ j <= u => es[j].key # k
           Right(l, u) == Answer(fun[<<l, u>>], l, u)
           T == {d \in Nat : \E l, u \in 0..n : l <= u /\ d = u - l /\ ~Right(l, u)}
           R == OpToRel(<, Nat)
<1>4. \A x, y \in Nat : x < y => <<x, y>> \in R
  BY DEF OpToRel
<1>5. IsWellFoundedOn(R, Nat)
  BY NatLessThanWellFounded, Zenon
<1>6. ASSUME T # {} PROVE FALSE
  <2>1. T \subseteq Nat
    OBVIOUS
  <2> HIDE DEF T, R
  <2>2. PICK d \in T : \A e \in T : ~ (<<e, d>> \in R)
    BY <1>5, <1>6, <2>1, WFMin, ZenonT(30)
  <2>3. ASSUME NEW e \in T PROVE e >= d
    <3>1. e \in Nat /\ d \in Nat /\ (e < d => <<e, d>> \in R)
      BY <1>4, <2>1
    <3> QED BY <2>2, <3>1
  <2>4. d \in Nat
    BY <2>1
  <2>5. PICK l \in 0..n, u \in 0..n : l <= u /\ d = u - l /\ ~Right(l, u)
    BY DEF T
  <2>6. \A a, b \in 0..n : a <= b /\ b - a < d => Right(a, b)
    <3> SUFFICES ASSUME NEW a \in 0..n, NEW b \in 0..n, a <= b, b - a < d, ~Right(a, b) PROVE FALSE
      OBVIOUS
    <3>1. b - a \in Nat
      BY <1>3
    <3>2. b - a \in T
      BY <3>1 DEF T
    <3> QED BY <2>3, <2>4, <3>1, <3>2
  <2> DEFINE m == (l + u) \div 2
             v == Bisect(fun, es, k)[<<l, u>>]
  <2>12. fun[<<l, u>>] = v
    BY <1>1, Zenon
  <2>7. l >= u => v = 0
    BY BisectStep
  <2>8. l < u => /\ m \in Nat /\ l <= m /\ m < u /\ m + 1 \in 1..n
                 /\ es[m+1].key = k => v = m + 1
                 /\ k < es[m+1].key => v = fun[<<l, m>>]
                 /\ es[m+1].key < k => v = fun[<<m + 1, u>>]
    BY BisectStep
  <2> HIDE DEF m, v
  <2>9. l \in Nat /\ u \in Nat
    BY <1>3
  <2>10. CASE l >= u
    BY <2>5, <2>7, <2>9, <2>10, <2>12
  <2>11. CASE l < u
    <3>1. m \in 0..n /\ m + 1 \in 0..n /\ es[m+1].key \in Nat
      BY <1>3, <2>8, <2>9, <2>11
    <3>2. CASE es[m+1].key = k
      BY <1>3, <2>5, <2>8, <2>9, <2>11, <2>12, <3>2
    <3>3. CASE k < es[m+1].key
      <4>1. \A j \in 1..n : j >= m + 1 => es[j].key # k
        BY <2>8, <2>11, <3>3, Sides
      <4>2. Right(l, m)
        BY <2>5, <2>6, <2>8, <2>9, <2>11, <3>1
      <4>3. Answer(v, l, m)
        BY <2>8, <2>11, <3>3, <4>2
      <4>4. Answer(v, l, u)
        BY <1>3, <2>8, <2>9, <2>11, <4>1, <4>3
      <4> QED BY <2>5, <2>12, <4>4
    <3>4. CASE es[m+1].key < k
      <4>1. \A j \in 1..n : j <= m + 1 => es[j].key # k
        BY <2>8, <2>11, <3>4, Sides
      <4>2. Right(m + 1, u)
        <5>1. m + 1 <= u /\ u - (m + 1) < d
          BY <2>5, <2>8, <2>9, <2>11
        <5> QED BY <2>6, <3>1, <5>1
      <4>3. Answer(v, m + 1, u)
        BY <2>8, <2>11, <3>4, <4>2
      <4>4. Answer(v, l, u)
        BY <1>3, <2>8, <2>9, <2>11, <4>1, <4>3
      <4> QED BY <2>5, <2>12, <4>4
    <3> QED BY <1>3, <3>1, <3>2, <3>3, <3>4
  <2> QED BY <2>9, <2>10, <2>11
<1>7. Right(0, n)
  <2>1. n - 0 \in Nat /\ 0 \in 0..n /\ n \in 0..n /\ 0 <= n
    BY <1>3
  <2> HIDE DEF Right
  <2> QED BY <1>6, <2>1
<1> QED BY <1>2, <1>3, <1>7

----------------------------------------------------------------------------
(* The scan, and the entries of a bucket after a call.                     *)

\* The least of some numbers
LEMMA Least ==
  ASSUME NEW I, I \subseteq Nat, I # {}
  PROVE  Min(I) \in I /\ \A j \in I : Min(I) <= j
<1> DEFINE R == OpToRel(<, Nat)
<1>1. \A x, y \in Nat : x < y => <<x, y>> \in R
  BY DEF OpToRel
<1>2. IsWellFoundedOn(R, Nat)
  BY NatLessThanWellFounded, Zenon
<1> HIDE DEF R
<1>3. PICK i \in I : \A j \in I : ~ (<<j, i>> \in R)
  BY <1>2, WFMin, ZenonT(30)
<1>4. ASSUME NEW j \in I PROVE i <= j
  <2>1. i \in Nat /\ j \in Nat /\ (j < i => <<j, i>> \in R)
    BY <1>1
  <2> QED BY <1>3, <2>1
<1> QED BY <1>4 DEF Min

\* The scan stops at the first entry whose key is not smaller.
LEMMA ScanStops ==
  ASSUME NEW es \in Seq(Entry), NEW k \in HashKey
  PROVE  LET i == Scan(es, k) IN
         /\ i = 0 => \A j \in 1..Len(es) : es[j].key < k
         /\ i # 0 => /\ i \in 1..Len(es) /\ k <= es[i].key
                     /\ \A j \in 1..i-1 : es[j].key < k
<1> DEFINE I == {j \in 1..Len(es) : k <= es[j].key}
<1>1. Scan(es, k) = IF I # {} THEN Min(I) ELSE 0
  BY DEF Scan, SelectInSeq
<1>2. Len(es) \in Nat /\ k \in Nat /\ \A j \in 1..Len(es) : es[j].key \in Nat
  BY KeyType, Keys
<1>3. CASE I = {}
  <2>1. \A j \in 1..Len(es) : es[j].key < k
    BY <1>2, <1>3
  <2> QED BY <1>1, <1>3, <2>1
<1>4. CASE I # {}
  <2> DEFINE i == Min(I)
  <2>1. i \in I /\ \A j \in I : i <= j
    <3>1. I \subseteq Nat
      BY <1>2
    <3> HIDE DEF I
    <3> QED BY <1>4, <3>1, Least
  <2> HIDE DEF i
  <2>2. i \in 1..Len(es) /\ k <= es[i].key /\ i # 0
    BY <2>1
  <2>3. ASSUME NEW j \in 1..i-1 PROVE es[j].key < k
    <3>1. j \in 1..Len(es) /\ j \in Nat /\ i \in Nat /\ j < i
      BY <1>2, <2>2
    <3> QED BY <1>2, <2>1, <3>1
  <2> USE DEF i
  <2> QED BY <1>1, <1>4, <2>2, <2>3
<1> QED BY <1>3, <1>4

\* The scan finds a key when an entry has it, and then stops there.
LEMMA FoundThere ==
  ASSUME NEW es \in Seq(Entry), NEW k \in HashKey, Sorted(es)
  PROVE  /\ Found(es, k) <=> \E j \in 1..Len(es) : es[j].key = k
         /\ Found(es, k) => Scan(es, k) \in 1..Len(es) /\ es[Scan(es, k)].key = k
<1> DEFINE i == Scan(es, k)
<1>1. /\ i = 0 => \A j \in 1..Len(es) : es[j].key < k
      /\ i # 0 => /\ i \in 1..Len(es) /\ k <= es[i].key
                  /\ \A j \in 1..i-1 : es[j].key < k
  BY ScanStops
<1>2. Len(es) \in Nat /\ k \in Nat /\ \A j \in 1..Len(es) : es[j].key \in Nat
  BY KeyType, Keys
<1> HIDE DEF i
<1>3. ASSUME NEW j \in 1..Len(es), es[j].key = k PROVE i # 0 /\ es[i].key = k
  <2>1. i # 0
    BY <1>1, <1>2, <1>3
  <2>2. i \in 1..Len(es) /\ j >= i /\ i \in Nat /\ j \in Nat
    <3>1. i \in 1..Len(es) /\ i \in Nat /\ j \in Nat
      BY <1>1, <1>2, <2>1
    <3>2. j < i => j \in 1..i-1
      BY <3>1
    <3>3. j < i => es[j].key < k
      BY <1>1, <2>1, <3>2
    <3> QED BY <1>2, <1>3, <3>1, <3>3
  <2>3. i < j => es[i].key < es[j].key
    BY <2>2 DEF Sorted
  <2> QED BY <1>1, <1>2, <1>3, <2>1, <2>2, <2>3
<1> QED BY <1>1, <1>3 DEF Found, i

\* An entry that is inserted where the scan for its key stops is in its place.
LEMMA InsertPlace ==
  ASSUME NEW es \in Seq(Entry), NEW k \in HashKey, NEW v \in Value, Sorted(es), ~Found(es, k)
  PROVE  LET i == Scan(es, k)
             e == [key |-> k, value |-> v]
             new == IF i = 0 THEN Append(es, e) ELSE InsertAt(es, i, e)
         IN  /\ new \in Seq(Entry) /\ Len(new) = Len(es) + 1 /\ Sorted(new)
             /\ ToSet(new) = ToSet(es) \cup {e}
<1> DEFINE i == Scan(es, k)
           e == [key |-> k, value |-> v]
           new == IF i = 0 THEN Append(es, e) ELSE InsertAt(es, i, e)
           n == Len(es)
           pos == IF i = 0 THEN n + 1 ELSE i
<1>1. n \in Nat /\ k \in Nat /\ \A j \in 1..n : es[j].key \in Nat /\ es[j] \in Entry
  BY KeyType, Keys
<1>2. e \in Entry /\ e.key = k
  BY DEF Entry
<1>3. /\ i = 0 => \A j \in 1..n : es[j].key < k
      /\ i # 0 => /\ i \in 1..n /\ k <= es[i].key
                  /\ \A j \in 1..i-1 : es[j].key < k
  BY ScanStops
<1>4. \A j \in 1..n : es[j].key # k
  BY FoundThere
<1> HIDE DEF i, e
<1>5. pos \in 1..n+1
  BY <1>1, <1>3
<1>6. \A j \in 1..n : j < pos => es[j].key < k
  BY <1>1, <1>3
<1>7. ASSUME NEW j \in 1..n, j >= pos PROVE k < es[j].key
  <2>1. i # 0 /\ i \in 1..n /\ k <= es[i].key /\ j >= i
    BY <1>1, <1>3, <1>7
  <2>2. k < es[i].key
    BY <1>1, <1>4, <2>1
  <2>3. i < j => es[i].key < es[j].key
    BY <2>1 DEF Sorted
  <2> QED BY <1>1, <2>1, <2>2, <2>3
<1>8. /\ new \in Seq(Entry) /\ Len(new) = n + 1
      /\ \A j \in 1..n+1 : new[j] = IF j < pos THEN es[j] ELSE IF j = pos THEN e ELSE es[j-1]
  <2>1. CASE i = 0
    BY <1>1, <1>2, <2>1
  <2>2. CASE i # 0
    <3> DEFINE s == SubSeq(es, 1, i-1)
               t == SubSeq(es, i, n)
    <3>1. i \in 1..n /\ i \in Nat /\ pos = i
      BY <1>1, <1>3, <2>2
    <3>2. /\ s \in Seq(Entry) /\ Len(s) = i - 1
          /\ \A j \in 1..i-1 : s[j] = es[j]
      BY <1>1, <3>1, SubSeqProperties
    <3>3. /\ t \in Seq(Entry) /\ Len(t) = n - i + 1
          /\ \A j \in 1..n-i+1 : t[j] = es[i + j - 1]
      BY <1>1, <3>1, SubSeqProperties
    <3>4. <<e>> \in Seq(Entry) /\ Len(<<e>>) = 1 /\ <<e>>[1] = e
      BY <1>2
    <3> DEFINE u == s \o <<e>>
    <3>5. new = u \o t
      BY <2>2 DEF InsertAt
    <3>6. /\ u \in Seq(Entry) /\ Len(u) = i
          /\ \A j \in 1..i : u[j] = IF j < i THEN es[j] ELSE e
      <4> HIDE DEF s
      <4>1. /\ u \in Seq(Entry) /\ Len(u) = i
            /\ \A j \in 1..i : u[j] = IF j <= i - 1 THEN s[j] ELSE <<e>>[j - (i - 1)]
        BY <3>1, <3>2, <3>4, ConcatProperties
      <4> HIDE DEF u
      <4> QED BY <3>1, <3>2, <4>1
    <3> HIDE DEF t, u, new, pos
    <3>7. /\ new \in Seq(Entry) /\ Len(new) = i + (n - i + 1)
          /\ \A j \in 1..i+(n-i+1) : new[j] = IF j <= i THEN u[j] ELSE t[j - i]
      <4>1. /\ u \o t \in Seq(Entry) /\ Len(u \o t) = Len(u) + Len(t)
            /\ \A j \in 1..Len(u)+Len(t) : (u \o t)[j] = IF j <= Len(u) THEN u[j] ELSE t[j - Len(u)]
        BY <3>3, <3>6, ConcatProperties
      <4>2. Len(u) = i /\ Len(t) = n - i + 1
        BY <3>3, <3>6
      <4> QED BY <3>5, <4>1, <4>2
    <3>8. Len(new) = n + 1 /\ i + (n - i + 1) = n + 1
      BY <1>1, <3>1, <3>7
    <3>9. ASSUME NEW j \in 1..n+1 PROVE new[j] = IF j < pos THEN es[j] ELSE IF j = pos THEN e ELSE es[j-1]
      <4>1. CASE j <= i
        BY <1>1, <3>1, <3>6, <3>7, <3>8, <4>1
      <4>2. CASE j > i
        <5>1. j - i \in 1..n-i+1 /\ i + (j - i) - 1 = j - 1
          BY <1>1, <3>1, <4>2
        <5>2. j \in 1..i+(n-i+1) /\ ~(j <= i)
          BY <1>1, <3>1, <4>2
        <5>3. new[j] = t[j - i]
          BY <3>7, <5>2
        <5> QED BY <1>1, <3>1, <3>3, <4>2, <5>1, <5>3
      <4> QED BY <1>1, <3>1, <4>1, <4>2
    <3> QED BY <3>7, <3>8, <3>9
  <2> QED BY <2>1, <2>2
<1> HIDE DEF new, pos
<1>9. Sorted(new)
  <2> SUFFICES ASSUME NEW a \in 1..n+1, NEW b \in 1..n+1, a < b PROVE new[a].key < new[b].key
    BY <1>8 DEF Sorted
  <2>1. a \in Nat /\ b \in Nat /\ pos \in Nat
    BY <1>1, <1>5
  <2>2. CASE b < pos
    <3>1. new[a] = es[a] /\ new[b] = es[b] /\ a \in 1..n /\ b \in 1..n
      BY <1>1, <1>5, <1>8, <2>1, <2>2
    <3> QED BY <3>1 DEF Sorted
  <2>3. CASE b = pos
    <3>1. new[a] = es[a] /\ new[b] = e /\ a \in 1..n /\ a < pos
      BY <1>1, <1>5, <1>8, <2>1, <2>3
    <3> QED BY <1>2, <1>6, <3>1
  <2>4. CASE b > pos /\ a < pos
    <3>1. new[a] = es[a] /\ new[b] = es[b-1] /\ a \in 1..n /\ b - 1 \in 1..n /\ a < b - 1
      BY <1>1, <1>5, <1>8, <2>1, <2>4
    <3> QED BY <3>1 DEF Sorted
  <2>5. CASE b > pos /\ a = pos
    <3>1. new[a] = e /\ new[b] = es[b-1] /\ b - 1 \in 1..n /\ b - 1 >= pos
      BY <1>1, <1>5, <1>8, <2>1, <2>5
    <3> QED BY <1>2, <1>7, <3>1
  <2>6. CASE b > pos /\ a > pos
    <3>1. new[a] = es[a-1] /\ new[b] = es[b-1] /\ a - 1 \in 1..n /\ b - 1 \in 1..n /\ a - 1 < b - 1
      BY <1>1, <1>5, <1>8, <2>1, <2>6
    <3> QED BY <3>1 DEF Sorted
  <2> QED BY <2>1, <2>2, <2>3, <2>4, <2>5, <2>6
<1>10. ToSet(new) = ToSet(es) \cup {e}
  <2>1. DOMAIN new = 1..n+1 /\ DOMAIN es = 1..n
    BY <1>8
  <2>2. ASSUME NEW x \in ToSet(new) PROVE x \in ToSet(es) \cup {e}
    <3>1. PICK j \in 1..n+1 : x = new[j]
      BY <2>1 DEF ToSet
    <3>2. j < pos => j \in 1..n /\ x = es[j]
      BY <1>1, <1>5, <1>8, <3>1
    <3>3. j > pos => j - 1 \in 1..n /\ x = es[j-1]
      BY <1>1, <1>5, <1>8, <3>1
    <3>4. j = pos => x = e
      BY <1>8, <3>1
    <3> QED BY <1>5, <2>1, <3>2, <3>3, <3>4 DEF ToSet
  <2>3. e \in ToSet(new)
    <3>1. new[pos] = e /\ pos \in 1..n+1
      BY <1>5, <1>8
    <3> QED BY <2>1, <3>1 DEF ToSet
  <2>4. ASSUME NEW x \in ToSet(es) PROVE x \in ToSet(new)
    <3>1. PICK j \in 1..n : x = es[j]
      BY <2>1 DEF ToSet
    <3>2. j < pos => j \in 1..n+1 /\ new[j] = x
      BY <1>1, <1>5, <1>8, <3>1
    <3>3. j >= pos => j + 1 \in 1..n+1 /\ new[j+1] = x
      BY <1>1, <1>5, <1>8, <3>1
    <3> QED BY <1>5, <2>1, <3>2, <3>3 DEF ToSet
  <2> QED BY <2>2, <2>3, <2>4
<1> QED BY <1>8, <1>9, <1>10 DEF new, i, e

\* An entry is taken out, and those behind it move up.
LEMMA RemovePlace ==
  ASSUME NEW es \in Seq(Entry), Sorted(es), NEW i \in 1..Len(es)
  PROVE  LET new == RemoveAt(es, i)
         IN  /\ new \in Seq(Entry) /\ Len(new) = Len(es) - 1 /\ Sorted(new)
             /\ ToSet(new) = ToSet(es) \ {es[i]}
<1> DEFINE n == Len(es)
           s == SubSeq(es, 1, i-1)
           t == SubSeq(es, i+1, n)
           new == s \o t
<1>1. n \in Nat /\ i \in Nat /\ \A j \in 1..n : es[j].key \in Nat /\ es[j] \in Entry
  BY Keys
<1>2. /\ s \in Seq(Entry) /\ Len(s) = i - 1
      /\ \A j \in 1..i-1 : s[j] = es[j]
  BY <1>1, SubSeqProperties
<1>3. /\ t \in Seq(Entry) /\ Len(t) = n - i
      /\ \A j \in 1..n-i : t[j] = es[i + j]
  <2>1. /\ t \in Seq(Entry) /\ Len(t) = IF i + 1 <= n THEN n - (i + 1) + 1 ELSE 0
        /\ \A j \in 1..n-(i+1)+1 : t[j] = es[i + 1 + j - 1]
    BY <1>1, SubSeqProperties
  <2>2. n - (i + 1) + 1 = n - i
    BY <1>1
  <2> HIDE DEF t
  <2>3. ASSUME NEW j \in 1..n-i PROVE t[j] = es[i + j]
    <3>1. j \in 1..n-(i+1)+1 /\ i + 1 + j - 1 = i + j
      BY <1>1
    <3> QED BY <2>1, <3>1
  <2>4. Len(t) = n - i
    BY <1>1, <2>1
  <2> QED BY <2>1, <2>3, <2>4
<1> HIDE DEF s, t
<1>4. /\ new \in Seq(Entry) /\ Len(new) = Len(s) + Len(t)
      /\ \A j \in 1..Len(s)+Len(t) : new[j] = IF j <= Len(s) THEN s[j] ELSE t[j - Len(s)]
  BY <1>2, <1>3, ConcatProperties
<1>5. RemoveAt(es, i) = new
  BY DEF RemoveAt, s, t
<1> HIDE DEF new
<1>6. Len(new) = n - 1
  BY <1>1, <1>2, <1>3, <1>4
<1>7. ASSUME NEW j \in 1..n-1 PROVE new[j] = es[IF j < i THEN j ELSE j + 1]
  <2>1. j \in 1..Len(s)+Len(t)
    BY <1>1, <1>2, <1>3
  <2>2. CASE j < i
    <3>1. j \in 1..i-1 /\ j <= i - 1
      BY <1>1, <2>2
    <3> QED BY <1>1, <1>2, <1>4, <2>1, <2>2, <3>1
  <2>3. CASE j >= i
    <3>1. j - (i - 1) \in 1..n-i /\ i + (j - (i - 1)) = j + 1 /\ ~(j <= i - 1)
      BY <1>1, <2>3
    <3>2. new[j] = t[j - (i - 1)]
      BY <1>2, <1>4, <2>1, <3>1
    <3> QED BY <1>1, <1>3, <2>3, <3>1, <3>2
  <2> QED BY <1>1, <2>2, <2>3
<1> DEFINE From(j) == IF j < i THEN j ELSE j + 1
<1>8. \A j \in 1..n-1 : From(j) \in 1..n /\ From(j) # i /\ new[j] = es[From(j)]
  BY <1>1, <1>7
<1>9. \A a, b \in 1..n-1 : a < b => From(a) < From(b)
  BY <1>1
<1>10. \A j \in 1..n : j # i => \E a \in 1..n-1 : From(a) = j
  <2> SUFFICES ASSUME NEW j \in 1..n, j # i PROVE \E a \in 1..n-1 : From(a) = j
    OBVIOUS
  <2>1. j < i => j \in 1..n-1 /\ From(j) = j
    BY <1>1
  <2>2. j > i => j - 1 \in 1..n-1 /\ From(j - 1) = j
    BY <1>1
  <2> QED BY <1>1, <2>1, <2>2
<1> HIDE DEF From
<1>11. Sorted(new)
  BY <1>6, <1>8, <1>9 DEF Sorted
<1>12. ToSet(new) = ToSet(es) \ {es[i]}
  <2>1. DOMAIN new = 1..n-1 /\ DOMAIN es = 1..n
    BY <1>1, <1>4, <1>6
  <2>2. \A a, b \in 1..n : es[a] = es[b] => a = b
    <3> SUFFICES ASSUME NEW a \in 1..n, NEW b \in 1..n, es[a] = es[b], a < b PROVE FALSE
      BY <1>1
    <3>1. es[a].key < es[b].key
      BY DEF Sorted
    <3> QED BY <1>1, <3>1
  <2>3. ToSet(new) \subseteq ToSet(es) \ {es[i]}
    BY <1>8, <2>1, <2>2 DEF ToSet
  <2>4. ToSet(es) \ {es[i]} \subseteq ToSet(new)
    <3> SUFFICES ASSUME NEW j \in 1..n, j # i PROVE es[j] \in ToSet(new)
      BY <2>1 DEF ToSet
    <3>1. PICK a \in 1..n-1 : From(a) = j
      BY <1>10
    <3> QED BY <1>8, <2>1, <3>1 DEF ToSet
  <2> QED BY <2>3, <2>4
<1> QED BY <1>4, <1>5, <1>6, <1>11, <1>12

\* A value that is replaced leaves the entry in its place.
LEMMA ReplacePlace ==
  ASSUME NEW es \in Seq(Entry), Sorted(es), NEW i \in 1..Len(es), NEW v \in Value
  PROVE  LET new == [es EXCEPT ![i].value = v]
         IN  /\ new \in Seq(Entry) /\ Len(new) = Len(es) /\ Sorted(new)
             /\ ToSet(new) = (ToSet(es) \ {es[i]}) \cup {[key |-> es[i].key, value |-> v]}
<1> DEFINE n == Len(es)
           e == [es[i] EXCEPT !.value = v]
           new == [es EXCEPT ![i] = e]
<1>1. n \in Nat /\ \A j \in 1..n : es[j].key \in Nat /\ es[j] \in Entry
  BY Keys
<1>2. e \in Entry /\ e.key = es[i].key /\ e = [key |-> es[i].key, value |-> v]
  BY <1>1 DEF Entry
<1>3. [es EXCEPT ![i].value = v] = new
  OBVIOUS
<1> HIDE DEF e
<1>4. /\ new \in Seq(Entry) /\ Len(new) = n
      /\ \A j \in 1..n : new[j] = IF j = i THEN e ELSE es[j]
  BY <1>2, ExceptSeq
<1> HIDE DEF new
<1>5. Sorted(new)
  <2> SUFFICES ASSUME NEW a \in 1..n, NEW b \in 1..n, a < b PROVE new[a].key < new[b].key
    BY <1>4 DEF Sorted
  <2>1. new[a].key = es[a].key /\ new[b].key = es[b].key
    BY <1>2, <1>4
  <2> QED BY <2>1 DEF Sorted
<1>6. ToSet(new) = (ToSet(es) \ {es[i]}) \cup {e}
  <2>1. DOMAIN new = 1..n /\ DOMAIN es = 1..n
    BY <1>1, <1>4
  <2>2. \A a, b \in 1..n : es[a] = es[b] => a = b
    <3> SUFFICES ASSUME NEW a \in 1..n, NEW b \in 1..n, es[a] = es[b], a < b PROVE FALSE
      BY <1>1
    <3>1. es[a].key < es[b].key
      BY DEF Sorted
    <3> QED BY <1>1, <3>1
  <2>3. ToSet(new) \subseteq (ToSet(es) \ {es[i]}) \cup {e}
    BY <1>4, <2>1, <2>2 DEF ToSet
  <2>4. ToSet(es) \ {es[i]} \subseteq ToSet(new)
    BY <1>4, <2>1 DEF ToSet
  <2>5. e \in ToSet(new)
    BY <1>4, <2>1 DEF ToSet
  <2> QED BY <2>3, <2>4, <2>5
<1> QED BY <1>2, <1>3, <1>4, <1>5, <1>6

----------------------------------------------------------------------------
(* The buckets.                                                            *)

Types ==
  /\ bucket \in [Bucket -> Total]
  /\ live \subseteq Value
  /\ iter \in [bucket : Nat, entry : Int, seen : Seq(Value)]

\* Entries are sorted, and in the bucket of their key.
Places ==
  \A p \in Bucket : /\ Sorted(bucket[p].entries)
                    /\ \A e \in ToSet(bucket[p].entries) : HashOf[e.key] = p

\* The parts of a bucket
LEMMA BucketParts ==
  ASSUME Types, NEW p \in Bucket
  PROVE  /\ bucket[p] \in Total /\ bucket[p].entries \in Seq(Entry) /\ bucket[p].total \in Nat
         /\ Used(bucket[p]) = Len(bucket[p].entries) /\ Used(bucket[p]) \in Nat
         /\ DOMAIN bucket[p].entries = 1..Used(bucket[p])
         /\ bucket[p] = [entries |-> bucket[p].entries, total |-> bucket[p].total]
<1>1. bucket[p] \in Total
  BY DEF Types
<1>2. /\ bucket[p].entries \in Seq(Entry) /\ bucket[p].total \in Nat
      /\ bucket[p] = [entries |-> bucket[p].entries, total |-> bucket[p].total]
  BY <1>1 DEF Total
<1> QED BY <1>1, <1>2 DEF Used

\* A key has its bucket.
LEMMA BucketOf == \A k \in HashKey : HashOf[k] \in Bucket
BY BucketsType DEF Bucket

\* All pairs are entries; no two have the same key, and each is in the bucket of its key.
LEMMA PairsUnique ==
  ASSUME Types, Places
  PROVE  /\ Pairs \subseteq Entry
         /\ \A e \in Pairs : HashOf[e.key] \in Bucket /\ e \in ToSet(bucket[HashOf[e.key]].entries)
         /\ \A d, e \in Pairs : d.key = e.key => d = e
<1>1. ASSUME NEW e \in Pairs
      PROVE  e \in Entry /\ HashOf[e.key] \in Bucket /\ e \in ToSet(bucket[HashOf[e.key]].entries)
  <2>1. PICK p \in Bucket : e \in ToSet(bucket[p].entries)
    BY DEF Pairs
  <2>2. e \in Entry
    <3> DEFINE es == bucket[p].entries
    <3>1. es \in Seq(Entry)
      BY BucketParts
    <3> HIDE DEF es
    <3>2. DOMAIN es = 1..Len(es)
      BY <3>1
    <3>3. e \in ToSet(es)
      BY <2>1 DEF es
    <3>4. PICK i \in 1..Len(es) : e = es[i]
      BY <3>2, <3>3 DEF ToSet
    <3> QED BY <3>1, <3>4
  <2> QED BY <2>1, <2>2 DEF Places
<1>2. ASSUME NEW d \in Pairs, NEW e \in Pairs, d.key = e.key
      PROVE  d = e
  <2> DEFINE es == bucket[HashOf[e.key]].entries
  <2>1. d \in ToSet(es) /\ e \in ToSet(es)
    BY <1>1, <1>2
  <2>2. es \in Seq(Entry) /\ Sorted(es)
    BY <1>1, BucketParts DEF Places
  <2> HIDE DEF es
  <2>3. DOMAIN es = 1..Len(es) /\ Len(es) \in Nat
    BY <2>2
  <2>4. PICK i \in 1..Len(es), j \in 1..Len(es) : d = es[i] /\ e = es[j]
    BY <2>1, <2>3 DEF ToSet
  <2>5. es[i].key \in Nat /\ es[j].key \in Nat
    BY <2>2, Keys
  <2>6. ~(i < j) /\ ~(j < i)
    BY <1>2, <2>2, <2>4, <2>5 DEF Sorted
  <2> QED BY <2>3, <2>4, <2>6
<1> QED BY <1>1, <1>2

\* A bucket that changes keeps the others as they are.
LEMMA ChangeBucket ==
  ASSUME Types, Places, NEW p \in Bucket, NEW b \in Total,
         bucket' = [bucket EXCEPT ![p] = b],
         Sorted(b.entries), \A e \in ToSet(b.entries) : HashOf[e.key] = p
  PROVE  /\ bucket' \in [Bucket -> Total] /\ Places'
         /\ Pairs' = (Pairs \ ToSet(bucket[p].entries)) \cup ToSet(b.entries)
<1>1. /\ bucket' \in [Bucket -> Total] /\ bucket'[p] = b
      /\ \A q \in Bucket : q # p => bucket'[q] = bucket[q]
  BY DEF Types
<1>2. Places'
  <2> SUFFICES ASSUME NEW q \in Bucket
               PROVE  /\ Sorted(bucket'[q].entries)
                      /\ \A e \in ToSet(bucket'[q].entries) : HashOf[e.key] = q
    BY DEF Places, Sorted, ToSet
  <2> QED BY <1>1 DEF Places
<1>3. Pairs' = UNION {ToSet(bucket'[q].entries) : q \in Bucket}
  BY DEF Pairs, ToSet
<1>4. \A q \in Bucket : q # p => ToSet(bucket[q].entries) \cap ToSet(bucket[p].entries) = {}
  BY DEF Places
<1>5. Pairs' \subseteq (Pairs \ ToSet(bucket[p].entries)) \cup ToSet(b.entries)
  BY <1>1, <1>3, <1>4 DEF Pairs
<1>6. (Pairs \ ToSet(bucket[p].entries)) \cup ToSet(b.entries) \subseteq Pairs'
  BY <1>1, <1>3 DEF Pairs
<1> QED BY <1>1, <1>2, <1>5, <1>6

\* The room for an entry is made without touching those there are.
LEMMA GrowKeeps ==
  ASSUME NEW b \in Total
  PROVE  /\ Grow(b) \in Total /\ Grow(b).entries = b.entries
         /\ Grow(b) = [entries |-> b.entries, total |-> Grow(b).total]
         /\ Grow(b).total = IF Used(b) + 1 >= b.total THEN b.total + Step ELSE b.total
<1>1. Step \in Nat
  BY BucketsType DEF Step
<1>2. b.entries \in Seq(Entry) /\ b.total \in Nat /\ b = [entries |-> b.entries, total |-> b.total]
  BY DEF Total
<1>3. Grow(b) = [entries |-> b.entries,
                 total |-> IF Used(b) + 1 >= b.total THEN b.total + Step ELSE b.total]
  BY <1>2 DEF Grow
<1> QED BY <1>1, <1>2, <1>3 DEF Total

\* So is the room that is given back.
LEMMA ShrinkKeeps ==
  ASSUME NEW b \in Total
  PROVE  Shrink(b) \in Total /\ Shrink(b).entries = b.entries
<1>1. b.entries \in Seq(Entry) /\ b.total \in Nat /\ b = [entries |-> b.entries, total |-> b.total]
  BY DEF Total
<1> DEFINE u == Used(b) \div Step
<1>2. Step \in Nat \ {0}
  BY BucketsType DEF Step
<1>3. u \in Nat /\ (u + 1) * Step \in Nat
  BY <1>1, <1>2 DEF Used
<1>4. Shrink(b) = IF u + 1 < b.total \div Step
                  THEN [entries |-> b.entries, total |-> (u + 1) * Step] ELSE b
  BY <1>1 DEF Shrink
<1> QED BY <1>1, <1>3, <1>4 DEF Total

----------------------------------------------------------------------------
(* What the calls do to the pairs.                                         *)

\* The new entry of a bucket
LEMMA InsertKeeps ==
  ASSUME NEW b \in Total, Sorted(b.entries), NEW k \in HashKey, NEW v \in Value,
         ~Found(b.entries, k)
  PROVE  LET c == Insert(Grow(b), k, v) IN
         /\ c \in Total /\ Sorted(c.entries) /\ Used(c) = Used(b) + 1
         /\ c.total = Grow(b).total
         /\ ToSet(c.entries) = ToSet(b.entries) \cup {[key |-> k, value |-> v]}
<1> DEFINE es == b.entries
           i == Scan(es, k)
           e == [key |-> k, value |-> v]
           new == IF i = 0 THEN Append(es, e) ELSE InsertAt(es, i, e)
           c == Insert(Grow(b), k, v)
<1>1. es \in Seq(Entry)
  BY DEF Total
<1>2. /\ new \in Seq(Entry) /\ Len(new) = Len(es) + 1 /\ Sorted(new)
      /\ ToSet(new) = ToSet(es) \cup {e}
  BY <1>1, InsertPlace
<1>3. Grow(b) \in Total /\ Grow(b) = [entries |-> es, total |-> Grow(b).total]
  BY GrowKeeps
<1>4. c = [Grow(b) EXCEPT !.entries = new]
  BY GrowKeeps DEF Insert
<1>5. Grow(b).total \in Nat
  BY <1>3 DEF Total
<1> HIDE DEF new, e, i
<1>6. c = [entries |-> new, total |-> Grow(b).total]
  BY <1>3, <1>4
<1> HIDE DEF c
<1>7. c \in Total /\ c.entries = new /\ c.total = Grow(b).total
  BY <1>2, <1>5, <1>6 DEF Total
<1> QED BY <1>2, <1>7 DEF c, e, Used

\* The iterator of nobody
LEMMA NoIterType == NoIter \in [bucket : Nat, entry : Int, seen : Seq(Value)]
BY BucketsType DEF NoIter

\* A new key and its value are added to the pairs.
LEMMA AddNewStep ==
  ASSUME Types, Places, NEW k \in HashKey, NEW v \in Value, AddNewEntry(k, v)
  PROVE  /\ Types' /\ Places' /\ Pairs' = Pairs \cup {[key |-> k, value |-> v]}
         /\ \A e \in Pairs : e.key # k
<1> DEFINE p == HashOf[k]
           b == bucket[p]
           c == Insert(Grow(b), k, v)
<1>1. p \in Bucket /\ b \in Total /\ b.entries \in Seq(Entry) /\ Sorted(b.entries)
  BY BucketOf, BucketParts DEF Places
<1>2. bucket' = [bucket EXCEPT ![p] = c] /\ ~Found(b.entries, k)
  BY DEF AddNewEntry
<1>3. /\ c \in Total /\ Sorted(c.entries)
      /\ ToSet(c.entries) = ToSet(b.entries) \cup {[key |-> k, value |-> v]}
  BY <1>1, <1>2, InsertKeeps
<1>4. \A e \in ToSet(c.entries) : HashOf[e.key] = p
  BY <1>1, <1>3 DEF Places
<1> HIDE DEF c
<1>5. /\ bucket' \in [Bucket -> Total] /\ Places'
      /\ Pairs' = (Pairs \ ToSet(bucket[p].entries)) \cup ToSet(c.entries)
  BY <1>1, <1>2, <1>3, <1>4, ChangeBucket
<1>6. ToSet(b.entries) \subseteq Pairs
  BY <1>1 DEF Pairs
<1>7. Pairs' = Pairs \cup {[key |-> k, value |-> v]}
  BY <1>3, <1>5, <1>6
<1>8. \A e \in Pairs : e.key # k
  <2> SUFFICES ASSUME NEW e \in Pairs, e.key = k PROVE FALSE
    OBVIOUS
  <2>1. e \in ToSet(b.entries)
    BY PairsUnique
  <2> DEFINE es == b.entries
  <2>2. es \in Seq(Entry) /\ ~Found(es, k) /\ Sorted(es) /\ e \in ToSet(es)
    BY <1>1, <1>2, <2>1
  <2> HIDE DEF es
  <2> QED BY <2>2, FoundThere DEF ToSet
<1>9. Types'
  BY <1>5, NoIterType DEF AddNewEntry, Types
<1> QED BY <1>5, <1>7, <1>8, <1>9

\* The value of a key that exists is replaced.
LEMMA AddReplaceStep ==
  ASSUME Types, Places, NEW k \in HashKey, NEW v \in Value, AddReplace(k, v)
  PROVE  /\ Types' /\ Places'
         /\ \E x \in Pairs : /\ x.key = k
                             /\ Pairs' = (Pairs \ {x}) \cup {[key |-> k, value |-> v]}
                             /\ live' = (IF FreeValue THEN live \ {x.value} ELSE live) \cup {v}
<1> DEFINE p == HashOf[k]
           b == bucket[p]
           es == b.entries
           i == Scan(es, k)
           new == [es EXCEPT ![i].value = v]
           c == [entries |-> new, total |-> Grow(b).total]
<1>1. p \in Bucket /\ b \in Total /\ es \in Seq(Entry) /\ Sorted(es)
  BY BucketOf, BucketParts DEF Places
<1>2. Found(es, k)
  BY DEF AddReplace
<1>3. i \in 1..Len(es) /\ es[i].key = k
  BY <1>1, <1>2, FoundThere
<1> DEFINE x == es[i]
<1>4. /\ new \in Seq(Entry) /\ Sorted(new)
      /\ ToSet(new) = (ToSet(es) \ {x}) \cup {[key |-> k, value |-> v]}
  <2> HIDE DEF es, i
  <2> QED BY <1>1, <1>3, ReplacePlace
<1>5. Grow(b) \in Total /\ Grow(b) = [entries |-> es, total |-> Grow(b).total]
  BY <1>1, GrowKeeps
<1>6. [Grow(b) EXCEPT !.entries[i].value = v] = c
  BY <1>5
<1>7. bucket' = [bucket EXCEPT ![p] = c]
  BY <1>6 DEF AddReplace
<1>8. c \in Total /\ c.entries = new
  <2>1. Grow(b).total \in Nat
    BY <1>5 DEF Total
  <2> HIDE DEF new
  <2> QED BY <1>4, <2>1 DEF Total
<1> HIDE DEF c, new
<1>9. \A e \in ToSet(c.entries) : HashOf[e.key] = p
  <2>1. \A e \in ToSet(es) : HashOf[e.key] = p
    BY <1>1 DEF Places
  <2> HIDE DEF es, i
  <2> QED BY <1>4, <1>8, <2>1
<1>10. /\ bucket' \in [Bucket -> Total] /\ Places'
       /\ Pairs' = (Pairs \ ToSet(es)) \cup ToSet(c.entries)
  BY <1>1, <1>4, <1>7, <1>8, <1>9, ChangeBucket
<1>11. ToSet(es) \subseteq Pairs
  BY <1>1 DEF Pairs
<1>12. x \in ToSet(es) /\ x.value \in Value
  <2> HIDE DEF es, i
  <2>1. x \in Entry /\ x \in ToSet(es)
    BY <1>1, <1>3, Keys DEF ToSet
  <2> QED BY <2>1 DEF Entry
<1>13. Pairs' = (Pairs \ {x}) \cup {[key |-> k, value |-> v]}
  BY <1>4, <1>8, <1>10, <1>11, <1>12
<1>14. live' = (IF FreeValue THEN live \ {x.value} ELSE live) \cup {v}
  BY SMTT(30) DEF AddReplace
<1>15. Types'
  BY <1>10, <1>14, NoIterType DEF AddReplace, Types
<1> QED BY <1>3, <1>10, <1>11, <1>12, <1>13, <1>14, <1>15

\* hash_add_unique of a key that exists changes no pair.
LEMMA AddExistsStep ==
  ASSUME Types, Places, NEW k \in HashKey, NEW v \in Value, AddExists(k, v)
  PROVE  /\ Types' /\ Places' /\ Pairs' = Pairs
         /\ \E e \in Pairs : e.key = k
         /\ \A q \in Bucket : bucket'[q].entries = bucket[q].entries
<1> DEFINE p == HashOf[k]
           b == bucket[p]
           c == Grow(b)
<1>1. p \in Bucket /\ b \in Total /\ b.entries \in Seq(Entry) /\ Sorted(b.entries)
  BY BucketOf, BucketParts DEF Places
<1>2. bucket' = [bucket EXCEPT ![p] = c] /\ Found(b.entries, k)
  BY DEF AddExists
<1>3. c \in Total /\ c.entries = b.entries
  BY <1>1, GrowKeeps
<1>4. \A e \in ToSet(c.entries) : HashOf[e.key] = p
  BY <1>1, <1>3 DEF Places
<1> HIDE DEF c
<1>5. /\ bucket' \in [Bucket -> Total] /\ Places'
      /\ Pairs' = (Pairs \ ToSet(bucket[p].entries)) \cup ToSet(c.entries)
  BY <1>1, <1>2, <1>3, <1>4, ChangeBucket
<1>6. ToSet(b.entries) \subseteq Pairs
  BY <1>1 DEF Pairs
<1>7. Types'
  BY <1>5 DEF AddExists, Types
<1>8. \E e \in ToSet(b.entries) : e.key = k
  <2> DEFINE es == b.entries
  <2>1. es \in Seq(Entry) /\ Sorted(es) /\ Found(es, k)
    BY <1>1, <1>2
  <2> HIDE DEF es
  <2>2. \E e \in ToSet(es) : e.key = k
    BY <2>1, FoundThere DEF ToSet
  <2> QED BY <2>2 DEF es
<1>9. \A q \in Bucket : bucket'[q].entries = bucket[q].entries
  BY <1>2, <1>3 DEF Types
<1> QED BY <1>3, <1>5, <1>6, <1>7, <1>8, <1>9

\* hash_del takes the pair with its key.
LEMMA DelStep ==
  ASSUME Types, Places, NEW k \in HashKey, Del(k)
  PROVE  /\ Types' /\ Places'
         /\ \E x \in Pairs : /\ x.key = k /\ Pairs' = Pairs \ {x}
                             /\ live' = live \ {x.value}
<1> DEFINE p == HashOf[k]
           b == bucket[p]
           es == b.entries
           i == BSearch(es, k)
           new == RemoveAt(es, i)
           left == [b EXCEPT !.entries = new]
<1>1. /\ p \in Bucket /\ b \in Total /\ es \in Seq(Entry) /\ Sorted(es)
      /\ b.total \in Nat /\ b = [entries |-> es, total |-> b.total]
  BY BucketOf, BucketParts DEF Places
<1>2. i \in 1..Len(es) /\ es[i].key = k
  BY <1>1, BSearchFinds DEF Del
<1> DEFINE x == es[i]
<1>3. /\ new \in Seq(Entry) /\ Sorted(new) /\ ToSet(new) = ToSet(es) \ {x}
  <2> HIDE DEF es, i
  <2> QED BY <1>1, <1>2, RemovePlace
<1>4. left = [entries |-> new, total |-> b.total]
  BY <1>1
<1>5. left \in Total /\ left.entries = new
  <2> HIDE DEF new, left
  <2> QED BY <1>1, <1>3, <1>4 DEF Total
<1>6. PICK c \in {left, Shrink(left)} : bucket' = [bucket EXCEPT ![p] = c]
  BY DEF Del
<1>7. c \in Total /\ c.entries = new
  <2> HIDE DEF new, left
  <2> QED BY <1>5, <1>6, ShrinkKeeps
<1>8. \A e \in ToSet(c.entries) : HashOf[e.key] = p
  BY <1>1, <1>3, <1>7 DEF Places
<1> HIDE DEF new, left
<1>9. /\ bucket' \in [Bucket -> Total] /\ Places'
      /\ Pairs' = (Pairs \ ToSet(es)) \cup ToSet(c.entries)
  BY <1>1, <1>3, <1>6, <1>7, <1>8, ChangeBucket
<1>10. ToSet(es) \subseteq Pairs
  BY <1>1 DEF Pairs
<1>11. x \in ToSet(es)
  <2> HIDE DEF es, i
  <2> QED BY <1>1, <1>2 DEF ToSet
<1>12. Pairs' = Pairs \ {x}
  BY <1>3, <1>7, <1>9, <1>10, <1>11
<1>13. live' = live \ {x.value}
  BY DEF Del
<1>14. Types'
  BY <1>9, <1>13, NoIterType DEF Del, Types
<1> QED BY <1>2, <1>9, <1>10, <1>11, <1>12, <1>13, <1>14

\* hash_free and hash_new: no pair is left.
LEMMA FreeStep ==
  ASSUME Types, Places, Free
  PROVE  Types' /\ Places' /\ Pairs' = {} /\ live' = live \ AllValues
<1>1. EmptyBucket \in Total /\ EmptyBucket.entries = << >>
  BY DEF EmptyBucket, Total
<1>2. bucket' \in [Bucket -> Total] /\ \A p \in Bucket : bucket'[p].entries = << >>
  BY <1>1 DEF Free
<1>3. Pairs' = {} /\ Places'
  BY <1>2 DEF Pairs, Places, Sorted, ToSet
<1> QED BY <1>2, <1>3, NoIterType DEF Free, Types

\* A table that nobody has put anything in
LEMMA InitStep ==
  ASSUME HashInit
  PROVE  Types /\ Places /\ Pairs = {} /\ live = {}
<1>1. EmptyBucket \in Total /\ EmptyBucket.entries = << >>
  BY DEF EmptyBucket, Total
<1>2. bucket \in [Bucket -> Total] /\ \A p \in Bucket : bucket[p].entries = << >>
  BY <1>1 DEF HashInit
<1>3. Pairs = {} /\ Places
  BY <1>2 DEF Pairs, Places, Sorted, ToSet
<1> QED BY <1>2, <1>3, NoIterType DEF HashInit, Types

\* The next bucket that is not empty
LEMMA NextBucketIs ==
  ASSUME Types, NEW p \in Bucket
  PROVE  LET q == NextBucket(p) IN
         /\ q \in p+1..NBuckets
         /\ q = NBuckets \/ Used(bucket[q]) > 0
         /\ \A r \in p+1..q-1 : Used(bucket[r]) = 0
<1> DEFINE I == {q \in p+1..NBuckets : q = NBuckets \/ Used(bucket[q]) > 0}
           q == Min(I)
<1>1. NBuckets \in Nat /\ p \in Nat /\ p + 1 <= NBuckets
  BY BucketsType DEF Bucket
<1>2. I \subseteq Nat /\ NBuckets \in I
  BY <1>1
<1>3. q \in I /\ \A r \in I : q <= r
  <2> HIDE DEF I
  <2> QED BY <1>2, Least
<1> HIDE DEF q
<1>4. ASSUME NEW r \in p+1..q-1 PROVE Used(bucket[r]) = 0
  <2>1. r \in p+1..NBuckets /\ r \in Bucket /\ r < q /\ r \in Nat /\ q \in Nat
    BY <1>1, <1>3 DEF Bucket
  <2>2. Used(bucket[r]) \in Nat
    BY <2>1, BucketParts
  <2>3. r \notin I
    BY <1>3, <2>1
  <2> QED BY <2>1, <2>2, <2>3
<1>5. \E s \in p+1..NBuckets : /\ s = NBuckets \/ Used(bucket[s]) > 0
                               /\ \A r \in p+1..s-1 : Used(bucket[r]) = 0
  BY <1>3, <1>4
<1> QED BY <1>5 DEF NextBucket

\* The iterator goes to the next entry, or ends.
LEMMA IterStep ==
  ASSUME Types, ~NotIterating, IterNext, iter.entry >= -1, iter.entry < Used(bucket[iter.bucket])
  PROVE  /\ Types' /\ UNCHANGED <<bucket, live>>
         /\ iter.bucket \in Bucket
         /\ LET p == iter.bucket
                e == iter.entry + 1
                q == iter'.bucket
            IN  /\ e < Used(bucket[p]) =>
                     /\ q = p /\ iter'.entry = e
                     /\ iter'.seen = Append(iter.seen, bucket[p].entries[e+1].value)
                /\ e >= Used(bucket[p]) =>
                     /\ q \in p+1..NBuckets /\ iter'.entry = 0
                     /\ \A r \in p+1..q-1 : Used(bucket[r]) = 0
                     /\ q = NBuckets => iter'.seen = iter.seen
                     /\ q < NBuckets =>
                          /\ Used(bucket[q]) > 0
                          /\ iter'.seen = Append(iter.seen, bucket[q].entries[1].value)
<1> DEFINE p == iter.bucket
           e == iter.entry + 1
           more == e < Used(bucket[p])
           q == IF more THEN p ELSE NextBucket(p)
           pos == IF more THEN e ELSE 0
<1>1. p \in Bucket /\ iter.entry \in Int /\ iter.seen \in Seq(Value) /\ NBuckets \in Nat
  BY BucketsType DEF Types, Bucket, NotIterating
<1>2. Used(bucket[p]) \in Nat
  BY <1>1, BucketParts
<1>3. iter' = [bucket |-> q, entry |-> pos,
               seen |-> IF q < NBuckets THEN Append(iter.seen, bucket[q].entries[pos+1].value)
                        ELSE iter.seen]
  BY DEF IterNext
<1>4. UNCHANGED <<bucket, live>>
  BY DEF IterNext
<1>5. more => q = p /\ pos = e /\ q < NBuckets /\ q \in Bucket /\ pos + 1 \in 1..Used(bucket[q])
  <2>1. p < NBuckets
    BY <1>1 DEF Bucket
  <2>2. more => e + 1 \in 1..Used(bucket[p])
    BY <1>1, <1>2
  <2> QED BY <1>1, <2>1, <2>2
<1>6. ~more => /\ q \in p+1..NBuckets /\ pos = 0
               /\ q = NBuckets \/ Used(bucket[q]) > 0
               /\ \A r \in p+1..q-1 : Used(bucket[r]) = 0
  BY <1>1, NextBucketIs
<1>7. q \in Nat /\ pos \in Int
  <2>1. p \in Nat /\ e \in Int
    BY <1>1 DEF Bucket
  <2> HIDE DEF q, pos
  <2> QED BY <1>1, <1>5, <1>6, <2>1
<1>8. ~more /\ q < NBuckets => q \in Bucket /\ pos + 1 \in 1..Used(bucket[q])
  <2> SUFFICES ASSUME ~more, q < NBuckets PROVE q \in Bucket /\ pos + 1 \in 1..Used(bucket[q])
    OBVIOUS
  <2>1. q \in Bucket
    BY <1>1, <1>7 DEF Bucket
  <2>2. Used(bucket[q]) \in Nat
    BY <2>1, BucketParts
  <2> QED BY <1>6, <1>7, <2>1, <2>2
<1> HIDE DEF q, pos
<1>9. q < NBuckets => bucket[q].entries[pos+1].value \in Value
  <2> SUFFICES ASSUME q < NBuckets PROVE bucket[q].entries[pos+1].value \in Value
    OBVIOUS
  <2>1. q \in Bucket /\ pos + 1 \in 1..Used(bucket[q])
    BY <1>5, <1>8
  <2>2. bucket[q].entries \in Seq(Entry) /\ pos + 1 \in 1..Len(bucket[q].entries)
    BY <2>1, BucketParts
  <2>3. bucket[q].entries[pos+1] \in Entry
    BY <2>2, ElementOfSeq, Zenon
  <2> QED BY <2>3 DEF Entry
<1>10. Types'
  BY <1>1, <1>3, <1>4, <1>7, <1>9 DEF Types
<1>11. iter'.bucket = q /\ iter'.entry = pos
       /\ iter'.seen = IF q < NBuckets THEN Append(iter.seen, bucket[q].entries[pos+1].value)
                       ELSE iter.seen
  BY <1>3
<1>12. more => /\ iter'.bucket = p /\ iter'.entry = e
               /\ iter'.seen = Append(iter.seen, bucket[p].entries[e+1].value)
  BY <1>5, <1>11
<1>13. ~more => /\ iter'.bucket \in p+1..NBuckets /\ iter'.entry = 0
                /\ \A r \in p+1..iter'.bucket-1 : Used(bucket[r]) = 0
                /\ iter'.bucket = NBuckets => iter'.seen = iter.seen
                /\ iter'.bucket < NBuckets =>
                     /\ Used(bucket[iter'.bucket]) > 0
                     /\ iter'.seen = Append(iter.seen, bucket[iter'.bucket].entries[1].value)
  BY <1>1, <1>6, <1>7, <1>11
<1>14. e \in Int /\ (e >= Used(bucket[p]) <=> ~more)
  BY <1>1, <1>2
<1> QED BY <1>1, <1>4, <1>10, <1>12, <1>13, <1>14

----------------------------------------------------------------------------
(* The inductive invariant.                                                *)

\* No value is in the table twice.
OneEach == \A d, e \in Pairs : d.value = e.value => d = e

\* Entry j of bucket q is in a bucket before p, or among the first n of p.
Before(q, j, p, n) == q < p \/ (q = p /\ j <= n)

\* The values of the entries before bucket p, and of the first n of bucket p
Passed(p, n) ==
  {v \in AllValues : \E q \in Bucket : \E j \in 1..Used(bucket[q]) :
     bucket[q].entries[j].value = v /\ Before(q, j, p, n)}

\* An iteration has returned what it has passed, and all when it is over.
Iteration ==
  /\ \A i, j \in 1..Len(iter.seen) : iter.seen[i] = iter.seen[j] => i = j
  /\ NotIterating => iter = NoIter \/ ToSet(iter.seen) = AllValues
  /\ ~NotIterating => /\ iter.entry + 1 \in 0..Used(bucket[iter.bucket])
                      /\ ToSet(iter.seen) = Passed(iter.bucket, iter.entry + 1)

HashInv == Types /\ Places /\ OneEach /\ ValuesOwned /\ Iteration

\* Whose value is replaced or removed loses it, who is added has a new one.
LEMMA OwnedNew ==
  ASSUME OneEach, ValuesOwned, NEW k, NEW v, v \notin live,
         Pairs' = Pairs \cup {[key |-> k, value |-> v]}, live' = live \cup {v}
  PROVE  OneEach' /\ ValuesOwned'
<1> DEFINE e == [key |-> k, value |-> v]
<1>1. e.value = v /\ \A d \in Pairs : d.value \in live
  BY DEF ValuesOwned, AllValues
<1>2. AllValues = {d.value : d \in Pairs} /\ AllValues' = {d.value : d \in Pairs'}
  BY DEF AllValues
<1> HIDE DEF e
<1>3. Pairs' = Pairs \cup {e}
  BY DEF e
<1>4. AllValues' = AllValues \cup {v}
  BY <1>1, <1>2, <1>3
<1>5. OneEach'
  BY <1>1, <1>3 DEF OneEach
<1> QED BY <1>4, <1>5 DEF ValuesOwned

LEMMA OwnedReplaced ==
  ASSUME OneEach, ValuesOwned, NEW k, NEW v, v \notin live, NEW x \in Pairs,
         Pairs' = (Pairs \ {x}) \cup {[key |-> k, value |-> v]},
         live' = (IF FreeValue THEN live \ {x.value} ELSE live) \cup {v}
  PROVE  OneEach' /\ ValuesOwned'
<1> DEFINE e == [key |-> k, value |-> v]
<1>1. e.value = v /\ \A d \in Pairs : d.value \in live
  BY DEF ValuesOwned, AllValues
<1>2. AllValues = {d.value : d \in Pairs} /\ AllValues' = {d.value : d \in Pairs'}
  BY DEF AllValues
<1> HIDE DEF e
<1>3. Pairs' = (Pairs \ {x}) \cup {e}
  BY DEF e
<1>4. \A d \in Pairs \ {x} : d.value # x.value
  BY DEF OneEach
<1>5. AllValues' = (AllValues \ {x.value}) \cup {v}
  <2>1. AllValues' \subseteq (AllValues \ {x.value}) \cup {v}
    BY <1>1, <1>2, <1>3, <1>4
  <2>2. (AllValues \ {x.value}) \cup {v} \subseteq AllValues'
    BY <1>1, <1>2, <1>3
  <2> QED BY <2>1, <2>2
<1>6. OneEach'
  BY <1>1, <1>3 DEF OneEach
<1> QED BY <1>5, <1>6 DEF ValuesOwned

LEMMA OwnedRemoved ==
  ASSUME OneEach, ValuesOwned, NEW x \in Pairs,
         Pairs' = Pairs \ {x}, live' = live \ {x.value}
  PROVE  OneEach' /\ ValuesOwned'
<1>1. AllValues = {d.value : d \in Pairs} /\ AllValues' = {d.value : d \in Pairs'}
  BY DEF AllValues
<1>2. \A d \in Pairs \ {x} : d.value # x.value
  BY DEF OneEach
<1>3. AllValues' = AllValues \ {x.value}
  BY <1>1, <1>2
<1>4. OneEach'
  BY DEF OneEach
<1> QED BY <1>3, <1>4 DEF ValuesOwned

\* A value is at one place.
LEMMA Positions ==
  ASSUME Types, Places, OneEach,
         NEW p \in Bucket, NEW i \in 1..Used(bucket[p]),
         NEW q \in Bucket, NEW j \in 1..Used(bucket[q])
  PROVE  /\ bucket[p].entries[i] \in Pairs /\ bucket[p].entries[i].value \in AllValues
         /\ bucket[p].entries[i].value = bucket[q].entries[j].value => p = q /\ i = j
<1>1. /\ bucket[p].entries \in Seq(Entry) /\ Used(bucket[p]) = Len(bucket[p].entries)
      /\ bucket[q].entries \in Seq(Entry) /\ Used(bucket[q]) = Len(bucket[q].entries)
      /\ DOMAIN bucket[p].entries = 1..Used(bucket[p])
      /\ DOMAIN bucket[q].entries = 1..Used(bucket[q])
  BY BucketParts
<1> DEFINE d == bucket[p].entries[i]
           e == bucket[q].entries[j]
<1>2. /\ d \in ToSet(bucket[p].entries) /\ d \in Pairs
      /\ e \in ToSet(bucket[q].entries) /\ e \in Pairs
  BY <1>1 DEF ToSet, Pairs
<1>3. d.value \in AllValues
  BY <1>2 DEF AllValues
<1>4. ASSUME d.value = e.value PROVE p = q /\ i = j
  <2>1. d = e
    BY <1>2, <1>4 DEF OneEach
  <2>2. p = q
    BY <1>2, <2>1 DEF Places
  <2> DEFINE es == bucket[p].entries
  <2>3. es \in Seq(Entry) /\ Sorted(es) /\ i \in 1..Len(es) /\ j \in 1..Len(es) /\ es[i] = es[j]
    BY <1>1, <2>1, <2>2 DEF Places
  <2> HIDE DEF es
  <2>4. es[i].key \in Nat /\ es[j].key \in Nat /\ i \in Nat /\ j \in Nat
    BY <2>3, Keys
  <2>5. ~(i < j) /\ ~(j < i)
    BY <2>3, <2>4 DEF Sorted
  <2> QED BY <2>2, <2>4, <2>5
<1> QED BY <1>2, <1>3, <1>4

\* Every value is at some place.
LEMMA PositionOf ==
  ASSUME Types, Places, NEW v \in AllValues
  PROVE  \E p \in Bucket : \E i \in 1..Used(bucket[p]) : bucket[p].entries[i].value = v
<1>1. PICK e \in Pairs : e.value = v
  BY DEF AllValues
<1>2. PICK p \in Bucket : e \in ToSet(bucket[p].entries)
  BY DEF Pairs
<1>3. DOMAIN bucket[p].entries = 1..Used(bucket[p])
  BY BucketParts
<1> QED BY <1>1, <1>2, <1>3 DEF ToSet

\* What is appended to a sequence
LEMMA Appended ==
  ASSUME NEW S, NEW s \in Seq(S), NEW v \in S
  PROVE  /\ ToSet(Append(s, v)) = ToSet(s) \cup {v}
         /\ (\A i, j \in 1..Len(s) : s[i] = s[j] => i = j) /\ v \notin ToSet(s) =>
              \A i, j \in 1..Len(Append(s, v)) : Append(s, v)[i] = Append(s, v)[j] => i = j
<1> DEFINE t == Append(s, v)
<1>1. /\ t \in Seq(S) /\ Len(t) = Len(s) + 1 /\ Len(s) \in Nat
      /\ \A i \in 1..Len(s) : t[i] = s[i]
      /\ t[Len(s) + 1] = v
  OBVIOUS
<1>2. DOMAIN s = 1..Len(s) /\ DOMAIN t = 1..Len(s)+1
  BY <1>1
<1> HIDE DEF t
<1>3. \A i \in 1..Len(s)+1 : i \in 1..Len(s) \/ i = Len(s) + 1
  BY <1>1
<1>4. ToSet(t) = ToSet(s) \cup {v}
  BY <1>1, <1>2, <1>3 DEF ToSet
<1>5. ASSUME \A i, j \in 1..Len(s) : s[i] = s[j] => i = j, v \notin ToSet(s)
      PROVE  \A i, j \in 1..Len(s)+1 : t[i] = t[j] => i = j
  <2>1. \A i \in 1..Len(s) : s[i] # v
    BY <1>2, <1>5 DEF ToSet
  <2> QED BY <1>1, <1>3, <1>5, <2>1
<1> QED BY <1>1, <1>4, <1>5 DEF t

\* Entry i of bucket q is all that is before <<b, m>> and not before <<p, n>>.
Follows(p, n, q, i, b, m) ==
  /\ ~Before(q, i, p, n)
  /\ \A r \in Bucket : \A j \in 1..Used(bucket[r]) :
       Before(r, j, b, m) <=> Before(r, j, p, n) \/ (r = q /\ j = i)

\* What has been passed when the iterator goes one entry further
LEMMA PassedNext ==
  ASSUME Types, Places, OneEach, NEW p, NEW n,
         NEW q \in Bucket, NEW i \in 1..Used(bucket[q]), NEW b, NEW m,
         Follows(p, n, q, i, b, m)
  PROVE  /\ Passed(b, m) = Passed(p, n) \cup {bucket[q].entries[i].value}
         /\ bucket[q].entries[i].value \notin Passed(p, n)
<1> DEFINE v == bucket[q].entries[i].value
<1>1. v \in AllValues
  BY Positions
<1>2. \A r \in Bucket : \A j \in 1..Used(bucket[r]) : bucket[r].entries[j].value = v => r = q /\ j = i
  BY Positions
<1>3. v \notin Passed(p, n)
  BY <1>2 DEF Passed, Follows
<1>4. Passed(b, m) \subseteq Passed(p, n) \cup {v}
  BY DEF Passed, Follows
<1>5. Passed(p, n) \cup {v} \subseteq Passed(b, m)
  BY <1>1 DEF Passed, Follows
<1> QED BY <1>3, <1>4, <1>5

\* An iteration that goes on has returned one value more, which is the next.
LEMMA IterNextKeeps ==
  ASSUME Types, Places, OneEach, ValuesOwned, Iteration, ~NotIterating, IterNext
  PROVE  Iteration'
<1> DEFINE p == iter.bucket
           e == iter.entry + 1
           q == iter'.bucket
           s == iter.seen
<1>1. /\ iter.entry \in Int /\ s \in Seq(Value) /\ p \in Nat /\ NBuckets \in Nat
      /\ p \in Bucket
  BY BucketsType DEF Types, NotIterating, Bucket
<1>2. /\ e \in 0..Used(bucket[p]) /\ ToSet(s) = Passed(p, e)
      /\ \A i, j \in 1..Len(s) : s[i] = s[j] => i = j
  BY DEF Iteration
<1>3. Used(bucket[p]) \in Nat /\ e \in Nat
  <2>1. Used(bucket[p]) \in Nat
    BY <1>1, BucketParts, Zenon
  <2> HIDE DEF p, e
  <2> QED BY <1>2, <2>1
<1>4. /\ Types' /\ bucket' = bucket
      /\ e < Used(bucket[p]) =>
                     /\ q = p /\ iter'.entry = e
                     /\ iter'.seen = Append(s, bucket[p].entries[e+1].value)
      /\ e >= Used(bucket[p]) =>
                     /\ q \in p+1..NBuckets /\ iter'.entry = 0
                     /\ \A r \in p+1..q-1 : Used(bucket[r]) = 0
                     /\ q = NBuckets => iter'.seen = s
                     /\ q < NBuckets =>
                          /\ Used(bucket[q]) > 0
                          /\ iter'.seen = Append(s, bucket[q].entries[1].value)
  BY <1>1, <1>2, <1>3, IterStep
<1>5. iter' \in [bucket : Nat, entry : Int, seen : Seq(Value)]
  BY <1>4 DEF Types
<1>10. ASSUME NEW r \in Bucket PROVE r \in Nat /\ r <= NBuckets - 1 /\ Used(bucket[r]) \in Nat
  <2>1. Used(bucket[r]) \in Nat
    BY BucketParts, Zenon
  <2> QED BY <1>1, <2>1 DEF Bucket
<1> HIDE DEF p, e, q, s
<1>6. CASE e < Used(bucket[p])
  <2> DEFINE v == bucket[p].entries[e+1].value
  <2>1. q = p /\ iter'.entry = e /\ iter'.seen = Append(s, v)
    BY <1>4, <1>6
  <2>2. e + 1 \in 1..Used(bucket[p])
    BY <1>3, <1>6
  <2>3. \A r \in Bucket : \A j \in 1..Used(bucket[r]) :
           Before(r, j, p, e + 1) <=> Before(r, j, p, e) \/ (r = p /\ j = e + 1)
    BY <1>3 DEF Before
  <2>4. ~Before(p, e + 1, p, e)
    BY <1>1, <1>3 DEF Before
  <2>5. Passed(p, e + 1) = Passed(p, e) \cup {v} /\ v \notin Passed(p, e)
    <3>1. Follows(p, e, p, e + 1, p, e + 1)
      BY <2>3, <2>4 DEF Follows
    <3> QED BY <1>1, <2>2, <3>1, PassedNext
  <2>6. v \in Value
    BY <1>1, <2>2, Positions DEF ValuesOwned, Types
  <2> HIDE DEF v
  <2>7. /\ ToSet(iter'.seen) = Passed(p, e + 1)
        /\ \A i, j \in 1..Len(iter'.seen) : iter'.seen[i] = iter'.seen[j] => i = j
    <3>1. /\ ToSet(Append(s, v)) = ToSet(s) \cup {v}
          /\ \A i, j \in 1..Len(Append(s, v)) : Append(s, v)[i] = Append(s, v)[j] => i = j
      BY <1>1, <1>2, <2>5, <2>6, Appended
    <3> QED BY <1>2, <2>1, <2>5, <3>1, Zenon
  <2>8. ~(NotIterating')
    BY <2>1 DEF NotIterating, p, q
  <2> QED BY <1>4, <2>1, <2>2, <2>7, <2>8 DEF Iteration, Passed, AllValues, Pairs, q
<1>7. CASE e >= Used(bucket[p]) /\ q < NBuckets
  <2> DEFINE v == bucket[q].entries[1].value
  <2>1. /\ iter'.entry = 0 /\ iter'.seen = Append(s, v) /\ q \in p+1..NBuckets
        /\ Used(bucket[q]) > 0 /\ \A r \in p+1..q-1 : Used(bucket[r]) = 0
    BY <1>4, <1>7
  <2>2. q \in Bucket /\ q \in Nat
    BY <1>1, <1>7, <2>1 DEF Bucket
  <2>3. 1 \in 1..Used(bucket[q])
    BY <1>10, <2>1, <2>2
  <2>4. \A r \in Bucket : \A j \in 1..Used(bucket[r]) :
           Before(r, j, q, 1) <=> Before(r, j, p, e) \/ (r = q /\ j = 1)
    <3> SUFFICES ASSUME NEW r \in Bucket, NEW j \in 1..Used(bucket[r])
                 PROVE  Before(r, j, q, 1) <=> Before(r, j, p, e) \/ (r = q /\ j = 1)
      OBVIOUS
    <3>1. r \in Nat /\ Used(bucket[r]) \in Nat /\ j \in Nat
      BY <1>10
    <3>2. ~(r \in p+1..q-1)
      BY <2>1, <3>1
    <3>3. r <= p \/ r >= q
      BY <1>1, <2>2, <3>1, <3>2
    <3>4. r = p => j <= e
      BY <1>3, <1>7, <3>1
    <3> QED BY <1>1, <1>3, <2>1, <2>2, <3>1, <3>3, <3>4 DEF Before
  <2>5. ~Before(q, 1, p, e)
    BY <1>1, <2>1, <2>2 DEF Before
  <2>6. Passed(q, 1) = Passed(p, e) \cup {v} /\ v \notin Passed(p, e)
    <3>1. Follows(p, e, q, 1, q, 1)
      BY <2>4, <2>5 DEF Follows
    <3> QED BY <2>2, <2>3, <3>1, PassedNext
  <2>7. v \in Value
    BY <2>2, <2>3, Positions DEF ValuesOwned, Types
  <2> HIDE DEF v
  <2>8. /\ ToSet(iter'.seen) = Passed(q, 1)
        /\ \A i, j \in 1..Len(iter'.seen) : iter'.seen[i] = iter'.seen[j] => i = j
    <3>1. /\ ToSet(Append(s, v)) = ToSet(s) \cup {v}
          /\ \A i, j \in 1..Len(Append(s, v)) : Append(s, v)[i] = Append(s, v)[j] => i = j
      BY <1>1, <1>2, <2>6, <2>7, Appended
    <3> QED BY <1>2, <2>1, <2>6, <3>1, Zenon
  <2>9. ~(NotIterating')
    BY <1>1, <1>7, <2>2 DEF NotIterating, q
  <2> QED BY <1>4, <2>1, <2>3, <2>8, <2>9 DEF Iteration, Passed, AllValues, Pairs, q
<1>8. CASE e >= Used(bucket[p]) /\ q >= NBuckets
  <2>1. /\ q = NBuckets /\ iter'.seen = s /\ \A r \in p+1..NBuckets-1 : Used(bucket[r]) = 0
    BY <1>1, <1>4, <1>8
  <2>2. AllValues \subseteq Passed(p, e)
    <3> SUFFICES ASSUME NEW v \in AllValues PROVE v \in Passed(p, e)
      OBVIOUS
    <3>1. PICK r \in Bucket : \E j \in 1..Used(bucket[r]) : bucket[r].entries[j].value = v
      BY PositionOf
    <3>0. PICK j \in 1..Used(bucket[r]) : bucket[r].entries[j].value = v
      BY <3>1
    <3>2. r \in Nat /\ r <= NBuckets - 1 /\ Used(bucket[r]) \in Nat /\ j \in Nat
      BY <1>10
    <3>3. ~(r \in p+1..NBuckets-1)
      BY <2>1, <3>2
    <3>4. Before(r, j, p, e)
      BY <1>1, <1>3, <1>8, <3>2, <3>3 DEF Before
    <3> QED BY <3>0, <3>4 DEF Passed
  <2>3. ToSet(s) = AllValues
    BY <1>2, <2>2 DEF Passed
  <2>4. NotIterating'
    BY <1>1, <2>1 DEF NotIterating, q
  <2>5. AllValues' = AllValues
    BY <1>4 DEF AllValues, Pairs
  <2>6. ToSet(iter'.seen) = AllValues' /\ \A i, j \in 1..Len(iter'.seen) : iter'.seen[i] = iter'.seen[j] => i = j
    BY <1>2, <2>1, <2>3, <2>5
  <2> QED BY <2>4, <2>6 DEF Iteration
<1>9. q \in Nat
  BY <1>5 DEF q
<1> QED BY <1>1, <1>3, <1>6, <1>7, <1>8, <1>9

\* A call that changes the table gives the iterator up.
LEMMA IterReset ==
  ASSUME iter' = NoIter
  PROVE  Iteration'
<1>1. NoIter.seen = << >> /\ NoIter.bucket = NBuckets /\ NBuckets \in Nat
  BY BucketsType DEF NoIter
<1>2. NotIterating'
  BY <1>1 DEF NotIterating
<1>3. Len(iter'.seen) = 0
  BY <1>1
<1>4. iter' = NoIter'
  BY DEF NoIter
<1>5. \A i, j \in 1..Len(iter'.seen) : iter'.seen[i] = iter'.seen[j] => i = j
  BY <1>3
<1> QED BY <1>2, <1>4, <1>5 DEF Iteration

\* A call that keeps the entries does not disturb an iteration.
LEMMA IterSame ==
  ASSUME Types, Iteration, iter' = iter, Pairs' = Pairs,
         \A q \in Bucket : bucket'[q].entries = bucket[q].entries
  PROVE  Iteration'
<1>1. \A q \in Bucket : Used(bucket'[q]) = Used(bucket[q])
  BY DEF Used
<1>2. AllValues' = AllValues
  BY DEF AllValues
<1>3. iter.bucket \in Nat /\ NBuckets \in Nat
  BY BucketsType DEF Types
<1>4. NotIterating' <=> NotIterating
  BY DEF NotIterating
<1>5. NoIter' = NoIter
  BY DEF NoIter
<1>6. ASSUME NEW p, NEW n
      PROVE  Passed(p, n) = {v \in AllValues' : \E q \in Bucket : \E j \in 1..Used(bucket'[q]) :
                               bucket'[q].entries[j].value = v /\ Before(q, j, p, n)}
  BY <1>1, <1>2 DEF Passed
<1>7. ~NotIterating => iter.bucket \in Bucket
  BY <1>3 DEF NotIterating, Bucket
<1>8. ASSUME ~(NotIterating')
      PROVE  /\ iter'.entry + 1 \in 0..Used(bucket'[iter'.bucket])
             /\ ToSet(iter'.seen) = {v \in AllValues' : \E q \in Bucket : \E j \in 1..Used(bucket'[q]) :
                    bucket'[q].entries[j].value = v /\ Before(q, j, iter'.bucket, iter'.entry + 1)}
  BY <1>1, <1>4, <1>6, <1>7, <1>8 DEF Iteration
<1>9. NotIterating' => iter' = NoIter' \/ ToSet(iter'.seen) = AllValues'
  BY <1>2, <1>4, <1>5 DEF Iteration
<1>10. \A i, j \in 1..Len(iter'.seen) : iter'.seen[i] = iter'.seen[j] => i = j
  BY DEF Iteration
<1> QED BY <1>8, <1>9, <1>10 DEF Iteration, Passed, Before

\* Before its first call an iterator has passed nothing.
LEMMA IterInitKeeps ==
  ASSUME Types, IterInit
  PROVE  Types' /\ Iteration'
<1>1. NBuckets \in Nat \ {0} /\ 0 \in Bucket
  BY BucketsType DEF Bucket
<1>2. /\ iter' = [bucket |-> 0, entry |-> -1, seen |-> << >>] /\ bucket' = bucket /\ live' = live
  BY DEF IterInit
<1>3. Types'
  BY <1>2 DEF Types
<1>4. ~(NotIterating')
  BY <1>1, <1>2 DEF NotIterating
<1>5. Used(bucket[0]) \in Nat /\ \A q \in Bucket : q \in Nat
  <2>1. Used(bucket[0]) \in Nat
    BY <1>1, BucketParts, Zenon
  <2> QED BY <2>1 DEF Bucket
<1>6. \A q \in Bucket : \A j \in 1..Used(bucket[q]) : ~Before(q, j, 0, 0)
  BY <1>5 DEF Before
<1>7. Passed(0, 0) = {}
  BY <1>6 DEF Passed
<1>8. Passed(iter'.bucket, iter'.entry + 1) = {} /\ iter'.entry + 1 = 0 /\ iter'.bucket = 0
  BY <1>2, <1>7
<1>9. ToSet(iter'.seen) = {} /\ Len(iter'.seen) = 0
  BY <1>2 DEF ToSet
<1>10. \A i, j \in 1..Len(iter'.seen) : iter'.seen[i] = iter'.seen[j] => i = j
  BY <1>9
<1>11. iter'.entry + 1 \in 0..Used(bucket'[iter'.bucket])
  BY <1>2, <1>5, <1>8
<1>12. ToSet(iter'.seen) = {v \in AllValues' : \E q \in Bucket : \E j \in 1..Used(bucket'[q]) :
                    bucket'[q].entries[j].value = v /\ Before(q, j, iter'.bucket, iter'.entry + 1)}
  BY <1>2, <1>6, <1>8, <1>9
<1> QED BY <1>3, <1>4, <1>10, <1>11, <1>12 DEF Iteration, Passed, Before

\* hash_new
LEMMA HashInitInv == HashInit => HashInv
<1> SUFFICES ASSUME HashInit PROVE HashInv
  OBVIOUS
<1>1. Types /\ Places /\ Pairs = {} /\ live = {}
  BY InitStep
<1>2. OneEach /\ ValuesOwned
  BY <1>1 DEF OneEach, ValuesOwned, AllValues
<1>3. NoIter.seen = << >> /\ NoIter.bucket = NBuckets /\ NBuckets \in Nat /\ iter = NoIter
  BY BucketsType DEF NoIter, HashInit
<1>4. NotIterating /\ Len(iter.seen) = 0
  BY <1>3 DEF NotIterating
<1>5. Iteration
  BY <1>3, <1>4 DEF Iteration
<1> QED BY <1>1, <1>2, <1>5 DEF HashInv

\* Every call keeps the invariant.
LEMMA HashStep == HashInv /\ [HashNext]_hashVars => HashInv'
<1> SUFFICES ASSUME HashInv, [HashNext]_hashVars PROVE HashInv'
  OBVIOUS
<1>1. Types /\ Places /\ OneEach /\ ValuesOwned /\ Iteration
  BY DEF HashInv
<1>2. ASSUME UNCHANGED <<bucket, live, iter>> PROVE HashInv'
  <2>1. bucket' = bucket /\ live' = live /\ iter' = iter
    BY <1>2
  <2>2. Pairs' = Pairs
    BY <2>1 DEF Pairs
  <2>3. OneEach' /\ ValuesOwned'
    BY <1>1, <2>1, <2>2 DEF OneEach, ValuesOwned, AllValues
  <2>4. Types' /\ Places'
    BY <1>1, <2>1 DEF Types, Places
  <2>5. Iteration'
    BY <1>1, <2>1, <2>2, IterSame
  <2> QED BY <2>3, <2>4, <2>5 DEF HashInv
<1>3. CASE UNCHANGED hashVars
  BY <1>2, <1>3 DEF hashVars
<1>4. ASSUME NEW k \in HashKey, NEW v \in Value, AddNoMem(k, v) PROVE HashInv'
  BY <1>2, <1>4 DEF AddNoMem
<1>5. ASSUME NEW k \in HashKey, NEW v \in Value, AddNewEntry(k, v) PROVE HashInv'
  <2>1. /\ Types' /\ Places' /\ Pairs' = Pairs \cup {[key |-> k, value |-> v]}
    BY <1>1, <1>5, AddNewStep
  <2>2. v \notin live /\ live' = live \cup {v} /\ iter' = NoIter
    BY <1>5 DEF AddNewEntry
  <2>3. OneEach' /\ ValuesOwned'
    BY <1>1, <2>1, <2>2, OwnedNew
  <2> QED BY <2>1, <2>2, <2>3, IterReset DEF HashInv
<1>6. ASSUME NEW k \in HashKey, NEW v \in Value, AddReplace(k, v) PROVE HashInv'
  <2>1. Types' /\ Places'
    BY <1>1, <1>6, AddReplaceStep
  <2>2. PICK x \in Pairs : /\ Pairs' = (Pairs \ {x}) \cup {[key |-> k, value |-> v]}
                           /\ live' = (IF FreeValue THEN live \ {x.value} ELSE live) \cup {v}
    BY <1>1, <1>6, AddReplaceStep
  <2>3. v \notin live /\ iter' = NoIter
    BY <1>6 DEF AddReplace
  <2>4. OneEach' /\ ValuesOwned'
    BY <1>1, <2>2, <2>3, OwnedReplaced
  <2> QED BY <2>1, <2>3, <2>4, IterReset DEF HashInv
<1>7. ASSUME NEW k \in HashKey, NEW v \in Value, AddExists(k, v) PROVE HashInv'
  <2>1. /\ Types' /\ Places' /\ Pairs' = Pairs
        /\ \A q \in Bucket : bucket'[q].entries = bucket[q].entries
    BY <1>1, <1>7, AddExistsStep
  <2>2. live' = live /\ iter' = iter
    BY <1>7 DEF AddExists
  <2>3. OneEach' /\ ValuesOwned'
    BY <1>1, <2>1, <2>2 DEF OneEach, ValuesOwned, AllValues
  <2>4. Iteration'
    BY <1>1, <2>1, <2>2, IterSame
  <2> QED BY <2>1, <2>3, <2>4 DEF HashInv
<1>8. ASSUME NEW k \in HashKey, Find(k) PROVE HashInv'
  BY <1>2, <1>8 DEF Find
<1>9. ASSUME NEW k \in HashKey, Del(k) PROVE HashInv'
  <2>1. Types' /\ Places'
    BY <1>1, <1>9, DelStep
  <2>2. PICK x \in Pairs : Pairs' = Pairs \ {x} /\ live' = live \ {x.value}
    BY <1>1, <1>9, DelStep
  <2>3. OneEach' /\ ValuesOwned'
    BY <1>1, <2>2, OwnedRemoved
  <2>4. iter' = NoIter
    BY <1>9 DEF Del
  <2> QED BY <2>1, <2>3, <2>4, IterReset DEF HashInv
<1>10. ASSUME NEW k \in HashKey, DelMissing(k) PROVE HashInv'
  BY <1>2, <1>10 DEF DelMissing
<1>11. CASE Free
  <2>1. Types' /\ Places' /\ Pairs' = {} /\ live' = live \ AllValues
    BY <1>1, <1>11, FreeStep
  <2>2. OneEach' /\ ValuesOwned'
    BY <1>1, <2>1 DEF OneEach, ValuesOwned, AllValues
  <2>3. iter' = NoIter
    BY <1>11 DEF Free
  <2> QED BY <2>1, <2>2, <2>3, IterReset DEF HashInv
<1>12. CASE IterInit
  <2>1. Types' /\ Iteration'
    BY <1>1, <1>12, IterInitKeeps
  <2>2. bucket' = bucket /\ live' = live
    BY <1>12 DEF IterInit
  <2>3. Pairs' = Pairs /\ Places'
    BY <1>1, <2>2 DEF Pairs, Places
  <2>4. OneEach' /\ ValuesOwned'
    BY <1>1, <2>2, <2>3 DEF OneEach, ValuesOwned, AllValues
  <2> QED BY <2>1, <2>3, <2>4 DEF HashInv
<1>13. CASE IterNext
  <2>1. ~NotIterating /\ bucket' = bucket /\ live' = live
    BY <1>13 DEF IterNext
  <2>2. iter.entry >= -1 /\ iter.entry < Used(bucket[iter.bucket])
    <3>1. iter.entry + 1 \in 0..Used(bucket[iter.bucket]) /\ iter.entry \in Int
      BY <1>1, <2>1 DEF Iteration, Types
    <3>2. iter.bucket \in Bucket
      BY <1>1, <2>1, BucketsType DEF Types, NotIterating, Bucket
    <3>3. Used(bucket[iter.bucket]) \in Nat
      BY <1>1, <3>2, BucketParts
    <3> QED BY <3>1, <3>3
  <2>3. Types'
    BY <1>1, <1>13, <2>1, <2>2, IterStep
  <2>4. Pairs' = Pairs /\ Places'
    BY <1>1, <2>1 DEF Pairs, Places
  <2>5. OneEach' /\ ValuesOwned'
    BY <1>1, <2>1, <2>4 DEF OneEach, ValuesOwned, AllValues
  <2>6. Iteration'
    BY <1>1, <1>13, <2>1, IterNextKeeps
  <2> QED BY <2>3, <2>4, <2>5, <2>6 DEF HashInv
<1> QED BY <1>3, <1>4, <1>5, <1>6, <1>7, <1>8, <1>9, <1>10, <1>11, <1>12, <1>13 DEF HashNext

THEOREM HashAlways == HashSpec => []HashInv
BY HashInitInv, HashStep, PTL DEF HashSpec

\* Memory of values: what is in the table is allocated, and a table that frees its values
\* (hash->free_value) leaves none behind when it replaces, removes or is freed.
THEOREM ValuesAlwaysOwned == HashSpec => []ValuesOwned
<1>1. HashInv => ValuesOwned
  BY DEF HashInv
<1> QED BY <1>1, HashAlways, PTL

\* The length of a sequence without duplicates is the number of its elements.
LEMMA DistinctLength ==
  ASSUME NEW S, NEW s \in Seq(S), \A i, j \in 1..Len(s) : s[i] = s[j] => i = j
  PROVE  Cardinality(ToSet(s)) = Len(s)
<1> DEFINE n == Len(s)
           fun == [i \in 1..n |-> s[i]]
<1>1. n \in Nat /\ DOMAIN s = 1..n
  OBVIOUS
<1>2. ToSet(s) = {s[i] : i \in 1..n}
  BY <1>1 DEF ToSet
<1>3. fun \in Bijection(1..n, ToSet(s))
  BY <1>2 DEF Bijection, Injection, Surjection, IsInjective
<1>4. ExistsBijection(1..n, ToSet(s))
  BY <1>3 DEF ExistsBijection
<1>5. IsFiniteSet(1..n) /\ Cardinality(1..n) = n
  BY <1>1, FS_Interval, SMTT(30)
<1> QED BY <1>4, <1>5, FS_Bijection

\* hash_iter_next: an iteration returns values of the table, each once, and when it ends
\* it has returned all.
THEOREM IterAlwaysComplete == HashSpec => []IterComplete
<1>1. HashInv => IterComplete
  <2> SUFFICES ASSUME HashInv PROVE IterComplete
    OBVIOUS
  <2>1. Types /\ Iteration
    BY DEF HashInv
  <2>2. iter.seen \in Seq(Value)
    BY <2>1 DEF Types
  <2>3. Cardinality(ToSet(iter.seen)) = Len(iter.seen)
    BY <2>1, <2>2, DistinctLength DEF Iteration
  <2>4. CASE NotIterating
    <3>1. iter = NoIter => ToSet(iter.seen) = {}
      BY DEF NoIter, ToSet
    <3> QED BY <2>1, <2>3, <2>4, <3>1 DEF Iteration, IterComplete
  <2>5. CASE ~NotIterating
    BY <2>1, <2>3, <2>5 DEF Iteration, IterComplete, Passed
  <2> QED BY <2>4, <2>5
<1> QED BY <1>1, HashAlways, PTL

----------------------------------------------------------------------------
(* The slot behind the used ones.                                          *)

\* Memory of one bucket is enough for hash_del.
Roomy(b) == Used(b) < b.total \/ (Used(b) = 0 /\ b.total = 0)

\* Room is made for two entries, unless a step is only one.
LEMMA GrowRoomy ==
  ASSUME NEW b \in Total, Roomy(b), Step > 1, NEW c \in Total,
         c.total = Grow(b).total, Used(c) <= Used(b) + 1
  PROVE  Roomy(c)
<1>1. Step \in Nat
  BY BucketsType DEF Step
<1>2. Used(b) \in Nat /\ b.total \in Nat /\ Used(c) \in Nat
  BY DEF Used, Total
<1>3. Grow(b).total = IF Used(b) + 1 >= b.total THEN b.total + Step ELSE b.total
  BY GrowKeeps
<1> QED BY <1>1, <1>2, <1>3 DEF Roomy

\* A number is less than the next multiple.
LEMMA NextMultiple ==
  ASSUME NEW a \in Nat, NEW d \in Nat \ {0}
  PROVE  a < ((a \div d) + 1) * d
<1>1. a = d * (a \div d) + (a % d) /\ a % d \in 0..d-1 /\ a \div d \in Nat
  OBVIOUS
<1> QED BY <1>1

\* A step more than what is in use is kept.
LEMMA ShrinkRoomy ==
  ASSUME NEW b \in Total, Used(b) < b.total
  PROVE  Roomy(Shrink(b))
<1>1. Step \in Nat \ {0}
  BY BucketsType DEF Step
<1>2. b.total \in Nat /\ Used(b) \in Nat /\ b = [entries |-> b.entries, total |-> b.total]
  BY DEF Total, Used
<1> DEFINE u == Used(b) \div Step
<1>3. Used(b) < (u + 1) * Step
  BY <1>1, <1>2, NextMultiple
<1>4. Shrink(b) = IF u + 1 < b.total \div Step
                  THEN [entries |-> b.entries, total |-> (u + 1) * Step] ELSE b
  BY <1>2 DEF Shrink
<1>5. Used(Shrink(b)) = Used(b)
  BY ShrinkKeeps DEF Used
<1> QED BY <1>3, <1>4, <1>5 DEF Roomy

LEMMA SlackIsRoomy == Slack <=> \A p \in Bucket : Roomy(bucket[p])
BY DEF Slack, Roomy

\* A call changes one bucket, or makes all anew.
LEMMA SlackStep ==
  ASSUME HashInv, Slack, Step > 1, [HashNext]_hashVars
  PROVE  Slack'
<1>1. Types /\ Places
  BY DEF HashInv
<1>2. \A p \in Bucket : Roomy(bucket[p])
  BY SlackIsRoomy
<1>3. ASSUME NEW p \in Bucket, NEW c, Roomy(c), bucket' = [bucket EXCEPT ![p] = c] PROVE Slack'
  <2>1. \A q \in Bucket : bucket'[q] = IF q = p THEN c ELSE bucket[q]
    BY <1>1, <1>3 DEF Types
  <2>2. \A q \in Bucket : Roomy(bucket'[q])
    BY <1>2, <1>3, <2>1
  <2> QED BY <2>2 DEF Slack, Roomy
<1>4. ASSUME bucket' = bucket PROVE Slack'
  BY <1>4 DEF Slack
<1>5. ASSUME NEW k \in HashKey, NEW v \in Value, AddNewEntry(k, v) PROVE Slack'
  <2> DEFINE p == HashOf[k]
             b == bucket[p]
             c == Insert(Grow(b), k, v)
  <2>1. p \in Bucket /\ b \in Total /\ Sorted(b.entries) /\ Roomy(b)
    BY <1>1, <1>2, BucketOf, BucketParts DEF Places
  <2>2. bucket' = [bucket EXCEPT ![p] = c] /\ ~Found(b.entries, k)
    BY <1>5 DEF AddNewEntry
  <2>3. c \in Total /\ Used(c) = Used(b) + 1 /\ c.total = Grow(b).total
    BY <2>1, <2>2, InsertKeeps
  <2> HIDE DEF c, b
  <2>4. Roomy(c)
    <3>1. Used(b) \in Nat
      BY <2>1 DEF Used, Total
    <3> QED BY <2>1, <2>3, <3>1, GrowRoomy
  <2> QED BY <1>3, <2>1, <2>2, <2>4
<1>6. ASSUME NEW k \in HashKey, NEW v \in Value, AddReplace(k, v) PROVE Slack'
  <2> DEFINE p == HashOf[k]
             b == bucket[p]
             es == b.entries
             i == Scan(es, k)
             new == [es EXCEPT ![i].value = v]
             c == [entries |-> new, total |-> Grow(b).total]
  <2>1. p \in Bucket /\ b \in Total /\ Sorted(es) /\ Roomy(b) /\ es \in Seq(Entry)
    BY <1>1, <1>2, BucketOf, BucketParts DEF Places
  <2>2. i \in 1..Len(es)
    BY <1>6, <2>1, FoundThere DEF AddReplace
  <2>3. new \in Seq(Entry) /\ Len(new) = Len(es)
    <3> HIDE DEF es, i
    <3> QED BY <2>1, <2>2, ReplacePlace
  <2>4. Grow(b) \in Total /\ Grow(b) = [entries |-> es, total |-> Grow(b).total]
    BY <2>1, GrowKeeps
  <2>9. [Grow(b) EXCEPT !.entries[i].value = v] = c
    BY <2>4
  <2>5. bucket' = [bucket EXCEPT ![p] = c]
    BY <1>6, <2>9 DEF AddReplace
  <2>6. Grow(b).total \in Nat /\ Used(b) \in Nat /\ Used(b) = Len(es)
    BY <2>1, <2>4 DEF Total, Used
  <2> HIDE DEF new, es, b
  <2>7. c \in Total /\ Used(c) <= Used(b) + 1 /\ c.total = Grow(b).total
    BY <2>3, <2>6 DEF Total, Used
  <2> HIDE DEF c
  <2>8. Roomy(c)
    BY <2>1, <2>7, GrowRoomy
  <2> QED BY <1>3, <2>1, <2>5, <2>8
<1>7. ASSUME NEW k \in HashKey, NEW v \in Value, AddExists(k, v) PROVE Slack'
  <2> DEFINE p == HashOf[k]
             b == bucket[p]
             c == Grow(b)
  <2>1. p \in Bucket /\ b \in Total /\ Roomy(b)
    BY <1>1, <1>2, BucketOf, BucketParts DEF Places
  <2>2. bucket' = [bucket EXCEPT ![p] = c]
    BY <1>7 DEF AddExists
  <2>3. c \in Total /\ Used(c) = Used(b) /\ Used(b) \in Nat
    <3>1. c \in Total /\ c.entries = b.entries
      BY <2>1, GrowKeeps
    <3>2. b.entries \in Seq(Entry)
      BY <2>1 DEF Total
    <3> HIDE DEF c, b
    <3> QED BY <3>1, <3>2 DEF Used
  <2>4. Roomy(c)
    BY <2>1, <2>3, GrowRoomy
  <2> QED BY <1>3, <2>1, <2>2, <2>4
<1>8. ASSUME NEW k \in HashKey, Del(k) PROVE Slack'
  <2> DEFINE p == HashOf[k]
             b == bucket[p]
             es == b.entries
             i == BSearch(es, k)
             new == RemoveAt(es, i)
             left == [b EXCEPT !.entries = new]
  <2>1. /\ p \in Bucket /\ b \in Total /\ es \in Seq(Entry) /\ Sorted(es) /\ Roomy(b)
        /\ b.total \in Nat /\ b = [entries |-> es, total |-> b.total]
        /\ Used(b) = Len(es)
    BY <1>1, <1>2, BucketOf, BucketParts DEF Places
  <2>2. i \in 1..Len(es)
    BY <1>8, <2>1, BSearchFinds DEF Del
  <2>3. new \in Seq(Entry) /\ Len(new) = Len(es) - 1 /\ Len(es) \in Nat
    <3> HIDE DEF es, i
    <3> QED BY <2>1, <2>2, RemovePlace
  <2>4. left = [entries |-> new, total |-> b.total]
    BY <2>1
  <2>5. PICK c \in {left, Shrink(left)} : bucket' = [bucket EXCEPT ![p] = c]
    BY <1>8 DEF Del
  <2> HIDE DEF new, left, es, b
  <2>6. left \in Total /\ Used(left) < left.total
    <3>1. left \in Total /\ Used(left) = Len(es) - 1 /\ left.total = b.total
      BY <2>1, <2>3, <2>4 DEF Total, Used
    <3>2. Len(es) > 0
      BY <2>2, <2>3
    <3> QED BY <2>1, <2>3, <3>1, <3>2 DEF Roomy
  <2>7. Roomy(c)
    BY <2>5, <2>6, ShrinkRoomy DEF Roomy
  <2> QED BY <1>3, <2>1, <2>5, <2>7
<1>9. CASE Free
  <2>1. Roomy(EmptyBucket)
    BY DEF Roomy, EmptyBucket, Used
  <2>2. \A q \in Bucket : Roomy(bucket'[q])
    BY <1>9, <2>1 DEF Free
  <2> QED BY <2>2 DEF Slack, Roomy
<1>10. CASE UNCHANGED hashVars \/ IterInit \/ IterNext
  BY <1>4, <1>10 DEF hashVars, IterInit, IterNext
<1>11. ASSUME NEW k \in HashKey, NEW v \in Value, AddNoMem(k, v) PROVE Slack'
  BY <1>4, <1>11 DEF AddNoMem
<1>12. ASSUME NEW k \in HashKey, Find(k) \/ DelMissing(k) PROVE Slack'
  BY <1>4, <1>12 DEF Find, DelMissing
<1> QED BY <1>5, <1>6, <1>7, <1>8, <1>9, <1>10, <1>11, <1>12 DEF HashNext

\* hash_del moves one entry more than it has to, the slot behind the last used one: it is
\* always a part of the memory of the bucket, but in a table of 32 to 63 buckets, whose
\* step is 1 and whose first entry fills its bucket.
THEOREM SlackAlways == NBuckets \notin 32..63 => (HashSpec => []Slack)
<1> SUFFICES ASSUME NBuckets \notin 32..63 PROVE HashSpec => []Slack
  OBVIOUS
<1>1. Step > 1
  BY BucketsType DEF Step
<1>2. HashInit => Slack
  <2> SUFFICES ASSUME HashInit PROVE Slack
    OBVIOUS
  <2>1. Roomy(EmptyBucket)
    BY DEF Roomy, EmptyBucket, Used
  <2>2. \A q \in Bucket : Roomy(bucket[q])
    BY <2>1 DEF HashInit
  <2> QED BY <2>2, SlackIsRoomy
<1>3. HashInv /\ Slack /\ [HashNext]_hashVars => Slack'
  BY <1>1, SlackStep
<1> QED BY <1>2, <1>3, HashAlways, PTL DEF HashSpec

----------------------------------------------------------------------------
(* The table implements the map.                                           *)

\* Entries of which no two have the same key
OneKey(es) == \A d, e \in es : d.key = e.key => d = e

LEMMA AsMapIs ==
  ASSUME NEW es, OneKey(es)
  PROVE  /\ DOMAIN AsMap(es) = {e.key : e \in es}
         /\ \A e \in es : AsMap(es)[e.key] = e.value
<1>1. \A e \in es : (CHOOSE d \in es : d.key = e.key) = e
  BY DEF OneKey
<1> QED BY <1>1 DEF AsMap

IsMapping(fun) == fun = [k \in DOMAIN fun |-> fun[k]]

\* No other function has the keys and values of the entries.
LEMMA AsMapOnly ==
  ASSUME NEW es, OneKey(es), NEW fun, IsMapping(fun),
         DOMAIN fun = {e.key : e \in es}, \A e \in es : fun[e.key] = e.value
  PROVE  fun = AsMap(es)
<1> DEFINE g == AsMap(es)
<1>1. g = [k \in DOMAIN g |-> g[k]]
  BY DEF AsMap
<1>2. DOMAIN g = DOMAIN fun /\ \A k \in DOMAIN fun : fun[k] = g[k]
  BY AsMapIs
<1> HIDE DEF g
<1>3. [k \in DOMAIN fun |-> fun[k]] = [k \in DOMAIN g |-> g[k]]
  BY <1>2
<1> QED BY <1>1, <1>3, Zenon DEF g, IsMapping

\* A new pair
LEMMA AsMapAdded ==
  ASSUME NEW es, OneKey(es), NEW k, NEW v, \A e \in es : e.key # k
  PROVE  AsMap(es \cup {[key |-> k, value |-> v]}) =
           [j \in DOMAIN AsMap(es) \cup {k} |-> IF j = k THEN v ELSE AsMap(es)[j]]
<1> DEFINE d == [key |-> k, value |-> v]
           new == es \cup {d}
           fun == [j \in DOMAIN AsMap(es) \cup {k} |-> IF j = k THEN v ELSE AsMap(es)[j]]
<1>1. d.key = k /\ d.value = v
  OBVIOUS
<1>2. DOMAIN AsMap(es) = {e.key : e \in es} /\ \A e \in es : AsMap(es)[e.key] = e.value
  BY AsMapIs
<1> HIDE DEF d
<1>3. OneKey(new)
  BY <1>1 DEF OneKey
<1>4. DOMAIN fun = {e.key : e \in new} /\ IsMapping(fun)
  BY <1>1, <1>2 DEF IsMapping
<1>5. \A e \in new : fun[e.key] = e.value
  BY <1>1, <1>2
<1> HIDE DEF fun, new
<1>6. fun = AsMap(new)
  BY <1>3, <1>4, <1>5, AsMapOnly, Zenon
<1> QED BY <1>6 DEF fun, new, d

\* A pair with another value
LEMMA AsMapReplaced ==
  ASSUME NEW es, OneKey(es), NEW k, NEW v, NEW x \in es, x.key = k
  PROVE  AsMap((es \ {x}) \cup {[key |-> k, value |-> v]}) =
           [j \in DOMAIN AsMap(es) \cup {k} |-> IF j = k THEN v ELSE AsMap(es)[j]]
<1> DEFINE d == [key |-> k, value |-> v]
           new == (es \ {x}) \cup {d}
           fun == [j \in DOMAIN AsMap(es) \cup {k} |-> IF j = k THEN v ELSE AsMap(es)[j]]
<1>1. d.key = k /\ d.value = v
  OBVIOUS
<1>2. DOMAIN AsMap(es) = {e.key : e \in es} /\ \A e \in es : AsMap(es)[e.key] = e.value
  BY AsMapIs
<1>3. \A e \in es \ {x} : e.key # k
  BY DEF OneKey
<1> HIDE DEF d
<1>4. OneKey(new)
  BY <1>1, <1>3 DEF OneKey
<1>5. DOMAIN fun = {e.key : e \in new} /\ IsMapping(fun)
  BY <1>1, <1>2 DEF IsMapping
<1>6. \A e \in new : fun[e.key] = e.value
  BY <1>1, <1>2, <1>3
<1> HIDE DEF fun, new
<1>7. fun = AsMap(new)
  BY <1>4, <1>5, <1>6, AsMapOnly, Zenon
<1> QED BY <1>7 DEF fun, new, d

\* A pair less
LEMMA AsMapRemoved ==
  ASSUME NEW es, OneKey(es), NEW x \in es
  PROVE  AsMap(es \ {x}) = [j \in DOMAIN AsMap(es) \ {x.key} |-> AsMap(es)[j]]
<1> DEFINE new == es \ {x}
           fun == [j \in DOMAIN AsMap(es) \ {x.key} |-> AsMap(es)[j]]
<1>1. DOMAIN AsMap(es) = {e.key : e \in es} /\ \A e \in es : AsMap(es)[e.key] = e.value
  BY AsMapIs
<1>2. \A e \in es \ {x} : e.key # x.key
  BY DEF OneKey
<1>3. OneKey(new)
  BY DEF OneKey
<1>4. DOMAIN fun = {e.key : e \in new} /\ IsMapping(fun)
  BY <1>1, <1>2 DEF IsMapping
<1>5. \A e \in new : fun[e.key] = e.value
  BY <1>1, <1>2
<1> HIDE DEF fun, new
<1>6. fun = AsMap(new)
  BY <1>3, <1>4, <1>5, AsMapOnly, Zenon
<1> QED BY <1>6 DEF fun, new

\* hash_new makes an empty map.
LEMMA MapInit == HashInit => Map!Init
<1> SUFFICES ASSUME HashInit PROVE Map!Init
  OBVIOUS
<1>1. Pairs = {}
  BY InitStep
<1>2. Contents = [k \in {} |-> NoValue]
  BY <1>1 DEF Contents, AsMap
<1> QED BY <1>2 DEF Map!Init, HashInit

\* Every call does to the map what it says, or leaves it alone.
LEMMA MapStep == HashInv /\ [HashNext]_hashVars => [Map!Next]_<<Contents, ret>>
<1> SUFFICES ASSUME HashInv, [HashNext]_hashVars PROVE [Map!Next]_<<Contents, ret>>
  OBVIOUS
<1>1. Types /\ Places
  BY DEF HashInv
<1>2. OneKey(Pairs) /\ Pairs \subseteq Entry
  BY <1>1, PairsUnique DEF OneKey
<1>3. Contents = AsMap(Pairs) /\ Contents' = AsMap(Pairs')
  BY DEF Contents
<1>4. /\ DOMAIN Contents = {e.key : e \in Pairs}
      /\ \A e \in Pairs : Contents[e.key] = e.value
  BY <1>2, <1>3, AsMapIs
<1>5. ASSUME bucket' = bucket PROVE Contents' = Contents
  BY <1>5 DEF Contents, Pairs
<1>6. ASSUME NEW k \in HashKey, NEW v \in Value, AddNoMem(k, v) PROVE Map!Put(k, v)
  BY <1>5, <1>6 DEF AddNoMem, Map!Put, Map!Fail
<1>7. ASSUME NEW k \in HashKey, NEW v \in Value, AddNewEntry(k, v) PROVE Map!Put(k, v)
  <2>1. Pairs' = Pairs \cup {[key |-> k, value |-> v]} /\ \A e \in Pairs : e.key # k
    BY <1>1, <1>7, AddNewStep
  <2>2. Contents' = [j \in DOMAIN Contents \cup {k} |-> IF j = k THEN v ELSE Contents[j]]
    BY <1>2, <1>3, <2>1, AsMapAdded
  <2> QED BY <1>7, <2>2 DEF AddNewEntry, Map!Put, Map!With
<1>8. ASSUME NEW k \in HashKey, NEW v \in Value, AddReplace(k, v) PROVE Map!Put(k, v)
  <2>1. PICK x \in Pairs : x.key = k /\ Pairs' = (Pairs \ {x}) \cup {[key |-> k, value |-> v]}
    BY <1>1, <1>8, AddReplaceStep
  <2>2. Contents' = [j \in DOMAIN Contents \cup {k} |-> IF j = k THEN v ELSE Contents[j]]
    BY <1>2, <1>3, <2>1, AsMapReplaced
  <2> QED BY <1>8, <2>2 DEF AddReplace, Map!Put, Map!With
<1>9. ASSUME NEW k \in HashKey, NEW v \in Value, AddExists(k, v) PROVE Map!PutNew(k, v)
  <2>1. Pairs' = Pairs /\ \E e \in Pairs : e.key = k
    BY <1>1, <1>9, AddExistsStep
  <2>2. Contents' = Contents /\ k \in DOMAIN Contents
    BY <1>3, <1>4, <2>1
  <2> QED BY <1>9, <2>2 DEF AddExists, Map!PutNew, Map!Fail
<1>10. ASSUME NEW k \in HashKey
       PROVE  LET es == bucket[HashOf[k]].entries
                  i == BSearch(es, k)
              IN  /\ i # 0 => k \in DOMAIN Contents /\ Contents[k] = es[i].value
                  /\ i = 0 => k \notin DOMAIN Contents
  <2> DEFINE es == bucket[HashOf[k]].entries
             i == BSearch(es, k)
  <2>1. HashOf[k] \in Bucket /\ es \in Seq(Entry) /\ Sorted(es) /\ DOMAIN es = 1..Len(es)
    BY <1>1, BucketOf, BucketParts DEF Places
  <2>2. /\ i # 0 => i \in 1..Len(es) /\ es[i].key = k
        /\ i = 0 => \A j \in 1..Len(es) : es[j].key # k
    <3> HIDE DEF es
    <3> QED BY <2>1, BSearchFinds
  <2> HIDE DEF i
  <2>3. ASSUME i # 0 PROVE k \in DOMAIN Contents /\ Contents[k] = es[i].value
    <3>1. es[i] \in ToSet(es) /\ es[i].key = k
      BY <2>1, <2>2, <2>3 DEF ToSet
    <3>2. es[i] \in Pairs
      BY <2>1, <3>1 DEF Pairs
    <3> QED BY <1>4, <3>1, <3>2
  <2>4. ASSUME i = 0 PROVE k \notin DOMAIN Contents
    <3> SUFFICES ASSUME NEW e \in Pairs, e.key = k PROVE FALSE
      BY <1>4
    <3>1. e \in ToSet(es)
      BY <1>1, PairsUnique
    <3> HIDE DEF es
    <3> QED BY <2>1, <2>2, <2>4, <3>1 DEF ToSet
  <2> QED BY <2>3, <2>4 DEF i
<1>11. ASSUME NEW k \in HashKey, Find(k) PROVE Map!Get(k)
  <2>1. Contents' = Contents
    BY <1>5, <1>11 DEF Find
  <2>2. ret' = IF BSearch(bucket[HashOf[k]].entries, k) = 0 THEN NoValue
               ELSE bucket[HashOf[k]].entries[BSearch(bucket[HashOf[k]].entries, k)].value
    BY <1>11 DEF Find
  <2> QED BY <1>10, <2>1, <2>2 DEF Map!Get
<1>12. ASSUME NEW k \in HashKey, Del(k) PROVE Map!Remove(k)
  <2>1. PICK x \in Pairs : x.key = k /\ Pairs' = Pairs \ {x}
    BY <1>1, <1>12, DelStep
  <2>2. Contents' = [j \in DOMAIN Contents \ {k} |-> Contents[j]]
    BY <1>2, <1>3, <2>1, AsMapRemoved
  <2>3. k \in DOMAIN Contents
    BY <1>4, <2>1
  <2> QED BY <1>12, <2>2, <2>3 DEF Del, Map!Remove, Map!Restrict
<1>13. ASSUME NEW k \in HashKey, DelMissing(k) PROVE Map!Remove(k)
  <2>1. Contents' = Contents /\ k \notin DOMAIN Contents
    BY <1>5, <1>10, <1>13 DEF DelMissing
  <2> QED BY <1>13, <2>1 DEF DelMissing, Map!Remove, Map!Fail
<1>14. CASE Free
  <2>1. Pairs' = {}
    BY <1>1, <1>14, FreeStep
  <2>2. Contents' = [k \in {} |-> NoValue]
    BY <1>3, <2>1 DEF AsMap
  <2> QED BY <1>14, <2>2 DEF Free, Map!Clear, Map!Next
<1>15. CASE UNCHANGED hashVars \/ IterInit \/ IterNext
  BY <1>5, <1>15 DEF hashVars, IterInit, IterNext
<1> QED BY <1>6, <1>7, <1>8, <1>9, <1>11, <1>12, <1>13, <1>14, <1>15 DEF HashNext, Map!Next

\* The table is the map that its header promises, through bisection, shifting and
\* resizing.
THEOREM ImplementsMap == HashSpec => IsAMap
<1> QED BY MapInit, MapStep, HashAlways, PTL DEF HashSpec, IsAMap, Map!Spec
=============================================================================
