--------------------------- MODULE KmodResources ---------------------------
(***************************************************************************)
(* A program that keeps a context with its indexes loaded, as udev does,   *)
(* while depmod replaces them: it asks whether its resources are still     *)
(* valid, reloads them when they are not, and looks modules up, in the     *)
(* mapped files or, when they are not loaded, in the files themselves.     *)
(***************************************************************************)
EXTENDS DepmodOutput

CONSTANT Index       \* the files that a context loads

ASSUME IndexType == Index \subseteq File /\ Index # {}

VARIABLES
  indexes,  \* ctx->indexes: the mapped file of each, or NoInode,
  indexes_stamp,  \*   and its stamp, or 0
  at,       \* what the program does, and with which index
  result    \* how the last lookup ended

resourceVars == <<indexes, indexes_stamp, at, result>>
allVars == <<outputVars, mapped, resourceVars>>

Unloaded == [g \in Index |-> NoInode]
Unstamped == [g \in Index |-> 0]
First == CHOOSE g \in Index : \A h \in Index : g <= h
Later(g) == {h \in Index : h > g}

\* The program goes on with the next index, or to the end of the call.
GoOn(call, end) ==
  at' = IF Later(at[2]) = {} THEN <<end, First>>
        ELSE <<call, CHOOSE g \in Later(at[2]) : \A h \in Later(at[2]) : g <= h>>

ResourcesInit ==
  /\ indexes = Unloaded /\ indexes_stamp = Unstamped /\ at = <<"load", First>> /\ result = "none" /\ mapped = {}

Unload ==
  /\ indexes' = Unloaded /\ indexes_stamp' = Unstamped
  /\ mapped' = {}

\* Whether index_mm_open maps the file: it must be there and have a header, which a
\* file that is being written may or may not have yet.
MayOpen(g) == dir[g] # NoInode /\ inode[dir[g]].content # "empty"
MayNotOpen(g) == dir[g] # NoInode => inode[dir[g]].content \in {"empty", "partial", "cut"}

----------------------------------------------------------------------------
\* kmod_load_resources, one index
Load ==
  /\ at[1] = "load" /\ MayOpen(at[2])
  /\ LET g == at[2] IN
       /\ indexes' = [indexes EXCEPT ![g] = dir[g]]
       /\ indexes_stamp' = [indexes_stamp EXCEPT ![g] = inode[dir[g]].stamp]
       /\ mapped' = mapped \cup {dir[g]}
       /\ GoOn("load", "lookup")
  /\ result' = "none"
  /\ UNCHANGED outputVars

\* goto fail: one index that cannot be mapped unloads all
LoadFails ==
  /\ at[1] = "load" /\ MayNotOpen(at[2])
  /\ Unload
  /\ at' = <<"lookup", First>>
  /\ result' = "none"
  /\ UNCHANGED outputVars

\* Mutant of IsCacheInvalid: a file that is not there counts as unchanged.
IsCacheInvalidThere(g) == dir[g] # NoInode /\ inode[dir[g]].stamp # indexes_stamp[g]

\* is_cache_invalid: stat fails, or the time of the last write to the file is not the
\* one that was kept.
IsCacheInvalid(g) == dir[g] # NoInode => inode[dir[g]].stamp # indexes_stamp[g]

\* kmod_validate_resources, one index: the next, or the answer OK
ValidateNext ==
  /\ at[1] = "validate"
  /\ indexes[at[2]] # NoInode => ~IsCacheInvalid(at[2])
  /\ GoOn("validate", "lookup")
  /\ result' = "none"
  /\ UNCHANGED <<outputVars, mapped, indexes, indexes_stamp>>

\* KMOD_RESOURCES_MUST_RELOAD, on which the program calls kmod_unload_resources
\* and kmod_load_resources
MustReload ==
  /\ at[1] = "validate" /\ indexes[at[2]] # NoInode /\ IsCacheInvalid(at[2])
  /\ Unload
  /\ at' = <<"load", First>>
  /\ result' = "none"
  /\ UNCHANGED outputVars

\* How a search in a file may end for a module that is in every version of it.  What
\* is cut short is searched beyond its end: by stdio, where read_error does nothing and
\* the program goes on with a number it has not read, or by the mapping.
Outcomes(content, beyond) ==
  CASE content = "full" -> {"found"}
    [] content \in {"empty", "partial"} -> {"missing", beyond}
    [] OTHER -> {"found", "missing", beyond}

\* index_mm_search and index_mm_searchwild
LookupMapped ==
  /\ at[1] = "lookup" /\ indexes[at[2]] # NoInode
  /\ result' \in Outcomes(inode[indexes[at[2]]].content, "SIGBUS")
  /\ GoOn("lookup", "validate")
  /\ UNCHANGED <<outputVars, mapped, indexes, indexes_stamp>>

\* index_file_open, and index_search or index_searchwild
LookupFile ==
  /\ at[1] = "lookup" /\ indexes[at[2]] = NoInode
  /\ result' \in IF dir[at[2]] = NoInode THEN {"missing"}
                 ELSE Outcomes(inode[dir[at[2]]].content, "undefined")
  /\ GoOn("lookup", "validate")
  /\ UNCHANGED <<outputVars, mapped, indexes, indexes_stamp>>

\* Nothing is said of a program after it has met what it could not read.
Alive == result \notin {"undefined", "SIGBUS"}
ResourcesStep ==
  Alive /\ (Load \/ LoadFails \/ ValidateNext \/ MustReload \/ LookupMapped \/ LookupFile)

ResourcesSpecInit == OutputInit /\ ResourcesInit
ResourcesNext == (OutputNext /\ UNCHANGED resourceVars) \/ ResourcesStep

\* The program goes on with its calls.
ResourcesSpec ==
  ResourcesSpecInit /\ [][ResourcesNext]_allVars /\ WF_allVars(ResourcesStep)

----------------------------------------------------------------------------
(* Properties.                                                             *)

\* The mapped files of a loaded context are searched undisturbed while depmod
\* removes and replaces them: only a file that was cut short by a write error
\* can make a lookup fail.
LoadedFind ==
  [][LookupMapped /\ ~failed => result' = "found"]_allVars

\* The index that is loaded has the time of the file that is installed.
Current(g) == indexes[g] # NoInode /\ dir[g] # NoInode /\ indexes_stamp[g] = inode[dir[g]].stamp

\* A call of kmod_load_resources met a file that was missing or not complete.  There is
\* nothing left whose stamp kmod_validate_resources compares, and it answers OK.
GaveUp == indexes = Unloaded /\ at[1] # "load"

\* Once no depmod runs any more, a program that validates and reloads as the
\* documentation of kmod_validate_resources says comes to indexes that all have the
\* times of the files that are installed, whenever its calls met the files while they
\* were replaced - or it has given up for good and looks into the files themselves.
\* It cannot tell a file from the one before if the two have one time.
Converges ==
  []Alive /\ <>[]~Running => <>[]GaveUp \/ <>[](\A g \in Index : Current(g))
=============================================================================
