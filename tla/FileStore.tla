------------------------------ MODULE FileStore ------------------------------
(***************************************************************************)
(* state.FileStore on a POSIX file system: Save writes a temporary file,   *)
(* syncs it, renames it over the state file and syncs the directory; Load  *)
(* maps whatever it finds to a state. The process may be killed and the    *)
(* machine may lose power between any two calls. A file's content and a    *)
(* directory's entries survive a power loss only if they were synced.      *)
(* One call runs at a time: every caller holds the state mutex.            *)
(***************************************************************************)
EXTENDS Integers

CONSTANTS
    Data,               \* the states the runners save
    Empty,              \* the state with no stacks
    Missing, Torn,      \* no file; bytes that are not JSON
    NoCall              \* of StateStore: no Save is in progress

ASSUME FileStoreAssumption ==
    /\ Empty \notin Data
    /\ {Missing, Torn} \cap [version : Nat, data : Data] = {}
    /\ Missing # Torn
    /\ NoCall \notin [data : Data, taken : BOOLEAN]

CurrentStateVersion == 1

VARIABLES
    step,       \* the next call of Save, or "idle"
    saving,     \* the state being saved, or Empty
    path,       \* the content the state path has now
    durable,    \* the contents it may have after a power loss
    temp,       \* what Save has in its temporary file, or Missing
    tempSynced, \* its content was synced
    leftover,   \* there are temporary files that no Save will remove
    dirSyncs    \* the file system can sync directories; never changes

vars == <<step, saving, path, durable, temp, tempSynced, leftover, dirSyncs>>

(* Files of an older program have version 0, of a newer one more than 1.   *)
Files == [version : 0..(CurrentStateVersion + 1), data : Data]
                \cup {Missing, Torn}

Contents(d) == [version |-> CurrentStateVersion, data |-> d]

(* After an error, "remove" is what is left to do.                         *)
Steps == {"idle", "create", "chmod", "encode", "sync", "close", "rename",
          "dirsync", "remove"}

(* Load: nothing, no JSON and a newer version read as empty; version 0 is  *)
(* migrated. (A read error changes nothing and is left to the callers.)    *)
LoadResult(content) ==
    IF content \in {Missing, Torn} THEN Empty
    ELSE IF content.version > CurrentStateVersion THEN Empty
    ELSE content.data

Init ==
    /\ step = "idle"
    /\ saving = Empty
    /\ path \in Files
    /\ durable = {path}
    /\ temp = Missing
    /\ tempSynced = FALSE
    /\ leftover = FALSE
    /\ dirSyncs \in BOOLEAN

-----------------------------------------------------------------------------
(* Save                                                                    *)

Begin(d) ==
    /\ step = "idle"
    /\ step' = "create"
    /\ saving' = d
    /\ UNCHANGED <<path, durable, temp, tempSynced, leftover, dirSyncs>>

(* A context that is already done, a directory that cannot be made or a    *)
(* temporary file that cannot be created: Save returns the error at once.  *)
FailEarly ==
    /\ step = "create"
    /\ step' = "idle"
    /\ saving' = Empty
    /\ UNCHANGED <<path, durable, temp, tempSynced, leftover, dirSyncs>>

(* Mutated form: an error returns without the cleanup.                     *)
FailWithoutCleanup ==
    /\ step \in {"chmod", "encode", "sync", "close", "rename"}
    /\ step' = "idle"
    /\ saving' = Empty
    /\ UNCHANGED <<path, durable, temp, tempSynced, leftover, dirSyncs>>

(* Any later call fails.                                                   *)
Fail ==
    /\ step \in {"chmod", "encode", "sync", "close", "rename"}
    /\ step' = "remove"
    /\ UNCHANGED <<saving, path, durable, temp, tempSynced, leftover, dirSyncs>>

(* The cleanup. The error of os.Remove is discarded, so the file may stay; *)
(* Save returns the error that came before.                                *)
Remove ==
    /\ step = "remove"
    /\ step' = "idle"
    /\ saving' = Empty
    /\ temp' = Missing
    /\ tempSynced' = FALSE
    /\ leftover' \in {leftover, TRUE}
    /\ UNCHANGED <<path, durable, dirSyncs>>

CreateTemp ==
    /\ step = "create"
    /\ step' = "chmod"
    /\ temp' = Torn             \* an empty file is not JSON
    /\ UNCHANGED <<saving, path, durable, tempSynced, leftover, dirSyncs>>

Chmod ==
    /\ step = "chmod"
    /\ step' = "encode"
    /\ UNCHANGED <<saving, path, durable, temp, tempSynced, leftover, dirSyncs>>

(* A failure of Encode may leave part of the bytes: Fail after CreateTemp. *)
Encode ==
    /\ step = "encode"
    /\ step' = "sync"
    /\ temp' = Contents(saving)
    /\ UNCHANGED <<saving, path, durable, tempSynced, leftover, dirSyncs>>

(* Mutated form: the temporary file is renamed without being synced.       *)
NoSync ==
    /\ step = "sync"
    /\ step' = "close"
    /\ UNCHANGED <<saving, path, durable, temp, tempSynced, leftover, dirSyncs>>

Sync ==
    /\ step = "sync"
    /\ step' = "close"
    /\ tempSynced' = TRUE
    /\ UNCHANGED <<saving, path, durable, temp, leftover, dirSyncs>>

Close ==
    /\ step = "close"
    /\ step' = "rename"
    /\ UNCHANGED <<saving, path, durable, temp, tempSynced, leftover, dirSyncs>>

(* Mutated form: the old file is removed before the new one is renamed,    *)
(* and the rename may then fail.                                           *)
RemoveThenRename ==
    /\ step = "rename"
    /\ path # Missing \/ temp # Missing
    /\ IF path # Missing
         THEN /\ path' = Missing
              /\ durable' = durable \cup {Missing}
              /\ UNCHANGED <<step, temp, tempSynced>>
         ELSE /\ path' = temp
              /\ durable' = durable \cup {temp}
              /\ step' = "dirsync"
              /\ temp' = Missing
              /\ tempSynced' = FALSE
    /\ UNCHANGED <<saving, leftover, dirSyncs>>

(* The path has the new content at once; after a power loss it has the old *)
(* or the new one, and a new one that was not synced may be torn.          *)
Rename ==
    /\ step = "rename"
    /\ step' = "dirsync"
    /\ path' = temp
    /\ durable' = durable \cup {IF tempSynced THEN temp ELSE Torn}
    /\ temp' = Missing
    /\ tempSynced' = FALSE
    /\ UNCHANGED <<saving, leftover, dirSyncs>>

(* Best effort: Save returns no error even if the directory was not synced.*)
DirSync ==
    /\ step = "dirsync"
    /\ step' = "idle"
    /\ saving' = Empty
    /\ durable' \in {{path}} \cup (IF dirSyncs THEN {} ELSE {durable})
    /\ UNCHANGED <<path, temp, tempSynced, leftover, dirSyncs>>

-----------------------------------------------------------------------------
(* The environment                                                         *)

Abandon ==
    /\ step' = "idle"
    /\ saving' = Empty
    /\ temp' = Missing
    /\ tempSynced' = FALSE

(* The process is killed: the page cache and the directory survive it, and *)
(* a temporary file stays behind.                                          *)
Kill ==
    /\ step # "idle"
    /\ Abandon
    /\ leftover' = (leftover \/ temp # Missing)
    /\ UNCHANGED <<path, durable, dirSyncs>>

(* The machine loses power: the path has one of its durable contents. As   *)
(* the directory need not be synced, a temporary file may be gone, and one *)
(* that was removed or renamed may be back.                                *)
PowerLoss ==
    /\ Abandon
    /\ path' \in durable
    /\ durable' = {path'}
    /\ leftover' \in BOOLEAN
    /\ UNCHANGED dirSyncs

(* Someone else removes, damages or replaces the file between calls.       *)
Replace ==
    /\ step = "idle"
    /\ path' \in Files
    /\ durable' = {path'}
    /\ UNCHANGED <<step, saving, temp, tempSynced, leftover, dirSyncs>>

Save == FailEarly \/ CreateTemp \/ Chmod \/ Encode \/ Sync \/ Close \/ Rename
            \/ DirSync \/ Fail \/ Remove

Next == (\E d \in Data : Begin(d)) \/ Save \/ Kill \/ PowerLoss \/ Replace

Spec == Init /\ [][Next]_vars

-----------------------------------------------------------------------------
(* Types of the state. A Save that has returned, with an error too, has    *)
(* renamed its temporary file or has tried to remove it (file_store.go:95, *)
(* 99-123); it stays if that failed (leftover).                            *)
TypeOK ==
    /\ step \in Steps
    /\ saving \in Data \cup {Empty}
    /\ path \in Files
    /\ durable \in SUBSET Files
    /\ temp \in Files
    /\ tempSynced \in BOOLEAN
    /\ leftover \in BOOLEAN
    /\ dirSyncs \in BOOLEAN
    /\ step = "idle" => temp = Missing

(* Whatever is interrupted, and even if the directory is never synced, no  *)
(* step of Save makes it possible to find half a file after a power loss   *)
(* (file_store.go:69, the Sync of line 110 before the Rename of line 120). *)
SaveNeverTears ==
    [][step # "idle" /\ Torn \in durable' => Torn \in durable]_vars

(* Save and Load are the atomic register the runners rely on: an error     *)
(* leaves the file as it was, success replaces it whole, a kill changes    *)
(* nothing, and after a power loss only a Save that had not returned may   *)
(* be undone. The last part needs the directory to be synced, whose        *)
(* failures file_store.go:125-128 ignores.                                 *)
Store == INSTANCE StateStore WITH
    ackIsDurable <- dirSyncs,
    stored       <- LoadResult(path),
    survivors    <- {LoadResult(c) : c \in durable},
    call         <- IF step = "idle" THEN NoCall
                    ELSE [data |-> saving, taken |-> step = "dirsync"]

ImplementsStateStore == Store!Spec

=============================================================================
