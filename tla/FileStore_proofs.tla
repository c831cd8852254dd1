--------------------------- MODULE FileStore_proofs ---------------------------
(***************************************************************************)
(* Proofs about FileStore, for any states and any number of kills and      *)
(* power losses: no Save tears the state file, and Save and Load are the   *)
(* atomic register StateStore.                                             *)
(***************************************************************************)
EXTENDS FileStore, TLAPS

(* A call of Save that has not returned has a state to write.              *)
SavesData == step # "idle" => saving \in Data

(* How far the temporary file has come at each call of Save.               *)
TempFollowsStep ==
    /\ step \in {"idle", "create", "dirsync"} => temp = Missing
    /\ step \in {"sync", "close", "rename"} => temp = Contents(saving)
    /\ step \in {"close", "rename"} => tempSynced

(* After the rename the path has the state just saved.                     *)
PathIsNew == step = "dirsync" => path = Contents(saving)

(* If the machine lost power now the file could stay as it is.             *)
PathMaySurvive == path \in durable

IInv ==
    /\ TypeOK
    /\ SavesData
    /\ TempFollowsStep
    /\ PathIsNew
    /\ PathMaySurvive

-----------------------------------------------------------------------------
(* A complete file is one, unlike no file and bytes that are not JSON, and *)
(* Load returns the state in it.                                           *)
LEMMA ContentsFacts ==
    ASSUME NEW d \in Data
    PROVE  /\ Contents(d) \in Files
           /\ Contents(d) \notin {Missing, Torn}
           /\ LoadResult(Contents(d)) = d
<1>1. Contents(d) \in [version : 0..(CurrentStateVersion + 1), data : Data]
  BY DEF Contents, CurrentStateVersion
<1>2. Contents(d) \in [version : Nat, data : Data]
  BY DEF Contents, CurrentStateVersion
<1>3. Contents(d) \notin {Missing, Torn}
  BY <1>2, FileStoreAssumption
<1> QED BY <1>1, <1>3 DEF Files, LoadResult, Contents, CurrentStateVersion

(* Whatever is in the file, Load returns a saved state or the empty one.   *)
LEMMA LoadResultType ==
    ASSUME NEW content \in Files
    PROVE  LoadResult(content) \in Data \cup {Empty}
  BY DEF Files, LoadResult

-----------------------------------------------------------------------------
LEMMA InitInv == Init => IInv
<1> SUFFICES ASSUME Init PROVE IInv
  OBVIOUS
<1>1. Missing \in Files /\ path \in Files /\ durable \in SUBSET Files
  BY DEF Init, Files
<1>2. TypeOK
  BY <1>1 DEF Init, TypeOK, Steps
<1> QED BY <1>2 DEF Init, IInv, SavesData, TempFollowsStep, PathIsNew, PathMaySurvive

LEMMA NextInv == IInv /\ [Next]_vars => IInv'
<1> SUFFICES ASSUME IInv, [Next]_vars PROVE IInv'
  OBVIOUS
<1> USE DEF IInv, TypeOK, Steps, SavesData, TempFollowsStep, PathIsNew, PathMaySurvive
<1>1. {Missing, Torn} \subseteq Files
  BY DEF Files
<1>2. ASSUME NEW d \in Data, Begin(d) PROVE IInv'
  BY <1>2 DEF Begin
<1>3. CASE FailEarly \/ Fail \/ Remove
  BY <1>1, <1>3 DEF FailEarly, Fail, Remove
<1>4. CASE CreateTemp \/ Chmod
  BY <1>1, <1>4 DEF CreateTemp, Chmod
<1>5. CASE Encode
  BY <1>5, ContentsFacts DEF Encode
<1>6. CASE Sync \/ Close
  BY <1>6 DEF Sync, Close
<1>7. CASE Rename
  BY <1>1, <1>7, ContentsFacts DEF Rename
<1>8. CASE DirSync
  BY <1>8 DEF DirSync
<1>9. CASE Kill
  BY <1>1, <1>9 DEF Kill, Abandon
<1>10. CASE PowerLoss
  BY <1>1, <1>10 DEF PowerLoss, Abandon
<1>11. CASE Replace
  BY <1>11 DEF Replace
<1>12. CASE UNCHANGED vars
  BY <1>12 DEF vars
<1> QED BY <1>2, <1>3, <1>4, <1>5, <1>6, <1>7, <1>8, <1>9, <1>10, <1>11, <1>12
        DEF Next, Save

(* The invariant holds in every reachable state.                           *)
THEOREM FileStoreInductive == Spec => []IInv
  BY InitInv, NextInv, PTL DEF Spec

-----------------------------------------------------------------------------
(* The theorems                                                            *)

(* The state keeps its types, and no Save returns, with an error or        *)
(* without, before it has renamed its temporary file or tried to remove it *)
(* (file_store.go:95, 99-123).                                             *)
THEOREM FileStoreTypeCorrect == Spec => []TypeOK
  BY FileStoreInductive, PTL DEF IInv

(* No step of Save, no error and no kill makes it possible to find half a  *)
(* file after a power loss (file_store.go:69, 110 before 120).             *)
THEOREM NoSaveTears == Spec => SaveNeverTears
<1>1. IInv /\ [Next]_vars =>
        [step # "idle" /\ Torn \in durable' => Torn \in durable]_vars
  <2> SUFFICES ASSUME IInv, [Next]_vars, step # "idle", Torn \in durable'
               PROVE  Torn \in durable
    OBVIOUS
  <2> USE DEF IInv, SavesData, TempFollowsStep, PathIsNew, PathMaySurvive
  <2>1. CASE Rename
    BY <2>1, ContentsFacts DEF Rename
  <2>2. CASE DirSync
    BY <2>2 DEF DirSync
  <2>3. CASE PowerLoss
    BY <2>3 DEF PowerLoss
  <2>4. CASE ~ (Rename \/ DirSync \/ PowerLoss)
    BY <2>4 DEF Next, Save, Begin, FailEarly, Fail, Remove, CreateTemp, Chmod, Encode,
                Sync, Close, Kill, Replace, vars
  <2> QED BY <2>1, <2>2, <2>3, <2>4
<1> QED BY <1>1, FileStoreInductive, PTL DEF Spec, SaveNeverTears

-----------------------------------------------------------------------------
(* The refinement: Save and Load are the register StateStore               *)

Survivors == {LoadResult(c) : c \in durable}

Call == IF step = "idle" THEN NoCall
        ELSE [data |-> saving, taken |-> step = "dirsync"]

(* A call that has not returned is none that is not there.                 *)
LEMMA CallFacts ==
    ASSUME IInv
    PROVE  Call = NoCall <=> step = "idle"
<1>1. CASE step # "idle"
  <2>1. Call \in [data : Data, taken : BOOLEAN]
    BY <1>1 DEF IInv, SavesData, Call
  <2> QED BY <1>1, <2>1, FileStoreAssumption
<1>2. CASE step = "idle"
  BY <1>2 DEF Call
<1> QED BY <1>1, <1>2

LEMMA InitRefines == Init => Store!Init
<1> SUFFICES ASSUME Init PROVE Store!Init
  OBVIOUS
<1>1. LoadResult(path) \in Data \cup {Empty}
  BY LoadResultType DEF Init
<1> QED BY <1>1 DEF Init, Store!Init

(* The rename is where the register takes the new value; the calls before  *)
(* it stutter, an error or a kill before it changes nothing.               *)
LEMMA StepRefines == IInv /\ [Next]_vars => [Store!Next]_(Store!svars)
<1> SUFFICES ASSUME IInv, [Next]_vars PROVE Store!Next \/ UNCHANGED Store!svars
  OBVIOUS
<1> DEFINE stored == LoadResult(path)
<1>1. ASSUME NEW d \in Data, Begin(d) PROVE Store!Begin(d)
  <2>1. Call' = [data |-> d, taken |-> FALSE]
    BY <1>1 DEF Begin, Call
  <2> QED BY <1>1, <2>1 DEF Begin, Store!Begin, Call
<1>2. CASE FailEarly \/ Remove \/ Kill
  <2>1. step # "idle" /\ step' = "idle" /\ UNCHANGED <<path, durable, dirSyncs>>
    BY <1>2 DEF FailEarly, Remove, Kill, Abandon
  <2>2. Call # NoCall /\ Call' = NoCall
    BY <2>1, CallFacts DEF Call
  <2>3. Store!Kill
    BY <2>1, <2>2 DEF Store!Kill, Call
  <2> QED BY <2>3 DEF Store!Next
<1>3. CASE CreateTemp \/ Chmod \/ Encode \/ Sync \/ Close \/ Fail
  <2>1. /\ step \notin {"idle", "dirsync"} /\ step' \notin {"idle", "dirsync"}
        /\ UNCHANGED <<saving, path, durable, dirSyncs>>
    BY <1>3 DEF CreateTemp, Chmod, Encode, Sync, Close, Fail
  <2> QED BY <2>1 DEF Store!svars
<1>4. CASE Rename
  <2>1. /\ saving \in Data
        /\ step = "rename" /\ step' = "dirsync"
        /\ path' = Contents(saving)
        /\ durable' = durable \cup {Contents(saving)}
        /\ UNCHANGED <<saving, dirSyncs>>
    BY <1>4 DEF Rename, IInv, SavesData, TempFollowsStep
  <2>2. LoadResult(Contents(saving)) = saving
    BY <2>1, ContentsFacts
  <2>3. stored' = saving /\ Survivors' = Survivors \cup {saving}
    BY <2>1, <2>2 DEF Survivors, LoadResult
  <2>4. /\ Call = [data |-> saving, taken |-> FALSE]
        /\ Call' = [data |-> saving, taken |-> TRUE]
        /\ Call # NoCall
    BY <2>1, CallFacts DEF Call
  <2>5. Call.data = saving /\ ~Call.taken /\ Call' = [data |-> Call.data, taken |-> TRUE]
    BY <2>4
  <2>6. Store!Take
    BY <2>1, <2>3, <2>4, <2>5 DEF Store!Take, Survivors, Call
  <2> QED BY <2>6 DEF Store!Next
<1>5. CASE DirSync
  <2>1. /\ step = "dirsync" /\ step' = "idle"
        /\ durable' = {path} \/ (~dirSyncs /\ durable' = durable)
        /\ UNCHANGED <<path, dirSyncs>>
    BY <1>5 DEF DirSync
  <2>2. Call # NoCall /\ Call.taken /\ Call' = NoCall
    BY <2>1, CallFacts DEF Call
  <2>3. Survivors' = {stored} \/ (~dirSyncs /\ Survivors' = Survivors)
    BY <2>1 DEF Survivors, LoadResult
  <2>4. Store!ReturnOk
    BY <2>1, <2>2, <2>3 DEF Store!ReturnOk, Survivors, Call
  <2> QED BY <2>4 DEF Store!Next
<1>6. CASE PowerLoss
  <2>1. step' = "idle" /\ path' \in durable /\ durable' = {path'} /\ UNCHANGED dirSyncs
    BY <1>6 DEF PowerLoss, Abandon
  <2>2. stored' \in Survivors /\ Survivors' = {stored'}
    BY <2>1 DEF Survivors, LoadResult
  <2>3. Store!PowerLoss
    BY <2>1, <2>2 DEF Store!PowerLoss, Survivors
  <2> QED BY <2>3 DEF Store!Next
<1>7. CASE Replace
  <2>1. /\ step = "idle" /\ step' = "idle"
        /\ path' \in Files /\ durable' = {path'}
        /\ UNCHANGED dirSyncs
    BY <1>7 DEF Replace
  <2>2. stored' \in Data \cup {Empty}
    BY <2>1, LoadResultType
  <2>3. Survivors' = {stored'}
    BY <2>1 DEF Survivors, LoadResult
  <2>4. Store!Replace
    BY <2>1, <2>2, <2>3 DEF Store!Replace, Survivors
  <2> QED BY <2>4 DEF Store!Next
<1>8. CASE UNCHANGED vars
  BY <1>8 DEF vars, Store!svars
<1> QED BY <1>1, <1>2, <1>3, <1>4, <1>5, <1>6, <1>7, <1>8 DEF Next, Save, Store!Next

(* An error leaves the file as it was, success replaces it whole, a kill   *)
(* changes nothing, and after a power loss only a Save that had not        *)
(* returned may be undone, if directories can be synced (file_store.go:    *)
(* 69-131).                                                                *)
THEOREM ImplementsRegister == Spec => ImplementsStateStore
  BY InitRefines, StepRefines, FileStoreInductive, PTL
     DEF Spec, ImplementsStateStore, Store!Spec

=============================================================================
