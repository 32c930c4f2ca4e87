------------------------- MODULE LocalStorageProofs -------------------------
(***************************************************************************)
(* No entry without its file and no half written report, for any number of *)
(* reports and downloads, wherever the process ends and whatever the file  *)
(* system refuses.                                                         *)
(*                                                                         *)
(* LiveHasFile alone is not inductive.  The cleanup may remove a file only *)
(* because an entry that is due in memory is not live in .metadata.json    *)
(* either (DueAgrees) and because its batch stays due while it works       *)
(* (BatchIsDue); Put may truncate a file only because a key that waits for *)
(* its report has no entry and no download (AwaitedHasNone).               *)
(***************************************************************************)
EXTENDS LocalStorage, TLAPS

DueAgrees == \A k \in Key : mem[k] = "due" => disk[k] # "live"

BatchIsDue ==
  /\ lock = "remove" => \A k \in batch : mem[k] = "due"
  /\ lock = "write" => batch \subseteq awaited

AwaitedHasNone == \A k \in awaited :
  /\ mem[k] = "absent"
  /\ disk[k] = "absent"
  /\ \A r \in Reader : k \notin reading[r]

ReadingIsWhole == \A r \in Reader : \A k \in reading[r] : file[k] # "partial"

StorageInv ==
  /\ StorageTypeOK
  /\ LiveHasFile
  /\ NoHalfReport
  /\ DueAgrees
  /\ BatchIsDue
  /\ AwaitedHasNone
  /\ ReadingIsWhole

LEMMA StorageInvInit == StorageInit => StorageInv
<1> SUFFICES ASSUME StorageInit PROVE StorageInv
  OBVIOUS
<1> USE DEF StorageInit
<1>1. StorageTypeOK
  BY DEF StorageTypeOK, Entry
<1>2. LiveHasFile /\ DueAgrees
  BY DEF LiveHasFile, DueAgrees
<1>3. NoHalfReport
  BY DEF NoHalfReport
<1>4. BatchIsDue
  BY DEF BatchIsDue
<1>5. AwaitedHasNone /\ ReadingIsWhole
  BY DEF AwaitedHasNone, ReadingIsWhole
<1> QED BY <1>1, <1>2, <1>3, <1>4, <1>5 DEF StorageInv

LEMMA TypeNext ==
  ASSUME StorageTypeOK, [StorageNext]_storageVars
  PROVE  StorageTypeOK'
<1> USE DEF StorageTypeOK, Entry, metaVars, lockVars, readerVars, boundVars
<1>1. ASSUME NEW k \in Key, PutBegin(k) PROVE StorageTypeOK'
  BY <1>1 DEF PutBegin
<1>2. ASSUME PutFails PROVE StorageTypeOK'
  BY <1>2 DEF PutFails, Fault
<1>3. ASSUME PutEnd PROVE StorageTypeOK'
  BY <1>3 DEF PutEnd
<1>4. ASSUME SaveBegin PROVE StorageTypeOK'
  BY <1>4 DEF SaveBegin
<1>5. ASSUME SaveEnd PROVE StorageTypeOK'
  BY <1>5 DEF SaveEnd
<1>6. ASSUME SaveFails PROVE StorageTypeOK'
  BY <1>6 DEF SaveFails, Fault
<1>7. ASSUME CleanupBegin PROVE StorageTypeOK'
  BY <1>7 DEF CleanupBegin, Due
<1>8. ASSUME NEW k \in Key, RemoveExpired(k) PROVE StorageTypeOK'
  BY <1>8 DEF RemoveExpired, Fault
<1>9. ASSUME CleanupEnd PROVE StorageTypeOK'
  BY <1>9 DEF CleanupEnd
<1>10. ASSUME NEW r \in Reader, NEW k \in Key, Download(r, k) PROVE StorageTypeOK'
  BY <1>10 DEF Download
<1>11. ASSUME NEW r \in Reader, NEW k \in Key, ReadFile(r, k) PROVE StorageTypeOK'
  BY <1>11 DEF ReadFile, Fault
<1>12. ASSUME NEW k \in Key, ExpiryPasses(k) PROVE StorageTypeOK'
  BY <1>12 DEF ExpiryPasses
<1>13. ASSUME Crash PROVE StorageTypeOK'
  BY <1>13 DEF Crash, Fault
<1>14. ASSUME UNCHANGED storageVars PROVE StorageTypeOK'
  BY <1>14 DEF storageVars
<1> QED BY <1>1, <1>2, <1>3, <1>4, <1>5, <1>6, <1>7, <1>8, <1>9, <1>10, <1>11,
           <1>12, <1>13, <1>14 DEF StorageNext, Working

-----------------------------------------------------------------------------
(* One lemma per operation: Put, the copy, the cleanup, Get, time          *)

LEMMA PutKeeps ==
  ASSUME StorageInv, (\E k \in Key : PutBegin(k)) \/ PutFails \/ PutEnd
  PROVE  /\ LiveHasFile' /\ NoHalfReport' /\ DueAgrees'
         /\ BatchIsDue' /\ AwaitedHasNone' /\ ReadingIsWhole'
<1> USE DEF StorageInv, StorageTypeOK, Entry, LiveHasFile, NoHalfReport, DueAgrees,
            BatchIsDue, AwaitedHasNone, ReadingIsWhole, metaVars, readerVars, boundVars
<1>1. CASE \E k \in Key : PutBegin(k)
  BY <1>1 DEF PutBegin
<1>2. CASE PutFails
  BY <1>2 DEF PutFails, Fault
<1>3. CASE PutEnd
  <2>1. \A k \in batch : disk[k] = "absent" /\ mem'[k] = "live" /\ file'[k] = "whole"
    BY <1>3 DEF PutEnd
  <2>2. \A k \in Key \ batch : mem'[k] = mem[k] /\ file'[k] = file[k]
    BY <1>3 DEF PutEnd
  <2>3. disk' = disk /\ reading' = reading /\ told' = told
    BY <1>3 DEF PutEnd
  <2>4. LiveHasFile' /\ DueAgrees' /\ NoHalfReport'
    BY <2>1, <2>2, <2>3
  <2>5. AwaitedHasNone' /\ ReadingIsWhole'
    BY <1>3, <2>1, <2>2, <2>3 DEF PutEnd
  <2>6. BatchIsDue'
    BY <1>3 DEF PutEnd
  <2> QED BY <2>4, <2>5, <2>6
<1> QED BY <1>1, <1>2, <1>3

LEMMA SaveKeeps ==
  ASSUME StorageInv, SaveBegin \/ SaveEnd \/ SaveFails
  PROVE  /\ LiveHasFile' /\ NoHalfReport' /\ DueAgrees'
         /\ BatchIsDue' /\ AwaitedHasNone' /\ ReadingIsWhole'
BY DEF SaveBegin, SaveEnd, SaveFails, Fault, StorageInv, StorageTypeOK, LiveHasFile,
   NoHalfReport, DueAgrees, BatchIsDue, AwaitedHasNone, ReadingIsWhole, metaVars,
   readerVars, boundVars

LEMMA CleanupKeeps ==
  ASSUME StorageInv, CleanupBegin \/ (\E k \in Key : RemoveExpired(k)) \/ CleanupEnd
  PROVE  /\ LiveHasFile' /\ NoHalfReport' /\ DueAgrees'
         /\ BatchIsDue' /\ AwaitedHasNone' /\ ReadingIsWhole'
BY DEF CleanupBegin, RemoveExpired, CleanupEnd, Fault, Due, StorageInv, StorageTypeOK,
   Entry, LiveHasFile, NoHalfReport, DueAgrees, BatchIsDue, AwaitedHasNone,
   ReadingIsWhole, metaVars, lockVars, readerVars, boundVars

LEMMA GetKeeps ==
  ASSUME StorageInv, NEW r \in Reader, NEW k \in Key, Download(r, k) \/ ReadFile(r, k)
  PROVE  /\ LiveHasFile' /\ NoHalfReport' /\ DueAgrees'
         /\ BatchIsDue' /\ AwaitedHasNone' /\ ReadingIsWhole'
BY DEF Download, ReadFile, Fault, StorageInv, StorageTypeOK, Entry, LiveHasFile, NoHalfReport,
   DueAgrees, BatchIsDue, AwaitedHasNone, ReadingIsWhole, metaVars, lockVars, boundVars

LEMMA TimeKeeps ==
  ASSUME StorageInv, (\E k \in Key : ExpiryPasses(k)) \/ Crash
  PROVE  /\ LiveHasFile' /\ NoHalfReport' /\ DueAgrees'
         /\ BatchIsDue' /\ AwaitedHasNone' /\ ReadingIsWhole'
BY DEF ExpiryPasses, Crash, Fault, StorageInv, StorageTypeOK, Entry, LiveHasFile, NoHalfReport,
   DueAgrees, BatchIsDue, AwaitedHasNone, ReadingIsWhole, lockVars, readerVars, boundVars

LEMMA StorageInvNext ==
  ASSUME StorageInv, [StorageNext]_storageVars
  PROVE  StorageInv'
<1>1. StorageTypeOK'
  BY TypeNext DEF StorageInv
<1>2. CASE StorageNext
  BY <1>1, <1>2, PutKeeps, SaveKeeps, CleanupKeeps, GetKeeps, TimeKeeps
  DEF StorageNext, Working, StorageInv
<1>3. CASE UNCHANGED storageVars
  BY <1>1, <1>3 DEF storageVars, metaVars, lockVars, readerVars, StorageInv, LiveHasFile,
     NoHalfReport, DueAgrees, BatchIsDue, AwaitedHasNone, ReadingIsWhole
<1> QED BY <1>2, <1>3

LEMMA StorageInvariant == StorageSpec => []StorageInv
<1>1. StorageInv /\ [StorageNext]_storageVars => StorageInv'
  BY StorageInvNext
<1> QED BY StorageInvInit, <1>1, PTL DEF StorageSpec

(* The variables keep their types.                                         *)
THEOREM StorageTypeCorrect == StorageSpec => []StorageTypeOK
<1>1. StorageInv => StorageTypeOK BY DEF StorageInv
<1> QED BY <1>1, StorageInvariant, PTL

(* An unexpired entry, in memory or in .metadata.json, always has its      *)
(* whole file: what a restart loads can be served.                         *)
THEOREM LiveEntriesHaveFiles == StorageSpec => []LiveHasFile
<1>1. StorageInv => LiveHasFile BY DEF StorageInv
<1> QED BY <1>1, StorageInvariant, PTL

(* No download ever returns a half written report, although Get reads the  *)
(* file without the lock.                                                  *)
THEOREM DownloadsAreWhole == StorageSpec => []NoHalfReport
<1>1. StorageInv => NoHalfReport BY DEF StorageInv
<1> QED BY <1>1, StorageInvariant, PTL

(* A download that goes on to the file of an entry that is still live      *)
(* brings the whole report, or was refused by the file system: the cleanup *)
(* can only take the file once the entry expired.                          *)
THEOREM ReadsBringReports == StorageSpec => ReadBringsReport
<1>1. ASSUME StorageInv, NEW r \in Reader, NEW k \in Key, ReadFile(r, k),
             mem[k] = "live", faults' = faults
      PROVE  told'[r] = "200"
  <2>1. file[k] = "whole"
    BY <1>1 DEF StorageInv, LiveHasFile
  <2>2. told \in [Reader -> {"nothing", "200", "404", "410", "500", "half"}]
    BY <1>1 DEF StorageInv, StorageTypeOK
  <2>3. ~ Fault
    BY <1>1 DEF Fault, StorageInv, StorageTypeOK
  <2> QED BY <1>1, <2>1, <2>2, <2>3 DEF ReadFile
<1>2. StorageInv => \A r \in Reader, k \in Key :
                      ReadFile(r, k) => told'[r] = "200" \/ mem[k] # "live" \/ faults' # faults
  BY <1>1
<1> QED BY <1>2, StorageInvariant, PTL DEF ReadBringsReport

-----------------------------------------------------------------------------
(* The copy *)

(* CopyIsCurrent, and the same while Put writes the file of a report.      *)
CopyInv ==
  lock \in {"free", "write"} /\ faults = 0 => IF torn THEN crashes > 0 ELSE disk = mem

LEMMA CopyInvNext ==
  ASSUME StorageTypeOK, CopyInv, [StorageNext]_storageVars
  PROVE  CopyInv'
<1> DEFINE Current == IF torn THEN crashes > 0 ELSE disk = mem
<1> SUFFICES ASSUME lock' \in {"free", "write"}, faults' = 0
             PROVE  Current'
  BY DEF CopyInv
<1> USE DEF StorageTypeOK, metaVars, lockVars, readerVars, boundVars
<1>1. ~ Fault
  BY DEF Fault
<1>2. ASSUME NEW k \in Key, PutBegin(k) \/ ExpiryPasses(k) PROVE Current'
  <2>1. lock \in {"free", "write"} /\ faults = 0
    BY <1>2 DEF PutBegin, ExpiryPasses
  <2>2. Current
    BY <2>1 DEF CopyInv
  <2> QED BY <1>2, <2>2 DEF PutBegin, ExpiryPasses
<1>3. CASE Working
  <2>1. ~ PutFails /\ ~ SaveFails /\ ~ PutEnd /\ ~ SaveBegin /\ ~ CleanupEnd
    BY <1>1 DEF PutFails, SaveFails, PutEnd, SaveBegin, CleanupEnd
  <2>2. \A k \in Key : ~ RemoveExpired(k)
    BY DEF RemoveExpired
  <2>3. SaveEnd
    BY <1>3, <2>1, <2>2 DEF Working
  <2> QED BY <2>3 DEF SaveEnd
<1>4. ASSUME NEW r \in Reader, NEW k \in Key, Download(r, k) \/ ReadFile(r, k)
      PROVE  Current'
  BY <1>1, <1>4 DEF Download, ReadFile, CopyInv
<1>5. ~ CleanupBegin
  BY DEF CleanupBegin
<1>6. CASE Crash
  <2>1. mem' = [k \in Key |-> IF torn THEN "absent" ELSE disk[k]]
    BY <1>1, <1>6 DEF Crash
  <2>2. crashes' > 0 /\ torn' = torn /\ disk' = disk
    BY <1>6 DEF Crash
  <2>3. ~torn => mem' = disk
    BY <2>1
  <2> QED BY <2>2, <2>3
<1>7. CASE UNCHANGED storageVars
  BY <1>7 DEF storageVars, CopyInv
<1> QED BY <1>2, <1>3, <1>4, <1>5, <1>6, <1>7 DEF StorageNext

(* As long as the file system refuses nothing, .metadata.json agrees with  *)
(* the map whenever the lock is free, after any number of restarts; it is  *)
(* torn only after a process that ended in the middle of a save            *)
(* (local_storage.go:66-71, 116-122, 144-161).                             *)
THEOREM CopiesAreCurrent == StorageSpec => []CopyIsCurrent
<1>1. StorageInit => CopyInv
  BY DEF StorageInit, CopyInv
<1>2. StorageTypeOK /\ CopyInv /\ [StorageNext]_storageVars => CopyInv'
  BY CopyInvNext
<1>3. CopyInv => CopyIsCurrent
  BY DEF CopyInv, CopyIsCurrent
<1> QED BY <1>1, <1>2, <1>3, StorageTypeCorrect, PTL DEF StorageSpec

-----------------------------------------------------------------------------
(* Every step of the storage is a step of the abstract store *)

(* Put works on one report that waits for it.                              *)
PutsOne == lock = "write" => \E k \in awaited : batch = {k}

StoreInv == StorageInv /\ PutsOne

LEMMA StoreInvNext ==
  ASSUME StoreInv, [StorageNext]_storageVars
  PROVE  StoreInv'
<1> USE DEF StoreInv
<1>1. StorageInv'
  BY StorageInvNext
<1>2. CASE \E k \in Key : PutBegin(k)
  BY <1>1, <1>2 DEF PutBegin, PutsOne
<1>3. CASE ~\E k \in Key : PutBegin(k)
  BY <1>1, <1>3 DEF PutsOne, StorageNext, Working, PutFails, PutEnd, SaveBegin, SaveEnd,
     SaveFails, CleanupEnd, RemoveExpired, CleanupBegin, Crash, Download, ReadFile,
     ExpiryPasses, storageVars, lockVars
<1> QED BY <1>2, <1>3

StoreStep == Store!StoreNext \/ UNCHANGED <<Shelf, reading, told, faults>>

(* The place of a report on the shelf follows from these variables.        *)
LEMMA SameShelf ==
  ASSUME disk' = disk, torn' = torn,
         \A k \in Key : /\ mem'[k] = "live" <=> mem[k] = "live"
                        /\ k \in awaited' <=> k \in awaited
  PROVE  Shelf' = Shelf
BY DEF Shelf

(* Put that begins, a cleanup, and the errors they meet change nothing on  *)
(* the shelf.                                                              *)
LEMMA QuietStoreStep ==
  ASSUME StoreInv, \/ \E k \in Key : PutBegin(k) \/ RemoveExpired(k)
                   \/ PutFails \/ SaveFails \/ CleanupBegin \/ CleanupEnd
  PROVE  StoreStep
<1> USE DEF StoreInv, StorageInv, StorageTypeOK, BatchIsDue, metaVars, lockVars,
            readerVars, boundVars
<1>1. UNCHANGED <<disk, torn, reading, told, awaited>>
  BY DEF PutBegin, RemoveExpired, PutFails, SaveFails, CleanupBegin, CleanupEnd
<1>2. ASSUME NEW k \in Key PROVE mem'[k] = "live" <=> mem[k] = "live"
  BY DEF PutBegin, RemoveExpired, PutFails, SaveFails, CleanupBegin, CleanupEnd
<1>3. Shelf' = Shelf
  BY <1>1, <1>2, SameShelf
<1>4. faults' = faults + 1 \/ faults' = faults
  BY DEF PutBegin, RemoveExpired, PutFails, SaveFails, CleanupBegin, CleanupEnd, Fault
<1>5. CASE faults' = faults
  BY <1>1, <1>3, <1>5 DEF StoreStep
<1>6. CASE faults' = faults + 1
  <2>1. Store!Disturb
    BY <1>1, <1>3, <1>6 DEF Store!Disturb
  <2> QED BY <2>1 DEF StoreStep, Store!StoreNext
<1> QED BY <1>4, <1>5, <1>6

(* A save writes over the entries that memory does not have: from then on  *)
(* what was missing is gone.                                               *)
LEMMA SaveStep ==
  ASSUME StoreInv, SaveBegin \/ SaveEnd
  PROVE  StoreStep
<1> USE DEF StoreInv, StorageInv, StorageTypeOK
<1>1. UNCHANGED <<mem, awaited, reading, told, faults>>
  BY DEF SaveBegin, SaveEnd, readerVars, boundVars
<1>2. CASE SaveBegin
  <2>1. torn' = TRUE
    BY <1>2 DEF SaveBegin
  <2>2. Shelf' = [k \in Key |-> IF Shelf[k] = "missing" THEN "gone" ELSE Shelf[k]]
    BY <1>1, <2>1 DEF Shelf
  <2>3. Store!GiveUp
    BY <1>1, <2>2 DEF Store!GiveUp
  <2> QED BY <2>3 DEF StoreStep, Store!StoreNext
<1>3. CASE SaveEnd
  <2>1. torn' = FALSE /\ disk' = mem
    BY <1>3 DEF SaveEnd
  <2>2. CASE torn
    <3>1. Shelf' = Shelf
      BY <1>1, <2>1, <2>2 DEF Shelf
    <3> QED BY <1>1, <3>1 DEF StoreStep
  <2>3. CASE ~torn
    <3>1. Shelf' = [k \in Key |-> IF Shelf[k] = "missing" THEN "gone" ELSE Shelf[k]]
      BY <1>1, <2>1, <2>3 DEF Shelf
    <3>2. Store!GiveUp
      BY <1>1, <3>1 DEF Store!GiveUp
    <3> QED BY <3>2 DEF StoreStep, Store!StoreNext
  <2> QED BY <2>2, <2>3
<1> QED BY <1>2, <1>3

LEMMA PutEndStep ==
  ASSUME StoreInv, PutEnd
  PROVE  StoreStep
<1> USE DEF StoreInv, StorageInv, StorageTypeOK
<1>1. PICK k \in awaited : batch = {k}
  BY DEF PutsOne, PutEnd
<1>2. k \in Key /\ mem[k] = "absent"
  BY DEF AwaitedHasNone
<1>3. /\ mem' = [n \in Key |-> IF n = k THEN "live" ELSE mem[n]]
      /\ awaited' = awaited \ {k}
      /\ UNCHANGED <<disk, torn, reading, told, faults>>
  BY <1>1 DEF PutEnd, readerVars, boundVars
<1>4. Shelf[k] = "none" /\ Shelf' = [Shelf EXCEPT ![k] = "kept"]
  BY <1>2, <1>3 DEF Shelf
<1>5. Store!Keep(k)
  BY <1>3, <1>4 DEF Store!Keep
<1> QED BY <1>2, <1>5 DEF StoreStep, Store!StoreNext

LEMMA ExpiryStep ==
  ASSUME StoreInv, NEW k \in Key, ExpiryPasses(k)
  PROVE  StoreStep
<1> USE DEF StoreInv, StorageInv, StorageTypeOK, Entry
<1>1. /\ mem' = [mem EXCEPT ![k] = IF @ = "live" THEN "due" ELSE @]
      /\ disk' = [disk EXCEPT ![k] = IF @ = "live" THEN "due" ELSE @]
      /\ UNCHANGED <<torn, reading, told, awaited, faults>>
  BY DEF ExpiryPasses, readerVars, boundVars
<1>2. k \notin awaited
  BY DEF ExpiryPasses, AwaitedHasNone
<1>3. /\ mem'[k] # "live" /\ disk'[k] # "live"
      /\ \A n \in Key \ {k} : mem'[n] = mem[n] /\ disk'[n] = disk[n]
  BY <1>1
<1>4. Shelf' = [Shelf EXCEPT ![k] = "gone"]
  <2>1. Shelf'[k] = "gone"
    BY <1>1, <1>2, <1>3 DEF Shelf
  <2>2. \A n \in Key \ {k} : Shelf'[n] = Shelf[n]
    BY <1>1, <1>3 DEF Shelf
  <2>3. Shelf' = [n \in Key |-> Shelf'[n]] /\ Shelf = [n \in Key |-> Shelf[n]]
    BY DEF Shelf
  <2> QED BY <2>1, <2>2, <2>3
<1>5. CASE Shelf[k] \in {"kept", "missing"}
  <2>1. Store!Expire(k)
    BY <1>1, <1>4, <1>5 DEF Store!Expire
  <2> QED BY <2>1 DEF StoreStep, Store!StoreNext
<1>6. CASE Shelf[k] \notin {"kept", "missing"}
  <2>1. Shelf[k] = "gone" /\ Shelf = [n \in Key |-> Shelf[n]]
    BY <1>2, <1>6 DEF Shelf
  <2>2. Shelf' = Shelf
    BY <1>4, <2>1
  <2> QED BY <1>1, <2>2 DEF StoreStep
<1> QED BY <1>5, <1>6

LEMMA GetStep ==
  ASSUME StoreInv, NEW r \in Reader, NEW k \in Key, Download(r, k) \/ ReadFile(r, k)
  PROVE  StoreStep
<1> USE DEF StoreInv, StorageInv, StorageTypeOK
<1>1. Shelf' = Shelf
  <2>1. mem' = mem /\ awaited' = awaited /\ disk' = disk /\ torn' = torn
    BY DEF Download, ReadFile, metaVars
  <2> QED BY <2>1 DEF Shelf
<1>2. CASE Download(r, k) /\ mem[k] = "live"
  <2>1. Shelf[k] = "kept"
    BY <1>2 DEF Shelf
  <2>2. /\ reading' = [reading EXCEPT ![r] = {k}] /\ told' = told /\ reading[r] = {}
        /\ faults' = faults
    BY <1>2 DEF Download, boundVars
  <2>3. Store!Find(r, k)
    BY <1>1, <2>1, <2>2 DEF Store!Find
  <2> QED BY <2>3 DEF StoreStep, Store!StoreNext
<1>3. CASE Download(r, k) /\ mem[k] # "live"
  <2>1. Shelf[k] # "kept"
    BY <1>3 DEF Shelf
  <2>2. reading' = reading /\ reading[r] = {} /\ faults' = faults
    BY <1>3 DEF Download, boundVars
  <2>3. \E a \in {"404", "410"} : told' = [told EXCEPT ![r] = a]
    BY <1>3 DEF Download, Entry
  <2>4. Store!Refuse(r, k)
    BY <1>1, <2>1, <2>2, <2>3 DEF Store!Refuse
  <2> QED BY <2>4 DEF StoreStep, Store!StoreNext
<1>4. CASE ReadFile(r, k)
  <2>1. k \in reading[r] /\ reading' = [reading EXCEPT ![r] = {}]
    BY <1>4 DEF ReadFile
  <2>2. file[k] # "partial" /\ k \notin awaited
    BY <2>1 DEF ReadingIsWhole, AwaitedHasNone
  <2>3. ASSUME told' = [told EXCEPT ![r] = "200"], faults' = faults
        PROVE  StoreStep
    <3>1. Store!Deliver(r, k)
      BY <1>1, <2>1, <2>3 DEF Store!Deliver
    <3> QED BY <3>1 DEF StoreStep, Store!StoreNext
  <2>4. ASSUME file[k] = "none", told' = [told EXCEPT ![r] = "500"], faults' = faults
        PROVE  StoreStep
    <3>1. Shelf[k] = "gone"
      BY <2>2, <2>4 DEF LiveHasFile, Shelf
    <3>2. Store!Deliver(r, k)
      BY <1>1, <2>1, <2>4, <3>1 DEF Store!Deliver
    <3> QED BY <3>2 DEF StoreStep, Store!StoreNext
  <2>5. ASSUME told' = [told EXCEPT ![r] = "500"], faults' = faults + 1
        PROVE  StoreStep
    <3>1. Store!Deliver(r, k)
      BY <1>1, <2>1, <2>5 DEF Store!Deliver
    <3> QED BY <3>1 DEF StoreStep, Store!StoreNext
  <2> QED BY <1>4, <2>2, <2>3, <2>4, <2>5 DEF ReadFile, Fault, boundVars
<1> QED BY <1>2, <1>3, <1>4

(* A restart loses what was in memory only, and what waited for a report   *)
(* whose file was begun; when it cannot read the copy, what that lists is  *)
(* missing.                                                                *)
LEMMA CrashStep ==
  ASSUME StoreInv, Crash
  PROVE  StoreStep
<1> USE DEF StoreInv, StorageInv, StorageTypeOK
<1> DEFINE Known == {"kept", "missing"}
           K     == {k \in Key : Shelf'[k] = "gone" /\ Shelf[k] # "missing"}
<1>1. /\ UNCHANGED <<disk, torn, told>> /\ reading' = [r \in Reader |-> {}]
      /\ awaited' \subseteq awaited
  BY DEF Crash
<1>2. ASSUME NEW k \in Key, Shelf[k] \notin Known
      PROVE  Shelf'[k] = "gone" \/ Shelf'[k] = Shelf[k]
  <2>1. mem[k] # "live" /\ (k \in awaited \/ disk[k] # "live" \/ torn)
    BY <1>2 DEF Shelf
  <2>2. disk[k] # "live" \/ torn
    BY <2>1 DEF AwaitedHasNone
  <2>3. mem'[k] # "live"
    BY <2>2 DEF Crash
  <2> QED BY <1>1, <2>1, <2>2, <2>3 DEF Shelf
<1>3. ASSUME NEW k \in Key, Shelf[k] \in Known, UNCHANGED faults
      PROVE  /\ Shelf'[k] \in {"kept", "gone"}
             /\ Shelf[k] = "missing" => Shelf'[k] = "kept"
  <2>1. k \notin awaited
    BY <1>3 DEF Shelf, AwaitedHasNone
  <2>2. mem'[k] = IF torn THEN "absent" ELSE disk[k]
    BY <1>3 DEF Crash, Fault
  <2>3. Shelf[k] = "missing" => disk[k] = "live" /\ ~torn
    BY DEF Shelf
  <2> QED BY <1>1, <2>1, <2>2, <2>3 DEF Shelf
<1>4. ASSUME NEW k \in Key, Shelf[k] \in Known, faults' # faults
      PROVE  /\ Shelf'[k] \in {"missing", "gone"}
             /\ Shelf[k] = "missing" => Shelf'[k] = "missing"
  <2>1. k \notin awaited
    BY <1>4 DEF Shelf, AwaitedHasNone
  <2>2. mem'[k] = "absent"
    BY <1>4 DEF Crash
  <2>3. Shelf[k] = "missing" => disk[k] = "live" /\ ~torn
    BY DEF Shelf
  <2> QED BY <1>1, <2>1, <2>2, <2>3 DEF Shelf
<1>5. Shelf' = [k \in Key |-> IF k \in K THEN "gone"
                              ELSE IF Shelf[k] \notin {"kept", "missing"} THEN Shelf[k]
                              ELSE IF faults' = faults THEN "kept" ELSE "missing"]
  <2>1. \A k \in Key : Shelf'[k] = IF k \in K THEN "gone"
                                   ELSE IF Shelf[k] \notin {"kept", "missing"} THEN Shelf[k]
                                   ELSE IF faults' = faults THEN "kept" ELSE "missing"
    BY <1>2, <1>3, <1>4
  <2>2. Shelf' = [k \in Key |-> Shelf'[k]]
    BY DEF Shelf
  <2> HIDE DEF K
  <2> QED BY <2>1, <2>2
<1>6. /\ K \in SUBSET Key /\ \A k \in K : Shelf[k] # "missing"
      /\ faults' \in {faults, faults + 1}
  BY DEF Crash, Fault
<1> HIDE DEF K
<1>7. Store!Restart(K)
  BY <1>1, <1>5, <1>6 DEF Store!Restart
<1> QED BY <1>6, <1>7 DEF StoreStep, Store!StoreNext

(* To those who download, the files, the map and its copy are one store    *)
(* that keeps a report until it expires or is lost, brings back only what  *)
(* a restart could not look up, and answers with what it kept when Get     *)
(* looked, or with an error when that has gone or cannot be read.          *)
THEOREM StorageIsStore == StorageSpec => StoreSpec
<1>1. StorageInit => StoreInv
  BY StorageInvInit DEF StoreInv, StorageInit, PutsOne
<1>2. StoreInv /\ [StorageNext]_storageVars => StoreInv'
  BY StoreInvNext
<1>3. StorageInit => Store!StoreInit
  BY DEF StorageInit, Store!StoreInit, Shelf
<1>4. StoreInv /\ [StorageNext]_storageVars
        => [Store!StoreNext]_(Store!storeVars)
  <2> SUFFICES ASSUME StoreInv, [StorageNext]_storageVars PROVE StoreStep
    BY DEF StoreStep, Store!storeVars
  <2>1. CASE StorageNext
    BY <2>1, QuietStoreStep, SaveStep, PutEndStep, ExpiryStep, GetStep, CrashStep
       DEF StorageNext, Working
  <2>2. CASE UNCHANGED storageVars
    BY <2>2 DEF StoreStep, Shelf, storageVars, metaVars, readerVars, boundVars
  <2> QED BY <2>1, <2>2
<1> QED BY <1>1, <1>2, <1>3, <1>4, PTL DEF StorageSpec, StoreSpec, Store!StoreSpec

=============================================================================
