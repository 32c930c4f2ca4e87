---------------------------- MODULE LocalStorage ----------------------------
(***************************************************************************)
(* Reports on the local file system (local_storage.go) and the download    *)
(* that reads them (handlers.go GetReport): one file per report, the map   *)
(* metadata of expiry times in memory, and a copy of it in .metadata.json. *)
(*                                                                         *)
(* Put and CleanupExpired hold the write lock, but the file, the map and   *)
(* the copy change one after the other, os.WriteFile truncates before it   *)
(* writes, and the process may end in between.  Get releases the lock      *)
(* before it reads the file.                                               *)
(***************************************************************************)
EXTENDS Naturals

CONSTANTS
  Key,         \* report keys
  Reader,      \* downloads that run at the same time
  MaxCrashes,  \* bound: how often the process ends
  MaxFaults    \* bound: how often the file system returns an error

ASSUME StorageAssumption == MaxCrashes \in Nat /\ MaxFaults \in Nat

VARIABLES
  file,     \* file[k]: "none", "partial" or "whole"
  mem,      \* mem[k]: the entry of the map, "absent", "live" or "due"
  disk,     \* disk[k]: the entry last written to .metadata.json
  torn,     \* is .metadata.json truncated or half written?
  lock,     \* what the holder of the write lock does, or "free"
  batch,    \* the keys it is working on
  reading,  \* reading[r]: the key whose file download r is about to read
  told,     \* told[r]: the answer of its last download
  awaited,  \* the keys whose check still waits for its report
  crashes, faults

metaVars    == <<mem, disk, torn>>
lockVars    == <<lock, batch>>
readerVars  == <<reading, told>>
boundVars   == <<crashes, faults>>
storageVars == <<file, metaVars, lockVars, readerVars, awaited, boundVars>>

Entry == {"absent", "live", "due"}
(* Mutant: the cleanup does not compare the time.                          *)
DueOrNot == {k \in Key : mem[k] # "absent"}

Due   == {k \in Key : mem[k] = "due"}

Fault == faults < MaxFaults /\ faults' = faults + 1

-----------------------------------------------------------------------------
(* Put, under the lock: the file, the map, the copy                        *)

(* Mutant: the map gets its entry before the file is written.              *)
PutMapFirst(k) ==
  /\ lock = "free"
  /\ k \in awaited
  /\ lock' = "write"
  /\ batch' = {k}
  /\ file' = [file EXCEPT ![k] = "partial"]
  /\ mem' = [mem EXCEPT ![k] = "live"]
  /\ UNCHANGED <<disk, torn, readerVars, awaited, boundVars>>

(* The key is the UUID of a check.  The report worker puts it again after  *)
(* a failure, and no more once Put succeeded: the check then has its key   *)
(* (PutsBeforeLinks in CheckPipeline).  A restart forgets the check.       *)
PutBegin(k) ==
  /\ lock = "free"
  /\ k \in awaited
  /\ lock' = "write"
  /\ batch' = {k}
  /\ file' = [file EXCEPT ![k] = "partial"]
  /\ UNCHANGED <<metaVars, readerVars, awaited, boundVars>>

(* The write fails half way; an open that fails changes nothing.           *)
PutFails ==
  /\ lock = "write"
  /\ Fault
  /\ lock' = "free"
  /\ batch' = {}
  /\ UNCHANGED <<file, metaVars, readerVars, awaited, crashes>>

PutEnd ==
  /\ lock = "write"
  /\ lock' = "save"
  /\ file' = [k \in Key |-> IF k \in batch THEN "whole" ELSE file[k]]
  /\ mem' = [k \in Key |-> IF k \in batch THEN "live" ELSE mem[k]]
  /\ batch' = {}
  /\ awaited' = awaited \ batch
  /\ UNCHANGED <<disk, torn, readerVars, boundVars>>

(* saveMetadata; its errors are only logged.                               *)
SaveBegin ==
  /\ lock = "save"
  /\ lock' = "saving"
  /\ torn' = TRUE
  /\ UNCHANGED <<file, mem, disk, batch, readerVars, awaited, boundVars>>

SaveEnd ==
  /\ lock = "saving"
  /\ lock' = "free"
  /\ torn' = FALSE
  /\ disk' = mem
  /\ UNCHANGED <<file, mem, batch, readerVars, awaited, boundVars>>

SaveFails ==
  /\ lock \in {"save", "saving"}
  /\ Fault
  /\ lock' = "free"
  /\ UNCHANGED <<file, metaVars, batch, readerVars, awaited, crashes>>

-----------------------------------------------------------------------------
(* CleanupExpired, under the lock: every file and entry, then the copy     *)

CleanupBegin ==
  /\ lock = "free"
  /\ Due # {}
  /\ lock' = "remove"
  /\ batch' = Due
  /\ UNCHANGED <<file, metaVars, readerVars, awaited, boundVars>>

(* Mutant: only the entry is removed.                                      *)
RemoveEntry(k) ==
  /\ lock = "remove"
  /\ k \in batch
  /\ batch' = batch \ {k}
  /\ mem' = [mem EXCEPT ![k] = "absent"]
  /\ UNCHANGED <<file, disk, torn, lock, readerVars, awaited, boundVars>>

(* The entry goes even when the file cannot be removed.                    *)
RemoveExpired(k) ==
  /\ lock = "remove"
  /\ k \in batch
  /\ batch' = batch \ {k}
  /\ mem' = [mem EXCEPT ![k] = "absent"]
  /\ \/ file' = [file EXCEPT ![k] = "none"] /\ UNCHANGED boundVars
     \/ Fault /\ UNCHANGED <<file, crashes>>
  /\ UNCHANGED <<disk, torn, lock, readerVars, awaited>>

(* Mutant: the copy is not written after a cleanup.                        *)
CleanupUnsaved ==
  /\ lock = "remove"
  /\ batch = {}
  /\ lock' = "free"
  /\ UNCHANGED <<file, metaVars, batch, readerVars, awaited, boundVars>>

CleanupEnd ==
  /\ lock = "remove"
  /\ batch = {}
  /\ lock' = "save"
  /\ UNCHANGED <<file, metaVars, batch, readerVars, awaited, boundVars>>

-----------------------------------------------------------------------------
(* Get, and what GetReport answers                                         *)

(* Mutant: the expiry of the entry is not compared with the time.          *)
DownloadExpired(r, k) ==
  /\ reading[r] = {}
  /\ lock = "free"
  /\ reading' = [reading EXCEPT ![r] = IF mem[k] = "absent" THEN {} ELSE {k}]
  /\ told' = IF mem[k] = "absent" THEN [told EXCEPT ![r] = "404"] ELSE told
  /\ UNCHANGED <<file, metaVars, lockVars, awaited, boundVars>>

(* The entry, under the read lock; the file is read after it is released.  *)
Download(r, k) ==
  /\ reading[r] = {}
  /\ lock = "free"
  /\ reading' = [reading EXCEPT ![r] = IF mem[k] = "live" THEN {k} ELSE {}]
  /\ told' = [told EXCEPT ![r] = CASE mem[k] = "absent" -> "404"
                                   [] mem[k] = "due"    -> "410"
                                   [] mem[k] = "live"   -> @]
  /\ UNCHANGED <<file, metaVars, lockVars, awaited, boundVars>>

(* os.ReadFile fails when the file has gone, or although it is there; the  *)
(* handler tells neither from any other error.                             *)
ReadFile(r, k) ==
  /\ k \in reading[r]
  /\ reading' = [reading EXCEPT ![r] = {}]
  /\ \/ /\ told' = [told EXCEPT ![r] = CASE file[k] = "none"    -> "500"
                                         [] file[k] = "partial" -> "half"
                                         [] file[k] = "whole"   -> "200"]
        /\ UNCHANGED boundVars
     \/ /\ told' = [told EXCEPT ![r] = "500"]
        /\ Fault /\ UNCHANGED crashes
  /\ UNCHANGED <<file, metaVars, lockVars, awaited>>

-----------------------------------------------------------------------------
(* Time, and the end of the process                                        *)

ExpiryPasses(k) ==
  /\ "live" \in {mem[k], disk[k]}
  /\ mem' = [mem EXCEPT ![k] = IF @ = "live" THEN "due" ELSE @]
  /\ disk' = [disk EXCEPT ![k] = IF @ = "live" THEN "due" ELSE @]
  /\ UNCHANGED <<file, torn, lockVars, readerVars, awaited, boundVars>>

(* Mutant: a truncated .metadata.json is not told from a whole one.        *)
CrashLoadsTorn ==
  /\ crashes < MaxCrashes
  /\ crashes' = crashes + 1
  /\ lock' = "free"
  /\ batch' = {}
  /\ mem' = [k \in Key |-> IF torn THEN "torn" ELSE disk[k]]
  /\ reading' = [r \in Reader |-> {}]
  /\ awaited' = {k \in awaited : file[k] = "none"}
  /\ UNCHANGED <<file, disk, torn, told, faults>>

(* The process ends and starts again: loadMetadata reads .metadata.json,   *)
(* or starts with an empty map, when it is not the JSON of one or cannot   *)
(* be read; the entries it lists then stay there until the next save.  The *)
(* checks that waited for a report are forgotten; a key without a file     *)
(* stands for one of a new check.                                          *)
Crash ==
  /\ crashes < MaxCrashes
  /\ crashes' = crashes + 1
  /\ lock' = "free"
  /\ batch' = {}
  /\ \/ /\ mem' = [k \in Key |-> IF torn THEN "absent" ELSE disk[k]]
        /\ UNCHANGED faults
     \/ /\ mem' = [k \in Key |-> "absent"]
        /\ Fault
  /\ reading' = [r \in Reader |-> {}]
  /\ awaited' = {k \in awaited : file[k] = "none"}
  /\ UNCHANGED <<file, disk, torn, told>>

-----------------------------------------------------------------------------

StorageInit ==
  /\ file = [k \in Key |-> "none"]
  /\ mem = [k \in Key |-> "absent"]
  /\ disk = [k \in Key |-> "absent"]
  /\ torn = FALSE
  /\ lock = "free"
  /\ batch = {}
  /\ reading = [r \in Reader |-> {}]
  /\ told = [r \in Reader |-> "nothing"]
  /\ awaited = Key
  /\ crashes = 0
  /\ faults = 0

Working == \/ PutFails \/ PutEnd \/ SaveBegin \/ SaveEnd \/ SaveFails
           \/ \E k \in Key : RemoveExpired(k)
           \/ CleanupEnd

StorageNext ==
  \/ \E k \in Key : PutBegin(k) \/ ExpiryPasses(k)
  \/ CleanupBegin
  \/ Working
  \/ \E r \in Reader, k \in Key : Download(r, k) \/ ReadFile(r, k)
  \/ Crash

StorageSpec == StorageInit /\ [][StorageNext]_storageVars

(* Whoever has the lock goes on.  The cleanup ticks every few minutes; it  *)
(* competes for the lock, and sync.RWMutex does not starve a writer.       *)
FairStorageSpec ==
  StorageSpec /\ WF_storageVars(Working) /\ SF_storageVars(CleanupBegin)

-----------------------------------------------------------------------------
(* Properties *)

(* Every variable has its type.                                            *)
StorageTypeOK ==
  /\ file \in [Key -> {"none", "partial", "whole"}]
  /\ mem \in [Key -> Entry]
  /\ disk \in [Key -> Entry]
  /\ torn \in BOOLEAN
  /\ lock \in {"free", "write", "save", "saving", "remove"}
  /\ batch \subseteq Key
  /\ reading \in [Reader -> SUBSET Key]
  /\ told \in [Reader -> {"nothing", "200", "404", "410", "500", "half"}]
  /\ awaited \subseteq Key
  /\ crashes \in Nat
  /\ faults \in Nat

(* An entry that has not expired has its whole file, in memory and in      *)
(* .metadata.json, wherever the process ended and whatever the file system *)
(* refused: Put writes the file first, the cleanup takes only what expired *)
(* (local_storage.go:56-66, 105-111).                                      *)
LiveHasFile ==
  \A k \in Key : "live" \in {mem[k], disk[k]} => file[k] = "whole"

(* No download is answered with a half written report, although the file   *)
(* is read without the lock (local_storage.go:74-87).                      *)
NoHalfReport == \A r \in Reader : told[r] # "half"

(* Between operations .metadata.json says what memory says, after restarts *)
(* too, unless the file system refused something: a restart then finds     *)
(* every report.  Only a process that ended in the middle of a save leaves *)
(* it torn, and no longer than until the next one.                         *)
CopyIsCurrent ==
  lock = "free" /\ faults = 0 => IF torn THEN crashes > 0 ELSE disk = mem

(* A download that found a live entry brings the whole report, unless the  *)
(* report expired before the file was read, or the file system refused to  *)
(* read it (local_storage.go:74-90): only then may the client read 500.    *)
ReadBringsReport ==
  [][\A r \in Reader, k \in Key :
       ReadFile(r, k) => told'[r] = "200" \/ mem[k] # "live" \/ faults' # faults]_storageVars

(* README.md:84-86 "404 Not Found if token valid but report was already    *)
(* deleted": so says the answer when the file is found to have gone.       *)
DeletedIsNotFound ==
  [][\A r \in Reader, k \in Key :
       ReadFile(r, k) /\ file[k] = "none" => told'[r] = "404"]_storageVars

(* To those who download it is a store that keeps a report until it        *)
(* expires or is lost; only a report the last restart could not look up    *)
(* may come back, and only before its time and at a later restart.  Its    *)
(* answers tell what it kept: 200 only with a report it had when Get       *)
(* looked, 500 only when that has gone since or cannot be read.            *)
Shelf == [k \in Key |-> IF mem[k] = "live" THEN "kept"
                        ELSE IF k \in awaited THEN "none"
                        ELSE IF disk[k] = "live" /\ ~torn THEN "missing"
                        ELSE "gone"]
Store == INSTANCE ReportStore WITH shelf <- Shelf, open <- reading, answer <- told
StoreSpec == Store!StoreSpec

(* Files of expired reports, and of reports without an entry, go away      *)
(* unless the process ended or the file system refused something           *)
(* (local_storage.go:95-122, whatever Put and the downloads do meanwhile). *)
DeletedUnlessFailed ==
  \A k \in Key :
    file[k] = "whole" /\ mem[k] # "live" ~> (file[k] = "none" \/ crashes + faults > 0)

(* README.md:78 "Reports are physically deleted after REPORT_TTL_HOURS":   *)
(* the file of a report goes away after its entry expired, or when it has  *)
(* no entry that could.                                                    *)
DeletedAfterExpiry ==
  \A k \in Key : file[k] = "whole" /\ mem[k] # "live" ~> file[k] = "none"

=============================================================================
