---------------------------- MODULE ReportStore -----------------------------
(***************************************************************************)
(* What a report storage promises those who download, without files, maps, *)
(* locks or a metadata file.  A report is kept once and, when it expires   *)
(* or the storage loses it, gone for good.  It is missing while a storage  *)
(* that started without its list does not know of it; a later start finds  *)
(* it again, unless it expired or was given up.  A download that found a   *)
(* report is answered with it, or with an error when it has gone since or  *)
(* the medium fails; one that did not find it is refused.  LocalStorage    *)
(* implements this.                                                        *)
(***************************************************************************)
EXTENDS Naturals

CONSTANTS
  Key,     \* the reports
  Reader   \* the downloads

VARIABLES
  shelf,   \* shelf[k]: "none", "kept", "missing" or "gone"
  open,    \* open[r]: the report download r found, until it is answered
  answer,  \* answer[r]: the last answer download r got
  faults   \* how often the medium failed

storeVars == <<shelf, open, answer, faults>>

StoreInit ==
  /\ shelf = [k \in Key |-> "none"]
  /\ open = [r \in Reader |-> {}]
  /\ answer = [r \in Reader |-> "nothing"]
  /\ faults = 0

(* local_storage.go:50-71: Put returns no error. *)
Keep(k) ==
  /\ shelf[k] = "none"
  /\ shelf' = [shelf EXCEPT ![k] = "kept"]
  /\ UNCHANGED <<open, answer, faults>>

(* local_storage.go:82: the report expires. *)
Expire(k) ==
  /\ shelf[k] \in {"kept", "missing"}
  /\ shelf' = [shelf EXCEPT ![k] = "gone"]
  /\ UNCHANGED <<open, answer, faults>>

(* local_storage.go:164-176: a save lists what is kept, not the missing.   *)
GiveUp ==
  /\ shelf' = [k \in Key |-> IF shelf[k] = "missing" THEN "gone" ELSE shelf[k]]
  /\ UNCHANGED <<open, answer, faults>>

(* local_storage.go:144-161: the process starts again.  Downloads are cut  *)
(* off and reports K lost, because the list does not name them; the others *)
(* it has, kept or missing, are kept when the list can be read and missing *)
(* when the medium fails.                                                  *)
Restart(K) ==
  /\ \A k \in K : shelf[k] # "missing"
  /\ faults' \in {faults, faults + 1}
  /\ shelf' = [k \in Key |->
                 IF k \in K THEN "gone"
                 ELSE IF shelf[k] \notin {"kept", "missing"} THEN shelf[k]
                 ELSE IF faults' = faults THEN "kept" ELSE "missing"]
  /\ open' = [r \in Reader |-> {}]
  /\ UNCHANGED answer

(* local_storage.go:73-84: Get looks the report up. *)
Find(r, k) ==
  /\ open[r] = {}
  /\ shelf[k] = "kept"
  /\ open' = [open EXCEPT ![r] = {k}]
  /\ UNCHANGED <<shelf, answer, faults>>

Refuse(r, k) ==
  /\ open[r] = {}
  /\ shelf[k] # "kept"
  /\ \E a \in {"404", "410"} : answer' = [answer EXCEPT ![r] = a]
  /\ UNCHANGED <<shelf, open, faults>>

(* local_storage.go:86-92: Get reads the report, if it still can. *)
Deliver(r, k) ==
  /\ k \in open[r]
  /\ open' = [open EXCEPT ![r] = {}]
  /\ \/ answer' = [answer EXCEPT ![r] = "200"] /\ UNCHANGED faults
     \/ /\ answer' = [answer EXCEPT ![r] = "500"]
        /\ \/ shelf[k] = "gone" /\ UNCHANGED faults
           \/ faults' = faults + 1
  /\ UNCHANGED shelf

(* Whatever else the medium refuses changes nothing that was promised. *)
Disturb ==
  /\ faults' = faults + 1
  /\ UNCHANGED <<shelf, open, answer>>

StoreNext ==
  \/ \E k \in Key : Keep(k) \/ Expire(k)
  \/ GiveUp \/ Disturb
  \/ \E K \in SUBSET Key : Restart(K)
  \/ \E r \in Reader, k \in Key : Find(r, k) \/ Refuse(r, k) \/ Deliver(r, k)

StoreSpec == StoreInit /\ [][StoreNext]_storeVars

=============================================================================
