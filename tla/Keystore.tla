------------------------------ MODULE Keystore ------------------------------
(***************************************************************************)
(* The keystore of the local servers of one machine                         *)
(* (packages/local/src/keystore.ts): a file that holds the identity, made by  *)
(* the first process that finds none.  loadOrCreateKeystore is synchronous,     *)
(* but the system runs several processes, and their calls on the files come in  *)
(* any order; a process may be killed between any two.  A file that was opened   *)
(* for writing and not written yet has no content.                             *)
(*                                                                         *)
(* Every process has the right passphrase, so that reading a whole file yields   *)
(* its keys; what a loss of power does to a file renamed a moment before is not   *)
(* modelled.                                                                   *)
(***************************************************************************)
EXTENDS Integers, FiniteSets

CONSTANTS
    Process,   \* the process ids, used again after a process has ended
    NoFile,    \* "no such file"
    MaxStart   \* bound: how many processes are started

ASSUME KeystoreAssumption == MaxStart \in Nat /\ NoFile \notin Nat

VARIABLES
    file,      \* what is at the path: the keys, by number, Torn or NoFile
    tmp,       \* tmp[p]: what is at the path with ".tmp-" and p's id
    process,   \* process[p]: where process p is, and the keys it has in memory
    starts,    \* how many processes were started; generated keys are numbered by it
    used,      \* history: the keys processes went on with
    raced      \* history: two processes made keystores at the same time

keystoreVars == <<file, tmp, process, starts, used, raced>>

Torn == 0
Gone == [at |-> "gone", keys |-> 0]
At(p, at) == process[p].at = at
Moves(p, at, keys) == process' = [process EXCEPT ![p] = [at |-> at, keys |-> keys]]
Making == {p \in Process : process[p].at \in {"create", "write", "rename"}}

KeystoreInit ==
    /\ file = NoFile
    /\ tmp = [p \in Process |-> NoFile]
    /\ process = [p \in Process |-> Gone]
    /\ starts = 0
    /\ used = {}
    /\ raced = FALSE

StartProcess(p) ==
    /\ At(p, "gone")
    /\ starts < MaxStart
    /\ starts' = starts + 1
    /\ Moves(p, "check", starts')
    /\ UNCHANGED <<file, tmp, used, raced>>

(* existsSync; without a file, keys are generated. *)
CheckExists(p) ==
    /\ At(p, "check")
    /\ IF file # NoFile THEN Moves(p, "read", process[p].keys)
                        ELSE Moves(p, "create", process[p].keys)
    /\ raced' = (raced \/ (file = NoFile /\ Making # {}))
    /\ UNCHANGED <<file, tmp, starts, used>>

(* readFileSync and decodeKeystore; of a file that is not whole the process dies. *)
ReadKeys(p) ==
    /\ At(p, "read")
    /\ IF file = Torn
         THEN Moves(p, "gone", 0) /\ UNCHANGED used
         ELSE Moves(p, "serving", file) /\ used' = used \cup {file}
    /\ UNCHANGED <<file, tmp, starts, raced>>

(* Mutant: the keystore itself is opened, and not a file beside it. *)
CreateInPlace(p) ==
    /\ At(p, "create")
    /\ file' = Torn
    /\ tmp' = [tmp EXCEPT ![p] = Torn]
    /\ Moves(p, "write", process[p].keys)
    /\ UNCHANGED <<starts, used, raced>>

(* writeFileSync opens the file beside the keystore, and truncates what a killed process
   of this id left there; then it writes. *)
CreateTmp(p) ==
    /\ At(p, "create")
    /\ tmp' = [tmp EXCEPT ![p] = Torn]
    /\ Moves(p, "write", process[p].keys)
    /\ UNCHANGED <<file, starts, used, raced>>

(* Mutant: the process goes on with its keys before they are in place. *)
WriteTmpAndServe(p) ==
    /\ At(p, "write")
    /\ tmp' = [tmp EXCEPT ![p] = process[p].keys]
    /\ used' = used \cup {process[p].keys}
    /\ Moves(p, "rename", process[p].keys)
    /\ UNCHANGED <<file, starts, raced>>

WriteTmp(p) ==
    /\ At(p, "write")
    /\ tmp' = [tmp EXCEPT ![p] = process[p].keys]
    /\ Moves(p, "rename", process[p].keys)
    /\ UNCHANGED <<file, starts, used, raced>>

(* renameSync, and the keys are returned. *)
Rename(p) ==
    /\ At(p, "rename")
    /\ file' = tmp[p]
    /\ tmp' = [tmp EXCEPT ![p] = NoFile]
    /\ used' = used \cup {process[p].keys}
    /\ Moves(p, "serving", process[p].keys)
    /\ UNCHANGED <<starts, raced>>

(* The process ends, or is killed where it is. *)
End(p) ==
    /\ ~At(p, "gone")
    /\ process' = [process EXCEPT ![p] = Gone]
    /\ UNCHANGED <<file, tmp, starts, used, raced>>

KeystoreNext == \E p \in Process :
    \/ StartProcess(p)
    \/ CheckExists(p)
    \/ ReadKeys(p)
    \/ CreateTmp(p)
    \/ WriteTmp(p)
    \/ Rename(p)
    \/ End(p)

KeystoreSpec == KeystoreInit /\ [][KeystoreNext]_keystoreVars

-----------------------------------------------------------------------------
(* Whatever is killed where, the keystore is not there or it is whole ("a crash mid-write
   can't corrupt the only copy", keystore.ts:79). *)
KeystoreWhole == file # Torn

(* "A stable identity across restarts" (keystore.ts:66-67): unless two processes made a
   keystore at the same time, every process of the machine has gone on with the same keys,
   and they are the stored ones. *)
OneIdentity == ~raced => used \subseteq {file}

=============================================================================
