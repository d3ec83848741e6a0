--------------------------- MODULE KeystoreProofs ---------------------------
(***************************************************************************)
(* For every number of processes and starts: the keystore is never torn, and  *)
(* without a race all processes have gone on with the stored keys.            *)
(***************************************************************************)
EXTENDS Keystore, TLAPS

Place == {"gone", "check", "read", "create", "write", "rename", "serving"}
Content == Nat \cup {NoFile}

KeystoreTypeOK ==
    /\ file \in Content
    /\ tmp \in [Process -> Content]
    /\ process \in [Process -> [at : Place, keys : Nat]]
    /\ starts \in Nat
    /\ raced \in BOOLEAN

(* A process about to rename has written its keys beside the keystore, where no other
   process writes; a process that reads has found a file, and files stay. *)
WholeInv ==
    /\ KeystoreTypeOK
    /\ KeystoreWhole
    /\ \A p \in Process :
         /\ process[p].at # "gone" => process[p].keys > 0
         /\ process[p].at = "rename" => tmp[p] = process[p].keys
         /\ process[p].at = "read" => file # NoFile

LEMMA WholeInit == KeystoreInit => WholeInv
<1> SUFFICES ASSUME KeystoreInit PROVE WholeInv
  OBVIOUS
<1>1. raced \in BOOLEAN
  BY DEF KeystoreInit
<1>2. file \in Content /\ starts \in Nat /\ file # Torn
  BY KeystoreAssumption DEF KeystoreInit, Content, Torn
<1>3. tmp \in [Process -> Content] /\ process \in [Process -> [at : Place, keys : Nat]]
  BY DEF KeystoreInit, Content, Place, Gone
<1>4. \A p \in Process : process[p].at = "gone"
  BY DEF KeystoreInit, Gone
<1> QED
  BY <1>1, <1>2, <1>3, <1>4 DEF WholeInv, KeystoreTypeOK, KeystoreWhole

LEMMA WholeStep == WholeInv /\ [KeystoreNext]_keystoreVars => WholeInv'
<1> SUFFICES ASSUME WholeInv, [KeystoreNext]_keystoreVars PROVE WholeInv'
  OBVIOUS
<1> USE KeystoreAssumption
    DEF WholeInv, KeystoreTypeOK, KeystoreWhole, Content, Place, Torn, At, Moves
<1>1. ASSUME NEW p \in Process, StartProcess(p) PROVE WholeInv'
  BY <1>1 DEF StartProcess
<1>2. ASSUME NEW p \in Process, CheckExists(p) PROVE WholeInv'
  <2>1. raced' \in BOOLEAN
    BY <1>2 DEF CheckExists
  <2>2. CASE file # NoFile
    BY <1>2, <2>1, <2>2 DEF CheckExists
  <2>3. CASE file = NoFile
    BY <1>2, <2>1, <2>3 DEF CheckExists
  <2> QED
    BY <2>2, <2>3
<1>3. ASSUME NEW p \in Process, ReadKeys(p) PROVE WholeInv'
  <2>1. file \in Nat /\ file > 0
    BY <1>3 DEF ReadKeys
  <2> QED
    BY <1>3, <2>1 DEF ReadKeys
<1>4. ASSUME NEW p \in Process, CreateTmp(p) PROVE WholeInv'
  BY <1>4 DEF CreateTmp
<1>5. ASSUME NEW p \in Process, WriteTmp(p) PROVE WholeInv'
  BY <1>5 DEF WriteTmp
<1>6. ASSUME NEW p \in Process, Rename(p) PROVE WholeInv'
  BY <1>6 DEF Rename
<1>7. ASSUME NEW p \in Process, End(p) PROVE WholeInv'
  BY <1>7 DEF End, Gone
<1>8. CASE UNCHANGED keystoreVars
  BY <1>8 DEF keystoreVars
<1> QED
  BY <1>1, <1>2, <1>3, <1>4, <1>5, <1>6, <1>7, <1>8 DEF KeystoreNext

LEMMA AlwaysWhole == KeystoreSpec => []WholeInv
BY WholeInit, WholeStep, PTL DEF KeystoreSpec

(* The keystore is whole or not there, wherever processes are killed: writeFileSync and
   renameSync of loadOrCreateKeystore. *)
THEOREM KeystoreIsWhole == KeystoreSpec => []KeystoreWhole
<1>1. WholeInv => KeystoreWhole
  BY DEF WholeInv
<1> QED
  BY AlwaysWhole, <1>1, PTL

-----------------------------------------------------------------------------
(* Without a race one process at most makes a keystore, and until it has renamed it
   there is none, so that nobody uses any keys. *)
IdentityInv ==
    ~raced =>
        /\ used \subseteq {file}
        /\ file = NoFile => used = {}
        /\ \A p \in Making : file = NoFile
        /\ \A p, q \in Making : p = q

LEMMA IdentityInit == KeystoreInit => IdentityInv
BY DEF KeystoreInit, IdentityInv, Making, Gone

LEMMA IdentityStep ==
    WholeInv /\ IdentityInv /\ [KeystoreNext]_keystoreVars => IdentityInv'
<1> SUFFICES ASSUME WholeInv, IdentityInv, [KeystoreNext]_keystoreVars, ~raced'
             PROVE  IdentityInv'
  BY DEF IdentityInv
<1> USE KeystoreAssumption
    DEF WholeInv, KeystoreTypeOK, IdentityInv, Making, At, Moves
<1>1. ASSUME NEW p \in Process, StartProcess(p) PROVE IdentityInv'
  BY <1>1 DEF StartProcess
<1>2. ASSUME NEW p \in Process, CheckExists(p) PROVE IdentityInv'
  <2>1. CASE file # NoFile
    BY <1>2, <2>1 DEF CheckExists
  <2>2. CASE file = NoFile
    <3>1. Making = {} /\ ~raced
      BY <1>2, <2>2 DEF CheckExists
    <3>2. \A q \in Making' : q = p
      BY <1>2, <2>2, <3>1 DEF CheckExists
    <3> QED
      BY <1>2, <2>2, <3>1, <3>2 DEF CheckExists
  <2> QED
    BY <2>1, <2>2
<1>3. ASSUME NEW p \in Process, ReadKeys(p) PROVE IdentityInv'
  <2>1. file # NoFile /\ ~raced
    BY <1>3 DEF ReadKeys
  <2>2. Making' \subseteq Making
    BY <1>3 DEF ReadKeys
  <2> QED
    BY <1>3, <2>1, <2>2 DEF ReadKeys
<1>4. ASSUME NEW p \in Process, CreateTmp(p) PROVE IdentityInv'
  BY <1>4 DEF CreateTmp
<1>5. ASSUME NEW p \in Process, WriteTmp(p) PROVE IdentityInv'
  BY <1>5 DEF WriteTmp
<1>6. ASSUME NEW p \in Process, Rename(p) PROVE IdentityInv'
  <2>1. p \in Making /\ ~raced /\ used = {}
    BY <1>6 DEF Rename
  <2>2. file' = process[p].keys /\ used' = {process[p].keys}
    BY <1>6, <2>1 DEF Rename
  <2>3. Making' = {}
    BY <1>6, <2>1 DEF Rename
  <2>4. process[p].keys \in Nat
    OBVIOUS
  <2> QED
    BY <2>2, <2>3, <2>4
<1>7. ASSUME NEW p \in Process, End(p) PROVE IdentityInv'
  BY <1>7 DEF End, Gone
<1>8. CASE UNCHANGED keystoreVars
  BY <1>8 DEF keystoreVars
<1> QED
  BY <1>1, <1>2, <1>3, <1>4, <1>5, <1>6, <1>7, <1>8 DEF KeystoreNext

(* Unless two processes made a keystore at the same time, every process has gone on with
   the keys that are stored (keystore.ts:66-67). *)
THEOREM IdentityIsStable == KeystoreSpec => []OneIdentity
<1>1. IdentityInv => OneIdentity
  BY DEF IdentityInv, OneIdentity
<1> QED
  BY AlwaysWhole, IdentityInit, IdentityStep, <1>1, PTL DEF KeystoreSpec

=============================================================================
