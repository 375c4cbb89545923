--------------------------- MODULE KVStoreProofs ---------------------------
(***************************************************************************)
(* The store's guarantees for any number of goroutines, buckets, keys and   *)
(* values, any number of transactions and crashes.                          *)
(***************************************************************************)
EXTENDS KVStore, TLAPS

\* A file that does not exist holds nothing.
FilesOK == /\ ~file.exists => file.tree = EmptyTree
           /\ file.sealed /\ stable.sealed
           /\ ~stable.exists => stable.tree = EmptyTree

\* The read-write lock: a writer excludes everyone, and the dead hold nothing.
Locked == /\ \A p, q \in Proc : p # q /\ tx[p] \in {"write", "renamed"} => tx[q] = "none"
          /\ ~open => \A p \in Proc : tx[p] = "none"
          /\ open => keyed

\* Once the rename is done, file and tree are the same.
RenamedOK == \A p \in Proc : tx[p] = "renamed" => file.exists /\ file.tree = root

\* While a transaction edits, a bucket in memory that the file lacks was
\* created by this transaction or by one that failed before it.
EditedOK == (open /\ ~broken) =>
              \A b \in Bucket \ (phantom \cup created) :
                root[b] # Absent => file.tree[b] # Absent

\* Outside a write transaction nothing is recorded as created.
CreatedOK == Writers = {} => created = {}

IInv == /\ TypeOK /\ FilesOK /\ Locked /\ RenamedOK /\ EditedOK /\ CreatedOK
        /\ RestIsFile /\ AckedSurvives

\* The empty store satisfies the inductive invariant.
LEMMA InitInv == Init => IInv
<1> SUFFICES ASSUME Init PROVE IInv OBVIOUS
<1> USE DEF Init
<1>1. EmptyTree \in Tree BY DEF EmptyTree, Tree
<1>2. NoFile \in File BY <1>1 DEF NoFile, File
<1>3. TypeOK BY <1>1, <1>2 DEF TypeOK
<1>4. FilesOK /\ AckedSurvives BY DEF FilesOK, AckedSurvives, NoFile
<1>5. Locked /\ RenamedOK /\ CreatedOK BY DEF Locked, RenamedOK, CreatedOK
<1>6. EditedOK /\ RestIsFile BY DEF EditedOK, RestIsFile, NoFile, EmptyTree
<1> QED BY <1>3, <1>4, <1>5, <1>6 DEF IInv

\* Every in-place edit of a write transaction leaves file and history alone, and
\* makes no bucket appear that is not recorded as created.
LEMMA EditInv ==
  ASSUME IInv, NEW p \in Proc, tx[p] = "write", edited,
         root' \in Tree, created' \subseteq Bucket, created \subseteq created',
         \A b \in Bucket : root[b] = Absent /\ root'[b] # Absent => b \in created'
  PROVE  IInv'
<1>1. TypeOK' BY DEF IInv, TypeOK, edited
<1>2. FilesOK' /\ Locked' /\ AckedSurvives' BY DEF IInv, FilesOK, Locked, AckedSurvives, edited
<1>3. open /\ p \in Writers /\ p \in Writers' BY DEF IInv, Locked, Writers, edited
<1>4. RenamedOK' BY DEF IInv, Locked, RenamedOK, TypeOK, edited
<1>5. EditedOK' BY <1>3 DEF IInv, EditedOK, edited
<1>6. CreatedOK' /\ RestIsFile' BY <1>3 DEF CreatedOK, RestIsFile, AtRest
<1> QED BY <1>1, <1>2, <1>4, <1>5, <1>6 DEF IInv

\* The six operations on buckets and entries are such edits.
LEMMA OperationsInv == ASSUME IInv, NEW p \in Proc, edit(p) PROVE IInv'
<1> USE DEF TypeOK, Tree, Data
<1>0. root \in Tree /\ created \subseteq Bucket BY DEF IInv
<1>1. ASSUME NEW b \in Bucket, CreateBucket(p, b) PROVE IInv'
  <2>1. newBucketData \in Data BY DEF newBucketData
  <2>2. root' \in Tree BY <1>0, <1>1, <2>1 DEF CreateBucket
  <2> QED BY <1>0, <1>1, <2>2, EditInv DEF CreateBucket
<1>2. ASSUME NEW b \in Bucket, DeleteBucket(p, b) PROVE IInv'
  <2>1. root' \in Tree BY <1>0, <1>2 DEF DeleteBucket
  <2> QED BY <1>0, <1>2, <2>1, EditInv DEF DeleteBucket
<1>3. ASSUME NEW b \in Bucket, NEW k \in Key, Delete(p, b, k) PROVE IInv'
  <2>1. root' \in Tree BY <1>0, <1>3 DEF Delete
  <2> QED BY <1>0, <1>3, <2>1, EditInv DEF Delete
<1>4. ASSUME NEW b \in Bucket, NEW k \in Key, NEW v \in Val, Put(p, b, k, v) PROVE IInv'
  <2>1. root' \in Tree BY <1>0, <1>4 DEF Put
  <2> QED BY <1>0, <1>4, <2>1, EditInv DEF Put
<1>5. ASSUME NEW b \in Bucket, NEW c \in Child, CreateNested(p, b, c) PROVE IInv'
  <2>1. root' \in Tree BY <1>0, <1>5 DEF CreateNested
  <2> QED BY <1>0, <1>5, <2>1, EditInv DEF CreateNested
<1>6. ASSUME NEW b \in Bucket, NEW c \in Child, DeleteNested(p, b, c) PROVE IInv'
  <2>1. root' \in Tree BY <1>0, <1>6 DEF DeleteNested
  <2> QED BY <1>0, <1>6, <2>1, EditInv DEF DeleteNested
<1> QED BY <1>1, <1>2, <1>3, <1>4, <1>5, <1>6 DEF edit

\* Beginning a transaction takes the lock and changes no data.
LEMMA BeginInv == ASSUME IInv, NEW p \in Proc, NEW w \in BOOLEAN, Begin(p, w) PROVE IInv'
<1> USE DEF IInv, Begin, lockFree, refusesClosed
<1>1. TypeOK' BY DEF TypeOK
<1>2. FilesOK' BY DEF FilesOK
<1>3. Locked' BY DEF Locked, TypeOK, Writers, Readers
<1>4. RenamedOK' BY DEF RenamedOK, TypeOK
<1>5. created = {} BY DEF CreatedOK, Writers
<1>6. EditedOK' BY <1>5 DEF EditedOK
<1>7. CreatedOK' BY <1>5 DEF CreatedOK
<1>8. RestIsFile' BY DEF RestIsFile, AtRest, Writers, TypeOK
<1>9. AckedSurvives' BY DEF AckedSurvives, TypeOK
<1> QED BY <1>1, <1>2, <1>3, <1>4, <1>6, <1>7, <1>8, <1>9

\* Ending a read transaction releases its share of the lock.
LEMMA EndReadInv == ASSUME IInv, NEW p \in Proc, EndRead(p) PROVE IInv'
<1> USE DEF IInv, EndRead
<1>1. TypeOK' BY DEF TypeOK
<1>2. FilesOK' BY DEF FilesOK
<1>3. Locked' BY DEF Locked, TypeOK
<1>4. RenamedOK' BY DEF RenamedOK, TypeOK
<1>5. EditedOK' BY DEF EditedOK
<1>6. Writers' = Writers BY DEF Writers, TypeOK
<1>7. CreatedOK' /\ RestIsFile' BY <1>6 DEF CreatedOK, RestIsFile, AtRest
<1>8. AckedSurvives' BY DEF AckedSurvives, TypeOK
<1> QED BY <1>1, <1>2, <1>3, <1>4, <1>5, <1>7, <1>8

\* The rename makes the file the transaction's tree; the writer still holds
\* the lock.
LEMMA CommitRenameInv == ASSUME IInv, NEW p \in Proc, CommitRename(p) PROVE IInv'
<1> USE DEF IInv, CommitRename, saved
<1>1. open /\ keyed BY DEF Locked
<1>2. TypeOK' BY DEF TypeOK, File
<1>3. FilesOK' BY <1>1 DEF FilesOK
<1>4. Locked' BY DEF Locked, TypeOK
<1>5. RenamedOK' BY DEF RenamedOK
<1>6. EditedOK' BY DEF EditedOK
<1>7. p \in Writers' BY DEF Writers, TypeOK
<1>8. CreatedOK' /\ RestIsFile' BY <1>7 DEF CreatedOK, RestIsFile, AtRest
<1>9. AckedSurvives' BY DEF AckedSurvives, TypeOK
<1> QED BY <1>2, <1>3, <1>4, <1>5, <1>6, <1>8, <1>9

\* A transaction that ends leaves nobody in the store.
LEMMA LastOut ==
  ASSUME IInv, NEW p \in Proc, tx[p] \in {"write", "renamed"}, tx' = [tx EXCEPT ![p] = "none"]
  PROVE  open /\ tx' \in [Proc -> {"none", "read", "write", "renamed"}]
         /\ (\A q \in Proc : tx'[q] = "none") /\ Writers' = {}
BY DEF IInv, Locked, Writers, TypeOK

\* The directory sync makes the tree the acknowledged and stable content.
LEMMA CommitSyncedInv == ASSUME IInv, NEW p \in Proc, CommitSynced(p) PROVE IInv'
<1> USE DEF IInv, CommitSynced
<1>1. file.exists /\ file.tree = root BY DEF RenamedOK
<1>2. open /\ tx' \in [Proc -> {"none", "read", "write", "renamed"}]
      /\ (\A q \in Proc : tx'[q] = "none") /\ Writers' = {} BY LastOut
<1>3. TypeOK' BY <1>2 DEF TypeOK
<1>4. FilesOK' BY DEF FilesOK
<1>5. Locked' /\ RenamedOK' BY <1>2 DEF Locked, RenamedOK
<1>6. EditedOK' /\ CreatedOK' /\ RestIsFile' BY <1>1 DEF EditedOK, CreatedOK, RestIsFile
<1>7. AckedSurvives' BY <1>1 DEF AckedSurvives
<1> QED BY <1>3, <1>4, <1>5, <1>6, <1>7

\* Reloading the file after a failed transaction brings back every bucket but
\* those that transactions created and did not commit.
LEMMA LoadRestores ==
  ASSUME IInv, ~broken, open
  PROVE  /\ load \in Tree
         /\ \A b \in Bucket \ (phantom \cup created) : load[b] = file.tree[b]
<1> USE DEF IInv, TypeOK, Tree, File
<1>1. CASE file.exists
  <2>1. load \in Tree BY <1>1 DEF load, merge
  <2>2. ASSUME NEW b \in Bucket \ (phantom \cup created) PROVE load[b] = file.tree[b]
    BY <1>1 DEF load, merge, EditedOK
  <2> QED BY <2>1, <2>2
<1>2. CASE ~file.exists
  <2>1. file.tree = EmptyTree BY <1>2 DEF FilesOK
  <2>2. ASSUME NEW b \in Bucket \ (phantom \cup created) PROVE load[b] = file.tree[b]
    BY <1>2, <2>1 DEF load, EditedOK, EmptyTree
  <2> QED BY <1>2, <2>2 DEF load
<1> QED BY <1>1, <1>2

\* load always yields a tree.
LEMMA LoadType == ASSUME TypeOK PROVE load \in Tree
BY DEF load, merge, TypeOK, Tree, File

\* A commit that fails, before or after its rename.
LEMMA CommitFailsInv == ASSUME IInv, NEW p \in Proc, CommitFails(p) PROVE IInv'
<1> USE DEF CommitFails
<1>1. open /\ tx' \in [Proc -> {"none", "read", "write", "renamed"}]
      /\ (\A q \in Proc : tx'[q] = "none") /\ Writers' = {} BY LastOut
<1>2. root' \in Tree BY LoadType DEF IInv, TypeOK
<1>3. TypeOK' BY <1>1, <1>2 DEF IInv, TypeOK
<1>4. FilesOK' BY DEF IInv, FilesOK
<1>5. Locked' /\ RenamedOK' BY <1>1 DEF IInv, Locked, RenamedOK
<1>6. ~broken' => \A b \in Bucket \ phantom' : root'[b] = file'.tree[b]
  <2>1. CASE broken \/ broken' BY <2>1 DEF IInv, TypeOK
  <2>2. CASE ~broken /\ ~broken' BY <1>1, <2>2, LoadRestores
  <2> QED BY <2>1, <2>2
<1>7. EditedOK' /\ CreatedOK' /\ RestIsFile' BY <1>6 DEF EditedOK, CreatedOK, RestIsFile
<1>8. AckedSurvives' BY <1>1 DEF IInv, AckedSurvives, Locked, TypeOK
<1> QED BY <1>3, <1>4, <1>5, <1>7, <1>8 DEF IInv

\* A rollback.
LEMMA RollbackInv == ASSUME IInv, NEW p \in Proc, Rollback(p) PROVE IInv'
<1> USE DEF Rollback
<1>1. open /\ tx' \in [Proc -> {"none", "read", "write", "renamed"}]
      /\ (\A q \in Proc : tx'[q] = "none") /\ Writers' = {} BY LastOut
<1>0. EmptyTree \in Tree BY DEF EmptyTree, Tree
<1>2. root' \in Tree BY <1>0, LoadType DEF IInv, TypeOK
<1>3. TypeOK' BY <1>1, <1>2 DEF IInv, TypeOK
<1>4. FilesOK' BY DEF IInv, FilesOK
<1>5. Locked' /\ RenamedOK' BY <1>1 DEF IInv, Locked, RenamedOK
<1>6. ~broken' => \A b \in Bucket \ phantom' : root'[b] = file'.tree[b]
  <2>1. CASE broken \/ broken' BY <2>1 DEF IInv, TypeOK
  <2>2. CASE ~broken /\ ~broken' /\ file.exists BY <1>1, <2>2, LoadRestores
  <2>3. CASE ~broken /\ ~broken' /\ ~file.exists BY <2>3 DEF IInv, FilesOK
  <2> QED BY <2>1, <2>2, <2>3
<1>7. EditedOK' /\ CreatedOK' /\ RestIsFile' BY <1>6 DEF EditedOK, CreatedOK, RestIsFile
<1>8. AckedSurvives' BY <1>1 DEF IInv, AckedSurvives, Locked, TypeOK
<1> QED BY <1>3, <1>4, <1>5, <1>7, <1>8 DEF IInv

\* Closing, whether its save succeeds or fails after the rename.
LEMMA CloseInv == ASSUME IInv, Close PROVE IInv'
<1>a. open' \in BOOLEAN /\ keyed' \in BOOLEAN /\ doubt' \in BOOLEAN
  BY Zenon DEF Close, IInv, TypeOK
<1> USE DEF IInv, Close
<1>0. saved \in File /\ saved.tree = root /\ saved.exists /\ saved.sealed
  BY DEF saved, File, TypeOK, Locked
<1>1. file' = saved /\ root' = root /\ tx' = tx /\ created' = created /\ phantom' = phantom
      /\ broken' = broken
  OBVIOUS
<1>2. \A q \in Proc : tx[q] = "none" BY DEF Writers, Readers, TypeOK
<1>3. \/ stable' = saved /\ open' = FALSE /\ acked' = root
      \/ stable' = stable /\ open' = open /\ keyed' = keyed /\ acked' = acked /\ doubt' = TRUE
  BY Zenon
<1>b. acked' \in Tree /\ stable' \in File BY <1>0, <1>3 DEF TypeOK
<1>c. begun' = begun /\ crashes' = crashes OBVIOUS
<1> HIDE DEF Close
<1>4. TypeOK' BY <1>0, <1>1, <1>a, <1>b, <1>c DEF TypeOK
<1> USE DEF Close
<1>5. FilesOK' BY <1>0, <1>1, <1>3 DEF FilesOK
<1>6. Locked' /\ RenamedOK'
  <2>1. RenamedOK' /\ \A q \in Proc : tx'[q] = "none" BY <1>1, <1>2 DEF RenamedOK
  <2>2. open' => keyed'
    <3>1. CASE open' = FALSE BY <3>1
    <3>2. CASE open' = open /\ keyed' = keyed BY Zenon, <3>2 DEF Locked
    <3> QED BY Zenon, <1>3, <3>1, <3>2
  <2> QED BY <2>1, <2>2 DEF Locked
<1>7. created' = {} BY <1>1 DEF CreatedOK
<1>8. EditedOK' /\ CreatedOK' /\ RestIsFile'
  BY <1>0, <1>1, <1>7 DEF EditedOK, CreatedOK, RestIsFile
<1>9. AckedSurvives' BY <1>0, <1>1, <1>3 DEF AckedSurvives
<1> QED BY <1>4, <1>5, <1>6, <1>8, <1>9

\* A crash: the directory holds either file, and nobody is in the store.
LEMMA CrashInv == ASSUME IInv, crash PROVE IInv'
<1>0. PICK f \in {file, stable} : file' = f /\ stable' = f BY DEF crash
<1>1. TypeOK'
  <2>1. file' \in File /\ stable' \in File BY <1>0 DEF IInv, TypeOK
  <2>2. root' = root /\ acked' = acked /\ phantom' = phantom /\ begun' = begun
        /\ created' = {} /\ tx' = [p \in Proc |-> "none"] /\ crashes' = crashes + 1
    BY DEF crash
  <2>3. open' \in BOOLEAN /\ keyed' \in BOOLEAN /\ doubt' \in BOOLEAN /\ broken' \in BOOLEAN
    BY Zenon DEF crash, IInv, TypeOK
  <2> QED BY <2>1, <2>2, <2>3 DEF IInv, TypeOK
<1> USE DEF IInv, crash
<1>2. FilesOK' BY <1>0 DEF FilesOK
<1>3. Locked' /\ RenamedOK' BY DEF Locked, RenamedOK
<1>4. EditedOK' /\ CreatedOK' /\ RestIsFile' BY DEF EditedOK, CreatedOK, RestIsFile, AtRest
<1>5. AckedSurvives' BY <1>0 DEF AckedSurvives, TypeOK
<1> QED BY <1>1, <1>2, <1>3, <1>4, <1>5

\* A process opens the store: the tree is what the file holds.
LEMMA OpenInv == ASSUME IInv, openKVStore PROVE IInv'
<1> USE DEF IInv, openKVStore
<1>1. root' \in Tree /\ \A b \in Bucket : root'[b] = file'.tree[b]
  <2> USE DEF TypeOK, Tree, File, EmptyTree, merge
  <2>1. CASE file.exists BY <2>1
  <2>2. CASE ~file.exists BY <2>2 DEF FilesOK
  <2> QED BY <2>1, <2>2
<1>2. TypeOK' BY <1>1 DEF TypeOK
<1>3. FilesOK' BY DEF FilesOK
<1>4. Locked' /\ RenamedOK' BY DEF Locked, RenamedOK
<1>5. EditedOK' /\ RestIsFile' BY <1>1 DEF EditedOK, RestIsFile
<1>6. CreatedOK' /\ AckedSurvives' BY DEF CreatedOK, AckedSurvives, Writers
<1> QED BY <1>2, <1>3, <1>4, <1>5, <1>6

\* Every step of the store preserves the inductive invariant.
LEMMA NextInv == IInv /\ [Next]_vars => IInv'
<1> SUFFICES ASSUME IInv, [Next]_vars PROVE IInv' OBVIOUS
<1>1. CASE UNCHANGED vars
  BY <1>1 DEF vars, IInv, TypeOK, FilesOK, Locked, RenamedOK, EditedOK, CreatedOK, RestIsFile, AckedSurvives, AtRest, Writers, Readers
<1>2. ASSUME NEW p \in Proc, NEW w \in BOOLEAN, Begin(p, w) PROVE IInv' BY <1>2, BeginInv
<1>3. ASSUME NEW p \in Proc, edit(p) PROVE IInv' BY <1>3, OperationsInv
<1>4. ASSUME NEW p \in Proc, EndRead(p) PROVE IInv' BY <1>4, EndReadInv
<1>5. ASSUME NEW p \in Proc, Rollback(p) PROVE IInv' BY <1>5, RollbackInv
<1>6. ASSUME NEW p \in Proc, CommitRename(p) PROVE IInv' BY <1>6, CommitRenameInv
<1>7. ASSUME NEW p \in Proc, CommitSynced(p) PROVE IInv' BY <1>7, CommitSyncedInv
<1>8. ASSUME NEW p \in Proc, CommitFails(p) PROVE IInv' BY <1>8, CommitFailsInv
<1>9. CASE Close BY <1>9, CloseInv
<1>10. CASE crash BY <1>10, CrashInv
<1>11. CASE openKVStore BY <1>11, OpenInv
<1> QED BY <1>1, <1>2, <1>3, <1>4, <1>5, <1>6, <1>7, <1>8, <1>9, <1>10, <1>11 DEF Next

\* The inductive invariant holds in every reachable state.
LEMMA Always == Spec => []IInv
BY InitInv, NextInv, PTL DEF Spec

\* Type correctness of the store.
THEOREM TypeCorrect == Spec => []TypeOK
<1>1. IInv => TypeOK BY DEF IInv
<1> QED BY <1>1, Always, PTL

\* Memory and data file agree whenever no writer holds the lock, on every
\* bucket that no failed transaction created: commit, rollback, close and open.
THEOREM RestAgrees == Spec => []RestIsFile
<1>1. IInv => RestIsFile BY DEF IInv
<1> QED BY <1>1, Always, PTL

\* The last acknowledged commit is what a crash leaves: durability and
\* atomicity of save's temporary file, rename and directory sync.
THEOREM Durability == Spec => []AckedSurvives
<1>1. IInv => AckedSurvives BY DEF IInv
<1> QED BY <1>1, Always, PTL

\* No unprotected file is ever written by a store that was opened with keys.
THEOREM Sealing == Spec => []FileSealed
<1>1. IInv => FileSealed BY DEF IInv, FilesOK, FileSealed
<1> QED BY <1>1, Always, PTL

\* What ReadersIsolated says of one step.
ReaderUndisturbed == \A p \in Proc : tx[p] = "read" /\ tx'[p] = "read" => root' = root

\* Read transactions are isolated: the lock Begin takes is held until the
\* transaction ends, so nothing changes under a reader.
THEOREM Isolation == Spec => ReadersIsolated
<1>1. IInv /\ [Next]_vars => [ReaderUndisturbed]_vars
  <2> SUFFICES ASSUME IInv, Next, NEW q \in Proc, tx[q] = "read", tx'[q] = "read"
               PROVE root' = root
    BY DEF ReaderUndisturbed
  <2>0. open /\ \A p \in Proc : tx[p] \notin {"write", "renamed"}
    BY DEF IInv, Locked, TypeOK
  <2>1. ASSUME NEW p \in Proc, NEW w \in BOOLEAN, Begin(p, w) PROVE root' = root
    BY <2>1 DEF Begin
  <2>2. ASSUME NEW p \in Proc, edit(p) PROVE FALSE
    BY <2>0, <2>2 DEF edit, CreateBucket, DeleteBucket, Put, Delete, CreateNested, DeleteNested
  <2>3. ASSUME NEW p \in Proc, EndRead(p) PROVE root' = root BY <2>3 DEF EndRead
  <2>4. ASSUME NEW p \in Proc, Rollback(p) \/ CommitRename(p) \/ CommitSynced(p) \/ CommitFails(p)
        PROVE FALSE
    BY <2>0, <2>4 DEF Rollback, CommitRename, CommitSynced, CommitFails
  <2>5. CASE Close BY <2>5 DEF Close
  <2>6. CASE crash BY <2>6 DEF crash
  <2>7. ~openKVStore BY <2>0 DEF openKVStore
  <2> QED BY <2>1, <2>2, <2>3, <2>4, <2>5, <2>6, <2>7 DEF Next
<1>2. Spec => [][ReaderUndisturbed]_vars BY <1>1, Always, PTL DEF Spec
<1> QED BY <1>2 DEF ReadersIsolated, ReaderUndisturbed
=============================================================================
