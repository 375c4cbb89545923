---------------------------- MODULE KVStore ----------------------------
(***************************************************************************)
(* internal/storage/kvstore.go: the embedded key-value store below zone     *)
(* persistence, the IXFR journal and the Raft-independent state of a node.  *)
(*                                                                          *)
(* The store is a tree in memory (root) and one data file.  A transaction   *)
(* holds the store's read-write lock from Begin to Commit or Rollback and   *)
(* edits root in place.  Commit writes a temporary file, renames it over    *)
(* the data file and syncs the directory.  A transaction that fails reloads *)
(* the data file INTO the existing tree: encoding/json merges an object     *)
(* into a live map, so top-level buckets missing from the file stay, and    *)
(* those in the file are replaced by freshly allocated ones.                *)
(*                                                                          *)
(* Abstracted: keys and values are model values; nested buckets one level   *)
(* deep, present or absent; cursors and statistics are left out; every file *)
(* format is what it decodes to, and whether it is protected by a key.      *)
(***************************************************************************)
EXTENDS Naturals, FiniteSets

CONSTANTS Proc,     \* goroutines that open transactions
          Bucket,   \* top-level bucket names
          Key,      \* keys of entries
          Child,    \* names of nested buckets
          Val,      \* values
          None,     \* absent
          MaxTx,    \* bound on transactions
          MaxCrash  \* bound on process crashes

ASSUME NoneAssumption == None \notin Val /\ None \notin Proc
ASSUME BoundsAssumption == MaxTx \in Nat /\ MaxCrash \in Nat

VARIABLES root,     \* bucket -> its data, or Absent (KVStore.root)
          file,     \* what the directory names data.db: content and protection
          stable,   \* what it named at the last directory sync
          open,     \* the store is open in a live process
          keyed,    \* the protection keys are still in memory
          tx,       \* goroutine -> "none", "read", "write" or "renamed"
          created,  \* buckets the write transaction has created
          acked,    \* history: content at the last commit reported successful
          doubt,    \* history: a save renamed the file and then failed
          phantom,  \* history: buckets created by transactions that failed
          broken,   \* history: a rollback's reload failed, and was reported
          begun, crashes

vars == <<root, file, stable, open, keyed, tx, created, acked, doubt, phantom,
          broken, begun, crashes>>

Absent == [entries |-> None, children |-> {}]
Data == [entries : [Key -> Val \cup {None}], children : SUBSET Child]
newBucketData == [entries |-> [k \in Key |-> None], children |-> {}]
Tree == [Bucket -> Data \cup {Absent}]
EmptyTree == [b \in Bucket |-> Absent]

\* A data file: its tree, whether the file exists, whether a key protects it.
File == [exists : BOOLEAN, tree : Tree, sealed : BOOLEAN]
NoFile == [exists |-> FALSE, tree |-> EmptyTree, sealed |-> TRUE]

TypeOK == /\ root \in Tree /\ file \in File /\ stable \in File
          /\ open \in BOOLEAN /\ keyed \in BOOLEAN
          /\ tx \in [Proc -> {"none", "read", "write", "renamed"}]
          /\ created \subseteq Bucket /\ phantom \subseteq Bucket
          /\ acked \in Tree /\ doubt \in BOOLEAN /\ broken \in BOOLEAN
          /\ begun \in Nat /\ crashes \in Nat

Init == /\ root = EmptyTree /\ file = NoFile /\ stable = NoFile
        /\ open = TRUE /\ keyed = TRUE
        /\ tx = [p \in Proc |-> "none"]
        /\ created = {} /\ acked = EmptyTree /\ doubt = FALSE
        /\ phantom = {} /\ broken = FALSE /\ begun = 0 /\ crashes = 0

Writers == {p \in Proc : tx[p] \in {"write", "renamed"}}
Readers == {p \in Proc : tx[p] = "read"}

(* ------------------------------ the file ------------------------------ *)

\* save writes the tree in the format the keys in memory call for.
saved == [exists |-> TRUE, tree |-> root, sealed |-> keyed]

\* Decoding a file into the live tree: a bucket of the file replaces the one
\* in memory, a bucket that is only in memory survives.
merge(t, f) == [b \in Bucket |-> IF f.tree[b] # Absent THEN f.tree[b] ELSE t[b]]

\* load: the tree in memory after reading the data file; the tree is left
\* alone when there is no file, and when the read or the check fails.
load == IF file.exists THEN merge(root, file) ELSE root

(* --------------------------- transactions ----------------------------- *)

lockFree(writable) == IF writable THEN Writers = {} /\ Readers = {}
                                  ELSE Writers = {}

refusesClosed == open

Begin(p, writable) ==
  /\ tx[p] = "none" /\ begun < MaxTx
  /\ lockFree(writable) /\ refusesClosed
  /\ tx' = [tx EXCEPT ![p] = IF writable THEN "write" ELSE "read"]
  /\ created' = IF writable THEN {} ELSE created
  /\ begun' = begun + 1
  /\ UNCHANGED <<root, file, stable, open, keyed, acked, doubt, phantom, broken, crashes>>

\* The edits a writable transaction makes in place, under the lock it holds.
edited == UNCHANGED <<file, stable, open, keyed, tx, acked, doubt, phantom, broken,
                      begun, crashes>>

CreateBucket(p, b) ==
  /\ tx[p] = "write" /\ root[b] = Absent
  /\ root' = [root EXCEPT ![b] = newBucketData]
  /\ created' = created \cup {b}
  /\ edited

DeleteBucket(p, b) ==
  /\ tx[p] = "write" /\ root[b] # Absent
  /\ root' = [root EXCEPT ![b] = Absent]
  /\ UNCHANGED created /\ edited

Put(p, b, k, v) ==
  /\ tx[p] = "write" /\ root[b] # Absent
  /\ root' = [root EXCEPT ![b].entries[k] = v]
  /\ UNCHANGED created /\ edited

Delete(p, b, k) ==
  /\ tx[p] = "write" /\ root[b] # Absent /\ root[b].entries[k] # None
  /\ root' = [root EXCEPT ![b].entries[k] = None]
  /\ UNCHANGED created /\ edited

CreateNested(p, b, c) ==
  /\ tx[p] = "write" /\ root[b] # Absent /\ c \notin root[b].children
  /\ root' = [root EXCEPT ![b].children = @ \cup {c}]
  /\ UNCHANGED created /\ edited

DeleteNested(p, b, c) ==
  /\ tx[p] = "write" /\ root[b] # Absent /\ c \in root[b].children
  /\ root' = [root EXCEPT ![b].children = @ \ {c}]
  /\ UNCHANGED created /\ edited

\* A read-only transaction ends: nothing to save, the shared lock is released.
EndRead(p) ==
  /\ tx[p] = "read"
  /\ tx' = [tx EXCEPT ![p] = "none"]
  /\ UNCHANGED <<root, file, stable, open, keyed, created, acked, doubt, phantom,
                 broken, begun, crashes>>

\* Commit, save up to and including the rename: from here on an Open reads
\* the new content, though the directory may still forget it in a crash.
CommitRename(p) ==
  /\ tx[p] = "write"
  /\ file' = saved
  /\ tx' = [tx EXCEPT ![p] = "renamed"]
  /\ UNCHANGED <<root, stable, open, keyed, created, acked, doubt, phantom, broken,
                 begun, crashes>>

\* Mutant: the directory is not synced.
CommitUnsynced(p) ==
  /\ tx[p] = "renamed"
  /\ acked' = root /\ doubt' = FALSE /\ phantom' = {} /\ broken' = FALSE
  /\ created' = {}
  /\ tx' = [tx EXCEPT ![p] = "none"]
  /\ UNCHANGED <<root, file, stable, open, keyed, begun, crashes>>

\* The directory sync succeeds: the commit is reported to the caller.
CommitSynced(p) ==
  /\ tx[p] = "renamed"
  /\ stable' = file
  /\ acked' = root /\ doubt' = FALSE /\ phantom' = {} /\ broken' = FALSE
  /\ created' = {}
  /\ tx' = [tx EXCEPT ![p] = "none"]
  /\ UNCHANGED <<root, file, open, keyed, begun, crashes>>

\* Commit's failure path: save failed before the rename (tx "write") or after
\* it (tx "renamed"); the tree is reloaded, a failed reload is only logged.
CommitFails(p) ==
  /\ tx[p] \in {"write", "renamed"}
  /\ \/ root' = load /\ UNCHANGED broken
     \/ root' = root /\ broken' = TRUE
  /\ doubt' = (doubt \/ tx[p] = "renamed")
  /\ phantom' = phantom \cup created
  /\ created' = {}
  /\ tx' = [tx EXCEPT ![p] = "none"]
  /\ UNCHANGED <<file, stable, open, keyed, acked, begun, crashes>>

\* Mutant: the tree is not reloaded.
RollbackKeeps(p) ==
  /\ tx[p] = "write"
  /\ phantom' = phantom \cup created
  /\ created' = {}
  /\ tx' = [tx EXCEPT ![p] = "none"]
  /\ UNCHANGED <<root, broken, file, stable, open, keyed, acked, doubt, begun, crashes>>

\* Rollback: reload; with no data file at all, a fresh empty tree.
Rollback(p) ==
  /\ tx[p] = "write"
  /\ \/ root' = (IF file.exists THEN load ELSE EmptyTree) /\ UNCHANGED broken
     \/ root' = root /\ broken' = TRUE
  /\ phantom' = phantom \cup created
  /\ created' = {}
  /\ tx' = [tx EXCEPT ![p] = "none"]
  /\ UNCHANGED <<file, stable, open, keyed, acked, doubt, begun, crashes>>

(* ------------------------ closing and reopening ----------------------- *)

\* Close waits for the exclusive lock, saves, and forgets the keys.  A save
\* that fails leaves the store open; one that fails after the rename has
\* replaced the file all the same.
Close ==
  /\ open /\ Writers = {} /\ Readers = {}
  /\ \/ /\ file' = saved /\ stable' = saved
        /\ open' = FALSE /\ keyed' = FALSE
        /\ acked' = root /\ doubt' = FALSE
     \/ /\ file' = saved /\ doubt' = TRUE
        /\ UNCHANGED <<stable, open, keyed, acked>>
  /\ UNCHANGED <<root, tx, created, phantom, broken, begun, crashes>>

\* The process dies: the lock and the tree are gone, and the directory holds
\* either content it may hold.
crash ==
  /\ open /\ crashes < MaxCrash
  /\ crashes' = crashes + 1
  /\ \E f \in {file, stable} : file' = f /\ stable' = f
  /\ open' = FALSE
  /\ tx' = [p \in Proc |-> "none"]
  /\ created' = {}
  /\ doubt' = (doubt \/ \E p \in Proc : tx[p] = "renamed")
  /\ UNCHANGED <<root, keyed, acked, phantom, broken, begun>>

\* A new process opens the store: the file decodes into an empty tree.
openKVStore ==
  /\ ~open
  /\ root' = (IF file.exists THEN merge(EmptyTree, file) ELSE EmptyTree)
  /\ open' = TRUE /\ keyed' = TRUE
  /\ phantom' = {} /\ broken' = FALSE
  /\ UNCHANGED <<file, stable, tx, created, acked, doubt, begun, crashes>>

edit(p) ==
  \E b \in Bucket :
    \/ CreateBucket(p, b) \/ DeleteBucket(p, b)
    \/ \E k \in Key : Delete(p, b, k) \/ \E v \in Val : Put(p, b, k, v)
    \/ \E c \in Child : CreateNested(p, b, c) \/ DeleteNested(p, b, c)

Next ==
  \/ \E p \in Proc : \/ \E w \in BOOLEAN : Begin(p, w)
                     \/ edit(p)
                     \/ EndRead(p) \/ Rollback(p)
                     \/ CommitRename(p) \/ CommitSynced(p) \/ CommitFails(p)
  \/ Close \/ crash \/ openKVStore

Spec == Init /\ [][Next]_vars

(* ----------------------------- properties ----------------------------- *)

\* At rest means: the store is open and no write transaction holds the lock.
AtRest == open /\ Writers = {}

\* Isolation: nothing changes in the tree while a read transaction is open,
\* whatever the other goroutines do (Begin holds the lock for its lifetime).
ReadersIsolated == [][\A p \in Proc : tx[p] = "read" /\ tx'[p] = "read" => root' = root]_vars

\* What transactions see is what is on disk: at rest, after commits, failed
\* commits, rollbacks, closes and crashes, memory and data file agree on every
\* bucket, save those a failed transaction created (load merges) and save
\* after a reload that failed.
RestIsFile == AtRest /\ ~broken => \A b \in Bucket \ phantom : root[b] = file.tree[b]

\* Durability and atomicity: the content of the last acknowledged commit is
\* what a crash leaves, neither lost nor mixed with a transaction that was
\* open; only a save that failed after its rename puts that in doubt.
AckedSurvives ==
  ~doubt => /\ stable.tree = acked
            /\ (\A p \in Proc : tx[p] # "renamed") => file.tree = acked

\* A store opened with keys never leaves an unprotected file: Close forgets the
\* keys, so no save may follow it.
FileSealed == file.exists => file.sealed

=============================================================================
