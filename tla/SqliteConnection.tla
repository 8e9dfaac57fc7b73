-------------------------- MODULE SqliteConnection --------------------------
(***************************************************************************)
(* The SQLite file and the one connection each process opens on it         *)
(* (app/persistence/sqlite/connection.py).                                 *)
(*                                                                         *)
(* disk is the committed content of the file.  txn[p] is the unit of work  *)
(* a process has open: None outside `with transaction()`, otherwise the    *)
(* content its connection sees and will publish at COMMIT.  A connection   *)
(* is shared by every thread of its process (check_same_thread=False), so  *)
(* a statement another thread of p executes while txn[p] is open joins     *)
(* that unit of work.  BEGIN IMMEDIATE takes the file's write lock; in WAL *)
(* mode the readers of the other processes keep seeing disk.               *)
(***************************************************************************)
CONSTANTS Processes,   \* operating system processes, one connection each
          None         \* "no value": no open transaction, no row, no object

VARIABLES disk, txn

InTransaction(p) == txn[p] # None

\* What a SELECT on p's connection returns: its own uncommitted work first.
View(p) == IF InTransaction(p) THEN txn[p] ELSE disk

\* No other connection holds the write lock.
LockFree(p) == \A q \in Processes \ {p} : ~InTransaction(q)

\* BEGIN IMMEDIATE: refused inside a transaction, blocked by another writer.
Begin(p) ==
    /\ LockFree(p)
    /\ ~InTransaction(p)
    /\ txn' = [txn EXCEPT ![p] = disk]
    /\ UNCHANGED disk

\* One INSERT or UPDATE: part of the open transaction, or autocommitted.
Write(p, db) ==
    \/ /\ InTransaction(p)
       /\ txn' = [txn EXCEPT ![p] = db]
       /\ UNCHANGED disk
    \/ /\ ~InTransaction(p)
       /\ LockFree(p)
       /\ disk' = db
       /\ UNCHANGED txn

Commit(p) ==
    /\ InTransaction(p)
    /\ disk' = txn[p]
    /\ txn' = [txn EXCEPT ![p] = None]

\* Mutant: an error path that leaves the transaction open.
NoRollback(p) == UNCHANGED <<disk, txn>>

\* ROLLBACK, and what a process's death does to its open transaction.
Rollback(p) ==
    /\ txn' = [txn EXCEPT ![p] = None]
    /\ UNCHANGED disk
=============================================================================
