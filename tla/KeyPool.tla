------------------------------- MODULE KeyPool -------------------------------
(***************************************************************************)
(* The key pool of one group: the rows of its keys in the database, the    *)
(* copy of them in the store (a hash per key and the list of active keys), *)
(* and the operations that change both.                                    *)
(*                                                                         *)
(* Every operation is a goroutine of its own.  What it does between two    *)
(* shared accesses is one step: a store call, a database statement, a      *)
(* commit.  The list is kept as the number of times each key is in it: its *)
(* order only decides which key is tried next.                             *)
(*                                                                         *)
(* Serial chooses the database.  TRUE is SQLite, where one transaction at  *)
(* a time holds the database; that it refuses to commit while another      *)
(* connection reads is the fault "commit".  FALSE is MySQL or PostgreSQL   *)
(* at their default isolation: a statement reads committed rows and locks  *)
(* the rows it writes, until the transaction ends.                         *)
(***************************************************************************)
EXTENDS Integers, FiniteSets

CONSTANTS
  Keys,       (* ids of rows of api_keys; an id is never given out twice   *)
  Procs,      (* goroutines that may run an operation                      *)
  None,       (* no key, no goroutine                                      *)
  Threshold,  (* blacklist_threshold of the group; 0 never blacklists      *)
  MaxFails,   (* bound: no failure is reported for a key at this count     *)
  Ops,        (* the operations that may be called                         *)
  Serial,     (* TRUE: SQLite; FALSE: row locks, committed reads           *)
  Faults      (* which calls may fail: "commit", "store"                   *)

Handlers  == {"success", "failure", "forced"}
Restoring == {"restoreAll", "restoreSome"}
Removing  == {"removeSome", "removeInvalid", "removeAll"}
AllOps    == Handlers \cup Restoring \cup Removing
               \cup {"add", "disable", "select", "clear", "restart"}

ASSUME KeyPoolAssumption ==
  /\ None \notin Keys \cup Procs
  /\ IsFiniteSet(Procs) /\ Procs # {}
  /\ Threshold \in Nat
  /\ MaxFails \in Nat
  /\ Ops \subseteq AllOps
  /\ Serial \in BOOLEAN
  /\ Faults \subseteq {"commit", "store"}

VARIABLES
  db,      (* committed rows                                               *)
  dirty,   (* rows as the transaction that holds their lock sees them      *)
  lock,    (* the goroutine whose transaction wrote the row, or None       *)
  hash,    (* store: key:ID                                                *)
  listed,  (* store: occurrences of the key in group:G:active_keys         *)
  loc      (* per goroutine: what it runs, where it is, what it has read   *)

rows == <<db, dirty, lock>>
pool == <<hash, listed>>
vars == <<db, dirty, lock, hash, listed, loc>>

(***************************************************************************)
(* Rows and hashes.  A row that is not there yet and one that was deleted  *)
(* differ: the id of a deleted row does not come back.  A hash may exist   *)
(* without a status field, when HSET or HINCRBY met a missing key.         *)
(***************************************************************************)
Live    == {"active", "invalid"}
Row     == [status : Live \cup {"unborn", "deleted"}, fails : Nat]
Hash    == [status : Live \cup {"none", "partial"}, fails : Nat]
NoHash  == [status |-> "none", fails |-> 0]
Fresh   == [status |-> "active", fails |-> 0]

HashOf(row) == IF row.status \in Live
                 THEN [status |-> row.status, fails |-> row.fails]
                 ELSE NoHash
ListedOf(row) == IF row.status = "active" THEN 1 ELSE 0

\* What HSET or HINCRBY on other fields leaves in the status field.
Kept(s) == IF s = "none" THEN "partial" ELSE s

MaxTries == 3

PCs == {"idle", "tx", "write", "loop", "hset", "hincr", "lrem", "lpush",
        "hdel", "block", "commit", "read", "picked"}

Local == [op : AllOps \cup {"idle"}, pc : PCs, key : Keys \cup {None},
          todo : SUBSET Keys, seen : Hash, tries : 0 .. MaxTries - 1]

Idle == [op |-> "idle", pc |-> "idle", key |-> None, todo |-> {},
         seen |-> NoHash, tries |-> 0]

Init ==
  /\ db \in [Keys -> [status : Live \cup {"unborn"}, fails : {0}]]
  /\ dirty = db
  /\ lock = [k \in Keys |-> None]
  /\ hash = [k \in Keys |-> HashOf(db[k])]
  /\ listed = [k \in Keys |-> ListedOf(db[k])]
  /\ loc = [p \in Procs |-> Idle]

(***************************************************************************)
(* Transactions                                                            *)
(***************************************************************************)
\* p has run a statement of a transaction it has not ended.
InTx(p) ==
  /\ loc[p].op \notin {"idle", "disable", "select"}
  /\ loc[p].pc \notin {"idle", "tx"}

\* Mutation: the rows are written without asking who holds their locks.
MutNoRowLock(p, W) == Serial => \A q \in Procs \ {p} : ~InTx(q)

\* A statement of p that writes the rows W is not kept waiting.
MayWrite(p, W) ==
  /\ Serial => \A q \in Procs \ {p} : ~InTx(q)
  /\ \A k \in W : lock[k] = None

\* The statement itself: row k becomes new[k], visible to others at commit.
WriteRows(p, new) ==
  /\ dirty' = [k \in Keys |-> IF k \in DOMAIN new THEN new[k] ELSE dirty[k]]
  /\ lock' = [k \in Keys |-> IF k \in DOMAIN new THEN p ELSE lock[k]]
  /\ UNCHANGED db

Unlocked(p) == [k \in Keys |-> IF lock[k] = p THEN None ELSE lock[k]]

Rollback(p) ==
  /\ dirty' = [k \in Keys |-> IF lock[k] = p THEN db[k] ELSE dirty[k]]
  /\ lock' = Unlocked(p)
  /\ UNCHANGED db

Goto(p, pc) == loc' = [loc EXCEPT ![p].pc = pc]
End(p)      == loc' = [loc EXCEPT ![p] = Idle]
Begin(p, o, pc, k, todo) ==
  /\ loc[p] = Idle
  /\ o \in Ops
  /\ loc' = [loc EXCEPT ![p] = [op |-> o, pc |-> pc, key |-> k, todo |-> todo,
                                seen |-> IF o \in Handlers THEN hash[k]
                                                           ELSE NoHash,
                                tries |-> 0]]

(***************************************************************************)
(* UpdateStatus: handleSuccess and handleFailure.  The hash is read before *)
(* the transaction, and what to write is decided from that reading.        *)
(***************************************************************************)
SuccessRead(p, k) ==
  /\ dirty[k].status # "unborn"
  /\ hash[k] # Fresh
  /\ Begin(p, "success", "tx", k, {})
  /\ UNCHANGED <<rows, pool>>

FailureRead(p, k, o) ==
  /\ o \in {"failure", "forced"}
  /\ dirty[k].status # "unborn"
  /\ hash[k].status # "invalid"
  /\ hash[k].fails < MaxFails
  /\ Begin(p, o, "tx", k, {})
  /\ UNCHANGED <<rows, pool>>

WasActive(p)  == loc[p].seen.status = "active"
\* Mutation: the threshold must be exceeded, not reached.
MutBlacklistsLate(p) == \/ loc[p].op = "forced"
                        \/ /\ Threshold > 0
                           /\ loc[p].seen.fails + 1 > Threshold

Blacklists(p) == \/ loc[p].op = "forced"
                 \/ /\ Threshold > 0
                    /\ loc[p].seen.fails + 1 >= Threshold

\* Mutation: the recovery resets the count and leaves the status.
MutRecoversCount(p, row) == [status |-> row.status, fails |-> 0]

Recovered(p, row) == [status |-> IF WasActive(p) THEN row.status ELSE "active",
                      fails  |-> 0]
Failed(p, row)    == [status |-> IF Blacklists(p) THEN "invalid" ELSE row.status,
                      fails  |-> loc[p].seen.fails + 1]

\* SELECT ... FOR UPDATE finds the row, UPDATE writes it.
HandlerTx(p) ==
  LET k == loc[p].key IN
  /\ loc[p].op \in Handlers /\ loc[p].pc = "tx"
  /\ MayWrite(p, {k})
  /\ db[k].status \in Live
  /\ IF loc[p].op = "success"
       THEN WriteRows(p, [x \in {k} |-> Recovered(p, db[k])]) /\ Goto(p, "hset")
       ELSE WriteRows(p, [x \in {k} |-> Failed(p, db[k])]) /\ Goto(p, "hincr")
  /\ UNCHANGED pool

\* SELECT ... FOR UPDATE finds nothing: an error, and the closure ends.
HandlerRowGone(p) ==
  LET k == loc[p].key IN
  /\ loc[p].op \in Handlers /\ loc[p].pc = "tx"
  /\ MayWrite(p, {k})
  /\ db[k].status \notin Live
  /\ End(p)
  /\ UNCHANGED <<rows, pool>>

SuccessHSet(p) ==
  LET k == loc[p].key IN
  /\ loc[p].op = "success" /\ loc[p].pc = "hset"
  /\ hash' = [hash EXCEPT ![k] =
                [status |-> IF WasActive(p) THEN Kept(@.status) ELSE "active",
                 fails  |-> 0]]
  /\ Goto(p, IF WasActive(p) THEN "commit" ELSE "lrem")
  /\ UNCHANGED <<rows, listed>>

FailureHIncr(p) ==
  LET k == loc[p].key IN
  /\ loc[p].pc = "hincr"
  /\ hash' = [hash EXCEPT ![k] = [status |-> Kept(@.status), fails |-> @.fails + 1]]
  /\ Goto(p, IF Blacklists(p) THEN "lrem" ELSE "commit")
  /\ UNCHANGED <<rows, listed>>

(***************************************************************************)
(* Operations on sets of rows: Find, then the writing statement, then the  *)
(* store, row by row, for the rows that Find returned.                     *)
(***************************************************************************)
AddKeys(p, K) ==
  /\ K # {}
  /\ MayWrite(p, K)
  /\ \A k \in K : db[k].status = "unborn"
  /\ Begin(p, "add", "loop", None, K)
  /\ WriteRows(p, [k \in K |-> Fresh])
  /\ UNCHANGED pool

\* The operations whose caller names the keys K.
Named == {"restoreSome", "removeSome"}

\* The rows that the WHERE clause of the operation's SELECT finds.
FindWhere(o, K) ==
  {k \in Keys :
     /\ db[k].status \in IF o \in Restoring \cup {"removeInvalid"}
                            THEN {"invalid"} ELSE Live
     /\ o \in Named => k \in K}

\* The rows that the WHERE clause of its UPDATE or DELETE selects.
WriteWhere(o, found) ==
  {k \in Keys :
     /\ db[k].status \in IF o \in {"restoreAll", "removeInvalid"}
                            THEN {"invalid"} ELSE Live
     /\ o \in Named => k \in found}

BulkFind(p, o, K) ==
  /\ o \in Restoring \cup Removing
  /\ MayWrite(p, {})
  /\ FindWhere(o, K) # {}
  /\ Begin(p, o, "write", None, FindWhere(o, K))
  /\ UNCHANGED <<rows, pool>>

BulkWrite(p) ==
  LET W == WriteWhere(loc[p].op, loc[p].todo) IN
  /\ loc[p].pc = "write"
  /\ MayWrite(p, W)
  /\ WriteRows(p, [k \in W |-> IF loc[p].op \in Restoring
                                 THEN Fresh
                                 ELSE [db[k] EXCEPT !.status = "deleted"]])
  /\ Goto(p, "loop")
  /\ UNCHANGED pool

\* The first store call for row k: HSET of all its fields, or LREM.
LoopHSet(p, k) ==
  /\ loc[p].op \in Restoring \cup {"add"} /\ loc[p].pc = "loop"
  /\ k \in loc[p].todo
  /\ hash' = [hash EXCEPT ![k] = Fresh]
  /\ loc' = [loc EXCEPT ![p].todo = @ \ {k},
                        ![p].key  = IF loc[p].op = "add" THEN None ELSE k,
                        ![p].pc   = IF loc[p].op = "add" THEN "loop" ELSE "lrem"]
  /\ UNCHANGED <<rows, listed>>

LoopLRem(p, k) ==
  /\ loc[p].op \in Removing /\ loc[p].pc = "loop"
  /\ k \in loc[p].todo
  /\ listed' = [listed EXCEPT ![k] = 0]
  /\ loc' = [loc EXCEPT ![p].todo = @ \ {k}, ![p].key = k, ![p].pc = "hdel"]
  /\ UNCHANGED <<rows, hash>>

HDel(p) ==
  /\ loc[p].pc = "hdel"
  /\ hash' = [hash EXCEPT ![loc[p].key] = NoHash]
  /\ Goto(p, "loop")
  /\ UNCHANGED <<rows, listed>>

\* One LPUSH for all new keys, without an LREM before it.
AddLPush(p) ==
  /\ loc[p].op = "add" /\ loc[p].pc = "loop" /\ loc[p].todo = {}
  /\ listed' = [k \in Keys |-> IF lock[k] = p THEN listed[k] + 1 ELSE listed[k]]
  /\ Goto(p, "commit")
  /\ UNCHANGED <<rows, hash>>

(***************************************************************************)
(* Store calls that several operations share                               *)
(***************************************************************************)
\* Mutation: no LREM before the LPUSH.
MutLRemSkipped(p) ==
  /\ loc[p].pc = "lrem"
  /\ Goto(p, IF loc[p].op \in Restoring \cup {"success"} THEN "lpush" ELSE "block")
  /\ UNCHANGED <<rows, pool>>

LRem(p) ==
  /\ loc[p].pc = "lrem"
  /\ listed' = [listed EXCEPT ![loc[p].key] = 0]
  /\ Goto(p, IF loc[p].op \in Restoring \cup {"success"} THEN "lpush" ELSE "block")
  /\ UNCHANGED <<rows, hash>>

LPush(p) ==
  /\ loc[p].pc = "lpush"
  /\ listed' = [listed EXCEPT ![loc[p].key] = @ + 1]
  /\ Goto(p, IF loc[p].op = "success" THEN "commit" ELSE "loop")
  /\ UNCHANGED <<rows, hash>>

\* HSET status invalid, the last store call of handleFailure and DisableKey.
Block(p) ==
  /\ loc[p].pc = "block"
  /\ hash' = [hash EXCEPT ![loc[p].key].status = "invalid"]
  /\ IF loc[p].op = "disable" THEN End(p) ELSE Goto(p, "commit")
  /\ UNCHANGED <<rows, listed>>

AtCommit(p) ==
  \/ loc[p].pc = "commit"
  \/ /\ loc[p].op \in Restoring \cup Removing
     /\ loc[p].pc = "loop" /\ loc[p].todo = {}

Commit(p) ==
  /\ AtCommit(p)
  /\ db' = [k \in Keys |-> IF lock[k] = p THEN dirty[k] ELSE db[k]]
  /\ lock' = Unlocked(p)
  /\ End(p)
  /\ UNCHANGED <<dirty, pool>>

(***************************************************************************)
(* Errors.  executeTransactionWithRetry runs the closure again after       *)
(* "database is locked", with what was read before the first attempt.      *)
(***************************************************************************)
\* Mutation: attempts are not counted.
MutAgainForever(p) == Goto(p, "tx")

Again(p) == loc' = [loc EXCEPT ![p].tries = @ + 1, ![p].pc = "tx"]
MayRetry(p) == loc[p].op \in Handlers /\ loc[p].tries < MaxTries - 1

\* Another transaction is in the way: "database is locked" of SQLite, a lock
\* wait that times out in the others.
Refused(p) ==
  /\ \/ loc[p].pc = "tx" /\ ~MayWrite(p, {loc[p].key})
     \/ loc[p].pc = "write" /\ ~MayWrite(p, WriteWhere(loc[p].op, loc[p].todo))
  /\ IF Serial /\ MayRetry(p) THEN Again(p) ELSE End(p)
  /\ UNCHANGED <<rows, pool>>

\* The commit fails, in SQLite because another connection is reading; the
\* store keeps what the closure did to it.
CommitFails(p) ==
  /\ "commit" \in Faults
  /\ AtCommit(p)
  /\ Rollback(p)
  /\ End(p) \/ (Serial /\ MayRetry(p) /\ Again(p))
  /\ UNCHANGED pool

\* removeKeyFromStore only logs a failed LREM, and deletes the hash.
RemoveLRemFails(p, k) ==
  /\ "store" \in Faults
  /\ loc[p].op \in Removing /\ loc[p].pc = "loop"
  /\ k \in loc[p].todo
  /\ loc' = [loc EXCEPT ![p].todo = @ \ {k}, ![p].key = k, ![p].pc = "hdel"]
  /\ UNCHANGED <<rows, pool>>

\* DisableKey ignores the results of its two store calls.
DisableCallFails(p) ==
  /\ "store" \in Faults
  /\ loc[p].op = "disable"
  /\ \/ loc[p].pc = "lrem"  /\ Goto(p, "block")
     \/ loc[p].pc = "block" /\ End(p)
  /\ UNCHANGED <<rows, pool>>

\* Any other store call that fails ends the closure and rolls the rows back;
\* the store keeps what the closure did before.
TxCallFails(p) ==
  /\ "store" \in Faults
  /\ loc[p].op # "disable"
  /\ \/ loc[p].pc \in {"hset", "hincr", "lrem", "lpush", "hdel", "block"}
     \/ loc[p].op \in Restoring \cup {"add"} /\ loc[p].pc = "loop" /\ ~AtCommit(p)
  /\ Rollback(p)
  /\ End(p)
  /\ UNCHANGED pool

(***************************************************************************)
(* Operations outside a transaction                                        *)
(***************************************************************************)
DisableRead(p, k) ==
  /\ db[k].status = "active"
  /\ Begin(p, "disable", "tx", k, {})
  /\ UNCHANGED <<rows, pool>>

\* One UPDATE that commits by itself; it is no error when the row is gone.
DisableUpdate(p) ==
  LET k == loc[p].key IN
  /\ loc[p].op = "disable" /\ loc[p].pc = "tx"
  /\ MayWrite(p, {k})
  /\ db' = [db EXCEPT ![k].status = IF @ \in Live THEN "invalid" ELSE @]
  /\ dirty' = [dirty EXCEPT ![k] = db'[k]]
  /\ Goto(p, "lrem")
  /\ UNCHANGED <<lock, pool>>

\* ClearKeyStats and ClearRequestCount write the rows and not the store.
ClearStats(K) ==
  /\ "clear" \in Ops
  /\ \A p \in Procs : Serial => ~InTx(p)
  /\ \A k \in K : db[k].status \in Live /\ lock[k] = None
  /\ db' = [k \in Keys |-> IF k \in K THEN [db[k] EXCEPT !.fails = 0] ELSE db[k]]
  /\ dirty' = [k \in Keys |-> IF k \in K THEN db'[k] ELSE dirty[k]]
  /\ UNCHANGED <<lock, pool, loc>>

\* SelectKey: a key of the list, then its hash, two store calls apart.
SelectRotate(p, k) ==
  /\ listed[k] > 0
  /\ Begin(p, "select", "read", k, {})
  /\ UNCHANGED <<rows, pool>>

SelectRead(p) ==
  /\ loc[p].pc = "read"
  /\ loc' = [loc EXCEPT ![p].pc = "picked", ![p].seen = hash[loc[p].key]]
  /\ UNCHANGED <<rows, pool>>

SelectReturn(p) ==
  /\ loc[p].pc = "picked"
  /\ End(p)
  /\ UNCHANGED <<rows, pool>>

(***************************************************************************)
(* The process dies and starts again: open transactions are rolled back,   *)
(* the store is cleared and LoadKeysFromDB fills it before anything else   *)
(* runs.                                                                   *)
(***************************************************************************)
Restart ==
  /\ "restart" \in Ops
  /\ dirty' = db
  /\ lock' = [k \in Keys |-> None]
  /\ hash' = [k \in Keys |-> HashOf(db[k])]
  /\ listed' = [k \in Keys |-> ListedOf(db[k])]
  /\ loc' = [p \in Procs |-> Idle]
  /\ UNCHANGED db

Call(p) ==
  \/ \E k \in Keys : SuccessRead(p, k)
  \/ \E k \in Keys, o \in {"failure", "forced"} : FailureRead(p, k, o)
  \/ \E K \in SUBSET Keys : AddKeys(p, K)
  \/ \E K \in SUBSET Keys, o \in Restoring \cup Removing : BulkFind(p, o, K)
  \/ \E k \in Keys : DisableRead(p, k)
  \/ \E k \in Keys : SelectRotate(p, k)

Step(p) ==
  \/ HandlerTx(p) \/ HandlerRowGone(p) \/ SuccessHSet(p) \/ FailureHIncr(p)
  \/ BulkWrite(p)
  \/ \E k \in Keys : LoopHSet(p, k)
  \/ \E k \in Keys : LoopLRem(p, k)
  \/ HDel(p) \/ AddLPush(p) \/ LRem(p) \/ LPush(p) \/ Block(p)
  \/ Commit(p)
  \/ Refused(p)
  \/ DisableUpdate(p) \/ SelectRead(p) \/ SelectReturn(p)

Fault(p) ==
  \/ CommitFails(p) \/ DisableCallFails(p) \/ TxCallFails(p)
  \/ \E k \in Keys : RemoveLRemFails(p, k)

Next ==
  \/ \E p \in Procs : Call(p) \/ Step(p) \/ Fault(p)
  \/ \E K \in SUBSET Keys : ClearStats(K)
  \/ Restart

Spec == Init /\ [][Next]_vars

\* Goroutines are scheduled, and the database and the store answer.
FairSpec == Spec /\ \A p \in Procs : WF_vars(Step(p))
=============================================================================
