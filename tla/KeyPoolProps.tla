---------------------------- MODULE KeyPoolProps ----------------------------
(***************************************************************************)
(* What the key pool promises.                                             *)
(***************************************************************************)
EXTENDS KeyPool

\* Where a goroutine is at one key.
AtKey == {"tx", "hset", "hincr", "lrem", "lpush", "hdel", "block", "read"}

TypeOK ==
  /\ db \in [Keys -> Row]
  /\ dirty \in [Keys -> Row]
  /\ lock \in [Keys -> Procs \cup {None}]
  /\ hash \in [Keys -> Hash]
  /\ listed \in [Keys -> Nat]
  /\ loc \in [Procs -> Local]
  /\ \A p \in Procs :
       loc[p].pc \in AtKey \/ loc[p].op \in Handlers => loc[p].key \in Keys

\* Row and store say the same of key k: an active row is listed once, an
\* invalid one has a hash and is not listed, any other has left no trace.
Agree(k) ==
  /\ hash[k].status = HashOf(db[k]).status
  /\ listed[k] = ListedOf(db[k])

(***************************************************************************)
(* Whatever operations overlap, a row no transaction is writing agrees     *)
(* with the store: no key is served that the database does not hold as     *)
(* active, none that it does is forgotten, and none is listed twice.  The  *)
(* cron checker only looks at invalid rows, so an active row that is not   *)
(* listed stays unused until the next restart.  (provider.go: the store    *)
(* calls inside each transaction closure.)                                 *)
(***************************************************************************)
PoolInSync == \A k \in Keys : lock[k] = None => Agree(k)

(***************************************************************************)
(* A key in the pool has fewer failures than the threshold, except for the *)
(* failures that were being handled at the same time: each of them can     *)
(* read the count before the others raise it.  (handleFailure: the count   *)
(* is read outside the transaction.)                                       *)
(***************************************************************************)
OverrunBounded ==
  \A k \in Keys :
    (Threshold > 0 /\ lock[k] = None /\ hash[k].status = "active")
      => hash[k].fails <= Threshold + Cardinality(Procs) - 2

(***************************************************************************)
(* No key is in the list twice, whichever calls fail half-way: a key       *)
(* listed twice would be tried twice as often.  (addKeyToStore and         *)
(* handleSuccess: LREM before LPUSH.)  AddKeys has no LREM and is not      *)
(* among the operations this is checked with.                              *)
(***************************************************************************)
ListedOnce == \A k \in Keys : listed[k] <= 1

(***************************************************************************)
(* Every operation ends, with success or with an error: no operation waits *)
(* for ever for another one, and retries stop.                             *)
(* (executeTransactionWithRetry.)                                          *)
(***************************************************************************)
OperationsEnd == \A p \in Procs : loc[p] # Idle ~> loc[p] = Idle

(***************************************************************************)
(* What comments and documents of the repository say and the code does not *)
(* do.  Quiet: nothing is under way.                                       *)
(***************************************************************************)
Quiet == \A p \in Procs : loc[p] = Idle

\* RemoveInvalidKeys' comment: it removes the invalid keys of the group;
\* RestoreKeys' comment: it restores all of them.  An active key stays in
\* the pool, or comes back to it.
ActiveAreServed ==
  Quiet => \A k \in Keys : db[k].status = "active" =>
                            listed[k] > 0 /\ hash[k].status = "active"
=============================================================================
