---------------------------- MODULE KeyPoolProofs ----------------------------
(***************************************************************************)
(* Proofs about KeyPool.  PoolInSync is proved when no call fails, for     *)
(* SQLite without DisableKey, which leaves its store calls outside a       *)
(* transaction, and with row locks for the operations that work at rows    *)
(* named one by one; ListedOnce and OverrunBounded for either database     *)
(* under the conditions stated with them; TypeOK without any.              *)
(***************************************************************************)
EXTENDS KeyPoolProps, FiniteSetTheorems, TLAPS

(***************************************************************************)
(* The inductive invariant.  Only a transaction that holds the lock of a   *)
(* row changes the row's part of the store, so the store agrees with the   *)
(* committed rows except at the locked ones, whose agreement with the      *)
(* uncommitted rows is built up call by call.                              *)
(***************************************************************************)
Written(k) ==
  /\ hash[k].status = HashOf(dirty[k]).status
  /\ listed[k] = ListedOf(dirty[k])

OneTx == \A p, q \in Procs : InTx(p) /\ InTx(q) => p = q

LocksInTx ==
  \A k \in Keys : lock[k] # None => InTx(lock[k]) /\ db[k].status # "deleted"

UnlockedAgree == \A k \in Keys : lock[k] = None => dirty[k] = db[k] /\ Agree(k)

\* Where an operation can be.
WellFormed(p) ==
  /\ loc[p].op = "idle" => loc[p] = Idle
  /\ loc[p].op \in {"success"} =>
       loc[p].pc \in {"tx", "hset", "lrem", "lpush", "commit"}
  /\ loc[p].op \in {"failure", "forced"} =>
       loc[p].pc \in {"tx", "hincr", "lrem", "block", "commit"}
  /\ loc[p].op = "add" => loc[p].pc \in {"loop", "commit"}
  /\ loc[p].op \in Restoring => loc[p].pc \in {"write", "loop", "lrem", "lpush"}
  /\ loc[p].op \in Removing => loc[p].pc \in {"write", "loop", "hdel"}
  /\ loc[p].op = "select" => loc[p].pc \in {"read", "picked"}
  /\ loc[p].op \in (Ops \cup {"idle"}) \ {"disable", "clear", "restart"}

Mine(p) == {k \in Keys : lock[k] = p}

HandlerTxOK(p) ==
  LET k == loc[p].key IN
  /\ k \in Keys
  /\ Mine(p) = {k}
  /\ db[k].status \in Live
  /\ dirty[k].status \in Live
  /\ loc[p].pc \in {"hset", "hincr"} => Agree(k)
  /\ loc[p].pc = "hset" =>
       dirty[k].status = IF WasActive(p) THEN db[k].status ELSE "active"
  /\ loc[p].pc = "hincr" =>
       dirty[k].status = IF Blacklists(p) THEN "invalid" ELSE db[k].status
  /\ loc[p].pc = "lrem" =>
       IF loc[p].op = "success"
         THEN hash[k].status = "active" /\ dirty[k].status = "active"
         ELSE dirty[k].status = "invalid"
  /\ loc[p].pc = "lpush" =>
       hash[k].status = "active" /\ dirty[k].status = "active" /\ listed[k] = 0
  /\ loc[p].pc = "block" => dirty[k].status = "invalid" /\ listed[k] = 0
  /\ loc[p].pc = "commit" => Written(k)

AddTxOK(p) ==
  /\ loc[p].todo \subseteq Mine(p)
  /\ \A k \in Mine(p) :
       /\ dirty[k].status = "active"
       /\ loc[p].pc = "loop" =>
            listed[k] = 0 /\ (k \notin loc[p].todo => hash[k].status = "active")
       /\ loc[p].pc = "commit" => Written(k)

\* The row an operation on several rows is at, if it is at one.
Current(p) == IF loc[p].pc = "loop" THEN {} ELSE {loc[p].key}

BulkFound(p) ==
  /\ Mine(p) = {}
  /\ IF Serial THEN loc[p].todo = FindWhere(loc[p].op, loc[p].todo)
               ELSE \A k \in loc[p].todo : db[k].status # "unborn"

\* A row that another transaction deleted meanwhile is removed once more.
Gone(p, k) == loc[p].op \in Removing /\ db[k].status = "deleted"

BulkTxOK(p) ==
  IF loc[p].pc = "write"
    THEN BulkFound(p)
    ELSE /\ \A k \in loc[p].todo \cup Current(p) : k \in Mine(p) \/ Gone(p, k)
         /\ loc[p].todo \cap Current(p) = {}
         /\ \A k \in Mine(p) :
              dirty[k].status = IF loc[p].op \in Restoring THEN "active" ELSE "deleted"
         /\ \A k \in Mine(p) \ (loc[p].todo \cup Current(p)) : Written(k)
         /\ \A k \in Current(p) \cap Mine(p) :
              /\ loc[p].pc \in {"lrem", "lpush"} => hash[k].status = "active"
              /\ loc[p].pc \in {"lpush", "hdel"} => listed[k] = 0

TxOK(p) ==
  /\ loc[p].op \in Handlers => HandlerTxOK(p)
  /\ loc[p].op = "add" => AddTxOK(p)
  /\ loc[p].op \in Restoring \cup Removing => BulkTxOK(p)

IInv ==
  /\ TypeOK
  /\ Serial => OneTx
  /\ LocksInTx
  /\ UnlockedAgree
  /\ \A p \in Procs : WellFormed(p)
  /\ \A p \in Procs : InTx(p) => TxOK(p)

(***************************************************************************)
(* Type correctness, whatever the database, the faults and the operations. *)
(***************************************************************************)
\* TypeOK in three parts, so that a step need only speak of what it changes.
RowsOK ==
  /\ db \in [Keys -> Row]
  /\ dirty \in [Keys -> Row]
  /\ lock \in [Keys -> Procs \cup {None}]

PoolOK ==
  /\ hash \in [Keys -> Hash]
  /\ listed \in [Keys -> Nat]

HasKey(r) == r.pc \in AtKey \/ r.op \in Handlers => r.key \in Keys

LocOK ==
  /\ loc \in [Procs -> Local]
  /\ \A p \in Procs : HasKey(loc[p])

LEMMA TypeParts ==
  /\ TypeOK <=> RowsOK /\ PoolOK /\ LocOK
  /\ TypeOK' <=> RowsOK' /\ PoolOK' /\ LocOK'
BY DEF TypeOK, RowsOK, PoolOK, LocOK, HasKey

LEMMA IdleIsLocal == Idle \in Local /\ HasKey(Idle)
BY DEF Idle, Local, AllOps, PCs, NoHash, Hash, Live, MaxTries, AtKey, Handlers, HasKey

\* The record of goroutine p is replaced by another of the right type.
LEMMA LocReplaced ==
  ASSUME LocOK, NEW p \in Procs, NEW r \in Local, HasKey(r),
         loc' = [loc EXCEPT ![p] = r]
  PROVE  LocOK'
BY DEF LocOK

LEMMA LocSteps ==
  ASSUME LocOK, PoolOK, NEW p \in Procs
  PROVE  /\ End(p) => LocOK'
         /\ Again(p) /\ MayRetry(p) => LocOK'
         /\ \A pc \in PCs :
              Goto(p, pc) /\ (pc \in AtKey => loc[p].key \in Keys) => LocOK'
         /\ \A o \in AllOps, pc \in PCs, k \in Keys \cup {None}, todo \in SUBSET Keys :
              Begin(p, o, pc, k, todo) /\ (o \in Handlers \/ pc \in AtKey => k \in Keys)
                => LocOK'
<1>0. loc[p] \in Local /\ HasKey(loc[p])
  BY DEF LocOK
<1>1. End(p) => LocOK'
  BY IdleIsLocal, LocReplaced DEF End
<1>2. ASSUME Again(p), MayRetry(p) PROVE LocOK'
  <2> DEFINE r == [loc[p] EXCEPT !.tries = @ + 1, !.pc = "tx"]
  <2>1. loc[p].tries + 1 \in 0 .. MaxTries - 1
    BY <1>0, <1>2 DEF MayRetry, Local, MaxTries
  <2>2. r \in Local /\ HasKey(r)
    BY <1>0, <1>2, <2>1 DEF Local, PCs, MayRetry, HasKey
  <2>3. loc' = [loc EXCEPT ![p] = r]
    BY <1>0, <1>2 DEF Again, LocOK
  <2> QED
    BY <2>2, <2>3, LocReplaced
<1>3. ASSUME NEW pc \in PCs, Goto(p, pc), pc \in AtKey => loc[p].key \in Keys
      PROVE  LocOK'
  <2> DEFINE r == [loc[p] EXCEPT !.pc = pc]
  <2>1. r \in Local /\ HasKey(r)
    BY <1>0, <1>3 DEF Local, HasKey
  <2>2. loc' = [loc EXCEPT ![p] = r]
    BY <1>0, <1>3 DEF Goto, LocOK
  <2> QED
    BY <2>1, <2>2, LocReplaced
<1>4. ASSUME NEW o \in AllOps, NEW pc \in PCs, NEW k \in Keys \cup {None},
             NEW todo \in SUBSET Keys, o \in Handlers \/ pc \in AtKey => k \in Keys,
             Begin(p, o, pc, k, todo)
      PROVE  LocOK'
  <2> DEFINE s == IF o \in Handlers THEN hash[k] ELSE NoHash
             r == [op |-> o, pc |-> pc, key |-> k, todo |-> todo,
                   seen |-> s, tries |-> 0]
  <2>1. s \in Hash
    BY <1>4 DEF PoolOK, NoHash, Hash
  <2>2. r \in Local /\ HasKey(r)
    BY <1>4, <2>1 DEF Local, MaxTries, HasKey
  <2>3. loc' = [loc EXCEPT ![p] = r]
    BY <1>4 DEF Begin
  <2> QED
    BY <2>2, <2>3, LocReplaced
<1> QED
  BY <1>1, <1>2, <1>3, <1>4

LEMMA RowSteps ==
  ASSUME RowsOK, NEW p \in Procs
  PROVE  /\ \A K \in SUBSET Keys : \A new \in [K -> Row] :
              WriteRows(p, new) => RowsOK'
         /\ Rollback(p) => RowsOK'
<1>1. ASSUME NEW K \in SUBSET Keys, NEW new \in [K -> Row], WriteRows(p, new)
      PROVE  RowsOK'
  BY <1>1 DEF WriteRows, RowsOK
<1>2. Rollback(p) => RowsOK'
  BY DEF Rollback, Unlocked, RowsOK
<1> QED
  BY <1>1, <1>2

LEMMA UnchangedOK ==
  /\ RowsOK /\ UNCHANGED rows => RowsOK'
  /\ PoolOK /\ UNCHANGED pool => PoolOK'
BY DEF RowsOK, PoolOK, rows, pool

LEMMA CallTypeOK ==
  ASSUME TypeOK, NEW p \in Procs, Call(p)
  PROVE  TypeOK'
<1> USE TypeParts
<1>0. RowsOK /\ PoolOK /\ LocOK
  OBVIOUS
<1>1. ASSUME NEW k \in Keys, SuccessRead(p, k) PROVE TypeOK'
  BY <1>1, LocSteps, UnchangedOK DEF SuccessRead, AllOps, Handlers, PCs
<1>2. ASSUME NEW k \in Keys, NEW o \in {"failure", "forced"}, FailureRead(p, k, o)
      PROVE  TypeOK'
  BY <1>2, LocSteps, UnchangedOK DEF FailureRead, AllOps, Handlers, PCs
<1>3. ASSUME NEW K \in SUBSET Keys, AddKeys(p, K) PROVE TypeOK'
  <2>1. [k \in K |-> Fresh] \in [K -> Row]
    BY DEF Fresh, Row, Live
  <2>2. RowsOK'
    BY <1>0, <1>3, <2>1, RowSteps DEF AddKeys
  <2>3. LocOK'
    BY <1>0, <1>3, LocSteps DEF AddKeys, AllOps, Handlers, PCs, AtKey
  <2> QED
    BY <1>3, <2>2, <2>3, UnchangedOK DEF AddKeys
<1>4. ASSUME NEW K \in SUBSET Keys, NEW o \in Restoring \cup Removing, BulkFind(p, o, K)
      PROVE  TypeOK'
  <2>1. FindWhere(o, K) \in SUBSET Keys
    BY DEF FindWhere
  <2>2. o \in AllOps /\ o \notin Handlers
    BY DEF AllOps, Handlers, Restoring, Removing
  <2>3. LocOK'
    BY <1>0, <1>4, <2>1, <2>2, LocSteps DEF BulkFind, PCs, AtKey
  <2> QED
    BY <1>4, <2>3, UnchangedOK DEF BulkFind
<1>5. ASSUME NEW k \in Keys, DisableRead(p, k) PROVE TypeOK'
  <2>1. "disable" \in AllOps /\ "tx" \in PCs
    BY DEF AllOps, PCs
  <2>2. LocOK'
    BY <1>0, <1>5, <2>1, LocSteps DEF DisableRead
  <2> QED
    BY <1>0, <1>5, <2>2, UnchangedOK DEF DisableRead
<1>6. ASSUME NEW k \in Keys, SelectRotate(p, k) PROVE TypeOK'
  BY <1>6, LocSteps, UnchangedOK DEF SelectRotate, AllOps, PCs
<1> QED
  BY <1>1, <1>2, <1>3, <1>4, <1>5, <1>6 DEF Call

LEMMA StepTypeOK ==
  ASSUME TypeOK, NEW p \in Procs, Step(p) \/ Fault(p)
  PROVE  TypeOK'
<1> USE TypeParts
<1>0. RowsOK /\ PoolOK /\ LocOK /\ loc[p] \in Local /\ HasKey(loc[p])
  BY DEF LocOK
<1> DEFINE k == loc[p].key
<1>1. CASE HandlerTx(p)
  <2>1. k \in Keys /\ db[k] \in Row /\ loc[p].seen \in Hash
    BY <1>0, <1>1 DEF HandlerTx, HasKey, RowsOK, Local
  <2>2. Recovered(p, db[k]) \in Row /\ Failed(p, db[k]) \in Row
    BY <2>1 DEF Recovered, Failed, Row, Hash, Live
  <2>3. RowsOK'
    BY <1>0, <1>1, <2>1, <2>2, RowSteps DEF HandlerTx
  <2>4. LocOK'
    BY <1>0, <1>1, <2>1, LocSteps DEF HandlerTx, PCs
  <2> QED
    BY <1>1, <2>3, <2>4, UnchangedOK DEF HandlerTx
<1>2. CASE HandlerRowGone(p)
  BY <1>0, <1>2, LocSteps, UnchangedOK DEF HandlerRowGone
<1>3. CASE SuccessHSet(p)
  <2>1. k \in Keys /\ hash[k] \in Hash
    BY <1>0, <1>3 DEF SuccessHSet, HasKey, PoolOK, AtKey
  <2>2. PoolOK'
    BY <1>0, <1>3, <2>1 DEF SuccessHSet, PoolOK, Hash, Live, Kept
  <2>3. LocOK'
    BY <1>0, <1>3, <2>1, LocSteps DEF SuccessHSet, PCs
  <2> QED
    BY <1>3, <2>2, <2>3, UnchangedOK DEF SuccessHSet
<1>4. CASE FailureHIncr(p)
  <2>1. k \in Keys /\ hash[k] \in Hash
    BY <1>0, <1>4 DEF FailureHIncr, HasKey, PoolOK, AtKey
  <2>2. PoolOK'
    BY <1>0, <1>4, <2>1 DEF FailureHIncr, PoolOK, Hash, Live, Kept
  <2>3. LocOK'
    BY <1>0, <1>4, <2>1, LocSteps DEF FailureHIncr, PCs
  <2> QED
    BY <1>4, <2>2, <2>3, UnchangedOK DEF FailureHIncr
<1>5. CASE BulkWrite(p)
  <2> DEFINE W == WriteWhere(loc[p].op, loc[p].todo)
             new == [x \in W |-> IF loc[p].op \in Restoring
                                   THEN Fresh ELSE [db[x] EXCEPT !.status = "deleted"]]
  <2>1. W \subseteq Keys
    BY DEF WriteWhere
  <2>2. new \in [W -> Row]
    BY <1>0, <2>1 DEF RowsOK, Row, Fresh, Live
  <2>3. RowsOK'
    BY <1>0, <1>5, <2>1, <2>2, RowSteps DEF BulkWrite
  <2>4. LocOK'
    BY <1>0, <1>5, LocSteps DEF BulkWrite, PCs, AtKey
  <2> QED
    BY <1>5, <2>3, <2>4, UnchangedOK DEF BulkWrite
<1>6. ASSUME NEW x \in Keys, LoopHSet(p, x) PROVE TypeOK'
  <2> DEFINE r == [loc[p] EXCEPT
                     !.todo = @ \ {x},
                     !.key  = IF loc[p].op = "add" THEN None ELSE x,
                     !.pc   = IF loc[p].op = "add" THEN "loop" ELSE "lrem"]
  <2>1. loc' = [loc EXCEPT ![p] = r]
    BY <1>0, <1>6 DEF LoopHSet, LocOK
  <2>2. r \in Local /\ HasKey(r)
    BY <1>0, <1>6 DEF LoopHSet, Local, HasKey, PCs, AtKey, Handlers, Restoring
  <2>3. LocOK'
    BY <1>0, <2>1, <2>2, LocReplaced
  <2>4. PoolOK'
    BY <1>0, <1>6 DEF LoopHSet, PoolOK, Fresh, Hash, Live
  <2> QED
    BY <1>6, <2>3, <2>4, UnchangedOK DEF LoopHSet
<1>7. ASSUME NEW x \in Keys, LoopLRem(p, x) \/ RemoveLRemFails(p, x) PROVE TypeOK'
  <2> DEFINE r == [loc[p] EXCEPT !.todo = @ \ {x}, !.key = x, !.pc = "hdel"]
  <2>1. loc' = [loc EXCEPT ![p] = r]
    BY <1>0, <1>7 DEF LoopLRem, RemoveLRemFails, LocOK
  <2>2. r \in Local /\ HasKey(r)
    BY <1>0 DEF Local, HasKey, PCs
  <2>3. LocOK'
    BY <1>0, <2>1, <2>2, LocReplaced
  <2>4. PoolOK'
    BY <1>0, <1>7, UnchangedOK DEF LoopLRem, RemoveLRemFails, PoolOK
  <2> QED
    BY <1>7, <2>3, <2>4, UnchangedOK DEF LoopLRem, RemoveLRemFails
<1>8. CASE HDel(p)
  <2>1. PoolOK'
    BY <1>0, <1>8 DEF HDel, PoolOK, NoHash, Hash
  <2>2. LocOK'
    BY <1>0, <1>8, LocSteps DEF HDel, PCs, AtKey
  <2> QED
    BY <1>8, <2>1, <2>2, UnchangedOK DEF HDel
<1>9. CASE AddLPush(p)
  <2>1. PoolOK'
    BY <1>0, <1>9 DEF AddLPush, PoolOK
  <2>2. LocOK'
    BY <1>0, <1>9, LocSteps DEF AddLPush, PCs, AtKey
  <2> QED
    BY <1>9, <2>1, <2>2, UnchangedOK DEF AddLPush
<1>10. CASE LRem(p) \/ LPush(p)
  <2>1. k \in Keys
    BY <1>0, <1>10 DEF LRem, LPush, HasKey, AtKey
  <2>2. PoolOK'
    BY <1>0, <1>10, <2>1 DEF LRem, LPush, PoolOK
  <2>3. LocOK'
    BY <1>0, <1>10, <2>1, LocSteps DEF LRem, LPush, PCs
  <2> QED
    BY <1>10, <2>2, <2>3, UnchangedOK DEF LRem, LPush
<1>11. CASE Block(p)
  <2>1. k \in Keys /\ hash[k] \in Hash
    BY <1>0, <1>11 DEF Block, HasKey, AtKey, PoolOK
  <2>2. PoolOK'
    BY <1>0, <1>11, <2>1 DEF Block, PoolOK, Hash, Live
  <2>3. LocOK'
    BY <1>0, <1>11, <2>1, LocSteps DEF Block, PCs
  <2> QED
    BY <1>11, <2>2, <2>3, UnchangedOK DEF Block
<1>12. CASE Commit(p)
  <2>1. RowsOK'
    BY <1>0, <1>12 DEF Commit, RowsOK, Unlocked
  <2>2. LocOK'
    BY <1>0, <1>12, LocSteps DEF Commit
  <2> QED
    BY <1>12, <2>1, <2>2, UnchangedOK DEF Commit
<1>13. CASE Refused(p)
  <2>1. LocOK'
    BY <1>0, <1>13, LocSteps DEF Refused
  <2> QED
    BY <1>13, <2>1, UnchangedOK DEF Refused
<1>14. CASE CommitFails(p)
  <2>1. RowsOK'
    BY <1>0, <1>14, RowSteps DEF CommitFails
  <2>2. LocOK'
    BY <1>0, <1>14, LocSteps DEF CommitFails
  <2> QED
    BY <1>14, <2>1, <2>2, UnchangedOK DEF CommitFails
<1>15. CASE DisableCallFails(p)
  <2>1. k \in Keys /\ "block" \in PCs
    BY <1>0, <1>15 DEF DisableCallFails, HasKey, AtKey, PCs
  <2>2. LocOK'
    BY <1>0, <1>15, <2>1, LocSteps DEF DisableCallFails
  <2> QED
    BY <1>15, <2>2, UnchangedOK DEF DisableCallFails
<1>16. CASE TxCallFails(p)
  <2>1. RowsOK'
    BY <1>0, <1>16, RowSteps DEF TxCallFails
  <2>2. LocOK'
    BY <1>0, <1>16, LocSteps DEF TxCallFails
  <2> QED
    BY <1>16, <2>1, <2>2, UnchangedOK DEF TxCallFails
<1>17. CASE DisableUpdate(p)
  <2>1. k \in Keys /\ db[k] \in Row
    BY <1>0, <1>17 DEF DisableUpdate, HasKey, AtKey, RowsOK
  <2>2. RowsOK'
    BY <1>0, <1>17, <2>1 DEF DisableUpdate, RowsOK, Row, Live
  <2>3. LocOK'
    BY <1>0, <1>17, <2>1, LocSteps DEF DisableUpdate, PCs
  <2> QED
    BY <1>17, <2>2, <2>3, UnchangedOK DEF DisableUpdate
<1>18. CASE SelectRead(p)
  <2> DEFINE r == [loc[p] EXCEPT !.pc = "picked", !.seen = hash[k]]
  <2>1. k \in Keys /\ hash[k] \in Hash
    BY <1>0, <1>18 DEF SelectRead, HasKey, AtKey, PoolOK
  <2>2. loc' = [loc EXCEPT ![p] = r]
    BY <1>0, <1>18 DEF SelectRead, LocOK
  <2>3. r \in Local /\ HasKey(r)
    BY <1>0, <2>1 DEF Local, HasKey, PCs, AtKey
  <2>4. LocOK'
    BY <1>0, <2>2, <2>3, LocReplaced
  <2> QED
    BY <1>18, <2>4, UnchangedOK DEF SelectRead
<1>19. CASE SelectReturn(p)
  BY <1>0, <1>19, LocSteps, UnchangedOK DEF SelectReturn
<1> QED
  BY <1>1, <1>2, <1>3, <1>4, <1>5, <1>6, <1>7, <1>8, <1>9, <1>10, <1>11, <1>12,
     <1>13, <1>14, <1>15, <1>16, <1>17, <1>18, <1>19 DEF Step, Fault

LEMMA InitTypeOK == Init => TypeOK
<1> SUFFICES ASSUME Init PROVE TypeOK
  OBVIOUS
<1>1. \A k \in Keys : db[k] \in Row /\ HashOf(db[k]) \in Hash /\ ListedOf(db[k]) \in Nat
  BY DEF Init, Row, HashOf, ListedOf, NoHash, Hash, Live
<1> QED
  BY <1>1, IdleIsLocal DEF Init, TypeOK, Row, HasKey

LEMMA TypeInductive == TypeOK /\ [Next]_vars => TypeOK'
<1> SUFFICES ASSUME TypeOK, [Next]_vars PROVE TypeOK'
  OBVIOUS
<1>1. ASSUME NEW p \in Procs, Call(p) PROVE TypeOK'
  BY <1>1, CallTypeOK
<1>2. ASSUME NEW p \in Procs, Step(p) \/ Fault(p) PROVE TypeOK'
  BY <1>2, StepTypeOK
<1>3. ASSUME NEW K \in SUBSET Keys, ClearStats(K) PROVE TypeOK'
  BY <1>3 DEF ClearStats, TypeOK, pool, Row
<1>4. CASE Restart
  <2>1. \A k \in Keys : HashOf(db[k]) \in Hash /\ ListedOf(db[k]) \in Nat
    BY DEF TypeOK, Row, HashOf, ListedOf, NoHash, Hash, Live
  <2> QED
    BY <1>4, <2>1, IdleIsLocal DEF Restart, TypeOK, HasKey
<1>5. CASE UNCHANGED vars
  BY <1>5 DEF vars, TypeOK
<1> QED
  BY <1>1, <1>2, <1>3, <1>4, <1>5 DEF Next

(***************************************************************************)
(* Type correctness for all keys, goroutines, thresholds, operations,      *)
(* databases and faults: no count goes below zero, no hash holds a status  *)
(* the code does not know.                                                 *)
(***************************************************************************)
THEOREM TypeCorrect == Spec => []TypeOK
BY InitTypeOK, TypeInductive, PTL DEF Spec

(***************************************************************************)
(* What is asked of the operations.  With row locks, those that look for   *)
(* rows by status and write them in a second statement may meet other rows *)
(* the second time; RestoreMultipleKeys puts a key that was removed in     *)
(* between back into the store; and DisableKey works at the store after    *)
(* its commit, when the row is not its own any more.                       *)
(***************************************************************************)
ByName == {"success", "failure", "forced", "add", "removeSome", "select", "clear", "restart"}

Orderly == Faults = {} /\ IF Serial THEN "disable" \notin Ops ELSE Ops \subseteq ByName

Untouched(k) ==
  /\ db'[k] = db[k] /\ dirty'[k] = dirty[k] /\ lock'[k] = lock[k]
  /\ hash'[k] = hash[k] /\ listed'[k] = listed[k]

\* A change of k by p, or by nobody's transaction, that leaves it in order.
Touched(p, k) ==
  /\ lock[k] \in {None, p} /\ lock'[k] \in {None, p}
  /\ db[k].status = "deleted" => db'[k].status = "deleted"
  /\ db[k].status # "unborn" => db'[k].status # "unborn"
  /\ lock'[k] # None => db'[k].status # "deleted"
  /\ lock'[k] = None => dirty'[k] = db'[k] /\ Agree(k)'

\* What holds of a transaction holds when others change what it has not locked.
LEMMA TxStays ==
  ASSUME IInv, NEW q \in Procs, NEW p, p # q, loc'[q] = loc[q],
         \A k \in Keys : Untouched(k) \/ Touched(p, k),
         Serial => UNCHANGED db,
         TxOK(q)
  PROVE  TxOK(q)'
<1>0. q # None /\ Mine(q) \subseteq Keys
  BY KeyPoolAssumption DEF Mine
<1>1. Mine(q)' = Mine(q) /\ \A k \in Mine(q) : Untouched(k)
  BY <1>0 DEF Mine, Touched, Untouched
<1>2. Current(q)' = Current(q) /\ \A k \in Mine(q) : Written(k)' <=> Written(k)
  BY <1>1 DEF Current, Written, HashOf, ListedOf, Untouched
<1>3. HandlerTxOK(q) => HandlerTxOK(q)'
  <2> SUFFICES ASSUME HandlerTxOK(q) PROVE HandlerTxOK(q)'
    OBVIOUS
  <2> DEFINE k == loc[q].key
  <2>1. k \in Keys /\ Mine(q) = {k} /\ Untouched(k) /\ (Written(k)' <=> Written(k))
    BY <1>1, <1>2 DEF HandlerTxOK
  <2> QED
    BY <1>1, <2>1 DEF HandlerTxOK, WasActive, Blacklists, Agree, HashOf, ListedOf, Untouched
<1>4. AddTxOK(q) => AddTxOK(q)'
  BY <1>1, <1>2 DEF AddTxOK, Untouched
<1>5. \A k \in Keys : /\ db[k].status # "unborn" => db'[k].status # "unborn"
                      /\ db[k].status = "deleted" => db'[k].status = "deleted"
  BY DEF Untouched, Touched
<1>6. ASSUME BulkFound(q) PROVE BulkFound(q)'
  <2>1. loc[q].todo \subseteq Keys
    BY DEF IInv, TypeOK, Local
  <2>2. CASE Serial
    BY <1>1, <1>6, <2>2 DEF BulkFound, FindWhere
  <2>3. CASE ~Serial
    BY <1>1, <1>5, <1>6, <2>1, <2>3 DEF BulkFound
  <2> QED BY <2>2, <2>3
<1>7. loc[q].op \in Restoring \cup Removing /\ BulkTxOK(q) => BulkTxOK(q)'
  <2>1. CASE loc[q].pc = "write"
    BY <1>6, <2>1 DEF BulkTxOK
  <2>2. CASE loc[q].pc # "write"
    <3> SUFFICES ASSUME loc[q].op \in Restoring \cup Removing, BulkTxOK(q) PROVE BulkTxOK(q)'
      OBVIOUS
    <3>1. loc[q].todo \cup Current(q) \subseteq Keys
      <4>1. loc[q].todo \subseteq Keys /\ (loc[q].pc \in AtKey => loc[q].key \in Keys)
        BY DEF IInv, TypeOK, Local
      <4>2. loc[q].pc = "loop" \/ loc[q].pc \in AtKey
        BY <2>2 DEF IInv, WellFormed, AtKey
      <4> QED BY <4>1, <4>2 DEF Current
    <3>2. \A k \in Keys : Gone(q, k) => Gone(q, k)'
      BY <1>5 DEF Gone
    <3> QED
      BY <1>1, <1>2, <2>2, <3>1, <3>2 DEF BulkTxOK, Untouched
  <2> QED BY <2>1, <2>2
<1> QED
  BY <1>3, <1>4, <1>7 DEF TxOK, Handlers, Restoring, Removing

\* What a step of p has to show.
LEMMA StepKeepsIInv ==
  ASSUME IInv, TypeOK', NEW p \in Procs,
         \A q \in Procs \ {p} : loc'[q] = loc[q],
         \A k \in Keys : Untouched(k) \/ Touched(p, k),
         \A k \in Keys : lock'[k] = p => InTx(p)',
         Serial => (UNCHANGED db /\ ~InTx(p)') \/ \A q \in Procs \ {p} : ~InTx(q),
         WellFormed(p)',
         InTx(p)' => TxOK(p)'
  PROVE  IInv'
<1>1. \A q \in Procs \ {p} : (InTx(q)' <=> InTx(q)) /\ (WellFormed(q)' <=> WellFormed(q))
  BY DEF InTx, WellFormed
<1>2. Serial => OneTx'
  BY <1>1 DEF IInv, OneTx
<1>3. LocksInTx'
  <2> SUFFICES ASSUME NEW k \in Keys, lock'[k] # None
               PROVE  (InTx(lock[k]) /\ db[k].status # "deleted")'
    BY DEF LocksInTx
  <2>1. lock'[k] \in Procs
    BY DEF TypeOK
  <2>2. PICK q \in Procs : lock'[k] = q
    BY <2>1
  <2>3. CASE q = p
    <3>1. db'[k].status # "deleted"
      BY <2>2, <2>3 DEF IInv, LocksInTx, Untouched, Touched
    <3> QED BY <2>2, <2>3, <3>1
  <2>4. CASE q # p
    <3>1. Untouched(k) /\ lock[k] = q
      BY <2>2, <2>4 DEF Touched, Untouched
    <3>2. InTx(q) /\ db[k].status # "deleted"
      BY <2>2, <3>1 DEF IInv, LocksInTx
    <3>3. InTx(q)'
      BY <1>1, <2>4, <3>2
    <3> QED BY <2>2, <3>1, <3>2, <3>3 DEF Untouched
  <2> QED BY <2>3, <2>4
<1>4. UnlockedAgree'
  <2> SUFFICES ASSUME NEW k \in Keys, lock'[k] = None
               PROVE  dirty'[k] = db'[k] /\ Agree(k)'
    BY DEF UnlockedAgree
  <2>1. CASE Untouched(k)
    <3>1. dirty[k] = db[k] /\ Agree(k)
      BY <2>1 DEF IInv, UnlockedAgree, Untouched
    <3> QED BY <2>1, <3>1 DEF Untouched, Agree, HashOf, ListedOf
  <2> QED BY <2>1 DEF Touched
<1>5. ASSUME NEW q \in Procs, InTx(q)' PROVE TxOK(q)'
  <2>1. CASE q # p
    <3>1. InTx(q) /\ TxOK(q) /\ loc'[q] = loc[q]
      BY <1>1, <1>5, <2>1 DEF IInv
    <3>2. Serial => UNCHANGED db
      BY <2>1, <3>1
    <3> QED BY <2>1, <3>1, <3>2, TxStays
  <2> QED BY <1>5, <2>1
<1> QED
  BY <1>1, <1>2, <1>3, <1>4, <1>5 DEF IInv

\* On SQLite nobody else is in a transaction while p is, or may write.
LEMMA AloneWhen ==
  ASSUME IInv, Serial, NEW p \in Procs
  PROVE  /\ InTx(p) => \A q \in Procs \ {p} : ~InTx(q)
         /\ \A W : MayWrite(p, W) => \A q \in Procs \ {p} : ~InTx(q)
BY DEF IInv, OneTx, MayWrite

\* Only a goroutine in a transaction has locks, and nobody the lock of a row
\* that is gone.
LEMMA Locks ==
  ASSUME IInv, NEW p \in Procs
  PROVE  /\ ~InTx(p) => Mine(p) = {}
         /\ p # None
         /\ \A k \in Keys : db[k].status = "deleted" => lock[k] = None
BY KeyPoolAssumption DEF IInv, LocksInTx, Mine

\* With row locks, RemoveKeys is the only operation on several rows it found.
LEMMA OperationsAre ==
  ASSUME Orderly, NEW p \in Procs, WellFormed(p), ~Serial
  PROVE  loc[p].op \in Restoring \cup Removing => loc[p].op = "removeSome"
BY DEF Orderly, WellFormed, ByName, Restoring, Removing

\* Steps that read the store or the database and leave them alone.
LEMMA ReadingSteps ==
  ASSUME IInv, TypeOK', Orderly, NEW p \in Procs,
         \/ \E k \in Keys : SuccessRead(p, k)
         \/ \E k \in Keys, o \in {"failure", "forced"} : FailureRead(p, k, o)
         \/ \E k \in Keys : SelectRotate(p, k)
         \/ HandlerRowGone(p) \/ Refused(p) \/ SelectRead(p) \/ SelectReturn(p)
  PROVE  IInv'
<1>0. loc \in [Procs -> Local] /\ WellFormed(p)
  BY DEF IInv, TypeOK
<1>1. UNCHANGED <<db, dirty, lock, hash, listed>> /\ \A q \in Procs \ {p} : loc'[q] = loc[q]
  BY <1>0 DEF SuccessRead, FailureRead, SelectRotate, HandlerRowGone, Refused, SelectRead,
         SelectReturn, Begin, End, Again, rows, pool
<1>2. InTx(p) => loc[p].pc = "write" /\ loc[p].op \in Restoring \cup Removing
  BY <1>0 DEF SuccessRead, FailureRead, SelectRotate, HandlerRowGone, Refused, SelectRead,
         SelectReturn, Begin, InTx, Idle, WellFormed, Handlers, Restoring, Removing, Local, AllOps
<1>3. Mine(p) = {}
  <2>1. CASE InTx(p)
    BY <1>2, <2>1 DEF IInv, TxOK, BulkTxOK, BulkFound
  <2> QED BY <2>1, Locks
<1>4. ~InTx(p)' /\ WellFormed(p)'
  <2>2. ASSUME End(p) PROVE ~InTx(p)' /\ WellFormed(p)'
    <3>1. loc'[p] = Idle
      BY <1>0, <2>2 DEF End
    <3> QED BY <3>1 DEF InTx, WellFormed, Idle, Handlers, Restoring, Removing
  <2>3. ASSUME MayRetry(p), Again(p) PROVE ~InTx(p)' /\ WellFormed(p)'
    <3>1. loc'[p].op = loc[p].op /\ loc'[p].pc = "tx" /\ loc[p].op \in Handlers
      BY <1>0, <2>3 DEF Again, MayRetry, Local
    <3> QED BY <1>0, <3>1 DEF InTx, WellFormed, Handlers, Restoring, Removing
  <2>4. ASSUME SelectRead(p) PROVE ~InTx(p)' /\ WellFormed(p)'
    <3>1. loc[p].pc = "read" /\ loc'[p].op = loc[p].op /\ loc'[p].pc = "picked"
      BY <1>0, <2>4 DEF SelectRead, Local
    <3>2. loc[p].op = "select"
      BY <1>0, <3>1 DEF WellFormed, Idle, Local, AllOps, Handlers, Restoring, Removing
    <3> QED BY <1>0, <3>1, <3>2 DEF InTx, WellFormed, Handlers, Restoring, Removing
  <2>5. \/ \E k \in Keys : Begin(p, "success", "tx", k, {})
        \/ \E k \in Keys, o \in {"failure", "forced"} : Begin(p, o, "tx", k, {})
        \/ \E k \in Keys : Begin(p, "select", "read", k, {})
        \/ End(p) \/ (MayRetry(p) /\ Again(p)) \/ SelectRead(p)
    BY DEF SuccessRead, FailureRead, SelectRotate, HandlerRowGone, Refused, SelectReturn
  <2>6. ASSUME NEW o \in {"success", "failure", "forced"}, NEW k, Begin(p, o, "tx", k, {})
        PROVE  ~InTx(p)' /\ WellFormed(p)'
    <3>1. loc'[p].op = o /\ loc'[p].pc = "tx" /\ o \in Ops
      BY <1>0, <2>6 DEF Begin
    <3> QED BY <2>6, <3>1 DEF InTx, WellFormed, Handlers, Restoring, Removing
  <2>7. ASSUME NEW k, Begin(p, "select", "read", k, {}) PROVE ~InTx(p)' /\ WellFormed(p)'
    <3>1. loc'[p].op = "select" /\ loc'[p].pc = "read" /\ "select" \in Ops
      BY <1>0, <2>7 DEF Begin
    <3> QED BY <3>1 DEF InTx, WellFormed, Handlers, Restoring, Removing
  <2> QED BY <2>2, <2>3, <2>4, <2>5, <2>6, <2>7
<1>5. \A k \in Keys : Untouched(k) /\ lock'[k] # p
  BY <1>1, <1>3 DEF Untouched, Mine
<1> QED
  BY <1>1, <1>4, <1>5, StepKeepsIInv

\* A commit, when the store agrees with all that was written.
LEMMA CommitStep ==
  ASSUME IInv, TypeOK', NEW p \in Procs, InTx(p), Commit(p),
         \A x \in Mine(p) : Written(x) /\ dirty[x].status # "unborn"
  PROVE  IInv'
<1>0. loc \in [Procs -> Local] /\ RowsOK
  BY TypeParts DEF IInv, LocOK
<1>1. loc'[p] = Idle /\ \A q \in Procs \ {p} : loc'[q] = loc[q]
  BY <1>0 DEF Commit, End
<1>2. ~InTx(p)' /\ WellFormed(p)'
  BY <1>1 DEF InTx, WellFormed, Idle, Handlers, Restoring, Removing
<1>3. ASSUME NEW x \in Keys PROVE lock'[x] # p /\ (Untouched(x) \/ Touched(p, x))
  <2>1. /\ hash' = hash /\ listed' = listed /\ dirty' = dirty
        /\ db'[x] = IF lock[x] = p THEN dirty[x] ELSE db[x]
        /\ lock'[x] = IF lock[x] = p THEN None ELSE lock[x]
    BY DEF Commit, Unlocked, pool
  <2>2. CASE lock[x] # p
    BY <2>1, <2>2 DEF Untouched
  <2>3. CASE lock[x] = p
    <3>1. Written(x) /\ dirty[x].status # "unborn" /\ db[x].status # "deleted" /\ p # None
      BY <2>3, Locks DEF Mine
    <3>2. Agree(x)'
      BY <2>1, <2>3, <3>1 DEF Written, Agree, HashOf, ListedOf
    <3> QED BY <2>1, <2>3, <3>1, <3>2 DEF Touched
  <2> QED BY <2>2, <2>3
<1>4. Serial => \A q \in Procs \ {p} : ~InTx(q)
  BY AloneWhen
<1> QED
  BY <1>1, <1>2, <1>3, <1>4, StepKeepsIInv

\* handleSuccess and handleFailure, from their transaction's first statement on.
LEMMA HandlerSteps ==
  ASSUME IInv, TypeOK', Orderly, NEW p \in Procs,
         \/ HandlerTx(p) \/ SuccessHSet(p) \/ FailureHIncr(p)
         \/ loc[p].op \in Handlers /\ (LRem(p) \/ LPush(p) \/ Block(p) \/ Commit(p))
  PROVE  IInv'
<1> DEFINE k == loc[p].key
<1>0. loc \in [Procs -> Local] /\ WellFormed(p) /\ RowsOK /\ PoolOK /\ UnlockedAgree
  BY TypeParts DEF IInv, LocOK
<1>1. CASE HandlerTx(p)
  <2>1. Serial => \A q \in Procs \ {p} : ~InTx(q)
    BY <1>1, AloneWhen DEF HandlerTx
  <2>2. lock[k] = None /\ Mine(p) = {}
    <3>1. ~InTx(p) /\ MayWrite(p, {k})
      BY <1>1 DEF InTx, HandlerTx
    <3>2. Mine(p) = {}
      BY <3>1, Locks
    <3> QED BY <3>1, <3>2 DEF MayWrite
  <2>3. k \in Keys
    BY <1>1 DEF HandlerTx, IInv, TypeOK
  <2>4. /\ lock' = [lock EXCEPT ![k] = p]
        /\ db' = db
        /\ dirty' = [dirty EXCEPT ![k] = IF loc[p].op = "success"
                                           THEN Recovered(p, db[k]) ELSE Failed(p, db[k])]
        /\ loc' = [loc EXCEPT ![p].pc = IF loc[p].op = "success" THEN "hset" ELSE "hincr"]
        /\ UNCHANGED pool
    BY <1>0, <1>1, <2>3 DEF HandlerTx, WriteRows, Goto, RowsOK
  <2>5. Agree(k) /\ db[k].status \in Live /\ p # None
    BY <1>0, <1>1, <2>2, <2>3, KeyPoolAssumption DEF UnlockedAgree, HandlerTx
  <2>6. InTx(p)' /\ WellFormed(p)' /\ \A q \in Procs \ {p} : loc'[q] = loc[q]
    BY <1>0, <1>1, <2>4 DEF InTx, WellFormed, HandlerTx, Handlers, Restoring, Removing, Idle
  <2>7. \A x \in Keys : Untouched(x) \/ Touched(p, x)
    <3>1. \A x \in Keys \ {k} : Untouched(x)
      BY <1>0, <2>4 DEF Untouched, pool, RowsOK
    <3>2. Touched(p, k)
      BY <1>0, <2>2, <2>3, <2>4, <2>5 DEF Touched, RowsOK, Live
    <3> QED BY <3>1, <3>2
  <2>8. \A x \in Keys : lock'[x] = p => InTx(p)'
    BY <2>6
  <2>9. Mine(p)' = {k}
    BY <1>0, <2>2, <2>3, <2>4, <2>5 DEF Mine, RowsOK
  <2>10. HandlerTxOK(p)'
    BY <1>0, <1>1, <2>3, <2>4, <2>5, <2>9
       DEF HandlerTxOK, Recovered, Failed, WasActive, Blacklists, HandlerTx, Live, Agree,
           HashOf, ListedOf, RowsOK, PoolOK, pool, Handlers
  <2>11. TxOK(p)'
    BY <1>0, <1>1, <2>4, <2>10 DEF TxOK, HandlerTx, Handlers, Restoring, Removing
  <2> QED
    BY <2>1, <2>6, <2>7, <2>8, <2>11, StepKeepsIInv
<1>2. ASSUME loc[p].op \in Handlers,
             SuccessHSet(p) \/ FailureHIncr(p) \/ LRem(p) \/ LPush(p) \/ Block(p)
      PROVE  IInv'
  <2>1. InTx(p) /\ (Serial => \A q \in Procs \ {p} : ~InTx(q))
    BY <1>2, AloneWhen DEF InTx, SuccessHSet, FailureHIncr, LRem, LPush, Block, Handlers
  <2>2. HandlerTxOK(p) /\ k \in Keys /\ Mine(p) = {k}
    BY <1>2, <2>1 DEF IInv, TxOK, HandlerTxOK
  <2>3. UNCHANGED rows /\ \A q \in Procs \ {p} : loc'[q] = loc[q]
    BY <1>0, <1>2 DEF SuccessHSet, FailureHIncr, LRem, LPush, Block, Goto, Handlers, rows
  <2>4. InTx(p)' /\ WellFormed(p)' /\ loc'[p].op = loc[p].op /\ loc'[p].key = k
        /\ loc'[p].seen = loc[p].seen
    <3>1. CASE SuccessHSet(p)
      BY <1>0, <3>1 DEF SuccessHSet, Goto, InTx, WellFormed, Handlers, Restoring, Removing
    <3>2. CASE FailureHIncr(p)
      BY <1>0, <1>2, <3>2 DEF FailureHIncr, Goto, InTx, WellFormed, Handlers, Restoring, Removing
    <3>3. CASE LRem(p)
      BY <1>0, <1>2, <3>3 DEF LRem, Goto, InTx, WellFormed, Handlers, Restoring, Removing
    <3>4. CASE LPush(p)
      BY <1>0, <1>2, <3>4 DEF LPush, Goto, InTx, WellFormed, Handlers, Restoring, Removing
    <3>5. CASE Block(p)
      <4>1. loc[p].pc = "block" /\ loc' = [loc EXCEPT ![p].pc = "commit"]
        BY <1>2, <3>5 DEF Block, Goto, Handlers
      <4> QED
        BY <1>0, <1>2, <4>1 DEF InTx, WellFormed, Handlers, Restoring, Removing
    <3> QED
      BY <1>2, <3>1, <3>2, <3>3, <3>4, <3>5
  <2>6. \A x \in Keys \ {k} : hash'[x] = hash[x] /\ listed'[x] = listed[x]
    BY <1>0, <1>2 DEF SuccessHSet, FailureHIncr, LRem, LPush, Block, PoolOK
  <2>7. \A x \in Keys : Untouched(x) \/ Touched(p, x)
    <3>1. \A x \in Keys \ {k} : Untouched(x)
      BY <2>3, <2>6 DEF Untouched, rows
    <3>2. lock[k] = p /\ lock[k] # None /\ db[k].status # "deleted"
      BY <2>2, Locks DEF Mine
    <3>3. Touched(p, k)
      BY <2>3, <3>2 DEF Touched, rows
    <3> QED BY <3>1, <3>3
  <2>8. HandlerTxOK(p)'
    <3>1. Mine(p)' = {k}
      BY <2>2, <2>3 DEF Mine, rows
    <3>2. CASE SuccessHSet(p)
      BY <1>0, <2>2, <2>3, <2>4, <3>1, <3>2
         DEF HandlerTxOK, SuccessHSet, Goto, Agree, HashOf, ListedOf, Written, WasActive, Kept,
             Live, rows, PoolOK
    <3>3. CASE FailureHIncr(p)
      BY <1>0, <1>2, <2>2, <2>3, <2>4, <3>1, <3>3
         DEF HandlerTxOK, FailureHIncr, Goto, Agree, HashOf, ListedOf, Written, Blacklists, Kept,
             Live, rows, PoolOK, WellFormed, Handlers
    <3>4. CASE LRem(p)
      BY <1>0, <1>2, <2>2, <2>3, <2>4, <3>1, <3>4
         DEF HandlerTxOK, LRem, Goto, Handlers, Restoring, rows, PoolOK
    <3>5. CASE LPush(p)
      BY <1>0, <1>2, <2>2, <2>3, <2>4, <3>1, <3>5
         DEF HandlerTxOK, LPush, Goto, Written, HashOf, ListedOf, Live, rows, PoolOK,
             WellFormed, Handlers
    <3>6. CASE Block(p)
      <4>1. loc[p].pc = "block" /\ loc' = [loc EXCEPT ![p].pc = "commit"]
        BY <1>2, <3>6 DEF Block, Goto, Handlers
      <4>2. hash'[k].status = "invalid" /\ listed'[k] = 0 /\ dirty'[k] = dirty[k]
            /\ db' = db /\ dirty[k].status = "invalid"
        BY <1>0, <2>2, <2>3, <3>6, <4>1 DEF HandlerTxOK, Block, PoolOK, Hash, rows
      <4>3. Written(k)'
        BY <2>4, <4>2 DEF Written, HashOf, ListedOf, Live
      <4> QED
        BY <1>0, <2>2, <2>4, <3>1, <4>1, <4>2, <4>3 DEF HandlerTxOK, Live
    <3> QED
      BY <1>2, <3>2, <3>3, <3>4, <3>5, <3>6
  <2>9. TxOK(p)'
    BY <1>2, <2>4, <2>8 DEF TxOK, Handlers, Restoring, Removing
  <2> QED
    BY <2>1, <2>3, <2>4, <2>7, <2>9, StepKeepsIInv
<1>3. ASSUME loc[p].op \in Handlers, Commit(p) PROVE IInv'
  <2>1. InTx(p)
    BY <1>3 DEF InTx, Commit, AtCommit, Handlers, Restoring, Removing
  <2>2. Mine(p) = {k} /\ Written(k) /\ dirty[k].status \in Live
    BY <1>3, <2>1 DEF IInv, TxOK, HandlerTxOK, Commit, AtCommit, Handlers, Restoring, Removing
  <2> QED
    BY <1>3, <2>1, <2>2, CommitStep DEF Live
<1>4. FailureHIncr(p) => loc[p].op \in Handlers
  BY <1>0 DEF FailureHIncr, WellFormed, Handlers, Restoring, Removing, Idle, Local, AllOps
<1> QED
  BY <1>1, <1>2, <1>3, <1>4 DEF SuccessHSet, Handlers

\* Where the first store call for a row leaves the goroutine.
LEMMA LoopMoves ==
  ASSUME loc \in [Procs -> Local], NEW p \in Procs, NEW x \in Keys,
         LoopHSet(p, x) \/ LoopLRem(p, x)
  PROVE  /\ \A q \in Procs \ {p} : loc'[q] = loc[q]
         /\ loc'[p].op = loc[p].op /\ loc'[p].todo = loc[p].todo \ {x}
         /\ loc[p].op = "add" /\ LoopHSet(p, x) => loc'[p].pc = "loop"
         /\ loc[p].op # "add" /\ LoopHSet(p, x) =>
              loc'[p].pc = "lrem" /\ loc'[p].key = x
         /\ LoopLRem(p, x) => loc'[p].pc = "hdel" /\ loc'[p].key = x
<1>1. CASE LoopHSet(p, x)
  <2> DEFINE r == [loc[p] EXCEPT
                     !.todo = @ \ {x},
                     !.key  = IF loc[p].op = "add" THEN None ELSE x,
                     !.pc   = IF loc[p].op = "add" THEN "loop" ELSE "lrem"]
  <2>1. loc' = [loc EXCEPT ![p] = r]
    BY <1>1 DEF LoopHSet
  <2>2. /\ r.op = loc[p].op /\ r.todo = loc[p].todo \ {x}
        /\ r.key = IF loc[p].op = "add" THEN None ELSE x
        /\ r.pc = IF loc[p].op = "add" THEN "loop" ELSE "lrem"
    BY DEF Local
  <2>3. ~LoopLRem(p, x)
    BY <1>1 DEF LoopHSet, LoopLRem, Restoring, Removing
  <2> HIDE DEF r
  <2> QED
    BY <2>1, <2>2, <2>3
<1>2. CASE LoopLRem(p, x)
  <2> DEFINE r == [loc[p] EXCEPT !.todo = @ \ {x}, !.key = x, !.pc = "hdel"]
  <2>1. loc' = [loc EXCEPT ![p] = r]
    BY <1>2 DEF LoopLRem
  <2>2. r.op = loc[p].op /\ r.todo = loc[p].todo \ {x} /\ r.key = x /\ r.pc = "hdel"
    BY DEF Local
  <2>3. ~LoopHSet(p, x)
    BY <1>2 DEF LoopHSet, LoopLRem, Restoring, Removing
  <2> HIDE DEF r
  <2> QED
    BY <2>1, <2>2, <2>3
<1> QED
  BY <1>1, <1>2

\* AddKeys: the INSERT, the store calls, the commit.
LEMMA AddSteps ==
  ASSUME IInv, TypeOK', Orderly, NEW p \in Procs,
         \/ \E K \in SUBSET Keys : AddKeys(p, K)
         \/ loc[p].op = "add" /\ ((\E x \in Keys : LoopHSet(p, x)) \/ AddLPush(p) \/ Commit(p))
  PROVE  IInv'
<1>0. loc \in [Procs -> Local] /\ WellFormed(p) /\ RowsOK /\ PoolOK /\ UnlockedAgree
      /\ p # None
  BY TypeParts, KeyPoolAssumption DEF IInv, LocOK
<1>1. ASSUME NEW K \in SUBSET Keys, AddKeys(p, K) PROVE IInv'
  <2>1. /\ ~InTx(p) /\ MayWrite(p, K) /\ "add" \in Ops
        /\ Serial => \A q \in Procs \ {p} : ~InTx(q)
    BY <1>1, AloneWhen DEF AddKeys, Begin, InTx, Idle
  <2>2. Mine(p) = {} /\ \A x \in K : lock[x] = None
    BY <2>1, Locks DEF MayWrite
  <2>3. /\ lock' = [x \in Keys |-> IF x \in K THEN p ELSE lock[x]]
        /\ dirty' = [x \in Keys |-> IF x \in K THEN Fresh ELSE dirty[x]]
        /\ UNCHANGED <<db, hash, listed>>
        /\ \A x \in K : db[x].status = "unborn"
    BY <1>1 DEF AddKeys, WriteRows, pool
  <2>4. /\ loc'[p].op = "add" /\ loc'[p].pc = "loop" /\ loc'[p].todo = K
        /\ \A q \in Procs \ {p} : loc'[q] = loc[q]
    BY <1>0, <1>1 DEF AddKeys, Begin
  <2>5. InTx(p)' /\ WellFormed(p)'
    BY <2>1, <2>4 DEF InTx, WellFormed, Handlers, Restoring, Removing
  <2>6. \A x \in Keys : Untouched(x) \/ Touched(p, x)
    <3>1. \A x \in Keys \ K : Untouched(x)
      BY <2>3 DEF Untouched
    <3>2. \A x \in K : Touched(p, x)
      BY <1>0, <2>2, <2>3 DEF Touched
    <3> QED BY <3>1, <3>2
  <2>8. Mine(p)' = K
    BY <1>0, <2>2, <2>3 DEF Mine
  <2>9. AddTxOK(p)'
    BY <1>0, <2>2, <2>3, <2>4, <2>8 DEF AddTxOK, UnlockedAgree, Agree, ListedOf, Fresh
  <2>10. TxOK(p)'
    BY <2>4, <2>9 DEF TxOK, Handlers, Restoring, Removing
  <2> QED
    BY <2>1, <2>4, <2>5, <2>6, <2>10, StepKeepsIInv
<1>2. ASSUME loc[p].op = "add", (\E x \in Keys : LoopHSet(p, x)) \/ AddLPush(p) PROVE IInv'
  <2>1. /\ InTx(p) /\ loc[p].pc = "loop"
        /\ Serial => \A q \in Procs \ {p} : ~InTx(q)
    BY <1>2, AloneWhen DEF InTx, LoopHSet, AddLPush
  <2>2. AddTxOK(p)
    BY <1>2, <2>1 DEF IInv, TxOK
  <2>3. UNCHANGED rows /\ \A q \in Procs \ {p} : loc'[q] = loc[q]
    BY <1>0, <1>2, LoopMoves DEF LoopHSet, AddLPush, Goto, rows
  <2>4. InTx(p)' /\ WellFormed(p)' /\ loc'[p].op = "add" /\ Mine(p)' = Mine(p)
    <3>1. loc'[p].op = "add" /\ loc'[p].pc \in {"loop", "commit"}
      <4>1. ASSUME NEW x \in Keys, LoopHSet(p, x) PROVE loc'[p].op = "add" /\ loc'[p].pc = "loop"
        BY <1>0, <1>2, <4>1, LoopMoves
      <4>2. CASE AddLPush(p)
        BY <1>0, <1>2, <4>2 DEF AddLPush, Goto
      <4> QED
        BY <1>2, <4>1, <4>2
    <3> QED
      BY <1>0, <1>2, <2>3, <3>1 DEF InTx, WellFormed, Handlers, Restoring, Removing, Mine, rows
  <2>6. \A x \in Keys \ Mine(p) : hash'[x] = hash[x] /\ listed'[x] = listed[x]
    BY <1>0, <1>2, <2>2 DEF LoopHSet, AddLPush, Mine, AddTxOK, PoolOK
  <2>7. \A x \in Keys : Untouched(x) \/ Touched(p, x)
    <3>1. \A x \in Keys \ Mine(p) : Untouched(x)
      BY <2>3, <2>6 DEF Untouched, rows
    <3>2. \A x \in Mine(p) : Touched(p, x)
      BY <2>3, Locks DEF Touched, Mine, rows
    <3> QED BY <3>1, <3>2
  <2>8. AddTxOK(p)'
    <3>1. ASSUME NEW x \in Keys, LoopHSet(p, x) PROVE AddTxOK(p)'
      <4>1. loc'[p].pc = "loop" /\ loc'[p].todo = loc[p].todo \ {x}
        BY <1>0, <1>2, <3>1, LoopMoves
      <4>2. hash' = [hash EXCEPT ![x] = Fresh] /\ listed' = listed
        BY <3>1 DEF LoopHSet
      <4> QED
        BY <1>0, <2>1, <2>2, <2>3, <2>4, <4>1, <4>2 DEF AddTxOK, Fresh, Mine, PoolOK, rows
    <3>2. CASE AddLPush(p)
      BY <1>0, <1>2, <2>1, <2>2, <2>3, <2>4, <3>2
         DEF AddTxOK, AddLPush, Goto, Mine, Written, HashOf, ListedOf, Live, PoolOK, rows
    <3> QED
      BY <1>2, <3>1, <3>2
  <2>9. TxOK(p)'
    BY <2>4, <2>8 DEF TxOK, Handlers, Restoring, Removing
  <2> QED
    BY <2>1, <2>3, <2>4, <2>7, <2>9, StepKeepsIInv
<1>3. ASSUME loc[p].op = "add", Commit(p) PROVE IInv'
  <2>1. loc[p].pc = "commit" /\ InTx(p)
    BY <1>3 DEF InTx, Commit, AtCommit, Restoring, Removing
  <2>2. \A x \in Mine(p) : Written(x) /\ dirty[x].status = "active"
    BY <1>3, <2>1 DEF IInv, TxOK, AddTxOK
  <2> QED
    BY <1>3, <2>1, <2>2, CommitStep
<1> QED
  BY <1>1, <1>2, <1>3

\* The operations that find rows, write them, and go through them in the store.
LEMMA BulkSteps ==
  ASSUME IInv, TypeOK', Orderly, NEW p \in Procs,
         \/ \E K \in SUBSET Keys, o \in Restoring \cup Removing : BulkFind(p, o, K)
         \/ /\ loc[p].op \in Restoring \cup Removing
            /\ \/ BulkWrite(p) \/ HDel(p) \/ LRem(p) \/ LPush(p) \/ Commit(p)
               \/ \E x \in Keys : LoopHSet(p, x) \/ LoopLRem(p, x)
  PROVE  IInv'
<1> DEFINE k == loc[p].key
<1>0. loc \in [Procs -> Local] /\ WellFormed(p) /\ RowsOK /\ PoolOK /\ UnlockedAgree
      /\ p # None
  BY TypeParts, KeyPoolAssumption DEF IInv, LocOK
<1>1. ASSUME NEW K \in SUBSET Keys, NEW o \in Restoring \cup Removing, BulkFind(p, o, K)
      PROVE  IInv'
  <2>1. /\ ~InTx(p) /\ o \in Ops
        /\ Serial => \A q \in Procs \ {p} : ~InTx(q)
    BY <1>1, AloneWhen DEF BulkFind, Begin, InTx, Idle
  <2>2. Mine(p) = {}
    BY <2>1, Locks
  <2>3. UNCHANGED <<db, dirty, lock, hash, listed>>
    BY <1>1 DEF BulkFind, rows, pool
  <2>4. /\ loc'[p].op = o /\ loc'[p].pc = "write" /\ loc'[p].todo = FindWhere(o, K)
        /\ \A q \in Procs \ {p} : loc'[q] = loc[q]
    BY <1>0, <1>1 DEF BulkFind, Begin
  <2>5. InTx(p)' /\ WellFormed(p)'
    BY <2>1, <2>4 DEF InTx, WellFormed, Handlers, Restoring, Removing
  <2>6. \A x \in Keys : Untouched(x)
    BY <2>3 DEF Untouched
  <2>7. BulkTxOK(p)'
    <3>1. Mine(p)' = {}
      BY <2>2, <2>3 DEF Mine
    <3>2. FindWhere(o, FindWhere(o, K)) = FindWhere(o, K)
      BY DEF FindWhere
    <3>3. (loc[p].todo = FindWhere(loc[p].op, loc[p].todo))'
      BY <2>3, <2>4, <3>2 DEF FindWhere
    <3>4. \A x \in FindWhere(o, K) : db[x].status # "unborn"
      BY DEF FindWhere, Live
    <3>5. BulkFound(p)'
      BY <2>3, <2>4, <3>1, <3>3, <3>4 DEF BulkFound
    <3> QED BY <2>4, <3>5 DEF BulkTxOK
  <2>8. TxOK(p)'
    BY <2>4, <2>7 DEF TxOK, Handlers, Restoring, Removing
  <2> QED
    BY <2>1, <2>4, <2>5, <2>6, <2>8, StepKeepsIInv
<1>2. ASSUME loc[p].op \in Restoring \cup Removing, BulkWrite(p) PROVE IInv'
  <2> DEFINE W == WriteWhere(loc[p].op, loc[p].todo)
  <2>1. /\ InTx(p) /\ loc[p].pc = "write" /\ MayWrite(p, W)
        /\ Serial => \A q \in Procs \ {p} : ~InTx(q)
    BY <1>2, AloneWhen DEF InTx, BulkWrite, Restoring, Removing
  <2>2. BulkFound(p) /\ Mine(p) = {}
    BY <1>2, <2>1 DEF IInv, TxOK, BulkTxOK, BulkFound
  <2>3. \A x \in W : lock[x] = None /\ x \in Keys /\ db[x].status \in Live
    BY <2>1 DEF MayWrite, WriteWhere, Live
  <2>4. W \subseteq loc[p].todo /\ \A x \in loc[p].todo \ W : Gone(p, x)
    <3>1. CASE Serial
      BY <1>2, <2>2, <3>1 DEF BulkFound, WriteWhere, FindWhere, Restoring, Removing, Named, Live
    <3>2. CASE ~Serial
      <4>1. loc[p].op = "removeSome" /\ loc[p].todo \subseteq Keys
        BY <1>0, <1>2, <3>2, OperationsAre DEF Local
      <4>2. W = {x \in Keys : db[x].status \in Live /\ x \in loc[p].todo}
        BY <4>1 DEF WriteWhere, Named
      <4>3. \A x \in loc[p].todo : db[x].status \in Live \cup {"deleted"}
        BY <1>0, <2>2, <3>2, <4>1 DEF BulkFound, RowsOK, Row
      <4> HIDE DEF W
      <4> QED BY <4>1, <4>2, <4>3 DEF Gone, Removing
    <3> QED BY <3>1, <3>2
  <2>5. /\ lock' = [x \in Keys |-> IF x \in W THEN p ELSE lock[x]]
        /\ dirty' = [x \in Keys |-> IF x \in W
                       THEN IF loc[p].op \in Restoring
                              THEN Fresh ELSE [db[x] EXCEPT !.status = "deleted"]
                       ELSE dirty[x]]
        /\ UNCHANGED <<db, hash, listed>>
        /\ loc' = [loc EXCEPT ![p].pc = "loop"]
    BY <1>2 DEF BulkWrite, WriteRows, Goto, pool
  <2>6. InTx(p)' /\ WellFormed(p)' /\ \A q \in Procs \ {p} : loc'[q] = loc[q]
    BY <1>0, <1>2, <2>5 DEF InTx, WellFormed, Handlers, Restoring, Removing
  <2> HIDE DEF W
  <2>7. \A x \in Keys : Untouched(x) \/ Touched(p, x)
    <3>1. \A x \in Keys \ W : Untouched(x)
      BY <2>5 DEF Untouched
    <3>2. \A x \in W : Touched(p, x)
      BY <1>0, <2>3, <2>5 DEF Touched, Live
    <3> QED BY <3>1, <3>2
  <2>8. \A x \in loc[p].todo : x \in W \/ Gone(p, x)'
    BY <1>0, <2>4, <2>5 DEF Gone
  <2>9. Mine(p)' = W
    BY <1>0, <2>2, <2>3, <2>5 DEF Mine
  <2>10. \A x \in W : dirty'[x].status = IF loc[p].op \in Restoring THEN "active" ELSE "deleted"
    BY <1>0, <2>3, <2>5 DEF Fresh, RowsOK, Row
  <2>11. loc'[p].op = loc[p].op /\ loc'[p].pc = "loop" /\ loc'[p].todo = loc[p].todo
    BY <1>0, <2>5
  <2>12. BulkTxOK(p)'
    BY <2>4, <2>8, <2>9, <2>10, <2>11 DEF BulkTxOK, Current
  <2>13. TxOK(p)'
    BY <1>2, <2>11, <2>12 DEF TxOK, Handlers, Restoring, Removing
  <2> QED
    BY <2>1, <2>5, <2>6, <2>7, <2>13, StepKeepsIInv
<1>3. ASSUME loc[p].op \in Restoring \cup Removing,
             \/ HDel(p) \/ LRem(p) \/ LPush(p)
             \/ \E x \in Keys : LoopHSet(p, x) \/ LoopLRem(p, x)
      PROVE  IInv'
  <2>1. InTx(p) /\ (Serial => \A q \in Procs \ {p} : ~InTx(q))
    BY <1>3, AloneWhen DEF InTx, HDel, LRem, LPush, LoopHSet, LoopLRem, Restoring, Removing
  <2>2. BulkTxOK(p) /\ loc[p].pc # "write"
    BY <1>3, <2>1 DEF IInv, TxOK, HDel, LRem, LPush, LoopHSet, LoopLRem
  <2>3. UNCHANGED rows /\ \A q \in Procs \ {p} : loc'[q] = loc[q]
    BY <1>0, <1>3, LoopMoves DEF HDel, LRem, LPush, LoopHSet, LoopLRem, Goto, rows
  <2>4. /\ loc'[p].op = loc[p].op
        /\ loc'[p].pc \in IF loc[p].op \in Restoring
                            THEN {"loop", "lrem", "lpush"} ELSE {"loop", "hdel"}
    <3>1. CASE HDel(p)
      BY <1>0, <3>1 DEF HDel, Goto
    <3>2. CASE LRem(p)
      BY <1>0, <1>3, <3>2 DEF LRem, Goto, Restoring, Removing, WellFormed
    <3>3. CASE LPush(p)
      BY <1>0, <1>3, <3>3 DEF LPush, Goto, Restoring, Removing, WellFormed
    <3>4. ASSUME NEW x \in Keys, LoopHSet(p, x) \/ LoopLRem(p, x)
          PROVE  /\ loc'[p].op = loc[p].op
                 /\ loc'[p].pc \in IF loc[p].op \in Restoring
                                     THEN {"loop", "lrem", "lpush"} ELSE {"loop", "hdel"}
      BY <1>0, <1>3, <3>4, LoopMoves DEF LoopHSet, LoopLRem, Restoring, Removing
    <3> QED
      BY <1>3, <3>1, <3>2, <3>3, <3>4
  <2>5. InTx(p)' /\ WellFormed(p)' /\ Mine(p)' = Mine(p)
    BY <1>0, <1>3, <2>3, <2>4 DEF InTx, WellFormed, Handlers, Restoring, Removing, Mine, rows
  <2>6. \A x \in Keys : Gone(p, x)' <=> Gone(p, x)
    BY <2>3, <2>4 DEF Gone, rows
  <2>7. \A x \in Mine(p) : Touched(p, x)
    BY <2>3, Locks DEF Touched, Mine, rows
  <2>8. \A x \in Keys : Untouched(x) \/ Touched(p, x)
    <3> SUFFICES ASSUME NEW x \in Keys, x \notin Mine(p)
                 PROVE  Untouched(x) \/ Touched(p, x)
      BY <2>7
    <3>1. CASE hash'[x] = hash[x] /\ listed'[x] = listed[x]
      BY <2>3, <3>1 DEF Untouched, rows
    <3>2. CASE ~(hash'[x] = hash[x] /\ listed'[x] = listed[x])
      <4>1. Gone(p, x) /\ (LoopLRem(p, x) \/ (HDel(p) /\ x = k))
        <5>1. x \in loc[p].todo \/ x \in Current(p)
          BY <1>0, <1>3, <3>2 DEF HDel, LRem, LPush, LoopHSet, LoopLRem, PoolOK, Current
        <5>2. Gone(p, x) /\ loc[p].op \in Removing
          BY <2>2, <5>1 DEF BulkTxOK, Gone
        <5> QED BY <1>0, <1>3, <3>2, <5>2 DEF HDel, LRem, LPush, LoopHSet, LoopLRem, PoolOK, WellFormed,
                  Restoring, Removing
      <4>2. lock[x] = None /\ dirty[x] = db[x] /\ Agree(x) /\ db[x].status = "deleted"
        BY <1>0, <4>1, Locks DEF Gone, UnlockedAgree
      <4>3. hash[x].status = "none" /\ listed[x] = 0
        BY <4>2 DEF Agree, HashOf, ListedOf, NoHash, Live
      <4>4. hash'[x].status = "none" /\ listed'[x] = 0
        <5>1. CASE LoopLRem(p, x)
          BY <1>0, <4>3, <5>1 DEF LoopLRem, PoolOK
        <5>2. CASE HDel(p) /\ x = k
          BY <1>0, <4>3, <5>2 DEF HDel, NoHash, PoolOK
        <5> QED BY <4>1, <5>1, <5>2
      <4>5. Agree(x)'
        BY <2>3, <4>2, <4>4 DEF Agree, HashOf, ListedOf, NoHash, Live, rows
      <4> QED BY <2>3, <4>2, <4>5 DEF Touched, rows
    <3> QED BY <3>1, <3>2
  <2>9. BulkTxOK(p)'
    <3> DEFINE todo == loc[p].todo
    <3>0. todo \subseteq Keys
      BY <1>0 DEF Local
    <3>1. ASSUME loc'[p].todo \cup Current(p)' \subseteq todo \cup Current(p),
                 loc'[p].todo \cap Current(p)' = {},
                 \A y \in Mine(p) \ (loc'[p].todo \cup Current(p)') : Written(y)',
                 \A y \in Current(p)' \cap Mine(p) :
                   /\ loc'[p].pc \in {"lrem", "lpush"} => hash'[y].status = "active"
                   /\ loc'[p].pc \in {"lpush", "hdel"} => listed'[y] = 0
          PROVE  BulkTxOK(p)'
      <4>1. \A y \in todo \cup Current(p) : y \in Mine(p) \/ Gone(p, y)'
        BY <2>2, <2>3, <2>4 DEF BulkTxOK, Gone, rows
      <4>2. \A y \in Mine(p) :
              dirty'[y].status = IF loc'[p].op \in Restoring THEN "active" ELSE "deleted"
        BY <2>2, <2>3, <2>4 DEF BulkTxOK, rows
      <4> QED
        BY <2>4, <2>5, <3>1, <4>1, <4>2 DEF BulkTxOK
    <3>2. ASSUME NEW x \in Keys, hash' = [hash EXCEPT ![x] = hash'[x]],
                 listed' = [listed EXCEPT ![x] = listed'[x]]
          PROVE  \A y \in Keys \ {x} : Written(y)' <=> Written(y)
      BY <1>0, <2>3, <3>2 DEF Written, HashOf, ListedOf, PoolOK, rows
    <3>3. ASSUME NEW x \in Keys, LoopHSet(p, x) PROVE BulkTxOK(p)'
      <4>1. /\ loc[p].pc = "loop" /\ x \in todo
            /\ loc'[p].pc = "lrem" /\ loc'[p].key = x /\ loc'[p].todo = todo \ {x}
            /\ hash' = [hash EXCEPT ![x] = Fresh] /\ listed' = listed
        BY <1>0, <1>3, <3>3, LoopMoves DEF LoopHSet, Restoring, Removing
      <4>2. \A y \in Keys \ {x} : Written(y)' <=> Written(y)
        BY <1>0, <3>2, <4>1 DEF PoolOK
      <4>3. Current(p) = {} /\ Current(p)' = {x}
        BY <4>1 DEF Current
      <4>4. \A y \in Mine(p) \ todo : Written(y)'
        BY <2>2, <4>1, <4>2, <4>3 DEF BulkTxOK, Mine
      <4>5. hash'[x].status = "active"
        BY <1>0, <4>1 DEF PoolOK, Fresh
      <4> HIDE DEF todo
      <4> QED BY <3>1, <4>1, <4>3, <4>4, <4>5
    <3>4. ASSUME NEW x \in Keys, LoopLRem(p, x) PROVE BulkTxOK(p)'
      <4>1. /\ loc[p].pc = "loop" /\ x \in todo
            /\ loc'[p].pc = "hdel" /\ loc'[p].key = x /\ loc'[p].todo = todo \ {x}
            /\ listed' = [listed EXCEPT ![x] = 0] /\ hash' = hash
        BY <1>0, <1>3, <3>4, LoopMoves DEF LoopLRem
      <4>2. \A y \in Keys \ {x} : Written(y)' <=> Written(y)
        BY <1>0, <3>2, <4>1 DEF PoolOK
      <4>3. Current(p) = {} /\ Current(p)' = {x}
        BY <4>1 DEF Current
      <4>4. \A y \in Mine(p) \ todo : Written(y)'
        BY <2>2, <4>1, <4>2, <4>3 DEF BulkTxOK, Mine
      <4>5. listed'[x] = 0
        BY <1>0, <4>1 DEF PoolOK
      <4> HIDE DEF todo
      <4> QED BY <3>1, <4>1, <4>3, <4>4, <4>5
    <3>5. CASE LRem(p) \/ LPush(p) \/ HDel(p)
      <4>1. /\ Current(p) = {k} /\ k \in Keys /\ k \notin todo
            /\ loc'[p].key = k /\ loc'[p].todo = todo
        <5>1. loc[p].pc \in {"lrem", "lpush", "hdel"}
          BY <3>5 DEF LRem, LPush, HDel
        <5>2. Current(p) = {k} /\ k \in Keys
          BY <5>1 DEF Current, IInv, TypeOK, AtKey
        <5>3. k \notin todo
          BY <2>2, <5>2 DEF BulkTxOK
        <5>4. \E pc \in PCs : Goto(p, pc)
          BY <3>5 DEF LRem, LPush, HDel, PCs
        <5> QED BY <1>0, <5>2, <5>3, <5>4 DEF Goto
      <4>2. k \in Mine(p) \/ Gone(p, k)
        BY <2>2, <4>1 DEF BulkTxOK
      <4>3. ASSUME LRem(p) PROVE BulkTxOK(p)'
        <5>1. /\ loc[p].pc = "lrem" /\ loc'[p].pc = "lpush"
              /\ listed' = [listed EXCEPT ![k] = 0] /\ hash' = hash
          BY <1>0, <1>3, <4>3 DEF LRem, Goto, WellFormed, Restoring, Removing
        <5>2. \A y \in Keys \ {k} : Written(y)' <=> Written(y)
          BY <1>0, <3>2, <4>1, <5>1 DEF PoolOK
        <5>3. Current(p)' = {k}
          BY <4>1, <5>1 DEF Current
        <5>4. \A y \in Mine(p) \ (todo \cup {k}) : Written(y)'
          BY <2>2, <4>1, <5>1, <5>2 DEF BulkTxOK, Mine
        <5>5. k \in Mine(p) => (hash'[k].status = "active" /\ listed'[k] = 0)
          BY <1>0, <2>2, <4>1, <5>1 DEF BulkTxOK, PoolOK
        <5> HIDE DEF todo, k
        <5> QED BY <3>1, <4>1, <5>1, <5>3, <5>4, <5>5
      <4>4. ASSUME LPush(p) PROVE BulkTxOK(p)'
        <5>1. /\ loc[p].pc = "lpush" /\ loc[p].op \in Restoring /\ loc'[p].pc = "loop"
              /\ listed' = [listed EXCEPT ![k] = @ + 1] /\ hash' = hash
          BY <1>0, <1>3, <4>4 DEF LPush, Goto, WellFormed, Restoring, Removing
        <5>2. \A y \in Keys \ {k} : Written(y)' <=> Written(y)
          BY <1>0, <3>2, <4>1, <5>1 DEF PoolOK
        <5>3. Current(p)' = {}
          BY <5>1 DEF Current
        <5>4. \A y \in Mine(p) \ (todo \cup {k}) : Written(y)'
          BY <2>2, <4>1, <5>1, <5>2 DEF BulkTxOK, Mine
        <5>5. ASSUME NEW y \in {k} \cap Mine(p) PROVE Written(y)'
          <6>2. dirty[y].status = "active" /\ hash[y].status = "active" /\ listed[y] = 0
            BY <2>2, <4>1, <5>1 DEF BulkTxOK
          <6>3. dirty'[y] = dirty[y] /\ hash'[y] = hash[y] /\ listed'[y] = 1
            BY <1>0, <2>3, <4>1, <5>1, <6>2 DEF PoolOK, rows
          <6> QED BY <6>2, <6>3 DEF Written, HashOf, ListedOf, Live
        <5> HIDE DEF todo, k
        <5> QED BY <3>1, <4>1, <5>1, <5>3, <5>4, <5>5
      <4>5. ASSUME HDel(p) PROVE BulkTxOK(p)'
        <5>1. /\ loc[p].pc = "hdel" /\ loc[p].op \notin Restoring /\ loc'[p].pc = "loop"
              /\ hash' = [hash EXCEPT ![k] = NoHash] /\ listed' = listed
          BY <1>0, <1>3, <4>5 DEF HDel, Goto, WellFormed, Restoring, Removing
        <5>2. \A y \in Keys \ {k} : Written(y)' <=> Written(y)
          BY <1>0, <3>2, <4>1, <5>1 DEF PoolOK
        <5>3. Current(p)' = {}
          BY <5>1 DEF Current
        <5>4. \A y \in Mine(p) \ (todo \cup {k}) : Written(y)'
          BY <2>2, <4>1, <5>1, <5>2 DEF BulkTxOK, Mine
        <5>5. ASSUME NEW y \in {k} \cap Mine(p) PROVE Written(y)'
          <6>2. dirty[y].status = "deleted" /\ listed[y] = 0
            BY <2>2, <4>1, <5>1 DEF BulkTxOK
          <6>3. dirty'[y] = dirty[y] /\ hash'[y] = NoHash /\ listed'[y] = 0
            BY <1>0, <2>3, <4>1, <5>1, <6>2 DEF PoolOK, rows
          <6> QED BY <6>2, <6>3 DEF Written, HashOf, ListedOf, Live, NoHash
        <5> HIDE DEF todo, k
        <5> QED BY <3>1, <4>1, <5>1, <5>3, <5>4, <5>5
      <4> QED BY <3>5, <4>3, <4>4, <4>5
    <3> QED
      BY <1>3, <3>3, <3>4, <3>5
  <2>10. TxOK(p)'
    BY <1>3, <2>4, <2>9 DEF TxOK, Handlers, Restoring, Removing
  <2> QED
    BY <2>1, <2>3, <2>5, <2>8, <2>10, StepKeepsIInv
<1>4. ASSUME loc[p].op \in Restoring \cup Removing, Commit(p) PROVE IInv'
  <2>1. loc[p].pc = "loop" /\ loc[p].todo = {} /\ InTx(p)
    BY <1>0, <1>4 DEF InTx, Commit, AtCommit, WellFormed, Restoring, Removing
  <2>2. \A x \in Mine(p) : Written(x) /\ dirty[x].status \in {"active", "deleted"}
    BY <1>4, <2>1 DEF IInv, TxOK, BulkTxOK, Current
  <2> QED
    BY <1>4, <2>1, <2>2, CommitStep
<1> QED
  BY <1>1, <1>2, <1>3, <1>4

\* Statements and crashes that nobody's transaction is open at or after.
LEMMA StepsOutside ==
  ASSUME IInv, TypeOK', Orderly, (\E K \in SUBSET Keys : ClearStats(K)) \/ Restart
  PROVE  IInv'
<1>0. loc \in [Procs -> Local] /\ RowsOK /\ PoolOK /\ UnlockedAgree
  BY TypeParts DEF IInv, LocOK
<1>1. ASSUME NEW K \in SUBSET Keys, ClearStats(K) PROVE IInv'
  <2>1. /\ Serial => \A p \in Procs : ~InTx(p)
        /\ loc' = loc /\ UNCHANGED <<lock, hash, listed>>
    BY <1>1 DEF ClearStats, pool
  <2>2. ASSUME NEW x \in Keys
        PROVE  db'[x].status = db[x].status /\ (Untouched(x) \/ Touched(None, x))
    <3>1. CASE x \notin K
      BY <1>1, <2>1, <3>1 DEF ClearStats, Untouched
    <3>2. CASE x \in K
      <4>1. lock[x] = None /\ dirty[x] = db[x] /\ Agree(x) /\ db[x].status \in Live
        BY <1>0, <1>1, <3>2 DEF UnlockedAgree, ClearStats
      <4>2. db'[x] = [db[x] EXCEPT !.fails = 0] /\ dirty'[x] = db'[x]
        BY <1>1, <3>2 DEF ClearStats
      <4>3. db'[x].status = db[x].status
        BY <1>0, <4>2 DEF RowsOK, Row
      <4>4. Agree(x)'
        BY <2>1, <4>1, <4>3 DEF Agree, HashOf, ListedOf
      <4> QED BY <2>1, <4>1, <4>2, <4>3, <4>4 DEF Touched
    <3> QED BY <3>1, <3>2
  <2>3. \A p \in Procs : (InTx(p)' <=> InTx(p)) /\ (WellFormed(p)' <=> WellFormed(p))
    BY <2>1 DEF InTx, WellFormed
  <2>4. ASSUME NEW p \in Procs, InTx(p)' PROVE TxOK(p)'
    <3>1. InTx(p) /\ TxOK(p) /\ loc'[p] = loc[p] /\ ~Serial /\ None # p
      BY <2>1, <2>3, <2>4, KeyPoolAssumption DEF IInv
    <3> QED BY <2>2, <3>1, TxStays
  <2>5. UnlockedAgree'
    <3> SUFFICES ASSUME NEW x \in Keys, lock'[x] = None PROVE dirty'[x] = db'[x] /\ Agree(x)'
      BY DEF UnlockedAgree
    <3>1. lock[x] = None /\ dirty[x] = db[x] /\ Agree(x)
      BY <1>0, <2>1 DEF UnlockedAgree
    <3>2. Untouched(x) \/ Touched(None, x)
      BY <2>2
    <3> QED BY <3>1, <3>2 DEF Untouched, Touched, Agree, HashOf, ListedOf
  <2>6. LocksInTx'
    <3> SUFFICES ASSUME NEW x \in Keys, lock'[x] # None
                 PROVE  (InTx(lock[x]) /\ db[x].status # "deleted")'
      BY DEF LocksInTx
    <3>1. InTx(lock[x]) /\ db[x].status # "deleted" /\ lock'[x] = lock[x]
      BY <2>1 DEF IInv, LocksInTx
    <3>2. PICK p \in Procs : lock[x] = p
      BY <1>0, <2>1 DEF RowsOK
    <3>3. InTx(p)' /\ lock'[x] = p /\ db'[x].status # "deleted"
      BY <2>2, <2>3, <3>1, <3>2
    <3> QED BY <3>3
  <2>7. Serial => OneTx'
    BY <2>1, <2>3 DEF OneTx
  <2> QED
    BY <2>3, <2>4, <2>5, <2>6, <2>7 DEF IInv
<1>2. CASE Restart
  <2>1. /\ db' = db /\ dirty' = db
        /\ \A x \in Keys : /\ lock'[x] = None
                           /\ hash'[x] = HashOf(db[x])
                           /\ listed'[x] = ListedOf(db[x])
        /\ \A p \in Procs : loc'[p] = Idle
    BY <1>2 DEF Restart
  <2>2. \A p \in Procs : ~InTx(p)' /\ WellFormed(p)'
    BY <2>1 DEF InTx, WellFormed, Idle, Handlers, Restoring, Removing
  <2>3. UnlockedAgree'
    BY <2>1 DEF UnlockedAgree, Agree, HashOf, ListedOf
  <2> QED
    BY <2>1, <2>2, <2>3 DEF IInv, OneTx, LocksInTx
<1> QED
  BY <1>1, <1>2

\* At the start every row is committed and in the store.
LEMMA InitIInv ==
  ASSUME Init PROVE IInv
<1>1. TypeOK
  BY InitTypeOK
<1>2. \A p \in Procs : ~InTx(p) /\ WellFormed(p)
  BY DEF Init, InTx, WellFormed, Idle, Handlers, Restoring, Removing
<1>3. UnlockedAgree
  BY DEF Init, UnlockedAgree, Agree
<1> QED
  BY <1>1, <1>2, <1>3 DEF IInv, OneTx, LocksInTx, Init

\* Every step is one of those above; no call fails, nothing is disabled.
LEMMA IInvInductive ==
  ASSUME IInv, Orderly, [Next]_vars
  PROVE  IInv'
<1>0. TypeOK /\ TypeOK'
  BY TypeInductive DEF IInv
<1>1. CASE UNCHANGED vars
  BY <1>1 DEF vars, IInv, TypeOK, OneTx, LocksInTx, UnlockedAgree, Agree, HashOf, ListedOf,
         InTx, WellFormed, TxOK, HandlerTxOK, AddTxOK, BulkTxOK, BulkFound, FindWhere, Mine,
         Current, Gone, Written, WasActive, Blacklists
<1>2. ASSUME NEW p \in Procs, Call(p) PROVE IInv'
  <2>1. ~ \E k \in Keys : DisableRead(p, k)
    BY DEF Orderly, ByName, DisableRead, Begin
  <2> QED
    BY <1>0, <1>2, <2>1, ReadingSteps, AddSteps, BulkSteps DEF Call
<1>3. ASSUME NEW p \in Procs, Step(p) PROVE IInv'
  <2>1. WellFormed(p) /\ loc[p] \in Local
    BY DEF IInv, TypeOK
  <2>2. ~DisableUpdate(p)
    BY <2>1 DEF DisableUpdate, WellFormed
  <2>3. /\ LRem(p) \/ LPush(p) \/ Block(p) =>
             loc[p].op \in Handlers \cup Restoring \cup Removing
        /\ BulkWrite(p) \/ HDel(p) => loc[p].op \in Restoring \cup Removing
        /\ AddLPush(p) => loc[p].op = "add"
        /\ Commit(p) => loc[p].op \in Handlers \cup Restoring \cup Removing \cup {"add"}
    BY <2>1 DEF LRem, LPush, Block, BulkWrite, HDel, AddLPush, Commit, AtCommit, WellFormed,
           Local, AllOps, Idle, Handlers, Restoring, Removing
  <2>4. /\ Block(p) => loc[p].op \in Handlers
        /\ \A x \in Keys : LoopHSet(p, x) => loc[p].op \in Restoring \cup {"add"}
        /\ \A x \in Keys : LoopLRem(p, x) => loc[p].op \in Removing
    BY <2>1, <2>3 DEF Block, LoopHSet, LoopLRem, WellFormed
  <2>5. CASE \/ HandlerTx(p) \/ SuccessHSet(p) \/ FailureHIncr(p)
             \/ loc[p].op \in Handlers /\ (LRem(p) \/ LPush(p) \/ Block(p) \/ Commit(p))
    BY <1>0, <2>5, HandlerSteps
  <2>6. CASE loc[p].op = "add" /\ ((\E x \in Keys : LoopHSet(p, x)) \/ AddLPush(p) \/ Commit(p))
    BY <1>0, <2>6, AddSteps
  <2>7. CASE /\ loc[p].op \in Restoring \cup Removing
             /\ \/ BulkWrite(p) \/ HDel(p) \/ LRem(p) \/ LPush(p) \/ Commit(p)
                \/ \E x \in Keys : LoopHSet(p, x) \/ LoopLRem(p, x)
    BY <1>0, <2>7, BulkSteps
  <2>8. CASE HandlerRowGone(p) \/ Refused(p) \/ SelectRead(p) \/ SelectReturn(p)
    BY <1>0, <2>8, ReadingSteps
  <2> QED
    BY <1>3, <2>2, <2>3, <2>4, <2>5, <2>6, <2>7, <2>8 DEF Step
<1>4. ASSUME NEW p \in Procs, Fault(p) PROVE FALSE
  BY <1>4 DEF Fault, CommitFails, RemoveLRemFails, DisableCallFails, TxCallFails, Orderly
<1>5. CASE (\E K \in SUBSET Keys : ClearStats(K)) \/ Restart
  BY <1>0, <1>5, StepsOutside
<1> QED
  BY <1>1, <1>2, <1>3, <1>4, <1>5 DEF Next

(***************************************************************************)
(* Every row that no transaction is writing agrees with the store, for any *)
(* number of keys and goroutines and any threshold, when no call fails: on *)
(* SQLite while DisableKey is not called, with row locks for the           *)
(* operations of ByName.  (The store calls inside the transactions of      *)
(* provider.go.)                                                           *)
(***************************************************************************)
THEOREM PoolStaysInSync ==
  ASSUME Orderly
  PROVE  Spec => []PoolInSync
<1>1. Init => IInv
  BY InitIInv
<1>2. IInv /\ [Next]_vars => IInv'
  BY IInvInductive
<1>3. IInv => PoolInSync
  BY DEF IInv, UnlockedAgree, PoolInSync
<1> QED
  BY <1>1, <1>2, <1>3, PTL DEF Spec

(***************************************************************************)
(* Where goroutines are, and the locks they hold, with every fault, every  *)
(* operation and either database: what the next two theorems rest on.      *)
(***************************************************************************)

(***************************************************************************)
(* Where goroutines are, and the locks they hold, with every fault, every  *)
(* operation and either database: what the next two theorems rest on.      *)
(***************************************************************************)
InHandler(p) == loc[p].op \in Handlers /\ loc[p].pc \notin {"idle", "tx"}

Holds == \A p \in Procs : InHandler(p) => lock[loc[p].key] = p

Place(r) ==
  /\ r.op \in Ops \cup {"idle"}
  /\ r.pc = "tx"    => r.op \in Handlers \cup {"disable"}
  /\ r.pc = "write" => r.op \in Restoring \cup Removing
  /\ r.pc = "hset"  => r.op = "success"
  /\ r.pc = "hincr" => r.op \in {"failure", "forced"}
  /\ r.pc = "lrem"  => r.op \in Handlers \cup Restoring \cup {"disable"}
  /\ r.pc = "lpush" => r.op \in Restoring \cup {"success"}
  /\ r.pc = "block" => r.op \in {"failure", "forced", "disable"}

Base ==
  /\ TypeOK
  /\ Holds
  /\ \A p \in Procs : Place(loc[p])
  /\ Serial => OneTx

LEMMA IdlePlace == Place(Idle) /\ Idle.pc = "idle" /\ Idle.op = "idle"
BY DEF Place, Idle

\* No other goroutine loses a lock.
LocksKept(p) == \A k \in Keys, q \in Procs \ {p} : lock[k] = q => lock'[k] = q

LEMMA MoveKeepsBase ==
  ASSUME Base, TypeOK', NEW p \in Procs, \A q \in Procs \ {p} : loc'[q] = loc[q],
         Place(loc'[p]), LocksKept(p), InHandler(p)' => lock'[loc'[p].key] = p,
         Serial /\ InTx(p)' /\ ~InTx(p) => \A q \in Procs \ {p} : ~InTx(q)
  PROVE  Base'
<1>1. Holds'
  <2> SUFFICES ASSUME NEW q \in Procs, InHandler(q)' PROVE lock'[loc'[q].key] = q
    BY DEF Holds
  <2>1. CASE q = p
    BY <2>1
  <2>2. CASE q # p
    <3>1. loc'[q] = loc[q] /\ InHandler(q)
      BY <2>2 DEF InHandler
    <3>2. lock[loc[q].key] = q /\ loc[q].key \in Keys
      BY <3>1 DEF Base, Holds, TypeOK, InHandler
    <3> QED BY <2>2, <3>1, <3>2 DEF LocksKept
  <2> QED BY <2>1, <2>2
<1>2. \A q \in Procs : Place(loc'[q])
  BY DEF Base
<1>3. Serial => OneTx'
  <2> SUFFICES ASSUME Serial, NEW q \in Procs, NEW r \in Procs, InTx(q)', InTx(r)' PROVE q = r
    BY DEF OneTx
  <2>1. \A x \in Procs \ {p} : InTx(x)' <=> InTx(x)
    BY DEF InTx
  <2>2. OneTx
    BY DEF Base
  <2> QED BY <2>1, <2>2 DEF OneTx
<1> QED BY <1>1, <1>2, <1>3 DEF Base

LEMMA LockMoves ==
  ASSUME TypeOK, NEW p \in Procs
  PROVE  /\ UNCHANGED lock => LocksKept(p)
         /\ lock' = Unlocked(p) => LocksKept(p)
         /\ Rollback(p) => LocksKept(p)
         /\ \A new : WriteRows(p, new) /\ MayWrite(p, DOMAIN new) => LocksKept(p)
<1>0. lock \in [Keys -> Procs \cup {None}] /\ None \notin Procs
  BY KeyPoolAssumption DEF TypeOK
<1>1. UNCHANGED lock => LocksKept(p)
  BY DEF LocksKept
<1>2. lock' = Unlocked(p) => LocksKept(p)
  BY <1>0 DEF LocksKept, Unlocked
<1>3. Rollback(p) => LocksKept(p)
  BY <1>2 DEF Rollback
<1>4. ASSUME NEW new, WriteRows(p, new), MayWrite(p, DOMAIN new) PROVE LocksKept(p)
  BY <1>0, <1>4 DEF LocksKept, WriteRows, MayWrite
<1> QED BY <1>1, <1>2, <1>3, <1>4

\* A goroutine that ends, or goes on to another place of its operation.
LEMMA EndKeepsBase ==
  ASSUME Base, TypeOK', NEW p \in Procs, End(p), LocksKept(p)
  PROVE  Base'
<1>1. loc'[p] = Idle /\ \A q \in Procs \ {p} : loc'[q] = loc[q]
  BY DEF End, Base, TypeOK
<1>2. Place(loc'[p]) /\ ~InHandler(p)' /\ ~InTx(p)'
  BY <1>1, IdlePlace DEF InHandler, InTx
<1> QED BY <1>1, <1>2, MoveKeepsBase

LEMMA GotoKeepsBase ==
  ASSUME Base, TypeOK', NEW p \in Procs, NEW pc, Goto(p, pc),
         loc[p].pc \notin {"idle", "tx"}, pc \notin {"tx", "write", "hset", "hincr"},
         pc = "lrem"  => loc[p].op \in Handlers \cup Restoring \cup {"disable"},
         pc = "lpush" => loc[p].op \in Restoring \cup {"success"},
         pc = "block" => loc[p].op \in {"failure", "forced", "disable"},
         UNCHANGED lock
  PROVE  Base'
<1>0. Place(loc[p]) /\ loc[p] \in Local /\ Holds
  BY DEF Base, TypeOK
<1>1. loc'[p] = [loc[p] EXCEPT !.pc = pc] /\ \A q \in Procs \ {p} : loc'[q] = loc[q]
  BY DEF Goto, Base, TypeOK
<1>2. loc'[p].op = loc[p].op /\ loc'[p].pc = pc /\ loc'[p].key = loc[p].key
  BY <1>0, <1>1 DEF Local
<1>3. Place(loc'[p])
  BY <1>0, <1>2 DEF Place
<1>4. InHandler(p)' => InHandler(p)
  BY <1>2 DEF InHandler
<1>5. InHandler(p)' => lock'[loc'[p].key] = p
  BY <1>0, <1>2, <1>4 DEF Holds
<1>6. InTx(p)' => InTx(p)
  BY <1>2 DEF InTx
<1>7. LocksKept(p)
  BY LockMoves DEF Base
<1> QED BY <1>1, <1>3, <1>5, <1>6, <1>7, MoveKeepsBase

LEMMA AgainKeepsBase ==
  ASSUME Base, TypeOK', NEW p \in Procs, Again(p), MayRetry(p), LocksKept(p)
  PROVE  Base'
<1>0. Place(loc[p]) /\ loc[p] \in Local
  BY DEF Base, TypeOK
<1>1. loc'[p] = [loc[p] EXCEPT !.tries = @ + 1, !.pc = "tx"] /\ \A q \in Procs \ {p} : loc'[q] = loc[q]
  BY DEF Again, Base, TypeOK
<1>2. loc'[p].op = loc[p].op /\ loc'[p].pc = "tx" /\ loc[p].op \in Handlers
  BY <1>0, <1>1 DEF Local, MayRetry
<1>3. Place(loc'[p]) /\ ~InHandler(p)' /\ ~InTx(p)'
  BY <1>0, <1>2 DEF Place, InHandler, InTx
<1> QED BY <1>1, <1>3, MoveKeepsBase

LEMMA BeginKeepsBase ==
  ASSUME Base, TypeOK', NEW p \in Procs, NEW o, NEW pc, NEW k, NEW todo, Begin(p, o, pc, k, todo),
         LocksKept(p), pc \in {"tx", "write", "loop", "read"},
         pc = "tx" => o \in Handlers \cup {"disable"},
         pc = "write" => o \in Restoring \cup Removing,
         pc # "tx" => o \notin Handlers,
         (pc = "tx" \/ o = "select") \/ MayWrite(p, {}) \/ \E K : MayWrite(p, K)
  PROVE  Base'
<1>1. o \in Ops /\ \A q \in Procs \ {p} : loc'[q] = loc[q]
  BY DEF Begin, Base, TypeOK
<1>2. loc'[p].op = o /\ loc'[p].pc = pc /\ loc'[p].key = k
  BY DEF Begin, Base, TypeOK
<1>3. Place(loc'[p]) /\ ~InHandler(p)'
  BY <1>1, <1>2 DEF Place, InHandler
<1>4. Serial /\ InTx(p)' => \A q \in Procs \ {p} : ~InTx(q)
  BY <1>2 DEF InTx, MayWrite
<1> QED BY <1>1, <1>3, <1>4, MoveKeepsBase

LEMMA CallKeepsBase ==
  ASSUME Base, TypeOK', NEW p \in Procs, Call(p)
  PROVE  Base'
<1>0. TypeOK
  BY DEF Base
<1>1. ASSUME NEW k \in Keys, SuccessRead(p, k) PROVE Base'
  <2>1. Begin(p, "success", "tx", k, {}) /\ LocksKept(p)
    BY <1>0, <1>1, LockMoves DEF SuccessRead, rows
  <2> QED BY <2>1, BeginKeepsBase DEF Handlers
<1>2. ASSUME NEW k \in Keys, NEW o \in {"failure", "forced"}, FailureRead(p, k, o) PROVE Base'
  <2>1. Begin(p, o, "tx", k, {}) /\ LocksKept(p)
    BY <1>0, <1>2, LockMoves DEF FailureRead, rows
  <2> QED BY <2>1, BeginKeepsBase DEF Handlers
<1>3. ASSUME NEW K \in SUBSET Keys, AddKeys(p, K) PROVE Base'
  <2>1. Begin(p, "add", "loop", None, K) /\ MayWrite(p, K)
    BY <1>3 DEF AddKeys
  <2>2. LocksKept(p)
    BY <1>0, <1>3, LockMoves DEF AddKeys
  <2> QED BY <2>1, <2>2, BeginKeepsBase DEF Handlers
<1>4. ASSUME NEW K \in SUBSET Keys, NEW o \in Restoring \cup Removing, BulkFind(p, o, K) PROVE Base'
  <2>1. Begin(p, o, "write", None, FindWhere(o, K)) /\ MayWrite(p, {}) /\ LocksKept(p)
    BY <1>0, <1>4, LockMoves DEF BulkFind, rows
  <2>2. o \notin Handlers
    BY DEF Handlers, Restoring, Removing
  <2> QED BY <2>1, <2>2, BeginKeepsBase
<1>5. ASSUME NEW k \in Keys, DisableRead(p, k) PROVE Base'
  <2>1. Begin(p, "disable", "tx", k, {}) /\ LocksKept(p)
    BY <1>0, <1>5, LockMoves DEF DisableRead, rows
  <2> QED BY <2>1, BeginKeepsBase
<1>6. ASSUME NEW k \in Keys, SelectRotate(p, k) PROVE Base'
  <2>1. Begin(p, "select", "read", k, {}) /\ LocksKept(p)
    BY <1>0, <1>6, LockMoves DEF SelectRotate, rows
  <2> QED BY <2>1, BeginKeepsBase DEF Handlers
<1> QED BY <1>1, <1>2, <1>3, <1>4, <1>5, <1>6 DEF Call

LEMMA HandlerTxKeepsBase ==
  ASSUME Base, TypeOK', NEW p \in Procs, HandlerTx(p)
  PROVE  Base'
<1> DEFINE k == loc[p].key
<1>0. TypeOK /\ Place(loc[p]) /\ loc[p] \in Local /\ k \in Keys
  BY DEF Base, TypeOK, HandlerTx
<1>1. /\ loc[p].op \in Handlers /\ MayWrite(p, {k})
      /\ \E r : WriteRows(p, [x \in {k} |-> r])
      /\ Goto(p, IF loc[p].op = "success" THEN "hset" ELSE "hincr")
  BY DEF HandlerTx
<1>2. LocksKept(p) /\ lock'[k] = p
  <2>1. PICK r : WriteRows(p, [x \in {k} |-> r])
    BY <1>1
  <2>2. LocksKept(p)
    BY <1>0, <1>1, <2>1, LockMoves
  <2>3. lock'[k] = p
    BY <1>0, <2>1 DEF WriteRows
  <2> QED BY <2>2, <2>3
<1>3. loc'[p] = [loc[p] EXCEPT !.pc = IF loc[p].op = "success" THEN "hset" ELSE "hincr"]
      /\ \A q \in Procs \ {p} : loc'[q] = loc[q]
  BY <1>0, <1>1 DEF Goto, TypeOK
<1>4. loc'[p].op = loc[p].op /\ loc'[p].key = k
      /\ loc'[p].pc = IF loc[p].op = "success" THEN "hset" ELSE "hincr"
  BY <1>0, <1>3 DEF Local
<1>5. Place(loc'[p])
  BY <1>0, <1>1, <1>4 DEF Place, Handlers
<1>6. Serial => \A q \in Procs \ {p} : ~InTx(q)
  BY <1>1 DEF MayWrite
<1> QED BY <1>2, <1>3, <1>4, <1>5, <1>6, MoveKeepsBase

LEMMA StoreStepsKeepBase ==
  ASSUME Base, TypeOK', NEW p \in Procs,
         \/ SuccessHSet(p) \/ FailureHIncr(p) \/ HDel(p) \/ AddLPush(p) \/ LRem(p) \/ LPush(p)
         \/ Block(p) \/ SelectRead(p) \/ BulkWrite(p) \/ DisableUpdate(p)
         \/ \E k \in Keys : LoopHSet(p, k) \/ LoopLRem(p, k) \/ RemoveLRemFails(p, k)
         \/ DisableCallFails(p)
  PROVE  Base'
<1>0. TypeOK /\ Place(loc[p]) /\ loc[p] \in Local
  BY DEF Base, TypeOK
<1>p. UNCHANGED lock => LocksKept(p)
  BY <1>0, LockMoves
<1>1. CASE SuccessHSet(p)
  BY <1>1, GotoKeepsBase DEF SuccessHSet, rows, Handlers
<1>2. CASE FailureHIncr(p)
  <2>1. loc[p].op \in {"failure", "forced"}
    BY <1>0, <1>2 DEF FailureHIncr, Place
  <2> QED BY <1>2, <2>1, GotoKeepsBase DEF FailureHIncr, rows, Handlers
<1>3. CASE HDel(p)
  BY <1>3, GotoKeepsBase DEF HDel, rows
<1>4. CASE AddLPush(p)
  BY <1>4, GotoKeepsBase DEF AddLPush, rows
<1>5. CASE LRem(p)
  <2>1. loc[p].op \in Handlers \cup Restoring \cup {"disable"}
    BY <1>0, <1>5 DEF LRem, Place
  <2>2. Goto(p, IF loc[p].op \in Restoring \cup {"success"} THEN "lpush" ELSE "block") /\ UNCHANGED lock
        /\ loc[p].pc = "lrem"
    BY <1>5 DEF LRem, rows
  <2>3. loc[p].op \in Restoring \cup {"success"} \/ loc[p].op \in {"failure", "forced", "disable"}
    BY <2>1 DEF Handlers
  <2> QED BY <2>2, <2>3, GotoKeepsBase
<1>6. CASE LPush(p)
  BY <1>6, GotoKeepsBase DEF LPush, rows
<1>7. CASE Block(p)
  <2>1. loc[p].pc = "block" /\ UNCHANGED lock
    BY <1>7 DEF Block, rows
  <2>2. End(p) \/ Goto(p, "commit")
    BY <1>7 DEF Block
  <2> QED BY <1>p, <2>1, <2>2, EndKeepsBase, GotoKeepsBase
<1>8. CASE SelectRead(p)
  <2>1. loc' = [loc EXCEPT ![p] = [loc[p] EXCEPT !.pc = "picked", !.seen = hash[loc[p].key]]]
        /\ UNCHANGED lock /\ loc[p].pc = "read"
    BY <1>0, <1>8 DEF SelectRead, rows, TypeOK
  <2>2. (\A q \in Procs \ {p} : loc'[q] = loc[q]) /\ loc'[p].op = loc[p].op /\ loc'[p].pc = "picked"
        /\ loc'[p].key = loc[p].key
    BY <1>0, <2>1 DEF Local, TypeOK
  <2>3. Place(loc'[p]) /\ (InHandler(p)' => InHandler(p)) /\ (InTx(p)' => InTx(p))
    BY <1>0, <2>1, <2>2 DEF Place, InHandler, InTx
  <2>4. InHandler(p)' => lock'[loc'[p].key] = p
    BY <2>1, <2>2, <2>3 DEF Base, Holds
  <2> QED BY <1>p, <2>1, <2>2, <2>3, <2>4, MoveKeepsBase
<1>9. CASE BulkWrite(p)
  <2> DEFINE W == WriteWhere(loc[p].op, loc[p].todo)
             new == [k \in W |-> IF loc[p].op \in Restoring
                                   THEN Fresh ELSE [db[k] EXCEPT !.status = "deleted"]]
  <2>1. /\ loc[p].pc = "write" /\ MayWrite(p, W) /\ WriteRows(p, new) /\ Goto(p, "loop")
    BY <1>9 DEF BulkWrite
  <2>2. LocksKept(p)
    BY <1>0, <2>1, LockMoves
  <2>3. loc'[p] = [loc[p] EXCEPT !.pc = "loop"] /\ \A q \in Procs \ {p} : loc'[q] = loc[q]
    BY <1>0, <2>1 DEF Goto, TypeOK
  <2>4. loc'[p].op = loc[p].op /\ loc'[p].pc = "loop" /\ loc'[p].key = loc[p].key
    BY <1>0, <2>3 DEF Local
  <2>5. Place(loc'[p]) /\ (InHandler(p)' => InHandler(p))
    BY <1>0, <2>1, <2>4 DEF Place, InHandler
  <2>6. InHandler(p)' => lock'[loc'[p].key] = p
    <3> SUFFICES ASSUME InHandler(p)' PROVE lock'[loc'[p].key] = p
      OBVIOUS
    <3>1. lock[loc[p].key] = p /\ loc[p].key \in Keys
      BY <1>0, <2>4, <2>5 DEF Base, Holds, InHandler, TypeOK
    <3>2. lock' = [k \in Keys |-> IF k \in DOMAIN new THEN p ELSE lock[k]]
      BY <2>1 DEF WriteRows
    <3> QED BY <2>4, <3>1, <3>2
  <2>7. InTx(p)' => InTx(p)
    BY <2>1, <2>4 DEF InTx
  <2> QED BY <2>2, <2>3, <2>5, <2>6, <2>7, MoveKeepsBase
<1>10. CASE DisableUpdate(p)
  <2>1. loc[p].op = "disable" /\ Goto(p, "lrem") /\ UNCHANGED lock
    BY <1>10 DEF DisableUpdate
  <2>2. loc'[p] = [loc[p] EXCEPT !.pc = "lrem"] /\ \A q \in Procs \ {p} : loc'[q] = loc[q]
    BY <1>0, <2>1 DEF Goto, TypeOK
  <2>3. loc'[p].op = "disable" /\ loc'[p].pc = "lrem"
    BY <1>0, <2>1, <2>2 DEF Local
  <2>4. Place(loc'[p]) /\ ~InHandler(p)' /\ ~InTx(p)'
    BY <1>0, <2>1, <2>3 DEF Place, InHandler, InTx, Handlers
  <2> QED BY <1>p, <2>1, <2>2, <2>4, MoveKeepsBase
<1>11. ASSUME NEW k \in Keys, LoopHSet(p, k) \/ LoopLRem(p, k) \/ RemoveLRemFails(p, k) PROVE Base'
  <2>1. loc[p].pc = "loop" /\ UNCHANGED lock /\ loc[p].op \in Restoring \cup Removing \cup {"add"}
    BY <1>11 DEF LoopHSet, LoopLRem, RemoveLRemFails, rows
  <2>2. /\ \A q \in Procs \ {p} : loc'[q] = loc[q]
        /\ loc'[p].op = loc[p].op /\ loc'[p].pc \in {"loop", "lrem", "hdel"}
        /\ loc'[p].pc = "lrem" => loc[p].op \in Restoring \cup {"add"}
        /\ loc'[p].pc = "lrem" => loc[p].op # "add"
    <3>1. CASE LoopHSet(p, k)
      BY <1>0, <3>1 DEF LoopHSet, Local, TypeOK
    <3>2. CASE LoopLRem(p, k)
      BY <1>0, <3>2 DEF LoopLRem, Local, TypeOK
    <3>3. CASE RemoveLRemFails(p, k)
      BY <1>0, <3>3 DEF RemoveLRemFails, Local, TypeOK
    <3> QED BY <1>11, <3>1, <3>2, <3>3
  <2>4. loc[p].op \notin Handlers
    BY <2>1 DEF Handlers, Restoring, Removing
  <2>5. Place(loc'[p]) /\ ~InHandler(p)' /\ (InTx(p)' => InTx(p))
    BY <1>0, <2>1, <2>2, <2>4 DEF Place, InHandler, InTx
  <2> QED BY <1>p, <2>1, <2>2, <2>5, MoveKeepsBase
<1>12. CASE DisableCallFails(p)
  <2>1. /\ loc[p].op = "disable" /\ UNCHANGED lock
        /\ (loc[p].pc = "lrem" /\ Goto(p, "block")) \/ End(p)
    BY <1>12 DEF DisableCallFails, rows
  <2> QED BY <1>p, <2>1, EndKeepsBase, GotoKeepsBase
<1> QED BY <1>1, <1>2, <1>3, <1>4, <1>5, <1>6, <1>7, <1>8, <1>9, <1>10, <1>11, <1>12

LEMMA EndsKeepBase ==
  ASSUME Base, TypeOK', NEW p \in Procs,
         \/ HandlerRowGone(p) \/ SelectReturn(p) \/ Refused(p)
         \/ Commit(p) \/ CommitFails(p) \/ TxCallFails(p)
  PROVE  Base'
<1>1. LocksKept(p)
  BY LockMoves DEF Base, HandlerRowGone, SelectReturn, Refused, Commit, CommitFails, TxCallFails, rows
<1>2. End(p) \/ (MayRetry(p) /\ Again(p))
  BY DEF HandlerRowGone, SelectReturn, Refused, Commit, CommitFails, TxCallFails
<1> QED BY <1>1, <1>2, EndKeepsBase, AgainKeepsBase

LEMMA BaseInductive == Base /\ [Next]_vars => Base'
<1> SUFFICES ASSUME Base, [Next]_vars PROVE Base'
  OBVIOUS
<1>0. TypeOK'
  BY TypeInductive DEF Base
<1>1. ASSUME NEW p \in Procs, Call(p) \/ Step(p) \/ Fault(p) PROVE Base'
  BY <1>0, <1>1, CallKeepsBase, HandlerTxKeepsBase, StoreStepsKeepBase, EndsKeepBase DEF Step, Fault
<1>2. ASSUME UNCHANGED <<lock, loc>> PROVE Base'
  BY <1>0, <1>2 DEF Base, Holds, InHandler, OneTx, InTx
<1>3. CASE Restart
  <2>1. \A q \in Procs : loc'[q].pc = "idle" /\ loc'[q].op = "idle" /\ Place(loc'[q])
    BY <1>3, IdlePlace DEF Restart
  <2>2. Holds' /\ OneTx'
    BY <2>1 DEF Holds, InHandler, OneTx, InTx
  <2> QED BY <1>0, <2>1, <2>2 DEF Base
<1>4. ASSUME NEW K, ClearStats(K) PROVE UNCHANGED <<lock, loc>>
  BY <1>4 DEF ClearStats
<1>5. UNCHANGED vars => UNCHANGED <<lock, loc>>
  BY DEF vars
<1> QED BY <1>1, <1>2, <1>3, <1>4, <1>5 DEF Next

LEMMA InitBase == Init => Base
<1> SUFFICES ASSUME Init PROVE Base
  OBVIOUS
<1>1. loc = [p \in Procs |-> Idle]
  BY DEF Init
<1>2. \A q \in Procs : loc[q].pc = "idle" /\ loc[q].op = "idle" /\ Place(loc[q])
  BY <1>1, IdlePlace
<1> QED BY <1>2, InitTypeOK DEF Base, Holds, InHandler, OneTx, InTx

LEMMA BaseHolds == Spec => []Base
BY InitBase, BaseInductive, PTL DEF Spec

(***************************************************************************)
(* Where a step leaves its goroutine; the others stay where they are.      *)
(***************************************************************************)
Others(p) == \A q \in Procs \ {p} : loc'[q] = loc[q]

LEMMA Whereabouts ==
  ASSUME TypeOK, NEW p \in Procs
  PROVE  /\ End(p) => Others(p) /\ loc'[p] = Idle
         /\ \A pc : Goto(p, pc) => /\ Others(p) /\ loc'[p].pc = pc /\ loc'[p].op = loc[p].op
                                   /\ loc'[p].key = loc[p].key /\ loc'[p].seen = loc[p].seen
         /\ Again(p) => /\ Others(p) /\ loc'[p].pc = "tx" /\ loc'[p].op = loc[p].op
                        /\ loc'[p].key = loc[p].key /\ loc'[p].seen = loc[p].seen
         /\ \A o, pc, k, todo : Begin(p, o, pc, k, todo) =>
              /\ Others(p) /\ loc'[p].pc = pc /\ loc'[p].op = o /\ loc'[p].key = k /\ loc[p] = Idle
              /\ loc'[p].seen = IF o \in Handlers THEN hash[k] ELSE NoHash
<1>0. loc \in [Procs -> Local] /\ loc[p] \in Local
  BY DEF TypeOK
<1>1. End(p) => Others(p) /\ loc'[p] = Idle
  BY <1>0 DEF End, Others
<1>2. ASSUME NEW pc, Goto(p, pc)
      PROVE  /\ Others(p) /\ loc'[p].pc = pc /\ loc'[p].op = loc[p].op
             /\ loc'[p].key = loc[p].key /\ loc'[p].seen = loc[p].seen
  <2>1. loc'[p] = [loc[p] EXCEPT !.pc = pc] /\ Others(p)
    BY <1>0, <1>2 DEF Goto, Others
  <2> QED BY <1>0, <2>1 DEF Local
<1>3. ASSUME Again(p)
      PROVE  /\ Others(p) /\ loc'[p].pc = "tx" /\ loc'[p].op = loc[p].op
             /\ loc'[p].key = loc[p].key /\ loc'[p].seen = loc[p].seen
  <2>1. loc'[p] = [loc[p] EXCEPT !.tries = @ + 1, !.pc = "tx"] /\ Others(p)
    BY <1>0, <1>3 DEF Again, Others
  <2> QED BY <1>0, <2>1 DEF Local
<1>4. ASSUME NEW o, NEW pc, NEW k, NEW todo, Begin(p, o, pc, k, todo)
      PROVE  /\ Others(p) /\ loc'[p].pc = pc /\ loc'[p].op = o /\ loc'[p].key = k /\ loc[p] = Idle
             /\ loc'[p].seen = IF o \in Handlers THEN hash[k] ELSE NoHash
  BY <1>0, <1>4 DEF Begin, Others
<1> QED BY <1>1, <1>2, <1>3, <1>4

\* Steps between two of the places of a loop.
LEMMA LoopWhereabouts ==
  ASSUME TypeOK, NEW p \in Procs, NEW k \in Keys,
         LoopHSet(p, k) \/ LoopLRem(p, k) \/ RemoveLRemFails(p, k)
  PROVE  Others(p) /\ loc'[p].pc \in {"loop", "lrem", "hdel"} /\ loc'[p].op = loc[p].op
         /\ loc[p].op \notin Handlers
<1>0. loc \in [Procs -> Local] /\ loc[p] \in Local
  BY DEF TypeOK
<1>1. CASE LoopHSet(p, k)
  BY <1>0, <1>1 DEF LoopHSet, Local, Others, Handlers, Restoring
<1>2. CASE LoopLRem(p, k)
  BY <1>0, <1>2 DEF LoopLRem, Local, Others, Handlers, Removing
<1>3. CASE RemoveLRemFails(p, k)
  BY <1>0, <1>3 DEF RemoveLRemFails, Local, Others, Handlers, Removing
<1> QED BY <1>1, <1>2, <1>3

(***************************************************************************)
(* No key is in the list twice.  Between its LREM and its LPUSH a          *)
(* goroutine is the only one that may push the key: it holds the database, *)
(* or the lock of the row.  A restoration without the locks of the rows it *)
(* found, and the LPUSH of AddKeys, would break this.                      *)
(***************************************************************************)
OneListing == (Serial \/ Ops \cap Restoring = {}) /\ "add" \notin Ops

Cleared == \A p \in Procs : loc[p].pc = "lpush" => listed[loc[p].key] = 0

LEMMA OnePusher ==
  ASSUME Base, OneListing, NEW p \in Procs, NEW q \in Procs \ {p},
         loc[p].pc = "lpush", loc[q].pc = "lpush"
  PROVE  loc[p].key # loc[q].key
<1>1. Place(loc[p]) /\ Place(loc[q])
  BY DEF Base
<1>2. CASE Serial
  <2>1. InTx(p) /\ InTx(q)
    BY <1>1 DEF Place, InTx, Restoring
  <2> QED BY <1>2, <2>1 DEF Base, OneTx
<1>3. CASE Ops \cap Restoring = {}
  <2>1. loc[p].op = "success" /\ loc[q].op = "success"
    BY <1>1, <1>3 DEF Place, Restoring
  <2>2. InHandler(p) /\ InHandler(q)
    BY <2>1 DEF InHandler, Handlers
  <2> QED BY <2>2 DEF Base, Holds
<1> QED BY <1>2, <1>3 DEF OneListing

LEMMA ListShrinks ==
  ASSUME Base, TypeOK', ListedOnce, Cleared, NEW p \in Procs, Others(p),
         \A k \in Keys : listed'[k] <= listed[k],
         loc'[p].pc = "lpush" => listed'[loc'[p].key] = 0
  PROVE  ListedOnce' /\ Cleared'
<1>1. \A k \in Keys : listed[k] \in Nat /\ listed'[k] \in Nat
  BY DEF Base, TypeOK
<1>2. ListedOnce'
  BY <1>1 DEF ListedOnce
<1>3. ASSUME NEW q \in Procs, loc'[q].pc = "lpush" PROVE listed'[loc'[q].key] = 0
  <2>1. CASE q # p
    <3>1. loc'[q] = loc[q] /\ loc[q].key \in Keys
      BY <1>3, <2>1 DEF Others, Base, TypeOK, AtKey
    <3> QED BY <1>1, <1>3, <3>1 DEF Cleared
  <2> QED BY <1>3, <2>1
<1> QED BY <1>2, <1>3 DEF Cleared

LEMMA ListUnchanged ==
  ASSUME Base, TypeOK', ListedOnce, Cleared, NEW p \in Procs, Others(p),
         UNCHANGED listed, loc'[p].pc # "lpush"
  PROVE  ListedOnce' /\ Cleared'
<1>1. \A k \in Keys : listed'[k] <= listed[k]
  BY DEF Base, TypeOK
<1> QED BY <1>1, ListShrinks

LEMMA StepsListOnce ==
  ASSUME Base, TypeOK', OneListing, ListedOnce, Cleared, NEW p \in Procs,
         Call(p) \/ Step(p) \/ Fault(p)
  PROVE  ListedOnce' /\ Cleared'
<1>0. TypeOK /\ Place(loc[p]) /\ listed \in [Keys -> Nat]
  BY DEF Base, TypeOK
<1>i. Idle.pc # "lpush"
  BY IdlePlace
<1>1. CASE Call(p)
  <2>1. UNCHANGED listed
    BY <1>1 DEF Call, SuccessRead, FailureRead, AddKeys, BulkFind, DisableRead, SelectRotate, pool
  <2>2. \E o, pc, k, todo : Begin(p, o, pc, k, todo) /\ pc \in {"tx", "write", "loop", "read"}
    BY <1>1 DEF Call, SuccessRead, FailureRead, AddKeys, BulkFind, DisableRead, SelectRotate
  <2>3. PICK o, pc, k, todo : Begin(p, o, pc, k, todo) /\ pc \in {"tx", "write", "loop", "read"}
    BY <2>2
  <2>4. Others(p) /\ loc'[p].pc # "lpush"
    BY <1>0, <2>3, Whereabouts
  <2> QED BY <2>1, <2>4, ListUnchanged
<1>2. CASE HandlerTx(p) \/ BulkWrite(p) \/ FailureHIncr(p) \/ SuccessHSet(p) \/ HDel(p)
           \/ DisableUpdate(p)
  <2>1. UNCHANGED listed
    BY <1>2 DEF HandlerTx, BulkWrite, FailureHIncr, SuccessHSet, HDel, DisableUpdate, pool
  <2>2. \E pc \in {"hset", "hincr", "loop", "lrem", "commit"} : Goto(p, pc)
    BY <1>2 DEF HandlerTx, BulkWrite, FailureHIncr, SuccessHSet, HDel, DisableUpdate
  <2> QED BY <1>0, <2>1, <2>2, Whereabouts, ListUnchanged
<1>3. CASE HandlerRowGone(p) \/ SelectReturn(p) \/ Refused(p) \/ Commit(p) \/ CommitFails(p)
           \/ TxCallFails(p)
  <2>1. UNCHANGED listed
    BY <1>3 DEF HandlerRowGone, SelectReturn, Refused, Commit, CommitFails, TxCallFails, pool
  <2>2. End(p) \/ Again(p)
    BY <1>3 DEF HandlerRowGone, SelectReturn, Refused, Commit, CommitFails, TxCallFails
  <2> QED BY <1>0, <1>i, <2>1, <2>2, Whereabouts, ListUnchanged
<1>4. CASE Block(p) \/ DisableCallFails(p)
  <2>1. UNCHANGED listed
    BY <1>4 DEF Block, DisableCallFails, pool
  <2>2. End(p) \/ Goto(p, "commit") \/ Goto(p, "block")
    BY <1>4 DEF Block, DisableCallFails
  <2> QED BY <1>0, <1>i, <2>1, <2>2, Whereabouts, ListUnchanged
<1>5. CASE SelectRead(p)
  <2>1. UNCHANGED listed /\ Others(p) /\ loc'[p].pc = "picked"
    BY <1>0, <1>5 DEF SelectRead, pool, Others, TypeOK, Local
  <2> QED BY <2>1, ListUnchanged
<1>6. ASSUME NEW k \in Keys, LoopHSet(p, k) \/ RemoveLRemFails(p, k)
      PROVE  ListedOnce' /\ Cleared'
  <2>1. UNCHANGED listed
    BY <1>6 DEF LoopHSet, RemoveLRemFails, pool
  <2> QED BY <1>0, <1>6, <2>1, LoopWhereabouts, ListUnchanged
<1>7. ASSUME NEW k \in Keys, LoopLRem(p, k) PROVE ListedOnce' /\ Cleared'
  <2>1. listed' = [listed EXCEPT ![k] = 0]
    BY <1>7 DEF LoopLRem
  <2>2. \A x \in Keys : listed'[x] <= listed[x]
    BY <1>0, <2>1
  <2> QED BY <1>0, <1>7, <2>2, LoopWhereabouts, ListShrinks
<1>8. CASE LRem(p)
  <2>1. /\ loc[p].pc = "lrem" /\ listed' = [listed EXCEPT ![loc[p].key] = 0]
        /\ Goto(p, IF loc[p].op \in Restoring \cup {"success"} THEN "lpush" ELSE "block")
    BY <1>8 DEF LRem
  <2>2. Others(p) /\ loc'[p].key = loc[p].key /\ loc[p].key \in Keys
    BY <1>0, <2>1, Whereabouts DEF TypeOK, AtKey
  <2>3. (\A x \in Keys : listed'[x] <= listed[x]) /\ listed'[loc'[p].key] = 0
    BY <1>0, <2>1, <2>2
  <2> QED BY <2>2, <2>3, ListShrinks
<1>9. CASE LPush(p)
  <2> DEFINE k == loc[p].key
  <2>1. /\ loc[p].pc = "lpush" /\ listed' = [listed EXCEPT ![k] = @ + 1]
        /\ Goto(p, IF loc[p].op = "success" THEN "commit" ELSE "loop")
    BY <1>9 DEF LPush
  <2>2. Others(p) /\ loc'[p].pc # "lpush" /\ k \in Keys
    BY <1>0, <2>1, Whereabouts DEF TypeOK, AtKey
  <2>3. listed[k] = 0
    BY <2>1 DEF Cleared
  <2>4. \A x \in Keys : listed'[x] = IF x = k THEN 1 ELSE listed[x]
    BY <1>0, <2>1, <2>3
  <2>5. ListedOnce'
    BY <2>4 DEF ListedOnce
  <2>6. ASSUME NEW q \in Procs, loc'[q].pc = "lpush" PROVE listed'[loc'[q].key] = 0
    <3>1. q # p /\ loc'[q] = loc[q]
      BY <2>2, <2>6 DEF Others
    <3>2. loc[q].key \in Keys /\ loc[q].key # k
      BY <1>0, <2>1, <2>6, <3>1, OnePusher DEF TypeOK, AtKey
    <3> QED BY <2>4, <2>6, <3>1, <3>2 DEF Cleared
  <2> QED BY <2>5, <2>6 DEF Cleared
<1>10. CASE AddLPush(p)
  BY <1>0, <1>10 DEF AddLPush, Place, OneListing
<1> QED BY <1>1, <1>2, <1>3, <1>4, <1>5, <1>6, <1>7, <1>8, <1>9, <1>10 DEF Step, Fault

\* No call that fails and no overlap of operations lists a key twice, on
\* SQLite, and under row locks as far as nothing restores keys in bulk.
THEOREM NoKeyListedTwice ==
  ASSUME OneListing
  PROVE  Spec => []ListedOnce
<1>1. Init => ListedOnce /\ Cleared
  <2> SUFFICES ASSUME Init PROVE ListedOnce /\ Cleared
    OBVIOUS
  <2>1. loc = [p \in Procs |-> Idle] /\ listed = [k \in Keys |-> ListedOf(db[k])]
    BY DEF Init
  <2> QED BY <2>1, IdlePlace DEF ListedOnce, Cleared, ListedOf
<1>2. Base /\ (ListedOnce /\ Cleared) /\ [Next]_vars => (ListedOnce /\ Cleared)'
  <2> SUFFICES ASSUME Base, ListedOnce, Cleared, [Next]_vars PROVE ListedOnce' /\ Cleared'
    OBVIOUS
  <2>0. TypeOK'
    BY TypeInductive DEF Base
  <2>1. ASSUME NEW p \in Procs, Call(p) \/ Step(p) \/ Fault(p) PROVE ListedOnce' /\ Cleared'
    BY <2>0, <2>1, OneListing, StepsListOnce
  <2>2. CASE Restart
    <3>1. \A q \in Procs : loc'[q].pc = "idle"
      BY <2>2, IdlePlace DEF Restart
    <3>2. listed' = [k \in Keys |-> ListedOf(db[k])]
      BY <2>2 DEF Restart
    <3> QED BY <3>1, <3>2 DEF ListedOnce, Cleared, ListedOf
  <2>3. ASSUME UNCHANGED <<listed, loc>> PROVE ListedOnce' /\ Cleared'
    BY <2>3 DEF ListedOnce, Cleared
  <2>4. ASSUME NEW K, ClearStats(K) PROVE UNCHANGED <<listed, loc>>
    BY <2>4 DEF ClearStats, pool
  <2>5. UNCHANGED vars => UNCHANGED <<listed, loc>>
    BY DEF vars
  <2> QED BY <2>1, <2>2, <2>3, <2>4, <2>5 DEF Next
<1> QED BY <1>1, <1>2, BaseHolds, PTL DEF Spec

(***************************************************************************)
(* A key in the pool has fewer failures than the threshold, but for those  *)
(* handled at the same time.  Every handler that has read a count below    *)
(* the threshold less one and has not raised it yet is on its way to raise *)
(* it once: counted together with the failures that are there, these stay  *)
(* below the bound.  A handler that has raised the count to the threshold  *)
(* makes the key invalid before it lets go of the row.                     *)
(*                                                                         *)
(* The theorem needs that a handler that raised the count goes on to do    *)
(* so: no store call fails, and no commit on SQLite, where the closure     *)
(* would run, and count, again.                                            *)
(***************************************************************************)
CountsOnce == "store" \notin Faults /\ (Serial => "commit" \notin Faults)

Failing(p) == loc[p].op \in {"failure", "forced"}

Counting(p, k) == Failing(p) /\ loc[p].pc \in {"tx", "hincr"} /\ loc[p].key = k /\ ~Blacklists(p)
Counters(k) == {p \in Procs : Counting(p, k)}

Condemns(p, k) == Failing(p) /\ loc[p].pc \in {"lrem", "block"} /\ loc[p].key = k
Condemned(k) == \E p \in Procs : Condemns(p, k)

Bounded(h, counters, condemned) ==
  Threshold > 0 /\ h.status = "active"
    => h.fails + Cardinality(counters)
         <= Threshold + Cardinality(Procs) - 2 + (IF condemned THEN 1 ELSE 0)

Overrun(k) == Bounded(hash[k], Counters(k), Condemned(k))

Below(row) == Threshold > 0 /\ row.status = "active" => row.fails < Threshold
RowsBelow == \A k \in Keys : Below(db[k]) /\ Below(dirty[k])

Counted == RowsBelow /\ \A k \in Keys : Overrun(k)

LEMMA ProcsCounted ==
  /\ Cardinality(Procs) \in Nat /\ Cardinality(Procs) >= 1
  /\ \A C \in SUBSET Procs :
       IsFiniteSet(C) /\ Cardinality(C) \in Nat /\ Cardinality(C) <= Cardinality(Procs)
<1>1. IsFiniteSet(Procs) /\ Procs # {}
  BY KeyPoolAssumption
<1>2. Cardinality(Procs) \in Nat /\ Cardinality(Procs) # 0
  BY <1>1, FS_CardinalityType, FS_EmptySet
<1>3. ASSUME NEW C \in SUBSET Procs
      PROVE  IsFiniteSet(C) /\ Cardinality(C) \in Nat /\ Cardinality(C) <= Cardinality(Procs)
  BY <1>1, FS_Subset, FS_CardinalityType
<1> QED BY <1>2, <1>3

\* A key that was just taken up again, or is far below the threshold.
LEMMA LowBounded ==
  ASSUME NEW h \in Hash, NEW C \in SUBSET Procs, NEW c,
         Threshold = 1 => C = {}, h.fails = 0 \/ h.fails + 2 <= Threshold
  PROVE  Bounded(h, C, c)
<1>1. Threshold \in Nat
  BY KeyPoolAssumption
<1>2. Cardinality(Procs) \in Nat /\ Cardinality(Procs) >= 1
      /\ Cardinality(C) \in Nat /\ Cardinality(C) <= Cardinality(Procs)
  BY ProcsCounted
<1>3. h.fails \in Nat
  BY DEF Hash
<1>4. Threshold = 1 => Cardinality(C) = 0
  BY FS_EmptySet
<1> QED BY <1>1, <1>2, <1>3, <1>4 DEF Bounded

LEMMA LoadedBounded ==
  ASSUME NEW row \in Row, Below(row), NEW c
  PROVE  Bounded(HashOf(row), {}, c)
<1>1. Threshold \in Nat /\ row.fails \in Nat
  BY KeyPoolAssumption DEF Row
<1>2. Cardinality(Procs) \in Nat /\ Cardinality(Procs) >= 1 /\ Cardinality({}) = 0
  BY ProcsCounted, FS_EmptySet
<1>3. HashOf(row).status = "active" => row.status = "active" /\ HashOf(row).fails = row.fails
  BY DEF HashOf, Live, NoHash
<1> QED BY <1>1, <1>2, <1>3 DEF Bounded, Below

LEMMA StaysBounded ==
  ASSUME NEW h \in Hash, NEW C \in SUBSET Procs, NEW D \in SUBSET C, NEW c, NEW d, c => d,
         Bounded(h, C, c)
  PROVE  Bounded(h, D, d)
<1>1. Threshold \in Nat /\ h.fails \in Nat
  BY KeyPoolAssumption DEF Hash
<1>2. IsFiniteSet(C) /\ Cardinality(C) \in Nat /\ Cardinality(D) \in Nat /\ Cardinality(Procs) \in Nat
  BY ProcsCounted
<1>3. Cardinality(D) <= Cardinality(C)
  BY <1>2, FS_Subset
<1> QED BY <1>1, <1>2, <1>3 DEF Bounded

\* A failure that was on its way is counted.
LEMMA CountedBounded ==
  ASSUME NEW h \in Hash, NEW g \in Hash, NEW C \in SUBSET Procs, NEW p \in C, NEW D \in SUBSET (C \ {p}),
         NEW c, NEW d, c => d, g.status = "active" => h.status = "active", g.fails = h.fails + 1,
         Bounded(h, C, c)
  PROVE  Bounded(g, D, d)
<1>1. Threshold \in Nat /\ h.fails \in Nat /\ g.fails \in Nat
  BY KeyPoolAssumption DEF Hash
<1>2. IsFiniteSet(C) /\ Cardinality(C) \in Nat /\ Cardinality(D) \in Nat /\ Cardinality(Procs) \in Nat
  BY ProcsCounted
<1>3. Cardinality(C \ {p}) = Cardinality(C) - 1 /\ IsFiniteSet(C \ {p})
  BY <1>2, FS_RemoveElement
<1>4. Cardinality(D) <= Cardinality(C \ {p})
  BY <1>3, FS_Subset
<1> QED BY <1>1, <1>2, <1>3, <1>4 DEF Bounded

\* A failure raises the count of a key that it goes on to condemn.
LEMMA CondemnedBounded ==
  ASSUME NEW h \in Hash, NEW g \in Hash, NEW C \in SUBSET Procs, NEW D \in SUBSET C,
         NEW c, ~c, NEW d, d, g.status = "active" => h.status = "active", g.fails = h.fails + 1,
         Bounded(h, C, c)
  PROVE  Bounded(g, D, d)
<1>1. Threshold \in Nat /\ h.fails \in Nat /\ g.fails \in Nat
  BY KeyPoolAssumption DEF Hash
<1>2. IsFiniteSet(C) /\ Cardinality(C) \in Nat /\ Cardinality(D) \in Nat /\ Cardinality(Procs) \in Nat
  BY ProcsCounted
<1>3. Cardinality(D) <= Cardinality(C)
  BY <1>2, FS_Subset
<1> QED BY <1>1, <1>2, <1>3 DEF Bounded

LEMMA ResetKeepsCount ==
  ASSUME TypeOK', NEW k \in Keys,
         hash'[k].status # "active" \/ hash'[k].fails = 0 \/ hash'[k].fails + 2 <= Threshold
  PROVE  Overrun(k)'
<1>1. hash'[k] \in Hash /\ Counters(k)' \in SUBSET Procs
  BY DEF TypeOK, Counters
<1>2. Threshold = 1 => Counters(k)' = {}
  <2> SUFFICES ASSUME Threshold = 1, NEW p \in Procs, Counting(p, k)' PROVE FALSE
    BY DEF Counters
  <2>1. loc'[p].seen.fails \in Nat
    BY DEF TypeOK, Local, Hash
  <2> QED BY <2>1 DEF Counting, Blacklists
<1>3. CASE hash'[k].status # "active"
  BY <1>3 DEF Overrun, Bounded
<1>4. CASE hash'[k].fails = 0 \/ hash'[k].fails + 2 <= Threshold
  BY <1>1, <1>2, <1>4, LowBounded DEF Overrun
<1> QED BY <1>3, <1>4

LEMMA OthersCount ==
  ASSUME NEW p \in Procs, Others(p), NEW k \in Keys
  PROVE  \A q \in Procs \ {p} :
           (Counting(q, k)' <=> Counting(q, k)) /\ (Condemns(q, k)' <=> Condemns(q, k))
BY DEF Others, Counting, Condemns, Failing, Blacklists

LEMMA StepKeepsCount ==
  ASSUME TypeOK, NEW p \in Procs, Others(p), NEW k \in Keys, Overrun(k), hash'[k] = hash[k],
         Counting(p, k)' => Counting(p, k), Condemns(p, k) => Condemns(p, k)'
  PROVE  Overrun(k)'
<1>1. Counters(k)' \in SUBSET Counters(k) /\ Counters(k) \in SUBSET Procs
  BY OthersCount DEF Counters
<1>2. Condemned(k) => Condemned(k)'
  BY OthersCount DEF Condemned
<1>3. hash[k] \in Hash
  BY DEF TypeOK
<1> QED BY <1>1, <1>2, <1>3, StaysBounded DEF Overrun

LEMMA FailureCounts ==
  ASSUME Base, TypeOK', NEW p \in Procs, FailureHIncr(p), NEW k \in Keys, Overrun(k)
  PROVE  Overrun(k)'
<1>0. TypeOK /\ Place(loc[p]) /\ Holds /\ loc[p] \in Local /\ hash \in [Keys -> Hash]
      /\ hash'[k] \in Hash /\ loc[p].key \in Keys /\ p # None
  <2>1. TypeOK /\ Place(loc[p]) /\ Holds /\ loc[p].pc = "hincr"
    BY DEF Base, FailureHIncr
  <2> QED BY <2>1, KeyPoolAssumption DEF TypeOK, AtKey
<1>1. /\ loc[p].pc = "hincr" /\ Failing(p)
      /\ hash' = [hash EXCEPT ![loc[p].key] = [status |-> Kept(@.status), fails |-> @.fails + 1]]
      /\ Goto(p, IF Blacklists(p) THEN "lrem" ELSE "commit")
  BY <1>0 DEF FailureHIncr, Place, Failing
<1>2. /\ Others(p) /\ loc'[p].pc = (IF Blacklists(p) THEN "lrem" ELSE "commit")
      /\ loc'[p].op = loc[p].op /\ loc'[p].key = loc[p].key
  BY <1>0, <1>1, Whereabouts
<1>3. ~Counting(p, k)' /\ ~Condemns(p, k)
  BY <1>1, <1>2 DEF Counting, Condemns
<1>4. CASE loc[p].key # k
  BY <1>0, <1>1, <1>2, <1>3, <1>4, StepKeepsCount
<1>5. CASE loc[p].key = k
  <2>1. hash'[k] = [status |-> Kept(hash[k].status), fails |-> hash[k].fails + 1]
    BY <1>0, <1>1, <1>5
  <2>2. (hash'[k].status = "active" => hash[k].status = "active")
        /\ hash'[k].fails = hash[k].fails + 1
    BY <2>1 DEF Kept
  <2>3. hash[k] \in Hash /\ Counters(k) \in SUBSET Procs
    BY <1>0 DEF Counters
  <2>4. Counters(k)' \in SUBSET (Counters(k) \ {p})
    BY <1>2, <1>3, OthersCount DEF Counters
  <2>5. CASE Blacklists(p)
    <3>1. Condemned(k)'
      BY <1>1, <1>2, <1>5, <2>5 DEF Condemned, Condemns, Failing
    <3>2. ~Condemned(k)
      <4> SUFFICES ASSUME NEW q \in Procs, Condemns(q, k) PROVE FALSE
        BY DEF Condemned
      <4>1. InHandler(q) /\ InHandler(p) /\ loc[q].key = k
        BY <1>1 DEF Condemns, InHandler, Failing, Handlers
      <4>2. q = p
        BY <1>0, <1>5, <4>1 DEF Holds
      <4> QED BY <1>3, <4>2
    <3>3. Counters(k)' \in SUBSET Counters(k)
      BY <2>4
    <3> QED BY <1>0, <2>2, <2>3, <3>1, <3>2, <3>3, CondemnedBounded DEF Overrun
  <2>6. CASE ~Blacklists(p)
    <3>1. p \in Counters(k)
      BY <1>1, <1>5, <2>6 DEF Counters, Counting
    <3>2. Condemned(k) => Condemned(k)'
      BY <1>2, <1>3, OthersCount DEF Condemned
    <3> QED BY <1>0, <2>2, <2>3, <2>4, <3>1, <3>2, CountedBounded DEF Overrun
  <2> QED BY <2>5, <2>6
<1> QED BY <1>4, <1>5

LEMMA CallKeepsCount ==
  ASSUME Base, TypeOK', NEW p \in Procs, Call(p), NEW k \in Keys, Overrun(k)
  PROVE  Overrun(k)'
<1>0. TypeOK
  BY DEF Base
<1>1. \E o, pc, x, todo : Begin(p, o, pc, x, todo)
  BY DEF Call, SuccessRead, FailureRead, AddKeys, BulkFind, DisableRead, SelectRotate
<1>2. PICK o, pc, x, todo : Begin(p, o, pc, x, todo)
  BY <1>1
<1>3. UNCHANGED hash
  BY DEF Call, SuccessRead, FailureRead, AddKeys, BulkFind, DisableRead, SelectRotate, pool
<1>4. /\ Others(p) /\ loc'[p].op = o /\ loc'[p].key = x /\ loc[p] = Idle
      /\ loc'[p].seen = IF o \in Handlers THEN hash[x] ELSE NoHash
  BY <1>0, <1>2, Whereabouts
<1>5. ~Condemns(p, k)
  BY <1>4, IdlePlace DEF Condemns
<1>6. CASE ~Counting(p, k)'
  BY <1>0, <1>3, <1>4, <1>5, <1>6, StepKeepsCount
<1>7. CASE Counting(p, k)'
  <2>1. o \in {"failure", "forced"} /\ x = k
    BY <1>4, <1>7 DEF Counting, Failing
  <2>2. loc'[p].seen = hash[k]
    BY <1>4, <2>1 DEF Handlers
  <2>3. Threshold = 0 \/ hash[k].fails + 1 < Threshold
    <3>1. hash[k].fails \in Nat /\ Threshold \in Nat
      BY <1>0, KeyPoolAssumption DEF TypeOK, Hash
    <3> QED BY <1>7, <2>2, <3>1 DEF Counting, Blacklists
  <2>4. CASE Threshold = 0
    BY <2>4 DEF Overrun, Bounded
  <2>5. CASE hash[k].fails + 1 < Threshold
    <3>1. hash[k].fails \in Nat /\ Threshold \in Nat
      BY <1>0, KeyPoolAssumption DEF TypeOK, Hash
    <3>2. hash'[k].fails + 2 <= Threshold
      BY <1>3, <2>5, <3>1
    <3> QED BY <3>2, ResetKeepsCount
  <2> QED BY <2>3, <2>4, <2>5
<1> QED BY <1>6, <1>7

\* Steps that leave the hashes alone and go on to another place.
LEMMA QuietKeepsCount ==
  ASSUME Base, TypeOK', CountsOnce, NEW p \in Procs, NEW k \in Keys, Overrun(k),
         \/ HandlerTx(p) \/ BulkWrite(p) \/ AddLPush(p) \/ DisableUpdate(p) \/ LRem(p) \/ LPush(p)
         \/ SelectRead(p) \/ HandlerRowGone(p) \/ SelectReturn(p) \/ Refused(p) \/ Commit(p)
         \/ CommitFails(p) \/ \E x \in Keys : LoopLRem(p, x)
  PROVE  Overrun(k)'
<1>0. TypeOK /\ Place(loc[p])
  BY DEF Base
<1>1. UNCHANGED hash
  BY DEF HandlerTx, BulkWrite, AddLPush, DisableUpdate, LRem, LPush, SelectRead, HandlerRowGone,
     SelectReturn, Refused, Commit, CommitFails, LoopLRem, pool
<1> SUFFICES Others(p) /\ (Counting(p, k)' => Counting(p, k)) /\ (Condemns(p, k) => Condemns(p, k)')
  BY <1>0, <1>1, StepKeepsCount
<1>2. CASE HandlerTx(p)
  <2>1. loc[p].pc = "tx" /\ \E pc \in {"hset", "hincr"} : Goto(p, pc)
    BY <1>2 DEF HandlerTx
  <2>2. Others(p) /\ loc'[p].op = loc[p].op /\ loc'[p].key = loc[p].key /\ loc'[p].seen = loc[p].seen
    BY <1>0, <2>1, Whereabouts
  <2> QED BY <2>1, <2>2 DEF Counting, Condemns, Failing, Blacklists
<1>3. CASE BulkWrite(p) \/ AddLPush(p) \/ DisableUpdate(p) \/ LPush(p)
  <2>1. loc[p].pc \notin {"lrem", "block"} \/ loc[p].op = "disable"
    BY <1>3 DEF BulkWrite, AddLPush, DisableUpdate, LPush
  <2>2. \E pc \in {"loop", "commit", "lrem"} : Goto(p, pc)
    BY <1>3 DEF BulkWrite, AddLPush, DisableUpdate, LPush
  <2>3. Others(p) /\ loc'[p].pc \notin {"tx", "hincr"}
    BY <1>0, <2>2, Whereabouts
  <2> QED BY <2>1, <2>3 DEF Counting, Condemns, Failing
<1>4. CASE LRem(p)
  <2>1. loc[p].pc = "lrem"
        /\ Goto(p, IF loc[p].op \in Restoring \cup {"success"} THEN "lpush" ELSE "block")
    BY <1>4 DEF LRem
  <2>2. /\ Others(p) /\ loc'[p].op = loc[p].op /\ loc'[p].key = loc[p].key
        /\ loc'[p].pc = IF loc[p].op \in Restoring \cup {"success"} THEN "lpush" ELSE "block"
    BY <1>0, <2>1, Whereabouts
  <2>3. Failing(p) => loc[p].op \notin Restoring \cup {"success"}
    BY DEF Failing, Restoring
  <2> QED BY <2>1, <2>2, <2>3 DEF Counting, Condemns, Failing
<1>5. CASE SelectRead(p)
  <2>1. Others(p) /\ loc[p].pc = "read" /\ loc'[p].pc = "picked"
    BY <1>0, <1>5 DEF SelectRead, TypeOK, Local, Others
  <2> QED BY <2>1 DEF Counting, Condemns
<1>6. CASE HandlerRowGone(p) \/ SelectReturn(p) \/ Commit(p)
  <2>1. loc[p].pc \in {"tx", "picked", "commit", "loop"} /\ End(p)
    BY <1>6 DEF HandlerRowGone, SelectReturn, Commit, AtCommit
  <2>2. Others(p) /\ loc'[p] = Idle
    BY <1>0, <2>1, Whereabouts
  <2> QED BY <2>1, <2>2, IdlePlace DEF Counting, Condemns
<1>7. CASE CommitFails(p)
  <2>1. loc[p].pc \in {"commit", "loop"} /\ End(p)
    BY <1>7 DEF CommitFails, AtCommit, CountsOnce
  <2>2. Others(p) /\ loc'[p] = Idle
    BY <1>0, <2>1, Whereabouts
  <2> QED BY <2>1, <2>2, IdlePlace DEF Counting, Condemns
<1>8. CASE Refused(p)
  <2>1. loc[p].pc \in {"tx", "write"} /\ (End(p) \/ (MayRetry(p) /\ Again(p)))
    BY <1>8 DEF Refused
  <2>2. CASE End(p)
    <3>1. Others(p) /\ loc'[p] = Idle
      BY <1>0, <2>2, Whereabouts
    <3> QED BY <2>1, <3>1, IdlePlace DEF Counting, Condemns
  <2>3. CASE MayRetry(p) /\ Again(p)
    <3>1. loc[p].pc = "tx"
      BY <1>0, <2>1, <2>3 DEF MayRetry, Place, Handlers, Restoring, Removing
    <3>2. Others(p) /\ loc'[p].op = loc[p].op /\ loc'[p].key = loc[p].key /\ loc'[p].seen = loc[p].seen
      BY <1>0, <2>3, Whereabouts
    <3> QED BY <3>1, <3>2 DEF Counting, Condemns, Failing, Blacklists
  <2> QED BY <2>1, <2>2, <2>3
<1>9. ASSUME NEW x \in Keys, LoopLRem(p, x)
      PROVE  Others(p) /\ (Counting(p, k)' => Counting(p, k)) /\ (Condemns(p, k) => Condemns(p, k)')
  <2>1. Others(p) /\ loc'[p].op = loc[p].op /\ loc[p].op \notin Handlers
    BY <1>0, <1>9, LoopWhereabouts
  <2> QED BY <2>1 DEF Counting, Condemns, Failing, Handlers
<1> QED BY <1>2, <1>3, <1>4, <1>5, <1>6, <1>7, <1>8, <1>9

\* Steps that write the hash of a key, other than by HINCRBY.
LEMMA WriteKeepsCount ==
  ASSUME Base, TypeOK', NEW p \in Procs, NEW k \in Keys, Overrun(k),
         SuccessHSet(p) \/ HDel(p) \/ Block(p) \/ \E x \in Keys : LoopHSet(p, x)
  PROVE  Overrun(k)'
<1>0. TypeOK /\ Place(loc[p]) /\ loc[p] \in Local /\ hash \in [Keys -> Hash]
  BY DEF Base, TypeOK
<1>1. CASE SuccessHSet(p) \/ HDel(p)
  <2>1. loc[p].pc \in {"hset", "hdel"} /\ \E r : r.fails = 0 /\ hash' = [hash EXCEPT ![loc[p].key] = r]
    BY <1>1 DEF SuccessHSet, HDel, NoHash
  <2>2. \E pc \in {"commit", "lrem", "loop"} : Goto(p, pc)
    BY <1>1 DEF SuccessHSet, HDel
  <2>3. Others(p) /\ loc'[p].pc \notin {"tx", "hincr"}
    BY <1>0, <2>2, Whereabouts
  <2>4. ~Counting(p, k)' /\ ~Condemns(p, k)
    BY <2>1, <2>3 DEF Counting, Condemns
  <2>5. hash'[k] = hash[k] \/ hash'[k].fails = 0
    BY <1>0, <2>1
  <2> QED BY <1>0, <2>3, <2>4, <2>5, StepKeepsCount, ResetKeepsCount
<1>2. CASE Block(p)
  <2>1. loc[p].pc = "block" /\ hash' = [hash EXCEPT ![loc[p].key].status = "invalid"]
    BY <1>2 DEF Block
  <2>2. End(p) \/ Goto(p, "commit")
    BY <1>2 DEF Block
  <2>3. Others(p) /\ loc'[p].pc \notin {"tx", "hincr"}
    BY <1>0, <2>2, Whereabouts, IdlePlace
  <2>4. ~Counting(p, k)'
    BY <2>3 DEF Counting
  <2>5. CASE loc[p].key = k
    <3>1. hash'[k].status = "invalid"
      BY <1>0, <2>1, <2>5 DEF Hash
    <3> QED BY <3>1, ResetKeepsCount
  <2>6. CASE loc[p].key # k
    <3>1. hash'[k] = hash[k] /\ ~Condemns(p, k)
      BY <1>0, <2>1, <2>6 DEF Condemns
    <3> QED BY <1>0, <2>3, <2>4, <3>1, StepKeepsCount
  <2> QED BY <2>5, <2>6
<1>3. ASSUME NEW x \in Keys, LoopHSet(p, x) PROVE Overrun(k)'
  <2>1. Others(p) /\ loc'[p].op = loc[p].op /\ loc[p].op \notin Handlers
    BY <1>0, <1>3, LoopWhereabouts
  <2>2. ~Counting(p, k)' /\ ~Condemns(p, k)
    BY <2>1 DEF Counting, Condemns, Failing, Handlers
  <2>3. hash' = [hash EXCEPT ![x] = Fresh]
    BY <1>3 DEF LoopHSet
  <2>4. hash'[k] = hash[k] \/ hash'[k].fails = 0
    BY <1>0, <2>3 DEF Fresh
  <2> QED BY <1>0, <2>1, <2>2, <2>4, StepKeepsCount, ResetKeepsCount
<1> QED BY <1>1, <1>2, <1>3

(***************************************************************************)
(* A row is only active below the threshold, so the pool that a restart    *)
(* loads starts below it too.                                              *)
(***************************************************************************)
LEMMA FreshBelow == Below(Fresh) /\ \A s, n : s # "active" => Below([status |-> s, fails |-> n])
BY KeyPoolAssumption DEF Below, Fresh

LEMMA WrittenBelow ==
  ASSUME RowsBelow, NEW p, NEW new, WriteRows(p, new), \A k \in DOMAIN new : Below(new[k])
  PROVE  RowsBelow'
<1>1. db' = db /\ dirty' = [k \in Keys |-> IF k \in DOMAIN new THEN new[k] ELSE dirty[k]]
  BY DEF WriteRows
<1>2. ASSUME NEW k \in Keys PROVE Below(db'[k]) /\ Below(dirty'[k])
  BY <1>1 DEF RowsBelow
<1> QED BY <1>2 DEF RowsBelow

LEMMA ChangedRowBelow ==
  ASSUME TypeOK, NEW k \in Keys, Below(db[k])
  PROVE  /\ Below([db[k] EXCEPT !.status = "deleted"])
         /\ Below([db[k] EXCEPT !.fails = 0])
         /\ Below([db[k] EXCEPT !.status = IF @ \in Live THEN "invalid" ELSE @])
<1>1. db[k] \in Row /\ Threshold \in Nat
  BY KeyPoolAssumption DEF TypeOK
<1> QED BY <1>1 DEF Row, Below, Live

LEMMA HandlerRowBelow ==
  ASSUME TypeOK, RowsBelow, NEW p \in Procs, HandlerTx(p)
  PROVE  RowsBelow'
<1> DEFINE k == loc[p].key
<1>1. /\ Threshold \in Nat /\ db[k] \in Row /\ k \in Keys /\ loc[p].seen.fails \in Nat
      /\ loc[p].op \in Handlers
  <2>1. loc[p].op \in Handlers /\ loc[p].pc = "tx"
    BY DEF HandlerTx
  <2> QED BY <2>1, KeyPoolAssumption DEF TypeOK, Local, Hash
<1>2. CASE loc[p].op = "success"
  <2>1. Below(Recovered(p, db[k]))
    BY <1>1 DEF Below, Recovered
  <2>2. WriteRows(p, [x \in {k} |-> Recovered(p, db[k])])
    BY <1>2 DEF HandlerTx
  <2>3. \A x \in {k} : Below([y \in {k} |-> Recovered(p, db[k])][x])
    BY <2>1
  <2> QED BY <2>2, <2>3, WrittenBelow
<1>3. CASE loc[p].op # "success"
  <2>1. Below(Failed(p, db[k]))
    BY <1>1 DEF Below, Failed, Blacklists
  <2>2. WriteRows(p, [x \in {k} |-> Failed(p, db[k])])
    BY <1>3 DEF HandlerTx
  <2>3. \A x \in {k} : Below([y \in {k} |-> Failed(p, db[k])][x])
    BY <2>1
  <2> QED BY <2>2, <2>3, WrittenBelow
<1> QED BY <1>2, <1>3

LEMMA BulkRowsBelow ==
  ASSUME TypeOK, RowsBelow, NEW p \in Procs, BulkWrite(p)
  PROVE  RowsBelow'
<1> DEFINE W == WriteWhere(loc[p].op, loc[p].todo)
           new == [k \in W |-> IF loc[p].op \in Restoring
                                 THEN Fresh ELSE [db[k] EXCEPT !.status = "deleted"]]
<1>1. WriteRows(p, new) /\ W \subseteq Keys
  BY DEF BulkWrite, WriteWhere
<1>2. \A k \in W : Below(new[k])
  BY <1>1, FreshBelow, ChangedRowBelow DEF RowsBelow
<1> QED BY <1>1, <1>2, WrittenBelow

LEMMA StepsKeepRowsBelow ==
  ASSUME TypeOK, RowsBelow, NEW p \in Procs, Call(p) \/ Step(p) \/ Fault(p)
  PROVE  RowsBelow'
<1>1. CASE HandlerTx(p) \/ BulkWrite(p)
  BY <1>1, HandlerRowBelow, BulkRowsBelow
<1>2. CASE Call(p)
  <2>1. CASE \E K \in SUBSET Keys : AddKeys(p, K)
    <3>1. PICK K \in SUBSET Keys : WriteRows(p, [k \in K |-> Fresh])
      BY <2>1 DEF AddKeys
    <3>2. \A k \in K : Below([x \in K |-> Fresh][k])
      BY FreshBelow
    <3> QED BY <3>1, <3>2, WrittenBelow
  <2>2. CASE UNCHANGED rows
    BY <2>2 DEF RowsBelow, rows
  <2> QED BY <1>2, <2>1, <2>2 DEF Call, SuccessRead, FailureRead, BulkFind, DisableRead, SelectRotate
<1>3. CASE Commit(p)
  <2>1. dirty' = dirty /\ db' = [k \in Keys |-> IF lock[k] = p THEN dirty[k] ELSE db[k]]
    BY <1>3 DEF Commit
  <2> QED BY <2>1 DEF RowsBelow
<1>4. CASE CommitFails(p) \/ TxCallFails(p)
  <2>1. db' = db /\ dirty' = [k \in Keys |-> IF lock[k] = p THEN db[k] ELSE dirty[k]]
    BY <1>4 DEF CommitFails, TxCallFails, Rollback
  <2> QED BY <2>1 DEF RowsBelow
<1>5. CASE DisableUpdate(p)
  <2> DEFINE k == loc[p].key
  <2>1. /\ k \in Keys /\ db \in [Keys -> Row] /\ dirty \in [Keys -> Row]
        /\ db' = [db EXCEPT ![k].status = IF @ \in Live THEN "invalid" ELSE @]
        /\ dirty' = [dirty EXCEPT ![k] = db'[k]]
    BY <1>5 DEF DisableUpdate, TypeOK, AtKey
  <2>2. db'[k] = [db[k] EXCEPT !.status = IF @ \in Live THEN "invalid" ELSE @]
    BY <2>1
  <2>3. Below(db'[k]) /\ dirty'[k] = db'[k]
    BY <2>1, <2>2, ChangedRowBelow DEF RowsBelow
  <2>4. \A x \in Keys \ {k} : db'[x] = db[x] /\ dirty'[x] = dirty[x]
    BY <2>1
  <2> QED BY <2>3, <2>4 DEF RowsBelow
<1>6. CASE UNCHANGED rows
  BY <1>6 DEF RowsBelow, rows
<1> QED BY <1>1, <1>2, <1>3, <1>4, <1>5, <1>6 DEF Step, Fault, HandlerRowGone, SuccessHSet,
       FailureHIncr, LoopHSet, LoopLRem, HDel, AddLPush, LRem, LPush, Block, Refused, SelectRead,
       SelectReturn, DisableCallFails, RemoveLRemFails

LEMMA ClearKeepsCount ==
  ASSUME TypeOK, Counted, NEW K \in SUBSET Keys, ClearStats(K)
  PROVE  Counted'
<1>1. RowsBelow'
  <2>1. /\ db' = [k \in Keys |-> IF k \in K THEN [db[k] EXCEPT !.fails = 0] ELSE db[k]]
        /\ dirty' = [k \in Keys |-> IF k \in K THEN db'[k] ELSE dirty[k]]
    BY DEF ClearStats
  <2>2. \A k \in Keys : Below(db'[k])
    BY <2>1, ChangedRowBelow DEF Counted, RowsBelow
  <2>3. \A k \in Keys : Below(dirty'[k])
    BY <2>1, <2>2 DEF Counted, RowsBelow
  <2> QED BY <2>2, <2>3 DEF RowsBelow
<1>2. UNCHANGED <<hash, loc>>
  BY DEF ClearStats, pool
<1> QED BY <1>1, <1>2 DEF Counted, Overrun, Counters, Counting, Condemned, Condemns, Failing, Blacklists

LEMMA InitCounted == Init => Counted
<1> SUFFICES ASSUME Init PROVE Counted
  OBVIOUS
<1>1. /\ db \in [Keys -> [status : Live \cup {"unborn"}, fails : {0}]] /\ dirty = db
      /\ hash = [k \in Keys |-> HashOf(db[k])] /\ loc = [p \in Procs |-> Idle]
  BY DEF Init
<1>2. \A k \in Keys : db[k] \in Row /\ Below(db[k])
  BY <1>1, KeyPoolAssumption DEF Row, Below
<1>3. \A p \in Procs : loc[p].op = "idle"
  BY <1>1, IdlePlace
<1>4. ASSUME NEW k \in Keys PROVE Overrun(k)
  <2>1. Counters(k) = {}
    BY <1>3 DEF Counters, Counting, Failing
  <2>2. hash[k] = HashOf(db[k])
    BY <1>1
  <2> QED BY <1>2, <2>1, <2>2, LoadedBounded DEF Overrun
<1> QED BY <1>1, <1>2, <1>4 DEF Counted, RowsBelow

LEMMA CountedInductive ==
  ASSUME CountsOnce
  PROVE  Base /\ Counted /\ [Next]_vars => Counted'
<1> SUFFICES ASSUME Base, Counted, [Next]_vars PROVE Counted'
  OBVIOUS
<1>0. TypeOK /\ TypeOK'
  BY TypeInductive DEF Base
<1>1. ASSUME NEW p \in Procs, Call(p) \/ Step(p) \/ Fault(p) PROVE Counted'
  <2>1. RowsBelow'
    BY <1>0, <1>1, StepsKeepRowsBelow DEF Counted
  <2>2. ASSUME NEW k \in Keys PROVE Overrun(k)'
    <3>0. Overrun(k)
      BY DEF Counted
    <3>1. CASE Call(p)
      BY <1>0, <3>0, <3>1, CallKeepsCount
    <3>2. CASE FailureHIncr(p)
      BY <1>0, <3>0, <3>2, FailureCounts
    <3>3. CASE SuccessHSet(p) \/ HDel(p) \/ Block(p) \/ \E x \in Keys : LoopHSet(p, x)
      BY <1>0, <3>0, <3>3, WriteKeepsCount
    <3>4. CASE Step(p) \/ CommitFails(p)
      BY <1>0, <3>0, <3>2, <3>3, <3>4, CountsOnce, QuietKeepsCount DEF Step
    <3>5. ~TxCallFails(p) /\ ~DisableCallFails(p) /\ \A x \in Keys : ~RemoveLRemFails(p, x)
      BY CountsOnce DEF CountsOnce, TxCallFails, DisableCallFails, RemoveLRemFails
    <3> QED BY <1>1, <3>1, <3>4, <3>5 DEF Fault
  <2> QED BY <2>1, <2>2 DEF Counted
<1>2. ASSUME NEW K \in SUBSET Keys, ClearStats(K) PROVE Counted'
  BY <1>0, <1>2, ClearKeepsCount
<1>3. CASE Restart
  <2>1. /\ db' = db /\ dirty' = db /\ hash' = [k \in Keys |-> HashOf(db[k])]
        /\ loc' = [p \in Procs |-> Idle]
    BY <1>3 DEF Restart
  <2>2. RowsBelow'
    BY <2>1 DEF Counted, RowsBelow
  <2>3. \A p \in Procs : loc'[p].op = "idle"
    BY <2>1, IdlePlace
  <2>4. ASSUME NEW k \in Keys PROVE Overrun(k)'
    <3>1. Counters(k)' = {}
      BY <2>3 DEF Counters, Counting, Failing
    <3>2. hash'[k] = HashOf(db[k]) /\ db[k] \in Row /\ Below(db[k])
      BY <1>0, <2>1 DEF Counted, RowsBelow, TypeOK
    <3> QED BY <3>1, <3>2, LoadedBounded DEF Overrun
  <2> QED BY <2>2, <2>4 DEF Counted
<1>4. CASE UNCHANGED vars
  BY <1>4 DEF vars, Counted, RowsBelow, Overrun, Counters, Counting, Condemned, Condemns, Failing,
     Blacklists
<1> QED BY <1>1, <1>2, <1>3, <1>4 DEF Next

LEMMA CountedBelow == Base /\ Counted => OverrunBounded
<1> SUFFICES ASSUME Base, Counted, NEW k \in Keys, Threshold > 0, lock[k] = None,
                    hash[k].status = "active"
             PROVE  hash[k].fails <= Threshold + Cardinality(Procs) - 2
  BY DEF OverrunBounded
<1>1. Threshold \in Nat /\ hash[k].fails \in Nat /\ None \notin Procs
  BY KeyPoolAssumption DEF Base, TypeOK, Hash
<1>2. ~Condemned(k)
  <2> SUFFICES ASSUME NEW q \in Procs, Condemns(q, k) PROVE FALSE
    BY DEF Condemned
  <2>1. InHandler(q) /\ loc[q].key = k
    BY DEF Condemns, InHandler, Failing, Handlers
  <2> QED BY <1>1, <2>1 DEF Base, Holds
<1>3. hash[k].fails + Cardinality(Counters(k)) <= Threshold + Cardinality(Procs) - 2
  <2>1. Bounded(hash[k], Counters(k), Condemned(k))
    BY DEF Counted, Overrun
  <2>2. Cardinality(Procs) \in Nat
    BY ProcsCounted
  <2> QED BY <1>1, <1>2, <2>1, <2>2 DEF Bounded
<1>4. Cardinality(Counters(k)) \in Nat /\ Cardinality(Procs) \in Nat
  BY ProcsCounted DEF Counters
<1> QED BY <1>1, <1>3, <1>4

\* However many failures of a key are handled at once, each of them lifts the
\* count of a key in the pool over the threshold less one at most once.
THEOREM FailuresStayBounded ==
  ASSUME CountsOnce
  PROVE  Spec => []OverrunBounded
<1>1. Base /\ Counted /\ [Next]_vars => Counted'
  BY CountsOnce, CountedInductive
<1> QED BY InitCounted, <1>1, BaseHolds, CountedBelow, PTL DEF Spec
=============================================================================
