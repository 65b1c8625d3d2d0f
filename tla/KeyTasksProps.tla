---------------------------- MODULE KeyTasksProps ----------------------------
(***************************************************************************)
(* What the tasks on keys promise.                                         *)
(***************************************************************************)
EXTENDS KeyTasks

\* Tasks work at keys, count their copies and return to where they report from.
TypeOK ==
  /\ copies \in [Keys -> Nat]
  /\ DOMAIN record = DOMAIN NoRecord
  /\ \A t \in Tasks :
       /\ DOMAIN job[t] = DOMAIN NoJob
       /\ job[t].todo \subseteq Keys
       /\ job[t].back \in {"chunk", "pool", "end"}

(***************************************************************************)
(* As long as no two starts overlap, one task runs at a time and the       *)
(* record is its own: what a task does between the reading and the writing *)
(* of the record, no other undoes.  (StartTask, UpdateProgress, EndTask.)  *)
(***************************************************************************)
OneAtATime ==
  ~StartsOverlap =>
    \A t \in Tasks : job[t].pc \in Alive =>
      /\ record.running /\ record.task = t
      /\ \A u \in Tasks \ {t} : job[u].pc \notin Alive \cup {"start"}

(***************************************************************************)
(* A key is in the group once, however often and with whatever failures    *)
(* imports are run: key_hash has no unique index, the import filters by    *)
(* what it read before its first chunk.  (processAndCreateKeysWithWeight.) *)
(***************************************************************************)
NoDuplicates == ~StartsOverlap => \A k \in Keys : copies[k] <= 1

(***************************************************************************)
(* While the record shows the result of a task, it is true: an import left *)
(* all its keys in the group, a deletion none of them, a validation tested *)
(* each, and the number shown is the number of rows changed.               *)
(* (runImport, runDelete, runValidation: EndTask with the first error.)    *)
(***************************************************************************)
ResultIsTrue ==
  LET t == record.task IN
  (~StartsOverlap /\ record.result = "result") =>
    /\ record.count = job[t].made
    /\ Kind[t] = "import" => \A k \in Text[t] : copies[k] > 0
    /\ Kind[t] = "delete" => \A k \in Text[t] : copies[k] = 0
    /\ Kind[t] = "validate" => job[t].tested = Text[t]

(***************************************************************************)
(* A record of a running task whose goroutine has ended is only left by a  *)
(* crash or by an EndTask that failed.  (Every return calls EndTask.)      *)
(***************************************************************************)
NotLeftRunning ==
  (~StartsOverlap /\ record.running) =>
    job[record.task].pc \in Alive \cup {"dead"}

(***************************************************************************)
(* Tasks never stay locked out: whatever fails, the record says again and  *)
(* again that no task is running.  (EndTask, ResultTTL.)                   *)
(***************************************************************************)
Unlocked == []<>~record.running
=============================================================================
