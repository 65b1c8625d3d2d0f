------------------------------- MODULE KeyTasks -------------------------------
(***************************************************************************)
(* The long-running tasks on the keys of a group, import, deletion and     *)
(* validation, and the record in the store that is to let only one of them *)
(* run at a time.  The record is read and written back by StartTask,       *)
(* UpdateProgress and EndTask in two store calls each.                     *)
(*                                                                         *)
(* A task may be started again and again; its text names the same keys     *)
(* each time.  Import and deletion work chunk by chunk in the pool;        *)
(* validation hands its keys to a pool of goroutines and collects their    *)
(* results.                                                                *)
(***************************************************************************)
EXTENDS Integers, FiniteSets, FiniteSetsExt

CONSTANTS
  Keys,          (* the keys that texts name                               *)
  Tasks,         (* tasks that may be started                              *)
  Kind,          (* of each task: "import", "delete" or "validate"         *)
  Text,          (* the keys each task names, or validates                 *)
  None,
  Workers,       (* key_validation_concurrency goroutines of a validation  *)
  ChunkSize,     (* keys per transaction; 500 and 1000 in the code         *)
  StartsOverlap, (* TRUE: StartTask is called while another call runs      *)
  Faults         (* what may fail: "db", "lost answer", "store", "crash"   *)

Kinds == {"import", "delete", "validate"}

ASSUME KeyTasksAssumption ==
  /\ IsFiniteSet(Keys)
  /\ None \notin Keys /\ None \notin Tasks
  /\ Kind \in [Tasks -> Kinds]
  /\ Text \in [Tasks -> SUBSET Keys]
  /\ Workers # {}
  /\ ChunkSize \in Nat \ {0}
  /\ StartsOverlap \in BOOLEAN
  /\ Faults \subseteq {"db", "lost answer", "store", "crash"}

VARIABLES
  copies,  (* rows of the group with this key_hash                         *)
  record,  (* global_task in the store                                     *)
  job      (* the goroutine of each task                                   *)

vars == <<copies, record, job>>

NoRecord == [task |-> None, running |-> FALSE, processed |-> 0,
             result |-> "none", count |-> 0]

Resting == {"idle", "over", "dead"}
Alive   == {"prepare", "chunk", "pool", "report", "put", "end", "finish"}

\* todo: keys not handled yet; done, made: keys handled, rows changed; good:
\* no error so far; seen: the record as last read; back: where a progress
\* report returns to; at: the key each worker tests; answers: results not
\* received yet; tested: keys whose results were.
NoJob == [pc |-> "idle", todo |-> {}, done |-> 0, made |-> 0, good |-> TRUE,
          seen |-> NoRecord, back |-> "chunk", at |-> [w \in Workers |-> None],
          answers |-> {}, tested |-> {}]

Init ==
  /\ copies \in [Keys -> {0, 1}]
  /\ record = NoRecord
  /\ job = [t \in Tasks |-> NoJob]

Goto(t, pc) == job' = [job EXCEPT ![t].pc = pc]

\* A goroutine that is gone: what it did is remembered, not what it held.
Gone(t, pc) == [NoJob EXCEPT !.pc = pc, !.made = job[t].made, !.tested = job[t].tested]
Leave(t, pc) == job' = [job EXCEPT ![t] = Gone(t, pc)]

(***************************************************************************)
(* StartTask                                                               *)
(***************************************************************************)
\* Mutation: a task that is running is not looked for.
MutStartsAnyway(t) ==
  /\ job[t].pc \in Resting
  /\ StartsOverlap \/ \A u \in Tasks : job[u].pc # "start"
  /\ Goto(t, "start")
  /\ UNCHANGED <<copies, record>>

\* A start that finds a running task changes nothing.
StartGet(t) ==
  /\ job[t].pc \in Resting
  /\ StartsOverlap \/ \A u \in Tasks : job[u].pc # "start"
  /\ ~record.running
  /\ Goto(t, "start")
  /\ UNCHANGED <<copies, record>>

StartSet(t) ==
  /\ job[t].pc = "start"
  /\ record' = [NoRecord EXCEPT !.task = t, !.running = TRUE]
  /\ job' = [job EXCEPT ![t] =
       CASE Kind[t] = "import"   -> [NoJob EXCEPT !.pc = "prepare"]
         [] Kind[t] = "delete"   -> [NoJob EXCEPT !.pc = "chunk", !.todo = Text[t]]
         [] Kind[t] = "validate" -> [NoJob EXCEPT !.pc = "pool", !.todo = Text[t]]]
  /\ UNCHANGED copies

StartFails(t) ==
  /\ "store" \in Faults
  /\ job[t].pc = "start"
  /\ Goto(t, "over")
  /\ UNCHANGED <<copies, record>>

(***************************************************************************)
(* processAndCreateKeysWithWeight and processAndDeleteKeys                 *)
(***************************************************************************)
\* Mutation: only the text is searched for keys that come twice.
MutAllAreNew(t) ==
  /\ job[t].pc = "prepare"
  /\ job' = [job EXCEPT ![t].pc = "chunk", ![t].todo = Text[t]]
  /\ UNCHANGED <<copies, record>>

\* The keys the group has already are left out, once and for all chunks.
Prepare(t) ==
  /\ job[t].pc = "prepare"
  /\ job' = [job EXCEPT ![t].pc = "chunk",
                        ![t].todo = {k \in Text[t] : copies[k] = 0}]
  /\ UNCHANGED <<copies, record>>

Chunks(t) ==
  {K \in SUBSET job[t].todo :
     Cardinality(K) = Min({ChunkSize, Cardinality(job[t].todo)})}

\* AddKeys adds a row for each key, RemoveKeys deletes the rows of each.
After(t, K) ==
  [k \in Keys |-> IF k \notin K THEN copies[k]
                  ELSE IF Kind[t] = "import" THEN copies[k] + 1 ELSE 0]

Changed(t, K) ==
  IF Kind[t] = "import" THEN Cardinality(K) ELSE MapThenSumSet(LAMBDA k : copies[k], K)

Chunk(t) ==
  /\ job[t].pc = "chunk"
  /\ job[t].todo # {}
  /\ \E K \in Chunks(t) :
       /\ copies' = After(t, K)
       /\ job' = [job EXCEPT ![t].pc = "report", ![t].back = "chunk",
                             ![t].todo = @ \ K,
                             ![t].done = @ + Cardinality(K),
                             ![t].made = @ + Changed(t, K)]
  /\ UNCHANGED record

ChunksDone(t) ==
  /\ job[t].pc = "chunk"
  /\ job[t].todo = {}
  /\ Goto(t, "end")
  /\ UNCHANGED <<copies, record>>

\* Mutation: the task returns without ending.
MutReturns(t) ==
  /\ {"db", "lost answer"} \cap Faults # {}
  /\ job[t].pc = "chunk"
  /\ Leave(t, "over")
  /\ UNCHANGED <<copies, record>>

\* The first error ends the task; chunks before it stay, and the chunk itself
\* may have been committed.
ChunkFails(t) ==
  /\ job[t].pc \in {"prepare", "chunk"}
  /\ \/ "db" \in Faults /\ UNCHANGED copies
     \/ /\ "lost answer" \in Faults /\ job[t].pc = "chunk"
        /\ \E K \in Chunks(t) : copies' = After(t, K)
  /\ job' = [job EXCEPT ![t].pc = "end", ![t].good = FALSE]
  /\ UNCHANGED record

(***************************************************************************)
(* runValidation                                                           *)
(***************************************************************************)
Take(t, w) ==
  /\ Kind[t] = "validate" /\ job[t].pc \in Alive
  /\ job[t].at[w] = None
  /\ \E k \in job[t].todo :
       job' = [job EXCEPT ![t].todo = @ \ {k}, ![t].at[w] = k]
  /\ UNCHANGED <<copies, record>>

Answer(t, w) ==
  /\ job[t].pc \in Alive
  /\ job[t].at[w] # None
  /\ job' = [job EXCEPT ![t].at[w] = None, ![t].answers = @ \cup {job[t].at[w]}]
  /\ UNCHANGED <<copies, record>>

\* Progress is reported at most once a second.
Receive(t) ==
  /\ job[t].pc = "pool"
  /\ \E k \in job[t].answers, pc \in {"pool", "report"} :
       job' = [job EXCEPT ![t].answers = @ \ {k},
                          ![t].tested = @ \cup {k},
                          ![t].done = @ + 1,
                          ![t].pc = pc, ![t].back = "pool"]
  /\ UNCHANGED <<copies, record>>

\* Mutation: the results are closed with the jobs.
MutClosesEarly(t) == job[t].todo = {} /\ job[t].answers = {}

\* The results are closed when every worker has returned.
ResultsClosed(t) ==
  /\ job[t].todo = {}
  /\ \A w \in Workers : job[t].at[w] = None
  /\ job[t].answers = {}

PoolDone(t) ==
  /\ job[t].pc = "pool"
  /\ ResultsClosed(t)
  /\ job' = [job EXCEPT ![t].pc = "report", ![t].back = "end"]
  /\ UNCHANGED <<copies, record>>

(***************************************************************************)
(* UpdateProgress and EndTask: nothing when no task runs by the record.    *)
(***************************************************************************)
ReportGet(t) ==
  /\ job[t].pc = "report"
  /\ IF record.running
       THEN job' = [job EXCEPT ![t].seen = record, ![t].pc = "put"]
       ELSE Goto(t, job[t].back)
  /\ UNCHANGED <<copies, record>>

ReportPut(t) ==
  /\ job[t].pc = "put"
  /\ record' = [job[t].seen EXCEPT !.processed = job[t].done]
  /\ job' = [job EXCEPT ![t].pc = job[t].back, ![t].seen = NoRecord]
  /\ UNCHANGED copies

\* A progress that cannot be reported is logged.
ReportFails(t) ==
  /\ "store" \in Faults
  /\ job[t].pc \in {"report", "put"}
  /\ job' = [job EXCEPT ![t].pc = job[t].back, ![t].seen = NoRecord]
  /\ UNCHANGED <<copies, record>>

EndGet(t) ==
  /\ job[t].pc = "end"
  /\ IF record.running
       THEN job' = [job EXCEPT ![t].seen = record, ![t].pc = "finish"]
       ELSE Leave(t, "over")
  /\ UNCHANGED <<copies, record>>

EndPut(t) ==
  /\ job[t].pc = "finish"
  /\ record' = [job[t].seen EXCEPT
       !.running = FALSE,
       !.result  = IF job[t].good THEN "result" ELSE "error",
       !.count   = IF job[t].good THEN job[t].made ELSE 0]
  /\ Leave(t, "over")
  /\ UNCHANGED copies

\* The goroutine ends, the record does not.
EndFails(t) ==
  /\ "store" \in Faults
  /\ job[t].pc \in {"end", "finish"}
  /\ Leave(t, "dead")
  /\ UNCHANGED <<copies, record>>

(***************************************************************************)
(* The record lives for an hour after it was last written: longer than     *)
(* what a task does between two reports.  A process that dies leaves it in *)
(* Redis; the memory store dies with it, and a starting master clears the  *)
(* store.                                                                  *)
(***************************************************************************)
\* Mutation: the record is kept for ever.
MutKept == FALSE /\ UNCHANGED vars

Expire ==
  /\ record # NoRecord
  /\ record.running => job[record.task].pc \notin Alive
  /\ record' = NoRecord
  /\ UNCHANGED <<copies, job>>

Crash ==
  /\ "crash" \in Faults
  /\ \E t \in Tasks : job[t].pc \in Alive
  /\ job' = [t \in Tasks |->
       IF job[t].pc \in Alive \cup {"start"} THEN Gone(t, "dead") ELSE job[t]]
  /\ record' \in {record, NoRecord}
  /\ UNCHANGED copies

Work(t) ==
  \/ StartSet(t) \/ StartFails(t)
  \/ Prepare(t) \/ Chunk(t) \/ ChunksDone(t) \/ ChunkFails(t)
  \/ Receive(t) \/ PoolDone(t)
  \/ ReportGet(t) \/ ReportPut(t) \/ ReportFails(t)
  \/ EndGet(t) \/ EndPut(t) \/ EndFails(t)

Next ==
  \/ \E t \in Tasks : StartGet(t) \/ Work(t)
  \/ \E t \in Tasks, w \in Workers : Take(t, w) \/ Answer(t, w)
  \/ Expire \/ Crash

Spec == Init /\ [][Next]_vars

\* Goroutines are scheduled, calls and tests of keys return, and an hour
\* passes.
FairSpec ==
  /\ Spec
  /\ \A t \in Tasks : WF_vars(Work(t))
  /\ \A t \in Tasks, w \in Workers : WF_vars(Take(t, w) \/ Answer(t, w))
  /\ WF_vars(Expire)
=============================================================================
