---------------------------- MODULE KeyTasksProofs ----------------------------
(***************************************************************************)
(* Proofs about KeyTasks: one task at a time, no key twice, no record left *)
(* running and none that shows what is not so, for any number of tasks,    *)
(* keys and workers and whatever fails, as long as no two starts overlap.  *)
(***************************************************************************)
EXTENDS KeyTasksProps, TLAPS

(***************************************************************************)
(* The inductive invariant.  A goroutine between the reading and the       *)
(* writing of the record has read a record of its own running task, so     *)
(* what it writes back is its own too.                                     *)
(***************************************************************************)
Fields == {"pc", "todo", "done", "made", "good", "seen", "back", "at",
           "answers", "tested"}

Shape ==
  /\ copies \in [Keys -> Nat]
  /\ job = [t \in Tasks |-> job[t]]
  /\ \A t \in Tasks : DOMAIN job[t] = Fields /\ job[t].todo \subseteq Keys

RecordShape(r) == DOMAIN r = {"task", "running", "processed", "result", "count"}

OneStart == \A t, u \in Tasks : job[t].pc = "start" /\ job[u].pc = "start" => t = u

AliveOwns ==
  \A t \in Tasks : job[t].pc \in Alive =>
    /\ record.running /\ record.task = t
    /\ \A u \in Tasks \ {t} : job[u].pc \notin Alive \cup {"start"}

SeenIsOwn ==
  /\ RecordShape(record)
  /\ \A t \in Tasks : job[t].pc \in {"put", "finish"} =>
       /\ RecordShape(job[t].seen)
       /\ job[t].seen.running /\ job[t].seen.task = t

\* Progress returns to where a goroutine is alive.
BackIsAlive == \A t \in Tasks : job[t].back \in {"chunk", "pool", "end"}

OwnerInv == Shape /\ OneStart /\ AliveOwns /\ SeenIsOwn /\ BackIsAlive

\* What an import has yet to add is not in the group.
Importing == {"chunk", "pool", "report", "put"}

TodoIsNew ==
  \A t \in Tasks : Kind[t] = "import" /\ job[t].pc \in Importing =>
    \A k \in job[t].todo : copies[k] = 0

Once == \A k \in Keys : copies[k] <= 1

OnceInv == OwnerInv /\ TodoIsNew /\ Once

(***************************************************************************)
(* Steps of one goroutine that leave the record alone.                     *)
(***************************************************************************)
GoodJob(j, t) ==
  /\ DOMAIN j = Fields /\ j.todo \subseteq Keys
  /\ j.back \in {"chunk", "pool", "end"}
  /\ j.pc \in {"put", "finish"} =>
       RecordShape(j.seen) /\ j.seen.running /\ j.seen.task = t

LEMMA JobsAreGood ==
  ASSUME OwnerInv, NEW t \in Tasks
  PROVE  GoodJob(job[t], t)
BY DEF OwnerInv, Shape, SeenIsOwn, BackIsAlive, GoodJob

LEMMA Moves ==
  ASSUME OwnerInv, NEW t \in Tasks, NEW j,
         job' = [job EXCEPT ![t] = j], record' = record,
         copies' \in [Keys -> Nat],
         GoodJob(j, t), j.pc # "start",
         j.pc \in Alive => job[t].pc \in Alive
  PROVE  OwnerInv'
<1>1. /\ DOMAIN job = Tasks /\ job'[t] = j
      /\ \A u \in Tasks \ {t} : job'[u] = job[u]
  BY DEF OwnerInv, Shape
<1>2. Shape'
  BY <1>1 DEF OwnerInv, Shape, GoodJob
<1>3. OneStart'
  BY <1>1 DEF OwnerInv, OneStart
<1>4. AliveOwns'
  BY <1>1 DEF OwnerInv, AliveOwns, Alive
<1>5. SeenIsOwn'
  BY <1>1 DEF OwnerInv, SeenIsOwn, GoodJob
<1>6. BackIsAlive'
  BY <1>1 DEF OwnerInv, BackIsAlive, GoodJob
<1> QED
  BY <1>2, <1>3, <1>4, <1>5, <1>6 DEF OwnerInv

\* What a goroutine that is alive does to the rows keeps import and group apart.
LEMMA Adds ==
  ASSUME OnceInv, NEW t \in Tasks, NEW j, job[t].pc \in Alive,
         job' = [job EXCEPT ![t] = j], OwnerInv',
         \A k \in Keys : copies'[k] <= 1,
         Kind[t] = "import" /\ j.pc \in Importing =>
           \A k \in j.todo : copies'[k] = 0
  PROVE  OnceInv'
<1>1. DOMAIN job = Tasks /\ job'[t] = j /\ \A u \in Tasks \ {t} : job'[u] = job[u]
  BY DEF OnceInv, OwnerInv, Shape
<1>2. \A u \in Tasks \ {t} : job[u].pc \notin Alive
  BY DEF OnceInv, OwnerInv, AliveOwns
<1>3. TodoIsNew'
  BY <1>1, <1>2 DEF TodoIsNew, Importing, Alive
<1> QED
  BY <1>3 DEF OnceInv, Once

\* A step that adds no row and gives no import more to do.
LEMMA Stays ==
  ASSUME OnceInv, NEW t \in Tasks, NEW j,
         job' = [job EXCEPT ![t] = j], OwnerInv', UNCHANGED copies,
         Kind[t] = "import" /\ j.pc \in Importing =>
           job[t].pc \in Importing /\ j.todo \subseteq job[t].todo
  PROVE  OnceInv'
<1>1. DOMAIN job = Tasks /\ job'[t] = j /\ \A u \in Tasks \ {t} : job'[u] = job[u]
  BY DEF OnceInv, OwnerInv, Shape
<1>2. TodoIsNew'
  BY <1>1 DEF OnceInv, TodoIsNew
<1> QED
  BY <1>2 DEF OnceInv, Once

(***************************************************************************)
(* The actions.                                                            *)
(***************************************************************************)
\* One goroutine is replaced, the record stays.
Replaced(t, j) == job' = [job EXCEPT ![t] = j] /\ UNCHANGED record

\* Steps of a goroutine that is alive, or of a start that fails.
Own(t) ==
  \/ StartFails(t) \/ Prepare(t) \/ ChunksDone(t)
  \/ Receive(t) \/ PoolDone(t)
  \/ ReportGet(t) \/ ReportFails(t) \/ EndGet(t) \/ EndFails(t)

LEMMA OwnSteps ==
  ASSUME OwnerInv, NEW t \in Tasks, Own(t)
  PROVE  /\ Replaced(t, job'[t]) /\ UNCHANGED copies
         /\ GoodJob(job'[t], t) /\ job'[t].pc # "start"
         /\ job'[t].pc \in Alive => job[t].pc \in Alive
         /\ job'[t].pc \in Importing =>
              \/ job[t].pc \in Importing /\ job'[t].todo \subseteq job[t].todo
              \/ \A k \in job'[t].todo : copies[k] = 0
<1> USE JobsAreGood DEF GoodJob, Replaced, Importing, Alive, Fields
<1> /\ DOMAIN job = Tasks /\ RecordShape(record)
    /\ job[t].pc \in Alive => record.running /\ record.task = t
  BY DEF OwnerInv, Shape, SeenIsOwn, AliveOwns
<1>1. CASE StartFails(t)
  BY <1>1 DEF StartFails, Goto
<1>2. CASE Prepare(t)
  <2> DEFINE j == [job[t] EXCEPT !.pc = "chunk",
                                 !.todo = {k \in Text[t] : copies[k] = 0}]
  <2>1. Text[t] \subseteq Keys
    BY KeyTasksAssumption
  <2>2. job[t].pc = "prepare" /\ Replaced(t, j) /\ job'[t] = j /\ UNCHANGED copies
    BY <1>2 DEF Prepare
  <2>3. /\ DOMAIN j = Fields /\ j.pc = "chunk" /\ j.back = job[t].back
        /\ j.todo = {k \in Text[t] : copies[k] = 0}
    OBVIOUS
  <2> HIDE DEF j
  <2> QED
    BY <2>1, <2>2, <2>3
<1>3. CASE ChunksDone(t)
  BY <1>3 DEF ChunksDone, Goto
<1>4. CASE Receive(t)
  <2>1. PICK k \in job[t].answers, pc \in {"pool", "report"} :
          job' = [job EXCEPT ![t].answers = @ \ {k}, ![t].tested = @ \cup {k},
                             ![t].done = @ + 1, ![t].pc = pc, ![t].back = "pool"]
    BY <1>4 DEF Receive
  <2> DEFINE j == [job[t] EXCEPT !.answers = @ \ {k}, !.tested = @ \cup {k},
                                 !.done = @ + 1, !.pc = pc, !.back = "pool"]
  <2>2. job' = [job EXCEPT ![t] = j]
    BY ONLY <2>1, t \in Tasks, DOMAIN job = Tasks, Zenon
  <2>4. job[t].pc = "pool" /\ Replaced(t, j) /\ job'[t] = j /\ UNCHANGED copies
    BY <1>4, <2>2 DEF Receive
  <2>3. /\ DOMAIN j = Fields /\ j.pc = pc /\ j.back = "pool"
        /\ j.todo = job[t].todo
    OBVIOUS
  <2> HIDE DEF j
  <2> QED
    BY <2>4, <2>3
<1>5. CASE PoolDone(t)
  <2> DEFINE j == [job[t] EXCEPT !.pc = "report", !.back = "end"]
  <2>1. job[t].pc = "pool" /\ Replaced(t, j) /\ job'[t] = j /\ UNCHANGED copies
    BY <1>5 DEF PoolDone
  <2>2. /\ DOMAIN j = Fields /\ j.pc = "report" /\ j.back = "end"
        /\ j.todo = job[t].todo
    OBVIOUS
  <2> HIDE DEF j
  <2> QED
    BY <2>1, <2>2
<1>6. CASE ReportGet(t)
  BY <1>6 DEF ReportGet, Goto
<1>7. CASE ReportFails(t)
  <2> DEFINE j == [job[t] EXCEPT !.pc = job[t].back, !.seen = NoRecord]
  <2>1. /\ job[t].pc \in {"report", "put"} /\ Replaced(t, j) /\ job'[t] = j
        /\ UNCHANGED copies
    BY <1>7 DEF ReportFails
  <2>2. /\ DOMAIN j = Fields /\ j.pc = job[t].back /\ j.back = job[t].back
        /\ j.todo = job[t].todo
    OBVIOUS
  <2> HIDE DEF j
  <2> QED
    BY <2>1, <2>2
<1>8. CASE EndGet(t)
  BY <1>8 DEF EndGet, Leave, Gone, NoJob
<1>9. CASE EndFails(t)
  BY <1>9 DEF EndFails, Leave, Gone, NoJob
<1> QED
  BY <1>1, <1>2, <1>3, <1>4, <1>5, <1>6, <1>7, <1>8, <1>9 DEF Own

LEMMA OwnKeeps ==
  ASSUME OnceInv, NEW t \in Tasks, Own(t)
  PROVE  OnceInv'
<1>1. /\ Replaced(t, job'[t]) /\ UNCHANGED copies
      /\ GoodJob(job'[t], t) /\ job'[t].pc # "start"
      /\ job'[t].pc \in Alive => job[t].pc \in Alive
      /\ job'[t].pc \in Importing =>
           \/ job[t].pc \in Importing /\ job'[t].todo \subseteq job[t].todo
           \/ \A k \in job'[t].todo : copies[k] = 0
  BY OwnSteps DEF OnceInv
<1>2. OwnerInv'
  BY <1>1, Moves DEF OnceInv, OwnerInv, Shape, Replaced
<1>3. CASE job[t].pc \in Alive
  <2>1. \A k \in Keys : copies'[k] <= 1
    BY <1>1 DEF OnceInv, Once
  <2>2. Kind[t] = "import" /\ job'[t].pc \in Importing =>
          \A k \in job'[t].todo : copies'[k] = 0
    BY <1>1 DEF OnceInv, TodoIsNew
  <2> QED
    BY <1>1, <1>2, <1>3, <2>1, <2>2, Adds DEF Replaced
<1>4. CASE job[t].pc \notin Alive
  BY <1>1, <1>2, <1>4, Stays DEF Replaced, Importing, Alive
<1> QED
  BY <1>3, <1>4

\* The workers of a validation.
LEMMA WorkersKeep ==
  ASSUME OnceInv, NEW t \in Tasks, NEW w \in Workers, Take(t, w) \/ Answer(t, w)
  PROVE  OnceInv'
<1> DOMAIN job = Tasks /\ GoodJob(job[t], t) /\ copies \in [Keys -> Nat]
  BY JobsAreGood DEF OnceInv, OwnerInv, Shape
<1>1. CASE Take(t, w)
  <2>1. PICK k \in job[t].todo :
          job' = [job EXCEPT ![t].todo = @ \ {k}, ![t].at[w] = k]
    BY <1>1 DEF Take
  <2> DEFINE j == [job[t] EXCEPT !.todo = @ \ {k}, !.at[w] = k]
  <2>2. job' = [job EXCEPT ![t] = j]
    BY ONLY <2>1, t \in Tasks, DOMAIN job = Tasks, Zenon
  <2>3. /\ DOMAIN j = Fields /\ j.pc = job[t].pc /\ j.back = job[t].back
        /\ j.seen = job[t].seen /\ j.todo = job[t].todo \ {k}
    BY DEF GoodJob, Fields
  <2> HIDE DEF j
  <2>4. GoodJob(j, t) /\ j.pc # "start" /\ job[t].pc \in Alive /\ UNCHANGED <<copies, record>>
    BY <1>1, <2>3 DEF Take, GoodJob, Alive
  <2>5. OwnerInv'
    BY <2>2, <2>3, <2>4, Moves DEF OnceInv
  <2> QED
    BY <2>2, <2>3, <2>4, <2>5, Stays
<1>2. CASE Answer(t, w)
  <2> DEFINE j == [job[t] EXCEPT !.at[w] = None, !.answers = @ \cup {job[t].at[w]}]
  <2>1. job' = [job EXCEPT ![t].at[w] = None, ![t].answers = @ \cup {job[t].at[w]}]
    BY <1>2 DEF Answer
  <2>2. job' = [job EXCEPT ![t] = j]
    BY ONLY <2>1, t \in Tasks, DOMAIN job = Tasks, Zenon
  <2>3. /\ DOMAIN j = Fields /\ j.pc = job[t].pc /\ j.back = job[t].back
        /\ j.seen = job[t].seen /\ j.todo = job[t].todo
    BY DEF GoodJob, Fields
  <2> HIDE DEF j
  <2>4. GoodJob(j, t) /\ j.pc # "start" /\ job[t].pc \in Alive /\ UNCHANGED <<copies, record>>
    BY <1>2, <2>3 DEF Answer, GoodJob, Alive
  <2>5. OwnerInv'
    BY <2>2, <2>3, <2>4, Moves DEF OnceInv
  <2> QED
    BY <2>2, <2>3, <2>4, <2>5, Stays
<1> QED
  BY <1>1, <1>2

\* A chunk of keys that are not in the group, or that are deleted.
LEMMA AfterChunk ==
  ASSUME OnceInv, NEW t \in Tasks, job[t].pc = "chunk", NEW K \in Chunks(t)
  PROVE  /\ After(t, K) \in [Keys -> Nat]
         /\ \A k \in Keys : After(t, K)[k] <= 1
         /\ \A k \in Keys \ K : After(t, K)[k] = copies[k]
<1>1. K \subseteq job[t].todo /\ K \subseteq Keys /\ copies \in [Keys -> Nat]
  BY DEF Chunks, OnceInv, OwnerInv, Shape
<1>2. \A k \in Keys : copies[k] <= 1
  BY DEF OnceInv, Once
<1>3. Kind[t] = "import" => \A k \in K : copies[k] = 0
  BY <1>1 DEF OnceInv, TodoIsNew, Importing
<1> QED
  BY <1>1, <1>2, <1>3 DEF After

LEMMA ChunkKeeps ==
  ASSUME OnceInv, NEW t \in Tasks, Chunk(t)
  PROVE  OnceInv'
<1> DOMAIN job = Tasks /\ GoodJob(job[t], t)
  BY JobsAreGood DEF OnceInv, OwnerInv, Shape
<1>1. job[t].pc = "chunk" /\ UNCHANGED record
  BY DEF Chunk
<1>2. PICK K \in Chunks(t) :
        /\ copies' = After(t, K)
        /\ job' = [job EXCEPT ![t].pc = "report", ![t].back = "chunk",
                              ![t].todo = @ \ K,
                              ![t].done = @ + Cardinality(K),
                              ![t].made = @ + Changed(t, K)]
  BY DEF Chunk
<1> DEFINE j == [job[t] EXCEPT !.pc = "report", !.back = "chunk",
                               !.todo = @ \ K,
                               !.done = @ + Cardinality(K),
                               !.made = @ + Changed(t, K)]
<1>3. job' = [job EXCEPT ![t] = j]
  BY ONLY <1>2, t \in Tasks, DOMAIN job = Tasks, Zenon
<1>4. /\ DOMAIN j = Fields /\ j.pc = "report" /\ j.back = "chunk"
      /\ j.todo = job[t].todo \ K
  BY DEF GoodJob, Fields
<1> HIDE DEF j
<1>5. GoodJob(j, t) /\ job[t].pc \in Alive
  BY <1>1, <1>4 DEF GoodJob, Alive
<1>6. OwnerInv'
  BY <1>1, <1>2, <1>3, <1>4, <1>5, AfterChunk, Moves DEF OnceInv
<1>7. Kind[t] = "import" => \A k \in j.todo : copies'[k] = 0
  BY <1>1, <1>2, <1>4, AfterChunk DEF GoodJob, OnceInv, TodoIsNew, Importing
<1> QED
  BY <1>1, <1>2, <1>3, <1>5, <1>6, <1>7, AfterChunk, Adds

LEMMA ChunkFailsKeeps ==
  ASSUME OnceInv, NEW t \in Tasks, ChunkFails(t)
  PROVE  OnceInv'
<1> DOMAIN job = Tasks /\ GoodJob(job[t], t) /\ copies \in [Keys -> Nat]
  BY JobsAreGood DEF OnceInv, OwnerInv, Shape
<1> DEFINE j == [job[t] EXCEPT !.pc = "end", !.good = FALSE]
<1>1. job[t].pc \in {"prepare", "chunk"} /\ UNCHANGED record /\ job' = [job EXCEPT ![t] = j]
  BY DEF ChunkFails
<1>2. /\ DOMAIN j = Fields /\ j.pc = "end" /\ j.back = job[t].back
      /\ j.todo = job[t].todo
  BY DEF GoodJob, Fields
<1> HIDE DEF j
<1>3. GoodJob(j, t) /\ job[t].pc \in Alive
  BY <1>1, <1>2 DEF GoodJob, Alive
<1>4. copies' \in [Keys -> Nat] /\ \A k \in Keys : copies'[k] <= 1
  <2>1. CASE UNCHANGED copies
    BY <2>1 DEF OnceInv, Once
  <2>2. CASE job[t].pc = "chunk" /\ \E K \in Chunks(t) : copies' = After(t, K)
    BY <2>2, AfterChunk
  <2> QED
    BY <2>1, <2>2 DEF ChunkFails
<1>5. OwnerInv'
  BY <1>1, <1>2, <1>3, <1>4, Moves DEF OnceInv
<1> QED
  BY <1>1, <1>2, <1>3, <1>4, <1>5, Adds DEF Importing

(***************************************************************************)
(* The actions on the record.                                              *)
(***************************************************************************)
\* With no overlapping starts, a start begins when nothing is alive.
LEMMA StartGetKeeps ==
  ASSUME ~StartsOverlap, OnceInv, NEW t \in Tasks, StartGet(t)
  PROVE  OnceInv'
<1> DEFINE j == [job[t] EXCEPT !.pc = "start"]
<1>1. /\ DOMAIN job = Tasks /\ GoodJob(job[t], t)
      /\ job' = [job EXCEPT ![t] = j] /\ UNCHANGED <<copies, record>>
      /\ job[t].pc \in Resting /\ ~record.running
      /\ \A u \in Tasks : job[u].pc # "start"
  BY JobsAreGood DEF StartGet, Goto, OnceInv, OwnerInv, Shape
<1>2. /\ DOMAIN j = Fields /\ j.pc = "start" /\ j.back = job[t].back
      /\ j.todo = job[t].todo /\ job'[t] = j
      /\ \A u \in Tasks \ {t} : job'[u] = job[u]
  BY <1>1 DEF GoodJob, Fields
<1> HIDE DEF j
<1>3. \A u \in Tasks : job[u].pc \notin Alive
  BY <1>1 DEF OnceInv, OwnerInv, AliveOwns
<1>4. Shape'
  BY <1>1, <1>2 DEF OnceInv, OwnerInv, Shape, GoodJob
<1>5. OneStart' /\ AliveOwns'
  BY <1>1, <1>2, <1>3 DEF OneStart, AliveOwns, Alive
<1>6. SeenIsOwn' /\ BackIsAlive'
  BY <1>1, <1>2 DEF OnceInv, OwnerInv, SeenIsOwn, BackIsAlive, GoodJob
<1>7. TodoIsNew' /\ Once'
  BY <1>1, <1>2 DEF OnceInv, TodoIsNew, Once, Importing
<1> QED
  BY <1>4, <1>5, <1>6, <1>7 DEF OnceInv, OwnerInv

LEMMA StartSetKeeps ==
  ASSUME OnceInv, NEW t \in Tasks, StartSet(t)
  PROVE  OnceInv'
<1> DEFINE j == CASE Kind[t] = "import"   -> [NoJob EXCEPT !.pc = "prepare"]
                  [] Kind[t] = "delete"   -> [NoJob EXCEPT !.pc = "chunk", !.todo = Text[t]]
                  [] Kind[t] = "validate" -> [NoJob EXCEPT !.pc = "pool", !.todo = Text[t]]
<1>a. DOMAIN job = Tasks /\ job = [u \in Tasks |-> job[u]]
  BY DEF OnceInv, OwnerInv, Shape
<1>b. job[t].pc = "start" /\ UNCHANGED copies /\ job' = [job EXCEPT ![t] = j]
  BY DEF StartSet
<1> HIDE DEF j
<1>1. /\ DOMAIN job = Tasks /\ job[t].pc = "start" /\ UNCHANGED copies
      /\ job'[t] = j /\ \A u \in Tasks \ {t} : job'[u] = job[u]
      /\ job' = [u \in Tasks |-> job'[u]]
  BY <1>a, <1>b
<1>2. /\ RecordShape(record') /\ record'.running /\ record'.task = t
  BY DEF StartSet, NoRecord, RecordShape
<1>3. Kind[t] \in Kinds /\ Text[t] \subseteq Keys
  BY KeyTasksAssumption
<1>4. /\ DOMAIN job'[t] = Fields /\ job'[t].back = "chunk"
      /\ job'[t].todo \subseteq Keys
      /\ job'[t].pc = IF Kind[t] = "import" THEN "prepare"
                      ELSE IF Kind[t] = "delete" THEN "chunk" ELSE "pool"
  BY <1>1, <1>3 DEF j, NoJob, Kinds, Fields
<1>5. \A u \in Tasks \ {t} : job[u].pc \notin Alive \cup {"start"}
  BY <1>1 DEF OnceInv, OwnerInv, OneStart, AliveOwns
<1>6. Shape'
  BY <1>1, <1>4 DEF OnceInv, OwnerInv, Shape
<1>7. OneStart' /\ AliveOwns'
  BY <1>1, <1>2, <1>4, <1>5 DEF OneStart, AliveOwns
<1>8. SeenIsOwn' /\ BackIsAlive'
  BY <1>1, <1>2, <1>4, <1>5 DEF OnceInv, OwnerInv, SeenIsOwn, BackIsAlive
<1>9. TodoIsNew' /\ Once'
  BY <1>1, <1>4 DEF OnceInv, TodoIsNew, Once, Importing
<1> QED
  BY <1>6, <1>7, <1>8, <1>9 DEF OnceInv, OwnerInv

\* What is written back names the goroutine that read it.
LEMMA ReportPutKeeps ==
  ASSUME OnceInv, NEW t \in Tasks, ReportPut(t)
  PROVE  OnceInv'
<1> DEFINE j == [job[t] EXCEPT !.pc = job[t].back, !.seen = NoRecord]
<1>1. /\ DOMAIN job = Tasks /\ GoodJob(job[t], t) /\ job[t].pc = "put"
      /\ job' = [job EXCEPT ![t] = j] /\ UNCHANGED copies
  BY JobsAreGood DEF ReportPut, OnceInv, OwnerInv, Shape
<1>2. /\ DOMAIN j = Fields /\ j.pc = job[t].back /\ j.back = job[t].back
      /\ j.todo = job[t].todo /\ job'[t] = j
      /\ \A u \in Tasks \ {t} : job'[u] = job[u]
  BY <1>1 DEF GoodJob, Fields
<1> HIDE DEF j
<1>3. RecordShape(record') /\ record'.running /\ record'.task = t
  BY <1>1 DEF ReportPut, GoodJob, RecordShape
<1>4. \A u \in Tasks \ {t} : job[u].pc \notin Alive \cup {"start"}
  BY <1>1 DEF OnceInv, OwnerInv, AliveOwns, Alive
<1>5. j.pc \in {"chunk", "pool", "end"}
  BY <1>1, <1>2 DEF GoodJob
<1>6. Shape'
  BY <1>1, <1>2 DEF OnceInv, OwnerInv, Shape, GoodJob
<1>7. OneStart' /\ AliveOwns'
  BY <1>1, <1>2, <1>3, <1>4, <1>5 DEF OneStart, AliveOwns
<1>8. SeenIsOwn' /\ BackIsAlive'
  BY <1>1, <1>2, <1>3, <1>4, <1>5 DEF OnceInv, OwnerInv, SeenIsOwn, BackIsAlive, GoodJob, Alive
<1>9. TodoIsNew' /\ Once'
  BY <1>1, <1>2 DEF OnceInv, TodoIsNew, Once, Importing
<1> QED
  BY <1>6, <1>7, <1>8, <1>9 DEF OnceInv, OwnerInv

LEMMA EndPutKeeps ==
  ASSUME OnceInv, NEW t \in Tasks, EndPut(t)
  PROVE  OnceInv'
<1> DEFINE j == Gone(t, "over")
<1>1. /\ DOMAIN job = Tasks /\ GoodJob(job[t], t) /\ job[t].pc = "finish"
      /\ job' = [job EXCEPT ![t] = j] /\ UNCHANGED copies
  BY JobsAreGood DEF EndPut, Leave, OnceInv, OwnerInv, Shape
<1>2. /\ DOMAIN j = Fields /\ j.pc = "over" /\ j.back = "chunk"
      /\ j.todo = {} /\ job'[t] = j
      /\ \A u \in Tasks \ {t} : job'[u] = job[u]
  BY <1>1 DEF Gone, NoJob, Fields
<1> HIDE DEF j
<1>3. RecordShape(record')
  BY <1>1 DEF EndPut, GoodJob, RecordShape
<1>4. \A u \in Tasks \ {t} : job[u].pc \notin Alive \cup {"start"}
  BY <1>1 DEF OnceInv, OwnerInv, AliveOwns, Alive
<1>5. Shape'
  BY <1>1, <1>2 DEF OnceInv, OwnerInv, Shape
<1>6. OneStart' /\ AliveOwns'
  BY <1>1, <1>2, <1>4 DEF OneStart, AliveOwns, Alive
<1>7. SeenIsOwn' /\ BackIsAlive'
  BY <1>1, <1>2, <1>3 DEF OnceInv, OwnerInv, SeenIsOwn, BackIsAlive
<1>8. TodoIsNew' /\ Once'
  BY <1>1, <1>2 DEF OnceInv, TodoIsNew, Once, Importing
<1> QED
  BY <1>5, <1>6, <1>7, <1>8 DEF OnceInv, OwnerInv

\* A record that expires, or a crash, leaves nothing that is alive.
LEMMA ExpireKeeps == OnceInv /\ Expire => OnceInv'
<1> SUFFICES ASSUME OnceInv, Expire PROVE OnceInv'
  OBVIOUS
<1>1. \A t \in Tasks : job[t].pc \notin Alive
  BY DEF Expire, OnceInv, OwnerInv, AliveOwns
<1>2. UNCHANGED <<copies, job>> /\ RecordShape(record')
  BY DEF Expire, NoRecord, RecordShape
<1>3. Shape' /\ OneStart' /\ BackIsAlive'
  BY <1>2 DEF OnceInv, OwnerInv, Shape, OneStart, BackIsAlive
<1>4. AliveOwns' /\ SeenIsOwn'
  BY <1>1, <1>2 DEF OnceInv, OwnerInv, AliveOwns, SeenIsOwn
<1>5. TodoIsNew' /\ Once'
  BY <1>2 DEF OnceInv, TodoIsNew, Once
<1> QED
  BY <1>3, <1>4, <1>5 DEF OnceInv, OwnerInv

LEMMA CrashKeeps == OnceInv /\ Crash => OnceInv'
<1> SUFFICES ASSUME OnceInv, Crash PROVE OnceInv'
  OBVIOUS
<1>1. \A t \in Tasks : DOMAIN job[t] = Fields /\ GoodJob(job[t], t)
  BY JobsAreGood DEF OnceInv, GoodJob
<1>2. \A t \in Tasks :
        /\ DOMAIN Gone(t, "dead") = Fields /\ Gone(t, "dead").pc = "dead"
        /\ Gone(t, "dead").todo = {} /\ Gone(t, "dead").back = "chunk"
  BY DEF Gone, NoJob, Fields
<1>3. /\ job' = [t \in Tasks |-> job'[t]] /\ UNCHANGED copies
      /\ \A t \in Tasks : job'[t] = IF job[t].pc \in Alive \cup {"start"}
                                      THEN Gone(t, "dead") ELSE job[t]
  BY DEF Crash
<1>4. \A t \in Tasks : job'[t].pc \notin Alive \cup {"start"}
  BY <1>2, <1>3 DEF Alive
<1>5. Shape' /\ BackIsAlive'
  BY <1>1, <1>2, <1>3 DEF OnceInv, OwnerInv, Shape, BackIsAlive, GoodJob
<1>6. RecordShape(record')
  BY DEF Crash, OnceInv, OwnerInv, SeenIsOwn, NoRecord, RecordShape
<1>7. OneStart' /\ AliveOwns' /\ SeenIsOwn' /\ TodoIsNew'
  BY <1>4, <1>6 DEF OneStart, AliveOwns, SeenIsOwn, TodoIsNew, Importing, Alive
<1>8. Once'
  BY <1>3 DEF OnceInv, Once
<1> QED
  BY <1>5, <1>7, <1>8 DEF OnceInv, OwnerInv

(***************************************************************************)
(* The theorems.                                                           *)
(***************************************************************************)
IInv == ~StartsOverlap => OnceInv

LEMMA InitHolds == Init => IInv
<1> SUFFICES ASSUME Init PROVE OnceInv
  BY DEF IInv
<1>1. \A t \in Tasks :
        /\ job[t] = NoJob /\ DOMAIN NoJob = Fields /\ NoJob.pc = "idle"
        /\ NoJob.todo = {} /\ NoJob.back = "chunk"
  BY DEF Init, NoJob, Fields
<1>2. Shape /\ BackIsAlive
  BY <1>1 DEF Init, Shape, BackIsAlive
<1>3. OneStart /\ AliveOwns /\ TodoIsNew
  BY <1>1 DEF OneStart, AliveOwns, TodoIsNew, Importing, Alive
<1>4. SeenIsOwn
  BY <1>1 DEF Init, SeenIsOwn, RecordShape, NoRecord
<1>5. Once
  BY DEF Init, Once
<1> QED
  BY <1>2, <1>3, <1>4, <1>5 DEF OnceInv, OwnerInv

LEMMA StepHolds == IInv /\ [Next]_vars => IInv'
<1> SUFFICES ASSUME ~StartsOverlap, OnceInv, [Next]_vars PROVE OnceInv'
  BY DEF IInv
<1>1. ASSUME NEW t \in Tasks, StartGet(t) \/ Work(t)
      PROVE  OnceInv'
  <2>1. CASE StartGet(t)
    BY <2>1, StartGetKeeps
  <2>2. CASE StartSet(t)
    BY <2>2, StartSetKeeps
  <2>3. CASE Chunk(t)
    BY <2>3, ChunkKeeps
  <2>4. CASE ChunkFails(t)
    BY <2>4, ChunkFailsKeeps
  <2>5. CASE ReportPut(t)
    BY <2>5, ReportPutKeeps
  <2>6. CASE EndPut(t)
    BY <2>6, EndPutKeeps
  <2>7. CASE Own(t)
    BY <2>7, OwnKeeps
  <2> QED
    BY <1>1, <2>1, <2>2, <2>3, <2>4, <2>5, <2>6, <2>7 DEF Work, Own
<1>2. ASSUME NEW t \in Tasks, NEW w \in Workers, Take(t, w) \/ Answer(t, w)
      PROVE  OnceInv'
  BY <1>2, WorkersKeep
<1>3. CASE Expire
  BY <1>3, ExpireKeeps
<1>4. CASE Crash
  BY <1>4, CrashKeeps
<1>5. CASE UNCHANGED vars
  BY <1>5 DEF vars, OnceInv, OwnerInv, Shape, OneStart, AliveOwns, SeenIsOwn,
              BackIsAlive, TodoIsNew, Once
<1> QED
  BY <1>1, <1>2, <1>3, <1>4, <1>5 DEF Next

(***************************************************************************)
(* While starts do not overlap, rows, record and goroutines keep their     *)
(* types, for any tasks, keys and workers.                                 *)
(***************************************************************************)
THEOREM TypesHold ==
  ASSUME ~StartsOverlap
  PROVE  Spec => []TypeOK
<1>1. DOMAIN NoRecord = {"task", "running", "processed", "result", "count"}
      /\ DOMAIN NoJob = Fields
  BY DEF NoRecord, NoJob, Fields
<1>2. IInv => TypeOK
  BY <1>1 DEF IInv, OnceInv, OwnerInv, Shape, SeenIsOwn, RecordShape, BackIsAlive, TypeOK
<1> QED
  BY <1>2, InitHolds, StepHolds, PTL DEF Spec

(***************************************************************************)
(* While starts do not overlap, whatever fails or crashes, no two tasks    *)
(* run at the same time and the record names the one that runs.            *)
(* (StartTask, UpdateProgress, EndTask.)                                   *)
(***************************************************************************)
THEOREM OneTask == Spec => []OneAtATime
<1>1. IInv => OneAtATime
  BY DEF IInv, OnceInv, OwnerInv, AliveOwns, OneAtATime
<1> QED
  BY <1>1, InitHolds, StepHolds, PTL DEF Spec

(***************************************************************************)
(* While starts do not overlap, no import adds a key the group has         *)
(* already, for any number of tasks, keys and keys per chunk.              *)
(* (processAndCreateKeysWithWeight.)                                       *)
(***************************************************************************)
THEOREM NoKeyTwice == Spec => []NoDuplicates
<1>1. IInv => NoDuplicates
  BY DEF IInv, OnceInv, Once, NoDuplicates
<1> QED
  BY <1>1, InitHolds, StepHolds, PTL DEF Spec

(***************************************************************************)
(* Who leaves a record running.  A start waits for its turn with a record  *)
(* that says nobody runs.                                                  *)
(***************************************************************************)
EndsInv ==
  /\ record.running => /\ record.task \in Tasks
                       /\ job[record.task].pc \in Alive \cup {"dead"}
  /\ \A t \in Tasks : job[t].pc = "start" => ~record.running

\* A goroutine that does not run goes on, or one that runs stays or dies.
LEMMA EndsMoves ==
  ASSUME EndsInv, DOMAIN job = Tasks, NEW t \in Tasks, NEW j,
         job' = [job EXCEPT ![t] = j], record' = record,
         record.running /\ job[t].pc \in Alive => j.pc \in Alive \cup {"dead"},
         record.running => job[t].pc # "dead" /\ j.pc # "start"
  PROVE  EndsInv'
BY DEF EndsInv, Alive

LEMMA ChunkReports ==
  ASSUME NEW t \in Tasks, DOMAIN job = Tasks, DOMAIN job[t] = Fields, Chunk(t)
  PROVE  \E j : job' = [job EXCEPT ![t] = j] /\ UNCHANGED record /\ j.pc = "report"
<1>1. PICK K \in Chunks(t) :
        job' = [job EXCEPT ![t].pc = "report", ![t].back = "chunk",
                          ![t].todo = @ \ K,
                          ![t].done = @ + Cardinality(K),
                          ![t].made = @ + Changed(t, K)]
  BY DEF Chunk
<1> DEFINE j == [job[t] EXCEPT !.pc = "report", !.back = "chunk",
                               !.todo = @ \ K,
                               !.done = @ + Cardinality(K),
                               !.made = @ + Changed(t, K)]
<1>2. job' = [job EXCEPT ![t] = j]
  BY ONLY <1>1, t \in Tasks, DOMAIN job = Tasks, Zenon
<1>3. j.pc = "report"
  BY DEF Fields
<1> HIDE DEF j
<1> QED
  BY <1>2, <1>3 DEF Chunk

LEMMA OwnEnds ==
  ASSUME OnceInv, EndsInv, NEW t \in Tasks, Own(t) \/ Chunk(t) \/ ChunkFails(t)
  PROVE  EndsInv'
<1>1. /\ DOMAIN job = Tasks /\ DOMAIN job[t] = Fields
      /\ job[t].back \in {"chunk", "pool", "end"}
  BY DEF OnceInv, OwnerInv, Shape, BackIsAlive
<1> DOMAIN job = Tasks
  BY <1>1
<1>2. \E j : job' = [job EXCEPT ![t] = j] /\ record' = record
  <2>1. CASE Own(t)
    BY <2>1, OwnSteps DEF OnceInv, Replaced
  <2>2. CASE Chunk(t)
    BY <1>1, <2>2, ChunkReports
  <2>3. CASE ChunkFails(t)
    BY <2>3 DEF ChunkFails
  <2> QED
    BY <2>1, <2>2, <2>3
<1>3. job[t].pc \in Alive \cup {"start"}
  BY DEF Own, StartFails, Prepare, Chunk, ChunksDone, ChunkFails, Receive,
         PoolDone, ReportGet, ReportFails, EndGet, EndFails, Alive
<1>4. /\ record.running => job[t].pc # "start"
      /\ job[t].pc # "dead"
  BY <1>3 DEF EndsInv, Alive
<1>5. record.running => job'[t].pc \in Alive \cup {"dead"}
  <2>1. CASE Chunk(t)
    BY <1>1, <2>1, ChunkReports DEF Alive
  <2>6. CASE ChunkFails(t) \/ PoolDone(t)
    BY <1>1, <2>6 DEF ChunkFails, PoolDone, Alive, Fields
  <2>7. CASE Prepare(t) \/ ChunksDone(t)
    BY <1>1, <2>7 DEF Prepare, ChunksDone, Goto, Alive, Fields
  <2>2. CASE Receive(t)
    BY <1>1, <2>2 DEF Receive, Alive, Fields
  <2>3. CASE ReportGet(t) \/ ReportFails(t)
    BY <1>1, <2>3 DEF ReportGet, ReportFails, Goto, Alive, Fields
  <2>4. CASE EndGet(t) \/ EndFails(t)
    BY <1>1, <2>4 DEF EndGet, EndFails, Leave, Gone, NoJob, Alive, Fields
  <2>5. CASE StartFails(t)
    BY <1>4, <2>5 DEF StartFails
  <2> QED
    BY <2>1, <2>2, <2>3, <2>4, <2>5, <2>6, <2>7 DEF Own
<1> QED
  BY <1>1, <1>2, <1>4, <1>5, EndsMoves DEF Alive

\* The actions on the record: the one that writes it is the one it names.
LEMMA RecordEnds ==
  ASSUME OnceInv, EndsInv, NEW t \in Tasks,
         StartGet(t) \/ StartSet(t) \/ ReportPut(t) \/ EndPut(t)
  PROVE  EndsInv'
<1>1. /\ DOMAIN job = Tasks /\ GoodJob(job[t], t)
  BY JobsAreGood DEF OnceInv, OwnerInv, Shape
<1>2. CASE StartGet(t)
  BY <1>1, <1>2 DEF StartGet, Goto, EndsInv, Resting, Alive
<1>3. CASE StartSet(t)
  <2>1. record'.task = t /\ job'[t].pc \in {"prepare", "chunk", "pool"}
    BY <1>1, <1>3, KeyTasksAssumption DEF StartSet, NoRecord, NoJob, Kinds
  <2>2. \A u \in Tasks : job'[u].pc # "start"
    BY <1>1, <1>3, <2>1 DEF StartSet, OnceInv, OwnerInv, OneStart
  <2> QED
    BY <2>1, <2>2 DEF EndsInv, Alive
<1>4. CASE ReportPut(t)
  <2>1. record'.task = t /\ job'[t].pc \in {"chunk", "pool", "end"}
    BY <1>1, <1>4 DEF ReportPut, GoodJob, RecordShape, Fields
  <2>2. \A u \in Tasks : job'[u].pc # "start"
    BY <1>1, <1>4, <2>1 DEF ReportPut, OnceInv, OwnerInv, AliveOwns, Alive
  <2> QED
    BY <2>1, <2>2 DEF EndsInv, Alive
<1>5. CASE EndPut(t)
  <2>1. ~record'.running
    BY <1>1, <1>5 DEF EndPut, GoodJob, RecordShape
  <2> QED
    BY <2>1 DEF EndsInv
<1> QED
  BY <1>2, <1>3, <1>4, <1>5

LEMMA RestEnds ==
  ASSUME OnceInv, EndsInv,
         \/ \E t \in Tasks, w \in Workers : Take(t, w) \/ Answer(t, w)
         \/ Expire \/ Crash
  PROVE  EndsInv'
<1>1. ASSUME NEW t \in Tasks, NEW w \in Workers, Take(t, w) \/ Answer(t, w)
      PROVE  EndsInv'
  <2>1. DOMAIN job = Tasks /\ DOMAIN job[t] = Fields
    BY DEF OnceInv, OwnerInv, Shape
  <2>2. job'[t].pc = job[t].pc /\ UNCHANGED record
    BY <1>1, <2>1 DEF Take, Answer, Fields
  <2>3. \A u \in Tasks \ {t} : job'[u] = job[u]
    BY <1>1, <2>1 DEF Take, Answer
  <2> QED
    BY <2>2, <2>3 DEF EndsInv
<1>2. CASE Expire
  BY <1>2 DEF Expire, EndsInv, NoRecord
<1>3. CASE Crash
  <2>1. \A t \in Tasks : job'[t] = IF job[t].pc \in Alive \cup {"start"}
                                    THEN Gone(t, "dead") ELSE job[t]
    BY <1>3 DEF Crash
  <2>2. \A t \in Tasks : Gone(t, "dead").pc = "dead"
    BY DEF Gone, NoJob
  <2>3. record' \in {record, NoRecord} /\ ~NoRecord.running
    BY <1>3 DEF Crash, NoRecord
  <2> QED
    BY <2>1, <2>2, <2>3 DEF EndsInv, Alive
<1> QED
  BY <1>1, <1>2, <1>3

EndsIInv == ~StartsOverlap => OnceInv /\ EndsInv

(***************************************************************************)
(* While starts do not overlap, a record that says running without a       *)
(* goroutine at work is left by a crash or by an EndTask that failed, and  *)
(* by nothing else.  (runImport, runDelete, runValidation: EndTask on      *)
(* every path.)                                                            *)
(***************************************************************************)
THEOREM NoneLeftRunning == Spec => []NotLeftRunning
<1>1. Init => EndsIInv
  <2>1. ~NoRecord.running /\ NoJob.pc # "start"
    BY DEF NoRecord, NoJob
  <2> QED
    BY <2>1, InitHolds DEF EndsIInv, EndsInv, IInv, Init
<1>2. EndsIInv /\ [Next]_vars => EndsIInv'
  <2> SUFFICES ASSUME ~StartsOverlap, OnceInv, EndsInv, [Next]_vars
               PROVE  EndsInv'
    BY StepHolds DEF EndsIInv, IInv
  <2>1. ASSUME NEW t \in Tasks, StartGet(t) \/ Work(t)
        PROVE  EndsInv'
    BY <2>1, OwnEnds, RecordEnds DEF Work, Own
  <2>2. CASE UNCHANGED vars
    BY <2>2 DEF vars, EndsInv
  <2> QED
    BY <2>1, <2>2, RestEnds DEF Next
<1>3. EndsIInv => NotLeftRunning
  BY DEF EndsIInv, EndsInv, NotLeftRunning
<1> QED
  BY <1>1, <1>2, <1>3, PTL DEF Spec

(***************************************************************************)
(* What a task has done and has yet to do.  An import or a deletion that   *)
(* met no error has settled every key of its text that it has no more to   *)
(* do; a key a validation has been given is to be tested, at a worker,     *)
(* answered or tested, and it ends when all of them are tested.  While the *)
(* record shows a result nobody runs who could make it untrue.             *)
(***************************************************************************)
Settled(c, t, k) == IF Kind[t] = "import" THEN c[k] > 0 ELSE c[k] = 0

Settles(j, c, t) ==
  Kind[t] # "validate" /\ j.pc \in Alive =>
    /\ j.pc # "pool" /\ j.back = "chunk"
    /\ j.pc = "prepare" => Kind[t] = "import"
    /\ j.good /\ j.pc # "prepare" => \A k \in Text[t] : k \in j.todo \/ Settled(c, t, k)
    /\ j.good /\ j.pc \in {"end", "finish"} => j.todo = {}

Ending(j) == j.pc \in {"end", "finish"} \/ (j.pc \in {"report", "put"} /\ j.back = "end")

Placed(j, k) ==
  k \in j.todo \/ k \in j.answers \/ k \in j.tested \/ (k # None /\ \E w \in Workers : j.at[w] = k)

Tests(j, t) ==
  Kind[t] = "validate" /\ j.pc \in Alive =>
    /\ j.pc \notin {"prepare", "chunk"}
    /\ j.pc \in {"report", "put"} => j.back \in {"pool", "end"}
    /\ DOMAIN j.at = Workers
    /\ \A k : k \in Text[t] <=> Placed(j, k)
    /\ Ending(j) => j.todo = {} /\ j.answers = {} /\ \A w \in Workers : j.at[w] = None

Accounts(j, c, t) == Settles(j, c, t) /\ Tests(j, t)

NoResultYet ==
  /\ record.running => record.result # "result"
  /\ \A t \in Tasks : job[t].pc \in {"put", "finish"} => job[t].seen.result # "result"

\* What the record shows of a task is what its goroutine did.
Shown(r, jobs, c) ==
  LET t == r.task IN
  r.result = "result" =>
    /\ t \in Tasks
    /\ r.count = jobs[t].made
    /\ Kind[t] = "import" => \A k \in Text[t] : c[k] > 0
    /\ Kind[t] = "delete" => \A k \in Text[t] : c[k] = 0
    /\ Kind[t] = "validate" => jobs[t].tested = Text[t]

TruthInv ==
  /\ \A t \in Tasks : Accounts(job[t], copies, t)
  /\ NoResultYet
  /\ Shown(record, job, copies)

LEMMA AccountsAreRight ==
  ASSUME TruthInv, NEW t \in Tasks
  PROVE  Accounts(job[t], copies, t)
BY DEF TruthInv

LEMMA OnlyAlive ==
  ASSUME NEW j, j.pc \notin Alive, NEW c, NEW t
  PROVE  Accounts(j, c, t)
BY DEF Accounts, Settles, Tests

LEMMA TruthMoves ==
  ASSUME OnceInv, TruthInv, NEW t \in Tasks, NEW j,
         job' = [job EXCEPT ![t] = j], record' = record,
         \/ job[t].pc \in Alive
         \/ UNCHANGED copies /\ j.made = job[t].made /\ j.tested = job[t].tested,
         Accounts(j, copies', t),
         j.pc \in {"put", "finish"} => j.seen.result # "result"
  PROVE  TruthInv'
<1>1. /\ DOMAIN job = Tasks /\ job'[t] = j
      /\ \A u \in Tasks \ {t} : job'[u] = job[u]
  BY DEF OnceInv, OwnerInv, Shape
<1>2. NoResultYet'
  BY <1>1 DEF TruthInv, NoResultYet
<1>3. CASE job[t].pc \in Alive
  <2>1. record.running /\ \A u \in Tasks \ {t} : job[u].pc \notin Alive
    BY <1>3 DEF OnceInv, OwnerInv, AliveOwns
  <2>2. \A u \in Tasks : Accounts(job'[u], copies', u)
    BY <1>1, <2>1, OnlyAlive
  <2>3. Shown(record', job', copies')
    BY <2>1 DEF TruthInv, NoResultYet, Shown
  <2> QED BY <1>2, <2>2, <2>3 DEF TruthInv
<1>4. CASE UNCHANGED copies /\ j.made = job[t].made /\ j.tested = job[t].tested
  <2>1. \A u \in Tasks : Accounts(job'[u], copies', u)
    BY <1>1, <1>4 DEF TruthInv
  <2>2. \A u \in Tasks : job'[u].made = job[u].made /\ job'[u].tested = job[u].tested
    BY <1>1, <1>4
  <2>3. Shown(record', job', copies')
    BY <1>4, <2>2 DEF TruthInv, Shown
  <2> QED BY <1>2, <2>1, <2>3 DEF TruthInv
<1> QED BY <1>3, <1>4

\* A goroutine that only goes to another place where as much has to be done.
LEMMA AccountsMove ==
  ASSUME NEW i, NEW j, NEW c, NEW t, Accounts(i, c, t), i.pc \in Alive,
         j.todo = i.todo, j.good = i.good, j.back = i.back, j.at = i.at,
         j.answers = i.answers, j.tested = i.tested,
         Kind[t] # "validate" => j.pc \notin {"prepare", "pool"} /\ i.pc # "prepare"
              /\ (j.pc \in {"end", "finish"} => i.pc \in {"end", "finish"} \/ i.todo = {}),
         Kind[t] = "validate" => j.pc \notin {"prepare", "chunk"} /\ (Ending(j) => Ending(i))
              /\ (j.pc \in {"report", "put"} => i.pc \in {"report", "put"})
  PROVE  Accounts(j, c, t)
<1>1. Settles(j, c, t)
  BY DEF Accounts, Settles
<1>2. Tests(j, t)
  <2> SUFFICES ASSUME Kind[t] = "validate", j.pc \in Alive
               PROVE  /\ j.pc \notin {"prepare", "chunk"}
                      /\ j.pc \in {"report", "put"} => j.back \in {"pool", "end"}
                      /\ DOMAIN j.at = Workers
                      /\ \A k : k \in Text[t] <=> Placed(j, k)
                      /\ Ending(j) => j.todo = {} /\ j.answers = {} /\ \A w \in Workers : j.at[w] = None
    BY DEF Tests
  <2>1. Tests(i, t)
    BY DEF Accounts
  <2>2. \A k : Placed(j, k) <=> Placed(i, k)
    BY DEF Placed
  <2> QED BY <2>1, <2>2 DEF Tests
<1> QED BY <1>1, <1>2 DEF Accounts

LEMMA PrepareTells ==
  ASSUME OnceInv, TruthInv, NEW t \in Tasks, Prepare(t)
  PROVE  TruthInv'
<1>0. DOMAIN job = Tasks /\ DOMAIN job[t] = Fields /\ copies \in [Keys -> Nat] /\ Text[t] \subseteq Keys
  BY KeyTasksAssumption DEF OnceInv, OwnerInv, Shape
<1> DEFINE j == [job[t] EXCEPT !.pc = "chunk", !.todo = {k \in Text[t] : copies[k] = 0}]
<1>1. /\ job' = [job EXCEPT ![t] = j] /\ job[t].pc = "prepare" /\ UNCHANGED <<copies, record>>
  BY <1>0 DEF Prepare
<1>2. j.pc = "chunk" /\ j.back = job[t].back /\ j.todo = {k \in Text[t] : copies[k] = 0}
  BY <1>0 DEF Fields
<1> HIDE DEF j
<1>3. Accounts(job[t], copies, t) /\ Kind[t] \in Kinds
  BY AccountsAreRight, KeyTasksAssumption
<1>4. Kind[t] # "validate"
  BY <1>1, <1>3 DEF Accounts, Tests, Alive
<1>5. job[t].back = "chunk"
  BY <1>1, <1>3, <1>4 DEF Accounts, Settles, Alive
<1>6. \A k \in Text[t] : k \in j.todo \/ Settled(copies, t, k)
  <2>1. ASSUME NEW k \in Text[t], copies[k] # 0 PROVE copies[k] > 0
    BY <1>0, <2>1
  <2>2. Kind[t] = "import"
    BY <1>1, <1>3, <1>4 DEF Accounts, Settles, Alive
  <2> QED BY <1>2, <2>1, <2>2 DEF Settled
<1>7. Accounts(j, copies', t)
  BY <1>1, <1>2, <1>4, <1>5, <1>6 DEF Accounts, Settles, Tests
<1> QED BY <1>1, <1>2, <1>7, TruthMoves DEF Alive

LEMMA ReceiveTells ==
  ASSUME OnceInv, TruthInv, NEW t \in Tasks, Receive(t)
  PROVE  TruthInv'
<1>0. DOMAIN job = Tasks /\ DOMAIN job[t] = Fields
  BY DEF OnceInv, OwnerInv, Shape
<1>1. PICK k \in job[t].answers, pc \in {"pool", "report"} :
        job' = [job EXCEPT ![t].answers = @ \ {k}, ![t].tested = @ \cup {k},
                           ![t].done = @ + 1, ![t].pc = pc, ![t].back = "pool"]
  BY DEF Receive
<1> DEFINE j == [job[t] EXCEPT !.answers = @ \ {k}, !.tested = @ \cup {k},
                               !.done = @ + 1, !.pc = pc, !.back = "pool"]
<1>2. job' = [job EXCEPT ![t] = j]
  BY ONLY <1>0, <1>1, t \in Tasks, Zenon
<1>3. /\ j.pc = pc /\ j.back = "pool" /\ j.todo = job[t].todo /\ j.at = job[t].at
      /\ j.answers = job[t].answers \ {k} /\ j.tested = job[t].tested \cup {k}
  BY <1>0 DEF Fields
<1> HIDE DEF j
<1>4. job[t].pc = "pool" /\ UNCHANGED <<copies, record>> /\ Accounts(job[t], copies, t)
  BY AccountsAreRight DEF Receive
<1>5. Kind[t] = "validate"
  BY <1>4 DEF Accounts, Settles, Alive
<1>6. Tests(job[t], t) /\ ~Ending(j)
  BY <1>3, <1>4 DEF Accounts, Ending
<1>7. \A x : Placed(j, x) <=> Placed(job[t], x)
  BY <1>3 DEF Placed
<1>8. Tests(j, t)
  BY <1>3, <1>4, <1>6, <1>7 DEF Tests, Alive
<1>9. Accounts(j, copies', t)
  BY <1>5, <1>8 DEF Accounts, Settles
<1> QED BY <1>2, <1>3, <1>4, <1>9, TruthMoves DEF Alive

LEMMA PoolDoneTells ==
  ASSUME OnceInv, TruthInv, NEW t \in Tasks, PoolDone(t)
  PROVE  TruthInv'
<1>0. DOMAIN job = Tasks /\ DOMAIN job[t] = Fields
  BY DEF OnceInv, OwnerInv, Shape
<1> DEFINE j == [job[t] EXCEPT !.pc = "report", !.back = "end"]
<1>1. job' = [job EXCEPT ![t] = j] /\ job[t].pc = "pool" /\ UNCHANGED <<copies, record>>
      /\ ResultsClosed(t)
  BY <1>0 DEF PoolDone
<1>2. /\ j.pc = "report" /\ j.back = "end" /\ j.todo = job[t].todo /\ j.at = job[t].at
      /\ j.answers = job[t].answers /\ j.tested = job[t].tested
  BY <1>0 DEF Fields
<1> HIDE DEF j
<1>3. Accounts(job[t], copies, t)
  BY AccountsAreRight
<1>4. Kind[t] = "validate" /\ Tests(job[t], t)
  BY <1>1, <1>3 DEF Accounts, Settles, Alive
<1>5. \A x : Placed(j, x) <=> Placed(job[t], x)
  BY <1>2 DEF Placed
<1>6. Tests(j, t)
  BY <1>1, <1>2, <1>4, <1>5 DEF Tests, Alive, ResultsClosed
<1>7. Accounts(j, copies', t)
  BY <1>4, <1>6 DEF Accounts, Settles
<1> QED BY <1>1, <1>2, <1>7, TruthMoves DEF Alive

\* Steps of a goroutine that is alive and goes on to where it has as much to do.
LEMMA StepsTell ==
  ASSUME OnceInv, TruthInv, NEW t \in Tasks,
         ChunksDone(t) \/ ReportGet(t) \/ ReportFails(t) \/ EndGet(t) \/ EndFails(t)
  PROVE  TruthInv'
<1>0. /\ DOMAIN job = Tasks /\ DOMAIN job[t] = Fields /\ job[t].back \in {"chunk", "pool", "end"}
      /\ UNCHANGED <<copies, record>> /\ Kind[t] \in Kinds
      /\ job[t].pc \in Alive
  BY KeyTasksAssumption DEF OnceInv, OwnerInv, Shape, BackIsAlive, Alive,
     ChunksDone, ReportGet, ReportFails, EndGet, EndFails
<1>a. Accounts(job[t], copies, t)
  BY AccountsAreRight
<1>r. record.running /\ record.result # "result"
  BY <1>0 DEF OnceInv, OwnerInv, AliveOwns, TruthInv, NoResultYet
<1>1. CASE ChunksDone(t)
  <2> DEFINE j == [job[t] EXCEPT !.pc = "end"]
  <2>1. job' = [job EXCEPT ![t] = j] /\ job[t].pc = "chunk" /\ job[t].todo = {}
    BY <1>0, <1>1 DEF ChunksDone, Goto
  <2>2. /\ j.pc = "end" /\ j.todo = job[t].todo /\ j.good = job[t].good /\ j.back = job[t].back
        /\ j.at = job[t].at /\ j.answers = job[t].answers /\ j.tested = job[t].tested
    BY <1>0 DEF Fields
  <2> HIDE DEF j
  <2>3. Kind[t] # "validate"
    BY <1>0, <1>a, <2>1 DEF Accounts, Tests
  <2>4. Accounts(j, copies, t)
    BY <1>0, <1>a, <2>1, <2>2, <2>3, AccountsMove
  <2> QED BY <1>0, <2>1, <2>2, <2>4, TruthMoves
<1>2. CASE ReportGet(t)
  <2>1. CASE record.running
    <3> DEFINE j == [job[t] EXCEPT !.seen = record, !.pc = "put"]
    <3>1. job' = [job EXCEPT ![t] = j] /\ job[t].pc = "report"
      BY <1>0, <1>2, <2>1 DEF ReportGet
    <3>2. /\ j.pc = "put" /\ j.todo = job[t].todo /\ j.good = job[t].good /\ j.back = job[t].back
          /\ j.at = job[t].at /\ j.answers = job[t].answers /\ j.tested = job[t].tested
          /\ j.seen = record
      BY <1>0 DEF Fields
    <3> HIDE DEF j
    <3>3. Accounts(j, copies, t)
      BY <1>0, <1>a, <3>1, <3>2, AccountsMove DEF Ending
    <3> QED BY <1>0, <1>r, <3>1, <3>2, <3>3, TruthMoves
  <2> QED BY <1>r, <2>1
<1>3. CASE ReportFails(t)
  <2> DEFINE j == [job[t] EXCEPT !.pc = job[t].back, !.seen = NoRecord]
  <2>1. job' = [job EXCEPT ![t] = j] /\ job[t].pc \in {"report", "put"}
    BY <1>0, <1>3 DEF ReportFails
  <2>2. /\ j.pc = job[t].back /\ j.todo = job[t].todo /\ j.good = job[t].good /\ j.back = job[t].back
        /\ j.at = job[t].at /\ j.answers = job[t].answers /\ j.tested = job[t].tested
    BY <1>0 DEF Fields
  <2> HIDE DEF j
  <2>3. Accounts(j, copies, t)
    <3>1. Kind[t] # "validate" => job[t].back = "chunk"
      BY <1>0, <1>a DEF Accounts, Settles
    <3>2. Kind[t] = "validate" => job[t].back \in {"pool", "end"}
      BY <1>0, <1>a, <2>1 DEF Accounts, Tests
    <3> QED BY <1>0, <1>a, <2>1, <2>2, <3>1, <3>2, AccountsMove DEF Ending
  <2> QED BY <1>0, <2>1, <2>2, <2>3, TruthMoves
<1>4. CASE EndGet(t)
  <2>1. CASE record.running
    <3> DEFINE j == [job[t] EXCEPT !.seen = record, !.pc = "finish"]
    <3>1. job' = [job EXCEPT ![t] = j] /\ job[t].pc = "end"
      BY <1>0, <1>4, <2>1 DEF EndGet
    <3>2. /\ j.pc = "finish" /\ j.todo = job[t].todo /\ j.good = job[t].good /\ j.back = job[t].back
          /\ j.at = job[t].at /\ j.answers = job[t].answers /\ j.tested = job[t].tested
          /\ j.seen = record
      BY <1>0 DEF Fields
    <3> HIDE DEF j
    <3>3. Accounts(j, copies, t)
      BY <1>0, <1>a, <3>1, <3>2, AccountsMove DEF Ending
    <3> QED BY <1>0, <1>r, <3>1, <3>2, <3>3, TruthMoves
  <2> QED BY <1>r, <2>1
<1>5. CASE EndFails(t)
  <2> DEFINE j == Gone(t, "dead")
  <2>1. job' = [job EXCEPT ![t] = j]
    BY <1>5 DEF EndFails, Leave
  <2>2. j.pc = "dead"
    BY DEF Gone, NoJob
  <2> HIDE DEF j
  <2>3. Accounts(j, copies, t)
    BY <2>2, OnlyAlive DEF Alive
  <2> QED BY <1>0, <2>1, <2>2, <2>3, TruthMoves
<1> QED BY <1>1, <1>2, <1>3, <1>4, <1>5

LEMMA ChunkTells ==
  ASSUME OnceInv, TruthInv, NEW t \in Tasks, Chunk(t)
  PROVE  TruthInv'
<1>0. DOMAIN job = Tasks /\ DOMAIN job[t] = Fields /\ copies \in [Keys -> Nat]
      /\ job[t].todo \subseteq Keys /\ Kind[t] \in Kinds /\ Text[t] \subseteq Keys
  BY KeyTasksAssumption DEF OnceInv, OwnerInv, Shape
<1>1. PICK K \in Chunks(t) :
        /\ copies' = After(t, K)
        /\ job' = [job EXCEPT ![t].pc = "report", ![t].back = "chunk",
                              ![t].todo = @ \ K,
                              ![t].done = @ + Cardinality(K),
                              ![t].made = @ + Changed(t, K)]
  BY DEF Chunk
<1> DEFINE j == [job[t] EXCEPT !.pc = "report", !.back = "chunk",
                               !.todo = @ \ K,
                               !.done = @ + Cardinality(K),
                               !.made = @ + Changed(t, K)]
<1>2. job' = [job EXCEPT ![t] = j]
  BY ONLY <1>0, <1>1, t \in Tasks, Zenon
<1>3. j.pc = "report" /\ j.back = "chunk" /\ j.todo = job[t].todo \ K /\ j.good = job[t].good
  BY <1>0 DEF Fields
<1> HIDE DEF j
<1>4. job[t].pc = "chunk" /\ UNCHANGED record /\ Accounts(job[t], copies, t)
  BY AccountsAreRight DEF Chunk
<1>5. Kind[t] # "validate"
  BY <1>4 DEF Accounts, Tests, Alive
<1>6. ASSUME job[t].good, NEW k \in Text[t] PROVE k \in j.todo \/ Settled(copies', t, k)
  <2>1. k \in job[t].todo \/ Settled(copies, t, k)
    BY <1>4, <1>5, <1>6 DEF Accounts, Settles, Alive
  <2>2. copies'[k] = IF k \notin K THEN copies[k]
                     ELSE IF Kind[t] = "import" THEN copies[k] + 1 ELSE 0
    BY <1>0, <1>1 DEF After
  <2>3. copies[k] \in Nat
    BY <1>0
  <2> QED BY <1>3, <2>1, <2>2, <2>3 DEF Settled
<1>7. Accounts(j, copies', t)
  BY <1>3, <1>5, <1>6 DEF Accounts, Settles, Tests
<1> QED BY <1>2, <1>3, <1>4, <1>7, TruthMoves DEF Alive

LEMMA ChunkFailsTells ==
  ASSUME OnceInv, TruthInv, NEW t \in Tasks, ChunkFails(t)
  PROVE  TruthInv'
<1>0. DOMAIN job = Tasks /\ DOMAIN job[t] = Fields
  BY DEF OnceInv, OwnerInv, Shape
<1> DEFINE j == [job[t] EXCEPT !.pc = "end", !.good = FALSE]
<1>1. job[t].pc \in {"prepare", "chunk"} /\ UNCHANGED record /\ job' = [job EXCEPT ![t] = j]
  BY <1>0 DEF ChunkFails
<1>2. j.pc = "end" /\ j.good = FALSE /\ j.back = job[t].back
  BY <1>0 DEF Fields
<1> HIDE DEF j
<1>3. Accounts(job[t], copies, t)
  BY AccountsAreRight
<1>4. Kind[t] # "validate" /\ job[t].back = "chunk"
  BY <1>1, <1>3 DEF Accounts, Settles, Tests, Alive
<1>5. Accounts(j, copies', t)
  BY <1>2, <1>4 DEF Accounts, Settles, Tests
<1> QED BY <1>1, <1>2, <1>5, TruthMoves DEF Alive

\* A key moves from the text to a worker, and from a worker to the answers.
LEMMA WorkersTell ==
  ASSUME OnceInv, TruthInv, NEW t \in Tasks, NEW w \in Workers, Take(t, w) \/ Answer(t, w)
  PROVE  TruthInv'
<1>0. DOMAIN job = Tasks /\ DOMAIN job[t] = Fields /\ job[t].todo \subseteq Keys /\ None \notin Keys
      /\ Kind[t] \in Kinds
  BY KeyTasksAssumption DEF OnceInv, OwnerInv, Shape
<1>a. Accounts(job[t], copies, t) /\ job[t].pc \in Alive /\ UNCHANGED <<copies, record>>
  BY AccountsAreRight DEF Take, Answer
<1>s. job[t].pc \in {"put", "finish"} => job[t].seen.result # "result"
  BY DEF TruthInv, NoResultYet
<1>1. CASE Take(t, w)
  <2>1. PICK k \in job[t].todo :
          job' = [job EXCEPT ![t].todo = @ \ {k}, ![t].at[w] = k]
    BY <1>1 DEF Take
  <2> DEFINE j == [job[t] EXCEPT !.todo = @ \ {k}, !.at[w] = k]
  <2>2. job' = [job EXCEPT ![t] = j]
    BY ONLY <1>0, <2>1, t \in Tasks, Zenon
  <2>3. /\ j.pc = job[t].pc /\ j.back = job[t].back /\ j.seen = job[t].seen
        /\ j.answers = job[t].answers /\ j.tested = job[t].tested
        /\ j.todo = job[t].todo \ {k} /\ j.at = [job[t].at EXCEPT ![w] = k]
    BY <1>0 DEF Fields
  <2> HIDE DEF j
  <2>4. Kind[t] = "validate" /\ job[t].at[w] = None
    BY <1>1 DEF Take
  <2>5. Tests(job[t], t)
    BY <1>a DEF Accounts
  <2>6. DOMAIN job[t].at = Workers /\ ~Ending(j) /\ k # None
    BY <1>0, <1>a, <2>3, <2>4, <2>5 DEF Tests, Ending
  <2>7. \A x : Placed(j, x) <=> Placed(job[t], x)
    <3>1. \A v \in Workers : j.at[v] = IF v = w THEN k ELSE job[t].at[v]
      BY <2>3, <2>6
    <3> QED BY <2>3, <2>4, <2>6, <3>1 DEF Placed
  <2>8. Tests(j, t)
    BY <1>a, <2>3, <2>4, <2>5, <2>6, <2>7 DEF Tests
  <2>9. Accounts(j, copies', t)
    BY <2>4, <2>8 DEF Accounts, Settles
  <2> QED BY <1>a, <1>s, <2>2, <2>3, <2>9, TruthMoves
<1>2. CASE Answer(t, w)
  <2> DEFINE j == [job[t] EXCEPT !.at[w] = None, !.answers = @ \cup {job[t].at[w]}]
  <2>1. job' = [job EXCEPT ![t].at[w] = None, ![t].answers = @ \cup {job[t].at[w]}]
        /\ job[t].at[w] # None
    BY <1>2 DEF Answer
  <2>2. job' = [job EXCEPT ![t] = j]
    BY ONLY <1>0, <2>1, t \in Tasks, Zenon
  <2>3. /\ j.pc = job[t].pc /\ j.back = job[t].back /\ j.seen = job[t].seen /\ j.good = job[t].good
        /\ j.todo = job[t].todo /\ j.tested = job[t].tested
        /\ j.answers = job[t].answers \cup {job[t].at[w]} /\ j.at = [job[t].at EXCEPT ![w] = None]
    BY <1>0 DEF Fields
  <2> HIDE DEF j
  <2>4. CASE Kind[t] = "validate"
    <3>1. Tests(job[t], t)
      BY <1>a DEF Accounts
    <3>2. DOMAIN job[t].at = Workers /\ ~Ending(j)
      BY <1>a, <2>1, <2>3, <2>4, <3>1 DEF Tests, Ending
    <3>3. \A x : Placed(j, x) <=> Placed(job[t], x)
      <4>1. \A v \in Workers : j.at[v] = IF v = w THEN None ELSE job[t].at[v]
        BY <2>3, <3>2
      <4> QED BY <2>1, <2>3, <4>1 DEF Placed
    <3>4. Tests(j, t)
      BY <1>a, <2>3, <2>4, <3>1, <3>2, <3>3 DEF Tests
    <3> QED BY <1>a, <1>s, <2>2, <2>3, <2>4, <3>4, TruthMoves DEF Accounts, Settles
  <2>5. CASE Kind[t] # "validate"
    <3>1. Settles(j, copies, t)
      BY <1>a, <2>3 DEF Accounts, Settles
    <3>2. Accounts(j, copies', t)
      BY <1>a, <2>5, <3>1 DEF Accounts, Tests
    <3> QED BY <1>a, <1>s, <2>2, <2>3, <3>2, TruthMoves
  <2> QED BY <2>4, <2>5
<1> QED BY <1>1, <1>2

\* A start touches neither rows nor the goroutine of the task shown.
LEMMA StartsTell ==
  ASSUME OnceInv, TruthInv, NEW t \in Tasks, StartGet(t) \/ StartFails(t)
  PROVE  TruthInv'
<1>0. DOMAIN job = Tasks /\ DOMAIN job[t] = Fields
  BY DEF OnceInv, OwnerInv, Shape
<1>1. PICK pc \in {"start", "over"} : Goto(t, pc)
  BY DEF StartGet, StartFails
<1> DEFINE j == [job[t] EXCEPT !.pc = pc]
<1>2. job' = [job EXCEPT ![t] = j] /\ UNCHANGED <<copies, record>>
  BY <1>0, <1>1 DEF Goto, StartGet, StartFails
<1>3. j.pc = pc /\ j.made = job[t].made /\ j.tested = job[t].tested
  BY <1>0 DEF Fields
<1> HIDE DEF j
<1>4. Accounts(j, copies', t)
  BY <1>3, OnlyAlive DEF Alive
<1> QED BY <1>2, <1>3, <1>4, TruthMoves

LEMMA StartSetTells ==
  ASSUME OnceInv, TruthInv, NEW t \in Tasks, StartSet(t)
  PROVE  TruthInv'
<1> DEFINE j == CASE Kind[t] = "import"   -> [NoJob EXCEPT !.pc = "prepare"]
                  [] Kind[t] = "delete"   -> [NoJob EXCEPT !.pc = "chunk", !.todo = Text[t]]
                  [] Kind[t] = "validate" -> [NoJob EXCEPT !.pc = "pool", !.todo = Text[t]]
<1>0. DOMAIN job = Tasks /\ Kind[t] \in Kinds
  BY KeyTasksAssumption DEF OnceInv, OwnerInv, Shape
<1>1. job[t].pc = "start" /\ UNCHANGED copies /\ job' = [job EXCEPT ![t] = j]
  BY DEF StartSet
<1> HIDE DEF j
<1>2. ASSUME Kind[t] = "import" PROVE Accounts(j, copies, t)
  <2>1. j.pc = "prepare" /\ j.back = "chunk"
    BY <1>2 DEF j, NoJob
  <2> QED BY <1>2, <2>1 DEF Accounts, Settles, Tests
<1>3. ASSUME Kind[t] = "delete" PROVE Accounts(j, copies, t)
  <2>1. j.pc = "chunk" /\ j.back = "chunk" /\ j.todo = Text[t]
    BY <1>3 DEF j, NoJob
  <2> QED BY <1>3, <2>1 DEF Accounts, Settles, Tests
<1>4. ASSUME Kind[t] = "validate" PROVE Accounts(j, copies, t)
  <2>1. /\ j.pc = "pool" /\ j.todo = Text[t] /\ j.answers = {} /\ j.tested = {}
        /\ j.at = [w \in Workers |-> None]
    BY <1>4 DEF j, NoJob
  <2>2. Tests(j, t)
    BY <2>1 DEF Tests, Placed, Ending
  <2> QED BY <1>4, <2>2 DEF Accounts, Settles
<1>5. Accounts(j, copies, t)
  BY <1>0, <1>2, <1>3, <1>4 DEF Kinds
<1>6. j.pc \in {"prepare", "chunk", "pool"}
  BY <1>0 DEF j, Kinds, NoJob
<1>7. \A u \in Tasks : Accounts(job'[u], copies', u)
  BY <1>0, <1>1, <1>5 DEF TruthInv
<1>8. record'.result = "none"
  BY DEF StartSet, NoRecord
<1>9. NoResultYet'
  BY <1>0, <1>1, <1>6, <1>8 DEF TruthInv, NoResultYet
<1> QED BY <1>7, <1>8, <1>9 DEF TruthInv, Shown

LEMMA ReportPutTells ==
  ASSUME OnceInv, TruthInv, NEW t \in Tasks, ReportPut(t)
  PROVE  TruthInv'
<1>0. /\ DOMAIN job = Tasks /\ DOMAIN job[t] = Fields /\ job[t].back \in {"chunk", "pool", "end"}
      /\ Kind[t] \in Kinds /\ GoodJob(job[t], t)
  BY KeyTasksAssumption, JobsAreGood DEF OnceInv, OwnerInv, Shape, BackIsAlive
<1> DEFINE j == [job[t] EXCEPT !.pc = job[t].back, !.seen = NoRecord]
<1>1. job' = [job EXCEPT ![t] = j] /\ job[t].pc = "put" /\ UNCHANGED copies
  BY <1>0 DEF ReportPut
<1>2. /\ j.pc = job[t].back /\ j.todo = job[t].todo /\ j.good = job[t].good /\ j.back = job[t].back
      /\ j.at = job[t].at /\ j.answers = job[t].answers /\ j.tested = job[t].tested
  BY <1>0 DEF Fields
<1> HIDE DEF j
<1>a. Accounts(job[t], copies, t)
  BY AccountsAreRight
<1>3. Accounts(j, copies, t)
  <2>1. Kind[t] # "validate" => job[t].back = "chunk"
    BY <1>1, <1>a DEF Accounts, Settles, Alive
  <2>2. Kind[t] = "validate" => job[t].back \in {"pool", "end"}
    BY <1>1, <1>a DEF Accounts, Tests, Alive
  <2> QED BY <1>0, <1>1, <1>a, <1>2, <2>1, <2>2, AccountsMove DEF Ending, Alive
<1>4. \A u \in Tasks : Accounts(job'[u], copies', u)
  BY <1>0, <1>1, <1>3 DEF TruthInv
<1>5. record'.result # "result"
  BY <1>0, <1>1 DEF ReportPut, GoodJob, RecordShape, TruthInv, NoResultYet
<1>6. NoResultYet'
  BY <1>0, <1>1, <1>2, <1>5 DEF TruthInv, NoResultYet
<1> QED BY <1>4, <1>5, <1>6 DEF TruthInv, Shown

\* Where the result is written, all of it is there.
LEMMA EndPutTells ==
  ASSUME OnceInv, TruthInv, NEW t \in Tasks, EndPut(t)
  PROVE  TruthInv'
<1>0. /\ DOMAIN job = Tasks /\ DOMAIN job[t] = Fields /\ Kind[t] \in Kinds /\ GoodJob(job[t], t)
      /\ job[t].pc = "finish" /\ UNCHANGED copies /\ Accounts(job[t], copies, t)
  BY KeyTasksAssumption, JobsAreGood, AccountsAreRight DEF OnceInv, OwnerInv, Shape, EndPut
<1> DEFINE j == Gone(t, "over")
<1>1. job' = [job EXCEPT ![t] = j]
  BY DEF EndPut, Leave
<1>2. j.pc = "over" /\ j.made = job[t].made /\ j.tested = job[t].tested
  BY DEF Gone, NoJob
<1> HIDE DEF j
<1>3. Accounts(j, copies, t)
  BY <1>2, OnlyAlive DEF Alive
<1>4. \A u \in Tasks : Accounts(job'[u], copies', u)
  BY <1>0, <1>1, <1>3 DEF TruthInv
<1>5. /\ ~record'.running /\ record'.task = t
      /\ record'.result = IF job[t].good THEN "result" ELSE "error"
      /\ record'.count = IF job[t].good THEN job[t].made ELSE 0
  BY <1>0 DEF EndPut, GoodJob, RecordShape
<1>6. NoResultYet'
  BY <1>0, <1>1, <1>2, <1>5 DEF TruthInv, NoResultYet
<1>7. CASE job[t].good
  <2>1. Kind[t] # "validate" => \A k \in Text[t] : Settled(copies, t, k)
    BY <1>0, <1>7 DEF Accounts, Settles, Alive
  <2>2. Kind[t] = "validate" => job[t].tested = Text[t]
    <3> SUFFICES ASSUME Kind[t] = "validate" PROVE \A k : k \in Text[t] <=> k \in job[t].tested
      OBVIOUS
    <3>1. /\ job[t].todo = {} /\ job[t].answers = {} /\ \A w \in Workers : job[t].at[w] = None
          /\ \A k : k \in Text[t] <=> Placed(job[t], k)
      BY <1>0 DEF Accounts, Tests, Ending, Alive
    <3> QED BY <3>1 DEF Placed
  <2>3. job'[t].made = job[t].made /\ job'[t].tested = job[t].tested
    BY <1>0, <1>1, <1>2
  <2>4. Kind[t] = "import" => \A k \in Text[t] : copies[k] > 0
    BY <2>1 DEF Settled
  <2>5. Kind[t] = "delete" => \A k \in Text[t] : copies[k] = 0
    BY <2>1 DEF Settled
  <2>6. Shown(record', job', copies')
    BY <1>0, <1>5, <1>7, <2>2, <2>3, <2>4, <2>5 DEF Shown
  <2> QED BY <1>4, <1>6, <2>6 DEF TruthInv
<1>8. CASE ~job[t].good
  BY <1>4, <1>5, <1>6, <1>8 DEF TruthInv, Shown
<1> QED BY <1>7, <1>8

LEMMA ExpireTells == TruthInv /\ Expire => TruthInv'
<1> SUFFICES ASSUME TruthInv, Expire PROVE TruthInv'
  OBVIOUS
<1>1. UNCHANGED <<copies, job>> /\ record'.result = "none"
  BY DEF Expire, NoRecord
<1> QED BY <1>1 DEF TruthInv, NoResultYet, Shown

LEMMA CrashTells == TruthInv /\ Crash => TruthInv'
<1> SUFFICES ASSUME TruthInv, Crash PROVE TruthInv'
  OBVIOUS
<1>1. UNCHANGED copies /\ record' \in {record, NoRecord}
      /\ \A t \in Tasks : job'[t] = IF job[t].pc \in Alive \cup {"start"}
                                      THEN Gone(t, "dead") ELSE job[t]
  BY DEF Crash
<1>2. \A t \in Tasks : /\ Gone(t, "dead").pc = "dead" /\ Gone(t, "dead").made = job[t].made
                       /\ Gone(t, "dead").tested = job[t].tested
  BY DEF Gone, NoJob
<1>3. \A t \in Tasks : /\ job'[t].pc \notin Alive /\ job'[t].made = job[t].made
                       /\ job'[t].tested = job[t].tested
  BY <1>1, <1>2 DEF Alive
<1>4. \A t \in Tasks : Accounts(job'[t], copies', t)
  BY <1>3, OnlyAlive
<1>5. NoRecord.result = "none" /\ ~NoRecord.running
  BY DEF NoRecord
<1>6. NoResultYet'
  BY <1>1, <1>3, <1>5 DEF TruthInv, NoResultYet, Alive
<1>7. Shown(record', job', copies')
  BY <1>1, <1>3, <1>5 DEF TruthInv, Shown
<1> QED BY <1>4, <1>6, <1>7 DEF TruthInv

TruthIInv == ~StartsOverlap => OnceInv /\ TruthInv

(***************************************************************************)
(* While starts do not overlap, whatever fails or crashes, the result the  *)
(* record shows is what its task did: every key imported, deleted or       *)
(* tested, and the rows it counts.  (runImport, runDelete, runValidation:  *)
(* EndTask with the first error.)                                          *)
(***************************************************************************)
THEOREM ResultsAreTrue == Spec => []ResultIsTrue
<1>1. Init => TruthIInv
  <2> SUFFICES ASSUME Init PROVE TruthInv
    BY InitHolds DEF TruthIInv, IInv
  <2>1. NoJob.pc = "idle" /\ NoRecord.result = "none"
    BY DEF NoJob, NoRecord
  <2>2. record = NoRecord /\ \A t \in Tasks : job[t] = NoJob
    BY DEF Init
  <2>3. \A t \in Tasks : Accounts(job[t], copies, t)
    BY <2>1, <2>2, OnlyAlive DEF Alive
  <2> QED BY <2>1, <2>2, <2>3 DEF TruthInv, NoResultYet, Shown
<1>2. TruthIInv /\ [Next]_vars => TruthIInv'
  <2> SUFFICES ASSUME ~StartsOverlap, OnceInv, TruthInv, [Next]_vars
               PROVE  TruthInv'
    BY StepHolds DEF TruthIInv, IInv
  <2>1. ASSUME NEW t \in Tasks, StartGet(t) \/ Work(t)
        PROVE  TruthInv'
    BY <2>1, PrepareTells, ReceiveTells, PoolDoneTells, StepsTell, ChunkTells, ChunkFailsTells,
       StartsTell, StartSetTells, ReportPutTells, EndPutTells DEF Work
  <2>2. ASSUME NEW t \in Tasks, NEW w \in Workers, Take(t, w) \/ Answer(t, w)
        PROVE  TruthInv'
    BY <2>2, WorkersTell
  <2>3. CASE UNCHANGED vars
    BY <2>3 DEF vars, TruthInv, NoResultYet, Shown
  <2> QED
    BY <2>1, <2>2, <2>3, ExpireTells, CrashTells DEF Next
<1>3. TruthIInv => ResultIsTrue
  BY DEF TruthIInv, TruthInv, Shown, ResultIsTrue
<1> QED
  BY <1>1, <1>2, <1>3, PTL DEF Spec
=============================================================================
