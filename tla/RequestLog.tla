------------------------------ MODULE RequestLog ------------------------------
(***************************************************************************)
(* The request logs of the master: recorded by the proxy's handlers into   *)
(* the store, a body with a time to live and a member of the set of        *)
(* pending ones, and moved to the database in batches by a goroutine with  *)
(* a ticker.  At interval 0 a handler writes to the database itself.       *)
(*                                                                         *)
(* Time passes in minutes, the unit of the interval.  A flush and the two  *)
(* store calls of a handler take no time: they end before the next minute. *)
(* The statistics that are added up in the transaction of the logs are     *)
(* kept per log: how often it was counted.                                 *)
(***************************************************************************)
EXTENDS Integers, FiniteSets

CONSTANTS
  Logs,       (* requests to be logged                                     *)
  Intervals,  (* values of request_log_write_interval_minutes              *)
  TtlFactor,  (* a body lives so many intervals; 5 in the code             *)
  BatchSize,  (* DefaultLogFlushBatchSize; 200 in the code                 *)
  MaxFails,   (* bound: failed flushes in a row are counted up to here     *)
  Faults      (* what may fail: "db", "lost answer", "store", "crash"      *)

ASSUME RequestLogAssumption ==
  /\ IsFiniteSet(Logs)
  /\ Intervals \subseteq Nat
  /\ TtlFactor \in Nat \ {0}
  /\ BatchSize \in Nat \ {0}
  /\ MaxFails \in Nat \ {0}
  /\ Faults \subseteq {"db", "lost answer", "store", "crash"}

VARIABLES
  interval,  (* the setting                                                *)
  changed,   (* history: the setting was changed since the start           *)
  log,       (* where each log is on its way                               *)
  body,      (* store: minutes the body has left; 0 when it is not there   *)
  pending,   (* store: the set pending_log_keys                            *)
  rows,      (* request_logs                                               *)
  counted,   (* how often a log was added to the statistics                *)
  flush,     (* the flush under way                                        *)
  ticker,    (* its period, the minutes to the next tick, a tick delivered *)
  failures,  (* history: flushes in a row that failed                      *)
  phase,     (* of the process                                             *)
  late       (* logs of handlers that the shutdown did not wait for        *)

table == <<rows, counted>>
cached == <<body, pending>>
time  == <<interval, changed, ticker>>
proc  == <<phase, late>>
vars  == <<time, log, cached, table, flush, failures, proc>>

\* Set with a time to live of 0 keeps the body for ever.
Forever == -1

Recording == {"caching", "adding"}
LogStates == Recording \cup
  {"new", "off", "failed", "recorded", "expired", "lost"}

Batch(pc, K, L) == [pc |-> pc, keys |-> K, got |-> L]
Fresh(pc) == Batch(pc, {}, {})
NoFlush   == Fresh("idle")

OrMinute(i) == IF i = 0 THEN 1 ELSE i
Clock(period, due, ticked) == [period |-> period, due |-> due, ticked |-> ticked]
Armed(i)    == Clock(OrMinute(i), OrMinute(i), FALSE)
NoTicker    == Clock(0, 0, FALSE)

Init ==
  /\ interval \in Intervals
  /\ changed = FALSE
  /\ log = [l \in Logs |-> "new"]
  /\ body = [l \in Logs |-> 0]
  /\ pending = {}
  /\ rows = {}
  /\ counted = [l \in Logs |-> 0]
  /\ flush = Fresh("start")
  /\ ticker = NoTicker
  /\ failures = 0
  /\ phase = "up"
  /\ late = {}

(***************************************************************************)
(* writeLogsToDB: the rows and the statistics in one transaction.          *)
(***************************************************************************)
Duplicate(L) == L \cap rows # {}

Insert(L) ==
  /\ ~Duplicate(L)
  /\ rows' = rows \cup L
  /\ counted' = [l \in Logs |-> IF l \in L THEN counted[l] + 1 ELSE counted[l]]

\* Mutation: the rows are rolled back, the statistics are not.
MutCountsAnyway(L) ==
  /\ \/ Duplicate(L)
     \/ "db" \in Faults
  /\ UNCHANGED rows
  /\ counted' = [l \in Logs |-> IF l \in L THEN counted[l] + 1 ELSE counted[l]]

\* An error, and a rollback; or an error although the commit succeeded.
InsertFails(L) ==
  \/ Duplicate(L) /\ UNCHANGED table
  \/ "db" \in Faults /\ UNCHANGED table
  \/ "lost answer" \in Faults /\ Insert(L)

(***************************************************************************)
(* Record                                                                  *)
(***************************************************************************)
Becomes(l, s) == log' = [log EXCEPT ![l] = s]

\* Requests come in until App.Stop shuts the HTTP server down; a handler that
\* outlives the shutdown works on until the process ends.
Served(l) == phase = "up" \/ l \in late

RecordOff(l) ==
  /\ Served(l) /\ log[l] = "new"
  /\ Becomes(l, "off")
  /\ UNCHANGED <<time, cached, table, flush, failures, proc>>

RecordDirect(l) ==
  /\ Served(l) /\ log[l] = "new"
  /\ interval = 0
  /\ \/ Insert({l}) /\ Becomes(l, "recorded")
     \/ InsertFails({l}) /\ Becomes(l, "failed")
  /\ UNCHANGED <<time, cached, flush, failures, proc>>

RecordCached(l) ==
  /\ Served(l) /\ log[l] = "new"
  /\ interval # 0
  /\ Becomes(l, "caching")
  /\ UNCHANGED <<time, cached, table, flush, failures, proc>>

\* Mutation: a body lives until the next flush is due.
MutTtlOfOne == IF interval = 0 THEN Forever ELSE interval

\* The interval is read again.
Ttl == IF interval = 0 THEN Forever ELSE interval * TtlFactor

SetBody(l) ==
  /\ log[l] = "caching"
  /\ body' = [body EXCEPT ![l] = Ttl]
  /\ Becomes(l, "adding")
  /\ UNCHANGED <<time, pending, table, flush, failures, proc>>

AddPending(l) ==
  /\ log[l] = "adding"
  /\ pending' = pending \cup {l}
  /\ Becomes(l, "recorded")
  /\ UNCHANGED <<time, body, table, flush, failures, proc>>

RecordFails(l) ==
  /\ "store" \in Faults
  /\ log[l] \in Recording
  /\ Becomes(l, "failed")
  /\ UNCHANGED <<time, cached, table, flush, failures, proc>>

(***************************************************************************)
(* flush                                                                   *)
(***************************************************************************)
At(pc)   == flush.pc = pc
Goto(pc) == flush' = Batch(pc, flush.keys, flush.got)

\* The flush returns; that of Stop is the last thing the service does.
Ends(end) ==
  /\ flush' = NoFlush
  /\ phase' = IF phase = "final" THEN end ELSE phase
  /\ UNCHANGED late

Return(f) == Ends("stopped") /\ failures' = f

OneMore == IF failures < MaxFails THEN failures + 1 ELSE failures

\* At interval 0 nothing is flushed, what was cached before included.
FlushStarts ==
  /\ At("start")
  /\ IF interval = 0 THEN Ends("skipped") ELSE Goto("pop") /\ UNCHANGED proc
  /\ UNCHANGED <<time, log, cached, table, failures>>

\* SPopN: any members of the set, as many as there are up to BatchSize.
Pop ==
  /\ At("pop")
  /\ pending # {}
  /\ \E K \in SUBSET pending :
       /\ Cardinality(K) = IF Cardinality(pending) < BatchSize
                             THEN Cardinality(pending) ELSE BatchSize
       /\ pending' = pending \ K
       /\ flush' = Batch("get", K, {})
  /\ UNCHANGED <<time, log, body, table, failures, proc>>

PopNothing ==
  /\ At("pop")
  /\ pending = {}
  /\ Return(0)
  /\ UNCHANGED <<time, log, cached, table>>

PopFails ==
  /\ "store" \in Faults
  /\ At("pop")
  /\ Return(OneMore)
  /\ UNCHANGED <<time, log, cached, table>>

\* A body that is not there is skipped, and so is one that cannot be read:
\* lost, unless the whole batch goes back.
Get ==
  /\ At("get")
  /\ \E L \in SUBSET flush.keys :
       /\ L = {l \in flush.keys : body[l] # 0} \/ "store" \in Faults
       /\ \A l \in L : body[l] # 0
       /\ flush' = Batch(IF L = {} THEN "pop" ELSE "write", flush.keys, L)
       /\ log' = [l \in Logs |->
            IF l \in flush.keys \ L /\ log[l] = "recorded" THEN "lost" ELSE log[l]]
  /\ UNCHANGED <<time, cached, table, failures, proc>>

Write ==
  /\ At("write")
  /\ Insert(flush.got)
  /\ Goto("del")
  /\ UNCHANGED <<time, log, cached, failures, proc>>

WriteFails ==
  /\ At("write")
  /\ InsertFails(flush.got)
  /\ Goto("put back")
  /\ UNCHANGED <<time, log, cached, failures, proc>>

\* Mutation: a batch that failed is dropped.
MutDropsBatch ==
  /\ At("put back")
  /\ Return(OneMore)
  /\ UNCHANGED <<time, log, cached, table>>

\* Mutation: it is put back and popped again at once.
MutRetriesAtOnce ==
  /\ At("put back")
  /\ pending' = pending \cup flush.keys
  /\ flush' = Fresh("pop")
  /\ UNCHANGED <<time, log, body, table, failures, proc>>

PutBack ==
  /\ At("put back")
  /\ pending' = pending \cup flush.keys
  /\ log' = [l \in Logs |->
       IF l \in flush.keys /\ log[l] = "lost" /\ body[l] # 0 THEN "recorded" ELSE log[l]]
  /\ Return(OneMore)
  /\ UNCHANGED <<time, body, table>>

PutBackFails ==
  /\ "store" \in Faults
  /\ At("put back")
  /\ log' = [l \in Logs |->
       IF l \in flush.keys /\ log[l] = "recorded" THEN "lost" ELSE log[l]]
  /\ Return(OneMore)
  /\ UNCHANGED <<time, cached, table>>

\* Bodies that cannot be deleted stay until they expire.
DelBodies ==
  /\ At("del")
  /\ \E L \in {flush.got} \cup (IF "store" \in Faults THEN {{}} ELSE {}) :
       body' = [l \in Logs |-> IF l \in L THEN 0 ELSE body[l]]
  /\ flush' = Fresh("pop")
  /\ UNCHANGED <<time, log, pending, table, failures, proc>>

(***************************************************************************)
(* The ticker, the setting, and time.                                      *)
(***************************************************************************)
\* runLoop makes its ticker after its first flush.
FirstTicker ==
  /\ phase \in {"up", "stopping"}
  /\ At("idle")
  /\ ticker = NoTicker
  /\ ticker' = Armed(interval)
  /\ UNCHANGED <<interval, changed, log, cached, table, flush, failures, proc>>

Tick ==
  /\ phase \in {"up", "stopping"}
  /\ At("idle")
  /\ ticker.ticked
  /\ ticker' = IF OrMinute(interval) # ticker.period THEN Armed(interval)
               ELSE Clock(ticker.period, ticker.due, FALSE)
  /\ Goto("start")
  /\ UNCHANGED <<interval, changed, log, cached, table, failures, proc>>

\* The setting is read anew for each log and each flush, that of Stop too.
ChangeInterval(i) ==
  /\ phase \in {"up", "stopping", "final"}
  /\ i # interval
  /\ interval' = i
  /\ changed' = TRUE
  /\ UNCHANGED <<log, cached, table, flush, ticker, failures, proc>>

Older(l) == IF body[l] \in {0, Forever} THEN body[l] ELSE body[l] - 1

Minute ==
  /\ phase = "up"
  /\ At("idle") /\ ticker # NoTicker /\ ~ticker.ticked
  /\ \A l \in Logs : log[l] \notin Recording
  /\ body' = [l \in Logs |-> Older(l)]
  /\ log' = [l \in Logs |->
       IF log[l] = "recorded" /\ counted[l] = 0 /\ Older(l) = 0
         THEN "expired" ELSE log[l]]
  /\ ticker' = IF ticker.due > 1 THEN Clock(ticker.period, ticker.due - 1, FALSE)
               ELSE Clock(ticker.period, ticker.period, TRUE)
  /\ UNCHANGED <<interval, changed, pending, table, flush, failures, proc>>

(***************************************************************************)
(* Start, Stop, and the end of the process in between.                     *)
(***************************************************************************)
\* App.Stop shuts the HTTP server down, then stops the service.  Shutdown waits
\* for the handlers; when it times out, Close cuts their connections, and those
\* at work go on, logs to record still ahead of them or half recorded.
Stop ==
  /\ phase = "up"
  /\ \E L \in SUBSET {l \in Logs : log[l] \in {"new"} \cup Recording} :
       /\ {l \in Logs : log[l] \in Recording} \subseteq L
       /\ late' = L
  /\ phase' = "stopping"
  /\ UNCHANGED <<time, log, cached, table, flush, failures>>

\* Mutation: the service stops without a last flush.
MutNoLastFlush ==
  /\ phase = "stopping"
  /\ At("idle")
  /\ phase' = "stopped"
  /\ UNCHANGED <<time, log, cached, table, flush, failures, late>>

\* runLoop has returned, its ticker stopped, and Stop flushes.
LastFlush ==
  /\ phase = "stopping"
  /\ At("idle") /\ ticker # NoTicker
  /\ ticker' = NoTicker
  /\ phase' = "final"
  /\ Goto("start")
  /\ UNCHANGED <<interval, changed, log, cached, table, failures, late>>

Crash ==
  /\ "crash" \in Faults
  /\ phase \in {"up", "stopping", "final"}
  /\ phase' = "crashed"
  /\ flush' = NoFlush
  /\ ticker' = NoTicker
  /\ failures' = 0
  /\ late' = {}
  /\ log' = [l \in Logs |-> IF log[l] \in Recording THEN "failed" ELSE log[l]]
  /\ UNCHANGED <<interval, changed, cached, table>>

\* App.Start of the master clears the store, then runLoop flushes.  Handlers
\* that were late have ended with the process.
Start ==
  /\ phase \in {"stopped", "skipped", "crashed"}
  /\ phase' = "up"
  /\ late' = {}
  /\ body' = [l \in Logs |-> 0]
  /\ pending' = {}
  /\ log' = [l \in Logs |->
       CASE log[l] \in Recording -> "failed"
         [] log[l] = "recorded" /\ counted[l] = 0 -> "lost"
         [] OTHER -> log[l]]
  /\ ticker' = NoTicker
  /\ flush' = Fresh("start")
  /\ failures' = 0
  /\ UNCHANGED <<interval, changed, table>>

Record(l) ==
  \/ RecordOff(l) \/ RecordDirect(l) \/ RecordCached(l)
  \/ SetBody(l) \/ AddPending(l) \/ RecordFails(l)

Flush ==
  \/ FlushStarts \/ Pop \/ PopNothing \/ PopFails \/ Get \/ Write \/ WriteFails
  \/ PutBack \/ PutBackFails \/ DelBodies

Next ==
  \/ \E l \in Logs : Record(l)
  \/ Flush \/ FirstTicker \/ Tick \/ Minute
  \/ \E i \in Intervals : ChangeInterval(i)
  \/ Stop \/ LastFlush \/ Crash \/ Start

Spec == Init /\ [][Next]_vars

\* The goroutine is scheduled, and its calls return.
FairSpec == Spec /\ WF_vars(Flush) /\ WF_vars(Tick \/ LastFlush)
=============================================================================
