--------------------------- MODULE RequestLogProofs ---------------------------
(***************************************************************************)
(* What holds of the request logs for any number of requests, any          *)
(* intervals and batches, and whatever fails: a log is counted once, none  *)
(* is lost in silence, a stop whose last flush ran and succeeded leaves    *)
(* nothing behind but what late handlers record, and, while the interval   *)
(* stays as it is, a log expires only after many flushes failed in a row.  *)
(***************************************************************************)
EXTENDS RequestLogProps, TLAPS

(***************************************************************************)
(* The inductive invariant.  A log is in the hands of the flush from the   *)
(* time its batch is popped until the flush is done with it; what the      *)
(* flush then still names, it has written or given up.                     *)
(***************************************************************************)
Phases == {"up", "stopping", "final", "stopped", "skipped", "crashed"}

FlushPcs == {"idle", "start", "pop", "get", "write", "put back", "del"}

Typed ==
  /\ interval \in Intervals
  /\ changed \in BOOLEAN
  /\ log \in [Logs -> LogStates]
  /\ body \in [Logs -> {Forever} \cup Nat]
  /\ pending \subseteq Logs
  /\ rows \subseteq Logs
  /\ counted \in [Logs -> Nat]
  /\ flush.pc \in FlushPcs
  /\ flush.got \subseteq flush.keys /\ flush.keys \subseteq Logs
  /\ ticker.period \in Nat /\ ticker.due \in 0 .. ticker.period
  /\ failures \in 0 .. MaxFails
  /\ phase \in Phases
  /\ late \subseteq Logs

\* The store has a body before it has the log among the pending ones.
NotYet ==
  \A l \in Logs :
    /\ log[l] \in {"new"} \cup Recording => l \notin pending \cup flush.keys
    /\ log[l] = "adding" => body[l] # 0

\* Handlers end before the service stops, unless they are late, and flushes
\* before the phase that does without them.
Quiet ==
  /\ phase # "up" => \A l \in Logs \ late : log[l] \notin Recording
  /\ phase \in {"up", "crashed"} => late = {}
  /\ phase \in {"stopped", "skipped", "crashed"} => At("idle")

Held == IF flush.pc \in {"get", "write", "put back", "del"} THEN flush.keys ELSE {}

Kept ==
  \A l \in Logs :
    (log[l] = "recorded" /\ phase # "crashed") =>
      \/ l \in rows
      \/ body[l] # 0 /\ l \in pending \cup Held

Taken ==
  /\ flush.pc \in {"write", "put back", "del"} =>
       \A l \in flush.keys \ flush.got : log[l] # "recorded"
  /\ At("del") => flush.got \subseteq rows

\* At interval 0 the store is not used.
Direct ==
  (interval = 0 /\ ~changed) =>
    /\ flush.pc \in {"idle", "start"}
    /\ \A l \in Logs : log[l] \notin Recording
    /\ \A l \in Logs : log[l] = "recorded" => l \in rows

IInv ==
  /\ Typed /\ CountedOnce /\ NotYet /\ Quiet /\ Kept /\ Taken /\ Direct
  /\ StopLeavesNothing

(***************************************************************************)
(* Types                                                                   *)
(***************************************************************************)
LEMMA Numbers ==
  Intervals \subseteq Nat /\ TtlFactor \in Nat \ {0} /\ MaxFails \in Nat \ {0}
BY RequestLogAssumption

LEMMA InitTyped == ASSUME Init PROVE Typed
<1>1. flush.pc \in FlushPcs /\ flush.got = {} /\ flush.keys = {}
  BY DEF Init, Fresh, Batch, FlushPcs
<1>2. ticker.period = 0 /\ ticker.due = 0
  BY DEF Init, NoTicker, Clock
<1>3. log \in [Logs -> LogStates]
  BY DEF Init, LogStates
<1>4. failures \in 0 .. MaxFails
  BY Numbers DEF Init
<1>5. body \in [Logs -> {Forever} \cup Nat] /\ counted \in [Logs -> Nat]
  BY DEF Init
<1>6. /\ interval \in Intervals /\ changed \in BOOLEAN
      /\ pending \subseteq Logs /\ rows \subseteq Logs
      /\ phase \in Phases /\ late \subseteq Logs
  BY DEF Init, Phases
<1> QED
  BY <1>1, <1>2, <1>3, <1>4, <1>5, <1>6 DEF Typed

LEMMA InsertTyped ==
  ASSUME Typed, NEW L \in SUBSET Logs, Insert(L) \/ InsertFails(L)
  PROVE  rows' \subseteq Logs /\ counted' \in [Logs -> Nat]
<1>1. CASE Insert(L)
  BY <1>1 DEF Typed, Insert
<1>2. CASE UNCHANGED table
  BY <1>2 DEF Typed, table
<1> QED
  BY <1>1, <1>2 DEF InsertFails

LEMMA Returned ==
  ASSUME NEW f, Return(f)
  PROVE  /\ flush'.pc = "idle" /\ flush'.keys = {} /\ flush'.got = {}
         /\ failures' = f
         /\ phase' = IF phase = "final" THEN "stopped" ELSE phase
         /\ late' = late
BY DEF Return, Ends, NoFlush, Fresh, Batch

LEMMA OneMoreIsMore == Typed => OneMore \in 0 .. MaxFails /\ OneMore # 0
BY Numbers DEF Typed, OneMore

LEMMA NextTyped ==
  ASSUME Typed, [Next]_vars
  PROVE  Typed'
<1> USE DEF Typed, proc, Phases
<1>1. ASSUME NEW l \in Logs, RecordOff(l)
       PROVE  Typed'
  <2>1. "off" \in LogStates
    BY DEF LogStates
  <2> QED
    BY <1>1, <2>1 DEF RecordOff, Becomes, time, cached, table
<1>2. ASSUME NEW l \in Logs, RecordDirect(l)
       PROVE  Typed'
  <2>1. "recorded" \in LogStates /\ "failed" \in LogStates
    BY DEF LogStates
  <2> QED
    BY <1>2, <2>1, InsertTyped DEF RecordDirect, Becomes, time, cached
<1>3. ASSUME NEW l \in Logs, RecordCached(l)
       PROVE  Typed'
  <2>1. "caching" \in LogStates
    BY DEF LogStates, Recording
  <2> QED
    BY <1>3, <2>1 DEF RecordCached, Becomes, time, cached, table
<1>4. ASSUME NEW l \in Logs, SetBody(l)
       PROVE  Typed'
  <2>1. "adding" \in LogStates
    BY DEF LogStates, Recording
  <2> QED
    BY <1>4, <2>1, Numbers DEF SetBody, Becomes, Ttl, Forever, time, table
<1>5. ASSUME NEW l \in Logs, AddPending(l)
       PROVE  Typed'
  <2>1. "recorded" \in LogStates
    BY DEF LogStates
  <2> QED
    BY <1>5, <2>1 DEF AddPending, Becomes, time, table
<1>6. ASSUME NEW l \in Logs, RecordFails(l)
       PROVE  Typed'
  <2>1. "failed" \in LogStates
    BY DEF LogStates
  <2> QED
    BY <1>6, <2>1 DEF RecordFails, Becomes, time, cached, table
<1>7. CASE FlushStarts
  <2>1. "idle" \in FlushPcs /\ "pop" \in FlushPcs
    BY DEF FlushPcs
  <2> QED
    BY <1>7, <2>1 DEF FlushStarts, Ends, NoFlush, Fresh, Goto, At, time, cached, table, Batch
<1>8. CASE Pop
  <2>1. "get" \in FlushPcs
    BY DEF FlushPcs
  <2> QED
    BY <1>8, <2>1 DEF Pop, At, time, table, Batch
<1>9. CASE PopNothing
  <2>1. "idle" \in FlushPcs
    BY DEF FlushPcs
  <2>2. /\ flush'.pc = "idle" /\ flush'.keys = {} /\ flush'.got = {}
        /\ failures' \in 0 .. MaxFails
        /\ phase' \in {phase, "stopped"} /\ late' = late
    BY <1>9, Returned, Numbers DEF PopNothing
  <2> QED
    BY <1>9, <2>1, <2>2 DEF PopNothing, time, cached, table
<1>10. CASE PopFails
  <2>1. "idle" \in FlushPcs
    BY DEF FlushPcs
  <2>2. /\ flush'.pc = "idle" /\ flush'.keys = {} /\ flush'.got = {}
        /\ failures' \in 0 .. MaxFails
        /\ phase' \in {phase, "stopped"} /\ late' = late
    BY <1>10, Returned, OneMoreIsMore DEF PopFails
  <2> QED
    BY <1>10, <2>1, <2>2 DEF PopFails, time, cached, table
<1>11. CASE Get
  <2>1. "pop" \in FlushPcs /\ "write" \in FlushPcs /\ "lost" \in LogStates
    BY DEF FlushPcs, LogStates
  <2> QED
    BY <1>11, <2>1 DEF Get, At, time, cached, table, Batch
<1>12. CASE Write
  <2>1. "del" \in FlushPcs
    BY DEF FlushPcs
  <2> QED
    BY <1>12, <2>1, InsertTyped DEF Write, Goto, At, time, cached, Batch
<1>13. CASE WriteFails
  <2>1. "put back" \in FlushPcs
    BY DEF FlushPcs
  <2> QED
    BY <1>13, <2>1, InsertTyped DEF WriteFails, Goto, At, time, cached, Batch
<1>14. CASE PutBack
  <2>1. "idle" \in FlushPcs /\ "recorded" \in LogStates
    BY DEF FlushPcs, LogStates
  <2>2. /\ flush'.pc = "idle" /\ flush'.keys = {} /\ flush'.got = {}
        /\ failures' \in 0 .. MaxFails
        /\ phase' \in {phase, "stopped"} /\ late' = late
    <3>1. Return(OneMore)
      BY <1>14 DEF PutBack
    <3>2. OneMore \in 0 .. MaxFails
      BY OneMoreIsMore
    <3> QED
      BY <3>1, <3>2, Returned
  <2>3. pending' \subseteq Logs /\ log' \in [Logs -> LogStates]
    BY <1>14, <2>1 DEF PutBack
  <2> QED
    BY <1>14, <2>1, <2>2, <2>3 DEF PutBack, time, table
<1>15. CASE PutBackFails
  <2>1. "idle" \in FlushPcs /\ "lost" \in LogStates
    BY DEF FlushPcs, LogStates
  <2>2. /\ flush'.pc = "idle" /\ flush'.keys = {} /\ flush'.got = {}
        /\ failures' \in 0 .. MaxFails
        /\ phase' \in {phase, "stopped"} /\ late' = late
    <3>1. Return(OneMore)
      BY <1>15 DEF PutBackFails
    <3>2. OneMore \in 0 .. MaxFails
      BY OneMoreIsMore
    <3> QED
      BY <3>1, <3>2, Returned
  <2>3. log' \in [Logs -> LogStates]
    BY <1>15, <2>1 DEF PutBackFails
  <2> QED
    BY <1>15, <2>1, <2>2, <2>3 DEF PutBackFails, time, cached, table
<1>16. CASE DelBodies
  <2>1. "pop" \in FlushPcs
    BY DEF FlushPcs
  <2> QED
    BY <1>16, <2>1 DEF DelBodies, Fresh, At, time, table, Batch
<1>17. CASE FirstTicker
  BY <1>17, Numbers DEF FirstTicker, Armed, OrMinute, Clock, At, cached, table
<1>18. CASE Tick
  <2>1. "start" \in FlushPcs
    BY DEF FlushPcs
  <2> QED
    BY <1>18, <2>1, Numbers DEF Tick, Armed, OrMinute, Goto, Clock, At, cached, table, Batch
<1>19. CASE Minute
  <2>1. "expired" \in LogStates
    BY DEF LogStates
  <2> QED
    BY <1>19, <2>1 DEF Minute, Older, Forever, Clock, At, table
<1>20. CASE Stop
  BY <1>20 DEF Stop, time, cached, table
<1>21. CASE LastFlush
  <2>1. "start" \in FlushPcs
    BY DEF FlushPcs
  <2> QED
    BY <1>21, <2>1 DEF LastFlush, NoTicker, Clock, Goto, At, cached, table, Batch
<1>22. CASE Crash
  <2>1. "idle" \in FlushPcs /\ "failed" \in LogStates
    BY DEF FlushPcs, LogStates
  <2> QED
    BY <1>22, <2>1, Numbers DEF Crash, NoTicker, Clock, NoFlush, Fresh, cached, table, Batch
<1>23. CASE Start
  <2>1. "start" \in FlushPcs /\ "lost" \in LogStates /\ "failed" \in LogStates
    BY DEF FlushPcs, LogStates
  <2> QED
    BY <1>23, <2>1, Numbers DEF Start, NoTicker, Clock, Fresh, table, Batch
<1>24. ASSUME NEW i \in Intervals, ChangeInterval(i)
       PROVE  Typed'
  BY <1>24 DEF ChangeInterval, cached, table
<1>25. CASE UNCHANGED vars
  BY <1>25 DEF vars, time, cached, table
<1> QED
  BY <1>1, <1>2, <1>3, <1>4, <1>5, <1>6, <1>7, <1>8, <1>9, <1>10, <1>11,
     <1>12, <1>13, <1>14, <1>15, <1>16, <1>17, <1>18, <1>19, <1>20, <1>21,
     <1>22, <1>23, <1>24, <1>25
  DEF Next, Record, Flush
(***************************************************************************)
(* CountedOnce: only transactions change the table and the statistics.     *)
(***************************************************************************)
LEMMA Inserted ==
  ASSUME Typed, CountedOnce, NEW L \in SUBSET Logs, Insert(L)
  PROVE  CountedOnce'
<1> SUFFICES ASSUME NEW l \in Logs
             PROVE  counted'[l] = IF l \in rows' THEN 1 ELSE 0
  BY DEF CountedOnce
<1>1. CASE l \in L
  <2>1. l \notin rows
    BY <1>1 DEF Insert, Duplicate
  <2>2. counted[l] = 0
    BY <2>1 DEF CountedOnce
  <2>3. counted'[l] = counted[l] + 1
    BY <1>1 DEF Insert
  <2> QED
    BY <1>1, <2>2, <2>3 DEF Insert
<1>2. CASE l \notin L
  BY <1>2 DEF Insert, CountedOnce
<1> QED
  BY <1>1, <1>2

LEMMA TablesChange ==
  ASSUME Typed, [Next]_vars
  PROVE  UNCHANGED table \/ \E L \in SUBSET Logs : Insert(L)
<1>1. ASSUME NEW l \in Logs, RecordDirect(l)
      PROVE  UNCHANGED table \/ Insert({l})
  BY <1>1 DEF RecordDirect, InsertFails
<1>3. ASSUME WriteFails
      PROVE  UNCHANGED table \/ Insert(flush.got)
  BY <1>3 DEF WriteFails, InsertFails
<1>4. flush.got \in SUBSET Logs /\ \A l \in Logs : {l} \in SUBSET Logs
  BY DEF Typed
<1>5. UNCHANGED table \/ Write \/ WriteFails \/ \E l \in Logs : RecordDirect(l)
  BY DEF Next, Record, Flush, vars, RecordOff, RecordCached, SetBody, AddPending,
         RecordFails, FlushStarts, Pop, PopNothing, PopFails, Get, PutBack,
         PutBackFails, DelBodies, FirstTicker, Tick, Minute, ChangeInterval, Stop,
         LastFlush, Crash, Start
<1>6. CASE Write
  BY <1>6, <1>4 DEF Write
<1>7. CASE WriteFails
  BY <1>3, <1>4, <1>7
<1> QED
  BY <1>1, <1>4, <1>5, <1>6, <1>7

LEMMA NextCounted ==
  ASSUME Typed, CountedOnce, [Next]_vars
  PROVE  CountedOnce'
<1>1. CASE UNCHANGED table
  BY <1>1 DEF CountedOnce, table
<1>2. CASE \E L \in SUBSET Logs : Insert(L)
  BY <1>2, Inserted
<1> QED
  BY <1>1, <1>2, TablesChange

(***************************************************************************)
(* The other parts, each from those before it.                             *)
(***************************************************************************)
LEMMA TtlIsNotZero == Typed => Ttl # 0
<1>1. ASSUME NEW i \in Nat \ {0}, NEW f \in Nat \ {0}
      PROVE  i * f # 0
  OBVIOUS
<1> QED
  BY <1>1, Numbers DEF Typed, Ttl, Forever

LEMMA NextNotYet ==
  ASSUME Typed, NotYet, Quiet, Taken, [Next]_vars
  PROVE  NotYet'
<1> USE DEF proc, Typed, NotYet, Quiet, Taken, Recording, At
<1>1. ASSUME NEW l \in Logs, RecordOff(l)
      PROVE  NotYet'
  BY <1>1 DEF RecordOff, Becomes, time, cached, table
<1>2. ASSUME NEW l \in Logs, RecordDirect(l)
      PROVE  NotYet'
  BY <1>2 DEF RecordDirect, Becomes, Insert, InsertFails, Duplicate, time,
     cached, table
<1>3. ASSUME NEW l \in Logs, RecordCached(l)
      PROVE  NotYet'
  BY <1>3 DEF RecordCached, Becomes, time, cached, table
<1>4. ASSUME NEW l \in Logs, SetBody(l)
      PROVE  NotYet'
  BY <1>4, TtlIsNotZero DEF SetBody, Becomes, time, table
<1>5. ASSUME NEW l \in Logs, AddPending(l)
      PROVE  NotYet'
  BY <1>5 DEF AddPending, Becomes, time, table
<1>6. ASSUME NEW l \in Logs, RecordFails(l)
      PROVE  NotYet'
  BY <1>6 DEF RecordFails, Becomes, time, cached, table
<1>7. CASE FlushStarts
  BY <1>7 DEF FlushStarts, Ends, Goto, NoFlush, Fresh, time, cached, table,
     Batch
<1>8. CASE Pop
  BY <1>8 DEF Pop, time, table, Batch
<1>9. CASE PopNothing
  BY <1>9 DEF PopNothing, Return, Ends, NoFlush, Fresh, time, cached, table, Batch
<1>10. CASE PopFails
  BY <1>10 DEF PopFails, Return, Ends, NoFlush, Fresh, OneMore, time, cached, table,
     Batch
<1>11. CASE Get
  BY <1>11 DEF Get, time, cached, table, Batch
<1>12. CASE Write
  BY <1>12 DEF Write, Insert, Goto, time, cached, Batch
<1>13. CASE WriteFails
  BY <1>13 DEF WriteFails, InsertFails, Insert, Duplicate, Goto, time, cached,
     table, Batch
<1>14. CASE PutBack
  BY <1>14 DEF PutBack, Return, Ends, NoFlush, Fresh, OneMore, time, table, Batch
<1>15. CASE PutBackFails
  BY <1>15 DEF PutBackFails, Return, Ends, NoFlush, Fresh, OneMore, time, cached,
     table, Batch
<1>16. CASE DelBodies
  BY <1>16 DEF DelBodies, Fresh, time, table, Batch
<1>17. CASE FirstTicker
  BY <1>17 DEF FirstTicker, cached, table
<1>18. CASE Tick
  BY <1>18 DEF Tick, Goto, cached, table, Batch
<1>19. CASE Minute
  BY <1>19 DEF Minute, Older, Forever, table
<1>20. CASE Stop
  BY <1>20 DEF Stop, time, cached, table
<1>21. CASE LastFlush
  BY <1>21 DEF LastFlush, Goto, time, cached, table, Batch
<1>22. CASE Crash
  BY <1>22 DEF Crash, NoFlush, Fresh, time, cached, table, Batch
<1>23. CASE Start
  BY <1>23 DEF Start, NoTicker, Fresh, table, Batch
<1>24. ASSUME NEW i \in Intervals, ChangeInterval(i)
      PROVE  NotYet'
  BY <1>24 DEF ChangeInterval, cached, table
<1>25. CASE UNCHANGED vars
  BY <1>25 DEF vars, time, cached, table
<1> QED
  BY <1>1, <1>2, <1>3, <1>4, <1>5, <1>6, <1>7, <1>8, <1>9, <1>10, <1>11,
     <1>12, <1>13, <1>14, <1>15, <1>16, <1>17, <1>18, <1>19, <1>20, <1>21,
     <1>22, <1>23, <1>24, <1>25 DEF Next, Record, Flush

LEMMA NextQuiet ==
  ASSUME Typed, Quiet, [Next]_vars
  PROVE  Quiet'
<1> USE DEF proc, Served, Typed, Quiet, At, Recording
<1>1. ASSUME NEW l \in Logs, RecordOff(l)
      PROVE  Quiet'
  BY <1>1 DEF RecordOff, Becomes, time, cached, table
<1>2. ASSUME NEW l \in Logs, RecordDirect(l)
      PROVE  Quiet'
  BY <1>2 DEF RecordDirect, Becomes, Insert, InsertFails, Duplicate, time,
     cached, table
<1>3. ASSUME NEW l \in Logs, RecordCached(l)
      PROVE  Quiet'
  BY <1>3 DEF RecordCached, Becomes, time, cached, table
<1>4. ASSUME NEW l \in Logs, SetBody(l)
      PROVE  Quiet'
  BY <1>4 DEF SetBody, Becomes, Ttl, Forever, time, table
<1>5. ASSUME NEW l \in Logs, AddPending(l)
      PROVE  Quiet'
  BY <1>5 DEF AddPending, Becomes, time, table
<1>6. ASSUME NEW l \in Logs, RecordFails(l)
      PROVE  Quiet'
  BY <1>6 DEF RecordFails, Becomes, time, cached, table
<1>7. CASE FlushStarts
  BY <1>7 DEF FlushStarts, Ends, Goto, NoFlush, Fresh, time, cached, table,
     Batch
<1>8. CASE Pop
  BY <1>8 DEF Pop, time, table, Batch
<1>9. CASE PopNothing
  BY <1>9 DEF PopNothing, Return, Ends, NoFlush, Fresh, time, cached, table, Batch
<1>10. CASE PopFails
  BY <1>10 DEF PopFails, Return, Ends, NoFlush, Fresh, OneMore, time, cached, table,
     Batch
<1>11. CASE Get
  BY <1>11 DEF Get, time, cached, table, Batch
<1>12. CASE Write
  BY <1>12 DEF Write, Insert, Goto, time, cached, Batch
<1>13. CASE WriteFails
  BY <1>13 DEF WriteFails, InsertFails, Insert, Duplicate, Goto, time, cached,
     table, Batch
<1>14. CASE PutBack
  BY <1>14 DEF PutBack, Return, Ends, NoFlush, Fresh, OneMore, time, table, Batch
<1>15. CASE PutBackFails
  BY <1>15 DEF PutBackFails, Return, Ends, NoFlush, Fresh, OneMore, time, cached,
     table, Batch
<1>16. CASE DelBodies
  BY <1>16 DEF DelBodies, Fresh, time, table, Batch
<1>17. CASE FirstTicker
  BY <1>17 DEF FirstTicker, cached, table
<1>18. CASE Tick
  BY <1>18 DEF Tick, Goto, cached, table, Batch
<1>19. CASE Minute
  BY <1>19 DEF Minute, Older, Forever, table
<1>20. CASE Stop
  BY <1>20 DEF Stop, time, cached, table
<1>21. CASE LastFlush
  BY <1>21 DEF LastFlush, Goto, time, cached, table, Batch
<1>22. CASE Crash
  BY <1>22 DEF Crash, NoFlush, Fresh, time, cached, table, Batch
<1>23. CASE Start
  BY <1>23 DEF Start, NoTicker, Fresh, table, Batch
<1>24. ASSUME NEW i \in Intervals, ChangeInterval(i)
      PROVE  Quiet'
  BY <1>24 DEF ChangeInterval, cached, table
<1>25. CASE UNCHANGED vars
  BY <1>25 DEF vars, time, cached, table
<1> QED
  BY <1>1, <1>2, <1>3, <1>4, <1>5, <1>6, <1>7, <1>8, <1>9, <1>10, <1>11,
     <1>12, <1>13, <1>14, <1>15, <1>16, <1>17, <1>18, <1>19, <1>20, <1>21,
     <1>22, <1>23, <1>24, <1>25 DEF Next, Record, Flush

LEMMA NextTaken ==
  ASSUME Typed, Taken, NotYet, CountedOnce, Quiet, [Next]_vars
  PROVE  Taken'
<1> USE DEF proc, Typed, Taken, NotYet, Quiet, CountedOnce, At, Recording
<1>1. ASSUME NEW l \in Logs, RecordOff(l)
      PROVE  Taken'
  BY <1>1 DEF RecordOff, Becomes, time, cached, table
<1>2. ASSUME NEW l \in Logs, RecordDirect(l)
      PROVE  Taken'
  BY <1>2 DEF RecordDirect, Becomes, Insert, InsertFails, Duplicate, time,
     cached, table
<1>3. ASSUME NEW l \in Logs, RecordCached(l)
      PROVE  Taken'
  BY <1>3 DEF RecordCached, Becomes, time, cached, table
<1>4. ASSUME NEW l \in Logs, SetBody(l)
      PROVE  Taken'
  BY <1>4 DEF SetBody, Becomes, Ttl, Forever, time, table
<1>5. ASSUME NEW l \in Logs, AddPending(l)
      PROVE  Taken'
  BY <1>5 DEF AddPending, Becomes, time, table
<1>6. ASSUME NEW l \in Logs, RecordFails(l)
      PROVE  Taken'
  BY <1>6 DEF RecordFails, Becomes, time, cached, table
<1>7. CASE FlushStarts
  <2>1. flush'.pc \in {"idle", "pop"}
    BY <1>7 DEF FlushStarts, Ends, NoFlush, Fresh, Goto, Batch
  <2> QED
    BY <2>1
<1>8. CASE Pop
  BY <1>8 DEF Pop, time, table, Batch
<1>9. CASE PopNothing
  BY <1>9 DEF PopNothing, Return, Ends, NoFlush, Fresh, time, cached, table, Batch
<1>10. CASE PopFails
  BY <1>10 DEF PopFails, Return, Ends, NoFlush, Fresh, OneMore, time, cached, table,
     Batch
<1>11. CASE Get
  BY <1>11 DEF Get, time, cached, table, Batch
<1>12. CASE Write
  BY <1>12 DEF Write, Insert, Goto, time, cached, Batch
<1>13. CASE WriteFails
  BY <1>13 DEF WriteFails, InsertFails, Insert, Duplicate, Goto, time, cached,
     table, Batch
<1>14. CASE PutBack
  BY <1>14 DEF PutBack, Return, Ends, NoFlush, Fresh, OneMore, time, table, Batch
<1>15. CASE PutBackFails
  BY <1>15 DEF PutBackFails, Return, Ends, NoFlush, Fresh, OneMore, time, cached,
     table, Batch
<1>16. CASE DelBodies
  BY <1>16 DEF DelBodies, Fresh, time, table, Batch
<1>17. CASE FirstTicker
  BY <1>17 DEF FirstTicker, cached, table
<1>18. CASE Tick
  BY <1>18 DEF Tick, Goto, cached, table, Batch
<1>19. CASE Minute
  BY <1>19 DEF Minute, Older, Forever, table
<1>20. CASE Stop
  BY <1>20 DEF Stop, time, cached, table
<1>21. CASE LastFlush
  BY <1>21 DEF LastFlush, Goto, time, cached, table, Batch
<1>22. CASE Crash
  BY <1>22 DEF Crash, NoFlush, Fresh, time, cached, table, Batch
<1>23. CASE Start
  BY <1>23 DEF Start, NoTicker, Fresh, table, Batch
<1>24. ASSUME NEW i \in Intervals, ChangeInterval(i)
      PROVE  Taken'
  BY <1>24 DEF ChangeInterval, cached, table
<1>25. CASE UNCHANGED vars
  BY <1>25 DEF vars, time, cached, table
<1> QED
  BY <1>1, <1>2, <1>3, <1>4, <1>5, <1>6, <1>7, <1>8, <1>9, <1>10, <1>11,
     <1>12, <1>13, <1>14, <1>15, <1>16, <1>17, <1>18, <1>19, <1>20, <1>21,
     <1>22, <1>23, <1>24, <1>25 DEF Next, Record, Flush

LEMMA NextDirect ==
  ASSUME Typed, Direct, [Next]_vars
  PROVE  Direct'
<1> USE DEF proc, Typed, Direct, At, Recording
<1>1. ASSUME NEW l \in Logs, RecordOff(l)
      PROVE  Direct'
  BY <1>1 DEF RecordOff, Becomes, time, cached, table
<1>2. ASSUME NEW l \in Logs, RecordDirect(l)
      PROVE  Direct'
  BY <1>2 DEF RecordDirect, Becomes, Insert, InsertFails, Duplicate, time,
     cached, table
<1>3. ASSUME NEW l \in Logs, RecordCached(l)
      PROVE  Direct'
  BY <1>3 DEF RecordCached, Becomes, time, cached, table
<1>4. ASSUME NEW l \in Logs, SetBody(l)
      PROVE  Direct'
  BY <1>4 DEF SetBody, Becomes, Ttl, Forever, time, table
<1>5. ASSUME NEW l \in Logs, AddPending(l)
      PROVE  Direct'
  BY <1>5 DEF AddPending, Becomes, time, table
<1>6. ASSUME NEW l \in Logs, RecordFails(l)
      PROVE  Direct'
  BY <1>6 DEF RecordFails, Becomes, time, cached, table
<1>7. CASE FlushStarts
  BY <1>7 DEF FlushStarts, Ends, Goto, NoFlush, Fresh, time, cached, table,
     Batch
<1>8. CASE Pop
  BY <1>8 DEF Pop, time, table, Batch
<1>9. CASE PopNothing
  BY <1>9 DEF PopNothing, Return, Ends, NoFlush, Fresh, time, cached, table, Batch
<1>10. CASE PopFails
  BY <1>10 DEF PopFails, Return, Ends, NoFlush, Fresh, OneMore, time, cached, table,
     Batch
<1>11. CASE Get
  BY <1>11 DEF Get, time, cached, table, Batch
<1>12. CASE Write
  BY <1>12 DEF Write, Insert, Goto, time, cached, Batch
<1>13. CASE WriteFails
  BY <1>13 DEF WriteFails, InsertFails, Insert, Duplicate, Goto, time, cached,
     table, Batch
<1>14. CASE PutBack
  BY <1>14 DEF PutBack, Return, Ends, NoFlush, Fresh, OneMore, time, table, Batch
<1>15. CASE PutBackFails
  BY <1>15 DEF PutBackFails, Return, Ends, NoFlush, Fresh, OneMore, time, cached,
     table, Batch
<1>16. CASE DelBodies
  BY <1>16 DEF DelBodies, Fresh, time, table, Batch
<1>17. CASE FirstTicker
  BY <1>17 DEF FirstTicker, cached, table
<1>18. CASE Tick
  BY <1>18 DEF Tick, Goto, cached, table, Batch
<1>19. CASE Minute
  BY <1>19 DEF Minute, Older, Forever, table
<1>20. CASE Stop
  BY <1>20 DEF Stop, time, cached, table
<1>21. CASE LastFlush
  BY <1>21 DEF LastFlush, Goto, time, cached, table, Batch
<1>22. CASE Crash
  BY <1>22 DEF Crash, NoFlush, Fresh, time, cached, table, Batch
<1>23. CASE Start
  BY <1>23 DEF Start, NoTicker, Fresh, table, Batch
<1>24. ASSUME NEW i \in Intervals, ChangeInterval(i)
      PROVE  Direct'
  BY <1>24 DEF ChangeInterval, cached, table
<1>25. CASE UNCHANGED vars
  BY <1>25 DEF vars, time, cached, table
<1> QED
  BY <1>1, <1>2, <1>3, <1>4, <1>5, <1>6, <1>7, <1>8, <1>9, <1>10, <1>11,
     <1>12, <1>13, <1>14, <1>15, <1>16, <1>17, <1>18, <1>19, <1>20, <1>21,
     <1>22, <1>23, <1>24, <1>25 DEF Next, Record, Flush

LEMMA NextKept ==
  ASSUME Typed, CountedOnce, NotYet, Quiet, Kept, Taken, [Next]_vars
  PROVE  Kept'
<1> USE DEF proc, Typed, CountedOnce, NotYet, Quiet, Kept, Taken, Held, At, Recording
<1>1. ASSUME NEW l \in Logs, RecordOff(l)
      PROVE  Kept'
  BY <1>1 DEF RecordOff, Becomes, time, cached, table
<1>2. ASSUME NEW l \in Logs, RecordDirect(l)
      PROVE  Kept'
  BY <1>2 DEF RecordDirect, Becomes, Insert, InsertFails, Duplicate, time,
     cached, table
<1>3. ASSUME NEW l \in Logs, RecordCached(l)
      PROVE  Kept'
  BY <1>3 DEF RecordCached, Becomes, time, cached, table
<1>4. ASSUME NEW l \in Logs, SetBody(l)
      PROVE  Kept'
  BY <1>4 DEF SetBody, Becomes, Ttl, Forever, time, table
<1>5. ASSUME NEW l \in Logs, AddPending(l)
      PROVE  Kept'
  BY <1>5 DEF AddPending, Becomes, time, table
<1>6. ASSUME NEW l \in Logs, RecordFails(l)
      PROVE  Kept'
  BY <1>6 DEF RecordFails, Becomes, time, cached, table
<1>7. CASE FlushStarts
  BY <1>7 DEF FlushStarts, Ends, Goto, NoFlush, Fresh, time, cached, table,
     Batch
<1>8. CASE Pop
  BY <1>8 DEF Pop, time, table, Batch
<1>9. CASE PopNothing
  BY <1>9 DEF PopNothing, Return, Ends, NoFlush, Fresh, time, cached, table, Batch
<1>10. CASE PopFails
  BY <1>10 DEF PopFails, Return, Ends, NoFlush, Fresh, OneMore, time, cached, table,
     Batch
<1>11. CASE Get
  BY <1>11 DEF Get, time, cached, table, Batch
<1>12. CASE Write
  BY <1>12 DEF Write, Insert, Goto, time, cached, Batch
<1>13. CASE WriteFails
  BY <1>13 DEF WriteFails, InsertFails, Insert, Duplicate, Goto, time, cached,
     table, Batch
<1>14. CASE PutBack
  BY <1>14 DEF PutBack, Return, Ends, NoFlush, Fresh, OneMore, time, table, Batch
<1>15. CASE PutBackFails
  BY <1>15 DEF PutBackFails, Return, Ends, NoFlush, Fresh, OneMore, time, cached,
     table, Batch
<1>16. CASE DelBodies
  BY <1>16 DEF DelBodies, Fresh, time, table, Batch
<1>17. CASE FirstTicker
  BY <1>17 DEF FirstTicker, cached, table
<1>18. CASE Tick
  BY <1>18 DEF Tick, Goto, cached, table, Batch
<1>19. CASE Minute
  BY <1>19 DEF Minute, Older, Forever, table
<1>20. CASE Stop
  BY <1>20 DEF Stop, time, cached, table
<1>21. CASE LastFlush
  BY <1>21 DEF LastFlush, Goto, time, cached, table, Batch
<1>22. CASE Crash
  BY <1>22 DEF Crash, NoFlush, Fresh, time, cached, table, Batch
<1>23. CASE Start
  BY <1>23 DEF Start, NoTicker, Fresh, table, Batch
<1>24. ASSUME NEW i \in Intervals, ChangeInterval(i)
      PROVE  Kept'
  BY <1>24 DEF ChangeInterval, cached, table
<1>25. CASE UNCHANGED vars
  BY <1>25 DEF vars, time, cached, table
<1> QED
  BY <1>1, <1>2, <1>3, <1>4, <1>5, <1>6, <1>7, <1>8, <1>9, <1>10, <1>11,
     <1>12, <1>13, <1>14, <1>15, <1>16, <1>17, <1>18, <1>19, <1>20, <1>21,
     <1>22, <1>23, <1>24, <1>25 DEF Next, Record, Flush

LEMMA NextStop ==
  ASSUME IInv, [Next]_vars
  PROVE  StopLeavesNothing'
<1> USE DEF proc, StopLeavesNothing, Typed, Quiet, Kept, Held, At, Recording, Direct, IInv
<1>1. ASSUME NEW l \in Logs, RecordOff(l)
      PROVE  StopLeavesNothing'
  BY <1>1 DEF RecordOff, Becomes, time, cached, table
<1>2. ASSUME NEW l \in Logs, RecordDirect(l)
      PROVE  StopLeavesNothing'
  BY <1>2 DEF RecordDirect, Becomes, Insert, InsertFails, Duplicate, time,
     cached, table
<1>3. ASSUME NEW l \in Logs, RecordCached(l)
      PROVE  StopLeavesNothing'
  BY <1>3 DEF RecordCached, Becomes, time, cached, table
<1>4. ASSUME NEW l \in Logs, SetBody(l)
      PROVE  StopLeavesNothing'
  BY <1>4 DEF SetBody, Becomes, Ttl, Forever, time, table
<1>5. ASSUME NEW l \in Logs, AddPending(l)
      PROVE  StopLeavesNothing'
  BY <1>5 DEF AddPending, Becomes, time, table
<1>6. ASSUME NEW l \in Logs, RecordFails(l)
      PROVE  StopLeavesNothing'
  BY <1>6 DEF RecordFails, Becomes, time, cached, table
<1>7. CASE FlushStarts
  BY <1>7 DEF FlushStarts, Ends, Goto, NoFlush, Fresh, time, cached, table,
     Batch
<1>8. CASE Pop
  BY <1>8 DEF Pop, time, table, Batch
<1>9. CASE PopNothing
  BY <1>9 DEF PopNothing, Return, Ends, NoFlush, Fresh, time, cached, table, Batch
<1>10. CASE PopFails
  <2>1. failures' = OneMore
    BY <1>10, Returned DEF PopFails
  <2>2. OneMore # 0
    BY OneMoreIsMore
  <2> QED
    BY <2>1, <2>2
<1>11. CASE Get
  BY <1>11 DEF Get, time, cached, table, Batch
<1>12. CASE Write
  BY <1>12 DEF Write, Insert, Goto, time, cached, Batch
<1>13. CASE WriteFails
  BY <1>13 DEF WriteFails, InsertFails, Insert, Duplicate, Goto, time, cached,
     table, Batch
<1>14. CASE PutBack
  <2>1. failures' = OneMore
    BY <1>14, Returned DEF PutBack
  <2>2. OneMore # 0
    BY OneMoreIsMore
  <2> QED
    BY <2>1, <2>2
<1>15. CASE PutBackFails
  <2>1. failures' = OneMore
    BY <1>15, Returned DEF PutBackFails
  <2>2. OneMore # 0
    BY OneMoreIsMore
  <2> QED
    BY <2>1, <2>2
<1>16. CASE DelBodies
  BY <1>16 DEF DelBodies, Fresh, time, table, Batch
<1>17. CASE FirstTicker
  BY <1>17 DEF FirstTicker, cached, table
<1>18. CASE Tick
  BY <1>18 DEF Tick, Goto, cached, table, Batch
<1>19. CASE Minute
  BY <1>19 DEF Minute, Older, Forever, table
<1>20. CASE Stop
  BY <1>20 DEF Stop, time, cached, table
<1>21. CASE LastFlush
  BY <1>21 DEF LastFlush, Goto, time, cached, table, Batch
<1>22. CASE Crash
  BY <1>22 DEF Crash, NoFlush, Fresh, time, cached, table, Batch
<1>23. CASE Start
  BY <1>23 DEF Start, NoTicker, Fresh, table, Batch
<1>24. ASSUME NEW i \in Intervals, ChangeInterval(i)
      PROVE  StopLeavesNothing'
  BY <1>24 DEF ChangeInterval, cached, table
<1>25. CASE UNCHANGED vars
  BY <1>25 DEF vars, time, cached, table
<1> QED
  BY <1>1, <1>2, <1>3, <1>4, <1>5, <1>6, <1>7, <1>8, <1>9, <1>10, <1>11,
     <1>12, <1>13, <1>14, <1>15, <1>16, <1>17, <1>18, <1>19, <1>20, <1>21,
     <1>22, <1>23, <1>24, <1>25 DEF Next, Record, Flush

(***************************************************************************)
(* The theorems                                                            *)
(***************************************************************************)
LEMMA InitIInv == Init => IInv
<1> SUFFICES ASSUME Init PROVE IInv
  OBVIOUS
<1>1. flush.pc = "start" /\ flush.keys = {} /\ flush.got = {}
  BY DEF Init, Fresh, Batch
<1>2. \A l \in Logs : log[l] = "new" /\ counted[l] = 0
  BY DEF Init
<1>3. CountedOnce
  BY <1>2 DEF Init, CountedOnce
<1>4. NotYet /\ Kept /\ Direct /\ StopLeavesNothing
  BY <1>1, <1>2 DEF Init, NotYet, Kept, Direct, StopLeavesNothing, Recording
<1>5. Quiet /\ Taken
  BY <1>1 DEF Init, Quiet, Taken, At
<1> QED
  BY <1>3, <1>4, <1>5, InitTyped DEF IInv

LEMMA NextIInv == IInv /\ [Next]_vars => IInv'
<1> SUFFICES ASSUME IInv, [Next]_vars PROVE IInv'
  OBVIOUS
<1>1. Typed' /\ CountedOnce'
  BY NextTyped, NextCounted DEF IInv
<1>2. NotYet' /\ Quiet' /\ Taken' /\ Direct'
  BY NextNotYet, NextQuiet, NextTaken, NextDirect DEF IInv
<1>3. Kept' /\ StopLeavesNothing'
  BY NextKept, NextStop DEF IInv
<1> QED
  BY <1>1, <1>2, <1>3 DEF IInv

LEMMA Invariance == Spec => []IInv
BY InitIInv, NextIInv, PTL DEF Spec

\* Every variable has its type, for any constants.
THEOREM TypesHold == Spec => []TypeOK
<1>1. IInv => TypeOK
  BY DEF IInv, Typed, TypeOK, FlushPcs, Phases
<1> QED
  BY <1>1, Invariance, PTL

\* A log is counted as often as it is in the table, once or not at all,
\* whatever fails and however often a batch is tried (writeLogsToDB).
THEOREM LogsAreCountedOnce == Spec => []CountedOnce
<1>1. IInv => CountedOnce
  BY DEF IInv
<1> QED
  BY <1>1, Invariance, PTL

\* What was recorded is in the table, or the store or the flush has it, until
\* its body expires or the process dies (Record, flush).
THEOREM NothingIsLostSilently == Spec => []NoSilentLoss
<1>1. IInv => NoSilentLoss
  BY DEF IInv, Kept, Held, NoSilentLoss
<1> QED
  BY <1>1, Invariance, PTL

\* A stop whose last flush ran (the interval was not 0) and succeeded leaves
\* nothing outside the table but what handlers recorded that the shutdown of
\* the HTTP server did not wait for, whatever the interval was before (Stop).
THEOREM StopFlushesAll == Spec => []StopLeavesNothing
<1>1. IInv => StopLeavesNothing
  BY DEF IInv
<1> QED
  BY <1>1, Invariance, PTL

(***************************************************************************)
(* How long bodies live.  While the interval stays as it is, a body that   *)
(* waits to be flushed lives until the ticks that are left of its time to  *)
(* live have come: one less for every flush that has failed in a row,      *)
(* because the first that succeeds leaves nothing waiting.                 *)
(***************************************************************************)
Steady == phase = "up" /\ ~changed /\ interval # 0

Waiting(l) ==
  l \notin rows /\ body[l] # 0 /\ log[l] \in {"recorded", "lost"} /\ l \in pending \cup Held

\* A tick has come whose flush has not ended yet.
Owed == ticker.ticked \/ ~At("idle")

LivesLong(l) ==
  body[l] >= interval * (TtlFactor - 1 - failures) + ticker.due - (IF Owed THEN interval ELSE 0)

InTime ==
  Steady =>
    /\ \A l \in Logs : log[l] = "adding" => body[l] = interval * TtlFactor
    /\ ticker = NoTicker => \A l \in Logs : Waiting(l) => body[l] = interval * TtlFactor
    /\ ticker # NoTicker => ticker.period = interval /\ ticker.due >= 1
    /\ ticker # NoTicker /\ failures <= TtlFactor - 2 => \A l \in Logs : Waiting(l) => LivesLong(l)
    /\ ticker.ticked => At("idle")

LEMMA FullLife ==
  ASSUME NEW P \in Nat, NEW F \in Nat, NEW f \in Nat, NEW d \in Nat, d <= P
  PROVE  P * F >= P * (F - 1 - f) + d
<1>1. P * (F - 1 - f) = P * F - (P + P * f)
  OBVIOUS
<1>2. P * f \in Nat /\ P * F \in Nat
  OBVIOUS
<1> QED BY <1>1, <1>2

LEMMA OneTickLess ==
  ASSUME NEW P \in Nat, NEW F \in Nat, NEW f \in Nat
  PROVE  P * (F - 1 - f) = P * (F - 1 - (f + 1)) + P
OBVIOUS

\* What is needed of the numbers.
LEMMA Steadily ==
  ASSUME Typed, Steady
  PROVE  /\ interval \in Nat \ {0} /\ TtlFactor \in Nat \ {0} /\ failures \in Nat
         /\ ticker.due \in Nat /\ ticker.due <= ticker.period
         /\ \A l \in Logs : body[l] \in Int
         /\ Ttl = interval * TtlFactor /\ OrMinute(interval) = interval
BY Numbers DEF Typed, Steady, Ttl, OrMinute, Forever

\* A step that takes nothing from the life of a body that waits.
LEMMA Unhurried ==
  ASSUME Typed, InTime, UNCHANGED <<time, failures>>, Steady' => Steady,
         Owed => Owed', ticker.ticked => At("idle")',
         \A l \in Logs : Waiting(l)' => (Waiting(l) \/ log[l] = "adding") /\ body'[l] = body[l],
         \A l \in Logs : log'[l] = "adding" =>
           (log[l] = "adding" /\ body'[l] = body[l]) \/ body'[l] = Ttl
  PROVE  InTime'
<1> SUFFICES ASSUME Steady PROVE InTime'
  BY DEF InTime
<1>1. /\ interval \in Nat \ {0} /\ TtlFactor \in Nat \ {0} /\ failures \in Nat
      /\ ticker.due \in Nat /\ ticker.due <= ticker.period
      /\ \A l \in Logs : body[l] \in Int
      /\ Ttl = interval * TtlFactor
  BY Steadily
<1>2. UNCHANGED <<interval, changed, ticker, failures>>
  BY DEF time
<1>3. \A l \in Logs : log'[l] = "adding" => body'[l] = interval * TtlFactor
  BY <1>1 DEF InTime
<1>4. ticker = NoTicker => \A l \in Logs : Waiting(l)' => body'[l] = interval * TtlFactor
  BY DEF InTime
<1>5. ticker # NoTicker => ticker.period = interval /\ ticker.due >= 1
  BY DEF InTime
<1>6. ASSUME ticker # NoTicker, failures <= TtlFactor - 2, NEW l \in Logs, Waiting(l)'
      PROVE  LivesLong(l)'
  <2>1. body'[l] = body[l] /\ body[l] \in Int
    BY <1>1, <1>6
  <2>2. CASE Waiting(l)
    <3>1. LivesLong(l)
      BY <1>6, <2>2 DEF InTime
    <3>2. interval * (TtlFactor - 1 - failures) \in Int
      BY <1>1
    <3> QED BY <1>1, <1>2, <2>1, <3>1, <3>2 DEF LivesLong
  <2>3. CASE log[l] = "adding"
    <3>1. body[l] = interval * TtlFactor
      BY <2>3 DEF InTime
    <3>2. body[l] >= interval * (TtlFactor - 1 - failures) + ticker.due
      BY <1>1, <1>5, <1>6, <3>1, FullLife
    <3>3. interval * (TtlFactor - 1 - failures) \in Int
      BY <1>1
    <3> QED BY <1>1, <1>2, <2>1, <3>2, <3>3 DEF LivesLong
  <2> QED BY <1>6, <2>2, <2>3
<1> QED BY <1>2, <1>3, <1>4, <1>5, <1>6 DEF InTime

\* A flush that fails has taken the tick it was owed.
LEMMA FlushFailed ==
  ASSUME Typed, InTime, TtlFactor - 1 <= MaxFails, UNCHANGED <<time, body>>, Return(OneMore),
         ~At("idle"),
         \A l \in Logs : Waiting(l)' => Waiting(l),
         \A l \in Logs : log'[l] = "adding" => log[l] = "adding"
  PROVE  InTime'
<1>0. flush'.pc = "idle" /\ failures' = OneMore /\ (phase' = "up" => phase = "up")
  BY Returned
<1> SUFFICES ASSUME Steady PROVE InTime'
  BY <1>0 DEF InTime, Steady, time
<1>1. /\ interval \in Nat \ {0} /\ TtlFactor \in Nat \ {0} /\ failures \in Nat
      /\ ticker.due \in Nat /\ ticker.due <= ticker.period
      /\ \A l \in Logs : body[l] \in Int
  BY Steadily
<1>2. UNCHANGED <<interval, changed, ticker>>
  BY DEF time
<1>3. \A l \in Logs : log'[l] = "adding" => body'[l] = interval * TtlFactor
  BY DEF InTime
<1>4. ticker = NoTicker => \A l \in Logs : Waiting(l)' => body'[l] = interval * TtlFactor
  BY DEF InTime
<1>5. /\ ticker # NoTicker => ticker.period = interval /\ ticker.due >= 1
      /\ ~ticker.ticked
  BY DEF InTime
<1>6. ASSUME ticker # NoTicker, failures' <= TtlFactor - 2, NEW l \in Logs, Waiting(l)'
      PROVE  LivesLong(l)'
  <2>1. failures' = failures + 1
    BY <1>0, <1>1, <1>6, Numbers DEF OneMore, Typed
  <2>2. LivesLong(l)
    BY <1>1, <1>6, <2>1 DEF InTime
  <2>3. body[l] >= interval * (TtlFactor - 1 - failures) + ticker.due - interval
    BY <1>1, <2>2 DEF LivesLong, Owed
  <2>4. interval * (TtlFactor - 1 - failures) = interval * (TtlFactor - 1 - failures') + interval
    BY <1>1, <2>1, OneTickLess
  <2>5. ~Owed'
    BY <1>0, <1>2, <1>5 DEF Owed, At
  <2>6. interval * (TtlFactor - 1 - failures') \in Int
    BY <1>1, <2>1
  <2> QED BY <1>1, <1>2, <2>3, <2>4, <2>5, <2>6 DEF LivesLong
<1> QED BY <1>0, <1>2, <1>3, <1>4, <1>5, <1>6 DEF InTime, At

\* After a flush that leaves nothing everything starts again.
LEMMA NothingWaits ==
  ASSUME Typed, InTime, UNCHANGED <<time, body, log>>, Steady' => Steady, flush'.pc = "idle",
         \A l \in Logs : ~Waiting(l)'
  PROVE  InTime'
BY DEF InTime, Steady, time, At

\* What a handler records does not wait before it is among the pending ones.
LEMMA RecordInTime ==
  ASSUME Typed, NotYet, InTime, NEW l \in Logs, Record(l)
  PROVE  InTime'
<1>0. UNCHANGED <<time, failures, flush, phase>>
  BY DEF Record, RecordOff, RecordDirect, RecordCached, SetBody, AddPending, RecordFails, proc
<1>1. (Steady' <=> Steady) /\ (Owed' <=> Owed) /\ (At("idle")' <=> At("idle")) /\ Held' = Held
  BY <1>0 DEF Steady, Owed, At, Held, time
<1>2. /\ rows \subseteq rows'
      /\ \A m \in Logs \ {l} : log'[m] = log[m] /\ body'[m] = body[m] /\ (m \in pending' <=> m \in pending)
  BY DEF Typed, Record, RecordOff, RecordDirect, RecordCached, SetBody, AddPending, RecordFails,
     Becomes, cached, table, InsertFails, Insert
<1>3. \A m \in Logs \ {l} : Waiting(m)' => Waiting(m) /\ body'[m] = body[m]
  BY <1>1, <1>2 DEF Waiting
<1>4. Waiting(l)' => (Waiting(l) \/ log[l] = "adding") /\ body'[l] = body[l]
  <2>1. CASE RecordDirect(l)
    BY <1>1, <2>1 DEF RecordDirect, Becomes, Typed, Waiting, cached, NotYet, Held
  <2>2. CASE RecordOff(l) \/ RecordCached(l) \/ SetBody(l) \/ RecordFails(l)
    BY <2>2 DEF RecordOff, RecordCached, SetBody, RecordFails, Becomes, Typed, Waiting
  <2>3. CASE AddPending(l)
    BY <2>3 DEF AddPending, Becomes, Typed
  <2> QED BY <2>1, <2>2, <2>3 DEF Record
<1>5. log'[l] = "adding" => (log[l] = "adding" /\ body'[l] = body[l]) \/ body'[l] = Ttl
  BY DEF Typed, Record, RecordOff, RecordDirect, RecordCached, SetBody, AddPending, RecordFails,
     Becomes, cached
<1>6. ticker.ticked => At("idle")' \/ ~Steady
  BY <1>1 DEF InTime
<1>7. CASE Steady
  <2>1. ticker.ticked => At("idle")'
    BY <1>6, <1>7
  <2> QED BY <1>0, <1>1, <1>2, <1>3, <1>4, <1>5, <2>1, Unhurried
<1>8. CASE ~Steady
  BY <1>1, <1>8 DEF InTime
<1> QED BY <1>7, <1>8

\* The steps of a flush that go on, and those after which it has failed.
LEMMA FlushInTime ==
  ASSUME Typed, NotYet, Kept, Quiet, InTime, TtlFactor - 1 <= MaxFails, Flush
  PROVE  InTime'
<1>0. UNCHANGED time /\ ~At("idle")
  BY DEF Flush, FlushStarts, Pop, PopNothing, PopFails, Get, Write, WriteFails, PutBack,
     PutBackFails, DelBodies, At
<1>s. Steady' => Steady
  <2>1. phase' = "up" => phase = "up"
    BY DEF Flush, FlushStarts, Pop, PopNothing, PopFails, Get, Write, WriteFails, PutBack,
       PutBackFails, DelBodies, Return, Ends, proc
  <2> QED BY <1>0, <2>1 DEF Steady, time
<1> SUFFICES ASSUME Steady PROVE InTime'
  BY <1>s DEF InTime
<1>t. ~ticker.ticked /\ interval # 0 /\ phase = "up"
  BY <1>0 DEF InTime, Steady
<1>u. ASSUME UNCHANGED failures, ~At("idle")',
             \A l \in Logs : Waiting(l)' => Waiting(l) /\ body'[l] = body[l],
             \A l \in Logs : log'[l] = "adding" => log[l] = "adding" /\ body'[l] = body[l]
      PROVE  InTime'
  BY <1>0, <1>s, <1>t, <1>u, Unhurried DEF Owed
<1>1. CASE FlushStarts
  <2>1. Goto("pop") /\ UNCHANGED <<log, cached, table, failures>> /\ At("start")
    BY <1>1, <1>t DEF FlushStarts
  <2>2. flush'.pc = "pop" /\ Held' = {} /\ Held = {}
    BY <2>1 DEF Goto, Batch, Held, At
  <2> QED BY <1>u, <2>1, <2>2 DEF Waiting, At, cached, table
<1>2. CASE Pop
  <2>1. PICK K \in SUBSET pending : pending' = pending \ K /\ flush' = Batch("get", K, {})
    BY <1>2 DEF Pop
  <2>2. UNCHANGED <<log, body, table, failures>> /\ At("pop")
    BY <1>2 DEF Pop
  <2>3. flush'.pc = "get" /\ Held' = K
    BY <2>1 DEF Batch, Held
  <2> QED BY <1>u, <2>1, <2>2, <2>3 DEF Waiting, At, table
<1>3. CASE Get
  <2>1. PICK L \in SUBSET flush.keys :
          /\ flush' = Batch(IF L = {} THEN "pop" ELSE "write", flush.keys, L)
          /\ log' = [l \in Logs |->
               IF l \in flush.keys \ L /\ log[l] = "recorded" THEN "lost" ELSE log[l]]
    BY <1>3 DEF Get
  <2>2. UNCHANGED <<body, pending, rows, failures>> /\ At("get")
    BY <1>3 DEF Get, cached, table
  <2>3. flush'.pc \in {"pop", "write"} /\ Held' \subseteq flush.keys /\ Held = flush.keys
    BY <2>1, <2>2 DEF Batch, Held, At
  <2>4. \A l \in Logs : log'[l] \in {"recorded", "lost"} => log[l] \in {"recorded", "lost"}
    BY <2>1
  <2>5. \A l \in Logs : log'[l] = "adding" => log[l] = "adding"
    BY <2>1
  <2> QED BY <1>u, <2>2, <2>3, <2>4, <2>5 DEF Waiting, At
<1>4. CASE Write \/ WriteFails
  <2>1. /\ UNCHANGED <<log, cached, failures>> /\ At("write") /\ rows \subseteq rows'
        /\ Goto("del") \/ Goto("put back")
    BY <1>4 DEF Write, WriteFails, Insert, InsertFails, table
  <2>2. flush'.pc \in {"del", "put back"} /\ flush'.keys = flush.keys
    <3>1. CASE Goto("del")
      BY <3>1 DEF Goto, Batch
    <3>2. CASE Goto("put back")
      BY <3>2 DEF Goto, Batch
    <3> QED BY <2>1, <3>1, <3>2
  <2>3. Held' = Held
    BY <2>1, <2>2 DEF Held, At
  <2> QED BY <1>u, <2>1, <2>2, <2>3 DEF Waiting, At, cached
<1>5. CASE DelBodies
  <2>1. /\ UNCHANGED <<log, pending, table, failures>> /\ At("del") /\ flush' = Fresh("pop")
        /\ \E L : body' = [l \in Logs |-> IF l \in L THEN 0 ELSE body[l]]
    BY <1>5 DEF DelBodies
  <2>2. flush'.pc = "pop" /\ Held' = {}
    BY <2>1 DEF Fresh, Batch, Held
  <2>3. \A l \in Logs : body'[l] = body[l] \/ body'[l] = 0
    BY <2>1
  <2>4. \A l \in Logs : Waiting(l)' => Waiting(l) /\ body'[l] = body[l]
    BY <2>1, <2>2, <2>3 DEF Waiting, table
  <2>5. \A l \in Logs : log'[l] = "adding" => log[l] = "adding" /\ body'[l] = body[l]
    <3> SUFFICES ASSUME NEW l \in Logs, log[l] = "adding" PROVE body'[l] = body[l]
      BY <2>1
    <3>1. PICK L \in {flush.got, {}} : body' = [m \in Logs |-> IF m \in L THEN 0 ELSE body[m]]
      BY <1>5 DEF DelBodies
    <3>2. l \notin flush.keys /\ flush.got \subseteq flush.keys
      BY DEF NotYet, Recording, Typed
    <3> QED BY <3>1, <3>2
  <2> QED BY <1>u, <2>1, <2>2, <2>4, <2>5 DEF At
<1>6. CASE PopNothing
  <2>1. At("pop") /\ pending = {} /\ Return(0) /\ UNCHANGED <<log, cached, table>>
    BY <1>6 DEF PopNothing
  <2>2. flush'.pc = "idle"
    BY <2>1, Returned
  <2>3. Held' = {} /\ pending' = {}
    BY <2>1, <2>2 DEF Held, cached
  <2>4. \A l \in Logs : ~Waiting(l)'
    BY <2>3 DEF Waiting
  <2> QED BY <1>0, <1>s, <2>1, <2>2, <2>4, NothingWaits DEF cached
<1>7. CASE PopFails
  <2>1. At("pop") /\ Return(OneMore) /\ UNCHANGED <<log, cached, table>>
    BY <1>7 DEF PopFails
  <2>2. Held' = {}
    BY <2>1, Returned DEF Held
  <2> QED BY <1>0, <2>1, <2>2, FlushFailed DEF Waiting, cached, table
<1>8. CASE PutBack
  <2>1. /\ At("put back") /\ Return(OneMore) /\ UNCHANGED <<body, rows>>
        /\ pending' = pending \cup flush.keys
        /\ log' = [l \in Logs |->
             IF l \in flush.keys /\ log[l] = "lost" /\ body[l] # 0 THEN "recorded" ELSE log[l]]
    BY <1>8 DEF PutBack, table
  <2>2. Held' = {} /\ Held = flush.keys
    BY <2>1, Returned DEF Held, At
  <2>3. \A l \in Logs : log'[l] \in {"recorded", "lost"} => log[l] \in {"recorded", "lost"}
    BY <2>1
  <2>4. \A l \in Logs : log'[l] = "adding" => log[l] = "adding"
    BY <2>1
  <2>5. \A l \in Logs : Waiting(l)' => Waiting(l)
    BY <2>1, <2>2, <2>3 DEF Waiting
  <2> QED BY <1>0, <2>1, <2>4, <2>5, FlushFailed
<1>9. CASE PutBackFails
  <2>1. /\ At("put back") /\ Return(OneMore) /\ UNCHANGED <<body, pending, rows>>
        /\ log' = [l \in Logs |->
             IF l \in flush.keys /\ log[l] = "recorded" THEN "lost" ELSE log[l]]
    BY <1>9 DEF PutBackFails, cached, table
  <2>2. Held' = {}
    BY <2>1, Returned DEF Held
  <2>3. \A l \in Logs : log'[l] \in {"recorded", "lost"} => log[l] \in {"recorded", "lost"}
    BY <2>1
  <2>4. \A l \in Logs : log'[l] = "adding" => log[l] = "adding"
    BY <2>1
  <2>5. \A l \in Logs : Waiting(l)' => Waiting(l)
    BY <2>1, <2>2, <2>3 DEF Waiting
  <2> QED BY <1>0, <2>1, <2>4, <2>5, FlushFailed
<1> QED BY <1>1, <1>2, <1>3, <1>4, <1>5, <1>6, <1>7, <1>8, <1>9 DEF Flush

LEMMA FirstTickerInTime ==
  ASSUME Typed, InTime, FirstTicker
  PROVE  InTime'
<1>1. /\ At("idle") /\ ticker = NoTicker /\ ticker' = Armed(interval)
      /\ UNCHANGED <<interval, changed, log, cached, table, flush, failures, phase>>
  BY DEF FirstTicker, proc
<1> SUFFICES ASSUME Steady PROVE InTime'
  BY <1>1 DEF InTime, Steady
<1>2. /\ interval \in Nat \ {0} /\ TtlFactor \in Nat \ {0} /\ failures \in Nat
      /\ \A l \in Logs : body[l] \in Int
      /\ OrMinute(interval) = interval
  BY Steadily
<1>3. ticker'.period = interval /\ ticker'.due = interval /\ ticker'.ticked = FALSE
  BY <1>1, <1>2 DEF Armed, Clock
<1>4. Held' = Held /\ \A l \in Logs : (Waiting(l)' <=> Waiting(l)) /\ body'[l] = body[l]
  BY <1>1 DEF Waiting, Held, cached, table
<1>5. ASSUME NEW l \in Logs, Waiting(l)' PROVE body'[l] = interval * TtlFactor /\ LivesLong(l)'
  <2>1. body[l] = interval * TtlFactor /\ body'[l] = body[l]
    BY <1>1, <1>4, <1>5 DEF InTime
  <2>2. body[l] >= interval * (TtlFactor - 1 - failures) + interval
    BY <1>2, <2>1, FullLife
  <2>3. ~Owed'
    BY <1>1, <1>3 DEF Owed, At
  <2> QED BY <1>1, <1>2, <1>3, <2>1, <2>2, <2>3 DEF LivesLong
<1>6. \A l \in Logs : log'[l] = "adding" => body'[l] = interval' * TtlFactor
  BY <1>1 DEF InTime, cached
<1> QED BY <1>1, <1>2, <1>3, <1>5, <1>6 DEF InTime, At

LEMMA TickInTime ==
  ASSUME Typed, InTime, Tick
  PROVE  InTime'
<1>1. /\ At("idle") /\ ticker.ticked /\ Goto("start")
      /\ UNCHANGED <<interval, changed, log, cached, table, failures, phase>>
  BY DEF Tick, proc
<1> SUFFICES ASSUME Steady PROVE InTime'
  BY <1>1 DEF InTime, Steady
<1>2. /\ interval \in Nat \ {0} /\ TtlFactor \in Nat \ {0} /\ failures \in Nat
      /\ \A l \in Logs : body[l] \in Int
      /\ OrMinute(interval) = interval
  BY Steadily
<1>3. ticker # NoTicker
  BY <1>1 DEF NoTicker, Clock
<1>4. ticker' = Clock(ticker.period, ticker.due, FALSE)
  BY <1>2, <1>3 DEF Tick, InTime
<1>5. ticker'.period = ticker.period /\ ticker'.due = ticker.due /\ ticker'.ticked = FALSE
  BY <1>4 DEF Clock
<1>6. flush'.pc = "start" /\ Held' = {} /\ Held = {} /\ Owed /\ Owed'
  BY <1>1 DEF Goto, Batch, Held, At, Owed
<1>7. \A l \in Logs : (Waiting(l)' <=> Waiting(l)) /\ (LivesLong(l)' <=> LivesLong(l)) /\ body'[l] = body[l]
  BY <1>1, <1>5, <1>6 DEF Waiting, LivesLong, cached, table
<1>8. ticker' # NoTicker
  BY <1>2, <1>3, <1>5 DEF InTime, NoTicker, Clock
<1>9. \A l \in Logs : log'[l] = "adding" => body'[l] = interval' * TtlFactor
  BY <1>1 DEF InTime, cached
<1> QED BY <1>1, <1>3, <1>5, <1>7, <1>8, <1>9 DEF InTime

\* A minute takes one from the life of each body and from the time to the tick;
\* the minute that brings the tick takes the interval that the tick then owes.
LEMMA MinuteInTime ==
  ASSUME Typed, InTime, Minute
  PROVE  InTime'
<1>1. /\ phase = "up" /\ At("idle") /\ ticker # NoTicker /\ ~ticker.ticked
      /\ \A l \in Logs : log[l] \notin Recording
      /\ body' = [l \in Logs |-> Older(l)]
      /\ log' = [l \in Logs |->
           IF log[l] = "recorded" /\ counted[l] = 0 /\ Older(l) = 0 THEN "expired" ELSE log[l]]
      /\ ticker' = IF ticker.due > 1 THEN Clock(ticker.period, ticker.due - 1, FALSE)
                   ELSE Clock(ticker.period, ticker.period, TRUE)
      /\ UNCHANGED <<interval, changed, pending, table, flush, failures, phase>>
  BY DEF Minute, proc
<1> SUFFICES ASSUME Steady PROVE InTime'
  BY <1>1 DEF InTime, Steady
<1>2. /\ interval \in Nat \ {0} /\ TtlFactor \in Nat \ {0} /\ failures \in Nat
      /\ ticker.due \in Nat /\ ticker.due <= ticker.period
      /\ \A l \in Logs : body[l] \in Int
  BY Steadily
<1>3. ticker.period = interval /\ ticker.due >= 1 /\ ~Owed
  BY <1>1 DEF InTime, Owed
<1>4. /\ ticker'.period = interval /\ ticker'.due >= 1 /\ (Owed' <=> ticker'.ticked)
      /\ ticker'.due - (IF ticker'.ticked THEN interval ELSE 0) = ticker.due - 1
  <2>1. CASE ticker.due > 1
    BY <1>1, <1>2, <1>3, <2>1 DEF Clock, Owed, At
  <2>2. CASE ticker.due = 1
    BY <1>1, <1>2, <1>3, <2>2 DEF Clock, Owed, At
  <2> QED BY <1>2, <1>3, <2>1, <2>2
<1>5. \A l \in Logs : Waiting(l)' => Waiting(l) /\ body'[l] >= body[l] - 1
  <2> SUFFICES ASSUME NEW l \in Logs, Waiting(l)' PROVE Waiting(l) /\ body'[l] >= body[l] - 1
    OBVIOUS
  <2>1. body'[l] = Older(l) /\ body[l] \in Int
    BY <1>1, <1>2
  <2>2. body'[l] # 0 => body[l] # 0
    BY <2>1 DEF Older
  <2>3. body'[l] >= body[l] - 1
    BY <2>1 DEF Older
  <2>4. log'[l] \in {"recorded", "lost"} => log[l] \in {"recorded", "lost"}
    BY <1>1
  <2>5. Held' = Held
    BY <1>1 DEF Held
  <2> QED BY <1>1, <2>2, <2>3, <2>4, <2>5 DEF Waiting, table
<1>6. ASSUME failures <= TtlFactor - 2, NEW l \in Logs, Waiting(l)' PROVE LivesLong(l)'
  <2>1. LivesLong(l)
    BY <1>1, <1>5, <1>6 DEF InTime
  <2>2. body[l] >= interval * (TtlFactor - 1 - failures) + ticker.due
    BY <1>2, <1>3, <2>1 DEF LivesLong
  <2>3. body'[l] \in Int /\ body'[l] >= body[l] - 1
    <3>1. body'[l] = Older(l) /\ body[l] \in Int
      BY <1>1, <1>2
    <3> QED BY <1>5, <1>6, <3>1 DEF Older
  <2>4. interval * (TtlFactor - 1 - failures) \in Int
    BY <1>2
  <2>5. body'[l] >= interval * (TtlFactor - 1 - failures) + (ticker.due - 1)
    BY <1>2, <2>2, <2>3, <2>4
  <2>6. interval' = interval /\ failures' = failures /\ ticker'.due \in Int
    BY <1>1, <1>2, <1>3 DEF Clock
  <2>7. CASE ticker'.ticked
    BY <1>2, <1>4, <2>3, <2>4, <2>5, <2>6, <2>7 DEF LivesLong
  <2>8. CASE ~ticker'.ticked
    BY <1>2, <1>4, <2>3, <2>4, <2>5, <2>6, <2>8 DEF LivesLong
  <2> QED BY <2>7, <2>8
<1>7. \A l \in Logs : log'[l] # "adding"
  BY <1>1 DEF Recording
<1>8. ticker' # NoTicker
  BY <1>2, <1>4 DEF NoTicker, Clock
<1> QED BY <1>1, <1>4, <1>6, <1>7, <1>8 DEF InTime, At

LEMMA StartInTime ==
  ASSUME Typed, Start
  PROVE  InTime'
<1>1. /\ ticker' = NoTicker /\ pending' = {} /\ flush' = Fresh("start")
      /\ \A l \in Logs : log'[l] # "adding"
  BY DEF Start, Recording
<1>2. Held' = {} /\ ticker'.ticked = FALSE
  BY <1>1 DEF Fresh, Batch, Held, NoTicker, Clock
<1>3. \A l \in Logs : ~Waiting(l)'
  BY <1>1, <1>2 DEF Waiting
<1> QED BY <1>1, <1>2, <1>3 DEF InTime

LEMMA NextInTime ==
  ASSUME TtlFactor - 1 <= MaxFails
  PROVE  IInv /\ InTime /\ [Next]_vars => InTime'
<1> SUFFICES ASSUME IInv, InTime, [Next]_vars PROVE InTime'
  OBVIOUS
<1>0. Typed /\ NotYet /\ Kept /\ Quiet
  BY DEF IInv
<1>1. ASSUME NEW l \in Logs, Record(l) PROVE InTime'
  BY <1>0, <1>1, RecordInTime
<1>2. CASE Flush
  BY <1>0, <1>2, FlushInTime
<1>3. CASE FirstTicker \/ Tick \/ Minute \/ Start
  BY <1>0, <1>3, FirstTickerInTime, TickInTime, MinuteInTime, StartInTime
<1>4. ASSUME NEW i \in Intervals, ChangeInterval(i) PROVE InTime'
  BY <1>4 DEF ChangeInterval, InTime, Steady
<1>5. CASE Stop \/ LastFlush \/ Crash
  BY <1>5 DEF Stop, LastFlush, Crash, InTime, Steady
<1>6. CASE UNCHANGED vars
  BY <1>6 DEF vars, InTime, Steady, Waiting, Held, LivesLong, Owed, At, time, proc, cached, table
<1> QED BY <1>1, <1>2, <1>3, <1>4, <1>5, <1>6 DEF Next

LEMMA InitInTime == Init => InTime
<1> SUFFICES ASSUME Init PROVE InTime
  OBVIOUS
<1>1. \A l \in Logs : log[l] = "new"
  BY DEF Init
<1>2. ticker = NoTicker /\ ticker.ticked = FALSE
  BY DEF Init, NoTicker, Clock
<1> QED BY <1>1, <1>2 DEF InTime, Waiting

\* While the interval stays as it is, whatever fails, a log expires only after
\* all but one of the flushes of its time to live have failed in a row; MaxFails,
\* up to which the model counts them, must not be below that number.
THEOREM LogsExpireLate ==
  ASSUME TtlFactor - 1 <= MaxFails
  PROVE  Spec => ExpiresAfterFailures
<1>1. IInv /\ InTime /\ [Next]_vars
        => \A l \in Logs : (log[l] = "recorded" /\ log'[l] = "expired")
             => changed \/ failures > TtlFactor - 2
  <2> SUFFICES ASSUME IInv, InTime, [Next]_vars, NEW l \in Logs,
                      log[l] = "recorded", log'[l] = "expired",
                      ~changed, ~(failures > TtlFactor - 2)
               PROVE  FALSE
    OBVIOUS
  <2>0. Typed /\ CountedOnce /\ Kept /\ Direct
    BY DEF IInv
  <2>1. Minute
    BY <2>0 DEF Next, Record, RecordOff, RecordDirect, RecordCached, SetBody, AddPending, RecordFails,
       Flush, FlushStarts, Pop, PopNothing, PopFails, Get, Write, WriteFails, PutBack, PutBackFails,
       DelBodies, FirstTicker, Tick, ChangeInterval, Stop, LastFlush, Crash, Start, Becomes, Typed, vars
  <2>2. /\ phase = "up" /\ ticker # NoTicker /\ ~ticker.ticked /\ At("idle")
        /\ counted[l] = 0 /\ Older(l) = 0
    BY <2>1 DEF Minute
  <2>3. l \notin rows
    BY <2>2 DEF IInv, CountedOnce
  <2>4. interval # 0 /\ body[l] # 0 /\ l \in pending \cup Held
    BY <2>0, <2>2, <2>3 DEF Direct, Kept
  <2>5. Steady /\ Waiting(l)
    BY <2>2, <2>3, <2>4 DEF Steady, Waiting
  <2>6. /\ interval \in Nat \ {0} /\ TtlFactor \in Nat \ {0} /\ failures \in Nat
        /\ ticker.due \in Nat /\ body[l] \in Int
    BY <2>0, <2>5, Steadily
  <2>7. LivesLong(l) /\ ticker.due >= 1 /\ ~Owed
    <3>1. failures <= TtlFactor - 2
      BY <2>6
    <3> QED BY <2>2, <2>5, <3>1 DEF InTime, Owed
  <2>8. body[l] = 1
    BY <2>2, <2>4, <2>6 DEF Older, Forever
  <2>9. 1 >= interval * (TtlFactor - 1 - failures) + ticker.due
    BY <2>7, <2>6, <2>8 DEF LivesLong
  <2>10. interval * (TtlFactor - 1 - failures) >= 1
    <3>1. TtlFactor - 1 - failures \in Nat \ {0}
      BY <2>6
    <3>2. \A a, b \in Nat \ {0} : a * b \in Nat \ {0}
      OBVIOUS
    <3> QED BY <2>6, <3>1, <3>2
  <2>11. interval * (TtlFactor - 1 - failures) \in Int
    BY <2>6
  <2> QED BY <2>7, <2>6, <2>9, <2>10, <2>11
<1>2. Spec => []InTime
  <2>1. IInv /\ InTime /\ [Next]_vars => InTime'
    BY TtlFactor - 1 <= MaxFails, NextInTime
  <2> QED BY InitInTime, <2>1, Invariance, PTL DEF Spec
<1> QED BY <1>1, <1>2, Invariance, PTL DEF Spec, ExpiresAfterFailures
=============================================================================
