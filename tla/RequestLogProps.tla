--------------------------- MODULE RequestLogProps ---------------------------
(***************************************************************************)
(* What the request log promises.                                          *)
(***************************************************************************)
EXTENDS RequestLog

TypeOK ==
  /\ interval \in Intervals
  /\ changed \in BOOLEAN
  /\ log \in [Logs -> LogStates]
  /\ body \in [Logs -> {Forever} \cup Nat]
  /\ pending \subseteq Logs
  /\ rows \subseteq Logs
  /\ counted \in [Logs -> Nat]
  /\ flush.pc \in {"idle", "start", "pop", "get", "write", "put back", "del"}
  /\ flush.got \subseteq flush.keys /\ flush.keys \subseteq Logs
  /\ ticker.due \in 0 .. ticker.period
  /\ failures \in 0 .. MaxFails
  /\ phase \in {"up", "stopping", "final", "stopped", "skipped", "crashed"}
  /\ late \subseteq Logs

(***************************************************************************)
(* A log in the table was counted in the statistics exactly once, and none *)
(* was counted that is not in the table, whichever batches fail and are    *)
(* tried again, also after a commit whose answer was lost.                 *)
(* (writeLogsToDB: one transaction; the primary key of request_logs.)      *)
(***************************************************************************)
CountedOnce ==
  \A l \in Logs : counted[l] = IF l \in rows THEN 1 ELSE 0

(***************************************************************************)
(* A recorded log is in the table, or still known to the store or to the   *)
(* flush under way: a log is only lost where the code says so in its own   *)
(* log, when its body expires, or with the process.  (flush: what was      *)
(* popped is put back.)                                                    *)
(***************************************************************************)
NoSilentLoss ==
  \A l \in Logs :
    (log[l] = "recorded" /\ phase # "crashed") =>
      \/ l \in rows
      \/ body[l] # 0 /\ l \in pending \cup flush.keys

(***************************************************************************)
(* While the interval stays as it is, a log only expires after all but one *)
(* of the flushes of its time to live have failed.                         *)
(* (Record: the time to live; the ticker; flush: until nothing is left.)   *)
(***************************************************************************)
ExpiresAfterFailures ==
  [][\A l \in Logs :
       (log[l] = "recorded" /\ log'[l] = "expired") => changed \/ failures > TtlFactor - 2]_vars

(***************************************************************************)
(* When a stop has run to its end, and its last flush did not fail, every  *)
(* recorded log is in the table, however often the interval was changed    *)
(* before.  Two stops promise nothing for some logs: one at interval 0     *)
(* ends in "skipped", for its last flush returns at once and leaves what   *)
(* was cached before the interval became 0; and one that did not wait for  *)
(* the handlers (Close in App.Stop) leaves what these, late, still record. *)
(* (Stop: runLoop ends first, then flush, until nothing is popped.)        *)
(***************************************************************************)
StopLeavesNothing ==
  (phase = "stopped" /\ failures = 0) =>
    \A l \in Logs \ late : log[l] = "recorded" => l \in rows

(***************************************************************************)
(* Every flush ends, and with it every wait for the goroutine: a batch     *)
(* that the database refuses is left to the next flush.  (flush: the loop  *)
(* until nothing is popped.)                                               *)
(***************************************************************************)
FlushEnds == flush # NoFlush ~> flush = NoFlush
=============================================================================
