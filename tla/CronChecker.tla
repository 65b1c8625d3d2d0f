---------------------------- MODULE CronChecker ----------------------------
(***************************************************************************)
(* The cron checker, for one group: the loop with its ticker, a round of   *)
(* validations by workers that share a channel of keys, and Stop, which    *)
(* closes a channel that the loop, the distribution and the workers look   *)
(* at.  The tests of keys by an administrator go through the same          *)
(* validator.                                                              *)
(***************************************************************************)
EXTENDS KeyStatus

CONSTANTS
  Workers,      (* key_validation_concurrency goroutines                   *)
  Garbled,      (* keys that cannot be decrypted                           *)
  DbFaults      (* statements may fail                                     *)

ASSUME CronAssumption ==
  /\ Workers # {}
  /\ Garbled \subseteq Keys
  /\ "gone" \notin Keys \cup {None}
  /\ DbFaults \in BOOLEAN

VARIABLES
  cron,     (* where the loop is                                           *)
  due,      (* last_validated_at is older than the interval, or NULL       *)
  stop,     (* Stop: "no", "asked", and "done" if the loop ended in time   *)
  todo,     (* keys to be distributed                                      *)
  jobs,     (* keys in the channel                                         *)
  closed,   (* the channel is closed                                       *)
  worker,   (* None for a worker that waits, its key, or "gone"            *)
  round,    (* ghost: the keys of the round                                *)
  checked   (* ghost: those of them whose validation ended                 *)

roundVars == <<todo, jobs, closed, worker, round, checked>>
cronVars  == <<cron, due, stop, todo, jobs, closed, worker, round, checked>>

CronInit ==
  /\ cron = "submit"
  /\ due \in BOOLEAN
  /\ stop = "no"
  /\ todo = {} /\ jobs = {} /\ closed = TRUE
  /\ worker = [w \in Workers |-> "gone"]
  /\ round = {} /\ checked = {}

Stopping == stop # "no"

(***************************************************************************)
(* runLoop.  select takes the tick or the stop as it likes if it has both. *)
(***************************************************************************)
Elapse ==
  /\ ~due
  /\ due' = TRUE
  /\ UNCHANGED <<cron, stop, roundVars, statusVars>>

Tick ==
  /\ cron = "wait"
  /\ cron' = "submit"
  /\ UNCHANGED <<due, stop, roundVars, statusVars>>

LoopStops ==
  /\ cron = "wait"
  /\ Stopping
  /\ cron' = "stopped"
  /\ UNCHANGED <<due, stop, roundVars, statusVars>>

Stop ==
  /\ stop = "no"
  /\ stop' = "asked"
  /\ UNCHANGED <<cron, due, roundVars, statusVars>>

\* A stop that times out leaves everything as it is.
StopEnds ==
  /\ stop = "asked"
  /\ cron = "stopped"
  /\ stop' = "done"
  /\ UNCHANGED <<cron, due, roundVars, statusVars>>

(***************************************************************************)
(* submitValidationJobs and validateGroupKeys                              *)
(***************************************************************************)
Submit ==
  /\ cron = "submit"
  /\ cron' = IF due THEN "collect" ELSE "wait"
  /\ UNCHANGED <<due, stop, roundVars, statusVars>>

Collect ==
  /\ cron = "collect"
  /\ todo' = Keys \ active
  /\ round' = todo'
  /\ UNCHANGED checked
  /\ jobs' = {}
  /\ IF todo' = {}
       THEN cron' = "mark" /\ UNCHANGED <<closed, worker>>
       ELSE /\ cron' = "run"
            /\ closed' = FALSE
            /\ worker' = [w \in Workers |-> None]
  /\ UNCHANGED <<due, stop, statusVars>>

\* A statement fails: the group stays due.  The statement of Submit, which reads
\* the groups, may fail as well; what follows is what a failure in Collect leaves.
DbFails ==
  /\ DbFaults
  /\ cron \in {"collect", "mark"}
  /\ cron' = "wait"
  /\ round' = {} /\ checked' = {}
  /\ UNCHANGED <<due, stop, todo, jobs, closed, worker, statusVars>>

Distribute(k) ==
  /\ cron = "run"
  /\ k \in todo
  /\ todo' = todo \ {k}
  /\ jobs' = jobs \cup {k}
  /\ UNCHANGED <<cron, due, stop, closed, worker, round, checked, statusVars>>

CloseJobs ==
  /\ cron = "run"
  /\ ~closed
  /\ todo = {} \/ Stopping
  /\ todo' = {}
  /\ closed' = TRUE
  /\ UNCHANGED <<cron, due, stop, jobs, worker, round, checked, statusVars>>

\* Mutation: nobody waits for the workers.
MutDoesNotWait ==
  /\ cron = "run"
  /\ closed
  /\ cron' = "mark"
  /\ UNCHANGED <<due, stop, roundVars, statusVars>>

\* keyWg.Wait
RoundEnds ==
  /\ cron = "run"
  /\ closed
  /\ \A w \in Workers : worker[w] = "gone"
  /\ cron' = "mark"
  /\ UNCHANGED <<due, stop, roundVars, statusVars>>

\* last_validated_at is written, after a stop in the middle of a round too.
Mark ==
  /\ cron = "mark"
  /\ due' = FALSE
  /\ cron' = "wait"
  /\ round' = {} /\ checked' = {}
  /\ UNCHANGED <<stop, todo, jobs, closed, worker, statusVars>>

(***************************************************************************)
(* The workers.  A key that cannot be decrypted is skipped.                *)
(***************************************************************************)
Take(w, k) ==
  /\ worker[w] = None
  /\ k \in jobs
  /\ jobs' = jobs \ {k}
  /\ worker' = IF k \in Garbled THEN worker ELSE [worker EXCEPT ![w] = k]
  /\ UNCHANGED <<cron, due, stop, todo, closed, round, checked, statusVars>>

\* Mutation: a worker that finds the channel empty does not wait.
MutLeavesEarly(w) ==
  /\ worker[w] = None
  /\ jobs = {} \/ Stopping
  /\ worker' = [worker EXCEPT ![w] = "gone"]
  /\ UNCHANGED <<cron, due, stop, todo, jobs, closed, round, checked, statusVars>>

\* Mutation: Stop sends to the channel, and the first to receive is alone.
MutTakesTheStop(w) ==
  /\ worker[w] = None
  /\ (closed /\ jobs = {}) \/ Stopping
  /\ worker' = [worker EXCEPT ![w] = "gone"]
  /\ stop' = IF closed /\ jobs = {} THEN stop ELSE "no"
  /\ UNCHANGED <<cron, due, todo, jobs, closed, round, checked, statusVars>>

WorkerLeaves(w) ==
  /\ worker[w] = None
  /\ (closed /\ jobs = {}) \/ Stopping
  /\ worker' = [worker EXCEPT ![w] = "gone"]
  /\ UNCHANGED <<cron, due, stop, todo, jobs, closed, round, checked, statusVars>>

\* ValidateSingleKey, for the cron checker and for an administrator: without a
\* channel for the group nothing is reported.
CallAndReport(k) ==
  \/ ValidateKey(k) /\ Report(k, "ok")
  \/ ~ValidateKey(k) /\ ReportFailure(k)

ValidateSingleKey(k) == CallAndReport(k) \/ UNCHANGED statusVars

Validate(w) ==
  /\ worker[w] \in Keys
  /\ ValidateSingleKey(worker[w])
  /\ checked' = checked \cup {worker[w]}
  /\ worker' = [worker EXCEPT ![w] = None]
  /\ UNCHANGED <<cron, due, stop, todo, jobs, closed, round>>

TestKey(k) == ValidateSingleKey(k) /\ UNCHANGED cronVars

CronStep ==
  \/ Tick \/ LoopStops \/ Submit \/ CloseJobs \/ RoundEnds \/ Mark
  \/ \E k \in Keys : Distribute(k)

CronNext ==
  \/ CronStep \/ Collect \/ DbFails \/ Elapse \/ Stop \/ StopEnds
  \/ \E w \in Workers : Validate(w) \/ WorkerLeaves(w) \/ \E k \in Keys : Take(w, k)
  \/ \E k \in Keys : TestKey(k)

(***************************************************************************)
(* The ticker ticks, time passes, the goroutines run and calls to the      *)
(* upstream time out; the statement that loads the keys does not fail for  *)
(* ever, and the channel of the group is not missing for ever.  A select   *)
(* that has a tick and the stop takes the stop some time.                  *)
(***************************************************************************)
CronFairness ==
  /\ WF_<<cronVars, statusVars>>(CronStep)
  /\ SF_<<cronVars, statusVars>>(LoopStops)
  /\ SF_<<cronVars, statusVars>>(Collect)
  /\ WF_<<cronVars, statusVars>>(Elapse)
  /\ \A w \in Workers :
       /\ WF_<<cronVars, statusVars>>(Validate(w) \/ WorkerLeaves(w) \/ \E k \in Keys : Take(w, k))
       /\ SF_<<cronVars, statusVars>>(Validate(w) /\ CallAndReport(worker[w]))
=============================================================================
