--------------------------- MODULE ServiceProofs ---------------------------
(***************************************************************************)
(* Proofs about the proxy and the cron checker, for any keys, requests,    *)
(* workers, thresholds and numbers of retries.  The inductive invariant    *)
(* has a part for each of the three modules; a step of one of them leaves  *)
(* the variables of the others alone, but for the reports.                 *)
(***************************************************************************)
EXTENDS ServiceProps, TLAPS

StatusInv ==
  /\ active \subseteq Keys /\ good \subseteq Keys
  /\ fails \in [Keys -> Nat]
  /\ reports \in [Keys \X Duties -> Nat]

Records == [at : Stages, tries : 0 .. MaxRetries, key : Keys \cup {None},
            retries : 0 .. MaxRetries, finals : {0, 1}]

RequestInv ==
  /\ req \in [Requests -> Records]
  /\ \A r \in Requests : /\ req[r].finals = 1 => req[r].at = "idle"
                         /\ req[r].retries = req[r].tries
                         /\ req[r].at \in {"build", "send", "copy"} => req[r].key \in Keys

CronTypes ==
  /\ cron \in {"submit", "wait", "collect", "run", "mark", "stopped"}
  /\ due \in BOOLEAN /\ closed \in BOOLEAN
  /\ stop \in {"no", "asked", "done"}
  /\ todo \subseteq Keys /\ jobs \subseteq Keys /\ round \subseteq Keys /\ checked \subseteq Keys
  /\ worker \in [Workers -> Keys \cup {None, "gone"}]

\* The keys the workers have.
Held == {k \in Keys : \E w \in Workers : worker[w] = k}

\* Workers exist during a round only, and leave, unless they are told to stop,
\* when nothing is left; until then a key is somewhere on its way.
RoundInv ==
  /\ cron # "run" => \A w \in Workers : worker[w] = "gone"
  /\ cron = "run" /\ closed => todo = {}
  /\ cron = "run" /\ ~Stopping =>
       /\ \A w \in Workers : worker[w] = "gone" => closed /\ jobs = {}
       /\ round \subseteq checked \cup Garbled \cup todo \cup jobs \cup Held
  /\ RoundIsComplete
  /\ stop = "done" => cron = "stopped"

IInv == StatusInv /\ RequestInv /\ CronTypes /\ RoundInv

(***************************************************************************)
(* The statuses: a report is a matter of one count.                        *)
(***************************************************************************)
LEMMA ReportKeepsTypes ==
  ASSUME StatusInv, NEW k \in Keys, NEW kind \in Kinds, Report(k, kind)
  PROVE  StatusInv'
<1>1. reports' \in [Keys \X Duties -> Nat]
  BY DEF StatusInv, Report, Duties
<1> QED
  BY <1>1 DEF StatusInv, Report

LEMMA EndsKeepsTypes ==
  ASSUME StatusInv, NEW k \in Keys, NEW duty \in Duties, Ends(k, duty)
  PROVE  reports' \in [Keys \X Duties -> Nat]
<1>1. reports[<<k, duty>>] - 1 \in Nat
  BY DEF StatusInv, Ends
<1> QED
  BY <1>1 DEF StatusInv, Ends

LEMMA GoesOnKeepsTypes ==
  ASSUME StatusInv, NEW k \in Keys, NEW kind \in Kinds, NEW write \in Writes,
         GoesOn(k, kind, write)
  PROVE  reports' \in [Keys \X Duties -> Nat]
<1>1. <<k, kind>> \in Keys \X Duties /\ <<k, write>> \in Keys \X Duties
  BY DEF Duties
<1>2. reports[<<k, kind>>] - 1 \in Nat /\ reports[<<k, write>>] + 1 \in Nat
  BY <1>1 DEF StatusInv, GoesOn
<1> DEFINE fewer == [reports EXCEPT ![<<k, kind>>] = reports[<<k, kind>>] - 1]
<1>3. fewer \in [Keys \X Duties -> Nat]
  BY <1>1, <1>2 DEF StatusInv
<1>4. reports' = [fewer EXCEPT ![<<k, write>>] = reports[<<k, write>>] + 1]
  BY DEF GoesOn
<1> HIDE DEF fewer
<1> QED
  BY <1>2, <1>3, <1>4

LEMMA HandlersKeepStatuses ==
  ASSUME StatusInv, NEW k \in Keys, Handle(k)
  PROVE  StatusInv'
<1>1. CASE ReadSuccess(k)
  <2>1. reports' \in [Keys \X Duties -> Nat]
    BY <1>1, EndsKeepsTypes, GoesOnKeepsTypes DEF ReadSuccess, Kinds, Writes, Duties
  <2> QED
    BY <1>1, <2>1 DEF ReadSuccess, StatusInv
<1>2. CASE ReadFailure(k)
  <2>1. reports' \in [Keys \X Duties -> Nat]
    BY <1>2, EndsKeepsTypes, GoesOnKeepsTypes DEF ReadFailure, Kinds, Writes, Duties
  <2> QED
    BY <1>2, <2>1 DEF ReadFailure, StatusInv
<1>3. ASSUME NEW write \in Writes, WriteSuccess(k, write)
      PROVE  StatusInv'
  <2>1. reports' \in [Keys \X Duties -> Nat]
    BY <1>3, EndsKeepsTypes DEF WriteSuccess, Duties
  <2> QED
    BY <1>3, <2>1 DEF WriteSuccess, StatusInv
<1>4. ASSUME NEW write \in Writes, WriteFailure(k, write)
      PROVE  StatusInv'
  <2>1. reports' \in [Keys \X Duties -> Nat]
    BY <1>4, EndsKeepsTypes DEF WriteFailure, Duties
  <2>2. fails' = [fails EXCEPT ![k] = @ + 1] /\ good' = good
    BY <1>4 DEF WriteFailure
  <2>3. fails' \in [Keys -> Nat]
    BY <2>2 DEF StatusInv
  <2>4. active' \subseteq active
    BY <1>4 DEF WriteFailure
  <2> QED
    BY <2>1, <2>2, <2>3, <2>4 DEF StatusInv
<1> QED
  BY <1>1, <1>2, <1>3, <1>4 DEF Handle, Write

LEMMA SameStatuses ==
  ASSUME StatusInv, UNCHANGED statusVars
  PROVE  StatusInv'
BY DEF StatusInv, statusVars

LEMMA FailureReports ==
  ASSUME StatusInv, NEW k \in Keys, ReportFailure(k)
  PROVE  StatusInv'
<1>1. "fail" \in Kinds
  BY DEF Kinds
<1> QED
  BY <1>1, ReportKeepsTypes, SameStatuses DEF ReportFailure

LEMMA ValidationReports ==
  ASSUME StatusInv, NEW k \in Keys, ValidateSingleKey(k)
  PROVE  StatusInv'
<1>1. "ok" \in Kinds
  BY DEF Kinds
<1> QED
  BY <1>1, ReportKeepsTypes, FailureReports, SameStatuses DEF ValidateSingleKey, CallAndReport

(***************************************************************************)
(* The requests.                                                           *)
(***************************************************************************)
\* What RequestInv says of one request, and that nothing else changes.
Sound(x) ==
  /\ x \in Records
  /\ x.finals = 1 => x.at = "idle"
  /\ x.retries = x.tries
  /\ x.at \in {"build", "send", "copy"} => x.key \in Keys

Becomes(r, x) == req' = [req EXCEPT ![r] = x]

LEMMA ReplaceKeeps ==
  ASSUME RequestInv, NEW r \in Requests, NEW x, Sound(x), Becomes(r, x)
  PROVE  RequestInv'
<1>1. req' \in [Requests -> Records]
  BY DEF RequestInv, Sound, Becomes
<1>2. \A q \in Requests : req'[q] = IF q = r THEN x ELSE req[q]
  BY DEF RequestInv, Becomes
<1> QED
  BY <1>1, <1>2 DEF RequestInv, Sound

LEMMA GotoKeeps ==
  ASSUME RequestInv, NEW r \in Requests, NEW at \in Stages, req[r].at # "idle", Goto(r, at),
         at \in {"build", "send", "copy"} => req[r].key \in Keys
  PROVE  RequestInv'
BY DEF RequestInv, Goto, Stages, Records

LEMMA ReturnKeeps ==
  ASSUME RequestInv, NEW r \in Requests, NEW logs \in {0, 1}, req[r].at # "idle", Return(r, logs)
  PROVE  RequestInv'
<1>1. req[r].finals = 0
  BY DEF RequestInv, Records
<1>2. req[r].finals + logs \in {0, 1}
  BY <1>1
<1> DEFINE x == [req[r] EXCEPT !.at = "idle"]
           y == [x EXCEPT !.key = None]
           z == [y EXCEPT !.finals = req[r].finals + logs]
<1>3. req[r] \in Records /\ req[r].retries = req[r].tries
  BY DEF RequestInv
<1>4. x \in Records /\ x.at = "idle" /\ x.retries = x.tries
  BY <1>3 DEF Records, Stages
<1> HIDE DEF x
<1>5. y \in Records /\ y.at = "idle" /\ y.retries = y.tries
  BY <1>4 DEF Records
<1> HIDE DEF y
<1>6. Sound(z)
  BY <1>2, <1>5 DEF Records, Sound
<1>7. Becomes(r, z)
  BY DEF Return, Becomes, RequestInv, x, y
<1> HIDE DEF z
<1> QED
  BY <1>6, <1>7, ReplaceKeeps

LEMMA LogFailureKeeps ==
  ASSUME RequestInv, NEW r \in Requests, req[r].at # "idle", LogFailure(r)
  PROVE  RequestInv'
<1>1. CASE LastAttempt(r)
  BY <1>1, ReturnKeeps DEF LogFailure
<1>2. CASE ~LastAttempt(r)
  <2>1. req[r].tries + 1 \in 0 .. MaxRetries
    BY <1>2, ProxyAssumption DEF LastAttempt, RequestInv, Records
  <2> DEFINE x == [at |-> "select", tries |-> req[r].tries + 1, key |-> None,
                   retries |-> req[r].retries + 1, finals |-> req[r].finals]
  <2>2. req[r] \in Records /\ req[r].finals = 0 /\ req[r].retries = req[r].tries
    BY DEF RequestInv, Records
  <2>3. Sound(x)
    BY <2>1, <2>2 DEF Records, Stages, Sound
  <2>4. req' = [req EXCEPT ![r].at = "select", ![r].key = None, ![r].tries = @ + 1,
                           ![r].retries = @ + 1]
    BY <1>2 DEF LogFailure
  <2>5. Becomes(r, x)
    BY <2>2, <2>4 DEF RequestInv, Records, Becomes
  <2> HIDE DEF x
  <2> QED
    BY <2>3, <2>5, ReplaceKeeps
<1> QED
  BY <1>1, <1>2

LEMMA SelectKeeps ==
  ASSUME RequestInv, NEW r \in Requests, NEW k \in Keys, SelectKey(r, k)
  PROVE  RequestInv'
BY DEF RequestInv, SelectKey, Stages, Records

LEMMA EnterKeeps ==
  ASSUME RequestInv, NEW r \in Requests, Enter(r)
  PROVE  RequestInv'
<1>1. Sound(Fresh("in"))
  BY ProxyAssumption DEF Fresh, Stages, Records, Sound
<1>2. Becomes(r, Fresh("in"))
  BY DEF Enter, Becomes
<1> QED
  BY <1>1, <1>2, ReplaceKeeps

\* A step of a request: the request and the reports.
LEMMA StepKeeps ==
  ASSUME StatusInv, RequestInv, NEW r \in Requests, Step(r)
  PROVE  StatusInv' /\ RequestInv'
<1> USE DEF Stages
<1>1. CASE Prepare(r)
  BY <1>1, SameStatuses, GotoKeeps, ReturnKeeps DEF Prepare
<1>2. CASE NoKey(r)
  BY <1>2, SameStatuses, ReturnKeeps DEF NoKey
<1>3. CASE Build(r)
  <2>1. req[r].key \in Keys
    BY <1>3 DEF Build, RequestInv
  <2> QED
    BY <1>3, <2>1, SameStatuses, GotoKeeps, ReturnKeeps DEF Build
<1>4. CASE Succeeds(r)
  <2>1. req[r].key \in Keys /\ "ok" \in Kinds
    BY <1>4 DEF Succeeds, RequestInv, Kinds
  <2>2. StatusInv'
    BY <1>4, <2>1, SameStatuses, ReportKeepsTypes DEF Succeeds
  <2> QED
    BY <1>4, <2>1, <2>2, GotoKeeps DEF Succeeds
<1>5. CASE Fails(r)
  <2>1. req[r].key \in Keys
    BY <1>5 DEF Fails, RequestInv
  <2> QED
    BY <1>5, <2>1, FailureReports, LogFailureKeeps DEF Fails
<1>6. CASE Ignores(r)
  BY <1>6, SameStatuses, ReturnKeeps DEF Ignores
<1>7. CASE Copy(r)
  BY <1>7, SameStatuses, ReturnKeeps DEF Copy
<1>8. CASE \E k \in Keys : SelectKey(r, k)
  <2>1. PICK k \in Keys : SelectKey(r, k)
    BY <1>8
  <2>2. UNCHANGED statusVars
    BY <2>1 DEF SelectKey
  <2> QED
    BY <2>1, <2>2, SameStatuses, SelectKeeps
<1> QED
  BY <1>1, <1>2, <1>3, <1>4, <1>5, <1>6, <1>7, <1>8 DEF Step

LEMMA ProxyKeeps ==
  ASSUME StatusInv, RequestInv, ProxyNext
  PROVE  StatusInv' /\ RequestInv'
<1>1. PICK r \in Requests : Enter(r) \/ Step(r)
  BY DEF ProxyNext
<1>2. CASE Enter(r)
  <2>1. UNCHANGED statusVars
    BY <1>2 DEF Enter
  <2> QED
    BY <1>2, <2>1, SameStatuses, EnterKeeps
<1> QED
  BY <1>1, <1>2, StepKeeps

(***************************************************************************)
(* The cron checker: one case per action.                                  *)
(***************************************************************************)
LEMMA CronTypesKept ==
  ASSUME CronTypes, CronNext
  PROVE  CronTypes'
<1> USE DEF CronTypes, roundVars, cronVars
<1>1. CASE Tick \/ LoopStops \/ Submit \/ Elapse \/ Stop \/ StopEnds
  BY <1>1 DEF Tick, LoopStops, Submit, Elapse, Stop, StopEnds
<1>2. CASE CloseJobs \/ RoundEnds \/ Mark \/ DbFails
  BY <1>2 DEF CloseJobs, Held, RoundEnds, Mark, DbFails
<1>3. CASE \E k \in Keys : Distribute(k)
  BY <1>3 DEF Distribute
<1>4. CASE Collect
  BY <1>4 DEF Collect
<1>5. CASE \E w \in Workers : Validate(w)
  BY <1>5 DEF Validate
<1>6. CASE \E w \in Workers : WorkerLeaves(w)
  BY <1>6 DEF WorkerLeaves
<1>7. CASE \E w \in Workers, k \in Keys : Take(w, k)
  BY <1>7 DEF Take
<1>8. CASE \E k \in Keys : TestKey(k)
  BY <1>8 DEF TestKey
<1> QED
  BY <1>1, <1>2, <1>3, <1>4, <1>5, <1>6, <1>7, <1>8 DEF CronNext, CronStep

\* With statusVars: only validations report.
LEMMA CronKeepsStatuses ==
  ASSUME StatusInv, CronNext
  PROVE  StatusInv'
<1>1. CASE \E w \in Workers : Validate(w)
  BY <1>1, ValidationReports DEF Validate
<1>2. CASE \E k \in Keys : TestKey(k)
  BY <1>2, ValidationReports DEF TestKey
<1>3. CASE UNCHANGED statusVars
  BY <1>3, SameStatuses
<1> QED
  BY <1>1, <1>2, <1>3
  DEF CronNext, CronStep, Tick, LoopStops, Submit, Elapse, Stop, StopEnds, CloseJobs, RoundEnds,
      Mark, DbFails, Distribute, Collect, WorkerLeaves, Take

LEMMA RoundKept ==
  ASSUME CronTypes, RoundInv, CronNext
  PROVE  RoundInv'
<1> USE DEF RoundInv, RoundIsComplete, Stopping
<1>1. CASE Tick \/ LoopStops \/ Submit \/ Elapse \/ Stop \/ StopEnds
  BY <1>1 DEF Tick, LoopStops, Submit, Elapse, Stop, StopEnds, roundVars, Held
<1>2. CASE CloseJobs
  BY <1>2 DEF CloseJobs, Held
<1>3. CASE RoundEnds
  <2>1. UNCHANGED <<due, stop, roundVars>> /\ cron = "run" /\ cron' = "mark"
    BY <1>3 DEF RoundEnds
  <2>2. /\ todo = {} /\ \A w \in Workers : worker[w] = "gone"
        /\ ~Stopping => jobs = {}
    BY <1>3, CronAssumption DEF RoundEnds
  <2>3. Held = {}
    BY <2>2, CronAssumption DEF Held
  <2> QED
    BY <2>1, <2>2, <2>3 DEF roundVars
<1>4. CASE Mark \/ DbFails
  BY <1>4 DEF Mark, DbFails
<1>5. CASE \E k \in Keys : Distribute(k)
  BY <1>5 DEF Distribute, CronTypes, Held
<1>6. CASE Collect
  BY <1>6, CronAssumption DEF Collect, CronTypes, Held
<1>7. CASE \E w \in Workers : Validate(w)
  BY <1>7, CronAssumption DEF Validate, CronTypes, Held
<1>8. CASE \E w \in Workers : WorkerLeaves(w)
  <2>1. PICK w \in Workers : WorkerLeaves(w)
    BY <1>8
  <2>2. Held' = Held
    BY <2>1, CronAssumption, KeyStatusAssumption DEF WorkerLeaves, Held, CronTypes
  <2>3. cron = "run" /\ (~Stopping => closed /\ jobs = {})
    BY <2>1, CronAssumption DEF WorkerLeaves
  <2>4. UNCHANGED <<cron, stop, todo, jobs, closed, round, checked>>
    BY <2>1 DEF WorkerLeaves
  <2> QED
    BY <2>2, <2>3, <2>4
<1>9. CASE \E w \in Workers, k \in Keys : Take(w, k)
  <2>1. PICK w \in Workers, k \in Keys : Take(w, k)
    BY <1>9
  <2>2. Held \cup {k} \subseteq Held' \cup Garbled
    <3>1. CASE k \in Garbled
      BY <2>1, <3>1 DEF Take, Held
    <3>2. CASE k \notin Garbled
      BY <2>1, <3>2, KeyStatusAssumption DEF Take, Held, CronTypes
    <3> QED
      BY <3>1, <3>2
  <2>3. cron = "run" /\ \A v \in Workers : worker'[v] = "gone" => worker[v] = "gone"
    BY <2>1, CronAssumption DEF Take, CronTypes
  <2>4. jobs # {} /\ jobs' = jobs \ {k} /\ UNCHANGED <<cron, stop, todo, closed, round, checked>>
    BY <2>1 DEF Take
  <2> QED
    BY <2>2, <2>3, <2>4
<1>10. CASE \E k \in Keys : TestKey(k)
  BY <1>10 DEF TestKey, cronVars, Held
<1> QED
  BY <1>1, <1>2, <1>3, <1>4, <1>5, <1>6, <1>7, <1>8, <1>9, <1>10 DEF CronNext, CronStep

(***************************************************************************)
(* Together: each process leaves the variables of the others alone.        *)
(***************************************************************************)
LEMMA InitHolds == Init => IInv
<1> SUFFICES ASSUME Init PROVE IInv
  OBVIOUS
<1>1. StatusInv
  BY KeyStatusAssumption DEF Init, StatusInit, StatusInv
<1>2. RequestInv
  BY ProxyAssumption DEF Init, ProxyInit, RequestInv, Fresh, Records, Stages
<1>3. CronTypes /\ RoundInv
  BY DEF Init, CronInit, CronTypes, RoundInv, RoundIsComplete, Stopping
<1> QED
  BY <1>1, <1>2, <1>3 DEF IInv

LEMMA StepHolds == IInv /\ [Next]_vars => IInv'
<1> SUFFICES ASSUME IInv, [Next]_vars PROVE IInv'
  OBVIOUS
<1>1. UNCHANGED req => RequestInv'
  BY DEF IInv, RequestInv
<1>2. UNCHANGED cronVars => CronTypes' /\ RoundInv'
  BY DEF IInv, CronTypes, RoundInv, RoundIsComplete, Stopping, Held, cronVars
<1>3. CASE ProxyNext /\ UNCHANGED cronVars
  BY <1>2, <1>3, ProxyKeeps DEF IInv
<1>4. CASE CronNext /\ UNCHANGED req
  BY <1>1, <1>4, CronTypesKept, CronKeepsStatuses, RoundKept DEF IInv
<1>5. CASE Pool /\ UNCHANGED <<req, cronVars>>
  <2>1. PICK k \in Keys : Handle(k) \/ Turn(k)
    BY <1>5 DEF Pool
  <2>2. StatusInv'
    <3>1. CASE Handle(k)
      BY <3>1, HandlersKeepStatuses DEF IInv
    <3>2. CASE Turn(k)
      BY <3>2 DEF Turn, IInv, StatusInv
    <3> QED
      BY <2>1, <3>1, <3>2
  <2> QED
    BY <1>1, <1>2, <1>5, <2>2 DEF IInv
<1>6. CASE UNCHANGED vars
  BY <1>1, <1>2, <1>6, SameStatuses DEF IInv, vars
<1> QED
  BY <1>3, <1>4, <1>5, <1>6 DEF Next

LEMMA Invariant == Spec => []IInv
<1> QED
  BY InitHolds, StepHolds, PTL DEF Spec

(***************************************************************************)
(* The type invariant: requests, rounds and reports stay what they are,    *)
(* and no request is beyond its retries.  The counts of failures have no   *)
(* bound: failures read side by side may take one past the threshold.      *)
(***************************************************************************)
THEOREM TypesHold == Spec => []TypeOK
<1>1. IInv => TypeOK
  BY DEF IInv, StatusInv, RequestInv, Records, CronTypes, TypeOK
<1> QED
  BY <1>1, Invariant, PTL

(***************************************************************************)
(* A request is logged once per attempt and is final once, whatever the    *)
(* number of keys, of retries and of requests beside it.                   *)
(***************************************************************************)
THEOREM RequestsLoggedOnce == Spec => []LoggedOnce
<1>1. IInv => LoggedOnce
  <2> SUFFICES ASSUME IInv, NEW r \in Requests
               PROVE  /\ req[r].finals <= 1
                      /\ req[r].finals = 1 => req[r].at = "idle"
                      /\ req[r].retries = req[r].tries
                      /\ req[r].retries + req[r].finals <= MaxRetries + 1
    BY DEF LoggedOnce
  <2>1. req[r].retries \in 0 .. MaxRetries /\ req[r].finals \in {0, 1}
    BY DEF IInv, RequestInv, Records
  <2> QED
    BY <2>1, ProxyAssumption DEF IInv, RequestInv
<1> QED
  BY <1>1, Invariant, PTL

(***************************************************************************)
(* A round that is not stopped validates all the keys that were invalid as *)
(* it began, however many keys and workers there are.                      *)
(***************************************************************************)
THEOREM RoundsAreComplete == Spec => []RoundIsComplete
<1>1. IInv => RoundIsComplete
  BY DEF IInv, RoundInv
<1> QED
  BY <1>1, Invariant, PTL

(***************************************************************************)
(* After a Stop that returned in time no worker is left.                   *)
(***************************************************************************)
THEOREM StopIsQuiet == Spec => []StoppedIsQuiet
<1>1. IInv => StoppedIsQuiet
  BY DEF IInv, RoundInv, StoppedIsQuiet
<1> QED
  BY <1>1, Invariant, PTL

LEMMA OnlyFailuresAreReported ==
  ASSUME StatusInv, NEW k \in Keys, k \in good, NEW j \in Keys,
         \/ Report(j, "ok")
         \/ j \notin good /\ ReportFailure(j)
  PROVE  active' = active /\ \A d \in Failing : reports'[<<k, d>>] = reports[<<k, d>>]
<1> USE DEF Failing, Kinds, Writes, Duties
<1>1. CASE UNCHANGED statusVars
  BY <1>1 DEF statusVars
<1>2. CASE Report(j, "ok")
  BY <1>2 DEF Report, StatusInv
<1>3. CASE j \notin good /\ Report(j, "fail")
  BY <1>3 DEF Report, StatusInv
<1> QED
  BY <1>1, <1>2, <1>3 DEF ReportFailure

\* Only what is already pending of a key makes it invalid, and only an old failure
\* leaves something to be written.
LEMMA HandlersKeepTrust ==
  ASSUME StatusInv, NEW k \in Keys, Trusted(k), NEW j \in Keys, Handle(j)
  PROVE  Trusted(k)'
<1> USE DEF Trusted, Failing, Kinds, Writes, Duties
<1>1. CASE ReadSuccess(j)
  BY <1>1 DEF ReadSuccess, Ends, GoesOn, StatusInv
<1>2. CASE ReadFailure(j)
  <2>1. j # k
    BY <1>2 DEF ReadFailure, Ends, GoesOn
  <2> QED
    BY <1>2, <2>1 DEF ReadFailure, Ends, GoesOn, StatusInv
<1>3. ASSUME NEW write \in Writes, WriteSuccess(j, write)
      PROVE  Trusted(k)'
  BY <1>3 DEF WriteSuccess, Ends, StatusInv
<1>4. ASSUME NEW write \in Writes, WriteFailure(j, write)
      PROVE  Trusted(k)'
  <2>1. j # k
    BY <1>4 DEF WriteFailure, Ends
  <2> QED
    BY <1>4, <2>1 DEF WriteFailure, Ends, StatusInv
<1> QED
  BY <1>1, <1>2, <1>3, <1>4 DEF Handle, Write

(***************************************************************************)
(* A key with which calls succeed and of which no failure is pending stays *)
(* in the pool.                                                            *)
(***************************************************************************)
THEOREM GoodKeysStay == Spec => GoodKeyStays
<1>1. ASSUME IInv, [Next]_vars, NEW k \in Keys, Trusted(k), k \in good
      PROVE  Trusted(k)'
  <2> USE DEF Trusted
  <2>1. CASE UNCHANGED statusVars
    BY <1>1, <2>1 DEF statusVars
  <2>2. ASSUME NEW j \in Keys, Report(j, "ok") \/ (j \notin good /\ ReportFailure(j))
        PROVE  Trusted(k)'
    BY <1>1, <2>2, OnlyFailuresAreReported DEF IInv
  <2>3. CASE ProxyNext
    <3>1. PICK r \in Requests : Enter(r) \/ Step(r)
      BY <2>3 DEF ProxyNext
    <3>2. CASE Succeeds(r)
      <4>1. req[r].key \in Keys
        BY <1>1, <3>2 DEF Succeeds, IInv, RequestInv
      <4> QED
        BY <2>1, <2>2, <3>2, <4>1 DEF Succeeds
    <3>3. CASE Fails(r)
      <4>1. req[r].key \in Keys
        BY <1>1, <3>3 DEF Fails, IInv, RequestInv
      <4> QED
        BY <2>2, <3>3, <4>1 DEF Fails
    <3>4. CASE ~Succeeds(r) /\ ~Fails(r)
      <4>1. UNCHANGED statusVars
        BY <3>1, <3>4 DEF Enter, Step, Prepare, NoKey, Build, Ignores, Copy, SelectKey
      <4> QED
        BY <2>1, <4>1
    <3> QED
      BY <3>2, <3>3, <3>4
  <2>4. CASE CronNext
    <3>1. ASSUME NEW j \in Keys, ValidateSingleKey(j)
          PROVE  Trusted(k)'
      BY <2>1, <2>2, <3>1 DEF ValidateSingleKey, CallAndReport, ValidateKey
    <3>2. CASE \E w \in Workers : Validate(w)
      BY <3>1, <3>2 DEF Validate
    <3>3. CASE \E j \in Keys : TestKey(j)
      BY <3>1, <3>3 DEF TestKey
    <3> QED
      BY <2>1, <2>4, <3>2, <3>3
      DEF CronNext, CronStep, Tick, LoopStops, Submit, Elapse, Stop, StopEnds, CloseJobs,
          RoundEnds, Mark, DbFails, Distribute, Collect, WorkerLeaves, Take
  <2>5. CASE Pool
    <3>1. PICK j \in Keys : Handle(j) \/ Turn(j)
      BY <2>5 DEF Pool
    <3>2. CASE Handle(j)
      BY <1>1, <3>1, <3>2, HandlersKeepTrust DEF IInv
    <3>3. CASE Turn(j)
      BY <1>1, <3>3 DEF Turn
    <3> QED
      BY <3>1, <3>2, <3>3
  <2> QED
    BY <1>1, <2>1, <2>3, <2>4, <2>5 DEF Next, vars
<1>2. IInv /\ [Next]_vars => [\A k \in Keys : Trusted(k) /\ k \in good => Trusted(k)']_vars
  BY <1>1
<1> QED
  BY <1>2, Invariant, PTL DEF Spec, GoodKeyStays

=============================================================================
