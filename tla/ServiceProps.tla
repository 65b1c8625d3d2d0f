---------------------------- MODULE ServiceProps ----------------------------
(***************************************************************************)
(* What the proxy and the cron checker promise, each and together.         *)
(***************************************************************************)
EXTENDS Service

\* The type invariant.
TypeOK ==
  /\ active \subseteq Keys /\ good \subseteq Keys
  /\ fails \in [Keys -> Nat]
  /\ reports \in [Keys \X Duties -> Nat]
  /\ req \in [Requests -> [at : Stages, tries : 0 .. MaxRetries, key : Keys \cup {None},
                           retries : 0 .. MaxRetries, finals : {0, 1}]]
  /\ cron \in {"submit", "wait", "collect", "run", "mark", "stopped"}
  /\ due \in BOOLEAN /\ closed \in BOOLEAN
  /\ stop \in {"no", "asked", "done"}
  /\ todo \subseteq Keys /\ jobs \subseteq Keys /\ round \subseteq Keys /\ checked \subseteq Keys
  /\ worker \in [Workers -> Keys \cup {None, "gone"}]

(***************************************************************************)
(* A request writes one log for each attempt after which it tries again,   *)
(* and a final one at most once and only as it ends (none if it ends       *)
(* before anything is sent, for want of an upstream): it counts at most    *)
(* once in the statistics, however many keys it went through, and no       *)
(* request tries more than max_retries times again.                        *)
(* (executeRequestWithRetry, logRequest.)                                  *)
(***************************************************************************)
LoggedOnce ==
  \A r \in Requests :
    /\ req[r].finals <= 1
    /\ req[r].finals = 1 => req[r].at = "idle"
    /\ req[r].retries = req[r].tries
    /\ req[r].retries + req[r].finals <= MaxRetries + 1

(***************************************************************************)
(* A round that no stop cuts short has validated every key that was        *)
(* invalid when it began, before the group counts as validated: neither    *)
(* the end of the distribution nor a worker that leaves loses a key.       *)
(* (validateGroupKeys.)                                                    *)
(***************************************************************************)
RoundIsComplete ==
  cron = "mark" /\ ~Stopping => round \subseteq checked \cup Garbled

(***************************************************************************)
(* When Stop returns in time, no key is being validated and none will be.  *)
(* (Stop, runLoop, submitValidationJobs.)                                  *)
(***************************************************************************)
StoppedIsQuiet ==
  stop = "done" => cron = "stopped" /\ \A w \in Workers : worker[w] = "gone"

(***************************************************************************)
(* A key in the pool of which no failure is still to be handled or written *)
(* remains such a key while calls with it succeed, although clients leave, *)
(* connections are reset, validations run and other keys fail: nothing but *)
(* its own refusal can make it invalid, then or later.                     *)
(* (IsIgnorableError, ValidateSingleKey, handleFailure.)                   *)
(***************************************************************************)
Failing == {"fail", "count", "disable"}

Trusted(k) == k \in active /\ \A d \in Failing : reports[<<k, d>>] = 0

GoodKeyStays ==
  [][\A k \in Keys : Trusted(k) /\ k \in good => Trusted(k)']_vars

(***************************************************************************)
(* A key with which calls succeed from some time on is in the pool again   *)
(* and again, however late old failures are handled and successes that     *)
(* were read before them are written, unless the service stops.            *)
(* (CronChecker, ValidateSingleKey, handleSuccess.)                        *)
(***************************************************************************)
Recovers ==
  \A k \in Keys \ Garbled :
    <>[](k \in good /\ ~Stopping) => []<>(k \in active)

(***************************************************************************)
(* A stop ends the loop, wherever a round is: the loop, the distribution   *)
(* and all the workers hear of it.  (Stop closes stopChan.)                *)
(***************************************************************************)
LoopEnds == Stopping ~> cron = "stopped"
=============================================================================
