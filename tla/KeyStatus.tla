----------------------------- MODULE KeyStatus -----------------------------
(***************************************************************************)
(* What the proxy and the cron checker share: the statuses of the keys of  *)
(* one group and the reports about them.  Each report is handled by a      *)
(* goroutine of its own, at any time and in any order, which first reads   *)
(* the key in the store and writes later, in a transaction, what follows   *)
(* from what it has read, although the key may have changed.  The calls of *)
(* which the write consists and their errors are in KeyPool; here it is    *)
(* one step.                                                               *)
(***************************************************************************)
EXTENDS Naturals, FiniteSets, FiniteSetsExt

CONSTANTS
  Keys,
  None,
  Threshold,   (* blacklist_threshold; with 0 no count disables a key      *)
  MaxReports   (* bound: goroutines of UpdateStatus for a key at a time    *)

ASSUME KeyStatusAssumption ==
  /\ None \notin Keys
  /\ Threshold \in Nat
  /\ MaxReports \in Nat \ {0}

VARIABLES
  active,   (* keys with status active, in the list of the pool            *)
  fails,    (* failure_count of each key                                   *)
  reports,  (* goroutines of UpdateStatus, by key and by what they have    *)
            (* still to do: handle a kind of report, or write              *)
  good      (* keys with which a call to the upstream succeeds now: it is  *)
            (* in time, and neither the key nor the request is refused     *)

statusVars == <<active, fails, reports, good>>

Kinds == {"ok", "fail"}

\* Set the count to 0 only; make the key active too; count a failure only; and
\* make the key invalid too.
Writes == {"clear", "restore", "count", "disable"}

Duties == Kinds \cup Writes

StatusInit ==
  /\ active \in SUBSET Keys
  /\ fails = [k \in Keys |-> 0]
  /\ reports = [x \in Keys \X Duties |-> 0]
  /\ good \in SUBSET Keys

(***************************************************************************)
(* UpdateStatus starts a goroutine.                                        *)
(***************************************************************************)
UnderWay(k) == MapThenSumSet(LAMBDA d : reports[<<k, d>>], Duties)

Report(k, kind) ==
  /\ UnderWay(k) < MaxReports
  /\ reports' = [reports EXCEPT ![<<k, kind>>] = @ + 1]
  /\ UNCHANGED <<active, fails, good>>

\* IsUnCounted: for some answers the goroutine does nothing.
ReportFailure(k) == Report(k, "fail") \/ UNCHANGED statusVars

Ends(k, duty) ==
  /\ reports[<<k, duty>>] > 0
  /\ reports' = [reports EXCEPT ![<<k, duty>>] = @ - 1]

GoesOn(k, kind, write) ==
  /\ reports[<<k, kind>>] > 0
  /\ reports' = [reports EXCEPT ![<<k, kind>>] = @ - 1, ![<<k, write>>] = @ + 1]

(***************************************************************************)
(* handleSuccess.  A key that was active when it was read is not made so   *)
(* again.                                                                  *)
(***************************************************************************)
\* Mutation: a key without failures is taken for one that needs nothing.
MutTrustsTheCount(k) ==
  /\ IF fails[k] = 0 THEN Ends(k, "ok") ELSE GoesOn(k, "ok", "restore")
  /\ UNCHANGED <<active, fails, good>>

ReadSuccess(k) ==
  /\ IF k \in active
       THEN IF fails[k] = 0 THEN Ends(k, "ok") ELSE GoesOn(k, "ok", "clear")
       ELSE GoesOn(k, "ok", "restore")
  /\ UNCHANGED <<active, fails, good>>

WriteSuccess(k, write) ==
  /\ write \in {"clear", "restore"}
  /\ Ends(k, write)
  /\ fails' = [fails EXCEPT ![k] = 0]
  /\ active' = IF write = "restore" THEN active \cup {k} ELSE active
  /\ UNCHANGED good

(***************************************************************************)
(* handleFailure.  An invalid key is left as it is.  Whether an active one *)
(* is disabled depends on the count as it was read, or not on it at all,   *)
(* when the test was made by hand or the answer matches a rule; the        *)
(* failure is added to the count as it is now, so that failures read side  *)
(* by side may take it to the threshold and beyond with the key active.    *)
(***************************************************************************)
Reached(n) == Threshold > 0 /\ n >= Threshold

ReadFailure(k) ==
  /\ IF k \in active
       THEN \/ GoesOn(k, "fail", IF Reached(fails[k] + 1) THEN "disable" ELSE "count")
            \/ GoesOn(k, "fail", "disable")
       ELSE Ends(k, "fail")
  /\ UNCHANGED <<active, fails, good>>

WriteFailure(k, write) ==
  /\ write \in {"count", "disable"}
  /\ Ends(k, write)
  /\ fails' = [fails EXCEPT ![k] = @ + 1]
  /\ active' = IF write = "disable" THEN active \ {k} ELSE active
  /\ UNCHANGED good

Write(k) == \E write \in Writes : WriteSuccess(k, write) \/ WriteFailure(k, write)

Handle(k) == ReadSuccess(k) \/ ReadFailure(k) \/ Write(k)

\* A call to the upstream with the key, as the validator makes it, ends with a
\* status below 300 in time.
ValidateKey(k) == k \in good

\* Calls with the key begin, or cease, to fail.
Turn(k) ==
  /\ good' = IF k \in good THEN good \ {k} ELSE good \cup {k}
  /\ UNCHANGED <<active, fails, reports>>
=============================================================================
