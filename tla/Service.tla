------------------------------ MODULE Service ------------------------------
(***************************************************************************)
(* The proxy and the cron checker at work on the same keys: requests make  *)
(* keys invalid, validations make them active again, and both report what  *)
(* they find out in goroutines that come to it later.                      *)
(***************************************************************************)
EXTENDS Proxy, CronChecker

vars == <<statusVars, req, cronVars>>

Init == StatusInit /\ ProxyInit /\ CronInit

Pool == \E k \in Keys : Handle(k) \/ Turn(k)

Next ==
  \/ ProxyNext /\ UNCHANGED cronVars
  \/ CronNext /\ UNCHANGED req
  \/ Pool /\ UNCHANGED <<req, cronVars>>

Spec == Init /\ [][Next]_vars

\* Every goroutine of UpdateStatus reads some time, and writes.  The requests
\* need not come to an end.
Fairness ==
  /\ CronFairness
  /\ \A k \in Keys :
       /\ WF_statusVars(ReadSuccess(k))
       /\ WF_statusVars(ReadFailure(k))
       /\ \A write \in Writes : WF_statusVars(WriteSuccess(k, write) \/ WriteFailure(k, write))

FairSpec == Spec /\ Fairness
=============================================================================
