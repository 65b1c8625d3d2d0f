------------------------------- MODULE Proxy -------------------------------
(***************************************************************************)
(* HandleProxy: a request for a group until its last log.  Choosing the    *)
(* sub-group and the key is in SubGroups, KeyPool and CacheHit; here any   *)
(* key in the pool may be chosen.  What is kept of a log is whether it is  *)
(* one of a retry or a final one.                                          *)
(***************************************************************************)
EXTENDS KeyStatus

CONSTANTS
  Requests,
  MaxRetries,
  Consecutive   (* blacklist_consecutive_mode                              *)

ASSUME ProxyAssumption == MaxRetries \in Nat /\ Consecutive \in BOOLEAN

VARIABLE
  req       (* per request: where it is, the failed attempts, the key of   *)
            (* this attempt, and the logs of retries and final ones        *)

Stages == {"idle", "in", "select", "build", "send", "copy"}

Fresh(at) == [at |-> at, tries |-> 0, key |-> None, retries |-> 0, finals |-> 0]

ProxyInit == req = [r \in Requests |-> Fresh("idle")]

Goto(r, at) == req' = [req EXCEPT ![r].at = at]

\* The handler returns, after so many final logs.
Return(r, logs) == req' = [req EXCEPT ![r].at = "idle", ![r].key = None, ![r].finals = @ + logs]

(***************************************************************************)
(* HandleProxy until the first attempt: the group, its sub-group, the      *)
(* channel and the body.  Each of them may be refused, without a log.      *)
(***************************************************************************)
Enter(r) ==
  /\ req[r].at = "idle"
  /\ req' = [req EXCEPT ![r] = Fresh("in")]
  /\ UNCHANGED statusVars

Prepare(r) ==
  /\ req[r].at = "in"
  /\ Goto(r, "select") \/ Return(r, 0)
  /\ UNCHANGED statusVars

(***************************************************************************)
(* executeRequestWithRetry: one attempt                                    *)
(***************************************************************************)
SelectKey(r, k) ==
  /\ req[r].at = "select"
  /\ k \in active
  /\ req' = [req EXCEPT ![r].at = "build", ![r].key = k]
  /\ UNCHANGED statusVars

NoKey(r) ==
  /\ req[r].at = "select"
  /\ active = {}
  /\ Return(r, 1)
  /\ UNCHANGED statusVars

\* No upstream or a bad URL, which is not logged; a model that is not redirected.
Build(r) ==
  /\ req[r].at = "build"
  /\ Goto(r, "send") \/ Return(r, 0) \/ Return(r, 1)
  /\ UNCHANGED statusVars

\* An answer below 400, or 404, for which the key is not to blame.
Succeeds(r) ==
  /\ req[r].at = "send"
  /\ req[r].key \in good
  /\ Goto(r, "copy")
  /\ IF Consecutive THEN Report(req[r].key, "ok") ELSE UNCHANGED statusVars

\* Mutation: the attempts are counted from one.
MutOneMore(r) == req[r].tries > MaxRetries

LastAttempt(r) == req[r].tries >= MaxRetries

LogFailure(r) ==
  IF LastAttempt(r)
    THEN Return(r, 1)
    ELSE req' = [req EXCEPT ![r].at = "select", ![r].key = None, ![r].tries = @ + 1,
                            ![r].retries = @ + 1]

Fails(r) ==
  /\ req[r].at = "send"
  /\ req[r].key \notin good
  /\ ReportFailure(req[r].key)
  /\ LogFailure(r)

\* Mutation: the failure is reported before the error is looked at.
MutReportsFirst(r) ==
  /\ req[r].at = "send"
  /\ Report(req[r].key, "fail")
  /\ Return(r, 1)

\* IsIgnorableError: the client left, or the upstream reset the connection.
Ignores(r) ==
  /\ req[r].at = "send"
  /\ Return(r, 1)
  /\ UNCHANGED statusVars

\* The response is passed on, as far as the client or the upstream lets it.
Copy(r) ==
  /\ req[r].at = "copy"
  /\ Return(r, 1)
  /\ UNCHANGED statusVars

Step(r) ==
  \/ Prepare(r) \/ NoKey(r) \/ Build(r)
  \/ Succeeds(r) \/ Fails(r) \/ Ignores(r) \/ Copy(r)
  \/ \E k \in Keys : SelectKey(r, k)

ProxyNext == \E r \in Requests : Enter(r) \/ Step(r)
=============================================================================
