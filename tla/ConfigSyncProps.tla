--------------------------- MODULE ConfigSyncProps ---------------------------
(***************************************************************************)
(* What hot reload promises.                                               *)
(***************************************************************************)
EXTENDS ConfigSync

TypeOK ==
  /\ db \in [Tables -> Nat]
  /\ pending \in [Tables -> Nat]
  /\ phase \in [Nodes -> [Tables -> Phases]]
  /\ started \in [Nodes -> SUBSET Tables]
  /\ queue \in [Nodes -> [Tables -> 0 .. Buffer]]
  /\ cache \in [Nodes -> Cached]
  /\ got \in [Nodes -> [Tables -> Reading]]
  /\ stopping \in SUBSET Nodes
  /\ missed \in SUBSET (Nodes \X Tables)

\* The node keeps running, and no invalidation of t, or reload after one,
\* has failed it.
Serving(n, t) == n \notin stopping /\ <<n, t>> \notin missed

\* What the cache of t holds, or is about to hold.
Held(n, t) ==
  IF phase[n][t] \in {"effective", "set"} THEN got[n][t].table ELSE cache[n][t]

(***************************************************************************)
(* A listening node whose table is out of date has a reload ahead of it,   *)
(* also when a message was dropped at a full buffer or overtaken by the    *)
(* reload it asks for.  (cache_syncer.go: listenForUpdates reads one       *)
(* message, reloads, reads the next.)                                      *)
(***************************************************************************)
StaleIsKnown ==
  \A n \in Nodes, t \in Tables :
    (Serving(n, t) /\ Subscribed(n, t) /\ Held(n, t) # db[t]) =>
       pending[t] > 0 \/ queue[n][t] > 0 \/ phase[n][t] = "load"

(***************************************************************************)
(* The groups' effective configuration on the master is never out of date  *)
(* for good: while it is, a reload of the settings or of the groups is     *)
(* ahead.  (system_settings.go: afterLoader; group_manager.go: the loader  *)
(* reads the settings cache after the groups.)                             *)
(***************************************************************************)
MasterEffectiveIsKnown ==
  (\A t \in Tables : Serving(Master, t) /\ Subscribed(Master, t)) =>
    \/ cache[Master]["effective"] = db["settings"]
    \/ pending["settings"] > 0
    \/ queue[Master]["settings"] > 0
    \/ phase[Master]["settings"] \in Reloading
    \/ queue[Master]["groups"] > 0
    \/ phase[Master]["groups"] \in {"load", "effective"}
    \/ /\ phase[Master]["groups"] = "set"
       /\ got[Master]["groups"].effective = db["settings"]

(***************************************************************************)
(* Every change whose announcement reaches a node that keeps running        *)
(* arrives: the caches end up as the database is, the selectors with the   *)
(* groups, and on the master the effective configuration with the          *)
(* settings.                                                               *)
(***************************************************************************)
ChangesArrive ==
  <>[](\A n \in Nodes :
         /\ \A t \in Tables : Serving(n, t) => cache[n][t] = db[t]
         /\ Serving(n, "groups") => cache[n]["selectors"] = db["groups"]
         /\ (n = Master /\ \A t \in Tables : Serving(n, t)) =>
              cache[n]["effective"] = db["settings"])

(***************************************************************************)
(* A stopped node ends the goroutines of both syncers: Stop waits for      *)
(* them, and the shutdown with it.                                         *)
(***************************************************************************)
StopEnds ==
  <>[](\A n \in stopping, t \in Tables : phase[n][t] = "stopped")

(***************************************************************************)
(* What documents and comments say and the code does not do.               *)
(***************************************************************************)
\* README: system settings and group configuration take effect immediately.
EffectiveArrivesEverywhere ==
  \A n \in Nodes :
    <>[]((\A t \in Tables : Serving(n, t)) => cache[n]["effective"] = db["settings"])
=============================================================================
