----------------------------- MODULE ConfigSync -----------------------------
(***************************************************************************)
(* The two cached tables of every node, system settings and groups, each   *)
(* kept by a CacheSyncer: a cache that is reloaded from the database when  *)
(* a message arrives on the table's channel.  A group's effective          *)
(* configuration is computed from the settings cache when groups are       *)
(* reloaded; so that a change of the settings reaches it, the master       *)
(* invalidates the groups after each reload of its settings.               *)
(*                                                                         *)
(* The content of a table is its version: how often it was written.  All   *)
(* messages are the same, so a subscription is the number of those that    *)
(* wait in it.                                                             *)
(***************************************************************************)
EXTENDS Integers, FiniteSets

CONSTANTS
  Nodes,       (* instances sharing database and store                     *)
  Master,      (* the node without IS_SLAVE                                *)
  Writers,     (* bound: nodes whose handlers write                        *)
  MaxWrites,   (* bound: writes to each table                              *)
  EarlyWrites, (* bound: writes made before every node listens             *)
  MaxStops,    (* bound: nodes that are told to stop                       *)
  Buffer,      (* messages a subscription holds; 10 in the code            *)
  Faults       (* what may fail: "load", "publish", "channel"              *)

Tables == {"settings", "groups"}

ASSUME ConfigSyncAssumption ==
  /\ Master \in Nodes
  /\ Writers \subseteq Nodes
  /\ MaxWrites \in Nat /\ EarlyWrites \in Nat /\ MaxStops \in Nat
  /\ Buffer \in Nat \ {0}
  /\ Faults \subseteq {"load", "publish", "channel"}

VARIABLES
  db,        (* version of each table in the database                      *)
  pending,   (* handlers that have written a table and not yet published   *)
  phase,     (* where the goroutine of each syncer is                      *)
  started,   (* tables whose NewCacheSyncer has returned                   *)
  queue,     (* messages waiting in each subscription                      *)
  cache,     (* the caches of each node                                    *)
  got,       (* what the reload under way has read                         *)
  stopping,  (* nodes told to stop                                         *)
  missed     (* node and table: an invalidation did not get there, or the  *)
             (* reload it asked for failed                                 *)

node == <<phase, started, queue, cache, got, stopping>>
vars == <<db, pending, node, missed>>

\* The defaults that are used while nothing is loaded.
Defaults == -1
Version  == {Defaults} \cup Nat

\* effective: settings in the groups' EffectiveConfig; selectors: groups in
\* the sub-group selectors.
Cached  == [Tables \cup {"effective", "selectors"} -> Version]
Reading == [table : Version, effective : Version]

Reloading == {"load", "effective", "set", "hook"}
Phases    == Reloading \cup {"new", "absent", "subscribe", "listen", "stopped"}

NothingCached == [x \in Tables \cup {"effective", "selectors"} |-> Defaults]
NothingRead   == [table |-> Defaults, effective |-> Defaults]

Init ==
  /\ db = [t \in Tables |-> 0]
  /\ pending = [t \in Tables |-> 0]
  /\ phase = [n \in Nodes |-> [t \in Tables |->
                IF t = "settings" THEN "load" ELSE "new"]]
  /\ started = [n \in Nodes |-> {}]
  /\ queue = [n \in Nodes |-> [t \in Tables |-> 0]]
  /\ cache = [n \in Nodes |-> NothingCached]
  /\ got = [n \in Nodes |-> [t \in Tables |-> NothingRead]]
  /\ stopping = {}
  /\ missed = {}

Goto(n, t, p) == phase' = [phase EXCEPT ![n][t] = p]

Subscribed(n, t) ==
  phase[n][t] = "listen" \/ (t \in started[n] /\ phase[n][t] \in Reloading)

\* Store.Publish: to the subscriptions there are at this moment, dropping
\* what does not fit into a full one.
Delivered(t) ==
  [n \in Nodes |-> [queue[n] EXCEPT ![t] =
     IF Subscribed(n, t) /\ @ < Buffer THEN @ + 1 ELSE @]]

\* The nodes a message of t is not for, since they do not listen yet.
Missing(t) == {<<n, t>> : n \in {m \in Nodes : ~Subscribed(m, t)}}

(***************************************************************************)
(* The admin handlers: write the table, then publish.  The HTTP server of  *)
(* a node starts after it has initialized the groups.                      *)
(***************************************************************************)
\* Every node has come up, or is on its way down.
AllUp == \A n \in Nodes : n \in stopping \/ \A t \in Tables : Subscribed(n, t)

Write(t) ==
  /\ db[t] < MaxWrites
  /\ AllUp \/ db["settings"] + db["groups"] < EarlyWrites
  /\ \E n \in Writers : "groups" \in started[n]
  /\ db' = [db EXCEPT ![t] = @ + 1]
  /\ pending' = [pending EXCEPT ![t] = @ + 1]
  /\ UNCHANGED <<node, missed>>

Publish(t) ==
  /\ pending[t] > 0
  /\ pending' = [pending EXCEPT ![t] = @ - 1]
  /\ queue' = Delivered(t)
  /\ missed' = missed \cup Missing(t)
  /\ UNCHANGED <<db, phase, started, cache, got, stopping>>

PublishFails(t) ==
  /\ "publish" \in Faults
  /\ pending[t] > 0
  /\ pending' = [pending EXCEPT ![t] = @ - 1]
  /\ missed' = missed \cup {<<n, t>> : n \in Nodes}
  /\ UNCHANGED <<db, node>>

(***************************************************************************)
(* reload: the loader, the cache, the hook.                                *)
(***************************************************************************)
Load(n, t) ==
  /\ phase[n][t] = "load"
  /\ got' = [got EXCEPT ![n][t] = [table |-> db[t], effective |-> Defaults]]
  /\ Goto(n, t, IF t = "groups" THEN "effective" ELSE "set")
  /\ UNCHANGED <<db, pending, started, queue, cache, stopping, missed>>

\* GetEffectiveConfig, called by the groups' loader after it read the groups.
LoadEffective(n) ==
  /\ phase[n]["groups"] = "effective"
  /\ got' = [got EXCEPT ![n]["groups"].effective = cache[n]["settings"]]
  /\ Goto(n, "groups", "set")
  /\ UNCHANGED <<db, pending, started, queue, cache, stopping, missed>>

\* After the first reload the listener goroutine is started.
LoadFails(n, t) ==
  /\ "load" \in Faults
  /\ phase[n][t] = "load"
  /\ phase' = [phase EXCEPT ![n][t] = IF t \in started[n] THEN "listen" ELSE "absent"]
  /\ missed' = missed \cup {<<n, t>>}
  /\ UNCHANGED <<db, pending, started, queue, cache, got, stopping>>

\* Mutation: what arrived during the load is taken as answered by it.
MutDrains(n, t) ==
  /\ phase[n][t] = "set"
  /\ cache' = [cache EXCEPT ![n][t] = got[n][t].table,
                            ![n]["effective"] = IF t = "groups"
                              THEN got[n][t].effective ELSE @]
  /\ queue' = [queue EXCEPT ![n][t] = 0]
  /\ Goto(n, t, "hook")
  /\ UNCHANGED <<db, pending, started, got, stopping, missed>>

\* Mutation: only the first load reaches the cache.
MutSetsOnce(n, t) ==
  /\ phase[n][t] = "set"
  /\ cache' = IF t \in started[n] THEN cache
              ELSE [cache EXCEPT ![n][t] = got[n][t].table]
  /\ Goto(n, t, "hook")
  /\ UNCHANGED <<db, pending, started, queue, got, stopping, missed>>

SetCache(n, t) ==
  /\ phase[n][t] = "set"
  /\ cache' = [cache EXCEPT
       ![n][t] = got[n][t].table,
       ![n]["effective"] = IF t = "groups" THEN got[n][t].effective ELSE @]
  /\ Goto(n, t, "hook")
  /\ UNCHANGED <<db, pending, started, queue, got, stopping, missed>>

AfterHook(n, t) ==
  /\ Goto(n, t, IF t \in started[n] THEN "listen" ELSE "subscribe")
  /\ started' = [started EXCEPT ![n] = @ \cup {t}]
  /\ got' = [got EXCEPT ![n][t] = NothingRead]

\* Mutation: no node invalidates the groups.
MutNoInvalidate(n) ==
  /\ phase[n]["settings"] = "hook"
  /\ AfterHook(n, "settings")
  /\ UNCHANGED <<db, pending, cache, stopping, missed, queue>>

\* The settings' afterReload: the master invalidates the groups, which fails
\* while its GroupManager is not initialized.
SettingsHook(n) ==
  /\ phase[n]["settings"] = "hook"
  /\ IF n = Master /\ "groups" \in started[n]
     THEN queue' = Delivered("groups") /\ missed' = missed \cup Missing("groups")
     ELSE /\ UNCHANGED queue
          /\ missed' = IF n # Master \/ phase[n]["groups"] = "new" THEN missed
                        ELSE missed \cup {<<n, "groups">>}
  /\ AfterHook(n, "settings")
  /\ UNCHANGED <<db, pending, cache, stopping>>

\* Mutation: the selectors are built once.
MutBuildsOnce(n) ==
  /\ phase[n]["groups"] = "hook"
  /\ cache' = IF "groups" \in started[n] THEN cache
              ELSE [cache EXCEPT ![n]["selectors"] = got[n]["groups"].table]
  /\ AfterHook(n, "groups")
  /\ UNCHANGED <<db, pending, queue, stopping, missed>>

\* The groups' afterReload: RebuildSelectors.
GroupsHook(n) ==
  /\ phase[n]["groups"] = "hook"
  /\ cache' = [cache EXCEPT ![n]["selectors"] = got[n]["groups"].table]
  /\ AfterHook(n, "groups")
  /\ UNCHANGED <<db, pending, queue, stopping, missed>>

\* App.Start initializes the groups after the settings, whatever became of them.
InitializeGroups(n) ==
  /\ phase[n]["groups"] = "new"
  /\ "settings" \in started[n] \/ phase[n]["settings"] = "absent"
  /\ Goto(n, "groups", "load")
  /\ UNCHANGED <<db, pending, started, queue, cache, got, stopping, missed>>

(***************************************************************************)
(* listenForUpdates                                                        *)
(***************************************************************************)
Subscribe(n, t) ==
  /\ phase[n][t] = "subscribe"
  /\ n \notin stopping
  /\ Goto(n, t, "listen")
  /\ UNCHANGED <<db, pending, started, queue, cache, got, stopping, missed>>

Receive(n, t) ==
  /\ phase[n][t] = "listen"
  /\ queue[n][t] > 0
  /\ queue' = [queue EXCEPT ![n][t] = @ - 1]
  /\ Goto(n, t, "load")
  /\ UNCHANGED <<db, pending, started, cache, got, stopping, missed>>

\* The subscription's channel is closed; what waits in it is lost.
ChannelCloses(n, t) ==
  /\ "channel" \in Faults
  /\ phase[n][t] = "listen"
  /\ queue' = [queue EXCEPT ![n][t] = 0]
  /\ missed' = IF queue[n][t] > 0 THEN missed \cup {<<n, t>>} ELSE missed
  /\ Goto(n, t, "subscribe")
  /\ UNCHANGED <<db, pending, started, cache, got, stopping>>

\* App.Stop closes stopChan of both syncers; the goroutines see it where they
\* wait.
Stop(n) ==
  /\ Tables \subseteq started[n]
  /\ n \notin stopping /\ Cardinality(stopping) < MaxStops
  /\ stopping' = stopping \cup {n}
  /\ UNCHANGED <<db, pending, phase, started, queue, cache, got, missed>>

\* Mutation: stopChan is only looked at before subscribing.
MutStopsBeforeSubscribe(n, t) ==
  /\ n \in stopping
  /\ phase[n][t] = "subscribe"
  /\ Goto(n, t, "stopped")
  /\ queue' = [queue EXCEPT ![n][t] = 0]
  /\ UNCHANGED <<db, pending, started, cache, got, stopping, missed>>

StopListening(n, t) ==
  /\ n \in stopping
  /\ phase[n][t] \in {"subscribe", "listen"}
  /\ Goto(n, t, "stopped")
  /\ queue' = [queue EXCEPT ![n][t] = 0]
  /\ UNCHANGED <<db, pending, started, cache, got, stopping, missed>>

Syncer(n, t) ==
  \/ Load(n, t) \/ SetCache(n, t) \/ Subscribe(n, t) \/ Receive(n, t)
  \/ StopListening(n, t)
  \/ t = "settings" /\ SettingsHook(n)
  \/ t = "groups" /\ (InitializeGroups(n) \/ LoadEffective(n) \/ GroupsHook(n))

Fault(n, t) == LoadFails(n, t) \/ ChannelCloses(n, t)

Next ==
  \/ \E t \in Tables : Write(t) \/ Publish(t) \/ PublishFails(t)
  \/ \E n \in Nodes : Stop(n)
  \/ \E n \in Nodes, t \in Tables : Syncer(n, t) \/ Fault(n, t)

Spec == Init /\ [][Next]_vars

\* The goroutines of the syncers are scheduled, their loads end, a refused
\* subscription succeeds in the end, and a handler that wrote publishes.
FairSpec ==
  /\ Spec
  /\ \A t \in Tables : WF_vars(Publish(t))
  /\ \A n \in Nodes, t \in Tables : WF_vars(Syncer(n, t))
=============================================================================
