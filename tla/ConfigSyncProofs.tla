--------------------------- MODULE ConfigSyncProofs ---------------------------
(***************************************************************************)
(* What holds for any number of nodes and writes, any buffer and any       *)
(* faults.  A table that a running node has out of date is announced: a    *)
(* handler still publishes, a message waits, or the loader has not read    *)
(* yet.  The messages carry nothing, so one that waits stands for any      *)
(* number that were dropped.                                               *)
(***************************************************************************)
EXTENDS ConfigSyncProps, TLAPS

\* A syncer that gave up was failed by its first load; one that has ended
\* was told to.
EndsAreKnown ==
  \A n \in Nodes, t \in Tables :
    /\ phase[n][t] = "absent" => <<n, t>> \in missed
    /\ phase[n][t] = "stopped" => n \in stopping

\* StaleIsKnown also while the subscription is being made: what is published
\* then counts as missed.
Announced(n, t) ==
  (/\ Serving(n, t)
   /\ phase[n][t] \in {"effective", "set", "hook", "subscribe", "listen"}
   /\ Held(n, t) # db[t]) =>
     pending[t] > 0 \/ queue[n][t] > 0

\* The settings' syncer of the master has nothing to do.
SettingsAtRest ==
  /\ phase[Master]["settings"] \in {"subscribe", "listen"}
  /\ pending["settings"] = 0 /\ queue[Master]["settings"] = 0
  /\ \A t \in Tables : Serving(Master, t)

HeldEffective ==
  IF phase[Master]["groups"] = "set" THEN got[Master]["groups"].effective
                                     ELSE cache[Master]["effective"]

MasterKnows ==
  SettingsAtRest =>
    \/ HeldEffective = db["settings"]
    \/ queue[Master]["groups"] > 0
    \/ phase[Master]["groups"] \in {"new", "load", "effective"}

AllAnnounced == \A n \in Nodes, t \in Tables : Announced(n, t)

IInv == TypeOK /\ EndsAreKnown /\ AllAnnounced /\ MasterKnows

\* A step of one syncer, and which of its actions it is.
SyncerAction(n, t) ==
  \/ Load(n, t) \/ SetCache(n, t) \/ Subscribe(n, t) \/ Receive(n, t)
  \/ StopListening(n, t) \/ LoadFails(n, t) \/ ChannelCloses(n, t)
  \/ t = "settings" /\ SettingsHook(n)
  \/ t = "groups" /\ (InitializeGroups(n) \/ LoadEffective(n) \/ GroupsHook(n))

LEMMA NextCases ==
  ASSUME Next
  PROVE  \/ \E t \in Tables : Write(t) \/ Publish(t) \/ PublishFails(t)
         \/ \E n \in Nodes : Stop(n)
         \/ \E n \in Nodes, t \in Tables : SyncerAction(n, t)
  BY DEF Next, Syncer, Fault, SyncerAction

(***************************************************************************)
(* What a publication does to one subscription.                            *)
(***************************************************************************)
LEMMA DeliveredType ==
  ASSUME TypeOK, NEW t \in Tables
  PROVE  Delivered(t) \in [Nodes -> [Tables -> 0 .. Buffer]]
<1>1. \A n \in Nodes : [queue[n] EXCEPT ![t] =
            IF Subscribed(n, t) /\ @ < Buffer THEN @ + 1 ELSE @] \in [Tables -> 0 .. Buffer]
  BY ConfigSyncAssumption DEF TypeOK
<1> QED  BY <1>1 DEF Delivered

LEMMA DeliveredGrows ==
  ASSUME TypeOK, NEW t \in Tables, NEW n \in Nodes, NEW u \in Tables
  PROVE  /\ Delivered(t)[n][u] >= queue[n][u]
         /\ Subscribed(n, t) => Delivered(t)[n][t] > 0
         /\ ~Subscribed(n, t) => <<n, t>> \in Missing(t)
<1>1. queue[n] \in [Tables -> 0 .. Buffer]
  BY DEF TypeOK
<1>2. Delivered(t)[n] = [queue[n] EXCEPT ![t] =
            IF Subscribed(n, t) /\ @ < Buffer THEN @ + 1 ELSE @]
  BY DEF Delivered
<1>3. Delivered(t)[n][u] >= queue[n][u]
  BY <1>1, <1>2, ConfigSyncAssumption
<1>4. Subscribed(n, t) => Delivered(t)[n][t] > 0
  BY <1>1, <1>2, ConfigSyncAssumption
<1>5. ~Subscribed(n, t) => <<n, t>> \in Missing(t)
  BY DEF Missing
<1> QED  BY <1>3, <1>4, <1>5

LEMMA MissingType ==
  ASSUME NEW t \in Tables
  PROVE  Missing(t) \subseteq Nodes \X Tables
  BY DEF Missing

(***************************************************************************)
(* The variables keep their types.                                         *)
(***************************************************************************)
LEMMA TypeInit == Init => TypeOK
<1> SUFFICES ASSUME Init PROVE TypeOK
  OBVIOUS
<1>1. NothingCached \in Cached /\ NothingRead \in Reading
  BY DEF NothingCached, NothingRead, Cached, Reading, Version, Defaults
<1>2. phase \in [Nodes -> [Tables -> Phases]]
  BY DEF Init, Phases, Reloading, Tables
<1>3. queue \in [Nodes -> [Tables -> 0 .. Buffer]]
  BY ConfigSyncAssumption DEF Init
<1>4. cache \in [Nodes -> Cached] /\ got \in [Nodes -> [Tables -> Reading]]
  BY <1>1 DEF Init
<1> QED  BY <1>2, <1>3, <1>4 DEF Init, TypeOK

LEMMA GotoType ==
  ASSUME TypeOK, NEW n \in Nodes, NEW t \in Tables, NEW p \in Phases, Goto(n, t, p)
  PROVE  phase' \in [Nodes -> [Tables -> Phases]]
  BY DEF Goto, TypeOK

LEMMA TypeSyncer ==
  ASSUME TypeOK, NEW n \in Nodes, NEW t \in Tables, SyncerAction(n, t)
  PROVE  TypeOK'
<1> USE DEF Tables
<1>1. CASE Load(n, t)
  <2>1. [table |-> db[t], effective |-> Defaults] \in Reading
    BY DEF TypeOK, Reading, Version, Defaults
  <2>2. got' \in [Nodes -> [Tables -> Reading]]
    BY <1>1, <2>1 DEF Load, TypeOK
  <2>3. phase' \in [Nodes -> [Tables -> Phases]]
    BY <1>1, GotoType DEF Load, Phases, Reloading
  <2> QED  BY <1>1, <2>2, <2>3 DEF Load, TypeOK
<1>2. CASE SetCache(n, t)
  <2>1. got[n][t].table \in Version /\ got[n][t].effective \in Version
    BY DEF TypeOK, Reading
  <2>2. cache[n] \in Cached
    BY DEF TypeOK
  <2>3. cache' \in [Nodes -> Cached]
    BY <1>2, <2>1, <2>2 DEF SetCache, TypeOK, Cached
  <2>4. phase' \in [Nodes -> [Tables -> Phases]]
    BY <1>2, GotoType DEF SetCache, Phases, Reloading
  <2> QED  BY <1>2, <2>3, <2>4 DEF SetCache, TypeOK
<1>3. CASE Subscribe(n, t)
  <2>1. phase' \in [Nodes -> [Tables -> Phases]]
    BY <1>3, GotoType DEF Subscribe, Phases
  <2> QED  BY <1>3, <2>1 DEF Subscribe, TypeOK
<1>4. CASE Receive(n, t)
  <2>1. phase' \in [Nodes -> [Tables -> Phases]]
    BY <1>4, GotoType DEF Receive, Phases, Reloading
  <2>2. queue' \in [Nodes -> [Tables -> 0 .. Buffer]]
    BY <1>4, ConfigSyncAssumption DEF Receive, TypeOK
  <2> QED  BY <1>4, <2>1, <2>2 DEF Receive, TypeOK
<1>5. CASE StopListening(n, t)
  <2>1. phase' \in [Nodes -> [Tables -> Phases]]
    BY <1>5, GotoType DEF StopListening, Phases
  <2>2. queue' \in [Nodes -> [Tables -> 0 .. Buffer]]
    BY <1>5, ConfigSyncAssumption DEF StopListening, TypeOK
  <2> QED  BY <1>5, <2>1, <2>2 DEF StopListening, TypeOK
<1>6. CASE LoadFails(n, t)
  <2>1. phase' \in [Nodes -> [Tables -> Phases]]
    BY <1>6 DEF LoadFails, TypeOK, Phases
  <2> QED  BY <1>6, <2>1 DEF LoadFails, TypeOK
<1>7. CASE ChannelCloses(n, t)
  <2>1. phase' \in [Nodes -> [Tables -> Phases]]
    BY <1>7, GotoType DEF ChannelCloses, Phases
  <2>2. queue' \in [Nodes -> [Tables -> 0 .. Buffer]]
    BY <1>7, ConfigSyncAssumption DEF ChannelCloses, TypeOK
  <2>3. missed' \in SUBSET (Nodes \X Tables)
    BY <1>7 DEF ChannelCloses, TypeOK
  <2> QED  BY <1>7, <2>1, <2>2, <2>3 DEF ChannelCloses, TypeOK
<1>8. ASSUME NEW u \in Tables, AfterHook(n, u)
      PROVE  /\ phase' \in [Nodes -> [Tables -> Phases]]
             /\ started' \in [Nodes -> SUBSET Tables]
             /\ got' \in [Nodes -> [Tables -> Reading]]
  <2>1. NothingRead \in Reading
    BY DEF NothingRead, Reading, Version, Defaults
  <2>2. phase' \in [Nodes -> [Tables -> Phases]]
    BY <1>8, GotoType DEF AfterHook, Phases
  <2> QED  BY <1>8, <2>1, <2>2 DEF AfterHook, TypeOK
<1>9. CASE t = "settings" /\ SettingsHook(n)
  <2>1. queue' \in [Nodes -> [Tables -> 0 .. Buffer]]
    BY <1>9, DeliveredType DEF SettingsHook, TypeOK
  <2>2. missed' \in SUBSET (Nodes \X Tables)
    BY <1>9, MissingType DEF SettingsHook, TypeOK
  <2>3. AfterHook(n, "settings")
    BY <1>9 DEF SettingsHook
  <2> QED  BY <1>8, <1>9, <2>1, <2>2, <2>3 DEF SettingsHook, TypeOK
<1>10. CASE t = "groups" /\ InitializeGroups(n)
  <2>1. phase' \in [Nodes -> [Tables -> Phases]]
    BY <1>10, GotoType DEF InitializeGroups, Phases, Reloading
  <2> QED  BY <1>10, <2>1 DEF InitializeGroups, TypeOK
<1>11. CASE t = "groups" /\ LoadEffective(n)
  <2>1. phase' \in [Nodes -> [Tables -> Phases]]
    BY <1>11, GotoType DEF LoadEffective, Phases, Reloading
  <2>2. cache[n]["settings"] \in Version
    BY DEF TypeOK, Cached
  <2> DEFINE g == got[n]["groups"]
  <2> HIDE DEF Tables
  <2>3. "groups" \in Tables
    BY DEF Tables
  <2>4. g \in Reading
    BY <2>3 DEF TypeOK
  <2> HIDE DEF g
  <2>5. [g EXCEPT !.effective = cache[n]["settings"]] \in Reading
    BY <2>2, <2>4 DEF Reading
  <2>6. [got[n]["groups"] EXCEPT !.effective = cache[n]["settings"]] \in Reading
    BY <2>5 DEF g
  <2>7. got' \in [Nodes -> [Tables -> Reading]]
    BY <1>11, <2>6 DEF LoadEffective, TypeOK
  <2> QED  BY <1>11, <2>1, <2>7 DEF LoadEffective, TypeOK
<1>12. CASE t = "groups" /\ GroupsHook(n)
  <2>1. AfterHook(n, "groups")
    BY <1>12 DEF GroupsHook
  <2>2. got[n]["groups"].table \in Version /\ cache[n] \in Cached
    BY DEF TypeOK, Reading
  <2>3. cache' \in [Nodes -> Cached]
    BY <1>12, <2>2 DEF GroupsHook, TypeOK, Cached
  <2> QED  BY <1>8, <1>12, <2>1, <2>3 DEF GroupsHook, TypeOK
<1> QED  BY <1>1, <1>2, <1>3, <1>4, <1>5, <1>6, <1>7, <1>9, <1>10, <1>11, <1>12
         DEF SyncerAction

LEMMA TypeStep == TypeOK /\ [Next]_vars => TypeOK'
<1> SUFFICES ASSUME TypeOK, [Next]_vars PROVE TypeOK'
  OBVIOUS
<1>1. ASSUME NEW t \in Tables, Write(t) PROVE TypeOK'
  BY <1>1 DEF Write, node, TypeOK
<1>2. ASSUME NEW t \in Tables, Publish(t) PROVE TypeOK'
  <2>1. queue' \in [Nodes -> [Tables -> 0 .. Buffer]]
    BY <1>2, DeliveredType DEF Publish
  <2>2. missed' \in SUBSET (Nodes \X Tables)
    BY <1>2, MissingType DEF Publish, TypeOK
  <2> QED  BY <1>2, <2>1, <2>2 DEF Publish, TypeOK
<1>3. ASSUME NEW t \in Tables, PublishFails(t) PROVE TypeOK'
  BY <1>3 DEF PublishFails, node, TypeOK
<1>4. ASSUME NEW n \in Nodes, Stop(n) PROVE TypeOK'
  BY <1>4 DEF Stop, TypeOK
<1>5. CASE UNCHANGED vars
  BY <1>5 DEF vars, node, TypeOK
<1> QED  BY <1>1, <1>2, <1>3, <1>4, <1>5, NextCases, TypeSyncer

(***************************************************************************)
(* What a step of one syncer leaves alone: the tables, the handlers, the   *)
(* other syncers, but for messages that arrive and invalidations missed.   *)
(***************************************************************************)
LEMMA SyncerFrame ==
  ASSUME TypeOK, NEW n \in Nodes, NEW t \in Tables, SyncerAction(n, t)
  PROVE  UNCHANGED <<db, pending, stopping>> /\ missed \subseteq missed'
<1> QED
  BY DEF SyncerAction, Load, SetCache, Subscribe, Receive, StopListening, LoadFails,
         ChannelCloses, SettingsHook, InitializeGroups, LoadEffective, GroupsHook

LEMMA OthersAlone ==
  ASSUME TypeOK, NEW n \in Nodes, NEW t \in Tables, SyncerAction(n, t),
         NEW m \in Nodes, NEW u \in Tables, m # n \/ u # t
  PROVE  /\ phase'[m][u] = phase[m][u]
         /\ got'[m][u] = got[m][u]
         /\ cache'[m][u] = cache[m][u]
         /\ queue'[m][u] >= queue[m][u]
<1>0. queue[m][u] \in Int /\ "settings" \in Tables /\ "groups" \in Tables
      /\ u # "effective" /\ u # "selectors"
  BY DEF TypeOK, Tables
<1>1. CASE Load(n, t) \/ Subscribe(n, t) \/ Receive(n, t) \/ StopListening(n, t)
           \/ LoadFails(n, t) \/ ChannelCloses(n, t)
  BY <1>0, <1>1 DEF Load, Subscribe, Receive, StopListening, LoadFails, ChannelCloses,
                    Goto, TypeOK
<1>2. CASE SetCache(n, t)
  <2>1. cache[n] \in Cached
    BY DEF TypeOK
  <2> QED  BY <1>0, <1>2, <2>1 DEF SetCache, Goto, TypeOK, Cached
<1>3. CASE t = "settings" /\ SettingsHook(n)
  <2>1. queue' = queue \/ queue' = Delivered("groups")
    BY <1>3 DEF SettingsHook
  <2>2. Delivered("groups")[m][u] >= queue[m][u]
    BY <1>0, DeliveredGrows
  <2>3. queue'[m][u] >= queue[m][u]
    BY <1>0, <2>1, <2>2
  <2> QED  BY <1>0, <1>3, <2>3 DEF SettingsHook, AfterHook, Goto, TypeOK
<1>4. CASE t = "groups" /\ (InitializeGroups(n) \/ LoadEffective(n))
  BY <1>0, <1>4 DEF InitializeGroups, LoadEffective, Goto, TypeOK
<1>5. CASE t = "groups" /\ GroupsHook(n)
  <2>1. cache[n] \in Cached
    BY DEF TypeOK
  <2> QED  BY <1>0, <1>5, <2>1 DEF GroupsHook, AfterHook, Goto, TypeOK, Cached
<1> QED  BY <1>1, <1>2, <1>3, <1>4, <1>5 DEF SyncerAction

(***************************************************************************)
(* How syncers end.                                                        *)
(***************************************************************************)
LEMMA EndsStep == TypeOK /\ EndsAreKnown /\ [Next]_vars => EndsAreKnown'
<1> SUFFICES ASSUME TypeOK, EndsAreKnown, [Next]_vars PROVE EndsAreKnown'
  OBVIOUS
<1>1. ASSUME NEW t \in Tables, Write(t) \/ Publish(t) \/ PublishFails(t)
      PROVE EndsAreKnown'
  BY <1>1 DEF Write, Publish, PublishFails, node, EndsAreKnown
<1>2. ASSUME NEW n \in Nodes, Stop(n) PROVE EndsAreKnown'
  BY <1>2 DEF Stop, EndsAreKnown
<1>3. ASSUME NEW n \in Nodes, NEW t \in Tables, SyncerAction(n, t)
      PROVE EndsAreKnown'
  <2>1. /\ phase'[n][t] = "absent" => <<n, t>> \in missed'
        /\ phase'[n][t] = "stopped" => n \in stopping'
    BY <1>3 DEF SyncerAction, Load, SetCache, Subscribe, Receive, StopListening,
                LoadFails, ChannelCloses, SettingsHook, InitializeGroups,
                LoadEffective, GroupsHook, AfterHook, Goto, TypeOK
  <2>2. ASSUME NEW m \in Nodes, NEW u \in Tables, m # n \/ u # t
        PROVE phase'[m][u] = phase[m][u]
    BY <1>3, <2>2, OthersAlone
  <2>3. UNCHANGED stopping /\ missed \subseteq missed'
    BY <1>3, SyncerFrame
  <2> QED  BY <2>1, <2>2, <2>3 DEF EndsAreKnown
<1>4. CASE UNCHANGED vars
  BY <1>4 DEF vars, node, EndsAreKnown
<1> QED  BY <1>1, <1>2, <1>3, <1>4, NextCases

(***************************************************************************)
(* A table out of date stays announced.                                    *)
(***************************************************************************)
\* Of a syncer that keeps its place while messages come and are missed.
LEMMA AnnouncedKept ==
  ASSUME TypeOK, TypeOK', NEW n \in Nodes, NEW t \in Tables, Announced(n, t),
         phase'[n][t] = phase[n][t], got'[n][t] = got[n][t],
         cache'[n][t] = cache[n][t], queue'[n][t] >= queue[n][t],
         db' = db, pending' = pending, stopping \subseteq stopping',
         missed \subseteq missed'
  PROVE  Announced(n, t)'
<1>1. queue[n][t] \in Int /\ queue'[n][t] \in Int
  BY DEF TypeOK
<1>2. Serving(n, t)' => Serving(n, t)
  BY DEF Serving
<1>3. Held(n, t)' = Held(n, t)
  BY DEF Held
<1>4. queue[n][t] > 0 => queue'[n][t] > 0
  BY <1>1
<1> QED  BY <1>2, <1>3, <1>4 DEF Announced

LEMMA AnnouncedSyncer ==
  ASSUME TypeOK, TypeOK', NEW n \in Nodes, NEW t \in Tables, Announced(n, t),
         SyncerAction(n, t)
  PROVE  Announced(n, t)'
<1>1. CASE Load(n, t)
  <2>1. got'[n][t].table = db[t] /\ phase'[n][t] \in {"effective", "set"}
    BY <1>1 DEF Load, Goto, TypeOK
  <2>2. Held(n, t)' = db'[t]
    BY <1>1, <2>1 DEF Held, Load
  <2> QED  BY <2>2 DEF Announced
<1>2. CASE SetCache(n, t)
  <2>1. cache'[n][t] = got[n][t].table /\ phase'[n][t] = "hook"
    BY <1>2 DEF SetCache, Goto, TypeOK, Cached, Tables
  <2>2. Held(n, t)' = Held(n, t) /\ phase[n][t] = "set"
    BY <1>2, <2>1 DEF Held, SetCache
  <2> QED  BY <1>2, <2>2 DEF Announced, SetCache, Serving
<1>3. CASE Subscribe(n, t)
  <2>1. phase[n][t] = "subscribe" /\ phase'[n][t] = "listen"
    BY <1>3 DEF Subscribe, Goto, TypeOK
  <2>2. Held(n, t)' = Held(n, t)
    BY <1>3, <2>1 DEF Held, Subscribe
  <2> QED  BY <1>3, <2>1, <2>2 DEF Announced, Subscribe, Serving
<1>4. CASE Receive(n, t)
  <2>1. phase'[n][t] = "load"
    BY <1>4 DEF Receive, Goto, TypeOK
  <2> QED  BY <2>1 DEF Announced
<1>5. CASE StopListening(n, t)
  <2>1. phase'[n][t] = "stopped"
    BY <1>5 DEF StopListening, Goto, TypeOK
  <2> QED  BY <2>1 DEF Announced
<1>6. CASE LoadFails(n, t)
  BY <1>6 DEF LoadFails, Announced, Serving
<1>7. CASE ChannelCloses(n, t)
  <2>1. phase[n][t] = "listen" /\ phase'[n][t] = "subscribe" /\ queue[n][t] \in Nat
    BY <1>7 DEF ChannelCloses, Goto, TypeOK
  <2>2. CASE queue[n][t] > 0
    BY <1>7, <2>2 DEF ChannelCloses, Announced, Serving
  <2>3. CASE ~(queue[n][t] > 0)
    <3>1. Held(n, t)' = Held(n, t)
      BY <1>7, <2>1 DEF Held, ChannelCloses
    <3> QED  BY <1>7, <2>1, <2>3, <3>1 DEF ChannelCloses, Announced, Serving
  <2> QED  BY <2>2, <2>3
<1>8. CASE t = "settings" /\ SettingsHook(n)
  <2>1. phase[n][t] = "hook" /\ phase'[n][t] \in {"listen", "subscribe"}
    BY <1>8 DEF SettingsHook, AfterHook, Goto, TypeOK
  <2>2. Held(n, t)' = Held(n, t)
    BY <1>8, <2>1 DEF Held, SettingsHook
  <2>3. queue' = queue \/ queue' = Delivered("groups")
    BY <1>8 DEF SettingsHook
  <2>4. Delivered("groups")[n][t] >= queue[n][t]
    BY DeliveredGrows DEF Tables
  <2>5. queue[n][t] > 0 => queue'[n][t] > 0
    <3>1. queue[n][t] \in Int /\ queue'[n][t] \in Int
      BY DEF TypeOK
    <3> QED  BY <2>3, <2>4, <3>1
  <2>6. UNCHANGED <<db, pending, stopping>> /\ missed \subseteq missed'
    BY SyncerFrame
  <2> QED  BY <2>1, <2>2, <2>5, <2>6 DEF Announced, Serving
<1>9. CASE t = "groups" /\ InitializeGroups(n)
  <2>1. phase'[n][t] = "load"
    BY <1>9 DEF InitializeGroups, Goto, TypeOK
  <2> QED  BY <2>1 DEF Announced
<1>10. CASE t = "groups" /\ LoadEffective(n)
  <2>1. phase[n][t] = "effective" /\ phase'[n][t] = "set"
    BY <1>10 DEF LoadEffective, Goto, TypeOK
  <2>2. got'[n][t].table = got[n][t].table
    BY <1>10 DEF LoadEffective, TypeOK, Reading
  <2>3. Held(n, t)' = Held(n, t)
    BY <2>1, <2>2 DEF Held
  <2> QED  BY <1>10, <2>1, <2>3 DEF LoadEffective, Announced, Serving
<1>11. CASE t = "groups" /\ GroupsHook(n)
  <2>1. phase[n][t] = "hook" /\ phase'[n][t] \in {"listen", "subscribe"}
    BY <1>11 DEF GroupsHook, AfterHook, Goto, TypeOK
  <2>2. cache'[n][t] = cache[n][t]
    BY <1>11 DEF GroupsHook, TypeOK, Cached
  <2>3. Held(n, t)' = Held(n, t)
    BY <2>1, <2>2 DEF Held
  <2> QED  BY <1>11, <2>1, <2>3 DEF GroupsHook, Announced, Serving
<1> QED  BY <1>1, <1>2, <1>3, <1>4, <1>5, <1>6, <1>7, <1>8, <1>9, <1>10, <1>11
         DEF SyncerAction

LEMMA AnnouncedStep ==
  TypeOK /\ TypeOK' /\ AllAnnounced /\ [Next]_vars => AllAnnounced'
<1> SUFFICES ASSUME TypeOK, TypeOK', AllAnnounced, [Next]_vars,
                    NEW m \in Nodes, NEW u \in Tables
             PROVE  Announced(m, u)'
  BY DEF AllAnnounced
<1>0. Announced(m, u) /\ pending[u] \in Nat /\ queue[m][u] \in Nat
  BY DEF AllAnnounced, TypeOK
<1>1. ASSUME NEW t \in Tables, Write(t) PROVE Announced(m, u)'
  <2>1. Held(m, u)' = Held(m, u)
    BY <1>1 DEF Write, node, Held
  <2>2. CASE u = t
    <3>1. pending'[u] > 0
      BY <1>0, <1>1, <2>2 DEF Write, TypeOK
    <3> QED  BY <3>1 DEF Announced
  <2>3. CASE u # t
    <3>1. db'[u] = db[u] /\ pending'[u] = pending[u]
      BY <1>1, <2>3 DEF Write, TypeOK
    <3> QED  BY <1>0, <1>1, <2>1, <3>1 DEF Write, node, Announced, Serving
  <2> QED  BY <2>2, <2>3
<1>2. ASSUME NEW t \in Tables, Publish(t) PROVE Announced(m, u)'
  <2>1. /\ Delivered(t)[m][u] >= queue[m][u]
        /\ Subscribed(m, t) => Delivered(t)[m][t] > 0
        /\ ~Subscribed(m, t) => <<m, t>> \in Missing(t)
    BY DeliveredGrows
  <2>2. queue' = Delivered(t) /\ missed' = missed \cup Missing(t) /\ db' = db
        /\ stopping' = stopping
    BY <1>2 DEF Publish
  <2>3. CASE u = t
    BY <2>1, <2>2, <2>3 DEF Announced, Serving
  <2>4. CASE u # t
    <3>1. pending'[u] = pending[u] /\ Held(m, u)' = Held(m, u)
      BY <1>2, <2>4 DEF Publish, TypeOK, Held
    <3>2. queue'[m][u] \in Int /\ queue'[m][u] >= queue[m][u]
      <4>1. queue' \in [Nodes -> [Tables -> 0 .. Buffer]]
        BY DEF TypeOK
      <4> QED  BY <2>1, <2>2, <4>1, ConfigSyncAssumption
    <3> QED  BY <1>0, <1>2, <2>2, <3>1, <3>2 DEF Publish, Announced, Serving
  <2> QED  BY <2>3, <2>4
<1>3. ASSUME NEW t \in Tables, PublishFails(t) PROVE Announced(m, u)'
  <2>1. <<m, t>> \in missed' /\ missed \subseteq missed'
    BY <1>3 DEF PublishFails
  <2>2. CASE u = t
    BY <2>1, <2>2 DEF Announced, Serving
  <2>3. CASE u # t
    <3>1. pending'[u] = pending[u] /\ Held(m, u)' = Held(m, u)
      BY <1>3, <2>3 DEF PublishFails, node, TypeOK, Held
    <3> QED  BY <1>0, <1>3, <2>1, <3>1 DEF PublishFails, node, Announced, Serving
  <2> QED  BY <2>2, <2>3
<1>4. ASSUME NEW n \in Nodes, Stop(n) PROVE Announced(m, u)'
  BY <1>0, <1>4, AnnouncedKept DEF Stop, TypeOK
<1>5. ASSUME NEW n \in Nodes, NEW t \in Tables, SyncerAction(n, t)
      PROVE Announced(m, u)'
  <2>1. CASE m = n /\ u = t
    BY <1>0, <1>5, <2>1, AnnouncedSyncer
  <2>2. CASE m # n \/ u # t
    <3>1. UNCHANGED <<db, pending, stopping>> /\ missed \subseteq missed'
      BY <1>5, SyncerFrame
    <3>2. /\ phase'[m][u] = phase[m][u] /\ got'[m][u] = got[m][u]
          /\ cache'[m][u] = cache[m][u] /\ queue'[m][u] >= queue[m][u]
      BY <1>5, <2>2, OthersAlone
    <3> QED  BY <1>0, <3>1, <3>2, AnnouncedKept
  <2> QED  BY <2>1, <2>2
<1>6. CASE UNCHANGED vars
  <2>1. Held(m, u)' = Held(m, u)
    BY <1>6 DEF vars, node, Held
  <2> QED  BY <1>0, <1>6, <2>1 DEF vars, node, Announced, Serving
<1> QED  BY <1>1, <1>2, <1>3, <1>4, <1>5, <1>6, NextCases

(***************************************************************************)
(* What the master's groups were computed from stays announced.            *)
(***************************************************************************)
\* A step that leaves the groups of the master alone and neither brings its
\* settings to rest nor changes them.
LEMMA MasterKept ==
  ASSUME TypeOK, TypeOK', MasterKnows, SettingsAtRest' => SettingsAtRest,
         db'["settings"] = db["settings"],
         phase'[Master]["groups"] = phase[Master]["groups"],
         got'[Master]["groups"] = got[Master]["groups"],
         cache'[Master]["effective"] = cache[Master]["effective"],
         queue'[Master]["groups"] >= queue[Master]["groups"]
  PROVE  MasterKnows'
<1>1. "groups" \in Tables /\ Master \in Nodes
  BY ConfigSyncAssumption DEF Tables
<1>2. queue[Master]["groups"] \in Int /\ queue'[Master]["groups"] \in Int
  BY <1>1 DEF TypeOK
<1>3. HeldEffective' = HeldEffective
  BY DEF HeldEffective
<1> QED  BY <1>2, <1>3 DEF MasterKnows

LEMMA RestBefore ==
  ASSUME TypeOK, TypeOK', SettingsAtRest',
         phase'[Master]["settings"] = phase[Master]["settings"],
         pending' = pending, stopping \subseteq stopping', missed \subseteq missed',
         queue'[Master]["settings"] >= queue[Master]["settings"]
  PROVE  SettingsAtRest
<1>1. "settings" \in Tables /\ Master \in Nodes
  BY ConfigSyncAssumption DEF Tables
<1>2. queue[Master]["settings"] \in Nat /\ queue'[Master]["settings"] \in Nat
  BY <1>1 DEF TypeOK
<1> QED  BY <1>2 DEF SettingsAtRest, Serving

LEMMA MasterSyncer ==
  ASSUME TypeOK, TypeOK', EndsAreKnown, AllAnnounced, MasterKnows,
         NEW t \in Tables, SyncerAction(Master, t)
  PROVE  MasterKnows'
<1> DEFINE M == Master
<1>0. M \in Nodes /\ "groups" \in Tables /\ "settings" \in Tables
  BY ConfigSyncAssumption DEF Tables
<1>1. UNCHANGED <<db, pending, stopping>> /\ missed \subseteq missed'
  BY <1>0, SyncerFrame
<1>2. ASSUME t = "groups"
      PROVE  SettingsAtRest' => SettingsAtRest
  BY <1>0, <1>1, <1>2, OthersAlone, RestBefore
<1>3. ASSUME t = "settings", SettingsAtRest' => SettingsAtRest,
             cache'[M]["effective"] = cache[M]["effective"]
      PROVE  MasterKnows'
  BY <1>0, <1>1, <1>3, OthersAlone, MasterKept
<1>4. CASE t = "settings"
  <2>1. ASSUME cache' = cache PROVE cache'[M]["effective"] = cache[M]["effective"]
    BY <2>1
  <2>2. CASE Load(M, t)
    <3>1. phase'[M]["settings"] = "set"
      BY <1>0, <1>4, <2>2 DEF Load, Goto, TypeOK
    <3> QED  BY <3>1 DEF MasterKnows, SettingsAtRest
  <2>3. CASE SetCache(M, t)
    <3>1. phase'[M]["settings"] = "hook"
      BY <1>0, <1>4, <2>3 DEF SetCache, Goto, TypeOK
    <3> QED  BY <3>1 DEF MasterKnows, SettingsAtRest
  <2>4. CASE Subscribe(M, t)
    <3>1. phase[M]["settings"] = "subscribe"
      BY <1>4, <2>4 DEF Subscribe
    <3>2. SettingsAtRest' => SettingsAtRest
      BY <2>4, <3>1 DEF Subscribe, SettingsAtRest, Serving
    <3> QED  BY <1>3, <1>4, <2>4, <3>2 DEF Subscribe
  <2>5. CASE Receive(M, t)
    <3>1. phase'[M]["settings"] = "load"
      BY <1>0, <1>4, <2>5 DEF Receive, Goto, TypeOK
    <3> QED  BY <3>1 DEF MasterKnows, SettingsAtRest
  <2>6. CASE StopListening(M, t)
    <3>1. phase'[M]["settings"] = "stopped"
      BY <1>0, <1>4, <2>6 DEF StopListening, Goto, TypeOK
    <3> QED  BY <3>1 DEF MasterKnows, SettingsAtRest
  <2>7. CASE LoadFails(M, t)
    <3>1. <<M, "settings">> \in missed'
      BY <1>4, <2>7 DEF LoadFails
    <3> QED  BY <1>0, <3>1 DEF MasterKnows, SettingsAtRest, Serving
  <2>8. CASE ChannelCloses(M, t)
    <3>1. CASE queue[M]["settings"] > 0
      <4>1. <<M, "settings">> \in missed'
        BY <1>4, <2>8, <3>1 DEF ChannelCloses
      <4> QED  BY <1>0, <4>1 DEF MasterKnows, SettingsAtRest, Serving
    <3>2. CASE ~(queue[M]["settings"] > 0)
      <4>1. queue[M]["settings"] = 0
        BY <1>0, <3>2 DEF TypeOK
      <4>2. SettingsAtRest' => SettingsAtRest
        BY <1>1, <1>4, <2>8, <4>1 DEF ChannelCloses, SettingsAtRest, Serving
      <4> QED  BY <1>3, <1>4, <2>8, <4>2 DEF ChannelCloses
    <3> QED  BY <3>1, <3>2
  <2>9. CASE SettingsHook(M)
    <3>1. SUFFICES ASSUME SettingsAtRest' PROVE MasterKnows'
      BY DEF MasterKnows
    <3>2. <<M, "groups">> \notin missed'
      BY <1>0, <3>1 DEF SettingsAtRest, Serving
    <3>3. phase'[M]["groups"] = phase[M]["groups"]
      BY <1>0, <1>4, OthersAlone
    <3>4. CASE "groups" \in started[M]
      <4>1. queue' = Delivered("groups") /\ missed' = missed \cup Missing("groups")
        BY <2>9, <3>4 DEF SettingsHook
      <4>2. Delivered("groups")[M]["groups"] > 0
        BY <1>0, <3>2, <4>1, DeliveredGrows
      <4> QED  BY <4>1, <4>2 DEF MasterKnows
    <3>5. CASE "groups" \notin started[M]
      <4>1. phase[M]["groups"] = "new"
        BY <2>9, <3>2, <3>5 DEF SettingsHook
      <4> QED  BY <3>3, <4>1 DEF MasterKnows
    <3> QED  BY <3>4, <3>5
  <2> QED  BY <1>4, <2>2, <2>3, <2>4, <2>5, <2>6, <2>7, <2>8, <2>9 DEF SyncerAction
<1>5. CASE t = "groups"
  <2>0. SettingsAtRest' => SettingsAtRest
    BY <1>2, <1>5
  <2>1. CASE Load(M, t)
    <3>1. phase'[M]["groups"] = "effective"
      BY <1>0, <1>5, <2>1 DEF Load, Goto, TypeOK
    <3> QED  BY <3>1 DEF MasterKnows
  <2>2. CASE SetCache(M, t)
    <3>1. phase[M]["groups"] = "set" /\ phase'[M]["groups"] = "hook"
      BY <1>0, <1>5, <2>2 DEF SetCache, Goto, TypeOK
    <3>2. cache'[M]["effective"] = got[M]["groups"].effective
      BY <1>0, <1>5, <2>2 DEF SetCache, TypeOK, Cached, Tables
    <3>3. HeldEffective' = HeldEffective
      BY <3>1, <3>2 DEF HeldEffective
    <3> QED  BY <2>0, <2>2, <3>1, <3>3 DEF SetCache, MasterKnows
  <2>3. CASE Subscribe(M, t)
    <3>1. phase[M]["groups"] = "subscribe" /\ phase'[M]["groups"] = "listen"
      BY <1>0, <1>5, <2>3 DEF Subscribe, Goto, TypeOK
    <3>2. HeldEffective' = HeldEffective
      BY <2>3, <3>1 DEF HeldEffective, Subscribe
    <3> QED  BY <2>0, <2>3, <3>1, <3>2 DEF Subscribe, MasterKnows
  <2>4. CASE Receive(M, t)
    <3>1. phase'[M]["groups"] = "load"
      BY <1>0, <1>5, <2>4 DEF Receive, Goto, TypeOK
    <3> QED  BY <3>1 DEF MasterKnows
  <2>5. CASE StopListening(M, t)
    BY <1>0, <2>5 DEF StopListening, MasterKnows, SettingsAtRest, Serving
  <2>6. CASE LoadFails(M, t)
    <3>1. <<M, "groups">> \in missed'
      BY <1>5, <2>6 DEF LoadFails
    <3> QED  BY <1>0, <3>1 DEF MasterKnows, SettingsAtRest, Serving
  <2>7. CASE ChannelCloses(M, t)
    <3>1. CASE queue[M]["groups"] > 0
      <4>1. <<M, "groups">> \in missed'
        BY <1>5, <2>7, <3>1 DEF ChannelCloses
      <4> QED  BY <1>0, <4>1 DEF MasterKnows, SettingsAtRest, Serving
    <3>2. CASE ~(queue[M]["groups"] > 0)
      <4>1. phase[M]["groups"] = "listen" /\ phase'[M]["groups"] = "subscribe"
        BY <1>0, <1>5, <2>7 DEF ChannelCloses, Goto, TypeOK
      <4>2. HeldEffective' = HeldEffective
        BY <2>7, <4>1 DEF HeldEffective, ChannelCloses
      <4> QED  BY <2>0, <2>7, <3>2, <4>1, <4>2 DEF ChannelCloses, MasterKnows
    <3> QED  BY <3>1, <3>2
  <2>8. CASE InitializeGroups(M)
    <3>1. phase'[M]["groups"] = "load"
      BY <1>0, <2>8 DEF InitializeGroups, Goto, TypeOK
    <3> QED  BY <3>1 DEF MasterKnows
  <2>9. CASE LoadEffective(M)
    <3>1. phase'[M]["groups"] = "set" /\ got'[M]["groups"].effective = cache[M]["settings"]
      BY <1>0, <2>9 DEF LoadEffective, Goto, TypeOK, Reading
    <3>2. SUFFICES ASSUME SettingsAtRest' PROVE MasterKnows'
      BY DEF MasterKnows
    <3>3. Announced(M, "settings") /\ SettingsAtRest
      BY <1>0, <2>0, <3>2 DEF AllAnnounced
    <3>4. cache[M]["settings"] = db["settings"]
      BY <1>0, <3>3 DEF Announced, SettingsAtRest, Held
    <3> QED  BY <1>1, <3>1, <3>4 DEF MasterKnows, HeldEffective
  <2>10. CASE GroupsHook(M)
    <3>1. phase[M]["groups"] = "hook" /\ phase'[M]["groups"] \in {"listen", "subscribe"}
      BY <1>0, <2>10 DEF GroupsHook, AfterHook, Goto, TypeOK
    <3>2. cache'[M]["effective"] = cache[M]["effective"]
      BY <1>0, <2>10 DEF GroupsHook, TypeOK, Cached
    <3>3. HeldEffective' = HeldEffective
      BY <3>1, <3>2 DEF HeldEffective
    <3> QED  BY <2>0, <2>10, <3>1, <3>3 DEF GroupsHook, MasterKnows
  <2> QED  BY <1>5, <2>1, <2>2, <2>3, <2>4, <2>5, <2>6, <2>7, <2>8, <2>9, <2>10
           DEF SyncerAction
<1> QED  BY <1>4, <1>5 DEF Tables

LEMMA MasterStep ==
  TypeOK /\ TypeOK' /\ EndsAreKnown /\ AllAnnounced /\ MasterKnows /\ [Next]_vars
    => MasterKnows'
<1> SUFFICES ASSUME TypeOK, TypeOK', EndsAreKnown, AllAnnounced, MasterKnows, [Next]_vars
             PROVE  MasterKnows'
  OBVIOUS
<1> DEFINE M == Master
<1>0. M \in Nodes /\ "groups" \in Tables /\ "settings" \in Tables
  BY ConfigSyncAssumption DEF Tables
<1>00. pending["settings"] \in Nat /\ queue[M]["groups"] \in Nat
  BY <1>0 DEF TypeOK
<1>1. ASSUME NEW t \in Tables, Write(t) PROVE MasterKnows'
  <2>1. CASE t = "settings"
    <3>1. pending'["settings"] > 0
      BY <1>0, <1>00, <1>1, <2>1 DEF Write, TypeOK
    <3> QED  BY <3>1 DEF MasterKnows, SettingsAtRest
  <2>2. CASE t = "groups"
    <3>1. db'["settings"] = db["settings"] /\ pending'["settings"] = pending["settings"]
      BY <1>1, <2>2 DEF Write, TypeOK
    <3>2. HeldEffective' = HeldEffective
      BY <1>1 DEF Write, node, HeldEffective
    <3> QED  BY <1>1, <3>1, <3>2 DEF Write, node, MasterKnows, SettingsAtRest, Serving
  <2> QED  BY <2>1, <2>2 DEF Tables
<1>2. ASSUME NEW t \in Tables, Publish(t) PROVE MasterKnows'
  <2>1. queue' = Delivered(t) /\ missed' = missed \cup Missing(t) /\ db' = db
        /\ stopping' = stopping /\ phase' = phase /\ HeldEffective' = HeldEffective
    BY <1>2 DEF Publish, HeldEffective
  <2>2. CASE t = "settings"
    <3>1. ~SettingsAtRest'
      <4>1. /\ Subscribed(M, t) => Delivered(t)[M][t] > 0
            /\ ~Subscribed(M, t) => <<M, t>> \in Missing(t)
        BY <1>0, DeliveredGrows
      <4> QED  BY <1>0, <2>1, <2>2, <4>1 DEF SettingsAtRest, Serving
    <3> QED  BY <3>1 DEF MasterKnows
  <2>3. CASE t = "groups"
    <3>1. pending'["settings"] = pending["settings"]
      BY <1>2, <2>3 DEF Publish, TypeOK
    <3>2. /\ queue'[M]["settings"] >= queue[M]["settings"]
          /\ queue'[M]["groups"] >= queue[M]["groups"]
      BY <1>0, <2>1, DeliveredGrows
    <3>3. /\ queue[M]["settings"] \in Nat /\ queue'[M]["settings"] \in Nat
          /\ queue'[M]["groups"] \in Nat
      BY <1>0 DEF TypeOK
    <3>4. SettingsAtRest' => SettingsAtRest
      BY <2>1, <3>1, <3>2, <3>3 DEF SettingsAtRest, Serving
    <3> QED  BY <1>00, <2>1, <3>2, <3>3, <3>4 DEF MasterKnows
  <2> QED  BY <2>2, <2>3 DEF Tables
<1>3. ASSUME NEW t \in Tables, PublishFails(t) PROVE MasterKnows'
  <2>1. <<M, t>> \in missed'
    BY <1>0, <1>3 DEF PublishFails
  <2> QED  BY <2>1 DEF MasterKnows, SettingsAtRest, Serving
<1>4. ASSUME NEW n \in Nodes, Stop(n) PROVE MasterKnows'
  BY <1>4 DEF Stop, MasterKnows, SettingsAtRest, Serving, HeldEffective
<1>5. ASSUME NEW n \in Nodes, NEW t \in Tables, SyncerAction(n, t) PROVE MasterKnows'
  <2>1. CASE n = M
    BY <1>5, <2>1, MasterSyncer
  <2>2. CASE n # M
    <3>1. UNCHANGED <<db, pending, stopping>> /\ missed \subseteq missed'
      BY <1>5, SyncerFrame
    <3>2. ASSUME NEW u \in Tables
          PROVE  /\ phase'[M][u] = phase[M][u] /\ got'[M][u] = got[M][u]
                 /\ queue'[M][u] >= queue[M][u]
      BY <1>0, <1>5, <2>2, OthersAlone
    <3>3. cache'[M] = cache[M]
      BY <1>0, <1>5, <2>2
         DEF SyncerAction, Load, SetCache, Subscribe, Receive, StopListening, LoadFails,
             ChannelCloses, SettingsHook, InitializeGroups, LoadEffective, GroupsHook, TypeOK
    <3>4. SettingsAtRest' => SettingsAtRest
      BY <1>0, <3>1, <3>2, RestBefore
    <3> QED  BY <1>0, <3>1, <3>2, <3>3, <3>4, MasterKept
  <2> QED  BY <2>1, <2>2
<1>6. CASE UNCHANGED vars
  BY <1>6 DEF vars, node, MasterKnows, SettingsAtRest, Serving, HeldEffective
<1> QED  BY <1>1, <1>2, <1>3, <1>4, <1>5, <1>6, NextCases

(***************************************************************************)
(* The invariant, and what follows from it.                                *)
(***************************************************************************)
LEMMA Inductive == Spec => []IInv
<1>1. Init => IInv
  <2> SUFFICES ASSUME Init PROVE IInv
    OBVIOUS
  <2>1. TypeOK
    BY TypeInit
  <2>2. \A n \in Nodes, t \in Tables : phase[n][t] \in {"load", "new"}
    BY DEF Init
  <2>3. EndsAreKnown /\ AllAnnounced
    BY <2>2 DEF EndsAreKnown, AllAnnounced, Announced
  <2>4. MasterKnows
    BY <2>2, ConfigSyncAssumption DEF MasterKnows, Tables
  <2> QED  BY <2>1, <2>3, <2>4 DEF IInv
<1>2. IInv /\ [Next]_vars => IInv'
  BY TypeStep, EndsStep, AnnouncedStep, MasterStep DEF IInv
<1> QED  BY <1>1, <1>2, PTL DEF Spec

\* The caches, the subscriptions and the syncers keep their types; no
\* subscription holds more messages than fit.
THEOREM TypesHold == Spec => []TypeOK
<1>1. IInv => TypeOK
  BY DEF IInv
<1> QED  BY <1>1, Inductive, PTL

\* On every node, for any number of writes and whatever fails, a table that
\* is out of date has a reload ahead of it.
THEOREM StaleTablesAreKnown == Spec => []StaleIsKnown
<1>1. IInv => StaleIsKnown
  BY DEF IInv, AllAnnounced, Announced, StaleIsKnown, Subscribed, Reloading
<1> QED  BY <1>1, Inductive, PTL

\* The effective configuration of the groups on the master has a reload of
\* the settings or of the groups ahead of it while it is out of date.
THEOREM MasterEffectiveKnown == Spec => []MasterEffectiveIsKnown
<1>1. ASSUME IInv PROVE MasterEffectiveIsKnown
  <2>1. "groups" \in Tables /\ "settings" \in Tables /\ Master \in Nodes
    BY ConfigSyncAssumption DEF Tables
  <2>2. pending["settings"] \in Nat /\ queue[Master]["settings"] \in Nat
    BY <1>1, <2>1 DEF IInv, TypeOK
  <2>3. SUFFICES ASSUME \A t \in Tables : Serving(Master, t) /\ Subscribed(Master, t),
                        ~(pending["settings"] > 0), ~(queue[Master]["settings"] > 0),
                        phase[Master]["settings"] \notin Reloading,
                        phase[Master]["groups"] \notin {"load", "effective"},
                        ~(queue[Master]["groups"] > 0)
                 PROVE  \/ cache[Master]["effective"] = db["settings"]
                        \/ /\ phase[Master]["groups"] = "set"
                           /\ got[Master]["groups"].effective = db["settings"]
    BY DEF MasterEffectiveIsKnown
  <2>4. SettingsAtRest /\ phase[Master]["groups"] # "new"
    BY <2>1, <2>2, <2>3 DEF SettingsAtRest, Subscribed, Reloading
  <2>5. HeldEffective = db["settings"]
    BY <1>1, <2>3, <2>4 DEF IInv, MasterKnows
  <2> QED  BY <2>5 DEF HeldEffective
<1> QED  BY <1>1, Inductive, PTL
=============================================================================
