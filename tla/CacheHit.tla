------------------------------ MODULE CacheHit ------------------------------
(***************************************************************************)
(* Cache-hit enhancement: a conversation stays with one key, so that the   *)
(* upstream's prompt cache is hit.  The store binds a session id, or the   *)
(* hash of a conversation's head, to a key for a while; a binding takes 1  *)
(* from the weight of its key, so that new conversations go elsewhere.     *)
(*                                                                         *)
(* Nobody holds a lock over a binding and its weight.  A record per        *)
(* binding, in the memory of the process, tells the cleaner what to give   *)
(* back; each change of a weight is a goroutine of its own, which reads    *)
(* the hash and writes it in two store calls.                              *)
(*                                                                         *)
(* A call to the store may fail.  It then returns an error, which most     *)
(* callers ignore, and has been carried out, as if it had not failed, or   *)
(* has not.                                                                *)
(*                                                                         *)
(* A hash is named by the conversation and the number of its messages:     *)
(* SHA-256 of the messages without their cache_control.                    *)
(***************************************************************************)
EXTENDS Integers, Sequences, FiniteSets, FiniteSetsExt

CONSTANTS
  Keys, Requests, Sessions, None,
  Conversations,  (* conversations, each with its messages                 *)
  Turns,          (* numbers of messages a request may carry               *)
  Kinds,          (* the requests that may arrive                          *)
  Base,           (* base_weight of every key at the start                 *)
  Weights,        (* weights an administrator may set                      *)
  Adjusters,      (* bound: as many weight changes are under way at a time *)
  MaxEvents,      (* bound: what may happen beside the requests            *)
  Events          (* event -> what it takes from the bound                 *)

Hashes == Conversations \X Turns
Names  == Sessions \cup Hashes

ASSUME CacheHitAssumption ==
  /\ None \notin Keys \cup Names
  /\ Sessions \cap Hashes = {}
  /\ Base \in Nat \ {0} /\ Weights \subseteq Nat \ {0}
  /\ Turns \subseteq Nat \ {0}
  /\ Kinds \subseteq [on : BOOLEAN, claude : BOOLEAN, control : BOOLEAN,
                     ids : Seq(Sessions \cup {None}), conv : Conversations,
                     turns : Nat]
  /\ \A q \in Kinds, d \in {2, 4, 6} : q.turns > d => q.turns - d \in Turns
  /\ MaxEvents \in Nat
  /\ Events \in [{"entry", "record", "death", "restore", "restart", "sync",
                  "weigh", "reset", "fault"} -> Nat \ {0}]

VARIABLES
  alive,    (* keys whose status is active                                 *)
  wt, base, (* weight and base_weight in the key's hash                    *)
  row,      (* weight and base_weight in the key's row                     *)
  bind,     (* store: the key a name is bound to, or None                  *)
  rec,      (* cacheHitRecords                                             *)
  adj,      (* AdjustKeyWeightAsync goroutines                             *)
  sched,    (* scheduleHashDeletion goroutines, by the request they are of *)
  clean,    (* cleanupExpiredCacheHitEntries under way                     *)
  sync,     (* syncWeightsToDatabase under way                             *)
  adm,      (* an administrator's change of weights under way              *)
  loc,      (* requests                                                    *)
  calm,     (* ghost: requests since whose arrival their session kept its  *)
            (* binding                                                     *)
  drifted,  (* ghost: keys whose account an unlucky step has falsified     *)
  events    (* bound                                                       *)

store  == <<alive, wt, base, bind>>
workers == <<clean, sync, adm>>
cacheVars == <<alive, wt, base, row, bind, rec, adj, sched, clean, sync, adm, loc,
               calm, drifted, events>>

\* Something happens that is counted against the bound.
Happens(e) == /\ events + Events[e] <= MaxEvents
              /\ events' = events + Events[e]

NoRec  == [key |-> None, old |-> FALSE]
NoAdj  == [key |-> None, delta |-> 0, w |-> 0, b |-> 0]
NoLate == [name |-> None, key |-> None, deleted |-> FALSE]
NoKind == [on |-> FALSE, claude |-> FALSE, control |-> FALSE, ids |-> <<>>,
           conv |-> None, turns |-> 0]
Free   == [pc |-> "free", q |-> NoKind, d |-> 0, key |-> None, saw |-> None]
NoClean == [todo |-> {}, cur |-> <<>>]
NoSync  == [todo |-> {}, seen |-> [k \in Keys |-> 0], key |-> None, w |-> 0]
NoAdm   == [pc |-> "idle", todo |-> {}, cur |-> None, w |-> 0, based |-> FALSE,
            locked |-> {}]

(***************************************************************************)
(* What a request asks for                                                 *)
(***************************************************************************)
\* The first valid id: two headers, the metadata, two fields of the body.
ExtractSessionID(q) == LET I == {i \in DOMAIN q.ids : q.ids[i] # None}
                       IN  IF I = {} THEN None ELSE q.ids[Min(I)]

\* The hash of all messages but the last d, if any is left.
CalculatePromptHash(q, d) == IF d >= q.turns THEN None ELSE <<q.conv, q.turns - d>>

Route(q) == IF ~q.on \/ (q.claude /\ ~q.control)   THEN "rotate"
            ELSE IF ExtractSessionID(q) # None     THEN "session"
            ELSE IF q.turns > 0                    THEN "hash"
            ELSE "plain"

\* The name a request is looking at: its session, or one of its hashes.
Name(r) == IF loc[r].d = 0 THEN ExtractSessionID(loc[r].q)
                           ELSE CalculatePromptHash(loc[r].q, loc[r].d)
NewHash(r) == CalculatePromptHash(loc[r].q, 2)

\* The next hash to look for, or none is left and a key is selected.
Missed(r) == IF loc[r].d \in {2, 4} THEN [loc[r] EXCEPT !.pc = "get", !.d = @ + 2]
                                    ELSE [loc[r] EXCEPT !.pc = "select"]

Set(r, l)    == loc' = [loc EXCEPT ![r] = l]
Goto(r, pc)  == Set(r, [loc[r] EXCEPT !.pc = pc])
Done(r, k)   == Set(r, [Free EXCEPT !.pc = "done", !.q = loc[r].q, !.key = k])

(***************************************************************************)
(* Weights.  A change waits until one of the Adjusters is free.            *)
(***************************************************************************)
AdjustKeyWeightAsync(k, d) ==
  \E g \in Adjusters :
    /\ adj[g] = NoAdj
    /\ adj' = [adj EXCEPT ![g] = [NoAdj EXCEPT !.key = k, !.delta = d]]

\* Mutation: nothing keeps a weight from 0.
MutNoFloor(w, b) == IF w > b THEN b ELSE w

Clamp(w, b) == IF w < 1 THEN 1 ELSE IF w > b THEN b ELSE w

AdjustRead(g) ==
  LET a == adj[g] IN
  /\ a # NoAdj /\ a.w = 0
  /\ adj' = [adj EXCEPT ![g].w = wt[a.key], ![g].b = base[a.key]]
  /\ UNCHANGED <<store, row, rec, sched, workers, loc, calm, drifted, events>>

\* HGetAll fails, or HSet does: the change of the weight is lost.
AdjustFails(g) ==
  LET a == adj[g] IN
  /\ Happens("fault")
  /\ a # NoAdj
  /\ adj' = [adj EXCEPT ![g] = NoAdj]
  /\ drifted' = drifted \cup {a.key}
  /\ UNCHANGED <<store, row, rec, sched, workers, loc, calm>>

\* The account is falsified by a lost update and by what is cut off.
AdjustWrite(g) ==
  LET a == adj[g]  w == Clamp(a.w + a.delta, a.b) IN
  /\ a.w > 0
  /\ wt' = [wt EXCEPT ![a.key] = w]
  /\ adj' = [adj EXCEPT ![g] = NoAdj]
  /\ drifted' = IF <<a.w, a.b, w>> = <<wt[a.key], base[a.key], a.w + a.delta>>
                  THEN drifted ELSE drifted \cup {a.key}
  /\ UNCHANGED <<alive, base, row, bind, rec, sched, workers, loc, calm, events>>

(***************************************************************************)
(* Records.  Writing one over another loses what the other would have      *)
(* given back; removing one by name that is not the one whose weight is    *)
(* given back falsifies two accounts.                                      *)
(***************************************************************************)
\* Mutation: a record is written, its weight is not taken.
MutFreeOfCharge(c, k) ==
  /\ rec' = [rec EXCEPT ![c] = [key |-> k, old |-> FALSE]]
  /\ drifted' = drifted \cup ({rec[c].key} \ {None})
  /\ UNCHANGED adj

Record(c, k) ==
  /\ rec' = [rec EXCEPT ![c] = [key |-> k, old |-> FALSE]]
  /\ AdjustKeyWeightAsync(k, -1)
  /\ drifted' = drifted \cup ({rec[c].key} \ {None})

Unrecord(c, k) ==
  /\ rec' = [rec EXCEPT ![c] = NoRec]
  /\ drifted' = IF rec[c].key = k THEN drifted
                ELSE drifted \cup ({k, rec[c].key} \ {None})

\* The session of c loses its binding.
Unsettled(c) == calm \ {r \in Requests : /\ Route(loc[r].q) = "session"
                                         /\ ExtractSessionID(loc[r].q) = c}
Delete(c) ==
  /\ bind' = [bind EXCEPT ![c] = None]
  /\ calm' = IF bind[c] = None THEN calm ELSE Unsettled(c)

(***************************************************************************)
(* A request                                                               *)
(***************************************************************************)
Arrive(r, q) ==
  LET way == Route(q) IN
  /\ loc[r].pc = "free"
  /\ Set(r, [pc  |-> IF way \in {"session", "hash"} THEN "get" ELSE "select",
             q   |-> q, d |-> IF way = "hash" THEN 2 ELSE 0, key |-> None,
             saw |-> None])
  /\ calm' = IF way = "session" THEN calm \cup {r} ELSE calm
  /\ UNCHANGED <<store, row, rec, adj, sched, workers, drifted, events>>

Get(r) ==
  LET c == Name(r) IN
  /\ loc[r].pc = "get"
  /\ IF c = None \/ bind[c] = None
       THEN Set(r, Missed(r))
       ELSE Set(r, [loc[r] EXCEPT !.pc = "details", !.key = bind[c]])
  /\ UNCHANGED <<store, row, rec, adj, sched, workers, calm, drifted, events>>

\* A dead key is unbound; a session is renewed, an older hash carried on.
Details(r) ==
  /\ loc[r].pc = "details"
  /\ \/ loc[r].key \notin alive /\ Goto(r, "unbind")
     \/ loc[r].key \in alive /\ loc[r].d = 0 /\ Goto(r, "refresh")
     \/ loc[r].key \in alive /\ loc[r].d = 2 /\ Done(r, loc[r].key)
     \/ /\ loc[r].key \in alive /\ loc[r].d > 2
        /\ Set(r, [loc[r] EXCEPT !.pc = "hashbind", !.saw = loc[r].key])
  /\ UNCHANGED <<store, row, rec, adj, sched, workers, calm, drifted, events>>

Refresh(r) ==
  LET c == Name(r) IN
  /\ loc[r].pc = "refresh"
  /\ bind' = [bind EXCEPT ![c] = loc[r].key]
  /\ calm' = IF bind[c] = loc[r].key THEN calm ELSE Unsettled(c)
  /\ Goto(r, "touch")
  /\ UNCHANGED <<alive, wt, base, row, rec, adj, sched, workers, drifted, events>>

Touch(r) ==
  /\ loc[r].pc = "touch"
  /\ rec' = [rec EXCEPT ![Name(r)].old = FALSE]
  /\ Done(r, loc[r].key)
  /\ UNCHANGED <<store, row, adj, sched, workers, calm, drifted, events>>

Unbind(r) ==
  /\ loc[r].pc = "unbind"
  /\ Delete(Name(r))
  /\ Goto(r, "unrecord")
  /\ UNCHANGED <<alive, wt, base, row, rec, adj, sched, workers, drifted, events>>

GiveBack(r) ==
  /\ loc[r].pc = "unrecord"
  /\ Unrecord(Name(r), loc[r].key)
  /\ AdjustKeyWeightAsync(loc[r].key, 1)
  /\ Set(r, Missed(r))
  /\ UNCHANGED <<store, row, sched, workers, calm, events>>

\* By weight or in rotation, any active key may be next.
SelectKey(r) ==
  /\ loc[r].pc = "select"
  /\ \/ /\ alive = {}
        /\ Done(r, None)
     \/ \E k \in alive :
          CASE Route(loc[r].q) \in {"rotate", "plain"} -> Done(r, k)
            [] Route(loc[r].q) = "session" ->
                 Set(r, [loc[r] EXCEPT !.pc = "setnx", !.key = k])
            [] OTHER -> IF NewHash(r) = None THEN Done(r, k)
                        ELSE Set(r, [loc[r] EXCEPT !.pc = "hashbind", !.key = k])
  /\ UNCHANGED <<store, row, rec, adj, sched, workers, calm, drifted, events>>

\* Mutation: the binding is written whether there is one or not.
MutSetAlways(r, c) == bind' = [bind EXCEPT ![c] = loc[r].key] /\ Goto(r, "record")

Claim(r, c) == IF bind[c] = None
                 THEN bind' = [bind EXCEPT ![c] = loc[r].key] /\ Goto(r, "record")
                 ELSE UNCHANGED bind /\ Goto(r, "other")

SetNX(r) ==
  /\ loc[r].pc = "setnx"
  /\ Claim(r, Name(r))
  /\ UNCHANGED <<alive, wt, base, row, rec, adj, sched, workers, calm, drifted,
                 events>>

\* The key is used all the same, and nothing is recorded.
SetNXFails(r) ==
  LET c == Name(r) IN
  /\ Happens("fault")
  /\ loc[r].pc = "setnx"
  /\ \/ UNCHANGED bind
     \/ bind[c] = None /\ bind' = [bind EXCEPT ![c] = loc[r].key]
  /\ Done(r, loc[r].key)
  /\ calm' = calm \ {r}
  /\ UNCHANGED <<alive, wt, base, row, rec, adj, sched, workers, drifted>>

HashOrDone(r) == IF NewHash(r) = None THEN Done(r, loc[r].key) ELSE Goto(r, "hashbind")

RecordSession(r) ==
  /\ loc[r].pc = "record"
  /\ Record(Name(r), loc[r].key)
  /\ HashOrDone(r)
  /\ UNCHANGED <<store, row, sched, workers, calm, events>>

\* Somebody else bound the session: their key, if it is still there and active.
Other(r) ==
  LET k == bind[Name(r)] IN
  /\ loc[r].pc = "other"
  /\ IF k = None
       THEN HashOrDone(r) /\ calm' = calm \ {r}
       ELSE Set(r, [loc[r] EXCEPT !.pc = "theirs", !.saw = k]) /\ UNCHANGED calm
  /\ UNCHANGED <<store, row, rec, adj, sched, workers, drifted, events>>

Theirs(r) ==
  /\ loc[r].pc = "theirs"
  /\ IF loc[r].saw \in alive
       THEN Done(r, loc[r].saw) /\ UNCHANGED calm
       ELSE HashOrDone(r) /\ calm' = calm \ {r}
  /\ UNCHANGED <<store, row, rec, adj, sched, workers, drifted, events>>

HashBind(r) ==
  /\ loc[r].pc = "hashbind"
  /\ bind' = [bind EXCEPT ![NewHash(r)] = loc[r].key]
  /\ Goto(r, "hashrecord")
  /\ UNCHANGED <<alive, wt, base, row, rec, adj, sched, workers, calm, drifted,
                 events>>

\* An older hash that was hit is left to scheduleHashDeletion.
HashRecord(r) ==
  LET late == [name |-> Name(r), key |-> loc[r].key, deleted |-> FALSE] IN
  /\ loc[r].pc = "hashrecord"
  /\ Record(NewHash(r), loc[r].key)
  /\ sched' = IF loc[r].d > 2 /\ loc[r].saw # None
                THEN [sched EXCEPT ![r] = late] ELSE sched
  /\ Done(r, loc[r].key)
  /\ UNCHANGED <<store, row, workers, calm, events>>

\* The other calls of a request that fail.  What cannot be read is not there,
\* and a key that cannot be read is dead; Set and Delete are ignored.
CallFails(r) ==
  LET pc == loc[r].pc IN
  /\ Happens("fault")
  /\ \/ pc = "get" /\ Set(r, Missed(r))
     \/ pc = "details" /\ Goto(r, "unbind")
     \/ pc = "refresh" /\ Goto(r, "touch")
     \/ pc = "unbind" /\ Goto(r, "unrecord")
     \/ pc = "select" /\ Done(r, None)
     \/ pc \in {"other", "theirs"} /\ HashOrDone(r)
     \/ pc = "hashbind" /\ Goto(r, "hashrecord")
  /\ calm' = IF pc \in {"other", "theirs"} THEN calm \ {r} ELSE calm
  /\ UNCHANGED <<store, row, rec, adj, sched, workers, drifted>>

(***************************************************************************)
(* scheduleHashDeletion, five minutes later                                *)
(***************************************************************************)
LateDelete(r) ==
  LET t == sched[r] IN
  /\ t # NoLate /\ ~t.deleted
  /\ Delete(t.name)
  /\ AdjustKeyWeightAsync(t.key, 1)
  /\ sched' = [sched EXCEPT ![r].deleted = TRUE]
  /\ UNCHANGED <<alive, wt, base, row, rec, workers, loc, drifted, events>>

\* The weight is only given back after a Delete that succeeded; the record is
\* removed in any case.
LateDeleteFails(r) ==
  LET t == sched[r] IN
  /\ Happens("fault")
  /\ t # NoLate /\ ~t.deleted
  /\ Delete(t.name) \/ UNCHANGED <<bind, calm>>
  /\ sched' = [sched EXCEPT ![r].deleted = TRUE]
  /\ drifted' = drifted \cup {t.key}
  /\ UNCHANGED <<alive, wt, base, row, rec, adj, workers, loc>>

LateRemove(r) ==
  LET t == sched[r] IN
  /\ t.deleted
  /\ Unrecord(t.name, t.key)
  /\ sched' = [sched EXCEPT ![r] = NoLate]
  /\ UNCHANGED <<store, row, adj, workers, loc, calm, events>>

(***************************************************************************)
(* The cleaner                                                             *)
(***************************************************************************)
Expired == {c \in Names : rec[c] # NoRec /\ rec[c].old}

Collect ==
  /\ clean = NoClean
  /\ Expired # {}
  /\ clean' = [clean EXCEPT !.todo = {<<c, rec[c].key>> : c \in Expired}]
  /\ UNCHANGED <<store, row, rec, adj, sched, sync, adm, loc, calm, drifted, events>>

\* A Delete that fails leaves the binding, and is ignored.
CleanDelete ==
  /\ clean.cur = <<>>
  /\ \E t \in clean.todo :
       /\ \/ Delete(t[1]) /\ UNCHANGED events
          \/ Happens("fault") /\ UNCHANGED <<bind, calm>>
       /\ AdjustKeyWeightAsync(t[2], 1)
       /\ clean' = [todo |-> clean.todo \ {t}, cur |-> t]
  /\ UNCHANGED <<alive, wt, base, row, rec, sched, sync, adm, loc, drifted>>

CleanRemove ==
  /\ clean.cur # <<>>
  /\ Unrecord(clean.cur[1], clean.cur[2])
  /\ clean' = [clean EXCEPT !.cur = <<>>]
  /\ UNCHANGED <<store, row, adj, sched, sync, adm, loc, calm, events>>

(***************************************************************************)
(* syncWeightsToDatabase.  Its UPDATE waits for a transaction that has     *)
(* written the row.                                                        *)
(***************************************************************************)
SyncFind ==
  /\ Happens("sync")
  /\ sync = NoSync
  /\ sync' = [NoSync EXCEPT !.todo = Keys, !.seen = [k \in Keys |-> row[k].w]]
  /\ UNCHANGED <<store, row, rec, adj, sched, clean, adm, loc, calm, drifted>>

Synced(K) == IF sync.todo = K THEN NoSync
             ELSE [sync EXCEPT !.todo = @ \ K, !.key = None, !.w = 0]

SyncRead ==
  /\ sync.key = None
  /\ \E k \in sync.todo :
       sync' = IF sync.seen[k] # wt[k]
                 THEN [sync EXCEPT !.todo = @ \ {k}, !.key = k, !.w = wt[k]]
                 ELSE Synced({k})
  /\ UNCHANGED <<store, row, rec, adj, sched, clean, adm, loc, calm, drifted, events>>

SyncWrite ==
  /\ sync.key # None
  /\ sync.key \notin adm.locked
  /\ row' = [row EXCEPT ![sync.key].w = sync.w]
  /\ sync' = Synced({})
  /\ UNCHANGED <<store, rec, adj, sched, clean, adm, loc, calm, drifted, events>>

\* A key whose weight cannot be read or written is left to the next sync.
SyncFails ==
  /\ Happens("fault")
  /\ \/ sync.key = None /\ \E k \in sync.todo : sync' = Synced({k})
     \/ sync.key # None /\ sync' = Synced({})
  /\ UNCHANGED <<store, row, rec, adj, sched, clean, adm, loc, calm, drifted>>

(***************************************************************************)
(* UpdateKeyWeight, UpdateKeysWeight, ResetKeysWeight set both weights;    *)
(* ResetSingleKeyWeight sets the weight to the base of the row.  Per key   *)
(* the hash is written, then the bindings are cleared, before the commit.  *)
(***************************************************************************)
Weigh(K, w) ==
  /\ Happens("weigh")
  /\ adm = NoAdm
  /\ adm' = [pc |-> "hset", todo |-> K, cur |-> None, w |-> w, based |-> TRUE,
             locked |-> K]
  /\ UNCHANGED <<store, row, rec, adj, sched, clean, sync, loc, calm, drifted>>

ResetSingleKeyWeight(k) ==
  /\ Happens("reset")
  /\ adm = NoAdm
  /\ adm' = [pc |-> "hset", todo |-> {k}, cur |-> None, w |-> row[k].b,
             based |-> FALSE, locked |-> {k}]
  /\ UNCHANGED <<store, row, rec, adj, sched, clean, sync, loc, calm, drifted>>

WeighHSet ==
  /\ adm.pc = "hset"
  /\ \E k \in adm.todo :
       /\ wt' = [wt EXCEPT ![k] = adm.w]
       /\ base' = IF adm.based THEN [base EXCEPT ![k] = adm.w] ELSE base
       /\ adm' = [adm EXCEPT !.pc = "clear", !.cur = k]
  /\ UNCHANGED <<alive, row, bind, rec, adj, sched, clean, sync, loc, calm, drifted,
                 events>>

\* A failed UPDATE, commit, or write of the hash of the only key is rolled back;
\* a transaction that is tried again is an update of its own.  With more keys a
\* hash that was not written is only logged, and the bindings are cleared.
WeighFails ==
  /\ Happens("fault")
  /\ \/ /\ adm.pc = "commit" \/ (adm.pc = "hset" /\ adm.todo = adm.locked)
        /\ adm' = NoAdm
     \/ /\ adm.pc = "hset" /\ adm.based
        /\ \E k \in adm.todo : adm' = [adm EXCEPT !.pc = "clear", !.cur = k]
  /\ UNCHANGED <<store, row, rec, adj, sched, clean, sync, loc, calm, drifted>>

\* The hash of the only key is written although HSet returns an error: it stays,
\* the row does not, and the bindings are not cleared.
WeighAnyway ==
  /\ Happens("fault")
  /\ adm.pc = "hset"
  /\ \E k \in Keys :
       /\ adm.todo = {k} /\ adm.locked = {k}
       /\ wt' = [wt EXCEPT ![k] = adm.w]
       /\ base' = IF adm.based THEN [base EXCEPT ![k] = adm.w] ELSE base
       /\ drifted' = drifted \cup {k}
  /\ adm' = NoAdm
  /\ UNCHANGED <<alive, row, bind, rec, adj, sched, clean, sync, loc, calm>>

\* No change of the weight of k is half done.
Quiet(k) ==
  /\ \A g \in Adjusters : adj[g].key # k
  /\ \A r \in Requests : sched[r].deleted => sched[r].key # k
  /\ clean.cur # <<>> => clean.cur[2] # k

\* clearCacheHitRecordsForKey holds the mutex, and ignores the bindings D that
\* cannot be deleted; once all is quiet the account of the key is right again.
ClearRecords ==
  LET k == adm.cur
      C == {c \in Names : rec[c].key = k} IN
  /\ adm.pc = "clear"
  /\ rec' = [c \in Names |-> IF c \in C THEN NoRec ELSE rec[c]]
  /\ \E D \in SUBSET C :
       /\ bind' = [c \in Names |-> IF c \in C \ D THEN None ELSE bind[c]]
       /\ calm' = calm \ UNION {calm \ Unsettled(c) : c \in {d \in C \ D : bind[d] # None}}
       /\ IF D = {} THEN UNCHANGED events ELSE Happens("fault")
  /\ drifted' = IF Quiet(k) /\ wt[k] = base[k] THEN drifted \ {k}
                                               ELSE drifted \cup {k}
  /\ adm' = [adm EXCEPT !.todo = @ \ {k}, !.cur = None,
                        !.pc = IF adm.todo = {k} THEN "commit" ELSE "hset"]
  /\ UNCHANGED <<alive, wt, base, row, adj, sched, clean, sync, loc>>

WeighCommit ==
  /\ adm.pc = "commit"
  /\ row' = [k \in Keys |-> IF k \notin adm.locked THEN row[k]
                            ELSE [w |-> adm.w,
                                  b |-> IF adm.based THEN adm.w ELSE row[k].b]]
  /\ adm' = NoAdm
  /\ UNCHANGED <<store, rec, adj, sched, clean, sync, loc, calm, drifted, events>>

(***************************************************************************)
(* What happens meanwhile                                                  *)
(***************************************************************************)

\* The store drops a binding at the end of its time.
EntryExpires(c) ==
  /\ Happens("entry")
  /\ bind[c] # None
  /\ Delete(c)
  /\ UNCHANGED <<alive, wt, base, row, rec, adj, sched, workers, loc, drifted>>

\* The ExpTime of a record has come.
RecordExpires(c) ==
  /\ Happens("record")
  /\ rec[c] # NoRec /\ ~rec[c].old
  /\ rec' = [rec EXCEPT ![c].old = TRUE]
  /\ UNCHANGED <<store, row, adj, sched, workers, loc, calm, drifted>>

Dies(k) ==
  /\ Happens("death")
  /\ k \in alive
  /\ alive' = alive \ {k}
  /\ UNCHANGED <<wt, base, row, bind, rec, adj, sched, workers, loc, calm, drifted>>

\* addKeyToStore writes the hash from the row, whose weight may be minutes old.
Restored(k) ==
  /\ Happens("restore")
  /\ k \notin alive
  /\ alive' = alive \cup {k}
  /\ wt' = [wt EXCEPT ![k] = row[k].w]
  /\ base' = [base EXCEPT ![k] = row[k].b]
  /\ drifted' = IF wt' = wt /\ base' = base THEN drifted ELSE drifted \cup {k}
  /\ UNCHANGED <<row, bind, rec, adj, sched, workers, loc, calm>>

\* A starting master clears the store and loads the keys from their rows: the
\* bindings and records are gone, a reduced weight stays.
Restart ==
  /\ Happens("restart")
  /\ wt' = [k \in Keys |-> row[k].w]
  /\ base' = [k \in Keys |-> row[k].b]
  /\ bind' = [c \in Names |-> None]
  /\ rec' = [c \in Names |-> NoRec]
  /\ adj' = [g \in Adjusters |-> NoAdj] /\ sched' = [r \in Requests |-> NoLate]
  /\ clean' = NoClean /\ sync' = NoSync /\ adm' = NoAdm
  /\ loc' = [r \in Requests |-> Free]
  /\ calm' = {}
  /\ drifted' = {k \in Keys : row[k].w # row[k].b}
  /\ UNCHANGED <<alive, row>>

CacheInit ==
  /\ alive = Keys
  /\ wt = [k \in Keys |-> Base] /\ base = wt
  /\ row = [k \in Keys |-> [w |-> Base, b |-> Base]]
  /\ bind = [c \in Names |-> None]
  /\ rec = [c \in Names |-> NoRec]
  /\ adj = [g \in Adjusters |-> NoAdj] /\ sched = [r \in Requests |-> NoLate]
  /\ clean = NoClean /\ sync = NoSync /\ adm = NoAdm
  /\ loc = [r \in Requests |-> Free]
  /\ calm = {} /\ drifted = {}
  /\ events = 0

RequestStep(r) ==
  \/ Get(r) \/ Details(r) \/ Refresh(r) \/ Touch(r) \/ Unbind(r) \/ GiveBack(r)
  \/ SelectKey(r) \/ SetNX(r) \/ SetNXFails(r) \/ RecordSession(r)
  \/ Other(r) \/ Theirs(r) \/ HashBind(r) \/ HashRecord(r) \/ CallFails(r)
  \/ LateDelete(r) \/ LateDeleteFails(r) \/ LateRemove(r)

Syncer  == SyncRead \/ SyncWrite \/ SyncFails
Adjusts == \E g \in Adjusters : AdjustRead(g) \/ AdjustWrite(g) \/ AdjustFails(g)
Cleaner == Collect \/ CleanDelete \/ CleanRemove
Admin   == WeighHSet \/ WeighFails \/ WeighAnyway \/ ClearRecords \/ WeighCommit

CacheNext ==
  \/ \E r \in Requests : (\E q \in Kinds : Arrive(r, q)) \/ RequestStep(r)
  \/ Adjusts \/ Cleaner \/ SyncFind \/ Syncer \/ Admin
  \/ \E K \in (SUBSET Keys) \ {{}}, w \in Weights : Weigh(K, w)
  \/ \E k \in Keys : ResetSingleKeyWeight(k) \/ Dies(k) \/ Restored(k)
  \/ \E c \in Names : EntryExpires(c) \/ RecordExpires(c)
  \/ Restart

CacheSpec == CacheInit /\ [][CacheNext]_cacheVars
=============================================================================
