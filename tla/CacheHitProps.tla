---------------------------- MODULE CacheHitProps ----------------------------
(***************************************************************************)
(* What is expected of the cache-hit enhancement.                          *)
(***************************************************************************)
EXTENDS CacheHit

\* Every variable has its type, and no weight is below 1.
CacheTypeOK ==
  /\ alive \subseteq Keys
  /\ wt \in [Keys -> Nat \ {0}] /\ base \in [Keys -> Nat \ {0}]
  /\ row \in [Keys -> [w : Nat \ {0}, b : Nat \ {0}]]
  /\ bind \in [Names -> Keys \cup {None}]
  /\ rec \in [Names -> {NoRec} \cup [key : Keys, old : BOOLEAN]]
  /\ \A g \in Adjusters : adj[g].key # None => adj[g].delta \in {-1, 1}
  /\ \A r \in Requests : sched[r].key # None => sched[r].name \in Hashes
  /\ \A r \in Requests : loc[r].key \in Keys \cup {None}
  /\ calm \subseteq Requests /\ drifted \subseteq Keys

\* SetNX is there so that requests of one session that arrive together share
\* one key: two requests that got a key have the same one, unless since one of
\* them arrived the session lost its binding, the bound key was found dead, the
\* SetNX failed, or the binding or key it lost against could not be read.
OneKeyPerSession ==
  \A r, q \in calm :
    /\ ExtractSessionID(loc[r].q) = ExtractSessionID(loc[q].q)
    /\ loc[r].pc = "done" /\ loc[q].pc = "done"
    /\ loc[r].key # None /\ loc[q].key # None
    => loc[r].key = loc[q].key

Held(k) == Cardinality({c \in Names : rec[c].key = k})

\* A weight is its base less one for each binding on record, whenever no change
\* of it is half done.  This is so until a step that falsifies the account and
\* that the code does not correct:
\*   a lost update, a weight cut off at 1 or at its base;
\*   an adjustment whose HGetAll or HSet fails, a late deletion whose Delete
\*   fails, an HSet of an administrator that fails;
\*   a record written over another or removed in place of another;
\*   an administrator's update while an adjustment is under way;
\*   a hash rewritten from a row whose weight is another, by a restart too;
\* and again after an administrator's update while nothing is under way.  The
\* losses themselves are thus exempt: what is claimed is that nothing else
\* takes from a weight or gives to it.
WeightIsAccounted ==
  \A k \in Keys \ drifted :
    Quiet(k) /\ adm.cur # k => wt[k] = base[k] - Held(k)
=============================================================================
