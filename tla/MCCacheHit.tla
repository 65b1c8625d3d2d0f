----------------------------- MODULE MCCacheHit -----------------------------
EXTENDS CacheHitProps, TLC

Kind(control, ids, turns) ==
  [on |-> TRUE, claude |-> TRUE, control |-> control, ids |-> ids,
   conv |-> CHOOSE c \in Conversations : TRUE, turns |-> turns]

\* A session whose first id is not valid, the next turn of its conversation
\* without an id, and one that does not ask for the cache.
KindsMC == {Kind(TRUE, <<None, CHOOSE s \in Sessions : TRUE>>, 3),
            Kind(TRUE, <<>>, 5), Kind(FALSE, <<>>, 3)}

\* Of 10: any two of the events, of which one or both may be a failing call; a
\* change of weights comes alone or with a failing call.
EventsMC == [e \in {"entry", "record", "death", "restore", "restart", "sync",
                     "weigh", "reset", "fault"} |->
               IF e \in {"weigh", "reset"} THEN 6 ELSE IF e = "fault" THEN 4 ELSE 5]

Symm == Permutations(Keys) \cup Permutations(Requests) \cup Permutations(Adjusters)
=============================================================================
