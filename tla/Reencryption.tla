----------------------------- MODULE Reencryption -----------------------------
(***************************************************************************)
(* What migrate-keys and the service promise of the keys in the database:  *)
(* all of them are under one encryption key, or none is encrypted, and a   *)
(* migration takes all of them to another one in a single step, whatever   *)
(* fails on the way.                                                       *)
(***************************************************************************)
CONSTANTS Ids, Keys  (* Keys: the encryption keys, and that of no encryption *)

VARIABLE under  (* of each key in the database, what it is encrypted with   *)

AllUnder(e, S) == [i \in S |-> e]
Alike == {AllUnder(e, S) : e \in Keys, S \in SUBSET Ids}

Init == under \in Alike

\* The first key is encrypted with whatever the service is configured with,
\* the others as those that are there.
Add(i) ==
  /\ i \in Ids \ DOMAIN under
  /\ under' \in {AllUnder(e, DOMAIN under \cup {i}) : e \in Keys}
  /\ \A j \in DOMAIN under : under'[j] = under[j]

Remove(i) ==
  /\ i \in DOMAIN under
  /\ under' = [j \in DOMAIN under \ {i} |-> under[j]]

Reencrypt == under' \in {AllUnder(e, DOMAIN under) : e \in Keys}

Next == (\E i \in Ids : Add(i) \/ Remove(i)) \/ Reencrypt

Spec == Init /\ [][Next]_under
=============================================================================
