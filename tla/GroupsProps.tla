---------------------------- MODULE GroupsProps ----------------------------
(***************************************************************************)
(* What the operations on groups leave in the tables.  They read before    *)
(* the transaction that writes, so two of them can break the agreement of  *)
(* the tables; the properties below say that nothing else can: a group is  *)
(* in doubt only when a request wrote to it after another one had written  *)
(* what it had looked at, or when its deletion stopped halfway.            *)
(***************************************************************************)
EXTENDS Groups

Local == [pc : PCs, g : Ids \cup {None}, row : Row \cup {NoRow}, new : Row \cup {NoRow},
          subs : SUBSET Ids, seen : SUBSET Ids, keys : SUBSET Keys]

TypeOK ==
  /\ there \subseteq Ids
  /\ row \in [Ids -> Row \cup {NoRow}]
  /\ \A g \in there : row[g] \in Row
  /\ links \subseteq Ids \X Ids
  /\ owner \in [Keys -> Ids \cup {None}]
  /\ live \subseteq Keys /\ hashes \subseteq Keys /\ listed \subseteq Keys
  /\ loc \in [Procs -> Local]
  /\ \A p \in Procs : loc[p].pc # "idle" => loc[p].g \in Ids /\ row[loc[p].g] \in Row
  /\ sqlite \in BOOLEAN /\ started \in 0 .. MaxOps
  /\ disturbed \subseteq Procs /\ doubtful \subseteq Ids

(***************************************************************************)
(* Whatever the requests interleave, a link leads from an aggregate group  *)
(* to a standard one: the selection of a sub-group never recurses.  (Types *)
(* are not changed, and ids not given twice, so the one check that is      *)
(* stale by then, in ValidateSubGroups, still holds.)                      *)
(***************************************************************************)
NoNesting ==
  \A l \in links : row[l[1]].type = "aggregate" /\ row[l[2]].type = "standard"

(***************************************************************************)
(* The sub-groups of an aggregate group exist, have its channel and, where *)
(* the channel has a default endpoint, one effective validation endpoint:  *)
(* neither additions, nor updates of members, nor deletions get round the  *)
(* checks of each other.  (ValidateSubGroups, UpdateGroup's count.)        *)
(***************************************************************************)
MembersAlike ==
  \A a \in there \ doubtful : \A s, t \in SubsOf(a) :
    /\ s \in there
    /\ row[s].channel = row[a].channel
    /\ Default[row[a].channel] # NoEndpoint => Effective(row[s]) = Effective(row[t])

(***************************************************************************)
(* A deleted group leaves no link in either direction, no key, and nothing *)
(* in the store that a request for it could be served from.  (DeleteGroup, *)
(* RemoveKeysFromStore.)                                                   *)
(***************************************************************************)
DeletedLeavesNothing ==
  \A g \in Ids \ (Fresh \cup there \cup doubtful) :
    /\ SubsOf(g) = {} /\ UsersOf(g) = {}
    /\ \A k \in live \cup hashes \cup listed : owner[k] # g

(***************************************************************************)
(* The keys of a group that exists are served, all of them, unless it is   *)
(* being deleted: a deletion that is refused or fails before it reaches    *)
(* the store takes nothing from it.                                        *)
(***************************************************************************)
KeysAreServed ==
  \A k \in Keys :
    owner[k] \in there \ doubtful /\ ~Deleting(owner[k]) =>
      (k \in live <=> k \in hashes) /\ (k \in live <=> k \in listed)
=============================================================================
