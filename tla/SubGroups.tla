------------------------------ MODULE SubGroups ------------------------------
(***************************************************************************)
(* The selection of a sub-group of one aggregate group: the cached group,  *)
(* its selector (smooth weighted round robin under a mutex), the rebuild   *)
(* of the selectors after a reload of the groups, and the requests, each   *)
(* with the group it took from the cache when it came.                     *)
(*                                                                         *)
(* Sub-groups are numbered in the order of the selector's slice.  A group  *)
(* is the function from its valid sub-groups to their weights.  Callers    *)
(* that hold a selector keep it when another one is installed, so every    *)
(* selector ever made has its place in sels.                               *)
(***************************************************************************)
EXTENDS Integers, Sequences, FiniteSets, FiniteSetsExt

CONSTANTS
  Subs,       (* numbers of the sub-groups                                 *)
  Callers,    (* goroutines that serve requests for the aggregate group    *)
  Nobody,     (* holds the mutex that is free                              *)
  Groups,     (* the forms the group takes in the database                 *)
  MaxSels,    (* bound: selectors made                                     *)
  StoreFails  (* TRUE: LLen may fail                                       *)

ASSUME SubGroupsAssumption ==
  /\ Subs \subseteq Nat /\ IsFiniteSet(Subs)
  /\ Nobody \notin Callers
  /\ \A g \in Groups : DOMAIN g \subseteq Subs /\ g \in [DOMAIN g -> Nat \ {0}]
  /\ MaxSels \in Nat \ {0}
  /\ StoreFails \in BOOLEAN

VARIABLES
  group,     (* the aggregate group in the cache of groups                 *)
  rebuild,   (* TRUE between the new cache and the new selectors           *)
  sels,      (* selectors made: weights, current weights, mutex holder     *)
  current,   (* the one in the map of selectors; 0 for none                *)
  served,    (* sub-groups with active keys                                *)
  search     (* per request                                                *)

vars == <<group, rebuild, sels, current, served, search>>

PCs  == {"idle", "find", "lock", "round", "check", "selected", "refused"}
Idle == [pc |-> "idle", group |-> <<>>, sel |-> 0, pick |-> 0, tried |-> {}]

NewSelector(g) == [weight |-> g, cw |-> [i \in DOMAIN g |-> 0], holder |-> Nobody]

Init ==
  /\ group \in Groups
  /\ rebuild = FALSE
  /\ sels = IF group = <<>> THEN <<>> ELSE <<NewSelector(group)>>
  /\ current = Len(sels)
  /\ served \in SUBSET Subs
  /\ search = [r \in Callers |-> Idle]

Sel(r)     == sels[search[r].sel]
Members(r) == DOMAIN Sel(r).weight
Continue(r, pc) == search' = [search EXCEPT ![r].pc = pc]

(***************************************************************************)
(* selectByWeight: every current weight grows by its weight, the greatest  *)
(* one, the first of them, is picked and loses the sum of the weights.     *)
(***************************************************************************)
Total(w) == MapThenSumSet(LAMBDA i : w[i], DOMAIN w)

Grown(s) == [i \in DOMAIN s.cw |-> s.cw[i] + s.weight[i]]

Picked(s) ==
  LET top == {i \in DOMAIN s.cw : \A j \in DOMAIN s.cw : Grown(s)[i] >= Grown(s)[j]}
  IN Min(top)

\* Mutation: the pick loses its own weight.
MutOwnWeight(s) ==
  [s EXCEPT !.cw = [Grown(s) EXCEPT ![Picked(s)] = @ - s.weight[Picked(s)]]]

AfterRound(s) ==
  [s EXCEPT !.cw = [Grown(s) EXCEPT ![Picked(s)] = @ - Total(s.weight)]]

(***************************************************************************)
(* The reload of the groups, and the keys of the sub-groups.               *)
(***************************************************************************)
SetGroup(g) ==
  /\ ~rebuild
  /\ g # group
  /\ Len(sels) < MaxSels
  /\ group' = g
  /\ rebuild' = TRUE
  /\ UNCHANGED <<sels, current, served, search>>

\* Mutation: a group that has a selector keeps it.
MutKeepsSelector ==
  /\ rebuild
  /\ rebuild' = FALSE
  /\ IF group = <<>>
       THEN current' = 0 /\ UNCHANGED sels
       ELSE IF current # 0 THEN UNCHANGED <<current, sels>>
       ELSE /\ sels' = Append(sels, NewSelector(group))
            /\ current' = Len(sels')
  /\ UNCHANGED <<group, served, search>>

RebuildSelectors ==
  /\ rebuild
  /\ rebuild' = FALSE
  /\ sels' = IF group = <<>> THEN sels ELSE Append(sels, NewSelector(group))
  /\ current' = IF group = <<>> THEN 0 ELSE Len(sels')
  /\ UNCHANGED <<group, served, search>>

KeysChange(i) ==
  /\ served' = IF i \in served THEN served \ {i} ELSE served \cup {i}
  /\ UNCHANGED <<group, rebuild, sels, current, search>>

(***************************************************************************)
(* SelectSubGroup                                                          *)
(***************************************************************************)
TakeGroup(r) ==
  /\ search[r] = Idle
  /\ search' = [search EXCEPT ![r].pc = "find", ![r].group = group]
  /\ UNCHANGED <<group, rebuild, sels, current, served>>

\* getSelector finds the selector of this group id, whatever it was made of.
FindSelector(r) ==
  /\ search[r].pc = "find"
  /\ current # 0
  /\ search' = [search EXCEPT ![r].pc = "lock", ![r].sel = current]
  /\ UNCHANGED <<group, rebuild, sels, current, served>>

\* There is none: one is made of the request's own group.
MakeSelector(r) ==
  /\ search[r].pc = "find"
  /\ current = 0
  /\ search[r].group # <<>>
  /\ Len(sels) < MaxSels
  /\ sels' = Append(sels, NewSelector(search[r].group))
  /\ current' = Len(sels')
  /\ search' = [search EXCEPT ![r].pc = "lock", ![r].sel = Len(sels')]
  /\ UNCHANGED <<group, rebuild, served>>

NoSelector(r) ==
  /\ search[r].pc = "find"
  /\ current = 0
  /\ search[r].group = <<>>
  /\ Continue(r, "refused")
  /\ UNCHANGED <<group, rebuild, sels, current, served>>

(***************************************************************************)
(* selectNext, under the selector's mutex.  A single sub-group is checked  *)
(* without a round.                                                        *)
(***************************************************************************)
Lock(r) ==
  /\ search[r].pc = "lock"
  /\ Sel(r).holder = Nobody
  /\ sels' = [sels EXCEPT ![search[r].sel].holder = r]
  /\ search' = [search EXCEPT ![r] =
       IF Cardinality(Members(r)) = 1
         THEN [@ EXCEPT !.pc = "check", !.pick = Min(Members(r)), !.tried = Members(r)]
         ELSE [@ EXCEPT !.pc = "round"]]
  /\ UNCHANGED <<group, rebuild, current, served>>

\* A sub-group that was tried already costs a round and nothing else.
Round(r) ==
  /\ search[r].pc = "round"
  /\ LET i == Picked(Sel(r)) IN
       search' = [search EXCEPT
                    ![r].pc    = IF i \in search[r].tried THEN "round" ELSE "check",
                    ![r].pick  = i,
                    ![r].tried = @ \cup {i}]
  /\ sels' = [sels EXCEPT ![search[r].sel] = AfterRound(@)]
  /\ UNCHANGED <<group, rebuild, current, served>>

\* Mutation: the mutex is not released.
MutKeepsMutex(r, pc) == Continue(r, pc) /\ UNCHANGED sels

Leave(r, pc) ==
  /\ Continue(r, pc)
  /\ sels' = [sels EXCEPT ![search[r].sel].holder = Nobody]

\* An LLen that fails counts as active keys.
Found(r) ==
  /\ search[r].pc = "check"
  /\ search[r].pick \in served \/ StoreFails
  /\ Leave(r, "selected")
  /\ UNCHANGED <<group, rebuild, current, served>>

TryNext(r) ==
  /\ search[r].pc = "check"
  /\ search[r].pick \notin served
  /\ search[r].tried # Members(r)
  /\ Continue(r, "round")
  /\ UNCHANGED <<group, rebuild, sels, current, served>>

\* Mutation: as many attempts as there are sub-groups, less one.
MutGivesUpEarly(r) ==
  /\ search[r].pc = "check"
  /\ search[r].pick \notin served
  /\ Cardinality(search[r].tried) + 1 >= Cardinality(Members(r))
  /\ Leave(r, "refused")
  /\ UNCHANGED <<group, rebuild, current, served>>

NoneLeft(r) ==
  /\ search[r].pc = "check"
  /\ search[r].pick \notin served
  /\ search[r].tried = Members(r)
  /\ Leave(r, "refused")
  /\ UNCHANGED <<group, rebuild, current, served>>

Return(r) ==
  /\ search[r].pc \in {"selected", "refused"}
  /\ search' = [search EXCEPT ![r] = Idle]
  /\ UNCHANGED <<group, rebuild, sels, current, served>>

Step(r) ==
  \/ FindSelector(r) \/ MakeSelector(r) \/ NoSelector(r)
  \/ Round(r) \/ Found(r) \/ TryNext(r) \/ NoneLeft(r) \/ Return(r)

Next ==
  \/ \E g \in Groups : SetGroup(g)
  \/ RebuildSelectors
  \/ \E i \in Subs : KeysChange(i)
  \/ \E r \in Callers : TakeGroup(r) \/ Lock(r) \/ Step(r)

Spec == Init /\ [][Next]_vars

\* Goroutines are scheduled, and a sync.Mutex starves nobody.
FairSpec ==
  /\ Spec
  /\ WF_vars(RebuildSelectors)
  /\ \A r \in Callers : WF_vars(Step(r)) /\ SF_vars(Lock(r))
=============================================================================
