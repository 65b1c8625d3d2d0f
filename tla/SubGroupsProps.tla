--------------------------- MODULE SubGroupsProps ---------------------------
(***************************************************************************)
(* What the selection of sub-groups promises.                              *)
(***************************************************************************)
EXTENDS SubGroups

\* A selector is of some form of the group, and a request in its rounds has
\* one.
TypeOK ==
  /\ group \in Groups
  /\ rebuild \in BOOLEAN
  /\ current \in 0 .. Len(sels)
  /\ \A s \in 1 .. Len(sels) :
       sels[s].weight \in Groups /\ sels[s].holder \in Callers \cup {Nobody}
  /\ \A r \in Callers :
       search[r].pc \in {"lock", "round", "check"} => search[r].sel \in 1 .. Len(sels)

\* What a sub-group may be behind: 1/2, 1/3, ... and 1/n of a turn, rounded up.
Behind(w) == LET n == Cardinality(DOMAIN w)  turn == Total(w) IN
             Total([j \in 2 .. n |-> (turn + j - 1) \div j])

(***************************************************************************)
(* The turns are shared by weight at every moment, not only on average:    *)
(* after n rounds, n times the weight of a sub-group and its turns times   *)
(* the sum of the weights differ by the current weight.  Nobody is ahead   *)
(* by a whole turn, and nobody further behind than Behind says: about a    *)
(* turn for up to four sub-groups, two for ten.  Rounds spent on           *)
(* sub-groups without keys are turns too.  (selectByWeight, and the same   *)
(* code in getUpstreamURL.)                                                *)
(***************************************************************************)
TurnsAreShared ==
  \A s \in 1 .. Len(sels) :
    LET w == sels[s].weight  cw == sels[s].cw  turn == Total(w)  most == Behind(w) IN
    /\ Total(cw) = 0
    /\ \A i \in DOMAIN w : cw[i] > -turn /\ cw[i] <= most

(***************************************************************************)
(* A group with sub-groups is served by a selector made of what it is now, *)
(* whichever requests with older copies of the group made selectors in the *)
(* meantime.  (RebuildSelectors, getSelector.)                             *)
(***************************************************************************)
SelectorIsCurrent ==
  (~rebuild /\ group # <<>>) => current # 0 /\ sels[current].weight = group

(***************************************************************************)
(* A request is refused only when every sub-group was without keys at some *)
(* moment of the search: not when one has keys all the time, is in every   *)
(* form of the group, and others run empty.  (selectNext: attempted.)      *)
(***************************************************************************)
ServedIfAny ==
  \A i \in Subs :
    [](i \in served /\ i \in DOMAIN group) =>
      [](\A r \in Callers : search[r].pc # "refused")

(***************************************************************************)
(* Every selection ends: the rounds that fall on sub-groups already tried  *)
(* run out, and the mutex is released.                                     *)
(***************************************************************************)
SelectionEnds ==
  \A r \in Callers : search[r].pc # "idle" ~> search[r].pc = "idle"

=============================================================================
