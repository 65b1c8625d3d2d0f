------------------------------- MODULE Groups -------------------------------
(***************************************************************************)
(* The rows of groups, of the links between aggregate groups and their     *)
(* sub-groups, and of keys, under the operations of GroupService and       *)
(* AggregateGroupService, and of KeyService as far as it adds keys to a    *)
(* group.  Nearly every operation reads and checks outside the transaction *)
(* that writes, so each read is a step of its own.                         *)
(*                                                                         *)
(* A row is what the checks look at: the type, the channel and the         *)
(* validation endpoint; the other columns are written and never compared.  *)
(* Ids are never given twice.  Names, weights of links and the validation  *)
(* of the input's format are left out.                                     *)
(***************************************************************************)
EXTENDS Naturals

CONSTANTS
  Procs,     (* requests of administrators                                 *)
  Ids,       (* ids of groups                                              *)
  Keys,      (* ids of keys                                                *)
  Channels, Endpoints,
  NoEndpoint,(* the empty endpoint, a member of Endpoints                  *)
  Default,   (* GetValidationEndpoint: each channel's endpoint             *)
  None,
  Rows0,     (* the groups at the start, a function from some ids          *)
  Owner0,    (* the keys at the start, a function from some keys to groups *)
  NewRows,   (* rows that CreateGroup is asked for                         *)
  Changes,   (* channel and endpoint that UpdateGroup is asked for, or None*)
  Inputs,    (* sets of ids that AddSubGroups is asked for                 *)
  MaxOps,    (* bound: requests                                            *)
  Databases  (* TRUE for SQLite, FALSE for MySQL and PostgreSQL            *)

Types == {"standard", "aggregate"}
Row   == [type : Types, channel : Channels, endpoint : Endpoints]

ASSUME GroupsAssumption ==
  /\ None \notin Ids \cup Channels \cup Endpoints
  /\ NoEndpoint \in Endpoints
  /\ Default \in [Channels -> Endpoints]
  /\ DOMAIN Rows0 \subseteq Ids /\ \A g \in DOMAIN Rows0 : Rows0[g] \in Row
  /\ DOMAIN Owner0 \subseteq Keys
  /\ \A k \in DOMAIN Owner0 : Owner0[k] \in DOMAIN Rows0
  /\ NewRows \subseteq Row
  /\ Changes \subseteq [channel : Channels \cup {None}, endpoint : Endpoints \cup {None}]
  /\ Inputs \subseteq SUBSET Ids
  /\ MaxOps \in Nat
  /\ Databases \subseteq BOOLEAN

VARIABLES
  there,     (* groups that have a row                                     *)
  row,       (* the row of each group, the last one after a deletion       *)
  links,     (* pairs of an aggregate group and a sub-group                *)
  owner,     (* the group each key was made for; None for an id not given  *)
  live,      (* keys with a row                                            *)
  sqlite,    (* one transaction at a time, foreign keys not enforced       *)
  hashes,    (* keys with details in the store                             *)
  listed,    (* keys in the list of active keys of their group             *)
  loc,       (* per request                                                *)
  started,   (* requests so far                                            *)
  disturbed, (* ghost: requests some group of which another one wrote since*)
  doubtful   (* ghost: groups written by a disturbed or broken request     *)

tables == <<there, row, links, owner, live, sqlite>>
store  == <<hashes, listed>>
ghosts == <<disturbed, doubtful>>
vars   == <<there, row, links, owner, live, sqlite, hashes, listed, loc, started, disturbed, doubtful>>

PCs == {"idle", "count", "save", "links", "endpoint", "validate", "insert",
        "begin", "empty", "commit", "copy", "add"}

NoRow == [type |-> None, channel |-> None, endpoint |-> None]
Idle  == [pc |-> "idle", g |-> None, row |-> NoRow, new |-> NoRow, subs |-> {}, seen |-> {},
          keys |-> {}]

Init ==
  /\ there = DOMAIN Rows0
  /\ row = [g \in Ids |-> IF g \in there THEN Rows0[g] ELSE NoRow]
  /\ links = {}
  /\ owner = [k \in Keys |-> IF k \in DOMAIN Owner0 THEN Owner0[k] ELSE None]
  /\ live = DOMAIN Owner0
  /\ sqlite \in Databases
  /\ hashes = DOMAIN Owner0
  /\ listed = DOMAIN Owner0
  /\ loc = [p \in Procs |-> Idle]
  /\ started = 0
  /\ disturbed = {}
  /\ doubtful = {}

Fresh       == {g \in Ids : row[g] = NoRow}
KeysOf(g)   == {k \in live : owner[k] = g}
SubsOf(a)   == {s \in Ids : <<a, s>> \in links}
UsersOf(s)  == {a \in Ids : <<a, s>> \in links}
Effective(r) == IF r.endpoint # NoEndpoint THEN r.endpoint ELSE Default[r.channel]

(***************************************************************************)
(* A transaction that has deleted a group and not committed holds its row; *)
(* SQLite admits no other writer.                                          *)
(***************************************************************************)
Deleting(g) == \E p \in Procs : loc[p].pc \in {"empty", "commit"} /\ loc[p].g = g
MayWrite(g) == \A h \in IF sqlite THEN Ids ELSE {g} : ~Deleting(h)
LinksOf(p)  == {l \in links : \E h \in loc[p].seen : l \in {<<loc[p].g, h>>, <<h, loc[p].g>>}}
Locked      == UNION {LinksOf(p) : p \in {q \in Procs : loc[q].pc \in {"empty", "commit"}}}

(***************************************************************************)
(* A request is disturbed by every write to a group it has looked at.      *)
(***************************************************************************)
LookedAt(p) ==
  {loc[p].g} \cup loc[p].seen \cup (IF loc[p].pc = "insert" THEN loc[p].subs ELSE {})

Wrote(p, gs) ==
  /\ disturbed' = {q \in (disturbed \cup {q \in Procs : LookedAt(q) \cap gs # {}}) \ {p} :
                     loc'[q].pc # "idle"}
  /\ doubtful' = IF p \in disturbed THEN doubtful \cup gs ELSE doubtful

Return(p)  == loc' = [loc EXCEPT ![p] = Idle]
Read(p, l) == /\ loc' = [loc EXCEPT ![p] = l]
              /\ UNCHANGED <<tables, store, ghosts>>
Refuse(p)  == /\ Return(p)
              /\ disturbed' = disturbed \ {p}
              /\ UNCHANGED <<tables, store, doubtful>>

(***************************************************************************)
(* CreateGroup                                                             *)
(***************************************************************************)
Insert(g, r) ==
  /\ there' = there \cup {g}
  /\ row' = [row EXCEPT ![g] = r]

CreateGroup(p, g, r) ==
  /\ loc[p] = Idle
  /\ g \in Fresh
  /\ MayWrite(g)
  /\ Insert(g, IF r.type = "aggregate" THEN [r EXCEPT !.endpoint = NoEndpoint] ELSE r)
  /\ UNCHANGED <<links, owner, live, sqlite, store, loc, ghosts>>

(***************************************************************************)
(* UpdateGroup: the row is read, links to it are counted if the channel or *)
(* the endpoint is given, and the whole row is saved.                      *)
(***************************************************************************)
Changed(r, c) ==
  [r EXCEPT !.channel  = IF c.channel = None \/ r.type = "aggregate" THEN @ ELSE c.channel,
            !.endpoint = IF c.endpoint = None THEN @ ELSE c.endpoint]

UpdateGroup(p, g, c) ==
  /\ loc[p] = Idle
  /\ g \in there
  /\ Read(p, [Idle EXCEPT !.g = g, !.row = row[g], !.new = Changed(row[g], c),
                          !.pc = IF row[g].type # "aggregate" /\ c # [channel |-> None, endpoint |-> None]
                                   THEN "count" ELSE "save"])

\* Mutation: the links are not counted.
MutNoCount(p) ==
  /\ loc[p].pc = "count"
  /\ Read(p, [loc[p] EXCEPT !.pc = "save"])

UpdateCount(p) ==
  /\ loc[p].pc = "count"
  /\ \/ /\ UsersOf(loc[p].g) = {} \/ loc[p].new = loc[p].row
        /\ Read(p, [loc[p] EXCEPT !.pc = "save"])
     \/ /\ UsersOf(loc[p].g) # {} /\ loc[p].new # loc[p].row
        /\ Refuse(p)

\* gorm's Save: an UPDATE, and an INSERT when it finds no row.
UpdateSave(p) ==
  /\ loc[p].pc = "save"
  /\ MayWrite(loc[p].g)
  /\ Insert(loc[p].g, loc[p].new)
  /\ Return(p)
  /\ Wrote(p, IF loc[p].g \in there /\ row[loc[p].g] = loc[p].new THEN {}
              ELSE {loc[p].g} \cup UsersOf(loc[p].g))
  /\ UNCHANGED <<links, owner, live, sqlite, store>>

(***************************************************************************)
(* AddSubGroups                                                            *)
(***************************************************************************)
AddSubGroups(p, a, subs) ==
  /\ loc[p] = Idle
  /\ a \in there
  /\ row[a].type = "aggregate"
  /\ Read(p, [Idle EXCEPT !.pc = "links", !.g = a, !.row = row[a], !.subs = subs])

AddLinks(p) ==
  /\ loc[p].pc = "links"
  /\ Read(p, [loc[p] EXCEPT !.pc = "endpoint", !.seen = SubsOf(loc[p].g)])

\* The endpoint of the first sub-group, if it is found; kept in the row read.
AddEndpoint(p) ==
  /\ loc[p].pc = "endpoint"
  /\ \E e \in Endpoints :
       /\ IF loc[p].seen = {} THEN e = NoEndpoint
          ELSE \E s \in loc[p].seen : e = IF s \in there THEN Effective(row[s]) ELSE NoEndpoint
       /\ Read(p, [loc[p] EXCEPT !.pc = "validate", !.row.endpoint = e])

(***************************************************************************)
(* ValidateSubGroups takes the rows in the order the database gives them.  *)
(* An expected endpoint that is empty is replaced by the next row's, so    *)
(* rows with an empty one pass as long as they come before all others.     *)
(***************************************************************************)
SameEndpoint(expected, es) ==
  /\ \A e, f \in es \ {NoEndpoint} : e = f
  /\ expected # NoEndpoint => es = {expected}

Valid(r, subs) ==
  /\ subs \subseteq there
  /\ \A s \in subs : row[s].type # "aggregate" /\ row[s].channel = r.channel
  /\ SameEndpoint(r.endpoint, {Effective(row[s]) : s \in subs})

\* Mutation: sub-groups may be aggregate groups.
MutNests(p) ==
  /\ loc[p].subs \subseteq there
  /\ \A s \in loc[p].subs : row[s].channel = loc[p].row.channel
  /\ SameEndpoint(loc[p].row.endpoint, {Effective(row[s]) : s \in loc[p].subs})
  /\ loc[p].subs \cap loc[p].seen = {}

Validated(p) ==
  /\ Valid(loc[p].row, loc[p].subs)
  /\ loc[p].subs \cap loc[p].seen = {}

AddValidate(p) ==
  /\ loc[p].pc = "validate"
  /\ \/ Validated(p) /\ Read(p, [loc[p] EXCEPT !.pc = "insert"])
     \/ ~Validated(p) /\ Refuse(p)
     \* rows with an empty endpoint after one with another
     \/ NoEndpoint \in {Effective(row[s]) : s \in loc[p].subs \cap there} /\ Refuse(p)

\* No foreign key: the groups may be gone.
AddInsert(p) ==
  /\ loc[p].pc = "insert"
  /\ MayWrite(None)
  /\ LET new == {<<loc[p].g, s>> : s \in loc[p].subs} IN
       \/ /\ new \cap links = {}
          /\ links' = links \cup new
          /\ Return(p)
          /\ Wrote(p, {loc[p].g} \cup loc[p].subs)
          /\ UNCHANGED <<there, row, owner, live, sqlite, store>>
       \/ /\ new \cap links # {} /\ new \cap Locked = {}
          /\ Refuse(p)

DeleteSubGroup(p, a, s) ==
  /\ loc[p] = Idle
  /\ a \in there /\ row[a].type = "aggregate"
  /\ <<a, s>> \in links \ Locked
  /\ MayWrite(None)
  /\ links' = links \ {<<a, s>>}
  /\ UNCHANGED <<there, row, owner, live, sqlite, store, loc>>
  /\ Wrote(p, {a, s})

(***************************************************************************)
(* DeleteGroup: the keys are read first; the transaction deletes the links *)
(* in either direction, the keys and the group, as they are then; the      *)
(* store forgets the keys that were read; the transaction commits.         *)
(***************************************************************************)
DeleteGroup(p, g) ==
  /\ loc[p] = Idle
  /\ g \in there
  /\ Read(p, [Idle EXCEPT !.pc = "begin", !.g = g, !.keys = KeysOf(g)])

\* Mutation: only the links to its own sub-groups are deleted.
MutKeepsMemberships(p) ==
  /\ loc[p].pc = "begin"
  /\ loc[p].g \in there
  /\ MayWrite(loc[p].g)
  /\ Read(p, [loc[p] EXCEPT !.pc = IF loc[p].keys = {} THEN "commit" ELSE "empty",
                            !.seen = SubsOf(loc[p].g)])

DeleteRows(p) ==
  /\ loc[p].pc = "begin"
  /\ \/ /\ loc[p].g \in there
        /\ MayWrite(loc[p].g)
        /\ Read(p, [loc[p] EXCEPT !.pc = IF loc[p].keys = {} THEN "commit" ELSE "empty",
                                  !.seen = SubsOf(loc[p].g) \cup UsersOf(loc[p].g)])
     \/ loc[p].g \notin there /\ Refuse(p)

\* Mutation: the details are deleted before the list.
MutDetailsFirst(p) ==
  /\ loc[p].pc = "empty"
  /\ hashes' = hashes \ loc[p].keys
  /\ \/ /\ listed' = {k \in listed : owner[k] # loc[p].g}
        /\ loc' = [loc EXCEPT ![p].pc = "commit"]
     \/ listed' = listed /\ Return(p)
  /\ UNCHANGED <<tables, ghosts>>

\* The list of the group is deleted or nothing is; details that are not are only logged.
DeleteStore(p) ==
  /\ loc[p].pc = "empty"
  /\ \/ \E D \in SUBSET loc[p].keys :
          /\ listed' = {k \in listed : owner[k] # loc[p].g}
          /\ hashes' = hashes \ D
          /\ doubtful' = IF D = loc[p].keys THEN doubtful ELSE doubtful \cup {loc[p].g}
          /\ loc' = [loc EXCEPT ![p].pc = "commit"]
          /\ UNCHANGED <<tables, disturbed>>
     \/ Refuse(p)

DeleteCommit(p) ==
  /\ loc[p].pc = "commit"
  /\ LET g == loc[p].g IN
     /\ there' = there \ {g}
     /\ links' = links \ LinksOf(p)
     /\ live' = live \ KeysOf(g)
     /\ Return(p)
     /\ Wrote(p, {g} \cup loc[p].seen \cup UsersOf(g))
     /\ UNCHANGED <<row, owner, sqlite, store>>

\* Nothing gives the store its keys back.
DeleteRollback(p) ==
  /\ loc[p].pc = "commit"
  /\ Return(p)
  /\ disturbed' = disturbed \ {p}
  /\ doubtful' = IF loc[p].keys = {} THEN doubtful ELSE doubtful \cup {loc[p].g}
  /\ UNCHANGED <<tables, store>>

(***************************************************************************)
(* CopyGroup and AddMultipleKeys.  The keys of a copy are added by an      *)
(* import of their own, unless another task runs.                          *)
(***************************************************************************)
CopyGroup(p, g) ==
  /\ loc[p] = Idle
  /\ g \in there
  /\ Read(p, [Idle EXCEPT !.pc = "copy", !.g = g, !.row = row[g]])

CopyCreate(p, n) ==
  /\ loc[p].pc = "copy"
  /\ n \in Fresh
  /\ MayWrite(n)
  /\ Insert(n, loc[p].row)
  /\ \/ Return(p)
     \/ /\ KeysOf(loc[p].g) # {}
        /\ loc' = [loc EXCEPT ![p] = [Idle EXCEPT !.pc = "add", !.g = n]]
  /\ disturbed' = disturbed \ {p}
  /\ UNCHANGED <<links, owner, live, sqlite, store, doubtful>>

CopyFails(p) == loc[p].pc = "copy" /\ Refuse(p)

AddMultipleKeys(p, g) ==
  /\ loc[p] = Idle
  /\ g \in there
  /\ Read(p, [Idle EXCEPT !.pc = "add", !.g = g])

AddKeys(p, k) ==
  /\ loc[p].pc = "add"
  /\ owner[k] = None
  /\ MayWrite(loc[p].g)
  /\ sqlite \/ loc[p].g \in there
  /\ owner' = [owner EXCEPT ![k] = loc[p].g]
  /\ live' = live \cup {k}
  /\ hashes' = hashes \cup {k}
  /\ listed' = listed \cup {k}
  /\ Return(p)
  /\ Wrote(p, {loc[p].g})
  /\ UNCHANGED <<there, row, links, sqlite>>

\* Keys the group has already, a foreign key without its row.
AddNone(p) == loc[p].pc = "add" /\ MayWrite(loc[p].g) /\ Refuse(p)

Begin(p, g) ==
  \/ \E r \in NewRows : CreateGroup(p, g, r)
  \/ \E c \in Changes : UpdateGroup(p, g, c)
  \/ \E subs \in Inputs : AddSubGroups(p, g, subs)
  \/ \E s \in Ids : DeleteSubGroup(p, g, s)
  \/ DeleteGroup(p, g) \/ CopyGroup(p, g) \/ AddMultipleKeys(p, g)

Continue(p) ==
  \/ UpdateCount(p) \/ UpdateSave(p)
  \/ AddLinks(p) \/ AddEndpoint(p) \/ AddValidate(p) \/ AddInsert(p)
  \/ DeleteRows(p) \/ DeleteStore(p) \/ DeleteCommit(p) \/ DeleteRollback(p)
  \/ CopyFails(p) \/ \E n \in Ids : CopyCreate(p, n)
  \/ AddNone(p) \/ \E k \in Keys : AddKeys(p, k)

Next == \E p \in Procs :
  \/ /\ started < MaxOps
     /\ started' = started + 1
     /\ \E g \in Ids : Begin(p, g)
  \/ Continue(p) /\ UNCHANGED started

Spec == Init /\ [][Next]_vars
=============================================================================
