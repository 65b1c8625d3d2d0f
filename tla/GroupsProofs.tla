---------------------------- MODULE GroupsProofs ----------------------------
(***************************************************************************)
(* Proofs about Groups, for any number of requests, groups and keys, any   *)
(* inputs, and either kind of database: types, that no aggregate group     *)
(* ever becomes a sub-group, that members stay alike, that deletions leave *)
(* nothing, and that the keys of groups that stay are served.              *)
(***************************************************************************)
EXTENDS GroupsProps, TLAPS

(***************************************************************************)
(* The inductive invariant.  What a request has found out about the type   *)
(* of a group stays true until it writes, since a group keeps its type and *)
(* its id is not given again; r are the rows.                              *)
(***************************************************************************)
Tables ==
  /\ there \subseteq Ids
  /\ row \in [Ids -> Row \cup {NoRow}]
  /\ \A g \in there : row[g] \in Row
  /\ links \subseteq Ids \X Ids
  /\ owner \in [Keys -> Ids \cup {None}]
  /\ live \subseteq Keys /\ hashes \subseteq Keys /\ listed \subseteq Keys
  /\ sqlite \in BOOLEAN /\ started \in 0 .. MaxOps
  /\ disturbed \subseteq Procs /\ doubtful \subseteq Ids

Adding == {"links", "endpoint", "validate", "insert"}

GoodLocal(l, r) ==
  /\ l \in Local
  /\ l.pc # "idle" => l.g \in Ids /\ r[l.g] \in Row
  /\ l.pc \in {"count", "save"} => l.new \in Row /\ l.new.type = r[l.g].type
  /\ l.pc \in Adding => l.row \in Row /\ r[l.g].type = "aggregate"
  /\ l.pc = "insert" => \A s \in l.subs : r[s] \in Row /\ r[s].type = "standard"
  /\ l.pc = "copy" => l.row \in Row

Locals == DOMAIN loc = Procs /\ loc = [p \in Procs |-> loc[p]]
          /\ \A p \in Procs : GoodLocal(loc[p], row)

Linked(x, r) ==
  /\ r[x[1]] \in Row /\ r[x[1]].type = "aggregate"
  /\ r[x[2]] \in Row /\ r[x[2]].type = "standard"

Inv == Tables /\ Locals /\ \A x \in links : Linked(x, row)

\* From one state of the rows to another, groups keep their types.
Kept(r, r2) == \A g \in Ids : r[g] \in Row => r2[g] \in Row /\ r2[g].type = r[g].type

LEMMA NoRowIsNoRow == NoRow \notin Row
BY GroupsAssumption DEF NoRow, Row

LEMMA IdleIsGood == ASSUME NEW r PROVE GoodLocal(Idle, r)
BY DEF GoodLocal, Idle, Local, PCs, Adding

LEMMA KeptIsGood ==
  ASSUME NEW r, NEW r2, NEW l, Kept(r, r2), GoodLocal(l, r)
  PROVE  GoodLocal(l, r2)
<1>1. l.subs \subseteq Ids
  BY DEF GoodLocal, Local
<1> QED BY <1>1 DEF GoodLocal, Kept, Adding

(***************************************************************************)
(* What every step has to show.                                            *)
(***************************************************************************)
LEMMA StepKeepsInv ==
  ASSUME Inv, Tables', NEW p \in Procs, NEW l,
         loc' = [loc EXCEPT ![p] = l], GoodLocal(l, row'), Kept(row, row'),
         \A x \in links' \ links : Linked(x, row')
  PROVE  Inv'
<1>1. Locals'
  <2>1. \A q \in Procs : loc'[q] = IF q = p THEN l ELSE loc[q]
    BY DEF Inv, Locals
  <2>2. DOMAIN loc' = Procs /\ loc' = [q \in Procs |-> loc'[q]]
    BY DEF Inv, Locals
  <2>3. ASSUME NEW q \in Procs PROVE GoodLocal(loc'[q], row')
    BY <2>1, KeptIsGood DEF Inv, Locals
  <2> QED BY <2>2, <2>3 DEF Locals
<1>2. ASSUME NEW x \in links' PROVE Linked(x, row')
  <2>1. CASE x \in links
    <3>1. x[1] \in Ids /\ x[2] \in Ids
      BY <2>1 DEF Inv, Tables
    <3> QED BY <2>1, <3>1 DEF Inv, Linked, Kept
  <2>2. CASE x \notin links
    BY <2>2
  <2> QED BY <2>1, <2>2
<1> QED BY <1>1, <1>2 DEF Inv

LEMMA SameRowsKept == row' = row => Kept(row, row')
BY DEF Kept

(***************************************************************************)
(* The steps, by the variables they write.  Reads write their own locals.  *)
(***************************************************************************)
LEMMA ReadKeepsInv ==
  ASSUME Inv, NEW p \in Procs, NEW l, Read(p, l), GoodLocal(l, row), started' \in 0 .. MaxOps
  PROVE  Inv'
<1>1. Tables'
  BY DEF Inv, Tables, Read, tables, store, ghosts
<1>2. row' = row /\ links' = links /\ loc' = [loc EXCEPT ![p] = l]
  BY DEF Read, tables
<1> QED BY <1>1, <1>2, StepKeepsInv, SameRowsKept

LEMMA RefuseKeepsInv ==
  ASSUME Inv, NEW p \in Procs, Refuse(p), started' \in 0 .. MaxOps
  PROVE  Inv'
<1>1. Tables'
  BY DEF Inv, Tables, Refuse, Return, tables, store
<1>2. row' = row /\ links' = links /\ loc' = [loc EXCEPT ![p] = Idle]
  BY DEF Refuse, Return, tables
<1> QED BY <1>1, <1>2, StepKeepsInv, SameRowsKept, IdleIsGood

LEMMA WroteTypes ==
  ASSUME Inv, NEW p \in Procs, NEW gs, gs \subseteq Ids, Wrote(p, gs)
  PROVE  disturbed' \subseteq Procs /\ doubtful' \subseteq Ids
BY DEF Inv, Tables, Wrote

LEMMA CreateKeepsInv ==
  ASSUME Inv, started' \in 0 .. MaxOps, NEW p \in Procs, NEW g \in Ids, NEW r \in NewRows,
         CreateGroup(p, g, r)
  PROVE  Inv'
<1> DEFINE made == IF r.type = "aggregate" THEN [r EXCEPT !.endpoint = NoEndpoint] ELSE r
<1>1. made \in Row
  BY GroupsAssumption DEF Row
<1>2. there' = there \cup {g} /\ row' = [row EXCEPT ![g] = made] /\ row[g] = NoRow
  BY DEF CreateGroup, Insert, Fresh
<1>3. UNCHANGED <<links, owner, live, sqlite, hashes, listed, loc, disturbed, doubtful>>
  BY DEF CreateGroup, store, ghosts
<1>4. Tables'
  BY <1>1, <1>2, <1>3 DEF Inv, Tables
<1>5. Kept(row, row')
  BY <1>2, NoRowIsNoRow DEF Kept, Inv, Tables
<1>6. loc' = [loc EXCEPT ![p] = loc[p]] /\ GoodLocal(loc[p], row')
  BY <1>3, <1>5, KeptIsGood DEF Inv, Locals
<1> HIDE DEF made
<1> QED BY <1>3, <1>4, <1>5, <1>6, StepKeepsInv

LEMMA ChangedIsRow ==
  ASSUME NEW r \in Row, NEW c \in Changes
  PROVE  Changed(r, c) \in Row /\ Changed(r, c).type = r.type
BY GroupsAssumption DEF Changed, Row

LEMMA UpdateKeepsInv ==
  ASSUME Inv, started' \in 0 .. MaxOps, NEW p \in Procs,
         \/ \E g \in Ids, c \in Changes : UpdateGroup(p, g, c)
         \/ UpdateCount(p)
         \/ UpdateSave(p)
  PROVE  Inv'
<1>l. GoodLocal(loc[p], row)
  BY DEF Inv, Locals
<1>1. CASE \E g \in Ids, c \in Changes : UpdateGroup(p, g, c)
  <2>1. PICK g \in Ids, c \in Changes : UpdateGroup(p, g, c)
    BY <1>1
  <2>2. row[g] \in Row
    BY <2>1 DEF Inv, Tables, UpdateGroup
  <2> DEFINE l == [Idle EXCEPT !.g = g, !.row = row[g], !.new = Changed(row[g], c),
                     !.pc = IF row[g].type # "aggregate" /\ c # [channel |-> None, endpoint |-> None]
                              THEN "count" ELSE "save"]
  <2>3. GoodLocal(l, row)
    BY <2>2, ChangedIsRow DEF GoodLocal, Idle, Local, PCs, Adding
  <2>4. Read(p, l)
    BY <2>1 DEF UpdateGroup
  <2> QED BY <2>3, <2>4, ReadKeepsInv
<1>2. CASE UpdateCount(p)
  <2>1. CASE Read(p, [loc[p] EXCEPT !.pc = "save"]) /\ loc[p].pc = "count"
    <3>1. GoodLocal([loc[p] EXCEPT !.pc = "save"], row)
      BY <1>l, <2>1 DEF GoodLocal, Local, PCs, Adding
    <3> QED BY <3>1, <2>1, ReadKeepsInv
  <2> QED BY <1>2, <2>1, RefuseKeepsInv DEF UpdateCount
<1>3. CASE UpdateSave(p)
  <2> DEFINE g == loc[p].g
  <2>1. g \in Ids /\ row[g] \in Row /\ loc[p].new \in Row /\ loc[p].new.type = row[g].type
    BY <1>3, <1>l DEF UpdateSave, GoodLocal
  <2>2. /\ there' = there \cup {g} /\ row' = [row EXCEPT ![g] = loc[p].new]
        /\ loc' = [loc EXCEPT ![p] = Idle]
        /\ UNCHANGED <<links, owner, live, sqlite, hashes, listed>>
    BY <1>3 DEF UpdateSave, Insert, Return, store
  <2>3. disturbed' \subseteq Procs /\ doubtful' \subseteq Ids
    <3>1. {g} \cup UsersOf(g) \subseteq Ids /\ {} \subseteq Ids
      BY <2>1 DEF UsersOf
    <3> QED BY <1>3, <3>1, WroteTypes DEF UpdateSave
  <2>4. Tables'
    BY <2>1, <2>2, <2>3 DEF Inv, Tables
  <2>5. Kept(row, row')
    BY <2>1, <2>2 DEF Kept, Inv, Tables
  <2> QED BY <2>2, <2>4, <2>5, StepKeepsInv, IdleIsGood
<1> QED BY <1>1, <1>2, <1>3

LEMMA ValidIsStandard ==
  ASSUME Inv, NEW r, NEW subs, Valid(r, subs)
  PROVE  \A s \in subs : row[s] \in Row /\ row[s].type = "standard"
<1>1. \A s \in subs : row[s] \in Row /\ row[s].type # "aggregate"
  BY DEF Inv, Tables, Valid
<1> QED BY <1>1 DEF Row, Types

LEMMA AddKeepsInv ==
  ASSUME Inv, started' \in 0 .. MaxOps, NEW p \in Procs,
         \/ \E a \in Ids, subs \in Inputs : AddSubGroups(p, a, subs)
         \/ AddLinks(p) \/ AddEndpoint(p) \/ AddValidate(p) \/ AddInsert(p)
  PROVE  Inv'
<1>l. GoodLocal(loc[p], row)
  BY DEF Inv, Locals
<1>1. CASE \E a \in Ids, subs \in Inputs : AddSubGroups(p, a, subs)
  <2>1. PICK a \in Ids, subs \in Inputs : AddSubGroups(p, a, subs)
    BY <1>1
  <2>2. row[a] \in Row /\ row[a].type = "aggregate"
    BY <2>1 DEF Inv, Tables, AddSubGroups
  <2> DEFINE l == [Idle EXCEPT !.pc = "links", !.g = a, !.row = row[a], !.subs = subs]
  <2>3. GoodLocal(l, row)
    BY <2>2, GroupsAssumption DEF GoodLocal, Idle, Local, PCs, Adding
  <2>4. Read(p, l)
    BY <2>1 DEF AddSubGroups
  <2> QED BY <2>3, <2>4, ReadKeepsInv
<1>2. CASE AddLinks(p)
  <2> DEFINE l == [loc[p] EXCEPT !.pc = "endpoint", !.seen = SubsOf(loc[p].g)]
  <2>1. GoodLocal(l, row)
    BY <1>l, <1>2 DEF AddLinks, GoodLocal, Local, PCs, Adding, SubsOf
  <2> QED BY <1>2, <2>1, ReadKeepsInv DEF AddLinks
<1>3. CASE AddEndpoint(p)
  <2>1. PICK e \in Endpoints : Read(p, [loc[p] EXCEPT !.pc = "validate", !.row.endpoint = e])
    BY <1>3 DEF AddEndpoint
  <2> DEFINE l == [loc[p] EXCEPT !.pc = "validate", !.row.endpoint = e]
  <2>2. loc[p] \in Local /\ loc[p].row \in Row /\ loc[p].pc = "endpoint"
    BY <1>3, <1>l DEF AddEndpoint, GoodLocal, Adding
  <2>3. [loc[p].row EXCEPT !.endpoint = e] \in Row
    BY <2>2 DEF Row
  <2>4. l = [loc[p] EXCEPT !.pc = "validate", !.row = [loc[p].row EXCEPT !.endpoint = e]]
    BY <2>2 DEF Local
  <2>5. GoodLocal(l, row)
    BY <1>l, <2>2, <2>3, <2>4 DEF GoodLocal, Local, PCs, Adding
  <2> QED BY <2>1, <2>5, ReadKeepsInv
<1>4. CASE AddValidate(p)
  <2> DEFINE l == [loc[p] EXCEPT !.pc = "insert"]
  <2>1. CASE Validated(p) /\ Read(p, l)
    <3>1. \A s \in loc[p].subs : row[s] \in Row /\ row[s].type = "standard"
      BY <2>1, ValidIsStandard DEF Validated
    <3>2. GoodLocal(l, row)
      BY <1>l, <1>4, <3>1 DEF AddValidate, GoodLocal, Local, PCs, Adding
    <3> QED BY <2>1, <3>2, ReadKeepsInv
  <2> QED BY <1>4, <2>1, RefuseKeepsInv DEF AddValidate
<1>5. CASE AddInsert(p)
  <2> DEFINE new == {<<loc[p].g, s>> : s \in loc[p].subs}
  <2>1. /\ loc[p].g \in Ids /\ loc[p].subs \subseteq Ids
        /\ row[loc[p].g] \in Row /\ row[loc[p].g].type = "aggregate"
        /\ \A s \in loc[p].subs : row[s] \in Row /\ row[s].type = "standard"
    BY <1>5, <1>l DEF AddInsert, GoodLocal, Local, Adding
  <2>2. CASE links' = links \cup new /\ Return(p) /\ Wrote(p, {loc[p].g} \cup loc[p].subs)
             /\ UNCHANGED <<there, row, owner, live, sqlite, store>>
    <3>1. disturbed' \subseteq Procs /\ doubtful' \subseteq Ids
      BY <2>1, <2>2, WroteTypes
    <3>2. new \subseteq Ids \X Ids /\ \A x \in new : Linked(x, row)
      BY <2>1 DEF Linked
    <3>3. Tables'
      BY <2>2, <3>1, <3>2 DEF Inv, Tables, store
    <3>4. row' = row /\ loc' = [loc EXCEPT ![p] = Idle]
      BY <2>2 DEF Return
    <3> QED BY <2>2, <3>2, <3>3, <3>4, StepKeepsInv, SameRowsKept, IdleIsGood
  <2> QED BY <1>5, <2>2, RefuseKeepsInv DEF AddInsert
<1> QED BY <1>1, <1>2, <1>3, <1>4, <1>5

LEMMA DeleteSubGroupKeepsInv ==
  ASSUME Inv, started' \in 0 .. MaxOps, NEW p \in Procs, NEW a \in Ids, NEW s \in Ids,
         DeleteSubGroup(p, a, s)
  PROVE  Inv'
<1>1. /\ UNCHANGED <<there, row, owner, live, sqlite, hashes, listed, loc>>
      /\ links' \subseteq links
  BY DEF DeleteSubGroup, store
<1>2. disturbed' \subseteq Procs /\ doubtful' \subseteq Ids
  BY WroteTypes DEF DeleteSubGroup
<1>3. Tables'
  BY <1>1, <1>2 DEF Inv, Tables
<1>4. loc' = [loc EXCEPT ![p] = loc[p]] /\ GoodLocal(loc[p], row)
  BY <1>1 DEF Inv, Locals
<1> QED BY <1>1, <1>3, <1>4, StepKeepsInv, SameRowsKept

LEMMA DeleteKeepsInv ==
  ASSUME Inv, started' \in 0 .. MaxOps, NEW p \in Procs,
         \/ \E g \in Ids : DeleteGroup(p, g)
         \/ DeleteRows(p) \/ DeleteStore(p) \/ DeleteCommit(p) \/ DeleteRollback(p)
  PROVE  Inv'
<1>l. GoodLocal(loc[p], row)
  BY DEF Inv, Locals
<1>1. CASE \E g \in Ids : DeleteGroup(p, g)
  <2>1. PICK g \in Ids : DeleteGroup(p, g)
    BY <1>1
  <2> DEFINE l == [Idle EXCEPT !.pc = "begin", !.g = g, !.keys = KeysOf(g)]
  <2>2. row[g] \in Row /\ KeysOf(g) \subseteq Keys
    BY <2>1 DEF Inv, Tables, DeleteGroup, KeysOf
  <2>3. GoodLocal(l, row)
    BY <2>2 DEF GoodLocal, Idle, Local, PCs, Adding
  <2> QED BY <2>1, <2>3, ReadKeepsInv DEF DeleteGroup
<1>2. CASE DeleteRows(p)
  <2> DEFINE l == [loc[p] EXCEPT !.pc = IF loc[p].keys = {} THEN "commit" ELSE "empty",
                                 !.seen = SubsOf(loc[p].g) \cup UsersOf(loc[p].g)]
  <2>1. GoodLocal(l, row)
    BY <1>l, <1>2 DEF DeleteRows, GoodLocal, Local, PCs, Adding, SubsOf, UsersOf
  <2>2. CASE Read(p, l)
    BY <2>1, <2>2, ReadKeepsInv
  <2> QED BY <1>2, <2>2, RefuseKeepsInv DEF DeleteRows
<1>3. CASE DeleteStore(p)
  <2>1. CASE Refuse(p)
    BY <2>1, RefuseKeepsInv
  <2>2. CASE /\ listed' \subseteq listed /\ hashes' \subseteq hashes
             /\ doubtful' \subseteq doubtful \cup {loc[p].g}
             /\ loc' = [loc EXCEPT ![p].pc = "commit"]
             /\ loc[p].pc = "empty"
             /\ UNCHANGED <<tables, disturbed>>
    <3> DEFINE l == [loc[p] EXCEPT !.pc = "commit"]
    <3>1. GoodLocal(l, row)
      BY <1>l, <2>2 DEF GoodLocal, Local, PCs, Adding
    <3>2. loc' = [loc EXCEPT ![p] = l] /\ row' = row /\ links' = links
      BY <2>2 DEF tables, Inv, Locals
    <3>3. loc[p].g \in Ids
      BY <1>l, <2>2 DEF GoodLocal
    <3>4. Tables'
      BY <2>2, <3>3 DEF Inv, Tables, tables
    <3> QED BY <3>1, <3>2, <3>4, StepKeepsInv, SameRowsKept
  <2> QED BY <1>3, <2>1, <2>2 DEF DeleteStore
<1>4. CASE DeleteCommit(p)
  <2> DEFINE g == loc[p].g
  <2>1. g \in Ids /\ loc[p].seen \subseteq Ids
    BY <1>4, <1>l DEF DeleteCommit, GoodLocal, Local
  <2>2. /\ there' \subseteq there /\ links' \subseteq links /\ live' \subseteq live
        /\ UNCHANGED <<row, owner, sqlite, hashes, listed>>
        /\ loc' = [loc EXCEPT ![p] = Idle]
        /\ Wrote(p, {g} \cup loc[p].seen \cup UsersOf(g))
    BY <1>4 DEF DeleteCommit, Return, store
  <2>3. disturbed' \subseteq Procs /\ doubtful' \subseteq Ids
    <3>1. {g} \cup loc[p].seen \cup UsersOf(g) \subseteq Ids
      BY <2>1 DEF UsersOf
    <3> QED BY <2>2, <3>1, WroteTypes
  <2>4. Tables'
    BY <2>2, <2>3 DEF Inv, Tables
  <2> QED BY <2>2, <2>4, StepKeepsInv, SameRowsKept, IdleIsGood
<1>5. CASE DeleteRollback(p)
  <2>1. loc[p].g \in Ids
    BY <1>5, <1>l DEF DeleteRollback, GoodLocal
  <2>2. /\ UNCHANGED <<tables, store>> /\ loc' = [loc EXCEPT ![p] = Idle]
        /\ disturbed' \subseteq disturbed /\ doubtful' \subseteq doubtful \cup {loc[p].g}
    BY <1>5 DEF DeleteRollback, Return
  <2>3. Tables'
    BY <2>1, <2>2 DEF Inv, Tables, tables, store
  <2>4. row' = row /\ links' = links
    BY <2>2 DEF tables
  <2> QED BY <2>2, <2>3, <2>4, StepKeepsInv, SameRowsKept, IdleIsGood
<1> QED BY <1>1, <1>2, <1>3, <1>4, <1>5

LEMMA CopyKeepsInv ==
  ASSUME Inv, started' \in 0 .. MaxOps, NEW p \in Procs,
         \/ \E g \in Ids : CopyGroup(p, g) \/ CopyCreate(p, g)
         \/ CopyFails(p)
  PROVE  Inv'
<1>l. GoodLocal(loc[p], row)
  BY DEF Inv, Locals
<1>1. ASSUME NEW g \in Ids, CopyGroup(p, g) PROVE Inv'
  <2> DEFINE l == [Idle EXCEPT !.pc = "copy", !.g = g, !.row = row[g]]
  <2>1. row[g] \in Row
    BY <1>1 DEF Inv, Tables, CopyGroup
  <2>2. GoodLocal(l, row)
    BY <2>1 DEF GoodLocal, Idle, Local, PCs, Adding
  <2> QED BY <1>1, <2>2, ReadKeepsInv DEF CopyGroup
<1>2. ASSUME NEW n \in Ids, CopyCreate(p, n) PROVE Inv'
  <2> DEFINE l == [Idle EXCEPT !.pc = "add", !.g = n]
  <2>1. loc[p].row \in Row
    BY <1>2, <1>l DEF CopyCreate, GoodLocal
  <2>2. /\ there' = there \cup {n} /\ row' = [row EXCEPT ![n] = loc[p].row] /\ row[n] = NoRow
        /\ loc' = [loc EXCEPT ![p] = Idle] \/ loc' = [loc EXCEPT ![p] = l]
        /\ UNCHANGED <<links, owner, live, sqlite, hashes, listed, doubtful>>
        /\ disturbed' \subseteq disturbed
    BY <1>2 DEF CopyCreate, Insert, Fresh, Return, store
  <2>3. Tables'
    BY <2>1, <2>2 DEF Inv, Tables
  <2>4. Kept(row, row') /\ row'[n] \in Row
    BY <2>1, <2>2, NoRowIsNoRow DEF Kept, Inv, Tables
  <2>5. GoodLocal(l, row')
    BY <2>4 DEF GoodLocal, Idle, Local, PCs, Adding
  <2> HIDE DEF l
  <2> QED BY <2>2, <2>3, <2>4, <2>5, StepKeepsInv, IdleIsGood
<1> QED BY <1>1, <1>2, RefuseKeepsInv DEF CopyFails

LEMMA AddKeysKeepsInv ==
  ASSUME Inv, started' \in 0 .. MaxOps, NEW p \in Procs,
         \/ \E g \in Ids : AddMultipleKeys(p, g)
         \/ AddNone(p)
         \/ \E k \in Keys : AddKeys(p, k)
  PROVE  Inv'
<1>l. GoodLocal(loc[p], row)
  BY DEF Inv, Locals
<1>1. ASSUME NEW g \in Ids, AddMultipleKeys(p, g) PROVE Inv'
  <2> DEFINE l == [Idle EXCEPT !.pc = "add", !.g = g]
  <2>1. row[g] \in Row
    BY <1>1 DEF Inv, Tables, AddMultipleKeys
  <2>2. GoodLocal(l, row)
    BY <2>1 DEF GoodLocal, Idle, Local, PCs, Adding
  <2> QED BY <1>1, <2>2, ReadKeepsInv DEF AddMultipleKeys
<1>2. ASSUME NEW k \in Keys, AddKeys(p, k) PROVE Inv'
  <2>1. loc[p].g \in Ids
    BY <1>2, <1>l DEF AddKeys, GoodLocal
  <2>2. /\ owner' = [owner EXCEPT ![k] = loc[p].g]
        /\ live' = live \cup {k} /\ hashes' = hashes \cup {k} /\ listed' = listed \cup {k}
        /\ loc' = [loc EXCEPT ![p] = Idle] /\ Wrote(p, {loc[p].g})
        /\ UNCHANGED <<there, row, links, sqlite>>
    BY <1>2 DEF AddKeys, Return
  <2>3. disturbed' \subseteq Procs /\ doubtful' \subseteq Ids
    BY <2>1, <2>2, WroteTypes
  <2>4. Tables'
    BY <2>1, <2>2, <2>3 DEF Inv, Tables
  <2> QED BY <2>2, <2>4, StepKeepsInv, SameRowsKept, IdleIsGood
<1> QED BY <1>1, <1>2, RefuseKeepsInv DEF AddNone

(***************************************************************************)
(* The theorems                                                            *)
(***************************************************************************)
LEMMA InitInv == Init => Inv
<1> SUFFICES ASSUME Init PROVE Inv
  OBVIOUS
<1>1. Tables
  BY GroupsAssumption DEF Init, Tables
<1>2. Locals
  BY IdleIsGood DEF Init, Locals
<1> QED BY <1>1, <1>2 DEF Init, Inv

LEMMA NextInv == Inv /\ [Next]_vars => Inv'
<1> SUFFICES ASSUME Inv, [Next]_vars PROVE Inv'
  OBVIOUS
<1>1. CASE UNCHANGED vars
  <2>1. Tables' = Tables /\ Locals' = Locals /\ links' = links /\ row' = row
    BY <1>1 DEF vars, Tables, Locals
  <2> QED BY <2>1 DEF Inv
<1>2. CASE Next
  <2>1. PICK p \in Procs :
          \/ /\ started < MaxOps
             /\ started' = started + 1
             /\ \E g \in Ids : Begin(p, g)
          \/ Continue(p) /\ UNCHANGED started
    BY <1>2 DEF Next
  <2>2. started' \in 0 .. MaxOps
    BY <2>1, GroupsAssumption DEF Inv, Tables
  <2>3. CASE \E g \in Ids : Begin(p, g)
    BY <2>2, <2>3, CreateKeepsInv, UpdateKeepsInv, AddKeepsInv, DeleteSubGroupKeepsInv,
       DeleteKeepsInv, CopyKeepsInv, AddKeysKeepsInv DEF Begin
  <2>4. CASE Continue(p)
    BY <2>2, <2>4, UpdateKeepsInv, AddKeepsInv, DeleteKeepsInv, CopyKeepsInv, AddKeysKeepsInv
       DEF Continue
  <2> QED BY <2>1, <2>3, <2>4
<1> QED BY <1>1, <1>2

LEMMA InvHolds == Spec => []Inv
BY InitInv, NextInv, PTL DEF Spec

\* The tables, the store and what the requests hold are of their types.
THEOREM TypesHold == Spec => []TypeOK
<1>1. Inv => TypeOK
  <2> SUFFICES ASSUME Inv PROVE TypeOK
    OBVIOUS
  <2>1. loc \in [Procs -> Local]
    BY DEF Inv, Locals, GoodLocal
  <2> QED BY <2>1 DEF Inv, Tables, Locals, GoodLocal, TypeOK
<1> QED BY <1>1, InvHolds, PTL

\* However the requests interleave, a link leads from an aggregate group to
\* a standard one, so that the selection of a sub-group never recurses.
THEOREM NoGroupNests == Spec => []NoNesting
<1>1. Inv => NoNesting
  BY DEF Inv, Linked, NoNesting
<1> QED BY <1>1, InvHolds, PTL

(***************************************************************************)
(* The tables and the store.  The invariant says, of each request that is  *)
(* not disturbed, that what it has read is still so; and of the others,    *)
(* what the locks and the checks alone guarantee.                          *)
(***************************************************************************)
Agree(k)   == (k \in live <=> k \in hashes) /\ (k \in live <=> k \in listed)
StoreOf(g) == {k \in hashes \cup listed : owner[k] = g}

AtRows     == {"empty", "commit"}
Holding(p) == loc[p].pc \in AtRows

\* The store has forgotten keys of the group, its deletion is not committed.
Emptied(g) == \E p \in Procs : loc[p].pc = "commit" /\ loc[p].g = g /\ loc[p].keys # {}

\* What ValidateSubGroups asks of the members ss of a group g.
Member(s, g)  == s \in there /\ row[s].channel = row[g].channel
Strict(g)     == Default[row[g].channel] # NoEndpoint
AllMatch(g, ss) ==
  \A s, t \in ss : Member(s, g) /\ (Strict(g) => Effective(row[s]) = Effective(row[t]))

\* What holds of every request, disturbed or not.
Firm(p) ==
  /\ loc[p].pc \in {"count", "save"} /\ row[loc[p].g].type = "aggregate" =>
       loc[p].new.channel = row[loc[p].g].channel
  /\ loc[p].pc \in Adding => loc[p].row.channel = row[loc[p].g].channel
  /\ loc[p].pc \in {"begin"} \cup AtRows => \A k \in loc[p].keys : owner[k] = loc[p].g
  /\ Holding(p) => loc[p].g \in there
  /\ loc[p].pc = "empty" => loc[p].keys # {}
  /\ \A s \in loc[p].seen : row[s] \in Row

\* What an undisturbed request relies on.
NeedsGroup == {"count", "save", "add"} \cup Adding

Exists(p)  == loc[p].pc \in NeedsGroup => loc[p].g \in there
RowRead(p) == loc[p].pc \in {"count", "save"} => loc[p].row = row[loc[p].g]
Counted(p) == loc[p].pc = "save" =>
  row[loc[p].g].type = "aggregate" \/ UsersOf(loc[p].g) = {} \/ loc[p].new = row[loc[p].g]
LinksRead(p) == loc[p].pc \in {"endpoint", "validate", "insert"} => loc[p].seen = SubsOf(loc[p].g)
EndpointRead(p) ==
  loc[p].pc \in {"validate", "insert"} /\ loc[p].g \notin doubtful /\ Strict(loc[p].g) =>
    /\ \A s \in loc[p].seen : Effective(row[s]) = loc[p].row.endpoint
    /\ loc[p].seen = {} => loc[p].row.endpoint = NoEndpoint
SubsRead(p) == loc[p].pc = "insert" => Valid(loc[p].row, loc[p].subs)
KeysRead(p) == loc[p].pc \in {"begin"} \cup AtRows => loc[p].keys = KeysOf(loc[p].g)
LinksFound(p) == Holding(p) => SubsOf(loc[p].g) \cup UsersOf(loc[p].g) \subseteq loc[p].seen
StoreLeft(p) ==
  loc[p].pc = "commit" /\ loc[p].g \notin doubtful => StoreOf(loc[p].g) = {}

Standing(p) ==
  /\ Exists(p) /\ RowRead(p) /\ Counted(p) /\ LinksRead(p) /\ EndpointRead(p) /\ SubsRead(p)
  /\ KeysRead(p) /\ LinksFound(p) /\ StoreLeft(p)

OneDeletes == \A p, q \in Procs : Holding(p) /\ Holding(q) /\ loc[p].g = loc[q].g => p = q
Owned      == \A k \in Keys : owner[k] # None => row[owner[k]] \in Row
Served     == \A k \in Keys : owner[k] \in there \ doubtful /\ ~Emptied(owner[k]) => Agree(k)
Vanished(g) == SubsOf(g) = {} /\ UsersOf(g) = {} /\ KeysOf(g) = {} /\ StoreOf(g) = {}
Gone       == \A g \in Ids \ (there \cup doubtful) : Vanished(g)
Alike      == \A a \in there \ doubtful : AllMatch(a, SubsOf(a))

Whole ==
  /\ Inv
  /\ \A p \in Procs : Firm(p)
  /\ \A p \in Procs \ disturbed : Standing(p)
  /\ OneDeletes /\ Owned /\ Served /\ Gone /\ Alike

(***************************************************************************)
(* What a step must leave as it is for a request that has looked at h.     *)
(***************************************************************************)
Same(h) ==
  /\ h \in there => h \in there'
  /\ row'[h] = row[h]
  /\ \A g \in Ids : /\ <<h, g>> \in links' <=> <<h, g>> \in links
                    /\ <<g, h>> \in links' <=> <<g, h>> \in links
  /\ \A k \in Keys : k \in live' /\ owner'[k] = h <=> k \in live /\ owner[k] = h
  /\ \A k \in Keys : k \in hashes' \cup listed' /\ owner'[k] = h
                       => k \in hashes \cup listed /\ owner[k] = h

\* What every step leaves: types, channels of aggregate groups, owners of keys.
Steady ==
  /\ Kept(row, row')
  /\ \A g \in Ids : row[g] \in Row /\ row[g].type = "aggregate" =>
                      row'[g].channel = row[g].channel
  /\ \A k \in Keys : owner[k] # None => owner'[k] = owner[k]
  /\ doubtful \subseteq doubtful'

LEMMA NoneIsNoId == None \notin Ids
BY GroupsAssumption

LEMMA FirmKept ==
  ASSUME Whole, NEW q \in Procs, loc'[q] = loc[q], Steady,
         Holding(q) => loc[q].g \in there'
  PROVE  Firm(q)'
<1>1. GoodLocal(loc[q], row) /\ Firm(q) /\ owner \in [Keys -> Ids \cup {None}]
  BY DEF Whole, Inv, Locals, Tables
<1>2. loc[q].pc # "idle" => loc[q].g \in Ids /\ row[loc[q].g] \in Row
  BY <1>1 DEF GoodLocal
<1>3. loc[q].seen \subseteq Ids /\ loc[q].keys \subseteq Keys
  BY <1>1 DEF GoodLocal, Local
<1>4. loc'[q].pc \in {"count", "save"} /\ row'[loc'[q].g].type = "aggregate" =>
        loc'[q].new.channel = row'[loc'[q].g].channel
  BY <1>1, <1>2 DEF Firm, Steady, Kept
<1>5. loc'[q].pc \in Adding => loc'[q].row.channel = row'[loc'[q].g].channel
  BY <1>1, <1>2 DEF Firm, Steady, GoodLocal, Adding
<1>6. loc'[q].pc \in {"begin"} \cup AtRows => \A k \in loc'[q].keys : owner'[k] = loc'[q].g
  BY <1>1, <1>2, <1>3, NoneIsNoId DEF Firm, Steady, AtRows
<1>7. \A s \in loc'[q].seen : row'[s] \in Row
  BY <1>1, <1>3 DEF Firm, Steady, Kept
<1> QED BY <1>1, <1>4, <1>5, <1>6, <1>7 DEF Firm, Holding

LEMMA StandingKept ==
  ASSUME Whole, Inv', NEW q \in Procs, loc'[q] = loc[q], Standing(q), doubtful \subseteq doubtful',
         \A h \in LookedAt(q) \cap Ids : Same(h)
  PROVE  Standing(q)'
<1> DEFINE l == loc[q]
<1>1. GoodLocal(l, row)
  BY DEF Whole, Inv, Locals
<1>2. l.pc # "idle" => l.g \in Ids /\ Same(l.g)
  BY <1>1 DEF GoodLocal, LookedAt
<1>3. \A s \in l.seen : s \in Ids /\ Same(s)
  BY <1>1 DEF GoodLocal, Local, LookedAt
<1>4. l.pc = "insert" => \A s \in l.subs : s \in Ids /\ Same(s)
  BY <1>1 DEF GoodLocal, Local, LookedAt
<1>5. Exists(q)'
  BY <1>2 DEF Standing, Exists, NeedsGroup, Same, Adding
<1>6. RowRead(q)'
  BY <1>2 DEF Standing, RowRead, Same
<1>7. l.pc # "idle" => SubsOf(l.g)' = SubsOf(l.g) /\ UsersOf(l.g)' = UsersOf(l.g)
  BY <1>2 DEF Same, SubsOf, UsersOf
<1>8. Counted(q)'
  BY <1>2, <1>7 DEF Standing, Counted, Same
<1>9. LinksRead(q)'
  BY <1>7 DEF Standing, LinksRead
<1>t. live \subseteq Keys /\ hashes \subseteq Keys /\ listed \subseteq Keys
       /\ live' \subseteq Keys /\ hashes' \subseteq Keys /\ listed' \subseteq Keys
  BY DEF Whole, Inv, Tables
<1>10. EndpointRead(q)'
  <2> SUFFICES ASSUME l.pc \in {"validate", "insert"}, l.g \notin doubtful', Strict(l.g)'
               PROVE  /\ \A s \in l.seen : Effective(row'[s]) = l.row.endpoint
                      /\ l.seen = {} => l.row.endpoint = NoEndpoint
    BY DEF EndpointRead
  <2>1. row'[l.g] = row[l.g] /\ \A s \in l.seen : row'[s] = row[s]
    BY <1>2, <1>3 DEF Same
  <2>2. l.g \notin doubtful /\ Strict(l.g)
    BY <2>1 DEF Strict
  <2>3. EndpointRead(q)
    BY DEF Standing
  <2> QED BY <2>1, <2>2, <2>3 DEF EndpointRead
<1>11. SubsRead(q)'
  <2> SUFFICES ASSUME l.pc = "insert" PROVE Valid(l.row, l.subs)'
    BY DEF SubsRead
  <2>1. Valid(l.row, l.subs)
    BY DEF Standing, SubsRead
  <2>2. \A s \in l.subs : row'[s] = row[s] /\ (s \in there => s \in there')
    BY <1>4 DEF Same
  <2>3. {Effective(row'[s]) : s \in l.subs} = {Effective(row[s]) : s \in l.subs}
    BY <2>2
  <2> QED BY <2>1, <2>2, <2>3 DEF Valid
<1>12. KeysRead(q)'
  <2>1. l.pc # "idle" => {k \in live' : owner'[k] = l.g} = KeysOf(l.g)
    BY <1>2, <1>t DEF Same, KeysOf
  <2> QED BY <2>1 DEF Standing, KeysRead, KeysOf, AtRows
<1>13. LinksFound(q)'
  BY <1>7 DEF Standing, LinksFound, Holding, AtRows
<1>14. StoreLeft(q)'
  <2>1. l.pc # "idle" => {k \in hashes' \cup listed' : owner'[k] = l.g} \subseteq StoreOf(l.g)
    BY <1>2, <1>t DEF Same, StoreOf
  <2> QED BY <2>1 DEF Standing, StoreLeft, StoreOf
<1> QED BY <1>5, <1>6, <1>8, <1>9, <1>10, <1>11, <1>12, <1>13, <1>14 DEF Standing

LEMMA IdleStands ==
  ASSUME NEW p \in Procs, loc[p].pc = "idle", loc[p].seen = {}
  PROVE  Firm(p) /\ Standing(p)
BY DEF Firm, Standing, Exists, RowRead, Counted, LinksRead, EndpointRead, SubsRead, KeysRead,
   LinksFound, StoreLeft, Holding, NeedsGroup, AtRows, Adding

(***************************************************************************)
(* A step that writes to the groups gs, or to none.                        *)
(***************************************************************************)
Spares(p, gs) ==
  \A q \in Procs \ {p} : q \notin disturbed' /\ loc[q].pc # "idle" =>
                           q \notin disturbed /\ LookedAt(q) \cap gs = {}

LEMMA StepKeepsWhole ==
  ASSUME Whole, Inv', NEW p \in Procs, NEW l, NEW gs,
         loc' = [loc EXCEPT ![p] = l],
         Firm(p)', p \notin disturbed' => Standing(p)',
         Spares(p, gs), \A h \in Ids \ gs : Same(h),
         Steady, \A q \in Procs \ {p} : Holding(q) => loc[q].g \in there',
         OneDeletes', Owned', Served', Gone', Alike'
  PROVE  Whole'
<1>1. \A q \in Procs \ {p} : loc'[q] = loc[q]
  BY DEF Whole, Inv, Locals
<1>2. ASSUME NEW q \in Procs PROVE Firm(q)'
  <2>1. CASE q = p
    BY <2>1
  <2>2. CASE q # p
    BY <1>1, <2>2, FirmKept
  <2> QED BY <2>1, <2>2
<1>3. ASSUME NEW q \in Procs, q \notin disturbed' PROVE Standing(q)'
  <2>1. CASE q = p
    BY <1>3, <2>1
  <2>2. CASE q # p /\ loc[q].pc # "idle"
    <3>1. q \notin disturbed /\ \A h \in LookedAt(q) \cap Ids : h \in Ids \ gs
      BY <1>3, <2>2 DEF Spares
    <3>2. \A h \in LookedAt(q) \cap Ids : Same(h)
      BY <3>1
    <3>3. Standing(q)
      BY <3>1 DEF Whole
    <3>4. doubtful \subseteq doubtful'
      BY DEF Steady
    <3> QED BY <1>1, <2>2, <3>2, <3>3, <3>4, StandingKept
  <2>3. CASE q # p /\ loc[q].pc = "idle"
    <3>1. loc'[q].pc = "idle"
      BY <1>1, <2>3
    <3> QED BY <3>1 DEF Standing, Exists, RowRead, Counted, LinksRead, EndpointRead, SubsRead,
                KeysRead, LinksFound, StoreLeft, Holding, NeedsGroup, AtRows, Adding
  <2> QED BY <2>1, <2>2, <2>3
<1> QED BY <1>2, <1>3 DEF Whole

LEMMA IdleStandsNow ==
  ASSUME NEW p \in Procs, loc'[p] = Idle
  PROVE  Firm(p)' /\ Standing(p)' /\ ~Holding(p)'
BY DEF Idle, Firm, Standing, Exists, RowRead, Counted, LinksRead, EndpointRead, SubsRead, KeysRead,
   LinksFound, StoreLeft, Holding, NeedsGroup, AtRows, Adding

\* One deletes: a request that does not come to hold a row changes nothing.
LEMMA NoNewHolder ==
  ASSUME Whole, NEW p \in Procs, NEW l, loc' = [loc EXCEPT ![p] = l],
         l.pc \in AtRows => /\ l.g = loc[p].g /\ Holding(p)
  PROVE  OneDeletes'
<1>1. \A q \in Procs : loc'[q] = IF q = p THEN l ELSE loc[q]
  BY DEF Whole, Inv, Locals
<1> QED BY <1>1 DEF Whole, OneDeletes, Holding

LEMMA ServedBefore ==
  ASSUME Whole, NEW p \in Procs, NEW l, loc' = [loc EXCEPT ![p] = l],
         NEW k \in Keys, owner[k] \in there \ doubtful,
         loc[p].pc # "commit" \/ loc[p].g # owner[k] \/ loc[p].keys = {},
         ~(\E q \in Procs : loc'[q].pc = "commit" /\ loc'[q].g = owner[k] /\ loc'[q].keys # {})
  PROVE  Agree(k)
<1>1. \A q \in Procs \ {p} : loc'[q] = loc[q]
  BY DEF Whole, Inv, Locals
<1>2. ~Emptied(owner[k])
  BY <1>1 DEF Emptied
<1>3. Served
  BY DEF Whole
<1> QED BY <1>2, <1>3 DEF Served

\* Reads and refusals; l is what the request holds afterwards.
LEMMA QuietKeepsWhole ==
  ASSUME Whole, Inv', NEW p \in Procs, NEW l, loc' = [loc EXCEPT ![p] = l],
         UNCHANGED <<tables, store, doubtful>>,
         Spares(p, {}), Firm(p)', p \notin disturbed' => Standing(p)',
         loc[p].pc # "commit", OneDeletes'
  PROVE  Whole'
<1>1. UNCHANGED <<there, row, links, owner, live, hashes, listed, doubtful>>
  BY DEF tables, store
<1>2. \A h \in Ids \ {} : Same(h)
  BY <1>1 DEF Same
<1>3. Steady
  BY <1>1 DEF Steady, Kept
<1>5. \A q \in Procs \ {p} : Holding(q) => loc[q].g \in there'
  BY <1>1 DEF Whole, Firm
<1>6. Owned' /\ Gone' /\ Alike'
  BY <1>1 DEF Whole, Owned, Gone, Vanished, SubsOf, UsersOf, KeysOf, StoreOf, Alike, AllMatch,
     Member, Strict
<1>7. Served'
  <2>1. ASSUME NEW k \in Keys, owner[k] \in there \ doubtful, ~(Emptied(owner[k])')
        PROVE  Agree(k)
    <3> DEFINE g == owner[k]
    <3>1. ~(\E q \in Procs : loc'[q].pc = "commit" /\ loc'[q].g = g /\ loc'[q].keys # {})
      BY <1>1, <2>1 DEF Emptied
    <3> QED BY <2>1, <3>1, ServedBefore
  <2> QED BY <1>1, <2>1 DEF Served, Agree, Emptied
<1> QED BY <1>2, <1>3, <1>5, <1>6, <1>7, StepKeepsWhole

LEMMA ReadKeepsWhole ==
  ASSUME Whole, Inv', NEW p \in Procs, NEW l, Read(p, l),
         Firm(p)', p \notin disturbed => Standing(p)',
         loc[p].pc # "commit", OneDeletes'
  PROVE  Whole'
<1>1. loc' = [loc EXCEPT ![p] = l] /\ UNCHANGED <<tables, store, doubtful>>
  BY DEF Read, ghosts
<1>2. disturbed' = disturbed
  BY DEF Read, ghosts
<1>3. Spares(p, {})
  BY <1>2 DEF Spares
<1> QED BY <1>1, <1>2, <1>3, QuietKeepsWhole

LEMMA RefuseKeepsWhole ==
  ASSUME Whole, Inv', NEW p \in Procs, Refuse(p), loc[p].pc # "commit"
  PROVE  Whole'
<1>1. loc' = [loc EXCEPT ![p] = Idle] /\ UNCHANGED <<tables, store, doubtful>>
      /\ disturbed' = disturbed \ {p}
  BY DEF Refuse, Return
<1>2. loc'[p] = Idle
  BY <1>1 DEF Whole, Inv, Locals
<1>3. OneDeletes'
  BY <1>1, NoNewHolder DEF Idle, AtRows
<1>4. Spares(p, {})
  BY <1>1 DEF Spares
<1> QED BY <1>1, <1>2, <1>3, <1>4, IdleStandsNow, QuietKeepsWhole

LEMMA LookKeepsWhole ==
  ASSUME Whole, Inv', NEW p \in Procs, NEW l, Read(p, l), loc[p].pc # "commit", l.pc \notin AtRows,
         loc'[p] = l /\ UNCHANGED <<there, row, links, owner, live, hashes, listed, disturbed, doubtful>>
           => Firm(p)' /\ (p \notin disturbed => Standing(p)')
  PROVE  Whole'
<1>1. loc'[p] = l /\ UNCHANGED <<there, row, links, owner, live, hashes, listed, disturbed, doubtful>>
  BY DEF Read, tables, store, ghosts, Whole, Inv, Locals
<1>2. loc' = [loc EXCEPT ![p] = l]
  BY DEF Read
<1>3. OneDeletes'
  BY <1>2, NoNewHolder
<1> QED BY <1>1, <1>3, ReadKeepsWhole

LEMMA ChangedKeeps ==
  ASSUME NEW r \in Row, NEW c
  PROVE  /\ r.type = "aggregate" => Changed(r, c).channel = r.channel
         /\ c = [channel |-> None, endpoint |-> None] => Changed(r, c) = r
<1>1. r.type = "aggregate" => Changed(r, c).channel = r.channel
  BY DEF Changed, Row
<1>2. ASSUME c = [channel |-> None, endpoint |-> None] PROVE Changed(r, c) = r
  <2>1. c.channel = None /\ c.endpoint = None
    BY <1>2
  <2>2. DOMAIN r = {"type", "channel", "endpoint"}
        /\ r = [type |-> r.type, channel |-> r.channel, endpoint |-> r.endpoint]
    BY DEF Row
  <2> QED BY <2>1, <2>2 DEF Changed
<1> QED BY <1>1, <1>2

LEMMA UpdateReadsWhole ==
  ASSUME Whole, Inv', NEW p \in Procs,
         (\E g \in Ids, c \in Changes : UpdateGroup(p, g, c)) \/ UpdateCount(p)
  PROVE  Whole'
<1>l. GoodLocal(loc[p], row) /\ Firm(p) /\ (p \notin disturbed => Standing(p))
  BY DEF Whole, Inv, Locals
<1>1. CASE \E g \in Ids, c \in Changes : UpdateGroup(p, g, c)
  <2>1. PICK g \in Ids, c \in Changes : UpdateGroup(p, g, c)
    BY <1>1
  <2>2. row[g] \in Row /\ g \in there
    BY <2>1 DEF Whole, Inv, Tables, UpdateGroup
  <2> DEFINE l == [Idle EXCEPT !.g = g, !.row = row[g], !.new = Changed(row[g], c),
                     !.pc = IF row[g].type # "aggregate" /\ c # [channel |-> None, endpoint |-> None]
                              THEN "count" ELSE "save"]
  <2>3. Read(p, l) /\ loc[p].pc = "idle"
    <3>1. Read(p, l)
      BY <2>1 DEF UpdateGroup
    <3>2. loc[p] = Idle
      BY <2>1 DEF UpdateGroup
    <3> QED BY ONLY <3>1, <3>2 DEF Idle
  <2>4. /\ l.g = g /\ l.row = row[g] /\ l.new = Changed(row[g], c) /\ l.seen = {}
        /\ l.pc \in {"count", "save"}
        /\ l.pc = "save" => row[g].type = "aggregate" \/ c = [channel |-> None, endpoint |-> None]
    BY DEF Idle
  <2>5. row[g].type = "aggregate" => l.new.channel = row[g].channel
    BY <2>2, <2>4, ChangedKeeps
  <2>6. c = [channel |-> None, endpoint |-> None] => l.new = row[g]
    BY <2>2, <2>4, ChangedKeeps
  <2> HIDE DEF l
  <2>7. ASSUME loc'[p] = l, UNCHANGED <<there, row, links, owner, live, hashes, listed, disturbed, doubtful>>
        PROVE  Firm(p)' /\ Standing(p)'
    <3>1. Firm(p)'
      BY <2>4, <2>5, <2>7 DEF Firm, Adding, AtRows, Holding
    <3>2. Exists(p)' /\ RowRead(p)' /\ Counted(p)'
      BY <2>2, <2>4, <2>6, <2>7 DEF Exists, RowRead, Counted
    <3> QED BY <3>1, <3>2, <2>4, <2>7 DEF Standing, LinksRead, EndpointRead, SubsRead, KeysRead,
             LinksFound, StoreLeft, Holding, AtRows
  <2> QED BY <2>3, <2>4, <2>7, LookKeepsWhole DEF AtRows
<1>2. CASE UpdateCount(p)
  <2>1. CASE /\ loc[p].pc = "count" /\ Read(p, [loc[p] EXCEPT !.pc = "save"])
             /\ UsersOf(loc[p].g) = {} \/ loc[p].new = loc[p].row
    <3> DEFINE l == [loc[p] EXCEPT !.pc = "save"]
    <3>1. l.pc = "save" /\ l.g = loc[p].g /\ l.row = loc[p].row /\ l.new = loc[p].new /\ l.seen = loc[p].seen
      BY <1>l DEF GoodLocal, Local
    <3> HIDE DEF l
    <3>2. ASSUME loc'[p] = l, UNCHANGED <<there, row, links, owner, live, hashes, listed, disturbed, doubtful>>
          PROVE  Firm(p)' /\ (p \notin disturbed => Standing(p)')
      <4>1. Firm(p)'
        BY <1>l, <2>1, <3>1, <3>2 DEF Firm, Adding, AtRows, Holding
      <4>2. ASSUME p \notin disturbed PROVE Standing(p)'
        <5>1. loc[p].g \in there /\ loc[p].row = row[loc[p].g]
          BY <1>l, <2>1, <4>2 DEF Standing, Exists, RowRead, NeedsGroup
        <5>2. Exists(p)' /\ RowRead(p)'
          BY <3>1, <3>2, <5>1 DEF Exists, RowRead
        <5>3. Counted(p)'
          BY <2>1, <3>1, <3>2, <5>1 DEF Counted, UsersOf
        <5> QED BY <5>2, <5>3, <3>1, <3>2 DEF Standing, LinksRead, EndpointRead, SubsRead, KeysRead,
                LinksFound, StoreLeft, Holding, AtRows
      <4> QED BY <4>1, <4>2
    <3>3. Read(p, l)
      BY <2>1 DEF l
    <3> QED BY <2>1, <3>1, <3>2, <3>3, LookKeepsWhole DEF AtRows
  <2>2. CASE Refuse(p) /\ loc[p].pc = "count"
    BY <2>2, RefuseKeepsWhole
  <2> QED BY <1>2, <2>1, <2>2 DEF UpdateCount
<1> QED BY <1>1, <1>2

LEMMA CopyReadsWhole ==
  ASSUME Whole, Inv', NEW p \in Procs,
         \/ \E g \in Ids : CopyGroup(p, g) \/ AddMultipleKeys(p, g)
         \/ CopyFails(p) \/ AddNone(p)
  PROVE  Whole'
<1>1. ASSUME NEW g \in Ids, CopyGroup(p, g) PROVE Whole'
  <2> DEFINE l == [Idle EXCEPT !.pc = "copy", !.g = g, !.row = row[g]]
  <2>1. Read(p, l) /\ loc[p].pc = "idle" /\ l.pc = "copy" /\ l.seen = {}
    <3>1. Read(p, l) /\ loc[p] = Idle
      BY <1>1 DEF CopyGroup
    <3>2. l.pc = "copy" /\ l.seen = {}
      BY DEF Idle
    <3>3. Idle.pc = "idle"
      BY DEF Idle
    <3> QED BY <3>1, <3>2, <3>3
  <2> HIDE DEF l
  <2>2. ASSUME loc'[p] = l PROVE Firm(p)' /\ Standing(p)'
    BY <2>1, <2>2 DEF Firm, Standing, Exists, RowRead, Counted, LinksRead, EndpointRead, SubsRead,
       KeysRead, LinksFound, StoreLeft, Holding, NeedsGroup, AtRows, Adding
  <2> QED BY <2>1, <2>2, LookKeepsWhole DEF AtRows
<1>2. ASSUME NEW g \in Ids, AddMultipleKeys(p, g) PROVE Whole'
  <2> DEFINE l == [Idle EXCEPT !.pc = "add", !.g = g]
  <2>1. Read(p, l) /\ loc[p].pc = "idle" /\ l.pc = "add" /\ l.seen = {} /\ l.g = g /\ g \in there
    <3>1. Read(p, l) /\ loc[p] = Idle /\ g \in there
      BY <1>2 DEF AddMultipleKeys
    <3>2. l.pc = "add" /\ l.seen = {} /\ l.g = g
      BY DEF Idle
    <3>3. Idle.pc = "idle"
      BY DEF Idle
    <3> QED BY <3>1, <3>2, <3>3
  <2> HIDE DEF l
  <2>2. ASSUME loc'[p] = l, there' = there PROVE Firm(p)' /\ Standing(p)'
    BY <2>1, <2>2 DEF Firm, Standing, Exists, RowRead, Counted, LinksRead, EndpointRead, SubsRead,
       KeysRead, LinksFound, StoreLeft, Holding, NeedsGroup, AtRows, Adding
  <2> QED BY <2>1, <2>2, LookKeepsWhole DEF AtRows
<1>3. CASE CopyFails(p) \/ AddNone(p)
  <2>1. Refuse(p) /\ loc[p].pc # "commit"
    BY <1>3 DEF CopyFails, AddNone
  <2> QED BY <2>1, RefuseKeepsWhole
<1> QED BY <1>1, <1>2, <1>3

LEMMA DeleteReadsWhole ==
  ASSUME Whole, Inv', NEW p \in Procs,
         (\E g \in Ids : DeleteGroup(p, g)) \/ DeleteRows(p)
  PROVE  Whole'
<1>l. GoodLocal(loc[p], row) /\ Firm(p) /\ (p \notin disturbed => Standing(p))
  BY DEF Whole, Inv, Locals
<1>1. ASSUME NEW g \in Ids, DeleteGroup(p, g) PROVE Whole'
  <2> DEFINE l == [Idle EXCEPT !.pc = "begin", !.g = g, !.keys = KeysOf(g)]
  <2>1. Read(p, l) /\ loc[p].pc = "idle" /\ l.pc = "begin" /\ l.seen = {} /\ l.g = g /\ l.keys = KeysOf(g)
    <3>1. Read(p, l) /\ loc[p] = Idle
      BY <1>1 DEF DeleteGroup
    <3>2. l.pc = "begin" /\ l.seen = {} /\ l.g = g /\ l.keys = KeysOf(g)
      BY DEF Idle
    <3>3. Idle.pc = "idle"
      BY DEF Idle
    <3> QED BY <3>1, <3>2, <3>3
  <2> HIDE DEF l
  <2>2. ASSUME loc'[p] = l, live' = live, owner' = owner PROVE Firm(p)' /\ Standing(p)'
    BY <2>1, <2>2 DEF Firm, Standing, Exists, RowRead, Counted, LinksRead, EndpointRead, SubsRead,
       KeysRead, LinksFound, StoreLeft, Holding, NeedsGroup, AtRows, Adding, KeysOf
  <2> QED BY <2>1, <2>2, LookKeepsWhole DEF AtRows
<1>2. CASE DeleteRows(p)
  <2> DEFINE l == [loc[p] EXCEPT !.pc = IF loc[p].keys = {} THEN "commit" ELSE "empty",
                                 !.seen = SubsOf(loc[p].g) \cup UsersOf(loc[p].g)]
             g == loc[p].g
  <2>1. CASE loc[p].pc = "begin" /\ g \in there /\ MayWrite(g) /\ Read(p, l)
    <3>1. /\ l.g = g /\ l.keys = loc[p].keys /\ l.seen = SubsOf(g) \cup UsersOf(g)
          /\ l.pc = IF loc[p].keys = {} THEN "commit" ELSE "empty"
      BY <1>l DEF GoodLocal, Local
    <3>2. g \in Ids
      BY <1>l, <2>1 DEF GoodLocal
    <3>3. Read(p, l)
      BY <2>1
    <3> HIDE DEF l
    <3>4. /\ loc' = [loc EXCEPT ![p] = l] /\ loc'[p] = l
          /\ UNCHANGED <<there, row, links, owner, live, hashes, listed, disturbed, doubtful>>
      BY <3>3 DEF Read, tables, store, ghosts, Whole, Inv, Locals
    <3>5. ~Deleting(g)
      BY <2>1, <3>2 DEF MayWrite
    <3>6. OneDeletes'
      <4>1. \A q \in Procs \ {p} : loc'[q] = loc[q]
        BY <3>4 DEF Whole, Inv, Locals
      <4>2. \A q \in Procs \ {p} : Holding(q)' => loc'[q].g # g
        BY <4>1, <3>5 DEF Holding, AtRows, Deleting
      <4>3. OneDeletes
        BY DEF Whole
      <4> QED BY <3>1, <3>4, <4>1, <4>2, <4>3 DEF OneDeletes, Holding
    <3>7. Firm(p)'
      <4>1. \A k \in l.keys : owner[k] = g
        BY <1>l, <2>1, <3>1 DEF Firm
      <4>2. \A s \in l.seen : row[s] \in Row
        BY <3>1, <3>2 DEF SubsOf, UsersOf, Whole, Inv, Linked
      <4> QED BY <2>1, <3>1, <3>4, <4>1, <4>2 DEF Firm, Holding, AtRows, Adding
    <3>8. ASSUME p \notin disturbed PROVE Standing(p)'
      <4>1. loc[p].keys = KeysOf(g)
        BY <1>l, <2>1, <3>8 DEF Standing, KeysRead
      <4>2. KeysRead(p)'
        BY <3>1, <3>4, <4>1 DEF KeysRead, KeysOf
      <4>3. LinksFound(p)'
        BY <3>1, <3>4 DEF LinksFound, SubsOf, UsersOf
      <4>4. StoreLeft(p)'
        <5> SUFFICES ASSUME KeysOf(g) = {}, g \notin doubtful PROVE StoreOf(g) = {}
          BY <3>1, <3>4, <4>1 DEF StoreLeft, StoreOf
        <5>1. ~Emptied(g)
          BY <3>5 DEF Emptied, Deleting
        <5>2. Served /\ hashes \subseteq Keys /\ listed \subseteq Keys
          BY DEF Whole, Inv, Tables
        <5>3. ASSUME NEW k \in Keys, owner[k] = g PROVE Agree(k) /\ k \notin live
          <6>1. Agree(k)
            BY <2>1, <5>1, <5>2, <5>3 DEF Served
          <6> QED BY <6>1, <5>3 DEF KeysOf
        <5> QED BY <5>2, <5>3 DEF StoreOf, Agree
      <4> QED BY <3>1, <3>4, <4>2, <4>3, <4>4 DEF Standing, Exists, RowRead, Counted, LinksRead,
              EndpointRead, SubsRead, NeedsGroup, Adding
    <3> QED BY <2>1, <3>3, <3>6, <3>7, <3>8, ReadKeepsWhole
  <2>2. CASE Refuse(p) /\ loc[p].pc = "begin"
    BY <2>2, RefuseKeepsWhole
  <2> QED BY <1>2, <2>1, <2>2 DEF DeleteRows
<1> QED BY <1>1, <1>2

LEMMA AddReadsWhole ==
  ASSUME Whole, Inv', NEW p \in Procs,
         \/ \E a \in Ids, subs \in Inputs : AddSubGroups(p, a, subs)
         \/ AddLinks(p) \/ AddEndpoint(p) \/ AddValidate(p)
  PROVE  Whole'
<1> DEFINE g == loc[p].g
<1>l. GoodLocal(loc[p], row) /\ Firm(p) /\ (p \notin disturbed => Standing(p))
  BY DEF Whole, Inv, Locals
<1>1. CASE \E a \in Ids, subs \in Inputs : AddSubGroups(p, a, subs)
  <2>1. PICK a \in Ids, subs \in Inputs : AddSubGroups(p, a, subs)
    BY <1>1
  <2> DEFINE l == [Idle EXCEPT !.pc = "links", !.g = a, !.row = row[a], !.subs = subs]
  <2>2. Read(p, l) /\ loc[p] = Idle /\ a \in there
    BY <2>1 DEF AddSubGroups
  <2>3. loc[p].pc = "idle"
    BY <2>2 DEF Idle
  <2>4. l.pc = "links" /\ l.seen = {} /\ l.g = a /\ l.row = row[a]
    BY DEF Idle
  <2> HIDE DEF l
  <2>5. ASSUME loc'[p] = l, there' = there, row' = row PROVE Firm(p)' /\ Standing(p)'
    BY <2>2, <2>4, <2>5 DEF Firm, Standing, Exists, RowRead, Counted, LinksRead, EndpointRead,
       SubsRead, KeysRead, LinksFound, StoreLeft, Holding, NeedsGroup, AtRows, Adding
  <2> QED BY <2>2, <2>3, <2>4, <2>5, LookKeepsWhole DEF AtRows
<1>2. CASE AddLinks(p)
  <2> DEFINE l == [loc[p] EXCEPT !.pc = "endpoint", !.seen = SubsOf(g)]
  <2>1. l.pc = "endpoint" /\ l.g = g /\ l.row = loc[p].row /\ l.seen = SubsOf(g)
    BY <1>l DEF GoodLocal, Local
  <2>2. Read(p, l) /\ loc[p].pc = "links"
    BY <1>2 DEF AddLinks
  <2> HIDE DEF l
  <2>3. ASSUME loc'[p] = l, there' = there, row' = row, links' = links
        PROVE  Firm(p)' /\ (p \notin disturbed => Standing(p)')
    <3>1. \A s \in SubsOf(g) : row[s] \in Row
      BY DEF SubsOf, Whole, Inv, Linked
    <3>2. Firm(p)'
      BY <1>l, <2>1, <2>2, <2>3, <3>1 DEF Firm, Holding, AtRows, Adding
    <3>3. ASSUME p \notin disturbed PROVE Standing(p)'
      <4>1. g \in there
        BY <1>l, <2>2, <3>3 DEF Standing, Exists, NeedsGroup, Adding
      <4>2. LinksRead(p)'
        BY <2>1, <2>3 DEF LinksRead, SubsOf
      <4> QED BY <2>1, <2>3, <4>1, <4>2 DEF Standing, Exists, RowRead, Counted, EndpointRead,
              SubsRead, KeysRead, LinksFound, StoreLeft, Holding, NeedsGroup, AtRows
    <3> QED BY <3>2, <3>3
  <2> QED BY <2>1, <2>2, <2>3, LookKeepsWhole DEF AtRows
<1>3. CASE AddEndpoint(p)
  <2>1. PICK e \in Endpoints :
          /\ IF loc[p].seen = {} THEN e = NoEndpoint
             ELSE \E s \in loc[p].seen : e = IF s \in there THEN Effective(row[s]) ELSE NoEndpoint
          /\ Read(p, [loc[p] EXCEPT !.pc = "validate", !.row.endpoint = e])
    BY <1>3 DEF AddEndpoint
  <2> DEFINE l == [loc[p] EXCEPT !.pc = "validate", !.row.endpoint = e]
  <2>2. loc[p].pc = "endpoint" /\ loc[p].row \in Row
    BY <1>3, <1>l DEF AddEndpoint, GoodLocal, Adding
  <2>3. /\ l.pc = "validate" /\ l.g = g /\ l.seen = loc[p].seen
        /\ l.row.channel = loc[p].row.channel /\ l.row.endpoint = e
    BY <1>l, <2>2 DEF GoodLocal, Local, Row
  <2>4. Read(p, l)
    BY <2>1
  <2> HIDE DEF l
  <2>5. ASSUME loc'[p] = l, there' = there, row' = row, links' = links, doubtful' = doubtful
        PROVE  Firm(p)' /\ (p \notin disturbed => Standing(p)')
    <3>1. Firm(p)'
      BY <1>l, <2>2, <2>3, <2>5 DEF Firm, Holding, AtRows, Adding
    <3>2. ASSUME p \notin disturbed PROVE Standing(p)'
      <4>1. g \in there /\ loc[p].seen = SubsOf(g)
        BY <1>l, <2>2, <3>2 DEF Standing, Exists, LinksRead, NeedsGroup, Adding
      <4>2. LinksRead(p)'
        BY <2>3, <2>5, <4>1 DEF LinksRead, SubsOf
      <4>3. EndpointRead(p)'
        <5> SUFFICES ASSUME g \notin doubtful, Strict(g)
                     PROVE  /\ \A s \in loc[p].seen : Effective(row[s]) = e
                            /\ loc[p].seen = {} => e = NoEndpoint
          BY <2>3, <2>5 DEF EndpointRead, Strict
        <5>1. AllMatch(g, loc[p].seen)
          BY <4>1 DEF Whole, Alike
        <5> QED BY <2>1, <5>1 DEF AllMatch, Member
      <4> QED BY <2>3, <2>5, <4>1, <4>2, <4>3 DEF Standing, Exists, RowRead, Counted,
              SubsRead, KeysRead, LinksFound, StoreLeft, Holding, NeedsGroup, AtRows
    <3> QED BY <3>1, <3>2
  <2> QED BY <2>2, <2>3, <2>4, <2>5, LookKeepsWhole DEF AtRows
<1>4. CASE AddValidate(p)
  <2> DEFINE l == [loc[p] EXCEPT !.pc = "insert"]
  <2>1. CASE Validated(p) /\ Read(p, l) /\ loc[p].pc = "validate"
    <3>1. /\ l.pc = "insert" /\ l.g = g /\ l.seen = loc[p].seen /\ l.row = loc[p].row
          /\ l.subs = loc[p].subs
      BY <1>l DEF GoodLocal, Local
    <3>2. Read(p, l)
      BY <2>1
    <3> HIDE DEF l
    <3>3. ASSUME loc'[p] = l, there' = there, row' = row, links' = links, doubtful' = doubtful
          PROVE  Firm(p)' /\ (p \notin disturbed => Standing(p)')
      <4>1. Firm(p)'
        BY <1>l, <2>1, <3>1, <3>3 DEF Firm, Holding, AtRows, Adding
      <4>2. ASSUME p \notin disturbed PROVE Standing(p)'
        <5>1. g \in there /\ loc[p].seen = SubsOf(g) /\ EndpointRead(p)
          BY <1>l, <2>1, <4>2 DEF Standing, Exists, LinksRead, NeedsGroup, Adding
        <5>2. LinksRead(p)'
          BY <3>1, <3>3, <5>1 DEF LinksRead, SubsOf
        <5>3. EndpointRead(p)'
          BY <2>1, <3>1, <3>3, <5>1 DEF EndpointRead, Strict
        <5>4. Valid(l.row, l.subs)
          BY <2>1, <3>1 DEF Validated
        <5>5. SubsRead(p)'
          BY <3>3, <5>4 DEF SubsRead, Valid
        <5> QED BY <3>1, <3>3, <5>1, <5>2, <5>3, <5>5 DEF Standing, Exists, RowRead, Counted,
                KeysRead, LinksFound, StoreLeft, Holding, NeedsGroup, AtRows
      <4> QED BY <4>1, <4>2
    <3> QED BY <2>1, <3>1, <3>2, <3>3, LookKeepsWhole DEF AtRows
  <2>2. CASE Refuse(p) /\ loc[p].pc = "validate"
    BY <2>2, RefuseKeepsWhole
  <2> QED BY <1>4, <2>1, <2>2 DEF AddValidate
<1> QED BY <1>1, <1>2, <1>3, <1>4

LEMMA WroteSpares ==
  ASSUME Whole, NEW p \in Procs, NEW l, loc' = [loc EXCEPT ![p] = l], NEW gs, Wrote(p, gs)
  PROVE  /\ Spares(p, gs)
         /\ doubtful \subseteq doubtful'
         /\ p \in disturbed => gs \subseteq doubtful'
         /\ p \notin disturbed => doubtful' = doubtful
<1>1. \A q \in Procs \ {p} : loc'[q] = loc[q]
  BY DEF Whole, Inv, Locals
<1>2. disturbed' = {q \in (disturbed \cup {q \in Procs : LookedAt(q) \cap gs # {}}) \ {p} :
                      loc'[q].pc # "idle"}
  BY DEF Wrote
<1>3. doubtful' = IF p \in disturbed THEN doubtful \cup gs ELSE doubtful
  BY DEF Wrote
<1>4. Spares(p, gs)
  BY <1>1, <1>2 DEF Spares
<1> QED BY <1>3, <1>4

\* Served after a step that changes neither owners nor what there is of a key.
LEMMA ServedKept ==
  ASSUME Whole, NEW p \in Procs, NEW l, loc' = [loc EXCEPT ![p] = l],
         UNCHANGED <<owner, live, hashes, listed>>,
         \A k \in Keys : owner[k] \in there' \ doubtful' =>
           /\ owner[k] \in there \ doubtful
           /\ loc[p].pc # "commit" \/ loc[p].g # owner[k] \/ loc[p].keys = {}
  PROVE  Served'
<1>1. ASSUME NEW k \in Keys, owner[k] \in there' \ doubtful', ~(Emptied(owner[k])')
      PROVE  Agree(k)
  <2>1. ~(\E q \in Procs : loc'[q].pc = "commit" /\ loc'[q].g = owner[k] /\ loc'[q].keys # {})
    BY <1>1 DEF Emptied
  <2> QED BY <1>1, <2>1, ServedBefore
<1> QED BY <1>1 DEF Served, Agree, Emptied

LEMMA InsertFresh ==
  ASSUME Whole, Inv', NEW p \in Procs, NEW l, loc' = [loc EXCEPT ![p] = l],
         NEW n \in Ids, NEW r \in Row, row[n] = NoRow, Insert(n, r),
         UNCHANGED <<links, owner, live, hashes, listed, doubtful>>,
         \A q \in Procs \ {p} : q \in disturbed' <=> q \in disturbed,
         Firm(p)', p \notin disturbed' => Standing(p)', loc[p].pc # "commit", l.pc \notin AtRows
  PROVE  Whole'
<1>1. row[n] \notin Row
  BY NoRowIsNoRow
<1>2. there' = there \cup {n} /\ row' = [row EXCEPT ![n] = r] /\ row \in [Ids -> Row \cup {NoRow}]
      /\ \A g \in there : g \in Ids /\ row[g] \in Row
  BY DEF Insert, Whole, Inv, Tables
<1>3. \A h \in Ids \ {n} : Same(h)
  BY <1>2 DEF Same
<1>4. Steady
  BY <1>1, <1>2 DEF Steady, Kept
<1>5. Spares(p, {n})
  <2> SUFFICES ASSUME NEW q \in Procs \ {p}, loc[q].pc # "idle" PROVE n \notin LookedAt(q)
    BY DEF Spares
  <2>1. GoodLocal(loc[q], row) /\ Firm(q)
    BY DEF Whole, Inv, Locals
  <2>2. row[loc[q].g] \in Row /\ (\A s \in loc[q].seen : row[s] \in Row)
        /\ (loc[q].pc = "insert" => \A s \in loc[q].subs : row[s] \in Row)
    BY <2>1 DEF GoodLocal, Firm
  <2> QED BY <1>1, <2>2 DEF LookedAt
<1>6. \A q \in Procs \ {p} : Holding(q) => loc[q].g \in there'
  BY <1>2 DEF Whole, Firm
<1>7. OneDeletes'
  BY NoNewHolder
<1>8. Owned'
  BY <1>2, <1>4 DEF Whole, Owned, Steady, Kept, Inv, Tables
<1>9. Served'
  <2>1. \A k \in Keys : owner[k] \in there' => owner[k] \in there
    BY <1>1, <1>2, NoneIsNoId DEF Whole, Owned
  <2> QED BY <2>1, ServedKept
<1>10. Gone'
  BY <1>2 DEF Whole, Gone, Vanished, SubsOf, UsersOf, KeysOf, StoreOf
<1>11. Alike'
  <2> SUFFICES ASSUME NEW a \in there' \ doubtful, NEW s \in SubsOf(a), NEW t \in SubsOf(a)
               PROVE  /\ s \in there' /\ row'[s].channel = row'[a].channel
                      /\ Default[row'[a].channel] # NoEndpoint => Effective(row'[s]) = Effective(row'[t])
    BY DEF Alike, AllMatch, Member, Strict, SubsOf
  <2>1. <<a, s>> \in links /\ row[a] \in Row
    BY DEF SubsOf, Whole, Inv, Linked
  <2>2. a \in there
    BY <1>1, <1>2, <2>1
  <2>3. AllMatch(a, SubsOf(a))
    BY <2>2 DEF Whole, Alike
  <2>4. s \in there /\ t \in there /\ row[s].channel = row[a].channel
        /\ (Default[row[a].channel] # NoEndpoint => Effective(row[s]) = Effective(row[t]))
    BY <2>3 DEF AllMatch, Member, Strict
  <2>5. row'[a] = row[a] /\ row'[s] = row[s] /\ row'[t] = row[t]
    BY <1>1, <1>2, <2>2, <2>4
  <2> QED BY <1>2, <2>4, <2>5
<1> QED BY <1>3, <1>4, <1>5, <1>6, <1>7, <1>8, <1>9, <1>10, <1>11, StepKeepsWhole

LEMMA InsertsKeepWhole ==
  ASSUME Whole, Inv', NEW p \in Procs, NEW n \in Ids,
         (\E r \in NewRows : CreateGroup(p, n, r)) \/ CopyCreate(p, n)
  PROVE  Whole'
<1>l. GoodLocal(loc[p], row) /\ Firm(p) /\ (p \notin disturbed => Standing(p))
  BY DEF Whole, Inv, Locals
<1>1. ASSUME NEW r \in NewRows, CreateGroup(p, n, r) PROVE Whole'
  <2> DEFINE made == IF r.type = "aggregate" THEN [r EXCEPT !.endpoint = NoEndpoint] ELSE r
  <2>1. made \in Row
    BY GroupsAssumption DEF Row
  <2>2. Insert(n, made) /\ row[n] = NoRow /\ loc[p] = Idle
    BY <1>1 DEF CreateGroup, Fresh
  <2> HIDE DEF made
  <2>3. UNCHANGED <<links, owner, live, hashes, listed, doubtful>> /\ loc' = loc /\ disturbed' = disturbed
    BY <1>1 DEF CreateGroup, store, ghosts
  <2>4. loc' = [loc EXCEPT ![p] = Idle] /\ loc'[p] = Idle
    BY <2>2, <2>3 DEF Whole, Inv, Locals
  <2>5. Firm(p)' /\ Standing(p)'
    BY <2>4, IdleStandsNow
  <2>6. Idle.pc = "idle"
    BY DEF Idle
  <2>7. loc[p].pc # "commit" /\ Idle.pc \notin AtRows
    BY <2>2, <2>6 DEF AtRows
  <2> QED BY <2>1, <2>2, <2>3, <2>4, <2>5, <2>7, InsertFresh
<1>2. CASE CopyCreate(p, n)
  <2> DEFINE l == [Idle EXCEPT !.pc = "add", !.g = n]
  <2>1. /\ loc[p].pc = "copy" /\ row[n] = NoRow /\ Insert(n, loc[p].row)
        /\ loc' = [loc EXCEPT ![p] = Idle] \/ loc' = [loc EXCEPT ![p] = l]
        /\ UNCHANGED <<links, owner, live, hashes, listed, doubtful>>
        /\ disturbed' = disturbed \ {p}
    BY <1>2 DEF CopyCreate, Fresh, Return, store
  <2>2. loc[p].row \in Row /\ loc[p].pc # "commit"
    BY <1>l, <2>1 DEF GoodLocal
  <2>3. /\ Idle.pc \notin AtRows
        /\ l.pc = "add" /\ l.g = n /\ l.seen = {}
    BY DEF Idle, AtRows
  <2> HIDE DEF l
  <2>4. CASE loc' = [loc EXCEPT ![p] = Idle]
    <3>1. loc'[p] = Idle
      BY <2>4 DEF Whole, Inv, Locals
    <3>2. Firm(p)' /\ Standing(p)'
      BY <3>1, IdleStandsNow
    <3> QED BY <2>1, <2>2, <2>3, <2>4, <3>2, InsertFresh
  <2>5. CASE loc' = [loc EXCEPT ![p] = l]
    <3>1. loc'[p] = l
      BY <2>5 DEF Whole, Inv, Locals
    <3>2. n \in there'
      BY <2>1 DEF Insert
    <3>3. Firm(p)' /\ Standing(p)'
      BY <2>3, <3>1, <3>2 DEF Firm, Standing, Exists, RowRead, Counted, LinksRead, EndpointRead,
         SubsRead, KeysRead, LinksFound, StoreLeft, Holding, NeedsGroup, AtRows, Adding
    <3>4. l.pc \notin AtRows
      BY <2>3 DEF AtRows
    <3> QED BY <2>1, <2>2, <2>5, <3>3, <3>4, InsertFresh
  <2> QED BY <2>1, <2>4, <2>5
<1> QED BY <1>1, <1>2

LEMMA SaveKeepsWhole ==
  ASSUME Whole, Inv', NEW p \in Procs, UpdateSave(p)
  PROVE  Whole'
<1> DEFINE g   == loc[p].g
           new == loc[p].new
           gs  == IF g \in there /\ row[g] = new THEN {} ELSE {g} \cup UsersOf(g)
<1>1. /\ loc[p].pc = "save" /\ there' = there \cup {g} /\ row' = [row EXCEPT ![g] = new]
      /\ loc' = [loc EXCEPT ![p] = Idle] /\ Wrote(p, gs)
      /\ UNCHANGED <<links, owner, live, hashes, listed>>
  BY DEF UpdateSave, Insert, Return, store
<1>2. loc'[p] = Idle /\ row \in [Ids -> Row \cup {NoRow}]
  BY <1>1 DEF Whole, Inv, Locals, Tables
<1>3. g \in Ids /\ row[g] \in Row /\ new \in Row /\ new.type = row[g].type
      /\ (row[g].type = "aggregate" => new.channel = row[g].channel)
  BY <1>1 DEF Whole, Inv, Locals, GoodLocal, Firm
<1>4. Spares(p, gs) /\ doubtful \subseteq doubtful' /\ (p \in disturbed => gs \subseteq doubtful')
      /\ (p \notin disturbed => doubtful' = doubtful)
  BY <1>1, WroteSpares
<1>5. p \notin disturbed => g \in there
  BY <1>1 DEF Whole, Standing, Exists, NeedsGroup
<1>6. p \notin disturbed => row[g].type = "aggregate" \/ UsersOf(g) = {} \/ new = row[g]
  BY <1>1 DEF Whole, Standing, Counted
<1>7. g \notin there => g \in doubtful'
  BY <1>4, <1>5
<1>8. \A h \in Ids \ gs : Same(h)
  <2> SUFFICES ASSUME NEW h \in Ids \ gs PROVE Same(h)
    OBVIOUS
  <2>1. row'[h] = row[h]
    BY <1>1, <1>2, <1>3
  <2> QED BY <1>1, <2>1 DEF Same
<1> HIDE DEF gs
<1>9. Steady
  BY <1>1, <1>2, <1>3, <1>4 DEF Steady, Kept
<1>10. \A q \in Procs \ {p} : Holding(q) => loc[q].g \in there'
  BY <1>1 DEF Whole, Firm
<1>11. OneDeletes'
  BY <1>1, NoNewHolder DEF Idle, AtRows
<1>12. Owned'
  BY <1>1, <1>2, <1>3 DEF Whole, Owned, Inv, Tables
<1>13. Served'
  BY <1>1, <1>4, <1>7, ServedKept
<1>14. Gone'
  BY <1>1, <1>4 DEF Whole, Gone, Vanished, SubsOf, UsersOf, KeysOf, StoreOf
<1>15. Alike'
  <2> SUFFICES ASSUME NEW a \in there' \ doubtful', NEW s \in SubsOf(a), NEW t \in SubsOf(a)
               PROVE  /\ s \in there' /\ row'[s].channel = row'[a].channel
                      /\ Default[row'[a].channel] # NoEndpoint => Effective(row'[s]) = Effective(row'[t])
    BY <1>1 DEF Alike, AllMatch, Member, Strict, SubsOf
  <2>1. a \in there \ doubtful
    BY <1>1, <1>4, <1>7
  <2>2. AllMatch(a, SubsOf(a))
    BY <2>1 DEF Whole, Alike
  <2>3. s \in there /\ t \in there /\ row[s].channel = row[a].channel
        /\ (Default[row[a].channel] # NoEndpoint => Effective(row[s]) = Effective(row[t]))
    BY <2>2 DEF AllMatch, Member, Strict
  <2>4. a \in Ids /\ s \in Ids /\ t \in Ids
    BY <2>1 DEF Whole, Inv, Tables, SubsOf
  <2>5. row[a].type = "aggregate" /\ row[s].type = "standard" /\ row[t].type = "standard"
    BY DEF SubsOf, Whole, Inv, Linked
  <2>6. row'[s] = row[s] /\ row'[t] = row[t]
    <3>1. CASE new = row[g]
      BY <1>1, <1>2, <1>3, <2>4, <3>1
    <3>2. CASE new # row[g] /\ (s = g \/ t = g)
      <4>1. a \in UsersOf(g)
        BY <2>4, <3>2 DEF SubsOf, UsersOf
      <4>2. p \in disturbed
        BY <1>6, <2>5, <3>2, <4>1
      <4>3. a \in gs
        BY <3>2, <4>1 DEF gs
      <4> QED BY <1>4, <4>2, <4>3
    <3>3. CASE s # g /\ t # g
      BY <1>1, <1>2, <2>4, <3>3
    <3> QED BY <3>1, <3>2, <3>3
  <2>7. row'[a].channel = row[a].channel
    BY <1>1, <1>2, <1>3, <2>4, <2>5
  <2> QED BY <1>1, <2>3, <2>6, <2>7
<1>16. Firm(p)' /\ Standing(p)'
  BY <1>2, IdleStandsNow
<1> QED BY <1>1, <1>4, <1>8, <1>9, <1>10, <1>11, <1>12, <1>13, <1>14, <1>15, <1>16, StepKeepsWhole

LEMMA AddKeysKeepsWhole ==
  ASSUME Whole, Inv', NEW p \in Procs, NEW k \in Keys, AddKeys(p, k)
  PROVE  Whole'
<1> DEFINE g == loc[p].g
<1>1. /\ loc[p].pc = "add" /\ owner[k] = None
      /\ owner' = [owner EXCEPT ![k] = g]
      /\ live' = live \cup {k} /\ hashes' = hashes \cup {k} /\ listed' = listed \cup {k}
      /\ loc' = [loc EXCEPT ![p] = Idle] /\ Wrote(p, {g})
      /\ UNCHANGED <<there, row, links>>
  BY DEF AddKeys, Return
<1>2. loc'[p] = Idle /\ owner \in [Keys -> Ids \cup {None}]
  BY <1>1 DEF Whole, Inv, Locals, Tables
<1>3. g \in Ids /\ row[g] \in Row
  BY <1>1 DEF Whole, Inv, Locals, GoodLocal
<1>4. Spares(p, {g}) /\ doubtful \subseteq doubtful' /\ (p \in disturbed => {g} \subseteq doubtful')
      /\ (p \notin disturbed => doubtful' = doubtful)
  BY <1>1, WroteSpares
<1>5. p \notin disturbed => g \in there
  BY <1>1 DEF Whole, Standing, Exists, NeedsGroup
<1>6. \A j \in Keys : owner'[j] = IF j = k THEN g ELSE owner[j]
  BY <1>1, <1>2
<1>7. \A h \in Ids \ {g} : Same(h)
  BY <1>1, <1>6, NoneIsNoId DEF Same
<1>8. Steady
  BY <1>1, <1>4, <1>6 DEF Steady, Kept
<1>9. \A q \in Procs \ {p} : Holding(q) => loc[q].g \in there'
  BY <1>1 DEF Whole, Firm
<1>10. OneDeletes'
  BY <1>1, NoNewHolder DEF Idle, AtRows
<1>11. Owned'
  BY <1>1, <1>3, <1>6 DEF Whole, Owned
<1>12. Served'
  <2> SUFFICES ASSUME NEW j \in Keys, owner'[j] \in there' \ doubtful', ~(Emptied(owner[j])')
               PROVE  Agree(j)'
    BY DEF Served
  <2>1. CASE j = k
    BY <1>1, <2>1 DEF Agree
  <2>2. CASE j # k
    <3>1. owner[j] \in there \ doubtful /\ owner'[j] = owner[j]
      BY <1>1, <1>4, <1>6, <2>2
    <3>2. ~(\E q \in Procs : loc'[q].pc = "commit" /\ loc'[q].g = owner[j] /\ loc'[q].keys # {})
      BY <3>1 DEF Emptied
    <3>3. Agree(j)
      BY <1>1, <3>1, <3>2, ServedBefore
    <3> QED BY <1>1, <2>2, <3>3 DEF Agree
  <2> QED BY <2>1, <2>2
<1>13. Gone'
  <2> SUFFICES ASSUME NEW h \in Ids \ (there' \cup doubtful') PROVE Vanished(h)'
    BY DEF Gone
  <2>1. h # g /\ h \in Ids \ (there \cup doubtful)
    BY <1>1, <1>4, <1>5
  <2>2. Vanished(h)
    BY <2>1 DEF Whole, Gone
  <2>3. SubsOf(h)' = {} /\ UsersOf(h)' = {}
    BY <1>1, <2>2 DEF Vanished, SubsOf, UsersOf
  <2>4. {j \in live' : owner'[j] = h} = {} /\ {j \in hashes' \cup listed' : owner'[j] = h} = {}
    <3>1. live' \subseteq Keys /\ hashes' \subseteq Keys /\ listed' \subseteq Keys
      BY DEF Inv, Tables
    <3>2. \A j \in Keys : owner[j] = h => j \notin live \cup hashes \cup listed
      BY <2>2 DEF Vanished, KeysOf, StoreOf
    <3> QED BY <1>1, <1>6, <2>1, <3>1, <3>2
  <2> QED BY <2>3, <2>4 DEF Vanished, KeysOf, StoreOf
<1>14. Alike'
  BY <1>1, <1>4 DEF Whole, Alike, AllMatch, Member, Strict, SubsOf
<1>15. Firm(p)' /\ Standing(p)'
  BY <1>2, IdleStandsNow
<1> QED BY <1>1, <1>4, <1>7, <1>8, <1>9, <1>10, <1>11, <1>12, <1>13, <1>14, <1>15, StepKeepsWhole

(***************************************************************************)
(* An addition by a request that is not disturbed: what it expects of its  *)
(* sub-groups is what the members it has read have.                        *)
(***************************************************************************)
LEMMA EffectiveIsGiven ==
  ASSUME NEW r, Default[r.channel] # NoEndpoint PROVE Effective(r) # NoEndpoint
BY DEF Effective

LEMMA AdditionsMatch ==
  ASSUME Whole, NEW p \in Procs \ disturbed, loc[p].pc = "insert",
         NEW g, g = loc[p].g, g \notin doubtful
  PROVE  AllMatch(g, SubsOf(g) \cup loc[p].subs)
<1> DEFINE r == loc[p].row
           subs == loc[p].subs
           es == {Effective(row[s]) : s \in subs}
<1>1. /\ g \in there /\ loc[p].seen = SubsOf(g) /\ EndpointRead(p) /\ Valid(r, subs)
  BY DEF Whole, Standing, Exists, LinksRead, SubsRead, NeedsGroup, Adding
<1>2. r.channel = row[g].channel
  BY DEF Whole, Firm, Adding
<1>3. AllMatch(g, SubsOf(g))
  BY <1>1 DEF Whole, Alike
<1>4. \A s \in SubsOf(g) \cup subs : Member(s, g)
  BY <1>1, <1>2, <1>3 DEF AllMatch, Valid, Member
<1>5. ASSUME Strict(g), NEW s \in SubsOf(g) \cup subs, NEW t \in SubsOf(g) \cup subs
      PROVE  Effective(row[s]) = Effective(row[t])
  <2>1. \A u \in SubsOf(g) \cup subs : Effective(row[u]) # NoEndpoint
    BY <1>4, <1>5, EffectiveIsGiven DEF Strict, Member
  <2>2. /\ \A u \in SubsOf(g) : Effective(row[u]) = r.endpoint
        /\ SubsOf(g) = {} => r.endpoint = NoEndpoint
    BY <1>1, <1>5 DEF EndpointRead
  <2>3. /\ \A e, f \in es \ {NoEndpoint} : e = f
        /\ r.endpoint # NoEndpoint => es = {r.endpoint}
    BY <1>1 DEF Valid, SameEndpoint
  <2>4. \A u \in subs : Effective(row[u]) \in es \ {NoEndpoint}
    BY <2>1
  <2>5. \A u, v \in subs : Effective(row[u]) = Effective(row[v])
    BY <2>3, <2>4
  <2>6. ASSUME NEW u \in SubsOf(g), NEW v \in subs PROVE Effective(row[u]) = Effective(row[v])
    <3>1. r.endpoint # NoEndpoint /\ Effective(row[u]) = r.endpoint
      BY <2>1, <2>2
    <3> QED BY <2>3, <2>4, <3>1
  <2> QED BY <2>2, <2>5, <2>6
<1> QED BY <1>4, <1>5 DEF AllMatch

LEMMA AddInsertKeepsWhole ==
  ASSUME Whole, Inv', NEW p \in Procs, AddInsert(p)
  PROVE  Whole'
<1> DEFINE g    == loc[p].g
           subs == loc[p].subs
           new  == {<<g, s>> : s \in subs}
           gs   == {g} \cup subs
<1>1. CASE Refuse(p) /\ loc[p].pc = "insert"
  BY <1>1, RefuseKeepsWhole
<1>2. CASE /\ loc[p].pc = "insert" /\ links' = links \cup new
           /\ Return(p) /\ Wrote(p, gs)
           /\ UNCHANGED <<there, row, owner, live, sqlite, store>>
  <2>1. /\ loc' = [loc EXCEPT ![p] = Idle]
        /\ UNCHANGED <<there, row, owner, live, hashes, listed>>
    BY <1>2 DEF Return, store
  <2>2. loc'[p] = Idle
    BY <2>1 DEF Whole, Inv, Locals
  <2>3. g \in Ids /\ subs \subseteq Ids
    BY <1>2 DEF Whole, Inv, Locals, GoodLocal, Local
  <2>4. Spares(p, gs) /\ doubtful \subseteq doubtful' /\ (p \in disturbed => gs \subseteq doubtful')
        /\ (p \notin disturbed => doubtful' = doubtful)
    BY <1>2, <2>1, WroteSpares
  <2>5. \A h \in Ids \ gs : Same(h)
    BY <1>2, <2>1 DEF Same
  <2>6. Steady
    BY <2>1, <2>4 DEF Steady, Kept
  <2>7. \A q \in Procs \ {p} : Holding(q) => loc[q].g \in there'
    BY <2>1 DEF Whole, Firm
  <2>8. OneDeletes'
    BY <2>1, NoNewHolder DEF Idle, AtRows
  <2>9. Owned'
    BY <2>1 DEF Whole, Owned
  <2>10. Served'
    BY <1>2, <2>1, <2>4, ServedKept
  <2>11. Gone'
    <3> SUFFICES ASSUME NEW h \in Ids \ (there' \cup doubtful') PROVE Vanished(h)'
      BY DEF Gone
    <3>1. p \notin disturbed => g \in there /\ subs \subseteq there
      BY <1>2 DEF Whole, Standing, Exists, SubsRead, Valid, NeedsGroup, Adding
    <3>2. h \notin gs /\ h \notin there \cup doubtful
      BY <2>1, <2>4, <3>1
    <3>3. Vanished(h)
      BY <3>2 DEF Whole, Gone
    <3> QED BY <1>2, <2>1, <3>2, <3>3 DEF Vanished, SubsOf, UsersOf, KeysOf, StoreOf
  <2>12. Alike'
    <3> SUFFICES ASSUME NEW a \in there \ doubtful' PROVE AllMatch(a, {s \in Ids : <<a, s>> \in links'})
      BY <2>1 DEF Alike, AllMatch, Member, Strict, SubsOf
    <3>1. CASE a = g
      <4>1. p \notin disturbed /\ g \notin doubtful
        BY <2>4, <3>1
      <4>2. AllMatch(g, SubsOf(g) \cup subs)
        BY <1>2, <4>1, AdditionsMatch
      <4>3. {s \in Ids : <<a, s>> \in links'} = SubsOf(g) \cup subs
        BY <1>2, <2>3, <3>1 DEF SubsOf
      <4> QED BY <3>1, <4>2, <4>3
    <3>2. CASE a # g
      <4>1. {s \in Ids : <<a, s>> \in links'} = SubsOf(a)
        BY <1>2, <3>2 DEF SubsOf
      <4>2. a \in there \ doubtful
        BY <2>4
      <4> QED BY <4>1, <4>2 DEF Whole, Alike
    <3> QED BY <3>1, <3>2
  <2>13. Firm(p)' /\ Standing(p)'
    BY <2>2, IdleStandsNow
  <2> QED BY <2>1, <2>4, <2>5, <2>6, <2>7, <2>8, <2>9, <2>10, <2>11, <2>12, <2>13, StepKeepsWhole
<1> QED BY <1>1, <1>2 DEF AddInsert

LEMMA DeleteSubGroupKeepsWhole ==
  ASSUME Whole, Inv', NEW p \in Procs, NEW a \in Ids, NEW s \in Ids, DeleteSubGroup(p, a, s)
  PROVE  Whole'
<1>1. /\ loc[p] = Idle /\ loc' = loc /\ links' = links \ {<<a, s>>} /\ Wrote(p, {a, s})
      /\ UNCHANGED <<there, row, owner, live, hashes, listed>>
  BY DEF DeleteSubGroup, store
<1>2. loc' = [loc EXCEPT ![p] = Idle] /\ loc'[p] = Idle
  BY <1>1 DEF Whole, Inv, Locals
<1>3. Spares(p, {a, s}) /\ doubtful \subseteq doubtful'
  BY <1>1, <1>2, WroteSpares
<1>4. \A h \in Ids \ {a, s} : Same(h)
  BY <1>1 DEF Same
<1>5. Steady
  BY <1>1, <1>3 DEF Steady, Kept
<1>6. \A q \in Procs \ {p} : Holding(q) => loc[q].g \in there'
  BY <1>1 DEF Whole, Firm
<1>7. OneDeletes'
  BY <1>2, NoNewHolder DEF Idle, AtRows
<1>8. Owned'
  BY <1>1 DEF Whole, Owned
<1>9. Served'
  <2>1. loc[p].pc # "commit"
    BY <1>1 DEF Idle
  <2> QED BY <1>1, <1>2, <1>3, <2>1, ServedKept
<1>10. Gone'
  BY <1>1, <1>3 DEF Whole, Gone, Vanished, SubsOf, UsersOf, KeysOf, StoreOf
<1>11. Alike'
  BY <1>1, <1>3 DEF Whole, Alike, AllMatch, Member, Strict, SubsOf
<1>12. Firm(p)' /\ Standing(p)'
  BY <1>2, IdleStandsNow
<1> QED BY <1>2, <1>3, <1>4, <1>5, <1>6, <1>7, <1>8, <1>9, <1>10, <1>11, <1>12, StepKeepsWhole

LEMMA DeleteStoreKeepsWhole ==
  ASSUME Whole, Inv', NEW p \in Procs, DeleteStore(p)
  PROVE  Whole'
<1> DEFINE g == loc[p].g
           keys == loc[p].keys
<1>1. CASE Refuse(p) /\ loc[p].pc = "empty"
  BY <1>1, RefuseKeepsWhole
<1>2. ASSUME loc[p].pc = "empty",
             NEW D \in SUBSET keys,
             listed' = {k \in listed : owner[k] # g},
             hashes' = hashes \ D,
             doubtful' = IF D = keys THEN doubtful ELSE doubtful \cup {g},
             loc' = [loc EXCEPT ![p].pc = "commit"],
             UNCHANGED <<tables, disturbed>>
      PROVE  Whole'
  <2> DEFINE l == [loc[p] EXCEPT !.pc = "commit"]
  <2>0. GoodLocal(loc[p], row) /\ Firm(p) /\ (p \notin disturbed => Standing(p))
    BY DEF Whole, Inv, Locals
  <2>1. loc' = [loc EXCEPT ![p] = l] /\ loc'[p] = l
    BY <1>2 DEF Whole, Inv, Locals
  <2>2. UNCHANGED <<there, row, links, owner, live, disturbed>> /\ doubtful \subseteq doubtful'
        /\ listed' \subseteq listed /\ hashes' \subseteq hashes
    BY <1>2 DEF tables
  <2>3. l.pc = "commit" /\ l.g = g /\ l.keys = keys /\ l.seen = loc[p].seen
    BY <2>0 DEF GoodLocal, Local
  <2> HIDE DEF l
  <2>4. g \in Ids /\ g \in there /\ keys # {} /\ \A k \in keys : owner[k] = g
    BY <1>2, <2>0 DEF GoodLocal, Firm, Holding, AtRows
  <2>5. \A h \in Ids \ {} : Same(h)
    BY <2>2 DEF Same
  <2>6. Spares(p, {})
    BY <2>2 DEF Spares
  <2>7. Steady
    BY <2>2 DEF Steady, Kept
  <2>8. \A q \in Procs \ {p} : Holding(q) => loc[q].g \in there'
    BY <2>2 DEF Whole, Firm
  <2>9. OneDeletes'
    BY <1>2, <2>1, <2>3, NoNewHolder DEF Holding, AtRows
  <2>10. Owned'
    BY <2>2 DEF Whole, Owned
  <2>11. Served'
    <3> SUFFICES ASSUME NEW k \in Keys, owner[k] \in there \ doubtful', ~(Emptied(owner[k])')
                 PROVE  Agree(k)'
      BY <2>2 DEF Served, Emptied
    <3>1. ~(\E q \in Procs : loc'[q].pc = "commit" /\ loc'[q].g = owner[k] /\ loc'[q].keys # {})
      BY <2>2 DEF Emptied
    <3>2. owner[k] # g
      BY <2>1, <2>3, <2>4, <3>1
    <3>3. Agree(k)
      BY <1>2, <2>1, <2>2, <3>1, ServedBefore
    <3>4. k \notin D
      BY <2>4, <3>2
    <3> QED BY <1>2, <2>2, <3>2, <3>3, <3>4 DEF Agree
  <2>12. Gone'
    BY <2>2 DEF Whole, Gone, Vanished, SubsOf, UsersOf, KeysOf, StoreOf
  <2>13. Alike'
    BY <2>2 DEF Whole, Alike, AllMatch, Member, Strict, SubsOf
  <2>14. Firm(p)'
    BY <1>2, <2>0, <2>1, <2>2, <2>3, <2>4 DEF Firm, Holding, AtRows, Adding
  <2>15. ASSUME p \notin disturbed PROVE Standing(p)'
    <3>1. keys = KeysOf(g) /\ SubsOf(g) \cup UsersOf(g) \subseteq loc[p].seen
      BY <1>2, <2>0, <2>15 DEF Standing, KeysRead, LinksFound, Holding, AtRows
    <3>2. KeysRead(p)' /\ LinksFound(p)'
      BY <2>1, <2>2, <2>3, <3>1 DEF KeysRead, LinksFound, KeysOf, SubsOf, UsersOf
    <3>3. ASSUME g \notin doubtful' PROVE {k \in hashes' \cup listed' : owner'[k] = g} = {}
      <4>1. D = keys /\ g \notin doubtful
        BY <1>2, <3>3
      <4>2. ~Emptied(g)
        <5>1. \A q \in Procs : Holding(q) /\ loc[q].g = g => q = p
          BY <1>2 DEF Whole, OneDeletes, Holding, AtRows
        <5> QED BY <1>2, <5>1 DEF Emptied, Holding, AtRows
      <4>3. Served /\ hashes \subseteq Keys
        BY DEF Whole, Inv, Tables
      <4>4. ASSUME NEW k \in hashes, owner[k] = g PROVE k \in D
        <5>1. Agree(k)
          BY <2>4, <4>1, <4>2, <4>3, <4>4 DEF Served
        <5>2. k \in live
          BY <4>4, <5>1 DEF Agree
        <5> QED BY <3>1, <4>1, <4>4, <5>2 DEF KeysOf
      <4> QED BY <1>2, <2>2, <4>4
    <3>4. StoreLeft(p)'
      BY <2>1, <2>3, <3>3 DEF StoreLeft, StoreOf
    <3> QED BY <2>1, <2>3, <3>2, <3>4 DEF Standing, Exists, RowRead, Counted, LinksRead,
            EndpointRead, SubsRead, NeedsGroup, Adding
  <2> QED BY <2>1, <2>2, <2>5, <2>6, <2>7, <2>8, <2>9, <2>10, <2>11, <2>12, <2>13, <2>14, <2>15,
          StepKeepsWhole
<1> QED BY <1>1, <1>2 DEF DeleteStore

LEMMA RollbackKeepsWhole ==
  ASSUME Whole, Inv', NEW p \in Procs, DeleteRollback(p)
  PROVE  Whole'
<1> DEFINE g == loc[p].g
<1>1. /\ loc[p].pc = "commit" /\ loc' = [loc EXCEPT ![p] = Idle]
      /\ UNCHANGED <<there, row, links, owner, live, hashes, listed>>
      /\ disturbed' = disturbed \ {p}
      /\ doubtful' = IF loc[p].keys = {} THEN doubtful ELSE doubtful \cup {g}
  BY DEF DeleteRollback, Return, tables, store
<1>2. loc'[p] = Idle /\ doubtful \subseteq doubtful'
  BY <1>1 DEF Whole, Inv, Locals
<1>3. \A h \in Ids \ {} : Same(h)
  BY <1>1 DEF Same
<1>4. Spares(p, {})
  BY <1>1 DEF Spares
<1>5. Steady
  BY <1>1, <1>2 DEF Steady, Kept
<1>6. \A q \in Procs \ {p} : Holding(q) => loc[q].g \in there'
  BY <1>1 DEF Whole, Firm
<1>7. OneDeletes'
  BY <1>1, NoNewHolder DEF Idle, AtRows
<1>8. Owned'
  BY <1>1 DEF Whole, Owned
<1>9. Served'
  BY <1>1, ServedKept
<1>10. Gone' /\ Alike'
  BY <1>1, <1>2 DEF Whole, Gone, Vanished, SubsOf, UsersOf, KeysOf, StoreOf, Alike, AllMatch,
     Member, Strict
<1>11. Firm(p)' /\ Standing(p)'
  BY <1>2, IdleStandsNow
<1> QED BY <1>1, <1>3, <1>4, <1>5, <1>6, <1>7, <1>8, <1>9, <1>10, <1>11, StepKeepsWhole

LEMMA CommitKeepsWhole ==
  ASSUME Whole, Inv', NEW p \in Procs, DeleteCommit(p)
  PROVE  Whole'
<1> DEFINE g == loc[p].g
           gs == {g} \cup loc[p].seen \cup UsersOf(g)
<1>1. /\ loc[p].pc = "commit" /\ there' = there \ {g} /\ links' = links \ LinksOf(p)
      /\ live' = live \ KeysOf(g) /\ loc' = [loc EXCEPT ![p] = Idle] /\ Wrote(p, gs)
      /\ UNCHANGED <<row, owner, hashes, listed>>
  BY DEF DeleteCommit, Return, store
<1>2. loc'[p] = Idle
  BY <1>1 DEF Whole, Inv, Locals
<1>3. g \in Ids /\ Firm(p) /\ Holding(p)
  BY <1>1 DEF Whole, Inv, Locals, GoodLocal, Holding, AtRows
<1>4. Spares(p, gs) /\ doubtful \subseteq doubtful' /\ (p \in disturbed => gs \subseteq doubtful')
      /\ (p \notin disturbed => doubtful' = doubtful)
  BY <1>1, WroteSpares
<1>5. \A x \in Ids \X Ids : x \in links' <=> x \in links /\ ~(\E h \in loc[p].seen : x \in {<<g, h>>, <<h, g>>})
  BY <1>1 DEF LinksOf
<1>6. \A h \in Ids \ gs : Same(h)
  <2> SUFFICES ASSUME NEW h \in Ids \ gs PROVE Same(h)
    OBVIOUS
  <2>1. \A x \in Ids : /\ <<h, x>> \in links' <=> <<h, x>> \in links
                       /\ <<x, h>> \in links' <=> <<x, h>> \in links
    BY <1>5
  <2>2. \A k \in Keys : k \in live' /\ owner'[k] = h <=> k \in live /\ owner[k] = h
    BY <1>1 DEF KeysOf
  <2> QED BY <1>1, <2>1, <2>2 DEF Same
<1>7. Steady
  BY <1>1, <1>4 DEF Steady, Kept
<1>8. \A q \in Procs \ {p} : Holding(q) => loc[q].g \in there'
  BY <1>1, <1>3 DEF Whole, Firm, OneDeletes
<1>9. OneDeletes'
  BY <1>1, NoNewHolder DEF Idle, AtRows
<1>10. Owned'
  BY <1>1 DEF Whole, Owned
<1>11. Served'
  <2> SUFFICES ASSUME NEW k \in Keys, owner[k] \in there' \ doubtful', ~(Emptied(owner[k])')
               PROVE  Agree(k)'
    BY <1>1 DEF Served, Emptied
  <2>1. ~(\E q \in Procs : loc'[q].pc = "commit" /\ loc'[q].g = owner[k] /\ loc'[q].keys # {})
    BY <1>1 DEF Emptied
  <2>2. owner[k] # g /\ owner[k] \in there \ doubtful
    BY <1>1, <1>4
  <2>3. Agree(k)
    BY <1>1, <2>1, <2>2, ServedBefore
  <2>4. k \notin KeysOf(g)
    BY <2>2 DEF KeysOf
  <2> QED BY <1>1, <2>3, <2>4 DEF Agree
<1>12. p \notin disturbed => /\ loc[p].keys = KeysOf(g)
                             /\ SubsOf(g) \cup UsersOf(g) \subseteq loc[p].seen
                             /\ g \notin doubtful => StoreOf(g) = {}
  BY <1>1, <1>3 DEF Whole, Standing, KeysRead, LinksFound, StoreLeft, AtRows
<1>13. Gone'
  <2> SUFFICES ASSUME NEW h \in Ids \ (there' \cup doubtful') PROVE Vanished(h)'
    BY DEF Gone
  <2>1. CASE h = g
    <3>1. p \notin disturbed /\ g \notin doubtful
      BY <1>4, <2>1
    <3>2. SubsOf(g) \cup UsersOf(g) \subseteq loc[p].seen /\ StoreOf(g) = {}
      BY <1>12, <3>1
    <3>3. \A x \in Ids : <<g, x>> \notin links' /\ <<x, g>> \notin links'
      BY <1>3, <1>5, <3>2 DEF SubsOf, UsersOf
    <3>4. SubsOf(h)' = {} /\ UsersOf(h)' = {}
      BY <2>1, <3>3 DEF SubsOf, UsersOf
    <3> QED BY <1>1, <2>1, <3>2, <3>4 DEF Vanished, KeysOf, StoreOf
  <2>2. CASE h # g
    <3>1. Vanished(h)
      BY <1>1, <1>4, <2>2 DEF Whole, Gone
    <3>2. links' \subseteq links /\ live' \subseteq live
      BY <1>1
    <3> QED BY <1>1, <3>1, <3>2 DEF Vanished, SubsOf, UsersOf, KeysOf, StoreOf
  <2> QED BY <2>1, <2>2
<1>14. Alike'
  <2> SUFFICES ASSUME NEW a \in there' \ doubtful', NEW s \in Ids, NEW t \in Ids,
                      <<a, s>> \in links', <<a, t>> \in links'
               PROVE  /\ s \in there' /\ row[s].channel = row[a].channel
                      /\ Default[row[a].channel] # NoEndpoint => Effective(row[s]) = Effective(row[t])
    BY <1>1 DEF Alike, AllMatch, Member, Strict, SubsOf
  <2>1. a \in there \ doubtful /\ a # g /\ a \in Ids
    BY <1>1, <1>4 DEF Whole, Inv, Tables
  <2>2. s \in SubsOf(a) /\ t \in SubsOf(a)
    BY <1>1 DEF SubsOf
  <2>3. AllMatch(a, SubsOf(a))
    BY <2>1 DEF Whole, Alike
  <2>4. s \in there /\ row[s].channel = row[a].channel
        /\ (Default[row[a].channel] # NoEndpoint => Effective(row[s]) = Effective(row[t]))
    BY <2>2, <2>3 DEF AllMatch, Member, Strict
  <2>5. s # g
    <3> SUFFICES ASSUME s = g PROVE FALSE
      OBVIOUS
    <3>1. a \in UsersOf(g)
      BY <2>1, <2>2 DEF SubsOf, UsersOf
    <3>2. p \notin disturbed
      BY <1>4, <3>1
    <3>3. a \in loc[p].seen
      BY <1>12, <3>1, <3>2
    <3> QED BY <1>3, <1>5, <2>1, <3>3
  <2> QED BY <1>1, <2>4, <2>5
<1>15. Firm(p)' /\ Standing(p)'
  BY <1>2, IdleStandsNow
<1> QED BY <1>1, <1>4, <1>6, <1>7, <1>8, <1>9, <1>10, <1>11, <1>13, <1>14, <1>15, StepKeepsWhole

LEMMA WholeKept == Whole /\ Inv' /\ [Next]_vars => Whole'
<1> SUFFICES ASSUME Whole, Inv', [Next]_vars PROVE Whole'
  OBVIOUS
<1>1. CASE UNCHANGED vars
  <2>1. (\A p \in Procs : Firm(p))' /\ OneDeletes' /\ Owned'
    BY <1>1 DEF vars, Whole, Firm, Holding, OneDeletes, Owned
  <2>2. (\A p \in Procs \ disturbed : Standing(p))'
    BY <1>1 DEF vars, Whole, Standing, Exists, RowRead, Counted, LinksRead, EndpointRead, SubsRead,
       KeysRead, LinksFound, StoreLeft, Holding, Valid, UsersOf, SubsOf, KeysOf, StoreOf, Strict
  <2>3. Served'
    BY <1>1 DEF vars, Whole, Served, Emptied, Agree
  <2>4. Gone' /\ Alike'
    BY <1>1 DEF vars, Whole, Gone, Vanished, SubsOf, UsersOf, KeysOf, StoreOf, Alike, AllMatch,
       Member, Strict
  <2> QED BY <2>1, <2>2, <2>3, <2>4 DEF Whole
<1>2. CASE Next
  <2>1. PICK p \in Procs : (\E g \in Ids : Begin(p, g)) \/ Continue(p)
    BY <1>2 DEF Next
  <2>2. CASE \E g \in Ids : Begin(p, g)
    BY <2>2, InsertsKeepWhole, UpdateReadsWhole, AddReadsWhole, DeleteSubGroupKeepsWhole,
       DeleteReadsWhole, CopyReadsWhole DEF Begin
  <2>3. CASE Continue(p)
    BY <2>3, UpdateReadsWhole, SaveKeepsWhole, AddReadsWhole, AddInsertKeepsWhole,
       DeleteReadsWhole, DeleteStoreKeepsWhole, CommitKeepsWhole, RollbackKeepsWhole,
       CopyReadsWhole, InsertsKeepWhole, AddKeysKeepsWhole DEF Continue
  <2> QED BY <2>1, <2>2, <2>3
<1> QED BY <1>1, <1>2

LEMMA InitWhole == Init => Whole
<1> SUFFICES ASSUME Init PROVE Whole
  OBVIOUS
<1>1. Inv
  BY InitInv
<1>2. loc = [p \in Procs |-> Idle]
  BY DEF Init
<1>3. \A p \in Procs : loc[p].pc = "idle" /\ loc[p].seen = {}
  <2>1. Idle.pc = "idle" /\ Idle.seen = {}
    BY DEF Idle
  <2> QED BY <1>2, <2>1
<1>4. (\A p \in Procs : Firm(p) /\ Standing(p)) /\ OneDeletes
  BY <1>3, IdleStands DEF OneDeletes, Holding, AtRows
<1>5. /\ there = DOMAIN Rows0 /\ row = [g \in Ids |-> IF g \in there THEN Rows0[g] ELSE NoRow]
      /\ links = {} /\ live = DOMAIN Owner0 /\ hashes = DOMAIN Owner0 /\ listed = DOMAIN Owner0
      /\ owner = [k \in Keys |-> IF k \in DOMAIN Owner0 THEN Owner0[k] ELSE None]
      /\ doubtful = {}
  BY DEF Init
<1>6. /\ DOMAIN Rows0 \subseteq Ids /\ (\A g \in DOMAIN Rows0 : Rows0[g] \in Row)
      /\ DOMAIN Owner0 \subseteq Keys /\ (\A k \in DOMAIN Owner0 : Owner0[k] \in DOMAIN Rows0)
  BY GroupsAssumption
<1>7. \A k \in Keys : owner[k] # None => owner[k] \in there /\ k \in DOMAIN Owner0
  BY <1>5, <1>6
<1>8. Owned
  BY <1>5, <1>6, <1>7 DEF Owned
<1>9. Served
  BY <1>5 DEF Served, Agree
<1>10. Gone
  BY <1>5, <1>6 DEF Gone, Vanished, SubsOf, UsersOf, KeysOf, StoreOf
<1>11. Alike
  BY <1>5 DEF Alike, AllMatch, SubsOf
<1> QED BY <1>1, <1>4, <1>8, <1>9, <1>10, <1>11 DEF Whole

LEMMA WholeHolds == Spec => []Whole
<1>1. Spec => []Inv
  BY InvHolds
<1>2. Init => Whole
  BY InitWhole
<1>3. Whole /\ Inv' /\ [Next]_vars => Whole'
  BY WholeKept
<1> QED BY <1>1, <1>2, <1>3, PTL DEF Spec

\* The sub-groups of an aggregate group exist, have its channel and, where it
\* has a default endpoint, one effective endpoint, whatever additions, updates
\* and deletions interleave, unless a request wrote to it on stale reads.
THEOREM MembersStayAlike == Spec => []MembersAlike
<1>1. Whole => MembersAlike
  <2> SUFFICES ASSUME Whole, NEW a \in there \ doubtful, NEW s \in SubsOf(a), NEW t \in SubsOf(a)
               PROVE  /\ s \in there
                      /\ row[s].channel = row[a].channel
                      /\ Default[row[a].channel] # NoEndpoint => Effective(row[s]) = Effective(row[t])
    BY DEF MembersAlike
  <2>1. AllMatch(a, SubsOf(a))
    BY DEF Whole, Alike
  <2> QED BY <2>1 DEF AllMatch, Member, Strict
<1> QED BY <1>1, WholeHolds, PTL

\* A deleted group leaves no link, no key and nothing in the store, whatever
\* was done to it between the reads of the deletion and its commit, unless the
\* deletion had stale reads or stopped halfway.
THEOREM DeletedGroupsVanish == Spec => []DeletedLeavesNothing
<1>1. Whole => DeletedLeavesNothing
  <2> SUFFICES ASSUME Whole, NEW g \in Ids \ (there \cup doubtful)
               PROVE  /\ SubsOf(g) = {} /\ UsersOf(g) = {}
                      /\ \A k \in live \cup hashes \cup listed : owner[k] # g
    BY DEF DeletedLeavesNothing
  <2>1. Vanished(g)
    BY DEF Whole, Gone
  <2> QED BY <2>1 DEF Vanished, KeysOf, StoreOf
<1> QED BY <1>1, WholeHolds, PTL

\* The keys of a group that exists and is not being deleted are served, all of
\* them, however many deletions of it were refused or failed before.
THEOREM KeysStayServed == Spec => []KeysAreServed
<1>1. Whole => KeysAreServed
  <2> SUFFICES ASSUME Whole, NEW k \in Keys, owner[k] \in there \ doubtful, ~Deleting(owner[k])
               PROVE  Agree(k)
    BY DEF KeysAreServed, Agree
  <2>1. ~Emptied(owner[k])
    BY DEF Emptied, Deleting
  <2> QED BY <2>1 DEF Whole, Served
<1> QED BY <1>1, WholeHolds, PTL
=============================================================================
