--------------------------- MODULE MigrateKeysProofs ---------------------------
(***************************************************************************)
(* What holds of the keys in the database for any number of keys, any      *)
(* sizes of batches and samples, and whatever interrupts a migration: all  *)
(* of them are under one encryption key, and a migration takes them to     *)
(* another one in one step.  Nodes that add keys heed the warning of the   *)
(* dashboard.                                                              *)
(***************************************************************************)
EXTENDS MigrateKeysProps, FiniteSetTheorems, WellFoundedInduction, TLAPS

(***************************************************************************)
(* Encryption                                                              *)
(***************************************************************************)
LEMMA SealedValue ==
  ASSUME NEW e \in Keys
  PROVE  /\ Sealed(e, <<>>).value = IF e = None THEN <<>> ELSE <<e>>
         /\ Sealed(e, <<>>).hash = Hash(e, <<>>)
         /\ DOMAIN Sealed(e, <<>>) = {"value", "hash"}
BY DEF Sealed, Encrypt

LEMMA HashesDiffer ==
  ASSUME NEW e, NEW f, NEW v, NEW w, Hash(e, v) = Hash(f, w)
  PROVE  e = f /\ v = w
BY DEF Hash

LEMMA SealedDiffer ==
  ASSUME NEW e \in Keys, NEW f \in Keys, Sealed(e, <<>>) = Sealed(f, <<>>)
  PROVE  e = f
<1>1. Sealed(e, <<>>).hash = Sealed(f, <<>>).hash
  OBVIOUS
<1>2. Hash(e, <<>>) = Hash(f, <<>>)
  BY <1>1, SealedValue
<1> QED
  BY <1>2, HashesDiffer

\* A key opens what was sealed with it and nothing else; no encryption opens
\* everything.
LEMMA Opens ==
  ASSUME NEW e \in Keys, NEW f \in Keys
  PROVE  /\ CanDecrypt(f, Sealed(e, <<>>).value) <=> (f = None \/ f = e)
         /\ Decrypt(e, Sealed(e, <<>>).value) = <<>>
<1>1. CASE e = None
  BY <1>1, SealedValue DEF CanDecrypt, Decrypt
<1>2. CASE e # None
  <2>1. Sealed(e, <<>>).value = <<e>>
    BY <1>2, SealedValue
  <2>2. Len(<<e>>) = 1 /\ <<e>>[1] = e /\ <<e>> # <<>> /\ SubSeq(<<e>>, 1, 0) = <<>>
    OBVIOUS
  <2>3. Decrypt(e, <<e>>) = <<>>
    BY <1>2, <2>2 DEF Decrypt
  <2>4. CanDecrypt(f, <<e>>) <=> (f = None \/ f = e)
    <3>1. CASE f = None
      BY <3>1 DEF CanDecrypt
    <3>2. CASE f # None
      BY <3>2, <2>2 DEF CanDecrypt
    <3> QED
      BY <3>1, <3>2
  <2> QED
    BY <2>1, <2>3, <2>4
<1> QED
  BY <1>1, <1>2

\* All rows of a table are under e.
Under(e, table) == \A i \in Live(table) : table[i] = Sealed(e, <<>>)

LEMMA SampleOfSome ==
  ASSUME NEW S \in Samples, Live(rows) # {}
  PROVE  S # {} /\ S \subseteq Live(rows)
         /\ Cardinality(S) \in Nat /\ Cardinality(S) > 0
<1>1. S \subseteq Live(rows)
  BY DEF Samples
<1>2. IsFiniteSet(S)
  BY <1>1, MigrateKeysAssumption, FS_Subset DEF Live
<1>3. S # {}
  BY MigrateKeysAssumption, FS_EmptySet DEF Samples
<1> QED
  BY <1>1, <1>2, <1>3, FS_CardinalityType, FS_EmptySet

\* What a sample shows when all rows are under e.
LEMMA SampleUnencrypted ==
  ASSUME NEW e \in Keys, Under(e, rows), NEW S \in Samples
  PROVE  Unencrypted(S) = IF e = None THEN S ELSE {}
<1>1. ASSUME NEW i \in S
      PROVE  (rows[i].hash = Hash(None, rows[i].value)) <=> (e = None)
  <2>1. rows[i] = Sealed(e, <<>>)
    BY DEF Samples, Under
  <2>2. rows[i].hash = Hash(e, <<>>)
    BY <2>1, SealedValue
  <2>3. e = None => rows[i].value = <<>>
    BY <2>1, SealedValue
  <2>4. Hash(e, <<>>) = Hash(None, rows[i].value) => e = None
    BY HashesDiffer
  <2> QED
    BY <2>2, <2>3, <2>4
<1> QED
  BY <1>1 DEF Unencrypted

LEMMA SampleOpened ==
  ASSUME NEW e \in Keys, Under(e, rows), NEW S \in Samples, NEW f \in Keys \ {None}
  PROVE  OpenedBy(f, S) = IF e = f THEN S ELSE {}
<1>1. ASSUME NEW i \in S
      PROVE  (CanDecrypt(f, rows[i].value) /\ rows[i].hash = Hash(f, Decrypt(f, rows[i].value)))
               <=> (e = f)
  <2>1. rows[i] = Sealed(e, <<>>)
    BY DEF Samples, Under
  <2>2. rows[i].hash = Hash(e, <<>>)
    BY <2>1, SealedValue
  <2>3. e = f => CanDecrypt(f, rows[i].value) /\ Decrypt(f, rows[i].value) = <<>>
    BY <2>1, Opens
  <2>4. Hash(e, <<>>) = Hash(f, Decrypt(f, rows[i].value)) => e = f
    BY HashesDiffer
  <2> QED
    BY <2>2, <2>3, <2>4
<1> QED
  BY <1>1 DEF OpenedBy

\* The warning of the dashboard is right.
LEMMA WarningIsRight ==
  ASSUME NEW e \in Keys, Under(e, rows), env \in Keys, NEW S \in Samples
  PROVE  CheckEncryptionMismatch(S) <=> (Live(rows) # {} /\ e # env)
<1>1. CASE Live(rows) = {}
  <2>1. S = {}
    BY <1>1 DEF Samples
  <2> QED
    BY <1>1, <2>1 DEF CheckEncryptionMismatch
<1>2. CASE Live(rows) # {}
  <2>1. S # {} /\ Cardinality(S) \in Nat /\ Cardinality(S) > 0 /\ Cardinality({}) = 0
    BY <1>2, SampleOfSome, FS_EmptySet
  <2>2. /\ Above(8, S, S) /\ ~Below(2, S, S)
        /\ ~Above(8, {}, S) /\ Below(2, {}, S)
    BY <2>1 DEF Above, Below
  <2>3. Unencrypted(S) = IF e = None THEN S ELSE {}
    BY SampleUnencrypted
  <2>4. CASE env = None
    <3>1. CheckEncryptionMismatch(S) <=> Below(2, Unencrypted(S), S)
      BY <2>1, <2>4 DEF CheckEncryptionMismatch
    <3>2. Below(2, Unencrypted(S), S) <=> (e # None)
      BY <2>2, <2>3
    <3> QED
      BY <1>2, <2>4, <3>1, <3>2
  <2>5. CASE env # None
    <3>1. OpenedBy(env, S) = IF e = env THEN S ELSE {}
      BY <2>5, SampleOpened
    <3>2. CheckEncryptionMismatch(S) <=>
            \/ Above(8, Unencrypted(S), S)
            \/ Below(2, Unencrypted(S), S) /\ Below(2, OpenedBy(env, S), S)
      BY <2>1, <2>5 DEF CheckEncryptionMismatch
    <3>3. CASE e = None
      BY <1>2, <2>2, <2>3, <2>5, <3>2, <3>3
    <3>4. CASE e # None
      BY <1>2, <2>2, <2>3, <3>1, <3>2, <3>4
    <3> QED
      BY <3>3, <3>4
  <2> QED
    BY <2>4, <2>5
<1> QED
  BY <1>1, <1>2

(***************************************************************************)
(* The invariant                                                           *)
(***************************************************************************)
IsTable(t) == t = [i \in Ids |-> t[i]]
IsCommand(c) ==
  /\ c = [pc |-> c.pc, from |-> c.from, to |-> c.to, last |-> c.last]
  /\ c.from \in Keys /\ c.to \in Keys

Shape == IsTable(rows) /\ IsTable(pool) /\ IsCommand(cmd) /\ env \in Keys

\* How far the command is, and what it has found out or done.
CommandInv ==
  /\ cmd.pc # "idle" => up = {}
  /\ cmd.pc = "preCheck" /\ cmd.from = None => Under(None, rows)
  /\ cmd.pc \in {"createTemp", "migrate", "verify", "switch"} => Under(cmd.from, rows)
  /\ cmd.pc \in {"migrate", "verify", "switch"} =>
       Live(temp) \subseteq Live(rows) /\ Under(cmd.to, temp)
  /\ cmd.pc = "switch" => Live(temp) = Live(rows)

IInv == Shape /\ AllAlike /\ CommandInv

LEMMA Updated ==
  ASSUME NEW t, IsTable(t), NEW i \in Ids, NEW x
  PROVE  /\ IsTable([t EXCEPT ![i] = x])
         /\ \A j \in Ids : [t EXCEPT ![i] = x][j] = IF j = i THEN x ELSE t[j]
BY DEF IsTable

LEMMA NoCommand ==
  IsCommand(NoCmd) /\ NoCmd.pc = "idle"
BY DEF IsCommand, NoCmd, Keys

LEMMA Went ==
  ASSUME IsCommand(cmd), NEW p, Goto(p)
  PROVE  /\ IsCommand(cmd)'
         /\ cmd'.pc = p /\ cmd'.from = cmd.from /\ cmd'.to = cmd.to
BY DEF IsCommand, Goto

LEMMA Advanced ==
  ASSUME IsCommand(cmd), NEW n, cmd' = [cmd EXCEPT !.last = n]
  PROVE  /\ IsCommand(cmd)'
         /\ cmd'.pc = cmd.pc /\ cmd'.from = cmd.from /\ cmd'.to = cmd.to
BY DEF IsCommand

LEMMA Executed ==
  ASSUME NEW from \in Keys, NEW to \in Keys, Execute(from, to)
  PROVE  /\ IsCommand(cmd)'
         /\ cmd'.pc = (IF from = None THEN "detect" ELSE "preCheck") /\ cmd'.from = from
BY DEF IsCommand, Execute

LEMMA ShapeAtFirst == Init => Shape
<1> SUFFICES ASSUME Init PROVE Shape
  OBVIOUS
<1>1. IsTable(rows) /\ IsTable(pool) /\ env \in Keys
  BY DEF Init, IsTable, Keys, Empty
<1>2. IsCommand(cmd)
  BY NoCommand DEF Init
<1> QED
  BY <1>1, <1>2 DEF Shape

LEMMA ShapeStays == Shape /\ [Next]_vars => Shape'
<1> SUFFICES ASSUME Shape, [Next]_vars PROVE Shape'
  OBVIOUS
<1> USE DEF Shape
<1>1. ASSUME NEW from \in Keys, NEW to \in Keys, Execute(from, to) PROVE Shape'
  BY <1>1, Executed DEF Execute, service
<1>2. CASE DetectIfAlreadyEncrypted
  BY <1>2, Went, NoCommand DEF DetectIfAlreadyEncrypted, service
<1>3. CASE PreCheck
  BY <1>3, Went, NoCommand DEF PreCheck, service
<1>4. CASE CreateTempTable
  BY <1>4, Went DEF CreateTempTable, service
<1>5. CASE ProcessBatchToTempTable
  BY <1>5, Advanced, NoCommand DEF ProcessBatchToTempTable, service
<1>6. CASE Migrated
  BY <1>6, Went DEF Migrated, service
<1>7. CASE VerifyTempColumns
  BY <1>7, Went, NoCommand DEF VerifyTempColumns, service
<1>8. CASE SwitchColumns
  <2>1. IsTable(rows)'
    BY <1>8 DEF SwitchColumns, IsTable
  <2> QED
    BY <1>8, <2>1, Went DEF SwitchColumns
<1>9. CASE ClearCache
  <2>1. IsTable(Empty)
    BY DEF IsTable, Empty
  <2> QED
    BY <1>9, <2>1, Went DEF ClearCache
<1>10. CASE DropTempTable
  BY <1>10, NoCommand DEF DropTempTable, service
<1>11. CASE Aborts
  BY <1>11, NoCommand DEF Aborts, service
<1>12. ASSUME NEW e \in Keys, StartMaster(e) PROVE Shape'
  BY <1>12 DEF StartMaster, MayStart
<1>13. ASSUME NEW e \in Keys, StartSlave(e) PROVE Shape'
  BY <1>13 DEF StartSlave, MayStart
<1>14. ASSUME NEW n \in Nodes, Stop(n) PROVE Shape'
  BY <1>14 DEF Stop
<1>15. ASSUME NEW i \in Ids, AddKey(i) PROVE Shape'
  BY <1>15, Updated DEF AddKey
<1>16. ASSUME NEW i \in Ids, RemoveKey(i) PROVE Shape'
  BY <1>16, Updated DEF RemoveKey
<1>17. CASE UNCHANGED vars
  BY <1>17 DEF vars
<1> QED
  BY <1>1, <1>2, <1>3, <1>4, <1>5, <1>6, <1>7, <1>8, <1>9, <1>10, <1>11, <1>12,
     <1>13, <1>14, <1>15, <1>16, <1>17 DEF Next, CommandStep, ServiceStep

(***************************************************************************)
(* The copies in the store are of the rows as they are, except after a     *)
(* switch and before the store is cleared or filled (CopiesAreCurrent).    *)
(***************************************************************************)
LEMMA CopiesStay == Shape /\ CopiesAreCurrent /\ [Next]_vars => CopiesAreCurrent'
<1> SUFFICES ASSUME Shape, CopiesAreCurrent, [Next]_vars, ~stale' PROVE CopiesAreCurrent'
  BY DEF CopiesAreCurrent
<1>0. ASSUME UNCHANGED <<rows, pool, stale>> PROVE CopiesAreCurrent'
  BY <1>0 DEF CopiesAreCurrent, Live
<1>1. ASSUME NEW from \in Keys, NEW to \in Keys, Execute(from, to) PROVE CopiesAreCurrent'
  BY <1>0, <1>1 DEF Execute, service
<1>2. CASE DetectIfAlreadyEncrypted
  BY <1>0, <1>2 DEF DetectIfAlreadyEncrypted, service
<1>3. CASE PreCheck
  BY <1>0, <1>3 DEF PreCheck, service
<1>4. CASE CreateTempTable
  BY <1>0, <1>4 DEF CreateTempTable, service
<1>5. CASE ProcessBatchToTempTable
  BY <1>0, <1>5 DEF ProcessBatchToTempTable, service
<1>6. CASE Migrated
  BY <1>0, <1>6 DEF Migrated, service
<1>7. CASE VerifyTempColumns
  BY <1>0, <1>7 DEF VerifyTempColumns, service
<1>8. CASE SwitchColumns
  BY <1>8 DEF SwitchColumns
<1>9. CASE ClearCache
  <2>1. CASE pool' = Empty
    BY <2>1 DEF CopiesAreCurrent, Live, Empty
  <2> QED
    BY <1>0, <1>9, <2>1 DEF ClearCache
<1>10. CASE DropTempTable
  BY <1>0, <1>10 DEF DropTempTable, service
<1>11. CASE Aborts
  BY <1>0, <1>11 DEF Aborts, service
<1>12. ASSUME NEW e \in Keys, StartMaster(e) PROVE CopiesAreCurrent'
  BY <1>12 DEF StartMaster, CopiesAreCurrent
<1>13. ASSUME NEW e \in Keys, StartSlave(e) PROVE CopiesAreCurrent'
  BY <1>0, <1>13 DEF StartSlave
<1>14. ASSUME NEW n \in Nodes, Stop(n) PROVE CopiesAreCurrent'
  BY <1>0, <1>14 DEF Stop
<1>15. ASSUME NEW i \in Ids, AddKey(i) PROVE CopiesAreCurrent'
  <2>0. pool' = [pool EXCEPT ![i] = rows'[i]]
    BY <1>15 DEF AddKey
  <2>1. rows'[i] = pool'[i]
    BY <2>0, Updated DEF Shape
  <2>2. \A j \in Ids \ {i} : rows'[j] = rows[j] /\ pool'[j] = pool[j]
    BY <1>15, Updated DEF AddKey, Shape
  <2>3. ~stale
    BY <1>15 DEF AddKey
  <2> QED
    BY <2>1, <2>2, <2>3 DEF CopiesAreCurrent, Live
<1>16. ASSUME NEW i \in Ids, RemoveKey(i) PROVE CopiesAreCurrent'
  <2>1. rows'[i] = pool'[i]
    BY <1>16, Updated DEF RemoveKey, Shape
  <2>2. \A j \in Ids \ {i} : rows'[j] = rows[j] /\ pool'[j] = pool[j]
    BY <1>16, Updated DEF RemoveKey, Shape
  <2>3. ~stale
    BY <1>16 DEF RemoveKey
  <2> QED
    BY <2>1, <2>2, <2>3 DEF CopiesAreCurrent, Live
<1>17. CASE UNCHANGED vars
  BY <1>0, <1>17 DEF vars
<1> QED
  BY <1>1, <1>2, <1>3, <1>4, <1>5, <1>6, <1>7, <1>8, <1>9, <1>10, <1>11, <1>12,
     <1>13, <1>14, <1>15, <1>16, <1>17 DEF Next, CommandStep, ServiceStep

\* A copy in the store is of the row as it is, whatever clearCache or a start
\* of a master leaves undone or is killed in, and whether or not nodes heed
\* the warning.
THEOREM CopiesHold == Spec => []CopiesAreCurrent
<1>1. Init => CopiesAreCurrent
  BY DEF Init, CopiesAreCurrent, Live, Empty
<1> QED
  BY <1>1, ShapeAtFirst, ShapeStays, CopiesStay, PTL DEF Spec

(***************************************************************************)
(* All rows are under one key                                              *)
(***************************************************************************)
LEMMA AlikeUnder == AllAlike <=> \E e \in Keys : Under(e, rows)
BY DEF AllAlike, Under

LEMMA FirstInv == Init => IInv
<1> SUFFICES ASSUME Init PROVE IInv
  OBVIOUS
<1>1. AllAlike
  BY DEF Init, AllAlike, Live
<1>2. CommandInv
  BY DEF Init, CommandInv, NoCmd
<1> QED
  BY <1>1, <1>2, ShapeAtFirst DEF IInv

\* Steps that leave the rows alone.
LEMMA SameRows ==
  ASSUME AllAlike, UNCHANGED rows
  PROVE  AllAlike'
BY DEF AllAlike, Live

LEMMA Ended ==
  ASSUME cmd' = NoCmd
  PROVE  CommandInv'
BY NoCommand DEF CommandInv

\* Rows a sample of which is not encrypted are not.
LEMMA NoneEncrypted ==
  ASSUME AllAlike, NEW S \in Samples, S \subseteq Unencrypted(S)
  PROVE  Under(None, rows)
<1>1. CASE Live(rows) = {}
  BY <1>1 DEF Under
<1>2. CASE Live(rows) # {}
  <2>1. PICK e \in Keys : Under(e, rows)
    BY AlikeUnder
  <2>2. S # {}
    BY <1>2, SampleOfSome
  <2>3. e = None
    BY <2>1, <2>2, SampleUnencrypted
  <2> QED
    BY <2>1, <2>3
<1> QED
  BY <1>1, <1>2

\* Rows that a key opens are under it.
LEMMA OpenedAreUnder ==
  ASSUME AllAlike, NEW f \in Keys \ {None},
         \A i \in Live(rows) : CanDecrypt(f, rows[i].value)
  PROVE  Under(f, rows)
<1>1. CASE Live(rows) = {}
  BY <1>1 DEF Under
<1>2. CASE Live(rows) # {}
  <2>1. PICK e \in Keys : Under(e, rows)
    BY AlikeUnder
  <2>2. PICK i \in Live(rows) : TRUE
    BY <1>2
  <2>3. CanDecrypt(f, Sealed(e, <<>>).value)
    BY <2>1, <2>2 DEF Under
  <2>4. f = e
    BY <2>3, Opens
  <2> QED
    BY <2>1, <2>4
<1> QED
  BY <1>1, <1>2

LEMMA BatchResealed ==
  ASSUME Under(cmd.from, rows), cmd.from \in Keys, NEW i \in Batch
  PROVE  i \in Live(rows) /\ Reseal(rows[i]) = Sealed(cmd.to, <<>>)
<1>1. i \in Live(rows)
  BY DEF Batch, First, ToMigrate
<1>2. rows[i] = Sealed(cmd.from, <<>>)
  BY <1>1 DEF Under
<1>3. Decrypt(cmd.from, rows[i].value) = <<>>
  BY <1>2, Opens
<1> QED
  BY <1>1, <1>3 DEF Reseal

\* What a batch writes is under --to, and nothing else is written.
LEMMA BatchUnder ==
  ASSUME Under(cmd.from, rows), Under(cmd.to, temp), cmd.from \in Keys,
         Live(temp) \subseteq Live(rows),
         temp' = [i \in Ids |-> IF i \in Batch THEN Reseal(rows[i]) ELSE temp[i]]
  PROVE  /\ \A i \in Live(temp') : temp'[i] = Sealed(cmd.to, <<>>)
         /\ Live(temp') \subseteq Live(rows)
BY BatchResealed DEF Live, Under

\* The switch puts all rows under --to at once.
LEMMA SwitchUnder ==
  ASSUME Under(cmd.to, temp), Live(temp) = Live(rows), SwitchColumns
  PROVE  /\ Live(rows') = Live(rows)
         /\ \A i \in Live(rows') : rows'[i] = Sealed(cmd.to, <<>>)
BY DEF SwitchColumns, Under, Live

\* A key is added under the key of the others.
LEMMA AddUnder ==
  ASSUME IInv, Heeded, NEW i \in Ids, AddKey(i)
  PROVE  /\ Under(env, rows) /\ i \notin Live(rows)
         /\ rows'[i] = Sealed(env, <<>>)
         /\ \A j \in Ids \ {i} : rows'[j] = rows[j]
<1>1. PICK e \in Keys : Under(e, rows)
  BY AlikeUnder DEF IInv
<1>2. PICK S \in Samples : ~CheckEncryptionMismatch(S)
  BY DEF AddKey
<1>3. Live(rows) = {} \/ e = env
  BY <1>1, <1>2, WarningIsRight DEF IInv, Shape
<1>4. Under(env, rows)
  BY <1>1, <1>3 DEF Under
<1>5. rows' = [rows EXCEPT ![i] = Sealed(env, <<>>)] /\ i \notin Live(rows)
  BY DEF AddKey
<1>6. IsTable(rows)
  BY DEF IInv, Shape
<1>7. \A j \in Ids : rows'[j] = IF j = i THEN Sealed(env, <<>>) ELSE rows[j]
  <2>1. \A x : \A j \in Ids : [rows EXCEPT ![i] = x][j] = IF j = i THEN x ELSE rows[j]
    BY <1>6 DEF IsTable
  <2> QED
    BY <1>5, <2>1
<1> QED
  BY <1>4, <1>5, <1>7

LEMMA RemoveUnder ==
  ASSUME IInv, NEW i \in Ids, RemoveKey(i)
  PROVE  /\ rows'[i] = NoRow
         /\ \A j \in Ids \ {i} : rows'[j] = rows[j]
<1>1. rows' = [rows EXCEPT ![i] = NoRow]
  BY DEF RemoveKey
<1> QED
  BY <1>1, Updated DEF IInv, Shape

LEMMA AlikeStays == IInv /\ Heeded /\ [Next]_vars => AllAlike'
<1> SUFFICES ASSUME IInv, Heeded, [Next]_vars PROVE AllAlike'
  OBVIOUS
<1> USE DEF IInv
<1>0. ASSUME UNCHANGED rows PROVE AllAlike'
  BY <1>0, SameRows
<1>1. CASE \E from, to \in Keys : Execute(from, to)
  BY <1>0, <1>1 DEF Execute
<1>2. CASE CommandStep /\ ~SwitchColumns
  BY <1>0, <1>2 DEF CommandStep, DetectIfAlreadyEncrypted, PreCheck, CreateTempTable,
     ProcessBatchToTempTable, Migrated, VerifyTempColumns, ClearCache, DropTempTable
<1>3. CASE SwitchColumns
  <2>1. Under(cmd.to, temp) /\ Live(temp) = Live(rows)
    BY <1>3 DEF SwitchColumns, CommandInv
  <2>2. cmd.to \in Keys
    BY DEF Shape, IsCommand
  <2> QED
    BY <1>3, <2>1, <2>2, SwitchUnder DEF AllAlike
<1>4. CASE Aborts
  BY <1>0, <1>4 DEF Aborts
<1>5. CASE \E e \in Keys : StartMaster(e) \/ StartSlave(e)
  BY <1>0, <1>5 DEF StartMaster, StartSlave
<1>6. CASE \E n \in Nodes : Stop(n)
  BY <1>0, <1>6 DEF Stop
<1>7. ASSUME NEW i \in Ids, AddKey(i) PROVE AllAlike'
  <2>1. /\ Under(env, rows) /\ rows'[i] = Sealed(env, <<>>)
        /\ \A j \in Ids \ {i} : rows'[j] = rows[j]
    BY <1>7, AddUnder
  <2>2. \A j \in Live(rows') : rows'[j] = Sealed(env, <<>>)
    BY <2>1 DEF Under, Live
  <2>3. env \in Keys
    BY DEF Shape
  <2> QED
    BY <2>2, <2>3 DEF AllAlike
<1>8. ASSUME NEW i \in Ids, RemoveKey(i) PROVE AllAlike'
  BY <1>8, RemoveUnder DEF AllAlike, Live
<1>9. CASE UNCHANGED vars
  BY <1>0, <1>9 DEF vars
<1> QED
  BY <1>1, <1>2, <1>3, <1>4, <1>5, <1>6, <1>7, <1>8, <1>9 DEF Next, ServiceStep

LEMMA CommandStays == IInv /\ [Next]_vars => CommandInv'
<1> SUFFICES ASSUME IInv, [Next]_vars PROVE CommandInv'
  OBVIOUS
<1> USE DEF IInv, Shape
<1>1. ASSUME NEW from \in Keys, NEW to \in Keys, Execute(from, to) PROVE CommandInv'
  <2>1. cmd'.pc = (IF from = None THEN "detect" ELSE "preCheck") /\ cmd'.from = from
    BY <1>1, Executed
  <2>2. up' = {}
    BY <1>1 DEF Execute, service
  <2> QED
    BY <2>1, <2>2 DEF CommandInv
<1>2. CASE DetectIfAlreadyEncrypted
  <2>1. CASE cmd' = NoCmd
    BY <2>1, Ended
  <2>2. ASSUME NEW S \in Samples, S \subseteq Unencrypted(S), Goto("preCheck")
        PROVE  CommandInv'
    <3>1. Under(None, rows')
      BY <1>2, <2>2, NoneEncrypted DEF DetectIfAlreadyEncrypted
    <3>2. cmd'.pc = "preCheck" /\ up' = {}
      BY <1>2, <2>2, Went DEF DetectIfAlreadyEncrypted, service, CommandInv
    <3> QED
      BY <3>1, <3>2 DEF CommandInv
  <2> QED
    BY <1>2, <2>1, <2>2 DEF DetectIfAlreadyEncrypted
<1>3. CASE PreCheck
  <2>1. CASE cmd' = NoCmd
    BY <2>1, Ended
  <2>2. CASE Goto("createTemp") /\ \A i \in Live(rows) : CanDecrypt(cmd.from, rows[i].value)
    <3>1. Under(cmd.from, rows)
      BY <1>3, <2>2, OpenedAreUnder DEF PreCheck, CommandInv, IsCommand
    <3>2. cmd'.pc = "createTemp" /\ cmd'.from = cmd.from
      BY <2>2, Went
    <3>3. up' = {} /\ rows' = rows
      BY <1>3 DEF PreCheck, service, CommandInv
    <3> QED
      BY <3>1, <3>2, <3>3 DEF CommandInv, Under, Live
  <2> QED
    BY <1>3, <2>1, <2>2 DEF PreCheck
<1>4. CASE CreateTempTable
  <2>1. cmd'.pc = "migrate" /\ cmd'.from = cmd.from
    BY <1>4, Went DEF CreateTempTable
  <2>2. up' = {} /\ rows' = rows /\ temp' = Empty /\ Under(cmd.from, rows)
    BY <1>4 DEF CreateTempTable, service, CommandInv
  <2>3. Live(Empty) = {}
    BY DEF Live, Empty
  <2> QED
    BY <2>1, <2>2, <2>3 DEF CommandInv, Under, Live
<1>5. CASE ProcessBatchToTempTable
  <2>1. CASE cmd' = NoCmd
    BY <2>1, Ended
  <2>2. CASE /\ temp' = [i \in Ids |-> IF i \in Batch THEN Reseal(rows[i]) ELSE temp[i]]
             /\ \E n : cmd' = [cmd EXCEPT !.last = n]
    <3>1. cmd'.pc = cmd.pc /\ cmd'.from = cmd.from /\ cmd'.to = cmd.to /\ cmd.pc = "migrate"
      BY <1>5, <2>2, Advanced DEF ProcessBatchToTempTable
    <3>2. Under(cmd.from, rows) /\ Under(cmd.to, temp) /\ Live(temp) \subseteq Live(rows)
      BY <3>1 DEF CommandInv
    <3>3. /\ \A i \in Live(temp') : temp'[i] = Sealed(cmd.to, <<>>)
          /\ Live(temp') \subseteq Live(rows)
      BY <2>2, <3>2, BatchUnder DEF IsCommand
    <3>4. up' = {} /\ rows' = rows
      BY <1>5 DEF ProcessBatchToTempTable, service, CommandInv
    <3> QED
      BY <3>1, <3>2, <3>3, <3>4 DEF CommandInv, Under, Live
  <2> QED
    BY <1>5, <2>1, <2>2 DEF ProcessBatchToTempTable
<1>6. CASE Migrated
  <2>1. cmd'.pc = "verify" /\ cmd'.from = cmd.from /\ cmd'.to = cmd.to
    BY <1>6, Went DEF Migrated
  <2>2. up' = {} /\ UNCHANGED <<rows, temp>>
    BY <1>6 DEF Migrated, service, CommandInv
  <2>3. /\ Under(cmd.from, rows) /\ Under(cmd.to, temp)
        /\ Live(temp) \subseteq Live(rows)
    BY <1>6 DEF Migrated, CommandInv
  <2> QED
    BY <2>1, <2>2, <2>3 DEF CommandInv, Under, Live
<1>7. CASE VerifyTempColumns
  <2>1. CASE cmd' = NoCmd
    BY <2>1, Ended
  <2>2. CASE Goto("switch") /\ Cardinality(Live(temp)) = Cardinality(Live(rows))
    <3>1. cmd'.pc = "switch" /\ cmd'.from = cmd.from /\ cmd'.to = cmd.to
      BY <2>2, Went
    <3>2. up' = {} /\ UNCHANGED <<rows, temp>>
      BY <1>7 DEF VerifyTempColumns, service, CommandInv
    <3>3. /\ Under(cmd.from, rows) /\ Under(cmd.to, temp)
          /\ Live(temp) \subseteq Live(rows)
      BY <1>7 DEF VerifyTempColumns, CommandInv
    <3>4. IsFiniteSet(Live(rows))
      BY MigrateKeysAssumption, FS_Subset DEF Live
    <3>5. Live(temp) = Live(rows)
      BY <2>2, <3>3, <3>4, FS_Subset
    <3> QED
      BY <3>1, <3>2, <3>3, <3>5 DEF CommandInv, Under, Live
  <2> QED
    BY <1>7, <2>1, <2>2 DEF VerifyTempColumns
<1>8. CASE SwitchColumns
  <2>1. cmd'.pc = "clearCache" /\ up' = {}
    BY <1>8, Went DEF SwitchColumns, CommandInv
  <2> QED
    BY <2>1 DEF CommandInv
<1>9. CASE ClearCache
  <2>1. cmd'.pc = "dropTemp" /\ up' = {}
    BY <1>9, Went DEF ClearCache, CommandInv
  <2> QED
    BY <2>1 DEF CommandInv
<1>10. CASE DropTempTable \/ Aborts
  BY <1>10, Ended DEF DropTempTable, Aborts
<1>11. ASSUME UNCHANGED cmd, cmd.pc = "idle" PROVE CommandInv'
  BY <1>11 DEF CommandInv
<1>12. CASE \E e \in Keys : StartMaster(e) \/ StartSlave(e)
  BY <1>11, <1>12 DEF StartMaster, StartSlave, MayStart
<1>13. ASSUME NEW n \in Nodes, Stop(n) PROVE CommandInv'
  <2>1. up # {} /\ UNCHANGED cmd
    BY <1>13 DEF Stop
  <2> QED
    BY <1>11, <2>1 DEF CommandInv
<1>14. ASSUME NEW i \in Ids, AddKey(i) \/ RemoveKey(i) PROVE CommandInv'
  <2>1. up # {} /\ UNCHANGED cmd
    BY <1>14 DEF AddKey, RemoveKey
  <2> QED
    BY <1>11, <2>1 DEF CommandInv
<1>15. CASE UNCHANGED vars
  BY <1>15 DEF vars, CommandInv, Under, Live
<1> QED
  BY <1>1, <1>2, <1>3, <1>4, <1>5, <1>6, <1>7, <1>8, <1>9, <1>10, <1>12, <1>13,
     <1>14, <1>15 DEF Next, CommandStep, ServiceStep

LEMMA InvStays == IInv /\ Heeded /\ [Next]_vars => IInv'
BY ShapeStays, AlikeStays, CommandStays DEF IInv

\* While the warning is heeded, all keys in the database are under one key,
\* each encrypted once, whatever interrupts the migrations.
THEOREM RowsAlike ==
  ASSUME Heeded
  PROVE  Spec => []AllAlike
<1>1. IInv /\ [Next]_vars => IInv'
  BY InvStays
<1>2. IInv => AllAlike
  BY DEF IInv
<1> QED
  BY <1>1, <1>2, FirstInv, PTL DEF Spec

\* Then the dashboard warns exactly when the nodes have another key,
\* whichever rows it looks at.
THEOREM WarningHolds ==
  ASSUME Heeded
  PROVE  Spec => []WarnsRightly
<1>1. IInv /\ [Next]_vars => IInv'
  BY InvStays
<1>2. IInv => WarnsRightly
  <2> SUFFICES ASSUME IInv, NEW S \in Samples
               PROVE  CheckEncryptionMismatch(S)
                        <=> \E i \in Live(rows) : rows[i] # Sealed(env, <<>>)
    BY DEF WarnsRightly
  <2>1. PICK e \in Keys : Under(e, rows)
    BY AlikeUnder DEF IInv
  <2>2. env \in Keys
    BY DEF IInv, Shape
  <2>3. CheckEncryptionMismatch(S) <=> (Live(rows) # {} /\ e # env)
    BY <2>1, <2>2, WarningIsRight
  <2>4. (\E i \in Live(rows) : rows[i] # Sealed(env, <<>>)) <=> (Live(rows) # {} /\ e # env)
    BY <2>1, <2>2, SealedDiffer DEF Under
  <2> QED
    BY <2>3, <2>4
<1> QED
  BY <1>1, <1>2, FirstInv, PTL DEF Spec

(***************************************************************************)
(* Types                                                                   *)
(***************************************************************************)
\* Batches of a positive size have rows while there are any, and a last one.
LEMMA SmallestHas ==
  ASSUME NEW T \in SUBSET Nat, T # {}
  PROVE  \E m \in T : \A n \in T : m <= n
<1>1. \A m, n \in Nat : n < m => <<n, m>> \in OpToRel(<, Nat)
  BY DEF OpToRel
<1>2. T \subseteq Nat /\ T # {}
  OBVIOUS
<1>3. \E m \in T : \A n \in T : ~ (<<n, m>> \in OpToRel(<, Nat))
  BY <1>2, NatLessThanWellFounded, WFMin, Zenon
<1>4. \E m \in T : \A n \in T : ~ (n < m)
  BY <1>1, <1>2, <1>3, Zenon
<1> QED
  BY <1>4

LEMMA FirstHas ==
  ASSUME NEW S \in SUBSET Ids, S # {}, NEW n \in Nat \ {0}
  PROVE  First(n, S) # {} /\ First(n, S) \subseteq S
<1>1. S \subseteq Nat
  BY MigrateKeysAssumption
<1>2. PICK m \in S : \A i \in S : m <= i
  BY <1>1, SmallestHas
<1>3. {j \in S : j < m} = {}
  <2>1. \A j \in S : ~(j < m)
    BY <1>1, <1>2
  <2> QED
    BY <2>1
<1>4. m \in First(n, S)
  BY <1>3, FS_EmptySet DEF First
<1> QED
  BY <1>4 DEF First

LEMMA LargestIs ==
  ASSUME NEW S \in SUBSET Ids, S # {}
  PROVE  \E i \in S : \A j \in S : j <= i
<1> DEFINE above(i) == {j \in S : j > i}
           T == {Cardinality(above(i)) : i \in S}
<1>0. S \subseteq Nat /\ IsFiniteSet(S)
  BY MigrateKeysAssumption, FS_Subset
<1>1. \A i \in S : IsFiniteSet(above(i)) /\ Cardinality(above(i)) \in Nat
  BY <1>0, FS_Subset, FS_CardinalityType
<1>2. PICK i \in S : \A j \in S : Cardinality(above(i)) <= Cardinality(above(j))
  <2>1. T \in SUBSET Nat /\ T # {}
    BY <1>1
  <2>2. PICK m \in T : \A n \in T : m <= n
    BY <2>1, SmallestHas
  <2> QED
    BY <2>2
<1>3. ASSUME NEW j \in S, j > i
      PROVE  FALSE
  <2>0. i \in Nat /\ j \in Nat /\ ~(j > j) /\ \A k \in S : k > j => k > i
    BY <1>0, <1>3
  <2>1. above(j) \subseteq above(i) /\ j \in above(i) /\ j \notin above(j)
    BY <1>3, <2>0
  <2>2. Cardinality(above(j)) < Cardinality(above(i))
    <3>1. /\ above(j) \in SUBSET above(i) /\ above(i) # above(j)
          /\ IsFiniteSet(above(i))
          /\ Cardinality(above(i)) \in Nat /\ Cardinality(above(j)) \in Nat
      BY <1>1, <2>1
    <3> HIDE DEF above
    <3>2. Cardinality(above(j)) <= Cardinality(above(i))
      BY <3>1, FS_Subset
    <3>3. Cardinality(above(j)) # Cardinality(above(i))
      BY <3>1, FS_Subset
    <3> QED
      BY <3>1, <3>2, <3>3
  <2> QED
    BY <1>1, <1>2, <2>2
<1> QED
  BY <1>0, <1>3

LEMMA LastIsOne ==
  ASSUME ToMigrate # {}
  PROVE  (CHOOSE i \in Batch : \A j \in Batch : j <= i) \in Ids
<1>1. ToMigrate \subseteq Ids
  BY DEF ToMigrate, Live
<1>2. Batch # {} /\ Batch \subseteq Ids
  BY <1>1, FirstHas, MigrateKeysAssumption DEF Batch
<1> QED
  BY <1>2, LargestIs

LEMMA SealedIsRow ==
  ASSUME NEW e \in Keys
  PROVE  Sealed(e, <<>>) \in Row
<1>1. <<>> \in Values
  <2>1. <<>> \in [1..0 -> Enc]
    OBVIOUS
  <2> QED
    BY <2>1 DEF Values
<1>2. e # None => <<e>> \in Values
  <2>1. e # None => <<e>> \in [1..1 -> Enc]
    BY DEF Keys
  <2> QED
    BY <2>1 DEF Values
<1>3. Encrypt(e, <<>>) \in Values
  BY <1>1, <1>2 DEF Encrypt
<1>4. Hash(e, <<>>) \in [key : Keys, of : Values]
  BY <1>1 DEF Hash
<1> QED
  BY <1>3, <1>4 DEF Sealed, Row

LEMMA NoRowIsRow == NoRow \in Row /\ Empty \in [Ids -> Row]
<1>1. <<>> \in Values
  <2>1. <<>> \in [1..0 -> Enc]
    OBVIOUS
  <2> QED
    BY <2>1 DEF Values
<1>2. NoRow \in Row
  BY <1>1 DEF NoRow, Row
<1> QED
  BY <1>2 DEF Empty

\* Rows that are alike have their type.
LEMMA RowsTyped ==
  ASSUME NEW t, IsTable(t), NEW e \in Keys, \A i \in Live(t) : t[i] = Sealed(e, <<>>)
  PROVE  t \in [Ids -> Row]
<1>1. \A i \in Ids : t[i] \in Row
  BY SealedIsRow, NoRowIsRow DEF Live
<1> QED
  BY <1>1 DEF IsTable

LEMMA InitTyped == Init => TypeOK
<1> SUFFICES ASSUME Init PROVE TypeOK
  OBVIOUS
<1>1. rows \in [Ids -> Row]
  BY RowsTyped, FirstInv DEF IInv, Shape, AllAlike
<1>2. cmd \in [pc : Pcs, from : Keys, to : Keys, last : Ids \cup {0}]
  BY DEF Init, NoCmd, Pcs, Keys
<1>3. temp \in [Ids -> Row] /\ pool \in [Ids -> Row]
  BY NoRowIsRow DEF Init
<1> QED
  BY <1>1, <1>2, <1>3 DEF Init, TypeOK, Keys

Commands == [pc : Pcs, from : Keys, to : Keys, last : Ids \cup {0}]

LEMMA CommandTyped ==
  ASSUME cmd \in Commands, [Next]_vars
  PROVE  cmd' \in Commands
<1>1. NoCmd \in Commands
  BY DEF Commands, NoCmd, Pcs, Keys
<1>2. \A p \in Pcs : Goto(p) => cmd' \in Commands
  BY DEF Commands, Goto
<1>3. {"idle", "detect", "preCheck", "createTemp", "migrate", "verify", "switch",
       "clearCache", "dropTemp"} \subseteq Pcs
  BY DEF Pcs
<1>4. ASSUME NEW from \in Keys, NEW to \in Keys, Execute(from, to)
      PROVE  cmd' \in Commands
  BY <1>3, <1>4 DEF Execute, Commands
<1>5. CASE DetectIfAlreadyEncrypted \/ PreCheck \/ VerifyTempColumns
  BY <1>1, <1>2, <1>3, <1>5 DEF DetectIfAlreadyEncrypted, PreCheck, VerifyTempColumns
<1>6. CASE CreateTempTable \/ Migrated \/ SwitchColumns \/ ClearCache
  BY <1>2, <1>3, <1>6 DEF CreateTempTable, Migrated, SwitchColumns, ClearCache
<1>7. CASE ProcessBatchToTempTable
  <2>1. \A n \in Ids : [cmd EXCEPT !.last = n] \in Commands
    BY DEF Commands
  <2>2. (CHOOSE i \in Batch : \A j \in Batch : j <= i) \in Ids
    BY <1>7, LastIsOne DEF ProcessBatchToTempTable
  <2> QED
    BY <1>1, <1>7, <2>1, <2>2 DEF ProcessBatchToTempTable
<1>8. CASE DropTempTable \/ Aborts
  BY <1>1, <1>8 DEF DropTempTable, Aborts
<1>9. CASE ServiceStep
  BY <1>9 DEF ServiceStep, StartMaster, StartSlave, MayStart, Stop, AddKey, RemoveKey
<1>10. CASE UNCHANGED vars
  BY <1>10 DEF vars
<1> QED
  BY <1>4, <1>5, <1>6, <1>7, <1>8, <1>9, <1>10 DEF Next, CommandStep

LEMMA TempTyped ==
  ASSUME IInv, temp \in [Ids -> Row], [Next]_vars
  PROVE  temp' \in [Ids -> Row]
<1>1. CASE ProcessBatchToTempTable
  <2>1. Under(cmd.from, rows) /\ cmd.from \in Keys /\ cmd.to \in Keys
    BY <1>1 DEF ProcessBatchToTempTable, IInv, CommandInv, Shape, IsCommand
  <2>2. \A i \in Batch : Reseal(rows[i]) \in Row
    BY <2>1, BatchResealed, SealedIsRow
  <2> QED
    BY <1>1, <2>2 DEF ProcessBatchToTempTable
<1>2. CASE temp' \in {Empty, temp}
  BY <1>2, NoRowIsRow
<1>3. CASE CommandStep
  BY <1>1, <1>2, <1>3 DEF CommandStep, DetectIfAlreadyEncrypted, PreCheck, CreateTempTable,
     Migrated, VerifyTempColumns, SwitchColumns, ClearCache, DropTempTable
<1>4. CASE (\E from, to \in Keys : Execute(from, to)) \/ Aborts
  BY <1>2, <1>4 DEF Execute, Aborts
<1>5. CASE ServiceStep
  BY <1>2, <1>5 DEF ServiceStep, StartMaster, StartSlave, Stop, AddKey, RemoveKey
<1>6. CASE UNCHANGED vars
  BY <1>2, <1>6 DEF vars
<1> QED
  BY <1>3, <1>4, <1>5, <1>6 DEF Next

LEMMA PoolTyped ==
  ASSUME rows \in [Ids -> Row], rows' \in [Ids -> Row], pool \in [Ids -> Row], [Next]_vars
  PROVE  pool' \in [Ids -> Row]
<1>1. CASE pool' \in {Empty, rows, pool}
  BY <1>1, NoRowIsRow
<1>2. CASE CommandStep
  BY <1>1, <1>2 DEF CommandStep, DetectIfAlreadyEncrypted, PreCheck, CreateTempTable,
     ProcessBatchToTempTable, Migrated, VerifyTempColumns, SwitchColumns, ClearCache,
     DropTempTable, service
<1>3. CASE (\E from, to \in Keys : Execute(from, to)) \/ Aborts
  BY <1>1, <1>3 DEF Execute, Aborts, service
<1>4. CASE \E e \in Keys : StartMaster(e) \/ StartSlave(e)
  BY <1>1, <1>4 DEF StartMaster, StartSlave
<1>5. CASE \E n \in Nodes : Stop(n)
  BY <1>1, <1>5 DEF Stop
<1>6. ASSUME NEW i \in Ids, AddKey(i)
      PROVE  pool' \in [Ids -> Row]
  BY <1>6 DEF AddKey
<1>7. ASSUME NEW i \in Ids, RemoveKey(i)
      PROVE  pool' \in [Ids -> Row]
  BY <1>7, NoRowIsRow DEF RemoveKey
<1>8. CASE UNCHANGED vars
  BY <1>1, <1>8 DEF vars
<1> QED
  BY <1>2, <1>3, <1>4, <1>5, <1>6, <1>7, <1>8 DEF Next, ServiceStep

LEMMA ServiceTyped ==
  ASSUME up \subseteq Nodes, stale \in BOOLEAN, [Next]_vars
  PROVE  up' \subseteq Nodes /\ stale' \in BOOLEAN
<1>1. CASE CommandStep
  BY <1>1 DEF CommandStep, DetectIfAlreadyEncrypted, PreCheck, CreateTempTable,
     ProcessBatchToTempTable, Migrated, VerifyTempColumns, SwitchColumns, ClearCache,
     DropTempTable, service
<1>2. CASE (\E from, to \in Keys : Execute(from, to)) \/ Aborts
  BY <1>2 DEF Execute, Aborts, service
<1>3. CASE ServiceStep
  BY <1>3 DEF ServiceStep, StartMaster, StartSlave, MayStart, Stop, AddKey, RemoveKey, Nodes
<1>4. CASE UNCHANGED vars
  BY <1>4 DEF vars
<1> QED
  BY <1>1, <1>2, <1>3, <1>4 DEF Next

\* While the warning is heeded, every variable has its type: no value is ever
\* encrypted twice.
THEOREM TypesHold ==
  ASSUME Heeded
  PROVE  Spec => []TypeOK
<1>1. IInv /\ TypeOK /\ [Next]_vars => TypeOK'
  <2> SUFFICES ASSUME IInv, TypeOK, [Next]_vars PROVE TypeOK'
    OBVIOUS
  <2>1. IInv'
    BY InvStays
  <2>2. rows \in [Ids -> Row] /\ rows' \in [Ids -> Row]
    BY <2>1, RowsTyped DEF IInv, Shape, AllAlike, TypeOK
  <2>3. temp' \in [Ids -> Row] /\ pool' \in [Ids -> Row]
    BY <2>2, TempTyped, PoolTyped DEF TypeOK
  <2>4. cmd' \in Commands
    BY CommandTyped DEF TypeOK, Commands
  <2>5. up' \subseteq Nodes /\ stale' \in BOOLEAN
    BY ServiceTyped DEF TypeOK
  <2>6. env' \in Keys
    BY <2>1 DEF IInv, Shape
  <2> QED
    BY <2>2, <2>3, <2>4, <2>5, <2>6 DEF TypeOK, Commands
<1>2. IInv /\ [Next]_vars => IInv'
  BY InvStays
<1> QED
  BY <1>1, <1>2, FirstInv, InitTyped, PTL DEF Spec

(***************************************************************************)
(* The refinement                                                          *)
(***************************************************************************)
\* The value of Reencryption's variable, when the rows are under e.
LEMMA SealedWithIs ==
  ASSUME NEW e \in Keys, NEW r, r = Sealed(e, <<>>)
  PROVE  SealedWith(r) = e
BY SealedDiffer DEF SealedWith

under == [i \in Live(rows) |-> SealedWith(rows[i])]

LEMMA AbstractRows ==
  ASSUME NEW e \in Keys, Under(e, rows)
  PROVE  under = Promise!AllUnder(e, Live(rows))
BY SealedWithIs DEF under, Under, Promise!AllUnder

LEMMA AbstractRowsNext ==
  ASSUME NEW e \in Keys, \A i \in Live(rows') : rows'[i] = Sealed(e, <<>>)
  PROVE  under' = Promise!AllUnder(e, Live(rows'))
BY SealedWithIs DEF under, Promise!AllUnder, Live

LEMMA FirstRefines == Init => Promise!Init
<1> SUFFICES ASSUME Init PROVE Promise!Init
  OBVIOUS
<1>1. PICK e \in Keys : Under(e, rows)
  BY FirstInv, AlikeUnder DEF IInv
<1>2. under = Promise!AllUnder(e, Live(rows)) /\ Live(rows) \in SUBSET Ids
  BY <1>1, AbstractRows DEF Live
<1> QED
  BY <1>2 DEF Promise!Init, Promise!Alike, under

\* The switch is the one step in which the abstract rows change their key.
LEMMA SwitchRefines ==
  ASSUME IInv, SwitchColumns
  PROVE  Promise!Next
<1>1. Under(cmd.to, temp) /\ Live(temp) = Live(rows) /\ cmd.to \in Keys
  BY DEF IInv, SwitchColumns, CommandInv, Shape, IsCommand
<1>2. /\ Live(rows') = Live(rows)
      /\ \A i \in Live(rows') : rows'[i] = Sealed(cmd.to, <<>>)
  BY <1>1, SwitchUnder
<1>3. under' = Promise!AllUnder(cmd.to, Live(rows))
  BY <1>1, <1>2, AbstractRowsNext
<1>4. DOMAIN under = Live(rows)
  BY DEF under
<1> QED
  BY <1>1, <1>3, <1>4 DEF Promise!Next, Promise!Reencrypt, under

LEMMA AddRefines ==
  ASSUME IInv, Heeded, NEW i \in Ids, AddKey(i)
  PROVE  Promise!Next \/ under' = under
<1>1. /\ Under(env, rows) /\ i \notin Live(rows)
      /\ rows'[i] = Sealed(env, <<>>)
      /\ \A j \in Ids \ {i} : rows'[j] = rows[j]
  BY AddUnder
<1>2. env \in Keys
  BY DEF IInv, Shape
<1>3. \A j \in Live(rows') : rows'[j] = Sealed(env, <<>>)
  BY <1>1 DEF Under, Live
<1>4. under' = Promise!AllUnder(env, Live(rows')) /\ under = Promise!AllUnder(env, Live(rows))
  BY <1>1, <1>2, <1>3, AbstractRows, AbstractRowsNext
<1>5. CASE Live(rows') = Live(rows)
  BY <1>4, <1>5
<1>6. CASE Live(rows') # Live(rows)
  <2>1. Live(rows') = Live(rows) \cup {i}
    BY <1>1, <1>6 DEF Live
  <2>2. DOMAIN under = Live(rows)
    BY DEF under
  <2>3. \A j \in Live(rows) : under'[j] = under[j]
    BY <1>4, <2>1 DEF Promise!AllUnder
  <2>4. under' \in {Promise!AllUnder(e, DOMAIN under \cup {i}) : e \in Keys}
    BY <1>2, <1>4, <2>1, <2>2
  <2> QED
    BY <1>1, <2>2, <2>3, <2>4 DEF Promise!Next, Promise!Add, under
<1> QED
  BY <1>5, <1>6

LEMMA RemoveRefines ==
  ASSUME IInv, NEW i \in Ids, RemoveKey(i)
  PROVE  Promise!Next
<1>1. rows'[i] = NoRow /\ \A j \in Ids \ {i} : rows'[j] = rows[j]
  BY RemoveUnder
<1>2. i \in Live(rows) /\ Live(rows') = Live(rows) \ {i}
  BY <1>1 DEF RemoveKey, Live
<1>3. DOMAIN under = Live(rows)
  BY DEF under
<1>4. under' = [j \in DOMAIN under \ {i} |-> under[j]]
  BY <1>1, <1>2, <1>3 DEF under, Live
<1> QED
  BY <1>2, <1>3, <1>4 DEF Promise!Next, Promise!Remove, under

LEMMA StepRefines ==
  IInv /\ Heeded /\ [Next]_vars => Promise!Next \/ under' = under
<1> SUFFICES ASSUME IInv, Heeded, [Next]_vars
             PROVE  Promise!Next \/ under' = under
  OBVIOUS
<1>0. ASSUME UNCHANGED rows PROVE under' = under
  BY <1>0 DEF under, Live
<1>1. CASE \E from, to \in Keys : Execute(from, to)
  BY <1>0, <1>1 DEF Execute
<1>2. CASE CommandStep /\ ~SwitchColumns
  BY <1>0, <1>2 DEF CommandStep, DetectIfAlreadyEncrypted, PreCheck, CreateTempTable,
     ProcessBatchToTempTable, Migrated, VerifyTempColumns, ClearCache, DropTempTable
<1>3. CASE SwitchColumns
  BY <1>3, SwitchRefines
<1>4. CASE Aborts
  BY <1>0, <1>4 DEF Aborts
<1>5. CASE \E e \in Keys : StartMaster(e) \/ StartSlave(e)
  BY <1>0, <1>5 DEF StartMaster, StartSlave
<1>6. CASE \E n \in Nodes : Stop(n)
  BY <1>0, <1>6 DEF Stop
<1>7. CASE \E i \in Ids : AddKey(i) \/ RemoveKey(i)
  BY <1>7, AddRefines, RemoveRefines
<1>8. CASE UNCHANGED vars
  BY <1>0, <1>8 DEF vars
<1> QED
  BY <1>1, <1>2, <1>3, <1>4, <1>5, <1>6, <1>7, <1>8 DEF Next, ServiceStep

\* While the warning is heeded, the service and the command implement
\* Reencryption: a migration is one step in which all keys change theirs.
THEOREM MigrationImplements ==
  ASSUME Heeded
  PROVE  Spec => Implements
<1>1. IInv /\ [Next]_vars => IInv'
  BY InvStays
<1>2. IInv /\ [Next]_vars => [Promise!Next]_under
  BY StepRefines
<1>3. [][Promise!Next]_under => [][Promise!Next]_([i \in Live(rows) |-> SealedWith(rows[i])])
  BY PTL DEF under
<1> QED
  BY <1>1, <1>2, <1>3, FirstInv, FirstRefines, PTL DEF Spec, Implements, Promise!Spec
=============================================================================
