------------------------------ MODULE MigrateKeys ------------------------------
(***************************************************************************)
(* The migrate-keys command, which re-encrypts the keys in the database,   *)
(* and the service before and after it.  The service is stopped while the  *)
(* command runs, as the documents ask; its nodes share a Redis and have    *)
(* one ENCRYPTION_KEY.                                                     *)
(*                                                                         *)
(* A value is the sequence of encryption keys a secret was encrypted with, *)
(* the last one outermost; which secret it is, the id of the row says.     *)
(* None stands for no encryption, whose Encrypt and Decrypt do nothing.    *)
(***************************************************************************)
EXTENDS Integers, FiniteSets, Sequences

CONSTANTS
  Ids,         (* ids of api_keys                                          *)
  Enc,         (* encryption keys                                          *)
  None,
  BatchSize,   (* migrationBatchSize; 1000 in the code                     *)
  VerifyMax,   (* rows of the temporary table tried at most; 1000          *)
  SampleSize,  (* rows looked at to see if they are encrypted; 20          *)
  Heeded       (* TRUE: no key is added while the dashboard warns          *)

Keys == Enc \cup {None}

ASSUME MigrateKeysAssumption ==
  /\ Ids \subseteq Nat \ {0} /\ IsFiniteSet(Ids)
  /\ None \notin Enc
  /\ {BatchSize, VerifyMax, SampleSize} \subseteq Nat \ {0}
  /\ Heeded \in BOOLEAN

Nodes == {"master", "slave"}

VARIABLES
  rows,   (* api_keys                                                      *)
  temp,   (* temp_migration                                                *)
  cmd,    (* the command: where it is, --from, --to, the last id copied    *)
  up,     (* the nodes that run                                            *)
  env,    (* their ENCRYPTION_KEY                                          *)
  pool,   (* the copies of the rows in the store                           *)
  stale   (* a migration has switched the rows and not cleared the store   *)

vars == <<rows, temp, cmd, up, env, pool, stale>>

(***************************************************************************)
(* encryption.Service                                                      *)
(***************************************************************************)
Encrypt(e, v) == IF e = None THEN v ELSE Append(v, e)

\* AES-GCM opens only what was sealed with the same key.
CanDecrypt(e, v) == e = None \/ (v # <<>> /\ v[Len(v)] = e)
Decrypt(e, v)    == IF e = None THEN v ELSE SubSeq(v, 1, Len(v) - 1)

\* The HMAC under e, or SHA256.
Hash(e, v) == [key |-> e, of |-> v]

(***************************************************************************)
(* Tables                                                                  *)
(***************************************************************************)
NoRow == [value |-> <<>>, hash |-> None]
Sealed(e, v) == [value |-> Encrypt(e, v), hash |-> Hash(e, v)]

Empty == [i \in Ids |-> NoRow]
Live(table) == {i \in Ids : table[i] # NoRow}

\* The first n of S, in the order of their ids.
First(n, S) == {i \in S : Cardinality({j \in S : j < i}) < n}

\* LIMIT without an order: any rows.
Samples ==
  {S \in SUBSET Live(rows) : \/ S = Live(rows) /\ Cardinality(S) <= SampleSize
                             \/ Cardinality(S) = SampleSize}

Unencrypted(S) == {i \in S : rows[i].hash = Hash(None, rows[i].value)}

\* Rows that key e opens, with the hash it makes of them.
OpenedBy(e, S) ==
  {i \in S : /\ CanDecrypt(e, rows[i].value)
             /\ rows[i].hash = Hash(e, Decrypt(e, rows[i].value))}

(***************************************************************************)
(* The command                                                             *)
(***************************************************************************)
NoCmd == [pc |-> "idle", from |-> None, to |-> None, last |-> 0]

\* The rows of a database are those a service with one key has added.
Init ==
  /\ \E e \in Keys, S \in SUBSET Ids :
       rows = [i \in Ids |-> IF i \in S THEN Sealed(e, <<>>) ELSE NoRow]
  /\ temp = Empty
  /\ cmd = NoCmd
  /\ up = {}
  /\ env = None
  /\ pool = Empty
  /\ stale = FALSE

Goto(pc) == cmd' = [cmd EXCEPT !.pc = pc]
service == <<up, env, pool, stale>>

Execute(from, to) ==
  /\ cmd.pc = "idle" /\ up = {}
  /\ from # to
  /\ cmd' = [pc |-> IF from = None THEN "detect" ELSE "preCheck",
             from |-> from, to |-> to, last |-> 0]
  /\ UNCHANGED <<rows, temp, service>>

DetectIfAlreadyEncrypted ==
  /\ cmd.pc = "detect"
  /\ \E S \in Samples :
       IF S \subseteq Unencrypted(S) THEN Goto("preCheck") ELSE cmd' = NoCmd
  /\ UNCHANGED <<rows, temp, service>>

PreCheck ==
  /\ cmd.pc = "preCheck"
  /\ IF \A i \in Live(rows) : CanDecrypt(cmd.from, rows[i].value)
       THEN Goto("createTemp") ELSE cmd' = NoCmd
  /\ UNCHANGED <<rows, temp, service>>

\* Mutation: the batch starts with the last row of the one before.
MutToMigrate == {i \in Live(rows) : i >= cmd.last}

CreateTempTable ==
  /\ cmd.pc = "createTemp"
  /\ temp' = Empty
  /\ Goto("migrate")
  /\ UNCHANGED <<rows, service>>

\* Mutation: the hash is left as it is.
MutReseal(r) == [r EXCEPT !.value = Encrypt(cmd.to, Decrypt(cmd.from, r.value))]

ToMigrate == {i \in Live(rows) : i > cmd.last}
Batch == First(BatchSize, ToMigrate)

Reseal(r) == Sealed(cmd.to, Decrypt(cmd.from, r.value))

ProcessBatchToTempTable ==
  /\ cmd.pc = "migrate" /\ ToMigrate # {}
  /\ IF \A i \in Batch : CanDecrypt(cmd.from, rows[i].value)
       THEN /\ temp' = [i \in Ids |->
                          IF i \in Batch THEN Reseal(rows[i]) ELSE temp[i]]
            /\ cmd' = [cmd EXCEPT !.last =
                         CHOOSE i \in Batch : \A j \in Batch : j <= i]
       ELSE cmd' = NoCmd /\ UNCHANGED temp
  /\ UNCHANGED <<rows, service>>

Migrated ==
  /\ cmd.pc = "migrate" /\ ToMigrate = {}
  /\ Goto("verify")
  /\ UNCHANGED <<rows, temp, service>>

\* Mutation: the update is not one transaction.
MutSwitchColumns ==
  /\ cmd.pc = "switch"
  /\ \E S \in SUBSET Live(temp) :
       rows' = [i \in Ids |-> IF i \in S \cap Live(rows) THEN temp[i] ELSE rows[i]]
  /\ stale' = TRUE
  /\ Goto("clearCache")
  /\ UNCHANGED <<temp, up, env, pool>>

VerifyTempColumns ==
  /\ cmd.pc = "verify"
  /\ IF /\ Cardinality(Live(temp)) = Cardinality(Live(rows))
        /\ \A i \in First(VerifyMax, Live(temp)) :
             CanDecrypt(cmd.to, temp[i].value)
       THEN Goto("switch") ELSE cmd' = NoCmd
  /\ UNCHANGED <<rows, temp, service>>

SwitchColumns ==
  /\ cmd.pc = "switch"
  /\ rows' = [i \in Ids |->
                IF i \in Live(rows) \cap Live(temp) THEN temp[i] ELSE rows[i]]
  /\ stale' = TRUE
  /\ Goto("clearCache")
  /\ UNCHANGED <<temp, up, env, pool>>

\* A failure is logged and the command goes on.
ClearCache ==
  /\ cmd.pc = "clearCache"
  /\ \/ pool' = Empty /\ stale' = FALSE
     \/ UNCHANGED <<pool, stale>>
  /\ Goto("dropTemp")
  /\ UNCHANGED <<rows, temp, up, env>>

DropTempTable ==
  /\ cmd.pc = "dropTemp"
  /\ temp' \in {Empty, temp}
  /\ cmd' = NoCmd
  /\ UNCHANGED <<rows, service>>

\* An error of the database, or a crash.  One that hides a commit comes
\* after it.
Aborts ==
  /\ cmd.pc # "idle"
  /\ cmd' = NoCmd
  /\ UNCHANGED <<rows, temp, service>>

(***************************************************************************)
(* The service                                                             *)
(***************************************************************************)
\* Tenths of the rows sampled, as the rates of the dashboard.
Above(n, part, S) == 10 * Cardinality(part) > n * Cardinality(S)
Below(n, part, S) == 10 * Cardinality(part) < n * Cardinality(S)

\* Mutation: that the rows are encrypted is enough.
MutCheck(S) ==
  /\ S # {}
  /\ \/ env # None /\ Above(8, Unencrypted(S), S)
     \/ env = None /\ Below(2, Unencrypted(S), S)

CheckEncryptionMismatch(S) ==
  /\ S # {}
  /\ \/ env # None /\ Above(8, Unencrypted(S), S)
     \/ env = None /\ Below(2, Unencrypted(S), S)
     \/ /\ env # None
        /\ Below(2, Unencrypted(S), S)
        /\ Below(2, OpenedBy(env, S), S)

\* The nodes started together have one key.
MayStart(n, e) ==
  /\ cmd.pc = "idle"
  /\ n \notin up /\ (up # {} => e = env)
  /\ up' = up \cup {n}
  /\ env' = e

\* Mutation: the store is left as it is.
MutStartMaster(e) ==
  /\ MayStart("master", e)
  /\ stale' = FALSE
  /\ UNCHANGED <<rows, temp, cmd, pool>>

StartMaster(e) ==
  /\ MayStart("master", e)
  /\ pool' = rows
  /\ stale' = FALSE
  /\ UNCHANGED <<rows, temp, cmd>>

StartSlave(e) ==
  /\ MayStart("slave", e)
  /\ UNCHANGED <<rows, temp, cmd, pool, stale>>

Stop(n) ==
  /\ n \in up
  /\ up' = up \ {n}
  /\ UNCHANGED <<rows, temp, cmd, env, pool, stale>>

\* Any node serves the dashboard and the routes that change keys.
AddKey(i) ==
  /\ up # {}
  /\ i \notin Live(rows)
  /\ Heeded => \E S \in Samples : ~CheckEncryptionMismatch(S)
  /\ rows' = [rows EXCEPT ![i] = Sealed(env, <<>>)]
  /\ pool' = [pool EXCEPT ![i] = rows'[i]]
  /\ UNCHANGED <<temp, cmd, up, env, stale>>

RemoveKey(i) ==
  /\ up # {}
  /\ i \in Live(rows)
  /\ rows' = [rows EXCEPT ![i] = NoRow]
  /\ pool' = [pool EXCEPT ![i] = NoRow]
  /\ UNCHANGED <<temp, cmd, up, env, stale>>

CommandStep ==
  \/ DetectIfAlreadyEncrypted \/ PreCheck \/ CreateTempTable
  \/ ProcessBatchToTempTable \/ Migrated \/ VerifyTempColumns
  \/ SwitchColumns \/ ClearCache \/ DropTempTable

ServiceStep ==
  \/ \E e \in Keys : StartMaster(e) \/ StartSlave(e)
  \/ \E n \in Nodes : Stop(n)
  \/ \E i \in Ids : AddKey(i) \/ RemoveKey(i)

Next ==
  \/ \E from, to \in Keys : Execute(from, to)
  \/ CommandStep
  \/ Aborts
  \/ ServiceStep

Spec == Init /\ [][Next]_vars

\* The command does not stop between two of its steps unless it is killed.
FairSpec == Spec /\ WF_vars(CommandStep)
=============================================================================
