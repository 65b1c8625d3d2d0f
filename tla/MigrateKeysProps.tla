--------------------------- MODULE MigrateKeysProps ---------------------------
(***************************************************************************)
(* What is expected of the keys in the database, and of their copies,      *)
(* across migrations.                                                      *)
(***************************************************************************)
EXTENDS MigrateKeys

Values == UNION {[1..n -> Enc] : n \in 0..1}
Row == [value : Values, hash : [key : Keys, of : Values] \cup {None}]
Pcs == {"idle", "detect", "preCheck", "createTemp", "migrate", "verify",
        "switch", "clearCache", "dropTemp"}

\* Every variable has its type; no value is encrypted twice.
TypeOK ==
  /\ rows \in [Ids -> Row]
  /\ temp \in [Ids -> Row]
  /\ cmd \in [pc : Pcs, from : Keys, to : Keys, last : Ids \cup {0}]
  /\ up \subseteq Nodes
  /\ env \in Keys
  /\ pool \in [Ids -> Row]
  /\ stale \in BOOLEAN

\* Every key in the database can be read, with one and the same encryption
\* key, and is found by the hash made with it: no failure of a migration, and
\* no sequence of migrations and restarts with other keys, leaves a mixture or
\* a key encrypted twice (migrate.go, and the warning of the dashboard).
AllAlike ==
  \E e \in Keys : \A i \in Live(rows) : rows[i] = Sealed(e, <<>>)

\* The dashboard warns when, and only when, the nodes have another key than
\* the one the database is encrypted with, whatever rows it looks at
\* (checkEncryptionMismatch).
WarnsRightly ==
  up # {} =>
    \A S \in Samples :
      CheckEncryptionMismatch(S) <=> \E i \in Live(rows) : rows[i] # Sealed(env, <<>>)

\* A copy in the store is of the row as it is, except from the moment a
\* migration switches the rows until it clears the store or, if that failed,
\* a master starts (clearCache, App.Start).
CopiesAreCurrent ==
  ~stale => \A i \in Live(pool) : pool[i] = rows[i]

\* A command ends, whatever the number of batches (Execute).
CommandEnds == cmd.pc # "idle" ~> cmd.pc = "idle"

\* What a row is encrypted with.
SealedWith(r) ==
  IF \E e \in Keys : r = Sealed(e, <<>>)
    THEN CHOOSE e \in Keys : r = Sealed(e, <<>>)
    ELSE "unreadable"

Promise ==
  INSTANCE Reencryption WITH under <- [i \in Live(rows) |-> SealedWith(rows[i])]

\* The service and the command implement what Reencryption promises: keys come
\* and go one by one, and a migration changes all of them in one step
\* (switchColumns) or, when it is refused or killed, none.
Implements == Promise!Spec
=============================================================================
