----------------------------- MODULE MCKeyTasks -----------------------------
EXTENDS KeyTasksProps

AllFaults == {"db", "lost answer", "store", "crash"}

\* Two imports, a deletion and a validation.
KindOf == [t \in Tasks |-> CASE t \in {"import 1", "import 2"} -> "import"
                             [] t = "delete"                   -> "delete"
                             [] t = "validate"                 -> "validate"]

\* Any two of them that work on the pool have a key in common.
TextOf == [t \in Tasks |-> CASE t = "import 1" -> {1, 2}
                             [] t = "import 2" -> {2}
                             [] t = "delete"   -> {1, 2}
                             [] t = "validate" -> {1, 2}]
=============================================================================
