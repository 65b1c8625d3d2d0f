------------------------------ MODULE MCGroups ------------------------------
EXTENDS GroupsProps, TLC

CONSTANTS a, s1, s2, n, k1, k2, openai, gemini, custom, chat

Symm == Permutations(Procs)

Std(c, e) == [type |-> "standard", channel |-> c, endpoint |-> e]
Agg(c)    == [type |-> "aggregate", channel |-> c, endpoint |-> NoEndpoint]

\* An aggregate group and two that it may take, one of which has a key; both
\* have the default endpoint, written out in one of them.
MCRows0  == a :> Agg(openai) @@ s1 :> Std(openai, NoEndpoint) @@ s2 :> Std(openai, chat)
MCOwner0 == k1 :> s1

MCDefault == openai :> chat @@ gemini :> NoEndpoint

MCNewRows == {Std(openai, custom)}

MCChanges == {[channel |-> None, endpoint |-> None],
              [channel |-> None, endpoint |-> custom],
              [channel |-> gemini, endpoint |-> None]}

MCInputs == {{s1}, {s2}, {n}, {a}}
=============================================================================
