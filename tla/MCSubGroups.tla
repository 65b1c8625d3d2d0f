---------------------------- MODULE MCSubGroups ----------------------------
EXTENDS SubGroupsProps

\* Three sub-groups, two, one, whose rounds are cut short, and none.
Changing == {<<3, 2, 1>>, <<1, 2>>, <<1>>, <<>>}
=============================================================================
