---------------------------- MODULE MCAutoMessage ----------------------------
(***************************************************************************)
(* Small instances of AutoMessage for TLC.                                 *)
(***************************************************************************)
EXTENDS AutoMessage, TLC

On(pos) == [sort |-> pos, enabled |-> TRUE, deleted |-> FALSE]
Off(pos) == [sort |-> pos, enabled |-> FALSE, deleted |-> FALSE]

\* Sets of item lists to start from.
OneItem == {<<On(1)>>}
TwoItems == {<<On(1), On(2)>>}
OneOrTwo == OneItem \cup TwoItems
NothingOrOne == {<< >>, <<On(1)>>}

EveryUnit == {1}
ShortAndLong == {1, 2}

\* The workers are interchangeable, and so are the clients.
Symmetry == Permutations(Nodes) \cup Permutations(Editors)

=============================================================================
