------------------------------ MODULE MCLibavl ------------------------------
(***************************************************************************)
(* Instances of LibavlTable for TLC.                                       *)
(***************************************************************************)
EXTENDS LibavlTable

Use(kinds, keys, twins, travs) ==
    [kind : kinds, keys : {keys}, twins : {twins}, travs : {travs}]

\* Many keys, for the shapes that take many steps to reach; few, with two items
\* of one key, for a traverser that is used between the changes.
AllKinds ==
    Use(Unbalanced, 1..6, {}, {}) \cup Use(RedBlack \cup Avl, 1..8, {}, {})
    \cup Use(Unbalanced \cup RedBlack \cup Avl, 1..5, {3}, {1})

OnlyRb == Use({"rb"}, 1..3, {}, {})
OnlyTrb == Use({"trb"}, 1..3, {}, {})

=============================================================================
