----------------------------- MODULE LibavlHeap -----------------------------
(***************************************************************************)
(* The nodes of a libavl table (avl-2.0/): what the twelve kinds of binary *)
(* search tree share.  A table is a record                                 *)
(*                                                                         *)
(*   style   how a node finds the nodes above it: "stack" (it does not),   *)
(*           "parent", "thread" (both ways) or "rthread" (to the right)    *)
(*   link    the two links of every allocated node and of ROOT, which is   *)
(*           the cast (struct node * ) &tree->root: its link L is the root *)
(*   thread  the links <<node, side>> that are tagged as threads           *)
(*   parent  the parent links, in the style that has them                  *)
(*   bal     the colour or the balance factor of a node                    *)
(*   ver     the data of a node: which of the items with the node's key    *)
(*   count   the number of items                                           *)
(*   gen     the changes of the generation number since the last call      *)
(*                                                                         *)
(* A node is named after the key of the item it was allocated for.  No     *)
(* operation moves an item between nodes, and a table holds a key at most  *)
(* once, so the names are as good as addresses; the functions above have   *)
(* the allocated nodes as their domain, and TLC stops at a use after free. *)
(***************************************************************************)
EXTENDS Integers, SequencesExt

NULL == -1
ROOT == 0

L == 1
R == 2
Opp(d) == 3 - d
Dir(k, n) == IF k > n THEN R ELSE L

\* The direction in which a balance factor counts.
Sgn(d) == IF d = L THEN -1 ELSE 1

BLACK == 0
RED == 1

\* A value that malloc left in a field.
GARBAGE == -2

\* *_create: an empty table.
Create(style) ==
    [style |-> style, link |-> ROOT :> <<NULL, NULL>>, thread |-> {},
     parent |-> <<>>, bal |-> <<>>, ver |-> <<>>, count |-> 0, gen |-> 0]

Allocated(t) == DOMAIN t.link \ {ROOT}
Root(t) == t.link[ROOT][L]

\* A child is what a link leads to that is neither null nor a thread.
Has(t, n, d) == t.link[n][d] # NULL /\ <<n, d>> \notin t.thread
IsRed(t, n, d) == Has(t, n, d) /\ t.bal[t.link[n][d]] = RED
Threads(t, d) == t.style = "thread" \/ (t.style = "rthread" /\ d = R)

\* The node above n by its parent link, and the side of p on which n hangs.
Up(t, n) == IF t.parent[n] = NULL THEN ROOT ELSE t.parent[n]
Side(t, p, n) == IF t.link[p][L] = n THEN L ELSE R

Malloc(t, n, v, b) ==
    [t EXCEPT !.link = @ @@ (n :> <<NULL, NULL>>), !.ver = @ @@ (n :> v),
              !.bal = @ @@ (n :> b),
              !.parent = IF t.style = "parent" THEN @ @@ (n :> NULL) ELSE @]

Free(t, n) ==
    [t EXCEPT !.link = Restrict(@, DOMAIN @ \ {n}), !.ver = Restrict(@, DOMAIN @ \ {n}),
              !.bal = Restrict(@, DOMAIN @ \ {n}),
              !.parent = Restrict(@, DOMAIN @ \ {n}),
              !.thread = @ \ {<<n, L>>, <<n, R>>}]

\* The search every operation starts with: the nodes passed and the side taken
\* at each (pa and da of the code), and the node found or NULL.
RECURSIVE Search(_, _, _)
Search(t, k, path) ==
    LET q == Last(path)[1]
        d == Last(path)[2]
        p == t.link[q][d]
    IN  IF ~Has(t, q, d) THEN [p |-> NULL, path |-> path]
        ELSE IF p = k THEN [p |-> p, path |-> path]
        ELSE Search(t, k, Append(path, <<p, Dir(k, p)>>))

Find(t, k) == Search(t, k, << <<ROOT, L>> >>)

\* The nodes from n down the side d, n included.
RECURSIVE Chain(_, _, _)
Chain(t, n, d) ==
    IF Has(t, n, d) THEN <<n>> \o Chain(t, t.link[n][d], d) ELSE <<n>>

\* The rotation that every rebalancing inlines: the child y of x on side d takes
\* the place of x under p.  Where y has no child to hand over, x is left without
\* a child: by a null link, or by a thread to y where the style has one.
Rotate(t, p, pd, x, d) ==
    LET e == Opp(d)
        y == t.link[x][d]
        c == t.link[y][e]
        moved == Has(t, y, e)
        bare == ~moved /\ Threads(t, d)
        up == [m \in DOMAIN t.parent |->
                 CASE m = y -> t.parent[x]
                   [] m = x -> y
                   [] moved /\ m = c -> x
                   [] OTHER -> t.parent[m]]
    IN  [t EXCEPT !.link[x][d] = IF moved THEN c ELSE IF bare THEN y ELSE NULL,
                  !.link[y][e] = x,
                  !.link[p][pd] = y,
                  !.thread = (@ \ {<<y, e>>}) \cup (IF bare THEN {<<x, d>>} ELSE {}),
                  !.parent = up]

\* The root of a red-black tree ends every operation black.
BlackRoot(t) == IF Root(t) = NULL THEN t ELSE [t EXCEPT !.bal[Root(t)] = BLACK]

-----------------------------------------------------------------------------
(***************************************************************************)
(* Reference definitions: what a tree holds and what its shape should be.  *)
(***************************************************************************)

RECURSIVE InorderFrom(_, _)
InorderFrom(t, n) ==
    (IF Has(t, n, L) THEN InorderFrom(t, t.link[n][L]) ELSE <<>>)
    \o <<n>>
    \o (IF Has(t, n, R) THEN InorderFrom(t, t.link[n][R]) ELSE <<>>)

Inorder(t) == IF Root(t) = NULL THEN <<>> ELSE InorderFrom(t, Root(t))

RECURSIVE HeightFrom(_, _)
HeightFrom(t, n) ==
    LET h(d) == IF Has(t, n, d) THEN HeightFrom(t, t.link[n][d]) ELSE 0
    IN  1 + (IF h(L) > h(R) THEN h(L) ELSE h(R))

\* The number of black nodes on every path below n, or -1 if paths differ.
RECURSIVE BlackHeight(_, _)
BlackHeight(t, n) ==
    LET h(d) == IF Has(t, n, d) THEN BlackHeight(t, t.link[n][d]) ELSE 0
    IN  IF h(L) = h(R) /\ h(L) # -1 THEN h(L) + (1 - t.bal[n]) ELSE -1

=============================================================================
