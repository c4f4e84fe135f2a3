---------------------------- MODULE LibavlStack ----------------------------
(***************************************************************************)
(* The tables whose nodes have two links and nothing else: bst.c           *)
(* (unbalanced), avl.c and rb.c.  What lies above a node is remembered on  *)
(* a stack, by an operation while it runs and by a traverser between its   *)
(* calls.  The two mirror images that the code writes out are one text     *)
(* here, for a side d and its opposite.                                    *)
(***************************************************************************)
EXTENDS LibavlHeap

CONSTANT MaxHeight      \* BST_MAX_HEIGHT: the room on a traverser's stack

ASSUME MaxHeightAssumption == MaxHeight \in Nat \ {0}

\* A new node below the last node of the search path; the item is counted.
Attach(t, path, k, v, b) ==
    LET q == Last(path)
    IN  [Malloc(t, k, v, b) EXCEPT !.link[q[1]][q[2]] = k, !.count = @ + 1]

-----------------------------------------------------------------------------
(***************************************************************************)
(* Insertion.  mem says whether malloc has memory.  A probe returns the    *)
(* table and the node whose data it points to, or NULL.                    *)
(***************************************************************************)

bst_probe(t, k, v, mem) ==
    LET f == Find(t, k)
    IN  IF f.p # NULL \/ ~mem THEN [t |-> t, p |-> f.p]
        ELSE [t |-> Attach(t, f.path, k, v, BLACK), p |-> k]

\* Wrong variant of RbInsertRotate: the node that comes down stays black.
RbInsertRotateBlack(t, h, g, d, f, df) ==
    LET t1 == IF df = d THEN t ELSE Rotate(t, g, d, f, df)
        y == t1.link[g][d]
    IN  Rotate([t1 EXCEPT !.bal[y] = BLACK], h[1], h[2], g, d)

\* Below h, the red nodes f (child of g on side d) and its child on side df are
\* separated by one rotation, or two when the sides differ.
RbInsertRotate(t, h, g, d, f, df) ==
    LET t1 == IF df = d THEN t ELSE Rotate(t, g, d, f, df)
        y == t1.link[g][d]
    IN  Rotate([t1 EXCEPT !.bal[g] = RED, !.bal[y] = BLACK], h[1], h[2], g, d)

RECURSIVE RbInsertFix(_, _)
RbInsertFix(t, path) ==
    LET k == Len(path)
        f == path[k][1]
        g == path[k - 1][1]
        d == path[k - 1][2]
    IN  IF k < 3 \/ t.bal[f] # RED THEN BlackRoot(t)
        ELSE IF IsRed(t, g, Opp(d))
        THEN RbInsertFix([t EXCEPT !.bal[f] = BLACK, !.bal[t.link[g][Opp(d)]] = BLACK,
                                   !.bal[g] = RED],
                         SubSeq(path, 1, k - 2))
        ELSE BlackRoot(RbInsertRotate(t, path[k - 2], g, d, f, path[k][2]))

rb_probe(t, k, v, mem) ==
    LET f == Find(t, k)
    IN  IF f.p # NULL \/ ~mem THEN [t |-> t, p |-> f.p]
        ELSE [t |-> [RbInsertFix(Attach(t, f.path, k, v, RED), f.path) EXCEPT !.gen = @ + 1],
              p |-> k]

\* y hangs at z and is too deep on side d: a single rotation when its child x
\* leans the same way, else x's inner child w comes up.
AvlRotate(t, z, y, d) ==
    LET e == Opp(d)
        x == t.link[y][d]
        w == t.link[x][e]
        bx == IF t.bal[w] = Sgn(e) THEN Sgn(d) ELSE 0
        by == IF t.bal[w] = Sgn(d) THEN Sgn(e) ELSE 0
    IN  IF t.bal[x] = Sgn(d)
        THEN Rotate([t EXCEPT !.bal[x] = 0, !.bal[y] = 0], z[1], z[2], y, d)
        ELSE Rotate(Rotate([t EXCEPT !.bal[x] = bx, !.bal[y] = by, !.bal[w] = 0],
                           y, d, x, e),
                    z[1], z[2], y, d)

\* The place on the path of its lowest unbalanced node, or of the root.
LowestUneven(t, path) ==
    LET uneven == {i \in 2..Len(path) : t.bal[path[i][1]] # 0}
    IN  IF uneven = {} THEN 2 ELSE CHOOSE i \in uneven : \A j \in uneven : j <= i

\* From the lowest unbalanced node of the path down, every node leans more to
\* the side taken; only that node can need a rotation.
AvlInsertFix(t, path) ==
    LET k == Len(path)
        top == LowestUneven(t, path)
        leans == [m \in DOMAIN t.bal |->
                    IF \E i \in top..k : path[i][1] = m
                    THEN t.bal[m] + Sgn(path[CHOOSE i \in top..k : path[i][1] = m][2])
                    ELSE t.bal[m]]
        t1 == [t EXCEPT !.bal = leans]
        y == path[top][1]
    IN  IF k = 1 THEN [t |-> t, rotated |-> FALSE]
        ELSE IF t1.bal[y] = -2 THEN [t |-> AvlRotate(t1, path[top - 1], y, L), rotated |-> TRUE]
        ELSE IF t1.bal[y] = 2 THEN [t |-> AvlRotate(t1, path[top - 1], y, R), rotated |-> TRUE]
        ELSE [t |-> t1, rotated |-> FALSE]

\* Wrong variant of avl_probe: a rotation that the traversers are not told of.
AvlProbeKeepsGeneration(t, k, v, mem) ==
    LET f == Find(t, k)
    IN  IF f.p # NULL \/ ~mem THEN [t |-> t, p |-> f.p]
        ELSE [t |-> AvlInsertFix(Attach(t, f.path, k, v, 0), f.path).t, p |-> k]

\* The generation changes only when a rotation does: a new leaf leaves the
\* stacks of the traversers as they should be.
avl_probe(t, k, v, mem) ==
    LET f == Find(t, k)
        fixed == AvlInsertFix(Attach(t, f.path, k, v, 0), f.path)
    IN  IF f.p # NULL \/ ~mem THEN [t |-> t, p |-> f.p]
        ELSE [t |-> [fixed.t EXCEPT !.gen = @ + (IF fixed.rotated THEN 1 ELSE 0)], p |-> k]

-----------------------------------------------------------------------------
(***************************************************************************)
(* Deletion.  The node p found is unlinked: its left child, or the least   *)
(* node s of its right subtree, takes its place and its balance.  path     *)
(* leads to where a node is missing now, was is the colour that left.      *)
(***************************************************************************)

StackUnlink(t, f) ==
    LET p == f.p
        q == Last(f.path)
        spine == Chain(t, t.link[p][R], L)
        s == Last(spine)
        above == Front(spine)
        t1 == [t EXCEPT !.link[s][L] = t.link[p][L], !.bal[s] = t.bal[p], !.link[q[1]][q[2]] = s]
        t2 == IF above = <<>> THEN t1
              ELSE [t1 EXCEPT !.link[Last(above)][L] = t.link[s][R], !.link[s][R] = t.link[p][R]]
    IN  IF ~Has(t, p, R)
        THEN [t |-> [t EXCEPT !.link[q[1]][q[2]] = t.link[p][L]], path |-> f.path, was |-> t.bal[p]]
        ELSE [t |-> t2, was |-> t.bal[s],
              path |-> f.path \o << <<s, R>> >> \o [i \in DOMAIN above |-> <<above[i], L>>]]

\* The end of every deletion; in this family the traversers are told.
Drop(t, p) == [Free(t, p) EXCEPT !.count = @ - 1]
DropAndTell(t, p) == [Drop(t, p) EXCEPT !.gen = @ + 1]

bst_delete(t, k) ==
    LET f == Find(t, k)
    IN  IF f.p = NULL THEN [t |-> t, item |-> NULL]
        ELSE [t |-> DropAndTell(StackUnlink(t, f).t, f.p), item |-> t.ver[f.p]]

\* The black sibling w of the short side d of f (child of g): red when it has
\* no red child, else its outer child is made red and a rotation ends the work.
RbNephews(t, g, f, d) ==
    LET e == Opp(d)
        w == t.link[f][e]
        t1 == IF IsRed(t, w, e) THEN t
              ELSE Rotate([t EXCEPT !.bal[t.link[w][d]] = BLACK, !.bal[w] = RED], f, e, w, d)
        w1 == t1.link[f][e]
        t2 == [t1 EXCEPT !.bal[w1] = t1.bal[f], !.bal[f] = BLACK, !.bal[t1.link[w1][e]] = BLACK]
    IN  IF ~IsRed(t, w, L) /\ ~IsRed(t, w, R)
        THEN [t |-> [t EXCEPT !.bal[w] = RED], done |-> FALSE]
        ELSE [t |-> Rotate(t2, g[1], g[2], f, e), done |-> TRUE]

\* A red sibling is rotated above f, which then has a black one.
RbRedSibling(t, g, f, d) ==
    LET w == t.link[f][Opp(d)]
    IN  Rotate([t EXCEPT !.bal[w] = BLACK, !.bal[f] = RED], g[1], g[2], f, Opp(d))

RECURSIVE RbDeleteFix(_, _)
RbDeleteFix(t, path) ==
    LET k == Len(path)
        f == path[k][1]
        d == path[k][2]
        w == t.link[f][Opp(d)]
        redSibling == IsRed(t, f, Opp(d))
        t1 == IF redSibling THEN RbRedSibling(t, path[k - 1], f, d) ELSE t
        up == IF redSibling THEN Append(Front(path), <<w, d>>) ELSE Front(path)
        n == RbNephews(t1, Last(up), f, d)
    IN  IF IsRed(t, f, d) THEN [t EXCEPT !.bal[t.link[f][d]] = BLACK]
        ELSE IF k < 2 THEN t
        ELSE IF n.done THEN n.t
        ELSE RbDeleteFix(n.t, up)

rb_delete(t, k) ==
    LET f == Find(t, k)
        u == StackUnlink(t, f)
        t1 == IF u.was = BLACK THEN RbDeleteFix(u.t, u.path) ELSE u.t
    IN  IF f.p = NULL THEN [t |-> t, item |-> NULL]
        ELSE [t |-> DropAndTell(t1, f.p), item |-> t.ver[f.p]]

\* y, which hangs at z, lost height on side d: done when its own height stays.
AvlDeleteStep(t, z, y, d) ==
    LET e == Opp(d)
        b == t.bal[y] + Sgn(e)
        t1 == [t EXCEPT !.bal[y] = b]
        x == t.link[y][e]
    IN  CASE b = Sgn(e) -> [t |-> t1, done |-> TRUE]
          [] b = 0 -> [t |-> t1, done |-> FALSE]
          [] OTHER ->
                IF t.bal[x] = 0
                THEN [t |-> Rotate([t EXCEPT !.bal[x] = Sgn(d), !.bal[y] = Sgn(e)], z[1], z[2], y, e),
                      done |-> TRUE]
                ELSE [t |-> AvlRotate(t1, z, y, e), done |-> FALSE]

RECURSIVE AvlDeleteFix(_, _)
AvlDeleteFix(t, path) ==
    LET k == Len(path)
        step == AvlDeleteStep(t, path[k - 1], path[k][1], path[k][2])
    IN  IF k = 1 THEN t
        ELSE IF step.done THEN step.t
        ELSE AvlDeleteFix(step.t, Front(path))

avl_delete(t, k) ==
    LET f == Find(t, k)
        u == StackUnlink(t, f)
    IN  IF f.p = NULL THEN [t |-> t, item |-> NULL]
        ELSE [t |-> AvlDeleteFix(DropAndTell(u.t, f.p), u.path), item |-> t.ver[f.p]]

-----------------------------------------------------------------------------
(***************************************************************************)
(* Balancing: a vine of left links is folded up, level by level.           *)
(***************************************************************************)

RECURSIVE tree_to_vine(_, _, _)
tree_to_vine(t, q, p) ==
    IF p = NULL THEN t
    ELSE IF ~Has(t, p, R) THEN tree_to_vine(t, p, t.link[p][L])
    ELSE tree_to_vine(Rotate(t, q, L, p, R), q, t.link[p][R])

RECURSIVE compress(_, _, _)
compress(t, root, count) ==
    IF count = 0 THEN t
    ELSE LET red == t.link[root][L]
         IN  compress(Rotate(t, root, L, red, L), t.link[red][L], count - 1)

\* Wrong variant of Leaves: off by one.
LeavesOfOneLess(n) ==
    IF n = 0 THEN 0 ELSE n - (CHOOSE p \in {2^i : i \in 0..n} : p <= n /\ n < 2 * p)

\* The number of nodes that do not fit in the full levels of a tree of n nodes.
Leaves(n) == n + 1 - (CHOOSE p \in {2^i : i \in 0..n} : p <= n + 1 /\ n + 1 < 2 * p)

RECURSIVE Fold(_, _)
Fold(t, vine) == IF vine > 1 THEN Fold(compress(t, ROOT, vine \div 2), vine \div 2) ELSE t

vine_to_tree(t) ==
    LET leaves == Leaves(t.count)
    IN  Fold(compress(t, ROOT, leaves), t.count - leaves)

bst_balance(t) ==
    [vine_to_tree(tree_to_vine(t, ROOT, Root(t))) EXCEPT !.gen = @ + 1]

-----------------------------------------------------------------------------
(***************************************************************************)
(* Traversal.  A traverser has a current node, the stack of the nodes      *)
(* above it, and a generation number; fresh says that the number is the    *)
(* table's.  A stack that is not fresh is never read before trav_refresh   *)
(* rebuilds it, so it is kept empty.                                       *)
(***************************************************************************)

At(node, stack) == [node |-> node, stack |-> IF node = NULL THEN <<>> ELSE stack, fresh |-> TRUE]

Ancestors(path) == [i \in 1..(Len(path) - 1) |-> path[i + 1][1]]

trav_refresh(t, tr) ==
    IF tr.fresh \/ tr.node = NULL THEN [tr EXCEPT !.fresh = TRUE]
    ELSE At(tr.node, Ancestors(Find(t, tr.node).path))

\* rb_t_first (d = L) and rb_t_last (d = R).
rb_t_end(t, d) ==
    LET spine == Chain(t, Root(t), d)
    IN  IF Root(t) = NULL THEN At(NULL, <<>>) ELSE At(Last(spine), Front(spine))

rb_t_find(t, k) == LET f == Find(t, k) IN At(f.p, Ancestors(f.path))

\* Where a probe ended.  The stack of the node is not built: the next step
\* refreshes it.
rb_t_insert(r) ==
    [t |-> r.t, tr |-> [At(r.p, <<>>) EXCEPT !.fresh = (r.p = NULL)]]

RECURSIVE ClimbOut(_, _, _, _)
ClimbOut(t, x, stack, d) ==
    IF stack = <<>> THEN At(NULL, <<>>)
    ELSE IF t.link[Last(stack)][d] = x THEN ClimbOut(t, Last(stack), Front(stack), d)
    ELSE At(Last(stack), Front(stack))

\* rb_t_next (d = R) and rb_t_prev (d = L).
rb_t_step(t, tr, d) ==
    LET x == tr.node
        stack == trav_refresh(t, tr).stack
        spine == IF Has(t, x, d) THEN Chain(t, t.link[x][d], Opp(d)) ELSE <<>>
    IN  IF x = NULL THEN rb_t_end(t, Opp(d))
        ELSE IF spine # <<>> THEN At(Last(spine), stack \o <<x>> \o Front(spine))
        ELSE ClimbOut(t, x, stack, d)

\* bst.c: a tree too deep for the stack is balanced, and the call starts again.
Fits(tr) == Len(tr.stack) <= MaxHeight

bst_t_end(t, d) ==
    LET b == bst_balance(t)
    IN  IF Fits(rb_t_end(t, d)) THEN [t |-> t, tr |-> rb_t_end(t, d)]
        ELSE [t |-> b, tr |-> rb_t_end(b, d)]

\* The nodes passed on the way to a missing item count too.
bst_t_find(t, k) ==
    LET b == bst_balance(t)
    IN  IF Len(Find(t, k).path) - 1 <= MaxHeight THEN [t |-> t, tr |-> rb_t_find(t, k)]
        ELSE [t |-> b, tr |-> rb_t_find(b, k)]

bst_t_insert(t, k, v, mem) ==
    LET b == IF Len(Find(t, k).path) - 1 <= MaxHeight THEN t ELSE bst_balance(t)
        r == bst_probe(b, k, v, mem)
    IN  [t |-> r.t, tr |-> At(r.p, Ancestors(Find(b, k).path))]

bst_t_step(t, tr, d) ==
    LET b == bst_balance(t)
    IN  IF Fits(rb_t_step(t, tr, d)) THEN [t |-> t, tr |-> rb_t_step(t, tr, d)]
        ELSE [t |-> b, tr |-> rb_t_step(b, [tr EXCEPT !.fresh = FALSE], d)]

-----------------------------------------------------------------------------
(***************************************************************************)
(* Copying and destroying.  malloc succeeds m times and the caller's copy  *)
(* function c times.  The result is what became of the copy: the new table *)
(* if ok, else what is still allocated and the items handed to destroy.    *)
(***************************************************************************)

RECURSIVE DestroyFrom(_, _, _)
DestroyFrom(t, p, items) ==
    LET q == t.link[p][L]
    IN  IF p = NULL THEN [t |-> t, items |-> items]
        ELSE IF q = NULL
        THEN DestroyFrom(Free(t, p), t.link[p][R],
                         IF t.ver[p] = NULL THEN items ELSE Append(items, <<p, t.ver[p]>>))
        ELSE DestroyFrom([t EXCEPT !.link[p][L] = t.link[q][R], !.link[q][R] = p], q, items)

rb_destroy(t) == DestroyFrom(t, Root(t), <<>>)

\* The stacked nodes lose their right links, which are not written yet.
copy_error_recovery(new, stack) ==
    LET open == {stack[i] : i \in 2..Len(stack)}
    IN  rb_destroy([new EXCEPT !.link = [n \in DOMAIN @ |->
                                           IF n \in open THEN <<@[n][L], NULL>> ELSE @[n]]])

\* A node fresh from malloc, on side d of x.
RawChild(new, x, d, y) ==
    [Malloc(new, y, GARBAGE, GARBAGE) EXCEPT !.link[y] = <<GARBAGE, GARBAGE>>, !.link[x][d] = y]

Copied(s) == [ok |-> TRUE, t |-> s.new, org |-> s.org, items |-> s.lost]
NotCopied(s, new) ==
    LET r == copy_error_recovery(new, s.stack)
    IN  [ok |-> FALSE, t |-> r.t, org |-> s.org, items |-> s.lost \o r.items]

\* Down the left links with CopyDown, back up and to the right with CopyAcross.
\* s: org, new; x, the node and its copy; stack; m and c; room on the stack;
\* lost, the items a first attempt destroyed before it started again.
RECURSIVE CopyDown(_), CopyAcross(_)
CopyDown(s) ==
    LET x == s.x
        y == s.org.link[x][L]
        void == IF x = ROOT THEN [s.new EXCEPT !.link[x][L] = NULL]
                ELSE [s.new EXCEPT !.link[x] = <<NULL, NULL>>, !.ver[x] = NULL]
        r == copy_error_recovery(void, s.stack)
        again == [s EXCEPT !.org = bst_balance(@), !.new = r.t, !.new.link[ROOT] = <<NULL, NULL>>,
                           !.x = ROOT, !.stack = <<>>, !.lost = @ \o r.items]
    IN  IF ~Has(s.org, x, L) THEN CopyAcross([s EXCEPT !.new.link[x][L] = NULL])
        ELSE IF Len(s.stack) >= s.room
        THEN CopyDown(again)
        ELSE IF s.m = 0 THEN NotCopied(s, void)
        ELSE CopyDown([s EXCEPT !.new = RawChild(s.new, x, L, y), !.m = @ - 1,
                                !.stack = Append(@, x), !.x = y])
CopyAcross(s) ==
    LET x == s.x
        y == s.org.link[x][R]
        s1 == [s EXCEPT !.new.bal[x] = s.org.bal[x], !.c = @ - 1,
                        !.new.ver[x] = IF s.c = 0 THEN NULL ELSE s.org.ver[x]]
        bare == [s1 EXCEPT !.new.link[x][R] = NULL]
    IN  IF s.c = 0 THEN NotCopied(s, bare.new)
        ELSE IF Has(s.org, x, R)
        THEN IF s.m = 0 THEN NotCopied(s, bare.new)
             ELSE CopyDown([s1 EXCEPT !.new = RawChild(s1.new, x, R, y), !.m = @ - 1, !.x = y])
        ELSE IF Len(s.stack) <= 1 THEN Copied(bare)
        ELSE CopyAcross([bare EXCEPT !.x = Last(s.stack), !.stack = Front(@)])

CopyWithRoom(t, m, c, room) ==
    LET s == [org |-> t, new |-> [Create("stack") EXCEPT !.count = t.count],
              x |-> ROOT, stack |-> <<>>, m |-> m, c |-> c, room |-> room,
              lost |-> <<>>]
    IN  IF t.count = 0 THEN Copied(s) ELSE CopyDown(s)

rb_copy(t, m, c) == CopyWithRoom(t, m, c, t.count + 1)
bst_copy(t, m, c) == CopyWithRoom(t, m, c, MaxHeight + 1)

=============================================================================
