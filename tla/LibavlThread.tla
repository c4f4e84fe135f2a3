---------------------------- MODULE LibavlThread ----------------------------
(***************************************************************************)
(* The threaded tables tbst.c, tavl.c and trb.c: a link that leads to no   *)
(* child is tagged as a thread and leads to the inorder predecessor (L) or *)
(* successor (R), null at the two ends.  A traverser is its node alone.    *)
(***************************************************************************)
EXTENDS LibavlParent

CONSTANT AllocByte      \* the second byte of the address of the allocator

ASSUME AllocByteAssumption == AllocByte \in 0..255

TRB_THREAD == 1

\* The links of a new node n below p on side d: threads to p and to where the
\* link of p led, on the sides that have threads.
ThreadLinks(t, p, d) ==
    LET links == IF d = L THEN <<t.link[p][d], p>> ELSE <<p, t.link[p][d]>>
    IN  [e \in {L, R} |-> IF Threads(t, e) THEN links[e] ELSE NULL]
NewThreads(t, n) == {<<n, d>> : d \in {e \in {L, R} : Threads(t, e)}}

AttachThreaded(t, path, k, v, b) ==
    LET p == Last(path)[1]
        d == Last(path)[2]
    IN  [Malloc(t, k, v, b) EXCEPT
            !.link[k] = IF p = ROOT THEN <<NULL, NULL>> ELSE ThreadLinks(t, p, d),
            !.link[p][d] = k,
            !.thread = (@ \ {<<p, d>>}) \cup NewThreads(t, k),
            !.count = @ + 1]

tbst_probe(t, k, v, mem) ==
    LET f == Find(t, k)
    IN  IF f.p # NULL \/ ~mem THEN [t |-> t, p |-> f.p]
        ELSE [t |-> AttachThreaded(t, f.path, k, v, BLACK), p |-> k]

tavl_probe(t, k, v, mem) ==
    LET f == Find(t, k)
    IN  IF f.p # NULL \/ ~mem THEN [t |-> t, p |-> f.p]
        ELSE [t |-> AvlInsertFix(AttachThreaded(t, f.path, k, v, 0), f.path).t, p |-> k]

trb_probe(t, k, v, mem) ==
    LET f == Find(t, k)
    IN  IF f.p # NULL \/ ~mem THEN [t |-> t, p |-> f.p]
        ELSE [t |-> RbInsertFix(AttachThreaded(t, f.path, k, v, RED), f.path), p |-> k]

-----------------------------------------------------------------------------
\* As StackUnlink.  The predecessor of p, when it is below p, has a thread to p
\* that must lead past it, and a node that loses its last child on a side gets
\* a thread there.
ThreadUnlink(t, f) ==
    LET p == f.p
        q == Last(f.path)
        pred == Last(Chain(t, t.link[p][L], R))
        spine == Chain(t, t.link[p][R], L)
        s == Last(spine)
        above == Front(spine)
        past(u, n) == IF Has(t, p, L) THEN [u EXCEPT !.link[pred][R] = n] ELSE u
        leaf == [t EXCEPT !.link[q[1]][q[2]] = t.link[p][q[2]],
                          !.thread = IF q[1] = ROOT THEN @ ELSE @ \cup {q}]
        t1 == [past(t, s) EXCEPT !.link[q[1]][q[2]] = s, !.bal[s] = t.bal[p],
                  !.link[s][L] = t.link[p][L],
                  !.thread = IF Has(t, p, L) THEN @ \ {<<s, L>>} ELSE @]
        t2 == [t1 EXCEPT
                  !.link[Last(above)][L] = IF Has(t, s, R) THEN t.link[s][R] ELSE s,
                  !.thread = (@ \ {<<s, R>>})
                                \cup (IF Has(t, s, R) THEN {} ELSE {<<Last(above), L>>}),
                  !.link[s][R] = t.link[p][R]]
    IN  IF ~Has(t, p, R)
        THEN [path |-> f.path, was |-> t.bal[p],
              t |-> IF Has(t, p, L)
                    THEN [past(t, t.link[p][R]) EXCEPT !.link[q[1]][q[2]] = t.link[p][L]]
                    ELSE leaf]
        ELSE [t |-> IF above = <<>> THEN t1 ELSE t2, was |-> t.bal[s],
              path |-> f.path \o << <<s, R>> >> \o [i \in DOMAIN above |-> <<above[i], L>>]]

tbst_delete(t, k) ==
    LET f == Find(t, k)
    IN  IF f.p = NULL THEN [t |-> t, item |-> NULL]
        ELSE [t |-> Drop(ThreadUnlink(t, f).t, f.p), item |-> t.ver[f.p]]

\* The parent of a node other than the root is where the threads of its
\* rightmost or of its leftmost descendant lead: the shorter way is tried first.
RECURSIVE FindParent(_, _, _, _)
FindParent(t, node, x, y) ==
    LET right == t.link[y][R]
        left == t.link[x][L]
    IN  IF ~Has(t, y, R)
        THEN IF right = NULL \/ t.link[right][L] # node
             THEN t.link[Last(Chain(t, x, L))][L] ELSE right
        ELSE IF ~Has(t, x, L)
        THEN IF left = NULL \/ t.link[left][R] # node
             THEN t.link[Last(Chain(t, y, R))][R] ELSE left
        ELSE FindParent(t, node, left, right)

find_parent(t, node) == IF node = Root(t) THEN ROOT ELSE FindParent(t, node, node, node)

RECURSIVE TavlDeleteFix(_, _, _)
TavlDeleteFix(t, y, d) ==
    LET z == find_parent(t, y)
        dir == Side(t, z, y)
        step == AvlDeleteStep(t, <<z, dir>>, y, d)
    IN  IF y = ROOT THEN t
        ELSE IF step.done THEN step.t
        ELSE TavlDeleteFix(step.t, z, dir)

tavl_delete(t, k) ==
    LET f == Find(t, k)
        u == ThreadUnlink(t, f)
        at == Last(u.path)
    IN  IF f.p = NULL THEN [t |-> t, item |-> NULL]
        ELSE [t |-> TavlDeleteFix(Drop(u.t, f.p), at[1], at[2]), item |-> t.ver[f.p]]

TrbDeleteFix(t, path) == BlackRoot(RbDeleteFix(t, path))

\* The search starts at the table itself, taken for a node: its tag for the
\* link to the root is a byte of the address of the allocator.
trb_delete(t, k) ==
    LET f == Find(t, k)
        u == ThreadUnlink(t, f)
        t1 == IF u.was = BLACK THEN TrbDeleteFix(u.t, u.path) ELSE u.t
    IN  IF f.p = NULL \/ AllocByte = TRB_THREAD THEN [t |-> t, item |-> NULL]
        ELSE [t |-> Drop(t1, f.p), item |-> t.ver[f.p]]

-----------------------------------------------------------------------------
tbst_t_end(t, d) == IF Root(t) = NULL THEN NULL ELSE Last(Chain(t, Root(t), d))

tbst_t_find(t, k) == Find(t, k).p

tbst_t_step(t, x, d) ==
    IF x = NULL THEN tbst_t_end(t, Opp(d))
    ELSE IF Has(t, x, d) THEN Last(Chain(t, t.link[x][d], Opp(d)))
    ELSE t.link[x][d]

-----------------------------------------------------------------------------
\* Wrong variant of Successor: the right child itself is taken for it.
RightChild(t, p) == t.link[p][R]

\* The inorder successor by the right link, as destroying and flattening find it.
Successor(t, p) == IF Has(t, p, R) THEN Last(Chain(t, t.link[p][R], L)) ELSE t.link[p][R]

RECURSIVE TbstVineFrom(_, _)
TbstVineFrom(t, p) ==
    LET q == Successor(t, p)
        t1 == [t EXCEPT !.link[p][R] = q, !.thread = @ \cup {<<p, R>>}]
    IN  IF q = NULL THEN [t1 EXCEPT !.link[ROOT][L] = p]
        ELSE TbstVineFrom([t1 EXCEPT !.link[q][L] = p, !.thread = @ \ {<<q, L>>}], q)

tbst_tree_to_vine(t) ==
    IF Root(t) = NULL THEN t ELSE TbstVineFrom(t, Last(Chain(t, Root(t), L)))

\* First nonthread times with a child to hand over, then thread times without.
RECURSIVE tbst_compress(_, _, _, _)
tbst_compress(t, root, nonthread, thread) ==
    LET red == t.link[root][L]
        black == t.link[red][L]
        t1 == [t EXCEPT !.link[root][L] = black, !.link[red][L] = t.link[black][R],
                        !.link[black][R] = red]
        tied == Threads(t, L)
        t2 == [t EXCEPT !.link[root][L] = black, !.link[red][L] = IF tied THEN black ELSE NULL,
                        !.thread = (@ \cup (IF tied THEN {<<red, L>>} ELSE {})) \ {<<black, R>>}]
    IN  IF nonthread > 0 THEN tbst_compress(t1, black, nonthread - 1, thread)
        ELSE IF thread > 0 THEN tbst_compress(t2, black, 0, thread - 1)
        ELSE t

RECURSIVE TbstFold(_, _)
TbstFold(t, vine) ==
    IF vine > 1 THEN TbstFold(tbst_compress(t, ROOT, vine \div 2, 0), vine \div 2) ELSE t

\* The second round meets nodes that got a child in the first, and others.
tbst_vine_to_tree(t) ==
    LET leaves == Leaves(t.count)
        t1 == tbst_compress(t, ROOT, 0, leaves)
        vine == t.count - leaves
        half == vine \div 2
        with == IF leaves \div 2 > half THEN half ELSE leaves \div 2
    IN  IF vine > 1 THEN TbstFold(tbst_compress(t1, ROOT, with, half - with), half) ELSE t1

tbst_balance(t) == tbst_vine_to_tree(tbst_tree_to_vine(t))

-----------------------------------------------------------------------------
RECURSIVE TbstDestroyFrom(_, _, _)
TbstDestroyFrom(t, p, items) ==
    IF p = NULL THEN [t |-> t, items |-> items]
    ELSE TbstDestroyFrom(Free(t, p), Successor(t, p),
                         IF t.ver[p] = NULL THEN items ELSE Append(items, <<p, t.ver[p]>>))

tbst_destroy(t) == TbstDestroyFrom(t, tbst_t_end(t, L), <<>>)

\* Wrong variant of tbst_copy_node: the balance is not copied.
CopyNodeUnbalanced(new, dst, d, src, v, b) ==
    [Malloc(new, src, v, 0) EXCEPT
        !.link[src] = ThreadLinks(new, dst, d),
        !.link[dst][d] = src,
        !.thread = (@ \ {<<dst, d>>}) \cup NewThreads(new, src)]

\* A new node takes the thread of dst over: the tree is whole at every moment.
tbst_copy_node(new, dst, d, src, v, b) ==
    [Malloc(new, src, v, b) EXCEPT
        !.link[src] = ThreadLinks(new, dst, d),
        !.link[dst][d] = src,
        !.thread = (@ \ {<<dst, d>>}) \cup NewThreads(new, src)]

\* The greatest node's thread leads to the copy's anchor until it is cut.
TbstNotCopied(s) ==
    LET new == s.new
        last == Last(Chain(new, Root(new), R))
        r == tbst_destroy(IF Root(new) = NULL THEN new ELSE [new EXCEPT !.link[last][R] = NULL])
    IN  [ok |-> FALSE, t |-> r.t, org |-> s.org, items |-> r.items]

\* One call of copy_node for the child of s.p on side d.
TbstCopyChild(s, d) ==
    LET src == s.org.link[s.p][d]
        v == IF s.c = 0 THEN NULL ELSE s.org.ver[src]
    IN  IF s.m = 0 THEN [s EXCEPT !.failed = TRUE]
        ELSE [s EXCEPT !.new = tbst_copy_node(s.new, s.q, d, src, v, s.org.bal[src]),
                       !.m = @ - 1, !.c = @ - 1, !.failed = (s.c = 0)]

\* p walks the original and q the copy, each by its own links and threads.
RECURSIVE TbstCopyFrom(_), TbstCopyUp(_), TbstCopyOn(_)
TbstCopyFrom(s) ==
    LET l == TbstCopyChild(s, L)
    IN  IF ~Has(s.org, s.p, L) THEN TbstCopyUp(s)
        ELSE IF l.failed THEN TbstNotCopied(l)
        ELSE TbstCopyOn([l EXCEPT !.p = s.org.link[s.p][L], !.q = l.new.link[s.q][L]])
TbstCopyUp(s) ==
    LET on == [s EXCEPT !.p = s.org.link[s.p][R], !.q = s.new.link[s.q][R]]
    IN  IF Has(s.org, s.p, R) THEN TbstCopyOn(on)
        ELSE IF on.p = NULL
        THEN [ok |-> TRUE, org |-> s.org, items |-> <<>>, t |-> [s.new EXCEPT !.link[s.q][R] = NULL]]
        ELSE TbstCopyUp(on)
TbstCopyOn(s) ==
    LET r == TbstCopyChild(s, R)
    IN  IF ~Has(s.org, s.p, R) THEN TbstCopyFrom(s)
        ELSE IF r.failed THEN TbstNotCopied(r)
        ELSE TbstCopyFrom(r)

ThreadedCopy(t, anchor, m, c) ==
    IF t.count = 0 THEN [ok |-> TRUE, t |-> Create(t.style), org |-> t, items |-> <<>>]
    ELSE TbstCopyFrom([org |-> t, new |-> anchor, p |-> ROOT, q |-> ROOT, m |-> m, c |-> c,
                       failed |-> FALSE])

\* The anchor is a node of the function's own, with a thread for a root.
tbst_copy(t, m, c) ==
    ThreadedCopy(t, [Create("thread") EXCEPT !.count = t.count, !.thread = {<<ROOT, L>>}], m, c)

=============================================================================
