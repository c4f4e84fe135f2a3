---------------------------- MODULE LibavlParent ----------------------------
(***************************************************************************)
(* The tables whose nodes have a parent link: pbst.c, pavl.c and prb.c.    *)
(* No operation keeps a stack, and a traverser is its node alone.          *)
(***************************************************************************)
EXTENDS LibavlStack

AttachBelow(t, path, k, v, b) ==
    LET q == Last(path)[1]
    IN  [Attach(t, path, k, v, b) EXCEPT !.parent[k] = IF q = ROOT THEN NULL ELSE q]

pbst_probe(t, k, v, mem) ==
    LET f == Find(t, k)
    IN  IF f.p # NULL \/ ~mem THEN [t |-> t, p |-> f.p]
        ELSE [t |-> AttachBelow(t, f.path, k, v, BLACK), p |-> k]

\* The node q is red; so may be its parent f.
RECURSIVE PrbInsertFix(_, _)
PrbInsertFix(t, q) ==
    LET f == t.parent[q]
        g == t.parent[f]
        h == Up(t, g)
        d == Side(t, g, f)
    IN  IF f = NULL \/ t.bal[f] = BLACK \/ g = NULL THEN BlackRoot(t)
        ELSE IF IsRed(t, g, Opp(d))
        THEN PrbInsertFix([t EXCEPT !.bal[f] = BLACK, !.bal[t.link[g][Opp(d)]] = BLACK,
                                    !.bal[g] = RED], g)
        ELSE BlackRoot(RbInsertRotate(t, <<h, Side(t, h, g)>>, g, d, f, Side(t, f, q)))

prb_probe(t, k, v, mem) ==
    LET f == Find(t, k)
    IN  IF f.p # NULL \/ ~mem THEN [t |-> t, p |-> f.p]
        ELSE [t |-> PrbInsertFix(AttachBelow(t, f.path, k, v, RED), k), p |-> k]

\* The nodes from p up to y lean more to the side they are climbed from.
RECURSIVE Lean(_, _, _)
Lean(t, p, y) ==
    LET q == t.parent[p]
    IN  IF p = y THEN t
        ELSE Lean([t EXCEPT !.bal[q] = @ + Sgn(Side(t, q, p))], q, y)

pavl_probe(t, k, v, mem) ==
    LET f == Find(t, k)
        t1 == AttachBelow(t, f.path, k, v, 0)
        y == f.path[LowestUneven(t, f.path)][1]
        t2 == Lean(t1, k, y)
        z == <<Up(t2, y), Side(t2, Up(t2, y), y)>>
        t3 == IF t2.bal[y] = -2 THEN AvlRotate(t2, z, y, L)
              ELSE IF t2.bal[y] = 2 THEN AvlRotate(t2, z, y, R)
              ELSE t2
    IN  IF f.p # NULL \/ ~mem THEN [t |-> t, p |-> f.p]
        ELSE [t |-> IF t.count = 0 THEN t1 ELSE t3, p |-> k]

-----------------------------------------------------------------------------
\* Wrong variant of ParentUnlink: the right subtree of s keeps s as its parent.
ParentUnlinkForgets(t, f) ==
    LET p == f.p
        s == Last(Chain(t, t.link[p][R], L))
        above(n) ==
            CASE ~Has(t, p, R) -> IF n = t.link[p][L] THEN t.parent[p] ELSE t.parent[n]
              [] n = s -> t.parent[p]
              [] n = t.link[p][L] \/ n = t.link[p][R] -> s
              [] OTHER -> t.parent[n]
    IN  [StackUnlink(t, f) EXCEPT !.t.parent = [n \in DOMAIN t.parent |-> above(n)]]

\* The links of StackUnlink, and the parent links of the nodes that moved.
ParentUnlink(t, f) ==
    LET p == f.p
        spine == Chain(t, t.link[p][R], L)
        s == Last(spine)
        far == Len(spine) > 1
        above(n) ==
            CASE ~Has(t, p, R) -> IF n = t.link[p][L] THEN t.parent[p] ELSE t.parent[n]
              [] n = s -> t.parent[p]
              [] n = t.link[p][L] \/ (far /\ n = t.link[p][R]) -> s
              [] far /\ n = t.link[s][R] -> t.parent[s]
              [] OTHER -> t.parent[n]
    IN  [StackUnlink(t, f) EXCEPT !.t.parent = [n \in DOMAIN t.parent |-> above(n)]]

pbst_delete(t, k) ==
    LET f == Find(t, k)
    IN  IF f.p = NULL THEN [t |-> t, item |-> NULL]
        ELSE [t |-> Drop(ParentUnlink(t, f).t, f.p), item |-> t.ver[f.p]]

\* The side d of f is one black node short.
RECURSIVE PrbDeleteFix(_, _, _)
PrbDeleteFix(t, f, d) ==
    LET g == <<Up(t, f), Side(t, Up(t, f), f)>>
        w == t.link[f][Opp(d)]
        redSibling == IsRed(t, f, Opp(d))
        n == IF redSibling THEN RbNephews(RbRedSibling(t, g, f, d), <<w, d>>, f, d)
             ELSE RbNephews(t, g, f, d)
        up == Up(n.t, f)
    IN  IF IsRed(t, f, d) THEN [t EXCEPT !.bal[t.link[f][d]] = BLACK]
        ELSE IF f = ROOT THEN t
        ELSE IF n.done THEN n.t
        ELSE PrbDeleteFix(n.t, up, Side(n.t, up, f))

prb_delete(t, k) ==
    LET f == Find(t, k)
        u == ParentUnlink(t, f)
        at == Last(u.path)
        t1 == IF u.was = BLACK THEN PrbDeleteFix(u.t, at[1], at[2]) ELSE u.t
    IN  IF f.p = NULL THEN [t |-> t, item |-> NULL]
        ELSE [t |-> Drop(t1, f.p), item |-> t.ver[f.p]]

\* The side on which y hangs is read before y is rotated away from it.
RECURSIVE PavlDeleteFix(_, _, _)
PavlDeleteFix(t, y, d) ==
    LET z == Up(t, y)
        dir == Side(t, z, y)
        step == AvlDeleteStep(t, <<z, dir>>, y, d)
    IN  IF y = ROOT THEN t
        ELSE IF step.done THEN step.t
        ELSE PavlDeleteFix(step.t, z, dir)

pavl_delete(t, k) ==
    LET f == Find(t, k)
        u == ParentUnlink(t, f)
        at == Last(u.path)
    IN  IF f.p = NULL THEN [t |-> t, item |-> NULL]
        ELSE [t |-> PavlDeleteFix(Drop(u.t, f.p), at[1], at[2]), item |-> t.ver[f.p]]

-----------------------------------------------------------------------------
\* The first node above x that is reached from its side other than d, or NULL.
RECURSIVE ClimbParents(_, _, _)
ClimbParents(t, x, d) ==
    LET q == t.parent[x]
    IN  IF q = NULL \/ t.link[q][d] # x THEN q ELSE ClimbParents(t, q, d)

pbst_t_end(t, d) == IF Root(t) = NULL THEN NULL ELSE Last(Chain(t, Root(t), d))

pbst_t_find(t, k) == Find(t, k).p

pbst_t_insert(t, k, v, mem) == pbst_probe(t, k, v, mem)

pbst_t_step(t, x, d) ==
    IF x = NULL THEN pbst_t_end(t, Opp(d))
    ELSE IF Has(t, x, d) THEN Last(Chain(t, t.link[x][d], Opp(d)))
    ELSE ClimbParents(t, x, d)

-----------------------------------------------------------------------------
\* update_parents walks the tree in order, by the parent links it has written.
RECURSIVE RightOf(_, _), UpdateFrom(_, _)
RightOf(t, p) ==
    IF p = NULL \/ Has(t, p, R) THEN p ELSE RightOf(t, ClimbParents(t, p, R))
UpdateFrom(t, p) ==
    LET spine == Chain(t, p, L)
        t1 == [t EXCEPT !.parent = [n \in DOMAIN @ |->
                 IF \E i \in 2..Len(spine) : spine[i] = n
                 THEN spine[(CHOOSE i \in 2..Len(spine) : spine[i] = n) - 1]
                 ELSE @[n]]]
        q == RightOf(t1, Last(spine))
        r == t.link[q][R]
    IN  IF q = NULL THEN t1 ELSE UpdateFrom([t1 EXCEPT !.parent[r] = q], r)

update_parents(t) ==
    IF Root(t) = NULL THEN t
    ELSE UpdateFrom([t EXCEPT !.parent[Root(t)] = NULL], Root(t))

\* The links are balanced as in bst.c while the parent links stay as they were.
pbst_balance(t) ==
    LET t1 == [t EXCEPT !.parent = <<>>]
        t2 == vine_to_tree(tree_to_vine(t1, ROOT, Root(t)))
    IN  update_parents([t2 EXCEPT !.parent = t.parent])

-----------------------------------------------------------------------------
\* While it is being made the copy's root has the table as its parent, and the
\* recovery climbs into it (with the null pbst_param that stops the climb).
RECURSIVE OpenAbove(_, _)
OpenAbove(new, p) ==
    LET q == new.parent[p]
    IN  IF p = ROOT THEN {}
        ELSE (IF new.link[q][L] = p THEN {q} ELSE {}) \cup OpenAbove(new, q)

PbstNotCopied(s, new) ==
    LET open == OpenAbove(new, s.x)
        r == rb_destroy([new EXCEPT !.link = [n \in DOMAIN @ |->
                                      IF n \in open THEN <<@[n][L], NULL>> ELSE @[n]]])
    IN  [ok |-> FALSE, t |-> r.t, org |-> s.org, items |-> r.items]

RawBelow(new, x, d, y) == [RawChild(new, x, d, y) EXCEPT !.parent[y] = x]

RECURSIVE PbstCopyDown(_), PbstCopyAcross(_)
PbstCopyDown(s) ==
    LET x == s.x
        y == s.org.link[x][L]
        void == IF x = ROOT THEN [s.new EXCEPT !.link[x][L] = NULL]
                ELSE [s.new EXCEPT !.link[x] = <<NULL, NULL>>, !.ver[x] = NULL]
    IN  IF ~Has(s.org, x, L) THEN PbstCopyAcross([s EXCEPT !.new.link[x][L] = NULL])
        ELSE IF s.m = 0 THEN PbstNotCopied(s, void)
        ELSE PbstCopyDown([s EXCEPT !.new = RawBelow(s.new, x, L, y), !.m = @ - 1, !.x = y])
PbstCopyAcross(s) ==
    LET x == s.x
        y == s.org.link[x][R]
        s1 == [s EXCEPT !.new.bal[x] = s.org.bal[x], !.c = @ - 1,
                        !.new.ver[x] = IF s.c = 0 THEN NULL ELSE s.org.ver[x]]
        bare == [s1 EXCEPT !.new.link[x][R] = NULL]
        up == ClimbParents(s.org, x, R)
    IN  IF s.c = 0 THEN PbstNotCopied(s, bare.new)
        ELSE IF Has(s.org, x, R)
        THEN IF s.m = 0 THEN PbstNotCopied(s, bare.new)
             ELSE PbstCopyDown([s1 EXCEPT !.new = RawBelow(s1.new, x, R, y), !.m = @ - 1, !.x = y])
        ELSE IF up = NULL
        THEN [ok |-> TRUE, org |-> s.org, items |-> <<>>,
              t |-> [bare.new EXCEPT !.parent[Root(bare.new)] = NULL]]
        ELSE PbstCopyAcross([bare EXCEPT !.x = up])

pbst_copy(t, m, c) ==
    LET s == [org |-> t, new |-> [Create("parent") EXCEPT !.count = t.count],
              x |-> ROOT, m |-> m, c |-> c]
    IN  IF t.count = 0 THEN [ok |-> TRUE, t |-> s.new, org |-> t, items |-> <<>>]
        ELSE PbstCopyDown(s)

=============================================================================
