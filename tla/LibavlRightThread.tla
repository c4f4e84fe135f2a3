-------------------------- MODULE LibavlRightThread --------------------------
(***************************************************************************)
(* The right-threaded tables rtbst.c, rtavl.c and rtrb.c: an empty left    *)
(* link is null, an empty right link is a thread to the successor.  A      *)
(* deletion puts the predecessor in the place of the node, so that the     *)
(* only thread that led to the node goes with it.                          *)
(***************************************************************************)
EXTENDS LibavlThread

rtbst_probe(t, k, v, mem) ==
    LET f == Find(t, k)
    IN  IF f.p # NULL \/ ~mem THEN [t |-> t, p |-> f.p]
        ELSE [t |-> AttachThreaded(t, f.path, k, v, BLACK), p |-> k]

rtavl_probe(t, k, v, mem) ==
    LET f == Find(t, k)
    IN  IF f.p # NULL \/ ~mem THEN [t |-> t, p |-> f.p]
        ELSE [t |-> AvlInsertFix(AttachThreaded(t, f.path, k, v, 0), f.path).t, p |-> k]

rtrb_probe(t, k, v, mem) ==
    LET f == Find(t, k)
    IN  IF f.p # NULL \/ ~mem THEN [t |-> t, p |-> f.p]
        ELSE [t |-> RbInsertFix(AttachThreaded(t, f.path, k, v, RED), f.path), p |-> k]

-----------------------------------------------------------------------------
RightThreadUnlink(t, f) ==
    LET p == f.p
        q == Last(f.path)
        spine == Chain(t, t.link[p][L], R)
        s == Last(spine)
        above == Front(spine)
        t0 == IF Has(t, p, R) THEN [t EXCEPT !.link[q[1]][q[2]] = t.link[p][R]]
              ELSE [t EXCEPT !.link[q[1]][q[2]] = t.link[p][q[2]],
                             !.thread = IF q[2] = R THEN @ \cup {q} ELSE @]
        t1 == [t EXCEPT !.link[q[1]][q[2]] = s, !.bal[s] = t.bal[p],
                        !.link[s][R] = t.link[p][R],
                        !.thread = IF Has(t, p, R) THEN @ \ {<<s, R>>} ELSE @]
        t2 == [t1 EXCEPT
                  !.link[Last(above)][R] = IF Has(t, s, L) THEN t.link[s][L] ELSE s,
                  !.thread = @ \cup (IF Has(t, s, L) THEN {} ELSE {<<Last(above), R>>}),
                  !.link[s][L] = t.link[p][L]]
    IN  IF ~Has(t, p, L) THEN [t |-> t0, path |-> f.path, was |-> t.bal[p]]
        ELSE [t |-> IF above = <<>> THEN t1 ELSE t2, was |-> t.bal[s],
              path |-> f.path \o << <<s, L>> >> \o [i \in DOMAIN above |-> <<above[i], R>>]]

rtbst_delete(t, k) ==
    LET f == Find(t, k)
    IN  IF f.p = NULL THEN [t |-> t, item |-> NULL]
        ELSE [t |-> Drop(RightThreadUnlink(t, f).t, f.p), item |-> t.ver[f.p]]

rtavl_delete(t, k) ==
    LET f == Find(t, k)
        u == RightThreadUnlink(t, f)
    IN  IF f.p = NULL THEN [t |-> t, item |-> NULL]
        ELSE [t |-> AvlDeleteFix(Drop(u.t, f.p), u.path), item |-> t.ver[f.p]]

RtrbDeleteFix(t, path) == BlackRoot(RbDeleteFix(t, path))

rtrb_delete(t, k) ==
    LET f == Find(t, k)
        u == RightThreadUnlink(t, f)
        t1 == IF u.was = BLACK THEN RtrbDeleteFix(u.t, u.path) ELSE u.t
    IN  IF f.p = NULL THEN [t |-> t, item |-> NULL]
        ELSE [t |-> Drop(t1, f.p), item |-> t.ver[f.p]]

-----------------------------------------------------------------------------
\* Wrong variant of LastRightTurn: the first turn to the right.
FirstRightTurn(t, x) ==
    LET path == Find(t, x).path
        turns == {i \in DOMAIN path : path[i][2] = R}
    IN  IF turns = {} THEN NULL ELSE path[CHOOSE i \in turns : \A j \in turns : i <= j][1]

\* The last node of the way down to x at which the way went right, or NULL.
LastRightTurn(t, x) ==
    LET path == Find(t, x).path
        turns == {i \in DOMAIN path : path[i][2] = R}
    IN  IF turns = {} THEN NULL ELSE path[CHOOSE i \in turns : \A j \in turns : j <= i][1]

\* Backwards there is no thread to follow: the tree is searched from the root.
rtbst_t_step(t, x, d) ==
    IF x = NULL THEN tbst_t_end(t, Opp(d))
    ELSE IF Has(t, x, d) THEN Last(Chain(t, t.link[x][d], Opp(d)))
    ELSE IF d = R THEN t.link[x][R]
    ELSE LastRightTurn(t, x)

rtbst_balance(t) == tbst_vine_to_tree(tbst_tree_to_vine(t))

\* The anchor is the new table itself.
rtbst_copy(t, m, c) ==
    ThreadedCopy(t, [Create("rthread") EXCEPT !.count = t.count], m, c)

=============================================================================
