---------------------------- MODULE LibavlTable ----------------------------
(***************************************************************************)
(* A libavl table of any of the twelve kinds, and the calls a program may  *)
(* make on it and on its traversers.  The kind is chosen once; the calls   *)
(* are those of the file that implements it.                               *)
(***************************************************************************)
EXTENDS LibavlRightThread, FiniteSets

CONSTANTS
    Tables,     \* what to try: records with the kind of a table, the keys it is
                \* used with, the twins among them (keys that two different items
                \* have) and the traversers that walk it
    Travs       \* the traversers

Unbalanced == {"bst", "pbst", "tbst", "rtbst"}
RedBlack == {"rb", "prb", "trb", "rtrb"}
Avl == {"avl", "pavl", "tavl", "rtavl"}

\* A balanced tree of bst.c fits its stacks: the code exits otherwise.
ASSUME TablesAssumption ==
    \A u \in Tables :
        /\ u.kind \in Unbalanced \cup RedBlack \cup Avl
        /\ u.keys \subseteq Nat \ {0} /\ u.twins \subseteq u.keys /\ u.travs \subseteq Travs
        /\ u.kind = "bst" => Cardinality(u.keys) < 2^MaxHeight

VARIABLES
    use,        \* the table chosen: its kind says which file implements it
    tab,        \* the table: see LibavlHeap
    trav,       \* the traversers
    ret,        \* the item the last call returned, or NULL
    call        \* the last call: an observation, read by no step

vars == <<use, tab, trav, ret, call>>

\* What the next call depends on.
view == <<use, tab, trav>>

Style(k) ==
    CASE k \in {"bst", "avl", "rb"} -> "stack"
      [] k \in {"pbst", "pavl", "prb"} -> "parent"
      [] k \in {"tbst", "tavl", "trb"} -> "thread"
      [] k \in {"rtbst", "rtavl", "rtrb"} -> "rthread"

kind == use.kind
Versions(k) == IF k \in use.twins THEN {1, 2} ELSE {1}

Init ==
    /\ use \in Tables
    /\ tab = Create(Style(kind))
    /\ trav = [x \in Travs |-> At(NULL, <<>>)]
    /\ ret = NULL
    /\ call = <<>>

-----------------------------------------------------------------------------
(***************************************************************************)
(* The calls, by kind.                                                     *)
(***************************************************************************)

Probe(t, k, v, mem) ==
    CASE kind = "bst" -> bst_probe(t, k, v, mem)
      [] kind = "avl" -> avl_probe(t, k, v, mem)
      [] kind = "rb" -> rb_probe(t, k, v, mem)
      [] kind = "pbst" -> pbst_probe(t, k, v, mem)
      [] kind = "pavl" -> pavl_probe(t, k, v, mem)
      [] kind = "prb" -> prb_probe(t, k, v, mem)
      [] kind = "tbst" -> tbst_probe(t, k, v, mem)
      [] kind = "tavl" -> tavl_probe(t, k, v, mem)
      [] kind = "trb" -> trb_probe(t, k, v, mem)
      [] kind = "rtbst" -> rtbst_probe(t, k, v, mem)
      [] kind = "rtavl" -> rtavl_probe(t, k, v, mem)
      [] kind = "rtrb" -> rtrb_probe(t, k, v, mem)

DeleteFrom(t, k) ==
    CASE kind = "bst" -> bst_delete(t, k)
      [] kind = "avl" -> avl_delete(t, k)
      [] kind = "rb" -> rb_delete(t, k)
      [] kind = "pbst" -> pbst_delete(t, k)
      [] kind = "pavl" -> pavl_delete(t, k)
      [] kind = "prb" -> prb_delete(t, k)
      [] kind = "tbst" -> tbst_delete(t, k)
      [] kind = "tavl" -> tavl_delete(t, k)
      [] kind = "trb" -> trb_delete(t, k)
      [] kind = "rtbst" -> rtbst_delete(t, k)
      [] kind = "rtavl" -> rtavl_delete(t, k)
      [] kind = "rtrb" -> rtrb_delete(t, k)

BalanceOf(t) ==
    CASE kind = "bst" -> bst_balance(t)
      [] kind = "pbst" -> pbst_balance(t)
      [] kind = "tbst" -> tbst_balance(t)
      [] kind = "rtbst" -> rtbst_balance(t)

CopyOf(t, m, c) ==
    CASE kind = "bst" -> bst_copy(t, m, c)
      [] kind \in {"avl", "rb"} -> rb_copy(t, m, c)
      [] t.style = "parent" -> pbst_copy(t, m, c)
      [] t.style = "thread" -> tbst_copy(t, m, c)
      [] t.style = "rthread" -> rtbst_copy(t, m, c)

Destroy(t) == IF t.style \in {"stack", "parent"} THEN rb_destroy(t) ELSE tbst_destroy(t)

\* A traverser of a kind without stacks is its node.
OnNode(t, n) == [t |-> t, tr |-> At(n, <<>>)]
OnProbed(r) == OnNode(r.t, r.p)

EndOf(t, d) ==
    CASE kind = "bst" -> bst_t_end(t, d)
      [] kind \in {"avl", "rb"} -> [t |-> t, tr |-> rb_t_end(t, d)]
      [] t.style = "parent" -> OnNode(t, pbst_t_end(t, d))
      [] OTHER -> OnNode(t, tbst_t_end(t, d))

StepOf(t, tr, d) ==
    CASE kind = "bst" -> bst_t_step(t, tr, d)
      [] kind \in {"avl", "rb"} -> [t |-> t, tr |-> rb_t_step(t, tr, d)]
      [] t.style = "parent" -> OnNode(t, pbst_t_step(t, tr.node, d))
      [] t.style = "thread" -> OnNode(t, tbst_t_step(t, tr.node, d))
      [] t.style = "rthread" -> OnNode(t, rtbst_t_step(t, tr.node, d))

FindOf(t, k) ==
    CASE kind = "bst" -> bst_t_find(t, k)
      [] kind \in {"avl", "rb"} -> [t |-> t, tr |-> rb_t_find(t, k)]
      [] t.style = "parent" -> OnNode(t, pbst_t_find(t, k))
      [] OTHER -> OnNode(t, tbst_t_find(t, k))

InsertOf(t, k, v, mem) ==
    CASE kind = "bst" -> bst_t_insert(t, k, v, mem)
      [] kind = "avl" -> rb_t_insert(avl_probe(t, k, v, mem))
      [] kind = "rb" -> rb_t_insert(rb_probe(t, k, v, mem))
      [] kind = "pbst" -> OnProbed(pbst_t_insert(t, k, v, mem))
      [] OTHER -> OnProbed(Probe(t, k, v, mem))

-----------------------------------------------------------------------------
(***************************************************************************)
(* The steps of the program.                                               *)
(***************************************************************************)

\* The table is t now.  When its generation moved, every stack is stale.
Become(t) ==
    /\ tab' = [t EXCEPT !.gen = 0]
    /\ UNCHANGED use

Tell(t, tr) ==
    IF t.gen = 0 THEN tr
    ELSE [x \in Travs |-> [node |-> tr[x].node, stack |-> <<>>, fresh |-> FALSE]]

DataOf(t, n) == IF n = NULL THEN NULL ELSE t.ver[n]

\* *_insert and *_replace: the item itself, found in the table, is no duplicate.
Insert(k, v, mem) ==
    \E r \in {Probe(tab, k, v, mem)} :
        /\ call' = <<"insert", k, v>>
        /\ Become(r.t)
        /\ trav' = Tell(r.t, trav)
        /\ ret' = IF r.p = NULL \/ r.t.ver[r.p] = v THEN NULL ELSE r.t.ver[r.p]

Replace(k, v, mem) ==
    \E r \in {Probe(tab, k, v, mem)} :
        /\ call' = <<"replace", k, v>>
        /\ Become(IF r.p = NULL THEN r.t ELSE [r.t EXCEPT !.ver[r.p] = v])
        /\ trav' = Tell(r.t, trav)
        /\ ret' = IF r.p = NULL \/ r.t.ver[r.p] = v THEN NULL ELSE r.t.ver[r.p]

\* No traverser stands on the item: the manual asks for that.
Delete(k) ==
    \E r \in {DeleteFrom(tab, k)} :
        /\ \A x \in Travs : trav[x].node # k
        /\ call' = <<"delete", k>>
        /\ Become(r.t)
        /\ trav' = Tell(r.t, trav)
        /\ ret' = r.item

FindItem(k) ==
    /\ call' = <<"find", k>>
    /\ ret' = DataOf(tab, Find(tab, k).p)
    /\ UNCHANGED <<use, tab, trav>>

Balance ==
    /\ kind \in Unbalanced
    /\ call' = <<"balance">>
    /\ \E t \in {BalanceOf(tab)} : Become(t) /\ trav' = Tell(t, trav)
    /\ UNCHANGED ret

\* Copying a table that is too deep balances it, though it is passed as const.
Copy(m, c) ==
    \E r \in {CopyOf(tab, m, c)} :
        /\ call' = <<"copy">>
        /\ Become(r.org)
        /\ trav' = Tell(r.org, trav)
        /\ UNCHANGED ret

\* The calls that move the traverser x; r is the table and the traverser after.
Move(x, r) ==
    /\ Become(r.t)
    /\ trav' = [Tell(r.t, trav) EXCEPT ![x] = r.tr]
    /\ ret' = DataOf(r.t, r.tr.node)

TEnd(x, d) ==
    /\ call' = <<IF d = L THEN "first" ELSE "last", x>>
    /\ Move(x, EndOf(tab, d))

TStep(x, d) ==
    /\ call' = <<IF d = L THEN "prev" ELSE "next", x>>
    /\ Move(x, StepOf(tab, trav[x], d))

TFind(x, k) == call' = <<"seek", x, k>> /\ Move(x, FindOf(tab, k))

TInsert(x, k, v, mem) ==
    /\ call' = <<"insertAt", x, k, v>>
    /\ Move(x, InsertOf(tab, k, v, mem))

TInit(x) == call' = <<"init", x>> /\ Move(x, [t |-> tab, tr |-> At(NULL, <<>>)])

TCopy(x, y) == call' = <<"follow", x, y>> /\ Move(x, [t |-> tab, tr |-> trav[y]])

TReplace(x, v) ==
    LET n == trav[x].node
    IN  /\ n # NULL
        /\ v \in Versions(n)
        /\ call' = <<"replaceAt", x, v>>
        /\ Become([tab EXCEPT !.ver[n] = v])
        /\ ret' = tab.ver[n]
        /\ UNCHANGED trav

Next ==
    \/ \E k \in use.keys : Delete(k) \/ FindItem(k)
    \/ \E k \in use.keys, mem \in BOOLEAN : \E v \in Versions(k) :
          Insert(k, v, mem) \/ Replace(k, v, mem)
    \/ Balance
    \/ \E m, c \in {0, Cardinality(use.keys)} : Copy(m, c)
    \/ \E x \in use.travs :
          \/ TInit(x)
          \/ \E d \in {L, R} : TEnd(x, d) \/ TStep(x, d)
          \/ \E k \in use.keys : TFind(x, k)
          \/ \E k \in use.keys, mem \in BOOLEAN : \E v \in Versions(k) : TInsert(x, k, v, mem)
          \/ \E y \in use.travs : TCopy(x, y)
          \/ \E v \in {1, 2} : TReplace(x, v)

Spec == Init /\ [][Next]_vars

-----------------------------------------------------------------------------
(***************************************************************************)
(* Properties.                                                             *)
(***************************************************************************)

\* Every kind of tree, with its rotations, stacks, parent links, threads and
\* generation numbers, behaves as one ordered table: *_insert, *_replace,
\* *_delete, *_find and the *_t_ calls return and select what the order of the
\* keys says, whatever calls came between.
Abstract ==
    INSTANCE OrderedTable WITH Key <- UNION {u.keys : u \in Tables}, Item <- {1, 2},
                               Cursor <- Travs, None <- NULL,
                               items <- tab.ver, cur <- [x \in Travs |-> trav[x].node]
TableSpec == Abstract!Spec

Increasing(s) == \A i \in 2..Len(s) : s[i - 1] < s[i]

\* The neighbour of n in the order of the keys, NULL at the ends.
Neighbour(t, n, d) ==
    LET s == {m \in Allocated(t) : IF d = L THEN m < n ELSE m > n}
    IN  IF s = {} THEN NULL
        ELSE CHOOSE m \in s : \A j \in s : IF d = L THEN j <= m ELSE j >= m

\* The links reach each allocated node once and in order, the count is theirs,
\* every parent link names the node above, and every empty side that should have
\* a thread has one, to the neighbour in order.
SoundTree(t) ==
    /\ Increasing(Inorder(t))
    /\ Range(Inorder(t)) = Allocated(t)
    /\ t.count = Cardinality(Allocated(t))
    /\ \A n \in DOMAIN t.parent :
          IF n = Root(t) THEN t.parent[n] = NULL
          ELSE t.parent[n] # NULL /\ n \in {t.link[t.parent[n]][L], t.link[t.parent[n]][R]}
    /\ \A n \in Allocated(t), d \in {L, R} :
          /\ <<n, d>> \in t.thread <=> Threads(t, d) /\ ~Has(t, n, d)
          /\ <<n, d>> \in t.thread => t.link[n][d] = Neighbour(t, n, d)

Height(t, n, d) == IF Has(t, n, d) THEN HeightFrom(t, t.link[n][d]) ELSE 0

\* No red child of a red node and as many black nodes on every path.
RedBlackTree(t) ==
    Root(t) # NULL =>
        /\ t.bal[Root(t)] = BLACK
        /\ BlackHeight(t, Root(t)) # -1
        /\ \A n \in Allocated(t), d \in {L, R} : t.bal[n] = RED => ~IsRed(t, n, d)

\* Balance factors are the differences of the heights, and at most one.
AvlTree(t) ==
    \A n \in Allocated(t) :
        /\ t.bal[n] \in {-1, 0, 1}
        /\ t.bal[n] = Height(t, n, R) - Height(t, n, L)

\* After every *_probe, *_delete and *_balance the links, parents and threads
\* are those of a search tree, and the tree of a balanced kind is balanced.
WellFormed ==
    /\ SoundTree(tab)
    /\ kind \in RedBlack => RedBlackTree(tab)
    /\ kind \in Avl => AvlTree(tab)

\* A traverser of bst.c, avl.c or rb.c whose generation is the table's has the
\* nodes above its node on its stack, although not every call that changes the
\* tree moves the generation (bst_probe, avl_probe without a rotation); and the
\* assertion in trav_refresh of bst.c holds: however deep the tree may be, the
\* node of a traverser is never deeper than the stack has room.
TraverserStack ==
    \A x \in Travs :
        (Style(kind) = "stack" /\ trav[x].node # NULL) =>
            LET above == Ancestors(Find(tab, trav[x].node).path)
            IN  /\ trav[x].fresh => trav[x].stack = above
                /\ kind = "bst" => Len(above) <= MaxHeight

\* Every way in which memory or the caller's copy function may fail.
CopyBudgets == LET n == tab.count IN {<<m, n>> : m \in 0..n} \cup {<<n, c>> : c \in 0..n}

\* *_copy makes the same tree, balance, threads and all; when it fails, it leaves
\* no node allocated.
CopyFaithful ==
    \A r \in {CopyOf(tab, b[1], b[2]) : b \in CopyBudgets} :
        /\ r.ok => [r.t EXCEPT !.gen = 0] = [r.org EXCEPT !.gen = 0]
        /\ ~r.ok => Allocated(r.t) = {}

\* *_destroy frees every node and hands over the items in order.
DestroyedInOrder ==
    LET r == Destroy(tab)
        order == Inorder(tab)
    IN  /\ Allocated(r.t) = {}
        /\ r.items = [i \in DOMAIN order |-> <<order[i], tab.ver[order[i]]>>]

\* *_balance keeps the items and leaves a sound tree of the least height.
BalanceMinimal ==
    kind \in Unbalanced =>
        \A t \in {BalanceOf(tab)} :
            /\ SoundTree(t) /\ t.ver = tab.ver
            /\ Root(t) # NULL => 2^(HeightFrom(t, Root(t)) - 1) <= t.count

\* rb.c on *_copy: on failure it destroys the partially created tree, "applying
\* |destroy|, if non-null, to each item in the new tree so far".
DestroysItemsOnly ==
    \A b \in CopyBudgets :
        LET r == CopyOf(tab, b[1], b[2]) IN ~r.ok => GARBAGE \notin {i[2] : i \in Range(r.items)}

\* trb.c on trb_delete: it "Returns a null pointer if no matching item found",
\* and deletes the item otherwise.
DeleteDeletes ==
    \A k \in use.keys : DeleteFrom(tab, k).item = DataOf(tab, Find(tab, k).p)

=============================================================================
