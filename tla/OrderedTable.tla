---------------------------- MODULE OrderedTable ----------------------------
(***************************************************************************)
(* What a libavl table promises, whatever tree it keeps: a partial map     *)
(* from keys to items, and cursors that walk it in the order of the keys.  *)
(* Memory may run out at an insertion, which then does nothing.  An item   *)
(* under a cursor is not deleted: the manual forbids it.                   *)
(***************************************************************************)
EXTENDS Integers, Functions

CONSTANTS Key, Item, Cursor, None

VARIABLES
    call,       \* the last call
    items,      \* the item of every key that has one
    cur,        \* the key at which each cursor stands, or None
    ret         \* what the last call returned: an item, or None

vars == <<call, items, cur, ret>>

Init ==
    /\ call = <<>>
    /\ items = <<>>
    /\ cur = [x \in Cursor |-> None]
    /\ ret = None

Held == DOMAIN items
ItemAt(k) == IF k \in Held THEN items[k] ELSE None
With(k, v) == [j \in Held \cup {k} |-> IF j = k THEN v ELSE items[j]]

\* The least (least = TRUE) or greatest of a set of keys, None if it is empty.
Extreme(S, least) ==
    IF S = {} THEN None
    ELSE CHOOSE k \in S : \A j \in S : IF least THEN k <= j ELSE k >= j

\* A cursor moved to key k returns the item there.
MoveTo(x, k) ==
    /\ cur' = [cur EXCEPT ![x] = k]
    /\ ret' = ItemAt(k)
    /\ UNCHANGED items

\* Adding an item that is there already is no replacement.
Add(k, v) ==
    /\ call' = <<"insert", k, v>>
    /\ UNCHANGED cur
    /\ \/ /\ items' = IF k \in Held THEN items ELSE With(k, v)
          /\ ret' = IF ItemAt(k) = v THEN None ELSE ItemAt(k)
       \/ k \notin Held /\ ret' = None /\ UNCHANGED items

Put(k, v) ==
    /\ call' = <<"replace", k, v>>
    /\ UNCHANGED cur
    /\ \/ /\ items' = With(k, v)
          /\ ret' = IF ItemAt(k) = v THEN None ELSE ItemAt(k)
       \/ k \notin Held /\ ret' = None /\ UNCHANGED items

Remove(k) ==
    /\ \A x \in Cursor : cur[x] # k
    /\ call' = <<"delete", k>>
    /\ items' = Restrict(items, Held \ {k})
    /\ ret' = ItemAt(k)
    /\ UNCHANGED cur

\* Look up without moving anything.
Get(k) ==
    /\ call' = <<"find", k>>
    /\ ret' = ItemAt(k)
    /\ UNCHANGED <<items, cur>>

\* Balancing and copying show nowhere.
Rearrange ==
    /\ call' \in {<<"balance">>, <<"copy">>}
    /\ UNCHANGED <<items, cur, ret>>

First(x) == call' = <<"first", x>> /\ MoveTo(x, Extreme(Held, TRUE))
LastOf(x) == call' = <<"last", x>> /\ MoveTo(x, Extreme(Held, FALSE))
Seek(x, k) == call' = <<"seek", x, k>> /\ MoveTo(x, IF k \in Held THEN k ELSE None)
Reset(x) == call' = <<"init", x>> /\ MoveTo(x, None)
Follow(x, y) == call' = <<"follow", x, y>> /\ MoveTo(x, cur[y])

\* From None a cursor goes to the end it would come to next.
Forward(x) ==
    /\ call' = <<"next", x>>
    /\ MoveTo(x, Extreme(IF cur[x] = None THEN Held ELSE {k \in Held : k > cur[x]}, TRUE))
Back(x) ==
    /\ call' = <<"prev", x>>
    /\ MoveTo(x, Extreme(IF cur[x] = None THEN Held ELSE {k \in Held : k < cur[x]}, FALSE))

AddAt(x, k, v) ==
    /\ call' = <<"insertAt", x, k, v>>
    /\ \/ /\ items' = IF k \in Held THEN items ELSE With(k, v)
          /\ cur' = [cur EXCEPT ![x] = k]
          /\ ret' = items'[k]
       \/ k \notin Held /\ MoveTo(x, None)

ReplaceAt(x, v) ==
    /\ cur[x] # None
    /\ call' = <<"replaceAt", x, v>>
    /\ items' = [items EXCEPT ![cur[x]] = v]
    /\ ret' = items[cur[x]]
    /\ UNCHANGED cur

Next ==
    \/ Rearrange
    \/ \E k \in Key : Remove(k) \/ Get(k)
    \/ \E k \in Key, v \in Item : Add(k, v) \/ Put(k, v)
    \/ \E x \in Cursor :
          \/ First(x) \/ LastOf(x) \/ Forward(x) \/ Back(x) \/ Reset(x)
          \/ \E k \in Key : Seek(x, k) \/ \E v \in Item : AddAt(x, k, v)
          \/ \E y \in Cursor : Follow(x, y)
          \/ \E v \in Item : ReplaceAt(x, v)

Spec == Init /\ [][Next]_vars

=============================================================================
