------------------------------ MODULE CsShares ------------------------------
(***************************************************************************)
(* How work is divided among threads: the events of a tick among the       *)
(* workers of the event manager (src/cs_events.c), the data of an activity *)
(* among the workers of the engine (src/cs_engine.c).                      *)
(***************************************************************************)
EXTENDS Integers

\* _cs_ev_update_guards: a guard every hops events; the pointer stops at the
\* last event of the list.  n events are numbered from 1, k is ntasks.
EvHops(n, k) == IF n \div k > 1 THEN n \div k ELSE 1
EvGuard(n, k, c) == IF c * EvHops(n, k) < n THEN c * EvHops(n, k) + 1 ELSE n

\* _ev_controller: how many tasks it enqueues, and how many events each has:
\* the last of the ntasks has what is left.
EvTasks(n, k) == IF k < n THEN k ELSE n
EvNum(n, k, c) == IF c < k - 1 THEN EvHops(n, k) ELSE n - (k - 1) * EvHops(n, k)

EvShare(n, k, c) == EvGuard(n, k, c) .. EvGuard(n, k, c) + EvNum(n, k, c) - 1

\* _cs_bind_sim_activity: n items are numbered from 0, k is wp->nthreads.
BlockDim(n, k) == n \div k
BlockTasks(n, k) == IF n > k THEN k ELSE n

\* Wrong variant of BlockOffset: the last block has no more items than the others.
BlockOffsetNoRest(n, k, i) == BlockDim(n, k) - 1

BlockOffset(n, k, i) == BlockDim(n, k) - 1 + (IF i < k - 1 THEN 0 ELSE n % k)

\* from data_index to data_index + offset
Block(n, k, i) == i * BlockDim(n, k) .. i * BlockDim(n, k) + BlockOffset(n, k, i)

\* from index, which is the number of the task, to index + offset
IndexBlock(n, k, i) == i .. i + BlockOffset(n, k, i)

=============================================================================
