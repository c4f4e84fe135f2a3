--------------------------- MODULE CsSharesProofs ---------------------------
(***************************************************************************)
(* The divisions of CsShares give every item to exactly one thread, for    *)
(* any number of items and threads.                                        *)
(***************************************************************************)
EXTENDS CsShares, TLAPS

\* Division with remainder, as the provers use it.
LEMMA DivMod ==
    ASSUME NEW n \in Nat, NEW k \in Nat \ {0}
    PROVE  /\ n \div k \in Nat /\ n % k \in 0 .. k - 1
           /\ n = k * (n \div k) + (n % k)
  OBVIOUS

\* A product of naturals grows with either factor.
LEMMA MulMono ==
    ASSUME NEW a \in Nat, NEW b \in Nat, NEW q \in Nat, a <= b
    PROVE  a * q <= b * q
  OBVIOUS

\* If a multiple of q is less than another, the factor is less.
LEMMA MulLess ==
    ASSUME NEW a \in Nat, NEW b \in Nat, NEW q \in Nat, a * q < b * q
    PROVE  a < b
<1>1. CASE a < b  BY <1>1
<1>2. CASE b <= a
  <2>1. b * q <= a * q  BY <1>2, MulMono
  <2>2. a * q \in Nat /\ b * q \in Nat  OBVIOUS
  <2> QED  BY <2>1, <2>2
<1> QED  BY <1>1, <1>2

\* Blocks of length q that begin at the multiples of q do not meet: an item x
\* of block i is not in a later block.
LEMMA BlocksApart ==
    ASSUME NEW i \in Nat, NEW j \in Nat, NEW q \in Nat, NEW x \in Nat,
           x < (i + 1) * q, j * q <= x
    PROVE  j <= i
<1>1. j * q \in Nat /\ (i + 1) * q \in Nat  OBVIOUS
<1>2. j * q < (i + 1) * q  BY <1>1
<1>3. j < i + 1  BY <1>2, MulLess
<1> QED  BY <1>3

\* The item x of the first k - 1 blocks is in block x \div q.
LEMMA BlockFound ==
    ASSUME NEW k \in Nat \ {0}, NEW q \in Nat \ {0}, NEW x \in Nat, x < (k - 1) * q
    PROVE  \E i \in 0 .. k - 2 : i * q <= x /\ x < (i + 1) * q
<1> DEFINE i == x \div q
<1>1. i \in Nat /\ x % q \in 0 .. q - 1 /\ x = q * i + (x % q)  BY DivMod
<1>2. i * q <= x /\ x < (i + 1) * q  BY <1>1
<1>3. i * q < (k - 1) * q
  <2>1. i * q \in Nat /\ (k - 1) * q \in Nat  BY <1>1
  <2> QED  BY <2>1, <1>2
<1>4. i < k - 1
  <2>1. k - 1 \in Nat  OBVIOUS
  <2> QED  BY <2>1, <1>1, <1>3, MulLess
<1>5. i \in 0 .. k - 2  BY <1>1, <1>4
<1> HIDE DEF i
<1> QED  BY <1>2, <1>5

(***************************************************************************)
(* _cs_bind_sim_activity divides the data of an activity so that every     *)
(* item is in the share of exactly one task, if there are as many items as *)
(* threads.                                                                *)
(***************************************************************************)
THEOREM BlocksPartition ==
    ASSUME NEW n \in Nat, NEW k \in Nat \ {0}, k <= n
    PROVE  \A x \in 0 .. n - 1 :
              \E i \in 0 .. BlockTasks(n, k) - 1 :
                  /\ x \in Block(n, k, i)
                  /\ \A j \in 0 .. BlockTasks(n, k) - 1 : x \in Block(n, k, j) => j = i
<1> DEFINE q == n \div k
           r == n % k
<1>1. q \in Nat /\ r \in 0 .. k - 1 /\ n = k * q + r  BY DivMod
<1>2. q >= 1
  <2>1. CASE q = 0  BY <2>1, <1>1
  <2> QED  BY <2>1, <1>1
<1>3. BlockTasks(n, k) = k  BY DEF BlockTasks
<1>4. ASSUME NEW j \in 0 .. k - 1
      PROVE  Block(n, k, j) = j * q .. j * q + (q - 1 + (IF j < k - 1 THEN 0 ELSE r))
  BY DEF Block, BlockDim, BlockOffset
<1> HIDE DEF q, r
<1>5. k * q = (k - 1) * q + q  BY <1>1
<1> SUFFICES ASSUME NEW x \in 0 .. n - 1
             PROVE  \E i \in 0 .. k - 1 :
                        /\ x \in Block(n, k, i)
                        /\ \A j \in 0 .. k - 1 : x \in Block(n, k, j) => j = i
  BY <1>3
\* the start of a block, and its end if it is not the last
<1>6. ASSUME NEW j \in 0 .. k - 1, x \in Block(n, k, j)
      PROVE  j * q <= x /\ (j < k - 1 => x < (j + 1) * q)
  <2>1. j * q \in Nat /\ (j + 1) * q = j * q + q  BY <1>1
  <2> QED  BY <1>4, <1>6, <2>1, <1>1
<1>7. CASE x < (k - 1) * q
  <2>1. PICK i \in 0 .. k - 2 : i * q <= x /\ x < (i + 1) * q
    <3>1. x \in Nat /\ q \in Nat \ {0}  BY <1>1, <1>2
    <3> QED  BY <3>1, <1>7, BlockFound
  <2>2. x \in Block(n, k, i)
    <3>1. i * q \in Nat /\ (i + 1) * q = i * q + q  BY <1>1
    <3> QED  BY <1>4, <2>1, <3>1, <1>1
  <2>3. ASSUME NEW j \in 0 .. k - 1, x \in Block(n, k, j)
        PROVE  j = i
    <3>1. j <= i  BY <1>6, <2>1, <2>3, <1>1, BlocksApart
    <3>2. i <= j
      <4>1. j < k - 1  BY <3>1, <2>1
      <4>2. x < (j + 1) * q  BY <1>6, <2>3, <4>1
      <4> QED  BY <4>2, <2>1, <1>1, BlocksApart
    <3> QED  BY <3>1, <3>2
  <2> QED  BY <2>1, <2>2, <2>3
<1>8. CASE (k - 1) * q <= x
  <2>1. x \in Block(n, k, k - 1)
    <3>1. (k - 1) * q \in Nat  BY <1>1
    <3>2. Block(n, k, k - 1) = (k - 1) * q .. (k - 1) * q + (q - 1 + r)  BY <1>4
    <3> QED  BY <3>1, <3>2, <1>1, <1>5, <1>8
  <2>2. ASSUME NEW j \in 0 .. k - 1, x \in Block(n, k, j)
        PROVE  j = k - 1
    <3>1. SUFFICES ASSUME j < k - 1 PROVE FALSE  OBVIOUS
    <3>2. x < (j + 1) * q  BY <1>6, <2>2, <3>1
    <3>3. k - 1 <= j  BY <3>2, <1>8, <1>1, BlocksApart
    <3> QED  BY <3>1, <3>3
  <2> QED  BY <2>1, <2>2
<1>9. (k - 1) * q \in Nat  BY <1>1
<1> QED  BY <1>7, <1>8, <1>9

\* With as many events as tasks, the share of a task of the controller is the
\* block of the same number, counted from 1.
LEMMA SharesAreBlocks ==
    ASSUME NEW n \in Nat, NEW k \in Nat \ {0}, k <= n,
           NEW c \in 0 .. k - 1, NEW e \in 1 .. n
    PROVE  e \in EvShare(n, k, c) <=> e - 1 \in Block(n, k, c)
<1> DEFINE q == n \div k
           r == n % k
<1>1. q \in Nat /\ r \in 0 .. k - 1 /\ n = k * q + r  BY DivMod
<1>2. q >= 1
  <2>1. CASE q = 0  BY <2>1, <1>1
  <2> QED  BY <2>1, <1>1
<1>3. EvHops(n, k) = q  BY <1>1, <1>2 DEF EvHops
<1>4. Block(n, k, c) = c * q .. c * q + (q - 1 + (IF c < k - 1 THEN 0 ELSE r))
  BY DEF Block, BlockDim, BlockOffset
<1>5. EvShare(n, k, c) = EvGuard(n, k, c) .. EvGuard(n, k, c) + EvNum(n, k, c) - 1
  BY DEF EvShare
<1>6. EvGuard(n, k, c) = IF c * q < n THEN c * q + 1 ELSE n  BY <1>3 DEF EvGuard
<1>7. EvNum(n, k, c) = IF c < k - 1 THEN q ELSE n - (k - 1) * q  BY <1>3 DEF EvNum
<1> HIDE DEF q, r
<1>8. c * q \in Nat /\ (k - 1) * q \in Nat /\ k * q = (k - 1) * q + q  BY <1>1
<1>9. c * q <= (k - 1) * q
  <2>1. k - 1 \in Nat /\ c \in Nat /\ c <= k - 1  OBVIOUS
  <2> QED  BY <2>1, <1>1, MulMono
<1>10. EvGuard(n, k, c) = c * q + 1  BY <1>1, <1>2, <1>6, <1>8, <1>9
<1>11. EvNum(n, k, c) = q + (IF c < k - 1 THEN 0 ELSE r)  BY <1>1, <1>7, <1>8
<1> QED  BY <1>1, <1>4, <1>5, <1>8, <1>10, <1>11, SMTT(60)

(***************************************************************************)
(* _cs_ev_update_guards and _ev_controller divide the events of a tick so  *)
(* that every event is raised by exactly one task, for any number of       *)
(* events and of workers.                                                  *)
(***************************************************************************)
THEOREM EventSharesPartition ==
    ASSUME NEW n \in Nat, NEW k \in Nat \ {0}
    PROVE  \A e \in 1 .. n :
              \E c \in 0 .. EvTasks(n, k) - 1 :
                  /\ e \in EvShare(n, k, c)
                  /\ \A d \in 0 .. EvTasks(n, k) - 1 : e \in EvShare(n, k, d) => d = c
<1> SUFFICES ASSUME NEW e \in 1 .. n
             PROVE  \E c \in 0 .. EvTasks(n, k) - 1 :
                        /\ e \in EvShare(n, k, c)
                        /\ \A d \in 0 .. EvTasks(n, k) - 1 : e \in EvShare(n, k, d) => d = c
  OBVIOUS
<1>1. CASE k <= n
  <2>1. EvTasks(n, k) = k /\ BlockTasks(n, k) = k  BY <1>1 DEF EvTasks, BlockTasks
  <2>2. e - 1 \in 0 .. n - 1  OBVIOUS
  <2>3. PICK c \in 0 .. k - 1 :
            /\ e - 1 \in Block(n, k, c)
            /\ \A d \in 0 .. k - 1 : e - 1 \in Block(n, k, d) => d = c
    BY <1>1, <2>1, <2>2, BlocksPartition
  <2>4. \A d \in 0 .. k - 1 : e \in EvShare(n, k, d) <=> e - 1 \in Block(n, k, d)
    BY <1>1, SharesAreBlocks
  <2> QED  BY <2>1, <2>3, <2>4
\* fewer events than tasks: task c has event c + 1 alone
<1>2. CASE n < k
  <2>1. EvTasks(n, k) = n  BY <1>2 DEF EvTasks
  <2>2. n \div k = 0
    <3>1. n \div k \in Nat /\ n = k * (n \div k) + (n % k) /\ n % k \in 0 .. k - 1  BY DivMod
    <3>2. CASE n \div k >= 1
      <4>1. 1 * k <= (n \div k) * k  BY <3>1, <3>2, MulMono
      <4> QED  BY <4>1, <3>1, <1>2
    <3> QED  BY <3>1, <3>2
  <2>3. EvHops(n, k) = 1  BY <2>2 DEF EvHops
  <2>4. ASSUME NEW d \in 0 .. n - 1
        PROVE  EvShare(n, k, d) = d + 1 .. d + 1
    <3>1. EvGuard(n, k, d) = d + 1  BY <2>3 DEF EvGuard
    <3>2. EvNum(n, k, d) = 1  BY <2>3, <1>2 DEF EvNum
    <3> QED  BY <3>1, <3>2 DEF EvShare
  <2>5. e - 1 \in 0 .. EvTasks(n, k) - 1  BY <2>1
  <2> WITNESS e - 1 \in 0 .. EvTasks(n, k) - 1
  <2> QED  BY <2>1, <2>4
<1> QED  BY <1>1, <1>2


\* The share of a task lies within the list, and no task has nothing to do.
LEMMA SharesWithin ==
    ASSUME NEW n \in Nat \ {0}, NEW k \in Nat \ {0}, NEW c \in 0 .. EvTasks(n, k) - 1
    PROVE  /\ EvGuard(n, k, c) \in 1 .. n /\ EvNum(n, k, c) \in Nat \ {0}
           /\ EvGuard(n, k, c) + EvNum(n, k, c) - 1 \in 1 .. n
<1> DEFINE h == EvHops(n, k)
<1>1. h \in Nat \ {0} /\ (k <= n => k * h <= n) /\ (n < k => h = 1)
  <2>1. n \div k \in Nat /\ n % k \in 0 .. k - 1 /\ n = k * (n \div k) + (n % k)  BY DivMod
  <2>2. k * (n \div k) \in Nat  BY <2>1
  <2>3. CASE n \div k > 1
    <3>1. h = n \div k  BY <2>3 DEF EvHops
    <3>2. 1 * k <= (n \div k) * k  BY <2>1, <2>3, MulMono
    <3> QED  BY <2>1, <2>2, <3>1, <3>2
  <2>4. CASE ~(n \div k > 1)
    <3>1. h = 1  BY <2>4 DEF EvHops
    <3> QED  BY <3>1
  <2> QED  BY <2>3, <2>4
<1> HIDE DEF h
<1>2. c \in Nat /\ c < k /\ c < n  BY DEF EvTasks
<1>3. c * h \in Nat /\ (c + 1) * h = c * h + h /\ (k - 1) * h \in Nat /\ k * h = (k - 1) * h + h
  BY <1>1, <1>2
<1>4. (c + 1) * h <= k * h /\ (c < k - 1 => (c + 1) * h <= (k - 1) * h)
  <2>1. c + 1 \in Nat /\ k - 1 \in Nat /\ h \in Nat /\ c + 1 <= k  BY <1>1, <1>2
  <2> QED  BY <2>1, MulMono
<1>5. (c + 1) * h <= n
  <2>1. CASE k <= n  BY <1>1, <1>3, <1>4, <2>1
  <2>2. CASE n < k  BY <1>1, <1>2, <2>2
  <2> QED  BY <2>1, <2>2
<1>6. EvGuard(n, k, c) = c * h + 1  BY <1>1, <1>3, <1>5 DEF EvGuard, h
<1>7. CASE c < k - 1
  <2>1. EvNum(n, k, c) = h  BY <1>7 DEF EvNum, h
  <2> QED  BY <1>1, <1>3, <1>5, <1>6, <2>1
<1>8. CASE c = k - 1
  <2>1. EvNum(n, k, c) = n - (k - 1) * h  BY <1>8 DEF EvNum, h
  <2> QED  BY <1>1, <1>3, <1>5, <1>6, <1>8, <2>1
<1> QED  BY <1>2, <1>7, <1>8

LEMMA SharesInside ==
    ASSUME NEW n \in Nat \ {0}, NEW k \in Nat \ {0}, NEW c \in 0 .. EvTasks(n, k) - 1,
           NEW i \in EvShare(n, k, c)
    PROVE  i \in 1 .. n
<1>1. /\ EvGuard(n, k, c) \in 1 .. n /\ EvNum(n, k, c) \in Nat \ {0}
      /\ EvGuard(n, k, c) + EvNum(n, k, c) - 1 \in 1 .. n
  BY SharesWithin
<1> QED  BY <1>1 DEF EvShare
=============================================================================
