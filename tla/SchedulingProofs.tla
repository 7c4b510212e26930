-------------------------- MODULE SchedulingProofs --------------------------
(***************************************************************************)
(* The algorithms the scheduler chooses with: the priority queue and the   *)
(* choice of a node, for tasks, heaps and clusters of any size.            *)
(*                                                                         *)
(* Their loops are recursive functions.  The library's induction theorems  *)
(* take an operator as a parameter, so that induction starts here from a   *)
(* theorem that does not, that the order of the natural numbers is well    *)
(* founded, and is on sets of numbers.  What a turn of a loop makes of the *)
(* values before it is a function in the lemmas on loops, for the same     *)
(* reason.                                                                 *)
(***************************************************************************)
EXTENDS PriorityQueue, Placement, WellFoundedInduction,
        FiniteSetTheorems, TLAPS

-----------------------------------------------------------------------------
(* Induction and loops. *)

\* Every nonempty set of natural numbers has a least element.
LEMMA Least ==
    ASSUME NEW S, S \subseteq Nat, S # {}
    PROVE  \E m \in S : \A n \in S : m <= n
  <1>1. PICK R : /\ IsWellFoundedOn(R, Nat)
                 /\ \A x, y \in Nat : <<x, y>> \in R <=> x < y
    <2>1. \A x, y \in Nat : <<x, y>> \in OpToRel(<, Nat) <=> x < y
      BY Zenon DEF OpToRel
    <2> QED
      BY <2>1, NatLessThanWellFounded
  <1>2. PICK m \in S : \A y \in S : ~(<<y, m>> \in R)
    <2>1. IsWellFoundedOn(R, Nat)
      BY <1>1
    <2> QED
      BY <2>1, WFMin
  <1>3. ASSUME NEW n \in S
        PROVE  m <= n
    <2>1. ~(n < m)
      BY <1>1, <1>2
    <2> QED
      BY <2>1
  <1> QED
    BY <1>3

\* Induction, on the set of the numbers that have the property.
LEMMA Induction ==
    ASSUME NEW S, 0 \in S, \A n \in Nat : n \in S => n + 1 \in S
    PROVE  Nat \subseteq S
  <1> DEFINE T == Nat \ S
  <1>1. CASE T = {}
    BY <1>1
  <1>2. CASE T # {}
    <2>1. PICK m \in T : \A n \in T : m <= n
      BY <1>2, Least
    <2>2. m - 1 \in Nat
      BY <2>1
    <2>3. m - 1 \in S
      BY <2>1, <2>2
    <2> QED
      BY <2>1, <2>2, <2>3
  <1> QED
    BY <1>1, <1>2

\* The loops of N turns with values in X: what a turn makes of the value before
\* it, and the values after 0, 1, ..., N turns.
Turns(X, N) == [X \X (1..N) -> X]
Loops(X, N, x0, turn) ==
    {f \in [0..N -> X] : /\ f[0] = x0
                         /\ \A k \in 1..N : f[k] = turn[<<f[k - 1], k>>]}

LEMMA LoopExists ==
    ASSUME NEW N \in Nat, NEW X, NEW x0 \in X, NEW turn \in Turns(X, N)
    PROVE  Loops(X, N, x0, turn) # {}
  <1> USE DEF Turns
  <1> DEFINE Good(m) == \E f \in [0..m -> X] :
                           /\ f[0] = x0
                           /\ \A k \in 1..m : f[k] = turn[<<f[k - 1], k>>]
             S == {m \in Nat : m <= N => Good(m)}
  <1>1. 0 \in S
    <2> DEFINE h == [k \in 0..0 |-> x0]
    <2>1. h \in [0..0 -> X] /\ h[0] = x0
      OBVIOUS
    <2>2. \A k \in 1..0 : h[k] = turn[<<h[k - 1], k>>]
      OBVIOUS
    <2> HIDE DEF h
    <2> QED
      BY <2>1, <2>2
  <1>2. ASSUME NEW m \in Nat, m \in S
        PROVE  m + 1 \in S
    <2> SUFFICES ASSUME m + 1 <= N
                 PROVE  Good(m + 1)
      OBVIOUS
    <2>1. PICK f \in [0..m -> X] :
             f[0] = x0 /\ \A k \in 1..m : f[k] = turn[<<f[k - 1], k>>]
      BY <1>2
    <2> DEFINE h == [k \in 0..(m + 1) |->
                        IF k <= m THEN f[k] ELSE turn[<<f[m], m + 1>>]]
    <2>2. f[m] \in X /\ m + 1 \in 1..N
      OBVIOUS
    <2>3. turn[<<f[m], m + 1>>] \in X
      BY <2>2
    <2>4. h \in [0..(m + 1) -> X]
      BY <2>3
    <2>5. h[0] = x0
      BY <2>1
    <2>6. ASSUME NEW k \in 1..(m + 1)
          PROVE  h[k] = turn[<<h[k - 1], k>>]
      <3>1. CASE k <= m
        <4>1. h[k] = f[k] /\ h[k - 1] = f[k - 1]
          BY <3>1
        <4> QED
          BY <2>1, <3>1, <4>1
      <3>2. CASE k = m + 1
        <4>1. h[k] = turn[<<f[m], m + 1>>] /\ h[k - 1] = f[m]
          BY <3>2
        <4> QED
          BY <3>2, <4>1
      <3> QED
        BY <3>1, <3>2
    <2> HIDE DEF h
    <2> QED
      BY <2>4, <2>5, <2>6
  <1>3. N \in S
    <2> HIDE DEF S
    <2> QED
      BY <1>1, <1>2, Induction
  <1> QED
    BY <1>3 DEF Loops

\* What holds before the first turn and is kept by each holds after all.
LEMMA LoopKeeps ==
    ASSUME NEW N \in Nat, NEW X, NEW f, f[0] \in X,
           \A k \in 1..N : f[k - 1] \in X => f[k] \in X
    PROVE  \A k \in 0..N : f[k] \in X
  <1> DEFINE S == {k \in Nat : k <= N => f[k] \in X}
  <1>1. 0 \in S
    OBVIOUS
  <1>2. ASSUME NEW k \in Nat, k \in S
        PROVE  k + 1 \in S
    <2>1. CASE k + 1 <= N
      <3>1. k + 1 \in 1..N /\ (k + 1) - 1 = k /\ f[k] \in X
        BY <1>2, <2>1
      <3>2. f[k + 1] \in X
        BY <3>1
      <3> QED
        BY <3>2
    <2>2. CASE ~(k + 1 <= N)
      BY <2>2
    <2> QED
      BY <2>1, <2>2
  <1>3. Nat \subseteq S
    <2> HIDE DEF S
    <2> QED
      BY <1>1, <1>2, Induction
  <1> QED
    BY <1>3

-----------------------------------------------------------------------------
(* The order of the heap. *)

LEMMA ItemValues == \A i \in QItems : priority(i) \in 1..4 /\ createdAt(i) \in Nat
  <1>1. \A p : priorityToInt(p) \in 1..4
    BY DEF priorityToInt
  <1>2. \A i \in QItems : QTask[i] \in QTasks /\ QCreated[QTask[i]] \in Nat
    BY QueueAssumptions
  <1> QED
    BY <1>1, <1>2 DEF priority, createdAt

LEMMA LessOrder ==
    ASSUME NEW t \in QItems, NEW u \in QItems, NEW v \in QItems
    PROVE  /\ ~Less(t, t)
           /\ Less(t, u) => ~Less(u, t)
           /\ ~Less(t, u) /\ ~Less(u, v) => ~Less(t, v)
  BY ItemValues DEF Less

\* The items of the first n positions are in heap order but for the position i
\* itself; its children are in order with its parent.
InOrder(h, c) == ~Less(h[c], h[c \div 2])

OrderedBut(h, n, i) ==
    /\ \A c \in 2..n : c # i => InOrder(h, c)
    /\ \A c \in 2..n : c \div 2 = i /\ i > 1 => ~Less(h[c], h[i \div 2])

Ordered(h, n) == \A c \in 2..n : InOrder(h, c)

LEMMA Halves ==
    ASSUME NEW c \in Nat, c >= 2
    PROVE  /\ c \div 2 \in 1..(c - 1)
           /\ c = 2 * (c \div 2) \/ c = 2 * (c \div 2) + 1
  OBVIOUS

\* h holds, in its first L positions, the items R, each once.
Holds(h, L, R) ==
    /\ h \in [1..L -> QItems]
    /\ \A i, j \in 1..L : h[i] = h[j] => i = j
    /\ {h[i] : i \in 1..L} = R

LEMMA SwapHolds ==
    ASSUME NEW L \in Nat, NEW R, NEW h, Holds(h, L, R),
           NEW i \in 1..L, NEW j \in 1..L
    PROVE  /\ Holds(Swap(h, i, j), L, R)
           /\ Swap(h, i, j)[i] = h[j]
           /\ Swap(h, i, j)[j] = h[i]
           /\ \A k \in 1..L : k # i /\ k # j => Swap(h, i, j)[k] = h[k]
  <1> DEFINE g == Swap(h, i, j)
  <1>1. /\ h \in [1..L -> QItems]
        /\ \A k, l \in 1..L : h[k] = h[l] => k = l
        /\ {h[k] : k \in 1..L} = R
    BY DEF Holds
  <1>2. g = [k \in 1..L |-> IF k = j THEN h[i]
                           ELSE IF k = i THEN h[j] ELSE h[k]]
    BY <1>1 DEF Swap
  <1> HIDE DEF g
  <1>3. /\ g \in [1..L -> QItems]
        /\ g[j] = h[i] /\ g[i] = h[j]
        /\ \A k \in 1..L : k # i /\ k # j => g[k] = h[k]
    BY <1>1, <1>2
  <1>4. ASSUME NEW k \in 1..L, NEW l \in 1..L, g[k] = g[l]
        PROVE  k = l
    BY <1>1, <1>3, <1>4
  <1>5. {g[k] : k \in 1..L} = R
    <2>1. ASSUME NEW k \in 1..L
          PROVE  g[k] \in R
      BY <1>1, <1>3
    <2>2. ASSUME NEW t \in R
          PROVE  \E k \in 1..L : g[k] = t
      BY <1>1, <1>3
    <2> QED
      BY <2>1, <2>2
  <1> QED
    BY <1>3, <1>4, <1>5 DEF g, Holds

-----------------------------------------------------------------------------
(* up *)

\* A turn of up finds the heap in order, or moves the item up.
Risen(h, n, j, L, R) ==
    \/ Rise(At(h, j)) = At(h, j) /\ Ordered(h, n)
    \/ \E g, i : /\ Rise(At(h, j)) = At(g, i)
                /\ i \in 1..(j - 1)
                /\ Holds(g, L, R)
                /\ OrderedBut(g, n, i)
                /\ \A k \in (n + 1)..L : g[k] = h[k]

LEMMA RiseTurn ==
    ASSUME NEW L \in Nat, NEW R, NEW h, Holds(h, L, R),
           NEW n \in 1..L, NEW j \in 1..n, OrderedBut(h, n, j)
    PROVE  Risen(h, n, j, L, R)
  <1> DEFINE i == j \div 2
             g == Swap(h, i, j)
  <1>1. At(h, j).items = h /\ At(h, j).at = j
    BY DEF At
  <1>2. h \in [1..L -> QItems]
    BY DEF Holds
  <1>3. CASE j = 1 \/ ~Less(h[j], h[i])
    <2>1. Rise(At(h, j)) = At(h, j)
      BY <1>1, <1>3 DEF Rise
    <2>2. Ordered(h, n)
      BY <1>3 DEF Ordered, OrderedBut, InOrder
    <2> QED
      BY <2>1, <2>2 DEF Risen
  <1>4. CASE j # 1 /\ Less(h[j], h[i])
    <2>1. i \in 1..(j - 1) /\ i \in 1..L /\ j \in 1..L
      BY <1>4, Halves
    <2>2. Rise(At(h, j)) = At(g, i)
      BY <1>1, <1>4 DEF Rise
    <2>3. /\ Holds(g, L, R)
          /\ g[i] = h[j] /\ g[j] = h[i]
          /\ \A k \in 1..L : k # i /\ k # j => g[k] = h[k]
      <3> HIDE DEF i
      <3> QED
        BY <2>1, SwapHolds
    <2> HIDE DEF g
    <2>4. ASSUME NEW c \in 2..n, c # i
          PROVE  InOrder(g, c)
      <3> DEFINE p == c \div 2
      <3>1. p \in 1..(c - 1) /\ p \in 1..L /\ c \in 1..L
        BY Halves
      <3>2. /\ h[c] \in QItems /\ h[p] \in QItems
            /\ h[i] \in QItems /\ h[j] \in QItems
        BY <1>2, <2>1, <3>1
      <3> HIDE DEF p
      <3>3. CASE c = j
        <4>1. p = i
          BY <3>3 DEF p
        <4>2. g[c] = h[i] /\ g[p] = h[j]
          BY <2>3, <3>3, <4>1
        <4> QED
          BY <1>4, <3>2, <4>2, LessOrder DEF InOrder, p
      <3>4. CASE c # j /\ p = i
        <4>1. g[c] = h[c] /\ g[p] = h[j]
          BY <2>3, <2>4, <3>1, <3>4
        <4>2. ~Less(h[c], h[i])
          BY <3>4 DEF OrderedBut, InOrder, p
        <4>3. ~Less(h[i], h[j])
          BY <1>4, <3>2, LessOrder
        <4> QED
          BY <3>2, <4>1, <4>2, <4>3, LessOrder DEF InOrder, p
      <3>5. CASE c # j /\ p = j
        <4>1. g[c] = h[c] /\ g[p] = h[i]
          BY <2>3, <2>4, <3>1, <3>5
        <4>2. ~Less(h[c], h[i])
          BY <1>4, <3>5 DEF OrderedBut, p
        <4> QED
          BY <4>1, <4>2 DEF InOrder, p
      <3>6. CASE c # j /\ p # i /\ p # j
        <4>1. g[c] = h[c] /\ g[p] = h[p]
          BY <2>3, <2>4, <3>1, <3>6
        <4>2. ~Less(h[c], h[p])
          BY <3>6 DEF OrderedBut, InOrder, p
        <4> QED
          BY <4>1, <4>2 DEF InOrder, p
      <3> QED
        BY <3>3, <3>4, <3>5, <3>6
    <2>5. ASSUME NEW c \in 2..n, c \div 2 = i, i > 1
          PROVE  ~Less(g[c], g[i \div 2])
      <3> DEFINE k == i \div 2
      <3>1. k \in 1..(i - 1) /\ i < c /\ c \in 1..L /\ k \in 1..L /\ i \in 2..n
        BY <2>1, <2>5, Halves
      <3>2. h[c] \in QItems /\ h[k] \in QItems /\ h[i] \in QItems
        BY <1>2, <2>1, <3>1
      <3>3. ~Less(h[i], h[k])
        BY <2>1, <3>1 DEF OrderedBut, InOrder
      <3>4. g[k] = h[k]
        BY <2>1, <2>3, <3>1
      <3>5. CASE c = j
        BY <2>3, <3>3, <3>4, <3>5
      <3>6. CASE c # j
        <4>1. g[c] = h[c]
          BY <2>3, <3>1, <3>6
        <4>2. ~Less(h[c], h[i])
          BY <2>5, <3>6 DEF OrderedBut, InOrder
        <4> QED
          BY <3>2, <3>3, <3>4, <4>1, <4>2, LessOrder
      <3> QED
        BY <3>5, <3>6
    <2>6. OrderedBut(g, n, i)
      BY <2>4, <2>5 DEF OrderedBut
    <2>7. \A k \in (n + 1)..L : g[k] = h[k]
      BY <2>1, <2>3
    <2> QED
      <3> HIDE DEF i
      <3> QED
        BY <2>1, <2>2, <2>3, <2>6, <2>7 DEF Risen
  <1> QED
    BY <1>3, <1>4

\* A heap whose last item may be too low, and what up makes of it.
LEMMA UpHolds ==
    ASSUME NEW L \in Nat, NEW R, NEW h, Holds(h, L, R),
           NEW n \in 1..L, NEW k \in 1..n, OrderedBut(h, n, k)
    PROVE  \E g : /\ HeapUp(h, k).items = g
                  /\ Holds(g, L, R)
                  /\ Ordered(g, n)
                  /\ \A x \in (n + 1)..L : g[x] = h[x]
  <1> DEFINE Good(g, j) == /\ Holds(g, L, R)
                           /\ OrderedBut(g, n, j)
                           /\ \A x \in (n + 1)..L : g[x] = h[x]
             X == {s \in [items : [1..L -> QItems], at : 1..n] :
                      Good(s.items, s.at)}
             turn == [p \in X \X (1..k) |-> Rise(p[1])]
             Turn(f, m) == IF m = 0 THEN At(h, k) ELSE Rise(f[m - 1])
             up == CHOOSE f : f = [m \in 0..k |-> Turn(f, m)]
  <1>1. HeapUp(h, k) = up[k]
    BY Zenon DEF HeapUp
  <1>2. k \in Nat /\ k \in 1..k
    OBVIOUS
  <1>3. \A s \in X : s = At(s.items, s.at)
    BY DEF At
  <1>4. ASSUME NEW g, NEW j \in 1..n, Good(g, j)
        PROVE  At(g, j) \in X /\ At(g, j).items = g /\ At(g, j).at = j
    BY <1>4 DEF At, Holds
  <1>5. ASSUME NEW s \in X
        PROVE  /\ Rise(s) \in X
               /\ Rise(s) # s => Rise(s).at < s.at
               /\ Rise(s) = s => Ordered(s.items, n)
    <2>1. PICK g \in [1..L -> QItems], j \in 1..n :
              s = At(g, j) /\ g = s.items /\ j = s.at /\ Good(g, j)
      BY <1>3
    <2> HIDE DEF X
    <2>2. Risen(g, n, j, L, R)
      <3>1. Holds(g, L, R) /\ OrderedBut(g, n, j)
        BY <2>1
      <3> QED
        BY <3>1, RiseTurn
    <2>3. CASE Rise(s) = s /\ Ordered(g, n)
      BY <2>1, <2>3
    <2>4. ASSUME NEW g2, NEW i,
                 Rise(s) = At(g2, i), i \in 1..(j - 1),
                 Holds(g2, L, R), OrderedBut(g2, n, i),
                 \A x \in (n + 1)..L : g2[x] = g[x]
          PROVE  Rise(s) \in X /\ Rise(s).at < s.at
      <3>1. i \in 1..n /\ i < j
        BY <2>4
      <3>2. Good(g2, i)
        BY <2>1, <2>4
      <3> QED
        BY <1>4, <2>1, <2>4, <3>1, <3>2
    <2> HIDE DEF Good
    <2> QED
      BY <2>1, <2>2, <2>3, <2>4 DEF Risen
  <1>6. At(h, k) \in X /\ At(h, k).at = k
    BY <1>4
  <1>7. turn \in Turns(X, k)
    <2> HIDE DEF X
    <2> QED
      BY <1>5 DEF Turns
  <1>8. PICK f \in Loops(X, k, At(h, k), turn) : TRUE
    <2> HIDE DEF X, turn
    <2> QED
      BY <1>2, <1>6, <1>7, LoopExists
  <1>9. /\ f \in [0..k -> X]
        /\ f[0] = At(h, k)
        /\ \A m \in 1..k : f[m] = Rise(f[m - 1])
    <2> HIDE DEF X
    <2>1. f \in [0..k -> X] /\ f[0] = At(h, k)
      BY <1>8 DEF Loops
    <2>2. ASSUME NEW m \in 1..k
          PROVE  f[m] = Rise(f[m - 1])
      <3>1. f[m - 1] \in X
        BY <1>2, <2>1
      <3>2. f[m] = turn[<<f[m - 1], m>>]
        BY <1>8 DEF Loops
      <3> QED
        BY <3>1, <3>2
    <2> QED
      BY <2>1, <2>2
  <1> HIDE DEF X
  <1>10. f = [m \in 0..k |-> Turn(f, m)]
    <2>1. ASSUME NEW m \in 0..k
          PROVE  f[m] = Turn(f, m)
      BY <1>9
    <2> HIDE DEF Turn
    <2> QED
      BY <1>9, <2>1
  <1>11. up = [m \in 0..k |-> Turn(up, m)]
    <2> HIDE DEF Turn
    <2> QED
      BY <1>10, Zenon
  <1> HIDE DEF up
  <1>12. up[0] = At(h, k) /\ \A m \in 1..k : up[m] = Rise(up[m - 1])
    <2>1. ASSUME NEW m \in 0..k
          PROVE  up[m] = Turn(up, m)
      <3> HIDE DEF Turn
      <3> QED
        BY <1>11, Zenon
    <2> QED
      BY <1>2, <2>1
  <1> DEFINE Z == {m \in 0..k : /\ up[m] \in X
                                /\ Rise(up[m]) = up[m] \/ up[m].at <= k - m}
             S == {m \in Nat : m <= k => m \in Z}
  <1>13. 0 \in S
    BY <1>6, <1>12
  <1>14. ASSUME NEW m \in Nat, m \in S
         PROVE  m + 1 \in S
    <2> SUFFICES ASSUME m + 1 <= k
                 PROVE  m + 1 \in Z
      OBVIOUS
    <2>1. /\ up[m] \in X
          /\ Rise(up[m]) = up[m] \/ up[m].at <= k - m
          /\ m + 1 \in 1..k /\ (m + 1) - 1 = m
      BY <1>14
    <2>2. up[m + 1] = Rise(up[m])
      BY <1>12, <2>1
    <2>3. /\ Rise(up[m]) \in X
          /\ up[m].at \in Nat /\ Rise(up[m]).at \in Nat
      <3>1. \A s \in X : s.at \in Nat
        BY DEF X
      <3> QED
        BY <1>5, <2>1, <3>1
    <2>4. CASE Rise(up[m]) = up[m]
      BY <2>1, <2>2, <2>3, <2>4
    <2>5. CASE Rise(up[m]) # up[m]
      <3>1. Rise(up[m]).at < up[m].at /\ up[m].at <= k - m
        BY <1>5, <2>1, <2>5
      <3>2. Rise(up[m]).at <= k - (m + 1)
        BY <2>3, <3>1
      <3> QED
        BY <2>1, <2>2, <2>3, <3>2
    <2> QED
      BY <2>4, <2>5
  <1>15. k \in Z
    <2> HIDE DEF Z
    <2>1. Nat \subseteq S
      <3> HIDE DEF S
      <3> QED
        BY <1>13, <1>14, Induction
    <2> QED
      BY <1>2, <2>1
  <1>16. up[k] \in X /\ Rise(up[k]) = up[k]
    BY <1>2, <1>15 DEF X
  <1>17. Ordered(up[k].items, n)
    BY <1>5, <1>16
  <1> QED
    BY <1>1, <1>16, <1>17 DEF X

-----------------------------------------------------------------------------
(* down *)

\* On the way down from i to p only p and its children may be out of order, the
\* children in order with p's parent, and p itself out of order only at i.
Falling(h, n, i, p) ==
    /\ \A c \in 2..n : c # p /\ c \div 2 # p => InOrder(h, c)
    /\ \A c \in 2..n : c \div 2 = p /\ p > 1 => ~Less(h[c], h[p \div 2])
    /\ p # i => InOrder(h, p)

\* A turn of down finds nothing below to swap with, or moves the item down.
Sunk(h, n, i, p, L, R) ==
    \/ Sink(At(h, p), n) = At(h, p) /\ OrderedBut(h, n, p)
    \/ \E g, j : /\ Sink(At(h, p), n) = At(g, j)
                /\ j \in (p + 1)..n
                /\ Holds(g, L, R)
                /\ Falling(g, n, i, j)
                /\ \A x \in (n + 1)..L : g[x] = h[x]

LEMMA SinkTurn ==
    ASSUME NEW L \in Nat, NEW R, NEW h, Holds(h, L, R), NEW n \in 1..L,
           NEW i \in 1..n, NEW p \in i..n, Falling(h, n, i, p)
    PROVE  Sunk(h, n, i, p, L, R)
  <1> DEFINE left == 2 * p
             j == IF left < n /\ Less(h[left + 1], h[left])
                  THEN left + 1 ELSE left
             g == Swap(h, p, j)
  <1>1. At(h, p).items = h /\ At(h, p).at = p
    BY DEF At
  <1>2. h \in [1..L -> QItems] /\ p \in 1..n /\ p \in 1..L
    BY DEF Holds
  <1>3. ASSUME NEW c \in 2..n, c \div 2 = p
        PROVE  /\ left <= n /\ j \in (p + 1)..n /\ j \div 2 = p /\ c > p
               /\ ~Less(h[c], h[j])
    <2>1. c = left \/ c = left + 1
      BY <1>3, Halves
    <2>2. h[left] \in QItems /\ (left < n => h[left + 1] \in QItems)
      BY <1>2, <2>1
    <2> HIDE DEF left
    <2>3. ~Less(h[c], h[j])
      <3>1. CASE left < n /\ Less(h[left + 1], h[left])
        <4>1. j = left + 1 /\ h[c] \in QItems /\ h[left + 1] \in QItems
          BY <2>1, <2>2, <3>1
        <4> HIDE DEF j
        <4> QED
          BY <2>1, <2>2, <3>1, <4>1, LessOrder
      <3>2. CASE ~(left < n /\ Less(h[left + 1], h[left]))
        <4>1. j = left
          BY <3>2
        <4>2. c = left \/ left < n
          <5>1. left \in Nat /\ c \in Nat /\ n \in Nat /\ c <= n
            BY <1>2 DEF left
          <5> QED
            BY <2>1, <5>1
        <4> HIDE DEF j
        <4>3. ~Less(h[left], h[left])
          BY <2>2, LessOrder
        <4> QED
          BY <2>1, <3>2, <4>1, <4>2, <4>3
      <3> QED
        BY <3>1, <3>2
    <2> USE DEF left
    <2>4. left <= n /\ j \in (p + 1)..n /\ j \div 2 = p /\ c > p
      BY <1>2, <2>1
    <2> QED
      BY <2>3, <2>4
  <1>4. CASE left > n \/ ~Less(h[j], h[p])
    <2>1. Sink(At(h, p), n) = At(h, p)
      BY <1>1, <1>4 DEF Sink
    <2>2. ASSUME NEW c \in 2..n, c # p
          PROVE  InOrder(h, c)
      <3>1. CASE c \div 2 = p
        <4>1. ~Less(h[c], h[j]) /\ ~Less(h[j], h[p]) /\ j \in 1..L /\ c \in 1..L
          BY <1>3, <1>4, <3>1
        <4> HIDE DEF j
        <4>2. h[c] \in QItems /\ h[j] \in QItems /\ h[p] \in QItems
          BY <1>2, <4>1
        <4> QED
          BY <3>1, <4>1, <4>2, LessOrder DEF InOrder
      <3>2. CASE c \div 2 # p
        BY <2>2, <3>2 DEF Falling
      <3> QED
        BY <3>1, <3>2
    <2>3. OrderedBut(h, n, p)
      BY <2>2 DEF OrderedBut, Falling
    <2> QED
      BY <2>1, <2>3 DEF Sunk
  <1>5. CASE ~(left > n) /\ Less(h[j], h[p])
    <2>1. /\ left \in 2..n /\ left \div 2 = p
          /\ j \in (p + 1)..n /\ j \in 2..n /\ j \in 1..L /\ j \div 2 = p
      BY <1>2, <1>5
    <2>2. Sink(At(h, p), n) = At(g, j)
      BY <1>1, <1>5 DEF Sink
    <2> HIDE DEF left, j
    <2>3. /\ Holds(g, L, R)
          /\ g[p] = h[j] /\ g[j] = h[p]
          /\ \A k \in 1..L : k # p /\ k # j => g[k] = h[k]
      <3>1. p \in 1..L /\ j \in 1..L
        BY <1>2, <2>1
      <3> QED
        BY <3>1, SwapHolds
    <2> HIDE DEF g
    <2>4. h[p] \in QItems /\ h[j] \in QItems
      BY <1>2, <2>1
    <2>5. ASSUME NEW c \in 2..n, c # j, c \div 2 # j
          PROVE  InOrder(g, c)
      <3> DEFINE q == c \div 2
      <3>1. q \in 1..(c - 1) /\ q \in 1..L /\ c \in 1..L
        BY Halves
      <3> HIDE DEF q
      <3>2. CASE c = p
        <4>1. ~Less(h[j], h[q])
          BY <2>1, <3>2 DEF Falling, q
        <4>2. g[c] = h[j] /\ g[q] = h[q]
          BY <2>1, <2>3, <3>1, <3>2
        <4> QED
          BY <4>1, <4>2 DEF InOrder, q
      <3>3. CASE c # p /\ q = p
        <4>1. ~Less(h[c], h[j])
          BY <1>3, <3>3 DEF q
        <4>2. g[c] = h[c] /\ g[q] = h[j]
          BY <2>3, <2>5, <3>1, <3>3
        <4> QED
          BY <4>1, <4>2 DEF InOrder, q
      <3>4. CASE c # p /\ q # p
        <4>1. ~Less(h[c], h[q])
          BY <3>4 DEF Falling, InOrder, q
        <4>2. g[c] = h[c] /\ g[q] = h[q]
          <5>1. q # j
            BY <2>5 DEF q
          <5> QED
            BY <2>3, <2>5, <3>1, <3>4, <5>1
        <4> QED
          BY <4>1, <4>2 DEF InOrder, q
      <3> QED
        BY <3>2, <3>3, <3>4
    <2>6. ASSUME NEW c \in 2..n, c \div 2 = j
          PROVE  ~Less(g[c], g[j \div 2])
      <3>1. c > j /\ c \in 1..L
        BY <2>6, Halves
      <3>2. ~Less(h[c], h[j])
        BY <2>1, <2>6, <3>1 DEF Falling, InOrder
      <3>3. g[c] = h[c]
        BY <2>1, <2>3, <3>1
      <3> QED
        BY <2>1, <2>3, <3>2, <3>3
    <2>7. InOrder(g, j)
      BY <1>5, <2>1, <2>3, <2>4, LessOrder DEF InOrder
    <2>8. Falling(g, n, i, j)
      BY <2>5, <2>6, <2>7 DEF Falling
    <2>9. \A x \in (n + 1)..L : g[x] = h[x]
      BY <1>2, <2>1, <2>3
    <2> QED
      BY <2>1, <2>2, <2>3, <2>8, <2>9 DEF Sunk
  <1> QED
    BY <1>4, <1>5

LEMMA DownHolds ==
    ASSUME NEW L \in Nat, NEW R, NEW h, Holds(h, L, R), NEW n \in 1..L,
           NEW k \in 1..n, Falling(h, n, k, k)
    PROVE  \E g, j : /\ HeapDown(h, k, n) = At(g, j)
                     /\ Holds(g, L, R)
                     /\ \A x \in (n + 1)..L : g[x] = h[x]
                     /\ j = k => g = h /\ OrderedBut(g, n, k)
                     /\ j # k => Ordered(g, n)
  <1> DEFINE Good(g, j) == /\ Holds(g, L, R)
                           /\ Falling(g, n, k, j)
                           /\ \A x \in (n + 1)..L : g[x] = h[x]
                           /\ j = k => g = h
             X == {s \in [items : [1..L -> QItems], at : k..n] :
                      Good(s.items, s.at)}
             turn == [p \in X \X (1..n) |-> Sink(p[1], n)]
             Turn(f, m) == IF m = 0 THEN At(h, k) ELSE Sink(f[m - 1], n)
             down == CHOOSE f : f = [m \in 0..n |-> Turn(f, m)]
  <1>1. HeapDown(h, k, n) = down[n]
    BY Zenon DEF HeapDown
  <1>2. n \in Nat /\ n \in 1..n /\ k \in k..n
    OBVIOUS
  <1>3. \A s \in X : s = At(s.items, s.at)
    BY DEF At
  <1>4. ASSUME NEW g, NEW j \in k..n, Good(g, j)
        PROVE  At(g, j) \in X /\ At(g, j).items = g /\ At(g, j).at = j
    BY <1>4 DEF At, Holds
  <1>5. ASSUME NEW s \in X
        PROVE  /\ Sink(s, n) \in X
               /\ Sink(s, n) # s => Sink(s, n).at > s.at
               /\ Sink(s, n) = s => OrderedBut(s.items, n, s.at)
    <2>1. PICK g \in [1..L -> QItems], j \in k..n :
              s = At(g, j) /\ g = s.items /\ j = s.at /\ Good(g, j)
      BY <1>3
    <2> HIDE DEF X
    <2>2. Sunk(g, n, k, j, L, R)
      <3>1. Holds(g, L, R) /\ Falling(g, n, k, j)
        BY <2>1
      <3> QED
        BY <3>1, SinkTurn
    <2>3. CASE Sink(s, n) = s /\ OrderedBut(g, n, j)
      BY <2>1, <2>3
    <2>4. ASSUME NEW g2, NEW i,
                 Sink(s, n) = At(g2, i), i \in (j + 1)..n,
                 Holds(g2, L, R), Falling(g2, n, k, i),
                 \A x \in (n + 1)..L : g2[x] = g[x]
          PROVE  Sink(s, n) \in X /\ Sink(s, n).at > s.at
      <3>1. i \in k..n /\ i > j /\ i # k
        BY <2>4
      <3>2. Good(g2, i)
        BY <2>1, <2>4, <3>1
      <3> QED
        BY <1>4, <2>1, <2>4, <3>1, <3>2
    <2> HIDE DEF Good
    <2> QED
      BY <2>1, <2>2, <2>3, <2>4 DEF Sunk
  <1>6. At(h, k) \in X /\ At(h, k).at = k
    BY <1>4
  <1>7. turn \in Turns(X, n)
    <2> HIDE DEF X
    <2> QED
      BY <1>5 DEF Turns
  <1>8. PICK f \in Loops(X, n, At(h, k), turn) : TRUE
    <2> HIDE DEF X, turn
    <2> QED
      BY <1>2, <1>6, <1>7, LoopExists
  <1>9. /\ f \in [0..n -> X]
        /\ f[0] = At(h, k)
        /\ \A m \in 1..n : f[m] = Sink(f[m - 1], n)
    <2> HIDE DEF X
    <2>1. f \in [0..n -> X] /\ f[0] = At(h, k)
      BY <1>8 DEF Loops
    <2>2. ASSUME NEW m \in 1..n
          PROVE  f[m] = Sink(f[m - 1], n)
      <3>1. f[m - 1] \in X
        BY <1>2, <2>1
      <3>2. f[m] = turn[<<f[m - 1], m>>]
        BY <1>8 DEF Loops
      <3> QED
        BY <3>1, <3>2
    <2> QED
      BY <2>1, <2>2
  <1> HIDE DEF X
  <1>10. f = [m \in 0..n |-> Turn(f, m)]
    <2>1. ASSUME NEW m \in 0..n
          PROVE  f[m] = Turn(f, m)
      BY <1>9
    <2> HIDE DEF Turn
    <2> QED
      BY <1>9, <2>1
  <1>11. down = [m \in 0..n |-> Turn(down, m)]
    <2> HIDE DEF Turn
    <2> QED
      BY <1>10, Zenon
  <1> HIDE DEF down
  <1>12. down[0] = At(h, k) /\ \A m \in 1..n : down[m] = Sink(down[m - 1], n)
    <2>1. ASSUME NEW m \in 0..n
          PROVE  down[m] = Turn(down, m)
      <3> HIDE DEF Turn
      <3> QED
        BY <1>11, Zenon
    <2> QED
      BY <1>2, <2>1
  <1> DEFINE Z == {m \in 0..n : /\ down[m] \in X
                                /\ \/ Sink(down[m], n) = down[m]
                                   \/ down[m].at > m}
             S == {m \in Nat : m <= n => m \in Z}
  <1>13. 0 \in S
    BY <1>6, <1>12
  <1>14. ASSUME NEW m \in Nat, m \in S
         PROVE  m + 1 \in S
    <2> SUFFICES ASSUME m + 1 <= n
                 PROVE  m + 1 \in Z
      OBVIOUS
    <2>1. /\ down[m] \in X
          /\ Sink(down[m], n) = down[m] \/ down[m].at > m
          /\ m + 1 \in 1..n /\ (m + 1) - 1 = m
      BY <1>14
    <2>2. down[m + 1] = Sink(down[m], n)
      BY <1>12, <2>1
    <2>3. /\ Sink(down[m], n) \in X
          /\ down[m].at \in Nat /\ Sink(down[m], n).at \in Nat
      <3>1. \A s \in X : s.at \in Nat
        BY DEF X
      <3> QED
        BY <1>5, <2>1, <3>1
    <2>4. CASE Sink(down[m], n) = down[m]
      BY <2>1, <2>2, <2>3, <2>4
    <2>5. CASE Sink(down[m], n) # down[m]
      <3>1. Sink(down[m], n).at > down[m].at /\ down[m].at > m
        BY <1>5, <2>1, <2>5
      <3>2. Sink(down[m], n).at > m + 1
        BY <2>3, <3>1
      <3> QED
        BY <2>1, <2>2, <2>3, <3>2
    <2> QED
      BY <2>4, <2>5
  <1>15. n \in Z
    <2> HIDE DEF Z
    <2>1. Nat \subseteq S
      <3> HIDE DEF S
      <3> QED
        BY <1>13, <1>14, Induction
    <2> QED
      BY <1>2, <2>1
  <1>16. down[n] \in X /\ Sink(down[n], n) = down[n]
    BY <1>2, <1>15 DEF X
  <1>17. PICK g, j : /\ down[n] = At(g, j) /\ Good(g, j)
                     /\ j \in k..n /\ OrderedBut(g, n, j)
    <2>1. OrderedBut(down[n].items, n, down[n].at)
      BY <1>5, <1>16
    <2>2. down[n] = At(down[n].items, down[n].at)
      BY <1>3, <1>16
    <2>3. Good(down[n].items, down[n].at) /\ down[n].at \in k..n
      BY <1>16 DEF X
    <2> HIDE DEF Good
    <2> QED
      BY <2>1, <2>2, <2>3
  <1>18. j # k => Ordered(g, n)
    BY <1>17 DEF Falling, OrderedBut, Ordered
  <1> QED
    BY <1>1, <1>17, <1>18

-----------------------------------------------------------------------------
(* Pushing and removing. *)

LEMMA HeldLen ==
    ASSUME NEW L \in Nat, NEW R, NEW h, Holds(h, L, R)
    PROVE  h \in Seq(QItems) /\ Len(h) = L
  BY DEF Holds

LEMMA PushHolds ==
    ASSUME NEW L \in Nat, NEW R, NEW h, Holds(h, L, R), Ordered(h, L),
           NEW t \in QItems, t \notin R
    PROVE  /\ Holds(HeapPush(h, t), L + 1, R \cup {t})
           /\ Ordered(HeapPush(h, t), L + 1)
  <1> DEFINE d == Append(h, t)
             M == L + 1
             T == R \cup {t}
  <1>1. h \in Seq(QItems) /\ Len(h) = L
    BY HeldLen
  <1>2. /\ d \in [1..M -> QItems]
        /\ \A i \in 1..L : d[i] = h[i]
        /\ d[M] = t
    <2>1. d \in Seq(QItems) /\ Len(d) = M
      BY <1>1
    <2>2. \A i \in 1..L : d[i] = h[i]
      BY <1>1
    <2>3. d[M] = t
      BY <1>1
    <2> HIDE DEF d
    <2>4. d \in [1..M -> QItems]
      BY <2>1
    <2> QED
      BY <2>2, <2>3, <2>4
  <1>3. HeapPush(h, t) = HeapUp(d, M).items
    BY <1>1 DEF HeapPush
  <1>4. M \in Nat /\ M \in 1..M
    OBVIOUS
  <1> HIDE DEF d
  <1>5. Holds(d, M, T)
    <2>1. /\ \A i, j \in 1..L : h[i] = h[j] => i = j
          /\ {h[i] : i \in 1..L} = R
      BY DEF Holds
    <2>2. \A i \in 1..M : i = M \/ i \in 1..L
      OBVIOUS
    <2>3. ASSUME NEW i \in 1..M, NEW j \in 1..M, d[i] = d[j]
          PROVE  i = j
      <3>1. \A k \in 1..L : d[k] \in R
        BY <1>2, <2>1
      <3> HIDE DEF M
      <3> QED
        BY <1>2, <2>1, <2>2, <2>3, <3>1
    <2>4. {d[i] : i \in 1..M} = T
      <3>1. \A i \in 1..M : d[i] \in T
        <4> HIDE DEF M
        <4> QED
          BY <1>2, <2>1, <2>2
      <3>2. ASSUME NEW u \in T
            PROVE  \E i \in 1..M : d[i] = u
        <4>1. CASE u = t
          BY <1>2, <1>4, <4>1
        <4>2. CASE u # t
          <5>1. PICK i \in 1..L : h[i] = u
            BY <2>1, <4>2
          <5> QED
            BY <1>2, <5>1
        <4> QED
          BY <4>1, <4>2
      <3> QED
        BY <3>1, <3>2
    <2> QED
      BY <1>2, <2>3, <2>4 DEF Holds
  <1>6. OrderedBut(d, M, M)
    <2>1. ASSUME NEW c \in 2..M, c # M
          PROVE  InOrder(d, c)
      <3>1. c \in 2..L /\ c \div 2 \in 1..L /\ c \in 1..L
        BY <2>1, Halves
      <3> QED
        BY <1>2, <3>1 DEF Ordered, InOrder
    <2>2. ASSUME NEW c \in 2..M
          PROVE  c \div 2 # M
      BY Halves
    <2> QED
      BY <2>1, <2>2 DEF OrderedBut
  <1>7. PICK g : HeapUp(d, M).items = g /\ Holds(g, M, T) /\ Ordered(g, M)
    <2> HIDE DEF M, T
    <2> QED
      BY <1>4, <1>5, <1>6, UpHolds
  <1> QED
    BY <1>3, <1>7

LEMMA FrontHolds ==
    ASSUME NEW n \in Nat, NEW R, NEW h, Holds(h, n + 1, R), Ordered(h, n)
    PROVE  /\ Holds(Front(h), n, R \ {h[n + 1]})
           /\ Ordered(Front(h), n)
  <1> DEFINE f == Front(h)
             T == R \ {h[n + 1]}
  <1>1. h \in Seq(QItems) /\ Len(h) = n + 1
    <2> DEFINE M == n + 1
    <2>1. M \in Nat /\ Holds(h, M, R)
      OBVIOUS
    <2> HIDE DEF M
    <2>2. h \in Seq(QItems) /\ Len(h) = M
      BY <2>1, HeldLen
    <2> QED
      BY <2>2 DEF M
  <1>2. /\ h \in [1..(n + 1) -> QItems]
        /\ \A i, j \in 1..(n + 1) : h[i] = h[j] => i = j
        /\ {h[i] : i \in 1..(n + 1)} = R
    BY DEF Holds
  <1>3. f \in [1..n -> QItems] /\ \A i \in 1..n : f[i] = h[i]
    <2>1. f = SubSeq(h, 1, n)
      BY <1>1 DEF Front
    <2>2. h \in Seq(QItems) /\ 1 \in 1..(n + 1) /\ n \in 0..(n + 1)
      BY <1>1
    <2>3. f = [i \in 1..n |-> h[i]]
      BY <1>1, <2>1, <2>2
    <2>4. \A i \in 1..n : i \in 1..(n + 1)
      OBVIOUS
    <2> HIDE DEF f
    <2> QED
      BY <1>2, <2>3, <2>4
  <1> HIDE DEF f
  <1>4. Holds(f, n, T)
    <2>1. ASSUME NEW i \in 1..n, NEW j \in 1..n, f[i] = f[j]
          PROVE  i = j
      BY <1>2, <1>3, <2>1
    <2>2. {f[i] : i \in 1..n} = T
      <3>1. ASSUME NEW i \in 1..n
            PROVE  f[i] \in T
        <4>1. i \in 1..(n + 1) /\ n + 1 \in 1..(n + 1) /\ i # n + 1
          OBVIOUS
        <4> QED
          BY <1>2, <1>3, <4>1
      <3>2. ASSUME NEW u \in T
            PROVE  \E i \in 1..n : f[i] = u
        <4>1. PICK i \in 1..(n + 1) : h[i] = u
          BY <1>2
        <4>2. i \in 1..n
          BY <4>1
        <4> QED
          BY <1>3, <4>1, <4>2
      <3> QED
        BY <3>1, <3>2
    <2> QED
      BY <1>3, <2>1, <2>2 DEF Holds
  <1>5. Ordered(f, n)
    <2>1. ASSUME NEW c \in 2..n
          PROVE  InOrder(f, c)
      <3>1. c \in 1..n /\ c \div 2 \in 1..n
        BY Halves
      <3> QED
        BY <1>3, <3>1 DEF Ordered, InOrder
    <2> QED
      BY <2>1 DEF Ordered
  <1> QED
    BY <1>4, <1>5 DEF f

LEMMA RemoveHolds ==
    ASSUME NEW n \in Nat, NEW R, NEW h, Holds(h, n + 1, R), Ordered(h, n + 1),
           NEW i \in 1..(n + 1)
    PROVE  /\ Holds(HeapRemove(h, i), n, R \ {h[i]})
           /\ Ordered(HeapRemove(h, i), n)
  <1> DEFINE M == n + 1
             swapped == Swap(h, i, M)
             lowered == HeapDown(swapped, i, n)
             left == IF i > n THEN h
                     ELSE IF lowered.at # i THEN lowered.items
                     ELSE HeapUp(swapped, i).items
  <1>1. M \in Nat /\ M \in 1..M /\ n + 1 = M /\ Holds(h, M, R) /\ i \in 1..M
    OBVIOUS
  <1>2. HeapRemove(h, i) = Front(left)
    <2>1. Len(h) = M
      <3> HIDE DEF M
      <3> QED
        BY <1>1, HeldLen
    <2>2. Len(h) - 1 = n
      BY <2>1
    <2> HIDE DEF M
    <2>3. (Len(h) - 1) + 1 = M
      BY <1>1, <2>2
    <2> QED
      BY <2>2, <2>3 DEF HeapRemove
  <1> HIDE DEF left
  <1>3. Holds(left, M, R) /\ Ordered(left, n) /\ left[M] = h[i]
    <2>1. CASE i > n
      <3>1. i = M /\ left = h
        BY <2>1 DEF left
      <3>2. Ordered(h, n)
        BY DEF Ordered
      <3> QED
        BY <1>1, <3>1, <3>2
    <2>2. CASE ~(i > n)
      <3>1. /\ i \in 1..n /\ i # M /\ n \in 1..M
            /\ M \in (n + 1)..M /\ \A k \in 1..n : k \in 1..M /\ k # M
        BY <2>2
      <3> HIDE DEF M
      <3>2. /\ Holds(swapped, M, R)
            /\ swapped[M] = h[i]
            /\ \A k \in 1..n : k # i => swapped[k] = h[k]
        BY <1>1, <3>1, SwapHolds
      <3> HIDE DEF swapped
      <3>3. Falling(swapped, n, i, i)
        <4> USE DEF M
        <4>1. ASSUME NEW c \in 2..n, c # i, c \div 2 # i
              PROVE  InOrder(swapped, c)
          <5>1. c \in 1..n /\ c \div 2 \in 1..n /\ c \in 2..(n + 1)
            BY Halves
          <5> QED
            BY <3>2, <4>1, <5>1 DEF Ordered, InOrder
        <4>2. ASSUME NEW c \in 2..n, c \div 2 = i, i > 1
              PROVE  ~Less(swapped[c], swapped[i \div 2])
          <5> DEFINE k == i \div 2
          <5>1. /\ c \in 1..n /\ k \in 1..n /\ c # i /\ k # i
                /\ i \in 2..(n + 1) /\ c \in 2..(n + 1)
            BY <4>2, Halves
          <5>2. ~Less(h[c], h[i]) /\ ~Less(h[i], h[k])
            BY <4>2, <5>1 DEF Ordered, InOrder
          <5>3. h[c] \in QItems /\ h[i] \in QItems /\ h[k] \in QItems
            BY <5>1 DEF Holds
          <5>4. swapped[c] = h[c] /\ swapped[k] = h[k]
            BY <3>2, <5>1
          <5> HIDE DEF k
          <5>5. ~Less(h[c], h[k])
            BY <5>2, <5>3, LessOrder
          <5> QED
            BY <5>4, <5>5 DEF k
        <4> QED
          BY <4>1, <4>2 DEF Falling
      <3>4. PICK g, j : /\ lowered = At(g, j)
                        /\ Holds(g, M, R)
                        /\ \A x \in (n + 1)..M : g[x] = swapped[x]
                        /\ j = i => g = swapped /\ OrderedBut(g, n, i)
                        /\ j # i => Ordered(g, n)
        BY <1>1, <3>1, <3>2, <3>3, DownHolds
      <3> HIDE DEF lowered
      <3>5. lowered.at = j /\ lowered.items = g
        BY <3>4 DEF At
      <3>6. CASE j # i
        <4>1. left = g
          BY <2>2, <3>5, <3>6 DEF left
        <4> QED
          BY <3>1, <3>2, <3>4, <3>6, <4>1
      <3>7. CASE j = i
        <4>1. left = HeapUp(swapped, i).items
          BY <2>2, <3>5, <3>7 DEF left
        <4>2. OrderedBut(swapped, n, i)
          BY <3>4, <3>7
        <4>3. PICK g2 : /\ HeapUp(swapped, i).items = g2
                        /\ Holds(g2, M, R)
                        /\ Ordered(g2, n)
                        /\ \A x \in (n + 1)..M : g2[x] = swapped[x]
          BY <1>1, <3>1, <3>2, <4>2, UpHolds
        <4> QED
          BY <3>1, <3>2, <4>1, <4>3
      <3> QED
        BY <3>6, <3>7
    <2> QED
      BY <2>1, <2>2
  <1>4. Holds(Front(left), n, R \ {left[n + 1]}) /\ Ordered(Front(left), n)
    BY <1>3, FrontHolds
  <1> QED
    BY <1>2, <1>3, <1>4

-----------------------------------------------------------------------------
(* The queue. *)

QueueInv == /\ heap \in Seq(QItems)
            /\ Holds(heap, Len(heap), enqueued)
            /\ Ordered(heap, Len(heap))

LEMMA FirstIsBest ==
    ASSUME NEW L \in Nat, NEW R, NEW h, Holds(h, L, R), Ordered(h, L),
           NEW i \in 1..L
    PROVE  ~Less(h[i], h[1])
  <1> DEFINE S == {k \in 1..L : Less(h[k], h[1])}
  <1>1. \A k \in 1..L : h[k] \in QItems
    BY DEF Holds
  <1>2. CASE S = {}
    BY <1>2
  <1>3. CASE S # {}
    <2>1. PICK m \in S : \A k \in S : m <= k
      <3>1. S \subseteq Nat
        OBVIOUS
      <3> HIDE DEF S
      <3> QED
        BY <1>3, <3>1, Least
    <2>2. m \in 1..L /\ Less(h[m], h[1]) /\ 1 \in 1..L
      BY <2>1
    <2>3. m # 1
      BY <1>1, <2>2, LessOrder
    <2> DEFINE p == m \div 2
    <2>4. m \in 2..L /\ p \in 1..(m - 1) /\ p \in 1..L
      BY <2>2, <2>3, Halves
    <2>5. ~Less(h[m], h[p])
      BY <2>4 DEF Ordered, InOrder
    <2>6. ~Less(h[p], h[1])
      BY <2>1, <2>4
    <2>7. h[m] \in QItems /\ h[p] \in QItems /\ h[1] \in QItems
      BY <1>1, <2>2, <2>4
    <2> HIDE DEF p
    <2> QED
      BY <2>2, <2>5, <2>6, <2>7, LessOrder
  <1> QED
    BY <1>2, <1>3

LEMMA QueueInvMeans ==
    ASSUME QueueInv
    PROVE  QueueKeepsTasks /\ PeekIsBest
  <1> DEFINE L == Len(heap)
  <1>1. L \in Nat /\ Holds(heap, L, enqueued) /\ Ordered(heap, L)
    BY DEF QueueInv
  <1>2. DOMAIN heap = 1..L
    BY DEF QueueInv
  <1> HIDE DEF L
  <1>3. QueueKeepsTasks
    BY <1>1, <1>2 DEF QueueKeepsTasks, ToSet, IsInjective, Holds
  <1>4. ASSUME heap # <<>>, NEW t \in enqueued
        PROVE  \/ priority(heap[1]) > priority(t)
               \/ priority(heap[1]) = priority(t) /\ createdAt(heap[1]) <= createdAt(t)
    <2>1. PICK i \in 1..L : heap[i] = t
      BY <1>1 DEF Holds
    <2>2. t \in QItems /\ heap[1] \in QItems
      BY <1>1, <2>1 DEF Holds
    <2>3. ~Less(t, heap[1])
      BY <1>1, <2>1, FirstIsBest
    <2> QED
      BY <2>2, <2>3, ItemValues DEF Less
  <1>5. PeekIsBest
    BY <1>4 DEF PeekIsBest
  <1> QED
    BY <1>3, <1>5

\* What a step makes of the heap is enough for the invariant.
LEMMA HeldQueue ==
    ASSUME NEW L \in Nat, Holds(heap', L, enqueued'), Ordered(heap', L)
    PROVE  QueueInv'
  <1>1. heap' \in Seq(QItems) /\ Len(heap') = L
    BY HeldLen
  <1> QED
    BY <1>1 DEF QueueInv

LEMMA RemovedQueue ==
    ASSUME QueueInv, NEW i \in DOMAIN heap, heap' = HeapRemove(heap, i),
           enqueued' = enqueued \ {heap[i]}
    PROVE  QueueInv'
  <1>1. /\ Len(heap) \in Nat /\ i \in 1..Len(heap)
        /\ Holds(heap, Len(heap), enqueued) /\ Ordered(heap, Len(heap))
    BY DEF QueueInv
  <1>2. PICK n \in Nat : Len(heap) = n + 1
    <2>1. Len(heap) - 1 \in Nat /\ Len(heap) = (Len(heap) - 1) + 1
      BY <1>1
    <2> QED
      BY <2>1
  <1>3. /\ Holds(heap, n + 1, enqueued) /\ Ordered(heap, n + 1)
        /\ i \in 1..(n + 1)
    BY <1>1, <1>2
  <1>4. Holds(heap', n, enqueued') /\ Ordered(heap', n)
    BY <1>3, RemoveHolds
  <1> QED
    BY <1>4, HeldQueue

LEMMA QueueStep ==
    ASSUME QueueInv, [QueueNext]_queueVars
    PROVE  QueueInv'
  <1>1. /\ Len(heap) \in Nat /\ DOMAIN heap = 1..Len(heap)
        /\ Holds(heap, Len(heap), enqueued) /\ Ordered(heap, Len(heap))
    BY DEF QueueInv
  <1>2. ASSUME NEW t \in QTasks, Enqueue(t)
        PROVE  QueueInv'
    <2>1. PICK L \in Nat : L = Len(heap)
      BY <1>1
    <2>2. Holds(heap, L, enqueued) /\ Ordered(heap, L)
      BY <1>1, <2>1
    <2>3. Holds(heap', L + 1, enqueued') /\ Ordered(heap', L + 1)
      <3>1. PICK i \in QItems \ enqueued :
                heap' = HeapPush(heap, i) /\ enqueued' = enqueued \cup {i}
        BY <1>2 DEF Enqueue
      <3> QED
        BY <2>2, <3>1, PushHolds
    <2>4. PICK M \in Nat : M = L + 1
      OBVIOUS
    <2> QED
      BY <2>3, <2>4, HeldQueue
  <1>3. ASSUME NEW t \in QTasks, RemoveTask(t)
        PROVE  QueueInv'
    <2> DEFINE k == Min(Positions(t))
    <2>1. k \in Positions(t)
      <3>1. Positions(t) # {} /\ Positions(t) \subseteq Nat
        BY <1>1, <1>3 DEF RemoveTask, Positions
      <3>2. \E m \in Positions(t) : \A x \in Positions(t) : m <= x
        BY <3>1, Least
      <3> QED
        BY <3>2 DEF Min
    <2>2. k \in DOMAIN heap
      BY <2>1 DEF Positions
    <2>3. heap' = HeapRemove(heap, k) /\ enqueued' = enqueued \ {heap[k]}
      BY <1>3 DEF RemoveTask
    <2> HIDE DEF k
    <2> QED
      BY <2>2, <2>3, RemovedQueue
  <1>4. CASE Dequeue
    <2>1. 1 \in DOMAIN heap
      BY <1>4 DEF Dequeue, QueueInv
    <2> QED
      BY <1>4, <2>1, RemovedQueue DEF Dequeue
  <1>5. CASE UNCHANGED queueVars
    BY <1>5 DEF queueVars, QueueInv, Holds, Ordered, InOrder
  <1> QED
    BY <1>2, <1>3, <1>4, <1>5 DEF QueueNext

LEMMA QueueInvariant == QueueSpec => []QueueInv
  <1>1. QueueInit => QueueInv
    <2> SUFFICES ASSUME QueueInit
                 PROVE  QueueInv
      OBVIOUS
    <2>1. heap \in Seq(QItems) /\ Len(heap) = 0 /\ enqueued = {}
      BY DEF QueueInit
    <2>2. Holds(heap, 0, enqueued) /\ Ordered(heap, 0)
      BY <2>1 DEF Holds, Ordered
    <2> QED
      BY <2>1, <2>2 DEF QueueInv
  <1>2. QueueInv /\ [QueueNext]_queueVars => QueueInv'
    BY QueueStep
  <1> QED
    BY <1>1, <1>2, PTL DEF QueueSpec

\* The heap holds items, however it is pushed to and removed from.
THEOREM QueueTypeCorrect == QueueSpec => []QueueTypeOK
  <1>1. QueueInv => QueueTypeOK
    BY DEF QueueInv, QueueTypeOK, Holds
  <1> QED
    BY <1>1, QueueInvariant, PTL

\* A heap of any size, any tasks put in any number of times, taken out and
\* removed from its middle: no item is lost and none is there twice.
THEOREM QueueKeepsTasksHolds == QueueSpec => []QueueKeepsTasks
  <1>1. QueueInv => QueueKeepsTasks
    BY QueueInvMeans
  <1> QED
    BY <1>1, QueueInvariant, PTL

\* The next task taken is one of the highest priority and the oldest of it.
THEOREM PeekIsBestHolds == QueueSpec => []PeekIsBest
  <1>1. QueueInv => PeekIsBest
    BY QueueInvMeans
  <1> QED
    BY <1>1, QueueInvariant, PTL

-----------------------------------------------------------------------------
(* Smallest and largest. *)

LEMMA MaxOfTwo ==
    ASSUME NEW a \in Int, NEW b \in Int
    PROVE  Max({a, b}) = IF a >= b THEN a ELSE b
  <1> DEFINE m == IF a >= b THEN a ELSE b
  <1>1. m \in {a, b} /\ \A y \in {a, b} : m >= y
    OBVIOUS
  <1>2. \A x \in {a, b} : (\A y \in {a, b} : x >= y) => x = m
    OBVIOUS
  <1> HIDE DEF m
  <1>3. Max({a, b}) = m
    BY <1>1, <1>2 DEF Max
  <1> QED
    BY <1>3 DEF m

LEMMA MinOfTwo ==
    ASSUME NEW a \in Int, NEW b \in Int
    PROVE  Min({a, b}) = IF a <= b THEN a ELSE b
  <1> DEFINE m == IF a <= b THEN a ELSE b
  <1>1. m \in {a, b} /\ \A y \in {a, b} : m <= y
    OBVIOUS
  <1>2. \A x \in {a, b} : (\A y \in {a, b} : x <= y) => x = m
    OBVIOUS
  <1> HIDE DEF m
  <1>3. Min({a, b}) = m
    BY <1>1, <1>2 DEF Min
  <1> QED
    BY <1>3 DEF m

-----------------------------------------------------------------------------
(* The loops of the placement, as what each turn makes of the one before. *)

\* The nodes a loop may have come to: none, or one of the list.
Nodes(ns) == {<<>>} \cup {<<ns[i]>> : i \in 1..Len(ns)}

LEMMA FindBestNodeLoop ==
    ASSUME NEW q, NEW ns, Len(ns) \in Nat
    PROVE  \E best : /\ best[0] = <<>>
                     /\ \A k \in 1..Len(ns) :
                           best[k] = Considered(q, best[k - 1], ns[k])
                     /\ findBestNode(q, ns) = best[Len(ns)]
  <1> DEFINE N == Len(ns)
             X == {<<>>} \cup {<<ns[i]>> : i \in 1..N}
             g == [p \in X \X (1..N) |-> Considered(q, p[1], ns[p[2]])]
             Turn(f, k) == IF k = 0 THEN <<>>
                           ELSE Considered(q, f[k - 1], ns[k])
             loop == CHOOSE f : f = [k \in 0..N |-> Turn(f, k)]
  <1>1. findBestNode(q, ns) = loop[N]
    BY Zenon DEF findBestNode
  <1>2. N \in Nat
    OBVIOUS
  <1> HIDE DEF N
  <1>3. g \in Turns(X, N)
    <2>1. ASSUME NEW b \in X, NEW k \in 1..N
          PROVE  Considered(q, b, ns[k]) \in X
      BY DEF Considered, Better
    <2> HIDE DEF X
    <2> QED
      BY <2>1 DEF Turns
  <1>4. <<>> \in X
    OBVIOUS
  <1>5. PICK f \in Loops(X, N, <<>>, g) : TRUE
    <2> HIDE DEF X, g
    <2> QED
      BY <1>2, <1>3, <1>4, LoopExists
  <1>6. f = [k \in 0..N |-> Turn(f, k)]
    <2> HIDE DEF X
    <2>1. f \in [0..N -> X]
      BY <1>5 DEF Loops
    <2>2. ASSUME NEW k \in 0..N
          PROVE  f[k] = Turn(f, k)
      <3>1. CASE k = 0
        BY <1>5, <3>1 DEF Loops
      <3>2. CASE k # 0
        <4>1. f[k - 1] \in X /\ k \in 1..N
          BY <1>2, <2>1, <3>2
        <4>2. f[k] = g[<<f[k - 1], k>>]
          BY <1>5, <4>1 DEF Loops
        <4> QED
          BY <3>2, <4>1, <4>2
      <3> QED
        BY <3>1, <3>2
    <2> HIDE DEF Turn
    <2> QED
      BY <2>1, <2>2
  <1>7. loop = [k \in 0..N |-> Turn(loop, k)]
    <2> HIDE DEF Turn
    <2> QED
      BY <1>6, Zenon
  <1> HIDE DEF loop
  <1>8. loop[0] = <<>> /\ \A k \in 1..N :
                             loop[k] = Considered(q, loop[k - 1], ns[k])
    <2>1. ASSUME NEW k \in 0..N
          PROVE  loop[k] = Turn(loop, k)
      <3> HIDE DEF Turn
      <3> QED
        BY <1>7, Zenon
    <2> QED
      BY <1>2, <2>1
  <1> QED
    BY <1>1, <1>8 DEF N

LEMMA BestScoredLoop ==
    ASSUME NEW q, NEW ns, Len(ns) \in Nat
    PROVE  \E best : /\ best[0] = <<>>
                     /\ \A k \in 1..Len(ns) :
                           best[k] = Better(q, best[k - 1], ns[k])
                     /\ bestScored(q, ns) = best[Len(ns)]
  <1> DEFINE N == Len(ns)
             X == {<<>>} \cup {<<ns[i]>> : i \in 1..N}
             g == [p \in X \X (1..N) |-> Better(q, p[1], ns[p[2]])]
             Turn(f, k) == IF k = 0 THEN <<>> ELSE Better(q, f[k - 1], ns[k])
             loop == CHOOSE f : f = [k \in 0..N |-> Turn(f, k)]
  <1>1. bestScored(q, ns) = loop[N]
    BY Zenon DEF bestScored
  <1>2. N \in Nat
    OBVIOUS
  <1> HIDE DEF N
  <1>3. g \in Turns(X, N)
    <2>1. ASSUME NEW b \in X, NEW k \in 1..N
          PROVE  Better(q, b, ns[k]) \in X
      BY DEF Better
    <2> HIDE DEF X
    <2> QED
      BY <2>1 DEF Turns
  <1>4. <<>> \in X
    OBVIOUS
  <1>5. PICK f \in Loops(X, N, <<>>, g) : TRUE
    <2> HIDE DEF X, g
    <2> QED
      BY <1>2, <1>3, <1>4, LoopExists
  <1>6. f = [k \in 0..N |-> Turn(f, k)]
    <2> HIDE DEF X
    <2>1. f \in [0..N -> X]
      BY <1>5 DEF Loops
    <2>2. ASSUME NEW k \in 0..N
          PROVE  f[k] = Turn(f, k)
      <3>1. CASE k = 0
        BY <1>5, <3>1 DEF Loops
      <3>2. CASE k # 0
        <4>1. f[k - 1] \in X /\ k \in 1..N
          BY <1>2, <2>1, <3>2
        <4>2. f[k] = g[<<f[k - 1], k>>]
          BY <1>5, <4>1 DEF Loops
        <4> QED
          BY <3>2, <4>1, <4>2
      <3> QED
        BY <3>1, <3>2
    <2> HIDE DEF Turn
    <2> QED
      BY <2>1, <2>2
  <1>7. loop = [k \in 0..N |-> Turn(loop, k)]
    <2> HIDE DEF Turn
    <2> QED
      BY <1>6, Zenon
  <1> HIDE DEF loop
  <1>8. loop[0] = <<>> /\ \A k \in 1..N :
                             loop[k] = Better(q, loop[k - 1], ns[k])
    <2>1. ASSUME NEW k \in 0..N
          PROVE  loop[k] = Turn(loop, k)
      <3> HIDE DEF Turn
      <3> QED
        BY <1>7, Zenon
    <2> QED
      BY <1>2, <2>1
  <1> QED
    BY <1>1, <1>8 DEF N

LEMMA PinnedNodeLoop ==
    ASSUME NEW q, NEW ns, Len(ns) \in Nat
    PROVE  \E best : /\ best[0] = <<>>
                     /\ \A k \in 1..Len(ns) :
                           best[k] = Matched(q, best[k - 1], ns[k])
                     /\ pinnedNode(q, ns) = best[Len(ns)]
  <1> DEFINE N == Len(ns)
             X == {<<>>} \cup {<<ns[i]>> : i \in 1..N}
             g == [p \in X \X (1..N) |-> Matched(q, p[1], ns[p[2]])]
             Turn(f, k) == IF k = 0 THEN <<>> ELSE Matched(q, f[k - 1], ns[k])
             loop == CHOOSE f : f = [k \in 0..N |-> Turn(f, k)]
  <1>1. pinnedNode(q, ns) = loop[N]
    BY Zenon DEF pinnedNode
  <1>2. N \in Nat
    OBVIOUS
  <1> HIDE DEF N
  <1>3. g \in Turns(X, N)
    <2>1. ASSUME NEW b \in X, NEW k \in 1..N
          PROVE  Matched(q, b, ns[k]) \in X
      BY DEF Matched
    <2> HIDE DEF X
    <2> QED
      BY <2>1 DEF Turns
  <1>4. <<>> \in X
    OBVIOUS
  <1>5. PICK f \in Loops(X, N, <<>>, g) : TRUE
    <2> HIDE DEF X, g
    <2> QED
      BY <1>2, <1>3, <1>4, LoopExists
  <1>6. f = [k \in 0..N |-> Turn(f, k)]
    <2> HIDE DEF X
    <2>1. f \in [0..N -> X]
      BY <1>5 DEF Loops
    <2>2. ASSUME NEW k \in 0..N
          PROVE  f[k] = Turn(f, k)
      <3>1. CASE k = 0
        BY <1>5, <3>1 DEF Loops
      <3>2. CASE k # 0
        <4>1. f[k - 1] \in X /\ k \in 1..N
          BY <1>2, <2>1, <3>2
        <4>2. f[k] = g[<<f[k - 1], k>>]
          BY <1>5, <4>1 DEF Loops
        <4> QED
          BY <3>2, <4>1, <4>2
      <3> QED
        BY <3>1, <3>2
    <2> HIDE DEF Turn
    <2> QED
      BY <2>1, <2>2
  <1>7. loop = [k \in 0..N |-> Turn(loop, k)]
    <2> HIDE DEF Turn
    <2> QED
      BY <1>6, Zenon
  <1> HIDE DEF loop
  <1>8. loop[0] = <<>> /\ \A k \in 1..N :
                             loop[k] = Matched(q, loop[k - 1], ns[k])
    <2>1. ASSUME NEW k \in 0..N
          PROVE  loop[k] = Turn(loop, k)
      <3> HIDE DEF Turn
      <3> QED
        BY <1>7, Zenon
    <2> QED
      BY <1>2, <2>1
  <1> QED
    BY <1>1, <1>8 DEF N

LEMMA CandidatesLoop ==
    ASSUME NEW q, NEW ns, Len(ns) \in Nat
    PROVE  \E best : /\ best[0] = <<>>
                     /\ \A k \in 1..Len(ns) :
                           best[k] = Filtered(q, best[k - 1], ns[k])
                     /\ candidates(q, ns) = best[Len(ns)]
  <1> DEFINE N == Len(ns)
             X == Seq({ns[i] : i \in 1..N})
             g == [p \in X \X (1..N) |-> Filtered(q, p[1], ns[p[2]])]
             Turn(f, k) == IF k = 0 THEN <<>> ELSE Filtered(q, f[k - 1], ns[k])
             loop == CHOOSE f : f = [k \in 0..N |-> Turn(f, k)]
  <1>1. candidates(q, ns) = loop[N]
    BY Zenon DEF candidates
  <1>2. N \in Nat
    OBVIOUS
  <1> HIDE DEF N
  <1>3. g \in Turns(X, N)
    <2>1. ASSUME NEW b \in X, NEW k \in 1..N
          PROVE  Filtered(q, b, ns[k]) \in X
      BY DEF Filtered
    <2> HIDE DEF X
    <2> QED
      BY <2>1 DEF Turns
  <1>4. <<>> \in X
    OBVIOUS
  <1>5. PICK f \in Loops(X, N, <<>>, g) : TRUE
    <2> HIDE DEF X, g
    <2> QED
      BY <1>2, <1>3, <1>4, LoopExists
  <1>6. f = [k \in 0..N |-> Turn(f, k)]
    <2> HIDE DEF X
    <2>1. f \in [0..N -> X]
      BY <1>5 DEF Loops
    <2>2. ASSUME NEW k \in 0..N
          PROVE  f[k] = Turn(f, k)
      <3>1. CASE k = 0
        BY <1>5, <3>1 DEF Loops
      <3>2. CASE k # 0
        <4>1. f[k - 1] \in X /\ k \in 1..N
          BY <1>2, <2>1, <3>2
        <4>2. f[k] = g[<<f[k - 1], k>>]
          BY <1>5, <4>1 DEF Loops
        <4> QED
          BY <3>2, <4>1, <4>2
      <3> QED
        BY <3>1, <3>2
    <2> HIDE DEF Turn
    <2> QED
      BY <2>1, <2>2
  <1>7. loop = [k \in 0..N |-> Turn(loop, k)]
    <2> HIDE DEF Turn
    <2> QED
      BY <1>6, Zenon
  <1> HIDE DEF loop
  <1>8. loop[0] = <<>> /\ \A k \in 1..N :
                             loop[k] = Filtered(q, loop[k - 1], ns[k])
    <2>1. ASSUME NEW k \in 0..N
          PROVE  loop[k] = Turn(loop, k)
      <3> HIDE DEF Turn
      <3> QED
        BY <1>7, Zenon
    <2> QED
      BY <1>2, <2>1
  <1> QED
    BY <1>1, <1>8 DEF N

LEMMA BestScoredAppend ==
    ASSUME NEW q, NEW S, NEW c \in Seq(S), NEW n \in S
    PROVE  bestScored(q, Append(c, n)) = Better(q, bestScored(q, c), n)
  <1> DEFINE d == Append(c, n)
             N == Len(c)
  <1>1. /\ N \in Nat /\ Len(d) = N + 1 /\ Len(d) \in Nat
        /\ \A k \in 1..N : d[k] = c[k]
        /\ d[N + 1] = n
    OBVIOUS
  <1> HIDE DEF d
  <1>2. PICK b : /\ b[0] = <<>>
                 /\ \A k \in 1..N : b[k] = Better(q, b[k - 1], c[k])
                 /\ bestScored(q, c) = b[N]
    BY <1>1, BestScoredLoop
  <1>3. PICK e : /\ e[0] = <<>>
                 /\ \A k \in 1..Len(d) : e[k] = Better(q, e[k - 1], d[k])
                 /\ bestScored(q, d) = e[Len(d)]
    BY <1>1, BestScoredLoop
  <1> HIDE DEF N
  <1>4. e[N] = b[N]
    <2> DEFINE T == {k \in Nat : k <= N => e[k] = b[k]}
    <2>1. 0 \in T
      BY <1>2, <1>3
    <2>2. ASSUME NEW k \in Nat, k \in T
          PROVE  k + 1 \in T
      <3>1. CASE k + 1 <= N
        <4>1. /\ k + 1 \in 1..N /\ k + 1 \in 1..Len(d) /\ (k + 1) - 1 = k
              /\ e[k] = b[k]
          BY <1>1, <2>2, <3>1
        <4>2. e[k + 1] = b[k + 1]
          BY <1>1, <1>2, <1>3, <4>1
        <4> QED
          BY <4>2
      <3>2. CASE ~(k + 1 <= N)
        BY <3>2
      <3> QED
        BY <3>1, <3>2
    <2>3. Nat \subseteq T
      <3> HIDE DEF T
      <3> QED
        BY <2>1, <2>2, Induction
    <2> QED
      BY <1>1, <2>3
  <1>5. e[N + 1] = Better(q, e[N], n)
    <2>1. N + 1 \in 1..Len(d) /\ (N + 1) - 1 = N
      BY <1>1
    <2> QED
      BY <1>1, <1>3, <2>1
  <1> QED
    BY <1>1, <1>2, <1>3, <1>4, <1>5 DEF d

LEMMA PinnedNodeAppend ==
    ASSUME NEW q, NEW S, NEW c \in Seq(S), NEW n \in S
    PROVE  pinnedNode(q, Append(c, n)) = Matched(q, pinnedNode(q, c), n)
  <1> DEFINE d == Append(c, n)
             N == Len(c)
  <1>1. /\ N \in Nat /\ Len(d) = N + 1 /\ Len(d) \in Nat
        /\ \A k \in 1..N : d[k] = c[k]
        /\ d[N + 1] = n
    OBVIOUS
  <1> HIDE DEF d
  <1>2. PICK b : /\ b[0] = <<>>
                 /\ \A k \in 1..N : b[k] = Matched(q, b[k - 1], c[k])
                 /\ pinnedNode(q, c) = b[N]
    BY <1>1, PinnedNodeLoop
  <1>3. PICK e : /\ e[0] = <<>>
                 /\ \A k \in 1..Len(d) : e[k] = Matched(q, e[k - 1], d[k])
                 /\ pinnedNode(q, d) = e[Len(d)]
    BY <1>1, PinnedNodeLoop
  <1> HIDE DEF N
  <1>4. e[N] = b[N]
    <2> DEFINE T == {k \in Nat : k <= N => e[k] = b[k]}
    <2>1. 0 \in T
      BY <1>2, <1>3
    <2>2. ASSUME NEW k \in Nat, k \in T
          PROVE  k + 1 \in T
      <3>1. CASE k + 1 <= N
        <4>1. /\ k + 1 \in 1..N /\ k + 1 \in 1..Len(d) /\ (k + 1) - 1 = k
              /\ e[k] = b[k]
          BY <1>1, <2>2, <3>1
        <4>2. e[k + 1] = b[k + 1]
          BY <1>1, <1>2, <1>3, <4>1
        <4> QED
          BY <4>2
      <3>2. CASE ~(k + 1 <= N)
        BY <3>2
      <3> QED
        BY <3>1, <3>2
    <2>3. Nat \subseteq T
      <3> HIDE DEF T
      <3> QED
        BY <2>1, <2>2, Induction
    <2> QED
      BY <1>1, <2>3
  <1>5. e[N + 1] = Matched(q, e[N], n)
    <2>1. N + 1 \in 1..Len(d) /\ (N + 1) - 1 = N
      BY <1>1
    <2> QED
      BY <1>1, <1>3, <2>1
  <1> QED
    BY <1>1, <1>2, <1>3, <1>4, <1>5 DEF d

\* The filter first and the choice after make the same of a list as both in one
\* loop.
LEMMA SameNode ==
    ASSUME NEW q, NEW S, NEW ns \in Seq(S)
    PROVE  findBestNode(q, ns) = PlaceTask(q, ns)
  <1> DEFINE N == Len(ns)
             Taken(c) == IF q.target # Unpinned THEN pinnedNode(q, c)
                                                ELSE bestScored(q, c)
  <1>1. N \in Nat /\ \A k \in 1..N : ns[k] \in S
    OBVIOUS
  <1>2. PICK best : /\ best[0] = <<>>
                    /\ \A k \in 1..N :
                          best[k] = Considered(q, best[k - 1], ns[k])
                    /\ findBestNode(q, ns) = best[N]
    BY <1>1, FindBestNodeLoop
  <1>3. PICK kept : /\ kept[0] = <<>>
                    /\ \A k \in 1..N :
                          kept[k] = Filtered(q, kept[k - 1], ns[k])
                    /\ candidates(q, ns) = kept[N]
    BY <1>1, CandidatesLoop
  <1> HIDE DEF N
  <1>4. \A k \in 0..N : kept[k] \in Seq(S)
    <2>1. kept[0] \in Seq(S)
      BY <1>3
    <2>2. ASSUME NEW k \in 1..N, kept[k - 1] \in Seq(S)
          PROVE  kept[k] \in Seq(S)
      <3>1. ASSUME NEW c \in Seq(S), NEW n \in S
            PROVE  Filtered(q, c, n) \in Seq(S)
        BY DEF Filtered
      <3> QED
        BY <1>1, <1>3, <2>2, <3>1
    <2> QED
      BY <1>1, <2>1, <2>2, LoopKeeps
  <1>5. Taken(<<>>) = <<>>
    <2>1. Len(<<>>) = 0
      OBVIOUS
    <2>2. bestScored(q, <<>>) = <<>>
      BY <2>1, BestScoredLoop
    <2>3. pinnedNode(q, <<>>) = <<>>
      BY <2>1, PinnedNodeLoop
    <2> QED
      BY <2>2, <2>3
  <1>6. ASSUME NEW c \in Seq(S), NEW n \in S
        PROVE  Considered(q, Taken(c), n) = Taken(Filtered(q, c, n))
    <2>1. bestScored(q, Append(c, n)) = Better(q, bestScored(q, c), n)
      BY BestScoredAppend
    <2>2. pinnedNode(q, Append(c, n)) = Matched(q, pinnedNode(q, c), n)
      BY PinnedNodeAppend
    <2> QED
      BY <2>1, <2>2 DEF Considered, Filtered, Matched
  <1> HIDE DEF Taken
  <1>7. best[N] = Taken(kept[N])
    <2> DEFINE T == {k \in Nat : k <= N => best[k] = Taken(kept[k])}
    <2>1. 0 \in T
      BY <1>2, <1>3, <1>5
    <2>2. ASSUME NEW k \in Nat, k \in T
          PROVE  k + 1 \in T
      <3>1. CASE k + 1 <= N
        <4>1. /\ k + 1 \in 1..N /\ (k + 1) - 1 = k /\ k \in 0..N
              /\ best[k] = Taken(kept[k])
          BY <1>1, <2>2, <3>1
        <4>2. /\ best[k + 1] = Considered(q, best[k], ns[k + 1])
              /\ kept[k + 1] = Filtered(q, kept[k], ns[k + 1])
          BY <1>2, <1>3, <4>1
        <4>3. kept[k] \in Seq(S) /\ ns[k + 1] \in S
          BY <1>1, <1>4, <4>1
        <4>4. best[k + 1] = Taken(kept[k + 1])
          BY <1>6, <4>1, <4>2, <4>3
        <4> QED
          BY <4>4
      <3>2. CASE ~(k + 1 <= N)
        BY <3>2
      <3> QED
        BY <3>1, <3>2
    <2>3. Nat \subseteq T
      <3> HIDE DEF T
      <3> QED
        BY <2>1, <2>2, Induction
    <2> QED
      BY <1>1, <2>3
  <1> QED
    BY <1>2, <1>3, <1>7 DEF Taken, PlaceTask

\* The loop takes none only where none is suitable, and else a suitable node
\* that no suitable one outscores.
SuitableFor(q, n) ==
    satisfiesConstraints(q, n) /\ q.target \in {id(n), Unpinned}

LEMMA ChosenNode ==
    ASSUME NEW q, NEW S, NEW ns \in Seq(S),
           \A n \in S : ScoreNode(q, n) \in Int
    PROVE  \/ /\ findBestNode(q, ns) = <<>>
              /\ \A i \in 1..Len(ns) : ~SuitableFor(q, ns[i])
           \/ \E i \in 1..Len(ns) :
                 /\ findBestNode(q, ns) = <<ns[i]>>
                 /\ SuitableFor(q, ns[i])
                 /\ q.target = Unpinned =>
                       \A j \in 1..Len(ns) : SuitableFor(q, ns[j]) =>
                          ScoreNode(q, ns[i]) >= ScoreNode(q, ns[j])
  <1> DEFINE N == Len(ns)
             Settled(b, k) ==
                \/ b = <<>> /\ \A i \in 1..k : ~SuitableFor(q, ns[i])
                \/ \E i \in 1..k :
                      /\ b = <<ns[i]>>
                      /\ SuitableFor(q, ns[i])
                      /\ q.target = Unpinned =>
                            \A j \in 1..k : SuitableFor(q, ns[j]) =>
                               ScoreNode(q, ns[i]) >= ScoreNode(q, ns[j])
  <1>1. N \in Nat /\ \A k \in 1..N : ns[k] \in S
    OBVIOUS
  <1>2. PICK best : /\ best[0] = <<>>
                    /\ \A k \in 1..N :
                          best[k] = Considered(q, best[k - 1], ns[k])
                    /\ findBestNode(q, ns) = best[N]
    BY <1>1, FindBestNodeLoop
  <1> HIDE DEF N
  <1>3. Settled(best[0], 0)
    BY <1>2
  <1>4. ASSUME NEW k \in Nat, k + 1 <= N, NEW b, Settled(b, k)
        PROVE  Settled(Considered(q, b, ns[k + 1]), k + 1)
    <2> DEFINE n == ns[k + 1]
    <2>1. k + 1 \in 1..(k + 1) /\ \A i \in 1..(k + 1) : i \in 1..k \/ i = k + 1
      OBVIOUS
    <2>2. \A i \in 1..(k + 1) : ScoreNode(q, ns[i]) \in Int
      BY <1>1, <1>4
    <2>3. CASE ~SuitableFor(q, n)
      <3>1. Considered(q, b, n) = b
        BY <2>3 DEF Considered, SuitableFor
      <3> QED
        BY <1>4, <2>1, <2>3, <3>1
    <2>4. CASE SuitableFor(q, n) /\ b = <<>>
      <3>1. Considered(q, b, n) = <<n>>
        BY <2>4 DEF Considered, SuitableFor, Better
      <3>2. \A i \in 1..k : ~SuitableFor(q, ns[i])
        BY <1>4, <2>4
      <3>3. \A j \in 1..(k + 1) : SuitableFor(q, ns[j]) => j = k + 1
        BY <2>1, <3>2
      <3> QED
        BY <2>1, <2>2, <2>4, <3>1, <3>3
    <2>5. CASE SuitableFor(q, n) /\ b # <<>>
      <3>1. PICK i \in 1..k :
               /\ b = <<ns[i]>>
               /\ SuitableFor(q, ns[i])
               /\ q.target = Unpinned =>
                     \A j \in 1..k : SuitableFor(q, ns[j]) =>
                        ScoreNode(q, ns[i]) >= ScoreNode(q, ns[j])
        BY <1>4, <2>5
      <3>2. i \in 1..(k + 1) /\ b[1] = ns[i]
        BY <3>1
      <3>3. CASE q.target # Unpinned
        <4>1. Considered(q, b, n) = b
          BY <2>5, <3>3 DEF Considered
        <4> QED
          BY <3>1, <3>2, <3>3, <4>1
      <3>4. CASE q.target = Unpinned /\ ScoreNode(q, n) > ScoreNode(q, ns[i])
        <4>1. Considered(q, b, n) = <<n>>
          BY <2>5, <3>2, <3>4 DEF Considered, Better, SuitableFor
        <4>2. \A j \in 1..(k + 1) : SuitableFor(q, ns[j]) =>
                 ScoreNode(q, n) >= ScoreNode(q, ns[j])
          <5>1. ASSUME NEW j \in 1..(k + 1), SuitableFor(q, ns[j])
                PROVE  ScoreNode(q, n) >= ScoreNode(q, ns[j])
            <6>1. /\ ScoreNode(q, ns[j]) \in Int /\ ScoreNode(q, ns[i]) \in Int
                  /\ ScoreNode(q, n) \in Int
              BY <2>1, <2>2, <3>2
            <6>2. CASE j \in 1..k
              <7>1. ScoreNode(q, ns[i]) >= ScoreNode(q, ns[j])
                BY <3>1, <3>4, <5>1, <6>2
              <7> QED
                BY <3>4, <6>1, <7>1
            <6>3. CASE j = k + 1
              BY <6>1, <6>3
            <6> QED
              BY <2>1, <6>2, <6>3
          <5> QED
            BY <5>1
        <4> QED
          BY <2>1, <2>5, <4>1, <4>2
      <3>5. CASE q.target = Unpinned /\ ~(ScoreNode(q, n) > ScoreNode(q, ns[i]))
        <4>1. Considered(q, b, n) = b
          BY <2>5, <3>2, <3>5 DEF Considered, Better, SuitableFor
        <4>2. \A j \in 1..(k + 1) : SuitableFor(q, ns[j]) =>
                 ScoreNode(q, ns[i]) >= ScoreNode(q, ns[j])
          <5>1. ScoreNode(q, ns[i]) \in Int /\ ScoreNode(q, n) \in Int
            BY <2>1, <2>2, <3>2
          <5>2. ScoreNode(q, ns[i]) >= ScoreNode(q, n)
            BY <3>5, <5>1
          <5> QED
            BY <2>1, <3>1, <3>5, <5>2
        <4> QED
          BY <3>1, <3>2, <4>1, <4>2
      <3> QED
        BY <3>3, <3>4, <3>5
    <2> QED
      BY <2>3, <2>4, <2>5
  <1>5. Settled(best[N], N)
    <2> DEFINE T == {k \in Nat : k <= N => Settled(best[k], k)}
    <2> HIDE DEF Settled
    <2>1. 0 \in T
      BY <1>3
    <2>2. ASSUME NEW k \in Nat, k \in T
          PROVE  k + 1 \in T
      <3>1. CASE k + 1 <= N
        <4>1. k + 1 \in 1..N /\ (k + 1) - 1 = k /\ Settled(best[k], k)
          BY <1>1, <2>2, <3>1
        <4>2. best[k + 1] = Considered(q, best[k], ns[k + 1])
          BY <1>2, <4>1
        <4>3. Settled(best[k + 1], k + 1)
          BY <1>4, <3>1, <4>1, <4>2
        <4> QED
          BY <4>3
      <3>2. CASE ~(k + 1 <= N)
        BY <3>2
      <3> QED
        BY <3>1, <3>2
    <2>3. Nat \subseteq T
      <3> HIDE DEF T
      <3> QED
        BY <2>1, <2>2, Induction
    <2>4. N \in T
      <3> HIDE DEF T, N
      <3> QED
        BY <1>1, <2>3
    <2> HIDE DEF N
    <2> QED
      BY <1>1, <2>4
  <1>6. findBestNode(q, ns) = best[N]
    BY <1>2
  <1> QED
    BY <1>5, <1>6, Zenon DEF N

-----------------------------------------------------------------------------
(* Scores. *)

\* A listed node, and what the score of one is before the penalty.
ListedNode == [node : PlaceNode, cpu : Usages, memory : Usages, load : Nat,
               running : 0..MaxRunning]

Fitness(q, n) == 35 * scoreCPU(q, n) + 30 * scoreMemory(q, n)
                     + 25 * scoreLoad(n) + 10 * (Scale \div 2)

LEMMA ScaleHalf == Scale \in Nat /\ Scale \div 2 \in Nat \ {0}
  <1>1. Scale \in Nat \ {0} /\ Scale % 2 = 0
    BY PlacementAssumptions
  <1> QED
    BY <1>1

LEMMA ShareNat ==
    ASSUME NEW a \in Int, NEW r \in Int, NEW t \in Nat \ {0}
    PROVE  Share(a, r, t) \in Nat
  <1>1. (Scale * (a - 100 * r)) \div (100 * t) \in Int
    <2>1. /\ Scale * (a - 100 * r) \in Int
          /\ 100 * t \in Nat \ {0}
      BY PlacementAssumptions
    <2> QED
      BY <2>1
  <1> QED
    BY <1>1, MaxOfTwo DEF Share

LEMMA FitnessPositive ==
    ASSUME NEW q \in PlaceRequests, NEW n \in ListedNode
    PROVE  Fitness(q, n) \in Nat \ {0}
  <1>1. /\ cores(n) \in Nat /\ memory(n) \in Nat
        /\ q.cpu \in Nat /\ q.memory \in Nat
        /\ n.cpu \in Nat /\ n.memory \in Nat /\ n.load \in Nat
    BY PlacementAssumptions DEF ListedNode, cores, memory, PlaceNode, Usages
  <1>2. /\ availableCores(n) \in Int
        /\ availableMemory(n) \in Int
    BY <1>1 DEF availableCores, availableMemory
  <1>3. scoreCPU(q, n) \in Nat
    <2>1. CASE cores(n) # 0
      <3>1. Share(availableCores(n), q.cpu, cores(n)) \in Nat
        <4>1. cores(n) \in Nat \ {0} /\ q.cpu \in Int
          BY <1>1, <2>1
        <4> QED
          BY <1>2, <4>1, ShareNat
      <3> QED
        BY <2>1, <3>1 DEF scoreCPU
    <2> QED
      BY <2>1 DEF scoreCPU
  <1>4. scoreMemory(q, n) \in Nat
    <2>1. Scale \div 2 \in Nat
      BY ScaleHalf
    <2>2. CASE memory(n) # 0
      <3>1. Share(availableMemory(n), q.memory, memory(n)) \in Nat
        <4>1. memory(n) \in Nat \ {0} /\ q.memory \in Int
          BY <1>1, <2>2
        <4> QED
          BY <1>2, <4>1, ShareNat
      <3> QED
        BY <2>2, <3>1 DEF scoreMemory
    <2> QED
      BY <2>1, <2>2 DEF scoreMemory
  <1>5. scoreLoad(n) \in Nat
    <2>1. Scale \in Nat /\ Scale \div 2 \in Nat
      BY ScaleHalf
    <2>2. CASE cores(n) # 0
      <3> DEFINE l == (Scale * n.load) \div (100 * cores(n))
      <3>1. l \in Int
        <4>1. Scale * n.load \in Int /\ 100 * cores(n) \in Nat \ {0}
          BY <1>1, <2>1, <2>2
        <4> QED
          BY <4>1
      <3> HIDE DEF l
      <3>2. Scale - Min({l, Scale}) \in Nat
        BY <2>1, <3>1, MinOfTwo
      <3> QED
        BY <2>2, <3>2 DEF scoreLoad, l
    <2> QED
      BY <2>1, <2>2 DEF scoreLoad
  <1>6. PICK x, y, z \in Nat : /\ x = scoreCPU(q, n)
                               /\ y = scoreMemory(q, n)
                               /\ z = scoreLoad(n)
    BY <1>3, <1>4, <1>5
  <1>7. PICK half \in Nat \ {0} : half = Scale \div 2
    BY ScaleHalf
  <1>8. 35 * x + 30 * y + 25 * z + 10 * half \in Nat \ {0}
    OBVIOUS
  <1> QED
    BY <1>6, <1>7, <1>8, Zenon DEF Fitness

LEMMA PenaltyRange ==
    ASSUME NEW n \in ListedNode
    PROVE  /\ taskPenalty(n) \in 5..10
           /\ taskPenalty(n) = 10 - Min({n.running, 5})
           /\ Min({n.running, 5}) \in Nat
  <1>1. n.running \in Nat
    BY PlacementAssumptions DEF ListedNode
  <1> QED
    BY <1>1, MinOfTwo DEF taskPenalty

LEMMA ScoreInt ==
    ASSUME NEW q \in PlaceRequests, NEW n \in ListedNode
    PROVE  /\ ScoreNode(q, n) = taskPenalty(n) * Fitness(q, n)
           /\ ScoreNode(q, n) \in Int
  <1>1. ScoreNode(q, n) = taskPenalty(n) * Fitness(q, n)
    BY DEF ScoreNode, Fitness
  <1>2. taskPenalty(n) \in Int /\ Fitness(q, n) \in Int
    <2>1. taskPenalty(n) \in 5..10
      BY PenaltyRange
    <2>2. Fitness(q, n) \in Nat \ {0}
      BY FitnessPositive
    <2> QED
      BY <2>1, <2>2
  <1> QED
    BY <1>1, <1>2

\* Of two nodes that differ in the count only, one that scores no less counts
\* no more, up to five.
LEMMA BetterIsLessBusy ==
    ASSUME NEW q \in PlaceRequests, NEW n \in ListedNode, NEW m \in ListedNode,
           Fitness(q, n) = Fitness(q, m),
           ScoreNode(q, n) >= ScoreNode(q, m)
    PROVE  Min({n.running, 5}) <= Min({m.running, 5})
  <1>1. PICK f \in Nat \ {0} : f = Fitness(q, n)
    BY FitnessPositive
  <1>2. PICK a \in 5..10 : a = taskPenalty(n)
    BY PenaltyRange
  <1>3. PICK b \in 5..10 : b = taskPenalty(m)
    BY PenaltyRange
  <1>4. a * f >= b * f
    <2>1. ScoreNode(q, n) = a * f
      BY <1>1, <1>2, ScoreInt
    <2>2. ScoreNode(q, m) = b * f
      BY <1>1, <1>3, ScoreInt
    <2> QED
      BY <2>1, <2>2
  <1>5. a >= b
    <2>1. SUFFICES ASSUME b >= a + 1
                   PROVE  FALSE
      OBVIOUS
    <2>2. b * f = a * f + (b - a) * f
      OBVIOUS
    <2>3. (b - a) * f >= 1
      <3>1. b - a \in Nat /\ b - a >= 1
        BY <2>1
      <3> QED
        BY <3>1
    <2>4. a * f \in Int /\ b * f \in Int /\ (b - a) * f \in Int
      OBVIOUS
    <2> QED
      BY <1>4, <2>2, <2>3, <2>4
  <1>6. PICK u \in Nat : u = Min({n.running, 5}) /\ a = 10 - u
    BY <1>2, PenaltyRange
  <1>7. PICK v \in Nat : v = Min({m.running, 5}) /\ b = 10 - v
    BY <1>3, PenaltyRange
  <1> QED
    BY <1>5, <1>6, <1>7

-----------------------------------------------------------------------------
(* The theorems. *)

LEMMA PlaceTypeInit == PlaceInit => PlaceTypeOK
  <1> SUFFICES ASSUME PlaceInit
               PROVE  PlaceTypeOK
    OBVIOUS
  <1>1. NoMetrics \in [cpu : Usages, memory : Usages, load : Nat,
                      running : 0..MaxRunning]
    BY PlacementAssumptions DEF NoMetrics, Usages
  <1>2. listed \in Seq(ListedNode)
    BY DEF PlaceInit
  <1> QED
    BY <1>1, <1>2 DEF PlaceInit, PlaceTypeOK, ListedNode

LEMMA ChosenIsListed ==
    ASSUME NEW q \in PlaceRequests, PlaceTypeOK, findBestNode(q, listed) # <<>>
    PROVE  findBestNode(q, listed)[1] \in ListedNode
  <1>1. listed \in Seq(ListedNode)
    BY DEF PlaceTypeOK, ListedNode
  <1>2. \A n \in ListedNode : ScoreNode(q, n) \in Int
    BY ScoreInt
  <1>3. PICK i \in 1..Len(listed) : findBestNode(q, listed) = <<listed[i]>>
    BY <1>1, <1>2, ChosenNode
  <1> QED
    BY <1>1, <1>3

LEMMA PlaceTypeStep ==
    ASSUME PlaceTypeOK, [PlaceNext]_placeVars
    PROVE  PlaceTypeOK'
  <1> DEFINE Live == [cpu : Usages, memory : Usages, load : Nat,
                      running : 0..MaxRunning]
  <1>1. metrics \in [PlaceNode -> Live] /\ listed \in Seq(ListedNode)
    BY DEF PlaceTypeOK, ListedNode
  <1>2. SUFFICES ASSUME PlaceNext
                 PROVE  PlaceTypeOK'
    BY DEF PlaceTypeOK, placeVars
  <1>3. ASSUME NEW n \in PlaceNode, NEW m \in Reports, ReportMetrics(n, m)
        PROVE  PlaceTypeOK'
    <2>1. m \in Live
      BY PlacementAssumptions
    <2>2. metrics' \in [PlaceNode -> Live]
      <3> HIDE DEF Live
      <3> QED
        BY <1>1, <1>3, <2>1 DEF ReportMetrics
    <2> QED
      BY <1>3, <2>2 DEF ReportMetrics, PlaceTypeOK
  <1>4. ASSUME NEW S \in SUBSET PlaceNode, ListOnline(S)
        PROVE  PlaceTypeOK'
    <2>1. Cardinality(S) \in Nat
      BY PlacementAssumptions, FS_Subset, FS_CardinalityType DEF PlaceNode
    <2>2. PICK row \in [1..Cardinality(S) -> S] :
             listed' = [i \in DOMAIN row |->
                          LET m == metrics[row[i]]
                          IN  [node |-> row[i], cpu |-> m.cpu,
                               memory |-> m.memory, load |-> m.load,
                               running |-> m.running]]
      BY <1>4 DEF ListOnline
    <2>3. ASSUME NEW i \in 1..Cardinality(S)
          PROVE  listed'[i] \in ListedNode
      <3>1. row[i] \in PlaceNode /\ metrics[row[i]] \in Live
        BY <1>1
      <3>2. listed'[i] = [node |-> row[i], cpu |-> metrics[row[i]].cpu,
                          memory |-> metrics[row[i]].memory,
                          load |-> metrics[row[i]].load,
                          running |-> metrics[row[i]].running]
        BY <2>2
      <3> QED
        BY <3>1, <3>2 DEF ListedNode
    <2>4. listed' = [i \in 1..Cardinality(S) |-> listed'[i]]
      BY <2>2
    <2>5. listed' \in Seq(ListedNode)
      BY <2>1, <2>3, <2>4
    <2> QED
      BY <1>4, <2>5 DEF ListOnline, PlaceTypeOK, ListedNode
  <1>5. ASSUME NEW q \in PlaceRequests, PlaceOne(q)
        PROVE  PlaceTypeOK'
    <2>1. CASE findBestNode(q, listed) = <<>>
      BY <1>5, <2>1 DEF PlaceOne, PlaceTypeOK
    <2>2. CASE findBestNode(q, listed) # <<>>
      <3>1. PICK n \in ListedNode : n = findBestNode(q, listed)[1]
        BY <2>2, ChosenIsListed
      <3>2. /\ n.running < MaxRunning
            /\ metrics' = [metrics EXCEPT ![n.node] =
                             [cpu |-> n.cpu, memory |-> n.memory,
                              load |-> n.load, running |-> n.running + 1]]
            /\ UNCHANGED <<listed, placing>>
        BY <1>5, <2>2, <3>1 DEF PlaceOne
      <3>3. [cpu |-> n.cpu, memory |-> n.memory, load |-> n.load,
             running |-> n.running + 1] \in Live
        BY <3>2, PlacementAssumptions DEF ListedNode
      <3>4. metrics' \in [PlaceNode -> Live]
        <4> HIDE DEF Live
        <4> QED
          BY <1>1, <3>2, <3>3
      <3> QED
        BY <3>2, <3>4 DEF PlaceTypeOK
    <2> QED
      BY <2>1, <2>2
  <1>6. ASSUME EndCycle
        PROVE  PlaceTypeOK'
    <2>1. listed' \in Seq(ListedNode)
      BY <1>6 DEF EndCycle
    <2> QED
      BY <1>6, <2>1 DEF EndCycle, PlaceTypeOK, ListedNode
  <1> QED
    BY <1>2, <1>3, <1>4, <1>5, <1>6 DEF PlaceNext

\* The live metrics and the list of a cycle stay in their domains: every listed
\* node is in the inventory, and the list written back brings none in.
THEOREM PlaceTypeCorrect == PlaceSpec => []PlaceTypeOK
  BY PlaceTypeInit, PlaceTypeStep, PTL DEF PlaceSpec

\* What ChosenNode says of the list of the cycle.
LEMMA ChosenOfListed ==
    ASSUME PlaceTypeOK, NEW q \in PlaceRequests
    PROVE  /\ findBestNode(q, listed) = PlaceTask(q, listed)
           /\ \/ findBestNode(q, listed) = <<>> /\ Suitable(q) = {}
              \/ \E i \in Suitable(q) :
                    /\ findBestNode(q, listed) = <<listed[i]>>
                    /\ q.target = Unpinned =>
                          \A j \in Suitable(q) :
                             ScoreNode(q, listed[i]) >= ScoreNode(q, listed[j])
  <1>1. listed \in Seq(ListedNode) /\ DOMAIN listed = 1..Len(listed)
    BY DEF PlaceTypeOK, ListedNode
  <1>2. \A n \in ListedNode : ScoreNode(q, n) \in Int
    BY ScoreInt
  <1>3. \A i : i \in Suitable(q) <=> /\ i \in 1..Len(listed)
                                    /\ SuitableFor(q, listed[i])
    BY <1>1 DEF Suitable, SuitableFor
  <1>4. findBestNode(q, listed) = PlaceTask(q, listed)
    BY <1>1, SameNode
  <1>5. CASE /\ findBestNode(q, listed) = <<>>
             /\ \A i \in 1..Len(listed) : ~SuitableFor(q, listed[i])
    BY <1>3, <1>4, <1>5
  <1>6. CASE \E i \in 1..Len(listed) :
                /\ findBestNode(q, listed) = <<listed[i]>>
                /\ SuitableFor(q, listed[i])
                /\ q.target = Unpinned =>
                      \A j \in 1..Len(listed) : SuitableFor(q, listed[j]) =>
                         ScoreNode(q, listed[i]) >= ScoreNode(q, listed[j])
    BY <1>3, <1>4, <1>6
  <1> QED
    BY <1>1, <1>2, <1>5, <1>6, ChosenNode

\* The loop the scheduler uses and the pipeline nothing calls take the same
\* node of any list, for any task: a suitable one, and none only when none is
\* suitable.
THEOREM SameChoiceHolds == PlaceSpec => []SameChoice
  <1>1. ASSUME PlaceTypeOK
        PROVE  SameChoice
    <2> SUFFICES ASSUME NEW q \in PlaceRequests
                 PROVE  LET best == findBestNode(q, listed)
                        IN  /\ best = PlaceTask(q, listed)
                            /\ Range(best) \subseteq
                                  {listed[i] : i \in Suitable(q)}
                            /\ best = <<>> <=> Suitable(q) = {}
      BY DEF SameChoice
    <2>1. CASE findBestNode(q, listed) = <<>> /\ Suitable(q) = {}
      <3>1. Range(<<>>) = {}
        BY DEF Range
      <3> QED
        BY <1>1, <2>1, <3>1, ChosenOfListed
    <2>2. CASE \E i \in Suitable(q) : findBestNode(q, listed) = <<listed[i]>>
      <3>1. PICK i \in Suitable(q) : findBestNode(q, listed) = <<listed[i]>>
        BY <2>2
      <3>2. Range(<<listed[i]>>) = {listed[i]}
        BY DEF Range
      <3> QED
        BY <1>1, <3>1, <3>2, ChosenOfListed
    <2> QED
      BY <1>1, <2>1, <2>2, ChosenOfListed
  <1> QED
    BY <1>1, PlaceTypeCorrect, PTL

\* Of nodes that are alike but for the count of running tasks the scheduler
\* takes one that counts fewest, up to five, however old the list is and
\* whatever is reported meanwhile.
THEOREM SpreadsTasksHolds == PlaceSpec => []SpreadsTasks
  <1>1. ASSUME PlaceTypeOK
        PROVE  SpreadsTasks
    <2> SUFFICES ASSUME NEW q \in PlaceRequests, NEW i \in Suitable(q),
                        q.target = Unpinned,
                        NEW best, best = findBestNode(q, listed)[1],
                        NEW n, n = listed[i],
                        cores(n) = cores(best), memory(n) = memory(best),
                        n.cpu = best.cpu, n.memory = best.memory,
                        n.load = best.load
                 PROVE  Min({best.running, 5}) <= Min({n.running, 5})
      BY DEF SpreadsTasks
    <2>1. PICK j \in Suitable(q) :
             /\ findBestNode(q, listed) = <<listed[j]>>
             /\ \A k \in Suitable(q) :
                   ScoreNode(q, listed[j]) >= ScoreNode(q, listed[k])
      BY <1>1, ChosenOfListed
    <2>2. best = listed[j] /\ ScoreNode(q, best) >= ScoreNode(q, n)
      BY <2>1
    <2>3. n \in ListedNode /\ best \in ListedNode
      <3>1. listed \in Seq(ListedNode)
        BY <1>1 DEF PlaceTypeOK, ListedNode
      <3>2. i \in DOMAIN listed /\ j \in DOMAIN listed
        BY DEF Suitable
      <3> QED
        BY <2>2, <3>1, <3>2
    <2>4. Fitness(q, best) = Fitness(q, n)
      BY DEF Fitness, scoreCPU, scoreMemory, scoreLoad, availableCores,
             availableMemory
    <2> QED
      BY <2>2, <2>3, <2>4, BetterIsLessBusy
  <1> QED
    BY <1>1, PlaceTypeCorrect, PTL
=============================================================================
