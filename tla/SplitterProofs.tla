--------------------------- MODULE SplitterProofs ---------------------------
(***************************************************************************)
(* The splitter for files, chunks and buffers of any size, and any way the *)
(* file changes while it is copied.                                        *)
(***************************************************************************)
EXTENDS Splitter, TLAPS

-----------------------------------------------------------------------------
(* Numbers. *)

LEMMA MinIs ==
    ASSUME NEW S, S \subseteq Int, NEW m \in S, \A x \in S : m <= x
    PROVE  Min(S) = m
  <1>1. \A n \in S : (\A x \in S : n <= x) => n = m
    OBVIOUS
  <1> QED
    BY <1>1 DEF Min

LEMMA MinOfTwo ==
    ASSUME NEW a \in Int, NEW b \in Int
    PROVE  Min({a, b}) = IF a <= b THEN a ELSE b
  <1>1. CASE a <= b
    BY <1>1, MinIs
  <1>2. CASE ~(a <= b)
    BY <1>2, MinIs
  <1> QED
    BY <1>1, <1>2

LEMMA MinOfThree ==
    ASSUME NEW a \in Int, NEW b \in Int, NEW c \in Int
    PROVE  LET m == Min({a, b, c})
           IN  m \in {a, b, c} /\ m <= a /\ m <= b /\ m <= c
  <1>1. PICK m \in {a, b, c} : \A x \in {a, b, c} : m <= x
    OBVIOUS
  <1>2. Min({a, b, c}) = m
    BY <1>1, MinIs
  <1> QED
    BY <1>1, <1>2

LEMMA MaxWithZero ==
    ASSUME NEW a \in Int
    PROVE  Max({a, 0}) = IF a > 0 THEN a ELSE 0
  <1>1. \E m \in {a, 0} : \A x \in {a, 0} : x <= m
    OBVIOUS
  <1> QED
    BY <1>1 DEF Max

LEMMA CeilBounds ==
    ASSUME NEW n \in Nat, NEW K \in Nat \ {0}
    PROVE  /\ ceil(n, K) \in Nat
           /\ ceil(n, K) * K >= n
           /\ (ceil(n, K) - 1) * K < n
  BY DEF ceil

LEMMA ProductsGrow ==
    ASSUME NEW K \in Nat \ {0}, NEW i \in Int, NEW j \in Int, i < j
    PROVE  i * K + K <= j * K
  <1>1. PICK d \in Nat : j = i + 1 + d
    <2>1. j - i - 1 \in Nat /\ j = i + 1 + (j - i - 1)
      OBVIOUS
    <2> QED
      BY <2>1
  <1>2. j * K = i * K + K + d * K
    BY <1>1
  <1>3. d * K >= 0
    BY <1>1
  <1>4. i * K \in Int
    OBVIOUS
  <1> QED
    BY <1>2, <1>3, <1>4

LEMMA OneMore ==
    ASSUME NEW L \in Nat \ {0}, NEW K \in Nat \ {0}
    PROVE  (L - 1) * K \in Nat /\ L * K \in Nat /\ (L - 1) * K + K = L * K
  <1>1. PICK i \in Nat : L = i + 1
    <2>1. L - 1 \in Nat /\ L = (L - 1) + 1
      OBVIOUS
    <2> QED
      BY <2>1
  <1>2. L - 1 = i /\ i * K \in Nat /\ (i + 1) * K = i * K + K
    BY <1>1
  <1> QED
    BY <1>1, <1>2

\* A line number l after c - 1 full chunks starts a chunk if the c-th is full.
LEMMA ChunkStarts ==
    ASSUME NEW l \in Nat, NEW K \in Nat \ {0}, NEW c \in Nat,
           (c - 1) * K < l, l <= c * K
    PROVE  l % K = 0 <=> l = c * K
  <1> DEFINE q == l \div K
             r == l % K
  <1>1. q \in Nat /\ r \in 0..(K - 1) /\ l = q * K + r
    OBVIOUS
  <1> HIDE DEF q, r
  <1>2. c * K \in Int /\ q * K \in Int /\ (c - 1) * K = c * K - K
    BY <1>1
  <1>3. CASE q < c
    <2>1. q * K + K <= c * K
      BY <1>1, <1>3, ProductsGrow
    <2>2. r # 0 => q + 1 = c
      <3>1. CASE q < c - 1
        <4>1. q * K + K <= (c - 1) * K
          BY <1>1, <3>1, ProductsGrow
        <4> QED
          BY <1>1, <1>2, <4>1
      <3>2. CASE ~(q < c - 1)
        BY <1>1, <1>3, <3>2
      <3> QED
        BY <3>1, <3>2
    <2> QED
      BY <1>1, <1>2, <2>1 DEF r
  <1>4. CASE q = c
    BY <1>1, <1>2, <1>4 DEF r
  <1>5. CASE q > c
    <2>1. c * K + K <= q * K
      BY <1>1, <1>5, ProductsGrow
    <2> QED
      BY <1>1, <1>2, <2>1
  <1> QED
    BY <1>1, <1>3, <1>4, <1>5

-----------------------------------------------------------------------------
(* Writing on: what is copied are the positions 1, ..., o, in order. *)

Sorted(p) ==
    \A i, j \in DOMAIN p :
        \A b \in DOMAIN p[i], c \in DOMAIN p[j] :
            i < j \/ (i = j /\ b < c) => p[i][b] < p[j][c]

Copied(p, o) ==
    /\ \A i \in DOMAIN p : \A b \in DOMAIN p[i] : p[i][b] \in 1..o
    /\ \A x \in 1..o : \E i \in DOMAIN p : \E b \in DOMAIN p[i] : p[i][b] = x
    /\ Sorted(p)

LEMMA CopiedMeans ==
    ASSUME NEW p, NEW o
    PROVE  Copied(p, o) =>
               UNION {ToSet(p[i]) : i \in DOMAIN p} = 1..o /\ Sorted(p)
  <1> SUFFICES ASSUME Copied(p, o)
               PROVE  UNION {ToSet(p[i]) : i \in DOMAIN p} = 1..o
    BY DEF Copied
  <1>1. ASSUME NEW x \in 1..o
        PROVE  x \in UNION {ToSet(p[i]) : i \in DOMAIN p}
    <2>1. PICK i \in DOMAIN p : \E b \in DOMAIN p[i] : p[i][b] = x
      BY DEF Copied
    <2>2. x \in ToSet(p[i])
      BY <2>1 DEF ToSet
    <2> QED
      BY <2>2
  <1>2. ASSUME NEW i \in DOMAIN p, NEW x \in ToSet(p[i])
        PROVE  x \in 1..o
    BY DEF ToSet, Copied
  <1> QED
    BY <1>1, <1>2

\* q is p with n positions more at the end of its last file, the k-th, which
\* held m.
Extended(p, q, k, m, n, o) ==
    /\ DOMAIN q = 1..k
    /\ DOMAIN p \subseteq 1..k
    /\ \A i \in 1..(k - 1) : i \in DOMAIN p /\ q[i] = p[i]
    /\ IF k \in DOMAIN p THEN DOMAIN p[k] = 1..m ELSE m = 0
    /\ DOMAIN q[k] = 1..(m + n)
    /\ \A b \in 1..m : q[k][b] = p[k][b]
    /\ \A b \in 1..n : q[k][m + b] = o + b

LEMMA CopiedOn ==
    ASSUME NEW p, NEW q, NEW k \in Nat \ {0}, NEW m \in Nat, NEW n \in Nat,
           NEW o \in Nat, Copied(p, o), Extended(p, q, k, m, n, o)
    PROVE  Copied(q, o + n)
  <1>1. ASSUME NEW i \in 1..k, NEW b \in DOMAIN q[i]
        PROVE  \/ /\ i \in DOMAIN p /\ b \in DOMAIN p[i]
                  /\ q[i][b] = p[i][b] /\ q[i][b] \in 1..o
               \/ /\ i = k /\ b \in (m + 1)..(m + n)
                  /\ q[i][b] = o + (b - m)
    <2>1. CASE i # k
      <3>1. i \in 1..(k - 1)
        BY <2>1
      <3> QED
        BY <3>1 DEF Extended, Copied
    <2>2. CASE i = k /\ b \in 1..m
      <3>1. k \in DOMAIN p
        BY <2>2 DEF Extended
      <3> QED
        BY <2>2, <3>1 DEF Extended, Copied
    <2>3. CASE i = k /\ b \notin 1..m
      <3>1. b \in 1..(m + n)
        BY <2>3 DEF Extended
      <3>2. b - m \in 1..n /\ m + (b - m) = b
        BY <2>3, <3>1
      <3>3. q[k][m + (b - m)] = o + (b - m)
        BY <3>2 DEF Extended
      <3> QED
        BY <2>3, <3>1, <3>2, <3>3
    <2> QED
      BY <2>1, <2>2, <2>3
  <1>2. DOMAIN q = 1..k
    BY DEF Extended
  <1>3. ASSUME NEW i \in DOMAIN q, NEW b \in DOMAIN q[i]
        PROVE  q[i][b] \in 1..(o + n)
    BY <1>1, <1>2
  <1>4. ASSUME NEW x \in 1..(o + n)
        PROVE  \E i \in DOMAIN q : \E b \in DOMAIN q[i] : q[i][b] = x
    <2>1. CASE x \in 1..o
      <3>0. PICK i \in DOMAIN p : \E b \in DOMAIN p[i] : p[i][b] = x
        BY <2>1 DEF Copied
      <3>1. PICK b \in DOMAIN p[i] : p[i][b] = x
        BY <3>0
      <3>2. CASE i # k
        <4>1. i \in 1..(k - 1)
          BY <3>2 DEF Extended
        <4> QED
          BY <1>2, <3>1, <4>1 DEF Extended
      <3>3. CASE i = k
        <4>1. b \in 1..m /\ b \in 1..(m + n)
          BY <3>3 DEF Extended
        <4> QED
          BY <1>2, <3>1, <3>3, <4>1 DEF Extended
      <3> QED
        BY <3>2, <3>3
    <2>2. CASE x \notin 1..o
      <3>1. x - o \in 1..n /\ o + (x - o) = x /\ m + (x - o) \in 1..(m + n)
        BY <2>2
      <3>2. q[k][m + (x - o)] = x
        BY <3>1 DEF Extended
      <3>3. k \in DOMAIN q /\ m + (x - o) \in DOMAIN q[k]
        BY <1>2, <3>1 DEF Extended
      <3> QED
        BY <3>2, <3>3
    <2> QED
      BY <2>1, <2>2
  <1>5. ASSUME NEW i \in DOMAIN q, NEW j \in DOMAIN q,
               NEW b \in DOMAIN q[i], NEW c \in DOMAIN q[j],
               i < j \/ (i = j /\ b < c)
        PROVE  q[i][b] < q[j][c]
    <2>1. CASE /\ j \in DOMAIN p /\ c \in DOMAIN p[j]
               /\ q[j][c] = p[j][c] /\ q[j][c] \in 1..o
      <3>1. ~(i = k /\ b \in (m + 1)..(m + n))
        <4>1. SUFFICES ASSUME i = k, b \in (m + 1)..(m + n)
                       PROVE  FALSE
          OBVIOUS
        <4>2. j = k /\ b < c
          BY <1>2, <1>5, <4>1
        <4>3. c \in 1..m
          BY <2>1, <4>2 DEF Extended
        <4> QED
          BY <4>1, <4>2, <4>3
      <3>2. i \in DOMAIN p /\ b \in DOMAIN p[i] /\ q[i][b] = p[i][b]
        BY <1>1, <1>2, <3>1
      <3> QED
        BY <1>5, <2>1, <3>2 DEF Copied, Sorted
    <2>2. CASE /\ j = k /\ c \in (m + 1)..(m + n)
               /\ q[j][c] = o + (c - m)
      <3>1. CASE q[i][b] \in 1..o
        BY <2>2, <3>1
      <3>2. CASE i = k /\ b \in (m + 1)..(m + n) /\ q[i][b] = o + (b - m)
        BY <1>5, <2>2, <3>2
      <3> QED
        BY <1>1, <1>2, <3>1, <3>2
    <2> QED
      BY <1>1, <1>2, <2>1, <2>2
  <1> QED
    BY <1>3, <1>4, <1>5 DEF Copied, Sorted

LEMMA NoPieces ==
    /\ <<>> \in Seq(Seq(Nat)) /\ Len(<<>>) = 0 /\ DOMAIN <<>> = {}
    /\ Copied(<<>>, 0)
  <1>1. <<>> \in Seq(Seq(Nat)) /\ Len(<<>>) = 0
    OBVIOUS
  <1>2. DOMAIN <<>> = 1..0
    BY <1>1
  <1>3. 1..0 = {}
    OBVIOUS
  <1> QED
    BY <1>1, <1>2, <1>3 DEF Copied, Sorted

LEMMA Appended ==
    ASSUME NEW p \in Seq(Seq(Nat)), NEW s \in Seq(Nat)
    PROVE  LET q == Append(p, s)
           IN  /\ q \in Seq(Seq(Nat)) /\ q # <<>>
               /\ Len(q) = Len(p) + 1
               /\ q[Len(q)] = s
               /\ \A i \in 1..Len(p) : q[i] = p[i]
  <1> DEFINE q == Append(p, s)
  <1>1. q \in Seq(Seq(Nat)) /\ Len(q) = Len(p) + 1 /\ Len(p) \in Nat
    OBVIOUS
  <1>2. q[Len(p) + 1] = s /\ \A i \in 1..Len(p) : q[i] = p[i]
    OBVIOUS
  <1> HIDE DEF q
  <1>3. q # <<>>
    BY <1>1
  <1> QED
    BY <1>1, <1>2, <1>3 DEF q

LEMMA Concat ==
    ASSUME NEW a \in Seq(Nat), NEW s \in Seq(Nat)
    PROVE  LET c == a \o s
           IN  /\ c \in Seq(Nat) /\ Len(c) = Len(a) + Len(s)
               /\ \A b \in 1..Len(a) : c[b] = a[b]
               /\ \A b \in 1..Len(s) : c[Len(a) + b] = s[b]
  <1>1. Len(a) \in Nat /\ Len(s) \in Nat
    OBVIOUS
  <1>2. a \o s \in Seq(Nat) /\ Len(a \o s) = Len(a) + Len(s)
    OBVIOUS
  <1>3. \A b \in 1..Len(a) : (a \o s)[b] = a[b]
    OBVIOUS
  <1>4. ASSUME NEW b \in 1..Len(s)
        PROVE  (a \o s)[Len(a) + b] = s[b]
    BY <1>1
  <1> QED
    BY <1>2, <1>3, <1>4

LEMMA WrittenOn ==
    ASSUME NEW p \in Seq(Seq(Nat)), p # <<>>, NEW s \in Seq(Nat)
    PROVE  LET q == [p EXCEPT ![Len(p)] = @ \o s]
           IN  /\ q \in Seq(Seq(Nat)) /\ q # <<>>
               /\ Len(q) = Len(p)
               /\ q[Len(q)] = p[Len(p)] \o s
               /\ \A i \in 1..(Len(p) - 1) : q[i] = p[i]
  <1> DEFINE q == [p EXCEPT ![Len(p)] = @ \o s]
  <1>1. Len(p) \in Nat \ {0} /\ p[Len(p)] \in Seq(Nat)
    OBVIOUS
  <1>2. q \in Seq(Seq(Nat)) /\ Len(q) = Len(p)
    BY <1>1
  <1>3. q[Len(p)] = p[Len(p)] \o s /\ \A i \in 1..(Len(p) - 1) : q[i] = p[i]
    BY <1>1
  <1> HIDE DEF q
  <1>4. q # <<>>
    BY <1>1, <1>2
  <1> QED
    BY <1>2, <1>3, <1>4 DEF q

\* A new file that begins with s.
LEMMA AppendCopies ==
    ASSUME NEW p \in Seq(Seq(Nat)), NEW s \in Seq(Nat), NEW o \in Nat,
           Copied(p, o), \A b \in 1..Len(s) : s[b] = o + b
    PROVE  Copied(Append(p, s), o + Len(s))
  <1> DEFINE q == Append(p, s)
             k == Len(p) + 1
  <1>1. /\ DOMAIN q = 1..k /\ DOMAIN p = 1..Len(p) /\ k \notin DOMAIN p
        /\ \A i \in 1..Len(p) : q[i] = p[i]
        /\ q[k] = s /\ DOMAIN s = 1..Len(s)
    OBVIOUS
  <1>2. k \in Nat \ {0} /\ k - 1 = Len(p) /\ Len(s) \in Nat
    OBVIOUS
  <1> HIDE DEF q, k
  <1>3. Extended(p, q, k, 0, Len(s), o)
    <2>1. DOMAIN p \subseteq 1..k
      BY <1>1, <1>2
    <2>2. \A i \in 1..(k - 1) : i \in DOMAIN p /\ q[i] = p[i]
      BY <1>1, <1>2
    <2>3. DOMAIN q[k] = 1..(0 + Len(s))
      BY <1>1, <1>2
    <2>4. \A b \in 1..Len(s) : q[k][0 + b] = o + b
      BY <1>1, <1>2
    <2> QED
      BY <1>1, <2>1, <2>2, <2>3, <2>4 DEF Extended
  <1>4. Copied(q, o + Len(s))
    BY <1>2, <1>3, CopiedOn
  <1> QED
    BY <1>4 DEF q

\* The last file goes on with s.
LEMMA WriteCopies ==
    ASSUME NEW p \in Seq(Seq(Nat)), p # <<>>, NEW s \in Seq(Nat),
           NEW o \in Nat, Copied(p, o), \A b \in 1..Len(s) : s[b] = o + b
    PROVE  Copied([p EXCEPT ![Len(p)] = @ \o s], o + Len(s))
  <1> DEFINE q == [p EXCEPT ![Len(p)] = @ \o s]
             k == Len(p)
             m == Len(p[k])
  <1>1. /\ q \in Seq(Seq(Nat)) /\ Len(q) = k /\ q[k] = p[k] \o s
        /\ \A i \in 1..(k - 1) : q[i] = p[i]
    BY WrittenOn
  <1>2. k \in Nat \ {0} /\ DOMAIN p = 1..k /\ p[k] \in Seq(Nat)
    OBVIOUS
  <1> HIDE DEF q, k
  <1>3. DOMAIN q = 1..k
    BY <1>1
  <1>4. m \in Nat /\ Len(s) \in Nat /\ DOMAIN p[k] = 1..m
    BY <1>2
  <1>5. /\ DOMAIN q[k] = 1..(m + Len(s))
        /\ \A b \in 1..m : q[k][b] = p[k][b]
        /\ \A b \in 1..Len(s) : q[k][m + b] = s[b]
    <2>1. /\ p[k] \o s \in Seq(Nat) /\ Len(p[k] \o s) = m + Len(s)
          /\ \A b \in 1..m : (p[k] \o s)[b] = p[k][b]
          /\ \A b \in 1..Len(s) : (p[k] \o s)[m + b] = s[b]
      BY <1>2, Concat
    <2> QED
      BY <1>1, <2>1
  <1> HIDE DEF m
  <1>6. Extended(p, q, k, m, Len(s), o)
    <2>1. \A i \in 1..(k - 1) : i \in DOMAIN p
      BY <1>2
    <2>2. k \in DOMAIN p /\ DOMAIN p \subseteq 1..k
      BY <1>2
    <2>3. \A b \in 1..Len(s) : q[k][m + b] = o + b
      BY <1>5
    <2> QED
      BY <1>1, <1>3, <1>4, <1>5, <2>1, <2>2, <2>3, Zenon DEF Extended
  <1>7. Copied(q, o + Len(s))
    BY <1>2, <1>4, <1>6, CopiedOn
  <1> QED
    BY <1>7 DEF q, k

-----------------------------------------------------------------------------
(* The invariant. *)

CutTask == request.strategy \in {"chunk", "map-reduce"}

\* How far the copying would be if every file but the last were full.
UpTo == IF pieces = <<>> THEN 0
        ELSE (Len(pieces) - 1) * ChunkSize + Len(LastPiece)

\* A file that is not full and not the last was ended by the end of the input.
FullOrCut(i) ==
    \/ Len(pieces[i]) = ChunkSize
    \/ i = Len(pieces)
    \/ BySize /\ shortest < measured

LastIsFull == pieces # <<>> => Len(LastPiece) = ChunkSize

PiecesInv ==
    /\ Copied(pieces, offset)
    /\ \A i \in DOMAIN pieces : Len(pieces[i]) <= ChunkSize /\ FullOrCut(i)
    /\ offset <= UpTo
    /\ offset = UpTo \/ (BySize /\ shortest <= offset)
    /\ BySize /\ ~filling => LastIsFull \/ shortest <= offset
    /\ ~BySize /\ pieces # <<>> => LastPiece # <<>>

ProgressInv ==
    /\ error = "not split" => pieces = <<>> /\ offset = 0
    /\ error = "copying" =>
           /\ CutTask
           /\ shortest <= length /\ shortest <= measured
           /\ BySize => Len(pieces) <= numChunks
    /\ filling => BySize /\ error = "copying"
    /\ error = NoError /\ CutTask =>
           shortest <= offset /\ (BySize \/ length <= offset)

SplitInv == SplitTypeOK /\ PiecesInv /\ ProgressInv

LEMMA RequestFacts ==
    ASSUME NEW r \in ChunkRequests \cup OtherRequests
    PROVE  r.chunkSize \in Int /\ r.stages \in Nat /\ r.maxNodes \in Nat
  <1>1. /\ -1..MaxLength \in SUBSET Int /\ {0} \in SUBSET Int
        /\ 1..MaxStages \in SUBSET Nat /\ 0..MaxOnline \in SUBSET Nat
        /\ {0} \in SUBSET Nat /\ {1} \in SUBSET Nat
    BY SplitterAssumptions
  <1>2. ASSUME NEW a, NEW b, NEW s \in SUBSET Int, NEW c \in SUBSET Nat,
               NEW d \in SUBSET Nat, NEW q \in SplitRequests(a, b, s, c, d)
        PROVE  q.chunkSize \in Int /\ q.stages \in Nat /\ q.maxNodes \in Nat
    BY <1>2 DEF SplitRequests
  <1> QED
    BY <1>1, <1>2 DEF ChunkRequests, OtherRequests

LEMMA TypeFacts ==
    ASSUME SplitTypeOK
    PROVE  /\ ChunkSize \in Nat \ {0}
           /\ online \in Nat /\ length \in Nat /\ measured \in Nat
           /\ shortest \in Nat /\ offset \in Nat
           /\ request.stages \in Nat /\ request.maxNodes \in Nat
           /\ pieces \in Seq(Seq(Nat)) /\ Len(pieces) \in Nat
           /\ pieces # <<>> => /\ Len(pieces) \in Nat \ {0}
                               /\ LastPiece \in Seq(Nat)
                               /\ Len(LastPiece) \in Nat
  <1>1. request.chunkSize \in Int /\ request.stages \in Nat
        /\ request.maxNodes \in Nat
    BY RequestFacts DEF SplitTypeOK
  <1>2. ChunkSize \in Nat \ {0}
    BY <1>1, SplitterAssumptions DEF ChunkSize
  <1>3. pieces \in Seq(Seq(Nat)) /\ Len(pieces) \in Nat
    BY DEF SplitTypeOK
  <1>4. pieces # <<>> => Len(pieces) \in Nat \ {0} /\ LastPiece \in Seq(Nat)
    BY <1>3 DEF LastPiece
  <1>5. {online, length, measured, shortest, offset} \subseteq Nat
    BY DEF SplitTypeOK
  <1> QED
    BY <1>1, <1>2, <1>3, <1>4, <1>5

LEMMA SplitInvInit == SplitInit => SplitInv
  <1> SUFFICES ASSUME SplitInit
               PROVE  SplitInv
    OBVIOUS
  <1>1. /\ pieces = <<>> /\ chunks = <<>> /\ ~filling /\ filling \in BOOLEAN
        /\ offset = 0 /\ measured = 0 /\ shortest = 0 /\ error = "not split"
        /\ request \in ChunkRequests \cup OtherRequests
    BY DEF SplitInit, Unopened
  <1>2. online \in Nat /\ length \in Nat
    <2>1. MaxLength \in Nat /\ MaxOnline \in Nat
      BY SplitterAssumptions
    <2>2. /\ online = 0 \/ online \in 0..MaxOnline
          /\ length = 0 \/ length \in 0..MaxLength
      BY DEF SplitInit, Unopened
    <2> QED
      BY <2>1, <2>2
  <1>3. SplitTypeOK
    <2>1. /\ pieces \in Seq(Seq(Nat))
          /\ chunks \in Seq([kind : {"chunk", "map", "pipe", "replica"},
                             index : Nat])
      <3>1. pieces = <<>> /\ chunks = <<>>
        BY <1>1
      <3> QED
        BY <3>1
    <2>2. {online, length, measured, shortest, offset} \subseteq Nat
      <3>1. offset = 0 /\ measured = 0 /\ shortest = 0
        BY <1>1
      <3> QED
        BY <1>2, <3>1
    <2> QED
      BY <1>1, <2>1, <2>2 DEF SplitTypeOK
  <1>4. PiecesInv
    <2>1. DOMAIN pieces = {} /\ Copied(pieces, offset)
      BY <1>1, NoPieces
    <2>2. UpTo = 0 /\ offset <= UpTo
      <3>1. UpTo = 0
        BY <1>1 DEF UpTo
      <3>2. offset = 0
        BY <1>1
      <3> QED
        BY <3>1, <3>2
    <2> QED
      BY <1>1, <2>1, <2>2 DEF PiecesInv, LastIsFull
  <1>5. ProgressInv
    BY <1>1 DEF ProgressInv, NoError
  <1> QED
    BY <1>3, <1>4, <1>5 DEF SplitInv

\* What the steps that leave the pieces alone have to show.
LEMMA PiecesStay ==
    ASSUME SplitInv, UNCHANGED <<request, pieces, offset, filling>>,
           shortest' \in Nat, measured' \in Nat,
           \/ pieces = <<>> /\ offset = 0
           \/ UNCHANGED measured /\ shortest' <= shortest
    PROVE  PiecesInv'
  <1>1. ChunkSize' = ChunkSize /\ BySize' = BySize
    BY DEF ChunkSize, BySize
  <1>2. UpTo' = UpTo /\ LastPiece' = LastPiece
    BY <1>1 DEF UpTo, LastPiece
  <1>3. CASE pieces = <<>> /\ offset = 0
    <2>1. DOMAIN pieces = {} /\ Copied(pieces, offset) /\ UpTo = 0
      BY <1>3, NoPieces DEF UpTo
    <2> QED
      BY <1>1, <1>2, <1>3, <2>1 DEF PiecesInv, LastIsFull
  <1>4. CASE UNCHANGED measured /\ shortest' <= shortest
    <2>1. shortest \in Nat /\ measured \in Nat /\ offset \in Nat
      BY TypeFacts DEF SplitInv
    <2>2. shortest <= offset => shortest' <= offset'
      BY <1>4, <2>1
    <2>3. ASSUME NEW i \in DOMAIN pieces, FullOrCut(i)
          PROVE  FullOrCut(i)'
      BY <1>1, <1>4, <2>1, <2>3 DEF FullOrCut
    <2> QED
      BY <1>1, <1>2, <2>2, <2>3 DEF SplitInv, PiecesInv, LastIsFull
  <1> QED
    BY <1>3, <1>4

LEMMA MeasureStep ==
    ASSUME SplitInv, Measure
    PROVE  SplitInv'
  <1>1. /\ length \in Nat /\ pieces = <<>> /\ offset = 0
        /\ error' # "not split" /\ error' # NoError /\ ~filling
    BY TypeFacts DEF Measure, SplitInv, ProgressInv, NoError
  <1>2. PiecesInv'
    BY <1>1, PiecesStay DEF Measure
  <1>3. SplitTypeOK'
    BY <1>1 DEF Measure, SplitInv, SplitTypeOK
  <1>4. ProgressInv'
    <2>1. ChunkSize' = ChunkSize /\ ChunkSize \in Nat \ {0}
      BY TypeFacts DEF Measure, ChunkSize, SplitInv
    <2>2. numChunks' \in Nat
      BY <1>1, <2>1, CeilBounds DEF Measure, numChunks
    <2>3. Len(pieces') = 0
      BY <1>1, NoPieces DEF Measure
    <2>4. Len(pieces') <= numChunks'
      BY <2>2, <2>3
    <2>5. shortest' <= length' /\ shortest' <= measured'
      <3>1. shortest' = length /\ length' = length /\ measured' = length
        BY DEF Measure
      <3>2. length \in Nat
        BY <1>1
      <3> QED
        BY <3>1, <3>2
    <2> QED
      BY <1>1, <2>4, <2>5 DEF Measure, ProgressInv, CutTask
  <1> QED
    BY <1>2, <1>3, <1>4 DEF SplitInv

LEMMA FileChangesStep ==
    ASSUME SplitInv, FileChanges
    PROVE  SplitInv'
  <1>1. shortest \in Nat /\ length' \in Nat /\ MaxLength \in Nat
        /\ measured \in Nat
    BY TypeFacts, SplitterAssumptions DEF FileChanges, SplitInv
  <1>2. /\ shortest' \in Nat /\ shortest' <= shortest
        /\ shortest' <= length'
    BY <1>1, MinOfTwo DEF FileChanges
  <1>3. PiecesInv'
    BY <1>1, <1>2, PiecesStay DEF FileChanges
  <1>4. SplitTypeOK'
    BY <1>1, <1>2 DEF FileChanges, SplitInv, SplitTypeOK, LastPiece, ChunkSize
  <1>5. ProgressInv'
    <2>1. numChunks' = numChunks /\ BySize' = BySize /\ CutTask' = CutTask
      BY DEF FileChanges, numChunks, ChunkSize, BySize, CutTask
    <2>2. shortest' <= measured
      BY <1>1, <1>2 DEF FileChanges, SplitInv, ProgressInv
    <2> QED
      BY <1>2, <2>1, <2>2 DEF FileChanges, SplitInv, ProgressInv, NoError
  <1> QED
    BY <1>3, <1>4, <1>5 DEF SplitInv

-----------------------------------------------------------------------------
(* The steps that copy. *)

\* Lengths and places when a file is begun: the one before it is full, or its
\* end was the end of the input, which was then shorter than when measured.
LEMMA BeginFile ==
    ASSUME SplitInv, NEW s \in Seq(Nat), NEW o \in Nat,
           o = offset + Len(s), Len(s) <= ChunkSize,
           \A b \in 1..Len(s) : s[b] = offset + b,
           pieces' = Append(pieces, s), offset' = o,
           UNCHANGED <<request, measured, shortest>>,
           LastIsFull \/ (BySize /\ shortest <= offset /\ shortest < measured)
    PROVE  /\ pieces' \in Seq(Seq(Nat)) /\ pieces' # <<>> /\ LastPiece' = s
           /\ Len(pieces') = Len(pieces) + 1
           /\ Copied(pieces, offset)'
           /\ \A i \in DOMAIN pieces' :
                 Len(pieces'[i]) <= ChunkSize /\ FullOrCut(i)'
           /\ offset' <= UpTo'
           /\ offset' = UpTo' \/ (BySize /\ shortest <= offset')
  <1>1. /\ pieces \in Seq(Seq(Nat)) /\ Len(pieces) \in Nat
        /\ ChunkSize \in Nat \ {0} /\ offset \in Nat /\ shortest \in Nat
        /\ pieces # <<>> => /\ Len(pieces) \in Nat \ {0}
                            /\ Len(LastPiece) \in Nat
    BY TypeFacts DEF SplitInv
  <1>2. ChunkSize' = ChunkSize /\ BySize' = BySize
    BY DEF ChunkSize, BySize
  <1>3. /\ pieces' \in Seq(Seq(Nat)) /\ pieces' # <<>>
        /\ Len(pieces') = Len(pieces) + 1
        /\ pieces'[Len(pieces')] = s
        /\ \A i \in 1..Len(pieces) : pieces'[i] = pieces[i]
    BY <1>1, Appended
  <1>4. LastPiece' = s
    BY <1>3 DEF LastPiece
  <1>5. Copied(pieces, offset)'
    <2>1. Copied(Append(pieces, s), offset + Len(s))
      BY <1>1, AppendCopies DEF SplitInv, PiecesInv
    <2> QED
      BY <2>1
  <1>6. ASSUME NEW i \in DOMAIN pieces'
        PROVE  Len(pieces'[i]) <= ChunkSize /\ FullOrCut(i)'
    <2>1. i \in 1..(Len(pieces) + 1)
      BY <1>3
    <2>2. CASE i = Len(pieces) + 1
      BY <1>3, <2>2 DEF FullOrCut
    <2>3. CASE i \in 1..Len(pieces)
      <3>1. pieces'[i] = pieces[i] /\ i \in DOMAIN pieces
        BY <1>1, <1>3, <2>3
      <3>2. Len(pieces[i]) <= ChunkSize /\ FullOrCut(i)
        BY <3>1 DEF SplitInv, PiecesInv
      <3>3. CASE i = Len(pieces) /\ LastIsFull
        <4>1. pieces # <<>> /\ pieces[i] = LastPiece
          BY <2>3, <3>3, NoPieces DEF LastPiece
        <4> QED
          BY <1>2, <3>1, <3>2, <3>3, <4>1 DEF FullOrCut, LastIsFull
      <3>4. CASE BySize /\ shortest < measured
        BY <1>2, <3>1, <3>2, <3>4 DEF FullOrCut
      <3>5. CASE i # Len(pieces)
        BY <1>2, <3>1, <3>2, <3>5 DEF FullOrCut
      <3> QED
        BY <3>3, <3>4, <3>5
    <2> QED
      BY <1>1, <2>1, <2>2, <2>3
  <1>7. UpTo' = Len(pieces) * ChunkSize + Len(s) /\ Len(s) \in Nat
    <2>1. UpTo' = (Len(pieces') - 1) * ChunkSize' + Len(LastPiece')
      BY <1>3 DEF UpTo
    <2>2. Len(pieces') - 1 = Len(pieces) /\ Len(s) \in Nat
      BY <1>1, <1>3
    <2> QED
      BY <1>2, <1>4, <2>1, <2>2
  <1>8. /\ UpTo \in Nat /\ Len(pieces) * ChunkSize \in Nat
        /\ UpTo <= Len(pieces) * ChunkSize
        /\ LastIsFull => UpTo = Len(pieces) * ChunkSize
    <2>1. CASE pieces = <<>>
      <3>1. UpTo = 0 /\ Len(pieces) = 0
        BY <2>1, NoPieces DEF UpTo
      <3> QED
        BY <1>1, <3>1
    <2>2. CASE pieces # <<>>
      <3>1. UpTo = (Len(pieces) - 1) * ChunkSize + Len(LastPiece)
        BY <2>2 DEF UpTo
      <3>2. Len(LastPiece) <= ChunkSize
        <4>1. Len(pieces) \in DOMAIN pieces
          BY <1>1, <2>2
        <4> QED
          BY <4>1 DEF SplitInv, PiecesInv, LastPiece
      <3>3. /\ Len(pieces) * ChunkSize \in Nat
            /\ (Len(pieces) - 1) * ChunkSize \in Nat
            /\ (Len(pieces) - 1) * ChunkSize + ChunkSize = Len(pieces) * ChunkSize
        BY <1>1, <2>2, OneMore
      <3>4. LastIsFull => Len(LastPiece) = ChunkSize
        BY <2>2 DEF LastIsFull
      <3>5. ChunkSize \in Nat /\ Len(LastPiece) \in Nat
        BY <1>1, <2>2
      <3> QED
        BY <3>1, <3>2, <3>3, <3>4, <3>5
    <2> QED
      BY <2>1, <2>2
  <1>9. offset <= UpTo /\ (offset = UpTo \/ (BySize /\ shortest <= offset))
    BY DEF SplitInv, PiecesInv
  <1>10. offset' <= UpTo'
    BY <1>1, <1>7, <1>8, <1>9
  <1>11. offset' = UpTo' \/ (BySize /\ shortest <= offset')
    <2>1. CASE BySize /\ shortest <= offset
      BY <1>1, <1>7, <2>1
    <2>2. CASE LastIsFull /\ offset = UpTo
      BY <1>1, <1>7, <1>8, <2>2
    <2> QED
      BY <1>9, <2>1, <2>2
  <1> QED
    BY <1>3, <1>4, <1>5, <1>6, <1>10, <1>11

\* The same when the last file goes on.
LEMMA GoOn ==
    ASSUME SplitInv, pieces # <<>>, NEW s \in Seq(Nat), NEW o \in Nat,
           o = offset + Len(s), Len(LastPiece) + Len(s) <= ChunkSize,
           \A b \in 1..Len(s) : s[b] = offset + b,
           pieces' = WriteToLast(s), offset' = o,
           UNCHANGED <<request, measured, shortest>>
    PROVE  /\ pieces' \in Seq(Seq(Nat)) /\ pieces' # <<>>
           /\ LastPiece' \in Seq(Nat)
           /\ Len(LastPiece') = Len(LastPiece) + Len(s)
           /\ Len(pieces') = Len(pieces)
           /\ Copied(pieces, offset)'
           /\ \A i \in DOMAIN pieces' :
                 Len(pieces'[i]) <= ChunkSize /\ FullOrCut(i)'
           /\ offset' <= UpTo'
           /\ offset' = UpTo' \/ (BySize /\ shortest <= offset')
  <1>1. /\ pieces \in Seq(Seq(Nat)) /\ Len(pieces) \in Nat \ {0}
        /\ ChunkSize \in Nat \ {0} /\ offset \in Nat /\ shortest \in Nat
        /\ LastPiece \in Seq(Nat) /\ Len(LastPiece) \in Nat /\ Len(s) \in Nat
    BY TypeFacts DEF SplitInv
  <1>2. ChunkSize' = ChunkSize /\ BySize' = BySize
    BY DEF ChunkSize, BySize
  <1>3. /\ pieces' \in Seq(Seq(Nat)) /\ pieces' # <<>>
        /\ Len(pieces') = Len(pieces)
        /\ pieces'[Len(pieces')] = LastPiece \o s
        /\ \A i \in 1..(Len(pieces) - 1) : pieces'[i] = pieces[i]
    <2>1. pieces' = [pieces EXCEPT ![Len(pieces)] = @ \o s]
      BY DEF WriteToLast
    <2> QED
      BY <1>1, <2>1, WrittenOn DEF LastPiece
  <1>4. /\ LastPiece' = LastPiece \o s
        /\ LastPiece' \in Seq(Nat)
        /\ Len(LastPiece') = Len(LastPiece) + Len(s)
    <2>1. LastPiece' = LastPiece \o s
      BY <1>3 DEF LastPiece
    <2> HIDE DEF LastPiece
    <2> QED
      BY <1>1, <2>1, Concat
  <1>5. Copied(pieces, offset)'
    <2>1. Copied(WriteToLast(s), offset + Len(s))
      BY <1>1, WriteCopies DEF WriteToLast, SplitInv, PiecesInv
    <2> QED
      BY <2>1
  <1>6. ASSUME NEW i \in DOMAIN pieces'
        PROVE  Len(pieces'[i]) <= ChunkSize /\ FullOrCut(i)'
    <2>1. i \in 1..Len(pieces)
      BY <1>3
    <2>2. CASE i = Len(pieces)
      <3>1. pieces'[i] = LastPiece'
        BY <1>3, <1>4, <2>2
      <3>2. Len(LastPiece') <= ChunkSize
        BY <1>4
      <3> QED
        BY <1>3, <2>2, <3>1, <3>2 DEF FullOrCut
    <2>3. CASE i \in 1..(Len(pieces) - 1)
      <3>0. DOMAIN pieces = 1..Len(pieces)
        BY <1>1
      <3>1. pieces'[i] = pieces[i] /\ i \in DOMAIN pieces
        BY <1>3, <2>1, <2>3, <3>0
      <3>2. Len(pieces[i]) <= ChunkSize /\ FullOrCut(i)
        BY <3>1 DEF SplitInv, PiecesInv
      <3>3. Len(pieces') = Len(pieces)
        BY <1>3
      <3> QED
        BY <1>2, <3>1, <3>2, <3>3 DEF FullOrCut
    <2> QED
      BY <1>1, <2>1, <2>2, <2>3
  <1>7. UpTo' = UpTo + Len(s) /\ UpTo \in Nat
    <2>1. /\ UpTo = (Len(pieces) - 1) * ChunkSize + Len(LastPiece)
          /\ UpTo' = (Len(pieces') - 1) * ChunkSize' + Len(LastPiece')
      BY <1>3 DEF UpTo
    <2>2. (Len(pieces) - 1) * ChunkSize \in Nat
      BY <1>1, OneMore
    <2>3. UpTo' = (Len(pieces) - 1) * ChunkSize + Len(LastPiece')
      BY <1>2, <1>3, <2>1
    <2> QED
      BY <1>1, <1>4, <2>1, <2>2, <2>3
  <1>8. offset <= UpTo /\ (offset = UpTo \/ (BySize /\ shortest <= offset))
    BY DEF SplitInv, PiecesInv
  <1>9. offset' <= UpTo'
    BY <1>1, <1>7, <1>8
  <1>10. offset' = UpTo' \/ (BySize /\ shortest <= offset')
    <2>1. CASE BySize /\ shortest <= offset
      BY <1>1, <2>1
    <2>2. CASE offset = UpTo
      BY <1>1, <1>7, <2>2
    <2> QED
      BY <1>8, <2>1, <2>2
  <1> QED
    BY <1>3, <1>4, <1>5, <1>6, <1>9, <1>10

LEMMA ScanLineStep ==
    ASSUME SplitInv, ScanLine
    PROVE  SplitInv'
  <1> DEFINE s == <<offset + 1>>
  <1>1. /\ ~BySize /\ ~filling /\ error = "copying" /\ offset < length
        /\ shortest <= length /\ shortest <= measured /\ CutTask
        /\ offset = UpTo /\ offset' = offset + 1
    BY DEF ScanLine, SplitInv, PiecesInv, ProgressInv
  <1>2. /\ offset \in Nat /\ length \in Nat /\ ChunkSize \in Nat \ {0}
        /\ Len(pieces) \in Nat
        /\ pieces # <<>> => Len(pieces) \in Nat \ {0} /\ Len(LastPiece) \in Nat
    BY TypeFacts DEF SplitInv
  <1>3. /\ s \in Seq(Nat) /\ Len(s) = 1 /\ s # <<>>
        /\ \A b \in 1..Len(s) : s[b] = offset + b
        /\ offset' \in Nat
    BY <1>1, <1>2
  <1>4. offset % ChunkSize = 0 <=> LastIsFull
    <2>1. CASE pieces = <<>>
      <3>1. offset = 0 /\ LastIsFull
        BY <1>1, <2>1 DEF UpTo, LastIsFull
      <3>2. 0 % ChunkSize = 0
        BY <1>2
      <3> QED
        BY <3>1, <3>2
    <2>2. CASE pieces # <<>>
      <3>1. offset = (Len(pieces) - 1) * ChunkSize + Len(LastPiece)
        BY <1>1, <2>2 DEF UpTo
      <3>2. Len(LastPiece) >= 1 /\ Len(LastPiece) <= ChunkSize
        <4>1. LastPiece # <<>> /\ LastPiece \in Seq(Nat)
          BY <1>1, <2>2, TypeFacts DEF SplitInv, PiecesInv
        <4>2. Len(pieces) \in DOMAIN pieces
          BY <1>2, <2>2, TypeFacts DEF SplitInv
        <4>3. Len(LastPiece) <= ChunkSize
          BY <4>2 DEF SplitInv, PiecesInv, LastPiece
        <4> HIDE DEF LastPiece
        <4> QED
          BY <4>1, <4>3
      <3>3. /\ (Len(pieces) - 1) * ChunkSize \in Nat
            /\ Len(pieces) * ChunkSize \in Nat
            /\ (Len(pieces) - 1) * ChunkSize + ChunkSize = Len(pieces) * ChunkSize
        BY <1>2, <2>2, OneMore
      <3>4. ChunkSize \in Nat /\ Len(LastPiece) \in Nat /\ offset \in Nat
        BY <1>2, <2>2
      <3>5. (Len(pieces) - 1) * ChunkSize < offset
            /\ offset <= Len(pieces) * ChunkSize
            /\ (offset = Len(pieces) * ChunkSize <=> Len(LastPiece) = ChunkSize)
        BY <3>1, <3>2, <3>3, <3>4
      <3>6. offset % ChunkSize = 0 <=> offset = Len(pieces) * ChunkSize
        BY <1>2, <3>5, ChunkStarts
      <3> QED
        BY <2>2, <3>5, <3>6 DEF LastIsFull
    <2> QED
      BY <2>1, <2>2
  <1> HIDE DEF s
  <1>5. /\ pieces' \in Seq(Seq(Nat)) /\ LastPiece' # <<>>
        /\ Copied(pieces, offset)'
        /\ \A i \in DOMAIN pieces' :
              Len(pieces'[i]) <= ChunkSize /\ FullOrCut(i)'
        /\ offset' <= UpTo'
        /\ offset' = UpTo' \/ (BySize /\ shortest <= offset')
    <2>1. CASE LastIsFull
      <3>1. pieces' = Append(pieces, s) /\ UNCHANGED <<request, measured, shortest>>
        BY <1>4, <2>1 DEF ScanLine, s
      <3>2. Len(s) <= ChunkSize /\ offset' = offset + Len(s)
        BY <1>1, <1>2, <1>3
      <3>3. LastPiece' = s
        BY <1>3, <2>1, <3>1, <3>2, BeginFile
      <3> QED
        BY <1>3, <2>1, <3>1, <3>2, <3>3, BeginFile
    <2>2. CASE ~LastIsFull
      <3>1. pieces' = WriteToLast(s) /\ UNCHANGED <<request, measured, shortest>>
        BY <1>4, <2>2 DEF ScanLine, s
      <3>2. pieces # <<>> /\ Len(LastPiece) # ChunkSize
        BY <2>2 DEF LastIsFull
      <3>3. Len(LastPiece) <= ChunkSize
        <4>1. Len(pieces) \in DOMAIN pieces
          BY <1>2, <3>2, TypeFacts DEF SplitInv
        <4> QED
          BY <4>1 DEF SplitInv, PiecesInv, LastPiece
      <3>4. Len(LastPiece) + Len(s) <= ChunkSize /\ offset' = offset + Len(s)
        BY <1>1, <1>2, <1>3, <3>2, <3>3
      <3>5. LastPiece' \in Seq(Nat) /\ Len(LastPiece') = Len(LastPiece) + Len(s)
        BY <1>3, <3>1, <3>2, <3>4, GoOn
      <3>6. Len(LastPiece') # 0
        BY <1>2, <1>3, <3>2, <3>5
      <3>7. LastPiece' # <<>>
        BY <3>6, NoPieces
      <3> QED
        BY <1>3, <3>1, <3>2, <3>4, <3>7, GoOn
    <2> QED
      BY <2>1, <2>2
  <1>6. /\ UNCHANGED <<request, online, length, measured, shortest, filling, chunks,
                       error>>
        /\ ChunkSize' = ChunkSize /\ BySize' = BySize /\ CutTask' = CutTask
    BY DEF ScanLine, ChunkSize, BySize, CutTask
  <1>7. PiecesInv'
    BY <1>1, <1>5, <1>6 DEF PiecesInv
  <1>8. SplitTypeOK'
    <2>1. offset' \in Nat
      BY <1>1, <1>2
    <2>2. {online, length, measured, shortest, offset}' \subseteq Nat
      BY <1>6, <2>1, TypeFacts DEF SplitInv
    <2> QED
      BY <1>1, <1>5, <1>6, <2>2 DEF SplitInv, SplitTypeOK
  <1>9. ProgressInv'
    BY <1>1, <1>6 DEF ProgressInv, NoError
  <1> QED
    BY <1>7, <1>8, <1>9 DEF SplitInv

LEMMA NextChunkStep ==
    ASSUME SplitInv, NextChunk
    PROVE  SplitInv'
  <1>1. /\ BySize /\ ~filling /\ error = "copying" /\ CutTask
        /\ shortest <= length /\ shortest <= measured
        /\ LastIsFull \/ shortest <= offset
        /\ Len(pieces) < numChunks
    BY DEF NextChunk, SplitInv, PiecesInv, ProgressInv
  <1>2. /\ offset \in Nat /\ measured \in Nat /\ shortest \in Nat
        /\ ChunkSize \in Nat \ {0} /\ Len(pieces) \in Nat
        /\ pieces # <<>> => Len(pieces) \in Nat \ {0} /\ Len(LastPiece) \in Nat
    BY TypeFacts DEF SplitInv
  <1>3. ASSUME ~LastIsFull
        PROVE  shortest < measured
    <2>1. pieces # <<>> /\ Len(LastPiece) # ChunkSize
      BY <1>3 DEF LastIsFull
    <2>2. Len(LastPiece) <= ChunkSize
      <3>1. Len(pieces) \in DOMAIN pieces
        BY <2>1, TypeFacts DEF SplitInv
      <3> QED
        BY <3>1 DEF SplitInv, PiecesInv, LastPiece
    <2>3. UpTo = (Len(pieces) - 1) * ChunkSize + Len(LastPiece)
      BY <2>1 DEF UpTo
    <2>4. /\ (Len(pieces) - 1) * ChunkSize \in Nat
          /\ Len(pieces) * ChunkSize \in Nat
          /\ (Len(pieces) - 1) * ChunkSize + ChunkSize = Len(pieces) * ChunkSize
      BY <1>2, <2>1, OneMore
    <2>5. UpTo < Len(pieces) * ChunkSize /\ UpTo \in Nat
      BY <1>2, <2>1, <2>2, <2>3, <2>4
    <2>6. numChunks \in Nat /\ (numChunks - 1) * ChunkSize < measured
      BY <1>2, CeilBounds DEF numChunks
    <2>7. Len(pieces) * ChunkSize < measured
      <3>1. CASE Len(pieces) = numChunks - 1
        BY <2>6, <3>1
      <3>2. CASE Len(pieces) < numChunks - 1
        <4>1. Len(pieces) * ChunkSize + ChunkSize <= (numChunks - 1) * ChunkSize
          BY <1>2, <2>6, <3>2, ProductsGrow
        <4>2. (numChunks - 1) * ChunkSize \in Int
          BY <1>2, <2>6
        <4> QED
          BY <1>2, <2>4, <2>6, <4>1, <4>2
      <3> QED
        BY <1>1, <1>2, <2>6, <3>1, <3>2
    <2>8. offset <= UpTo /\ shortest <= offset
      BY <1>1, <1>3 DEF SplitInv, PiecesInv
    <2> QED
      BY <1>2, <2>4, <2>5, <2>7, <2>8
  <1>4. /\ UNCHANGED <<request, online, length, measured, shortest, offset,
                       chunks, error>>
        /\ pieces' = Append(pieces, <<>>) /\ filling'
        /\ filling' \in BOOLEAN
        /\ ChunkSize' = ChunkSize /\ BySize' = BySize /\ CutTask' = CutTask
        /\ numChunks' = numChunks
    BY DEF NextChunk, ChunkSize, BySize, CutTask, numChunks
  <1>5. /\ <<>> \in Seq(Nat) /\ Len(<<>>) = 0 /\ offset = offset + Len(<<>>)
        /\ Len(<<>>) <= ChunkSize /\ Len(<<>>) < ChunkSize
        /\ \A b \in 1..Len(<<>>) : <<>>[b] = offset + b
    <2>1. <<>> \in Seq(Nat) /\ Len(<<>>) = 0
      OBVIOUS
    <2> QED
      BY <1>2, <2>1
  <1>6. LastIsFull \/ (BySize /\ shortest <= offset /\ shortest < measured)
    BY <1>1, <1>3
  <1>7. /\ pieces' \in Seq(Seq(Nat)) /\ pieces' # <<>> /\ LastPiece' = <<>>
        /\ Len(pieces') = Len(pieces) + 1
        /\ Copied(pieces, offset)'
        /\ \A i \in DOMAIN pieces' :
              Len(pieces'[i]) <= ChunkSize /\ FullOrCut(i)'
        /\ offset' <= UpTo'
        /\ offset' = UpTo' \/ (BySize /\ shortest <= offset')
    <2>1. ASSUME NEW s, s = <<>>
          PROVE  /\ s \in Seq(Nat) /\ offset = offset + Len(s)
                 /\ Len(s) <= ChunkSize
                 /\ \A b \in 1..Len(s) : s[b] = offset + b
                 /\ pieces' = Append(pieces, s)
      BY <1>4, <1>5, <2>1
    <2> QED
      BY <1>2, <1>4, <1>6, <2>1, BeginFile
  <1>8. PiecesInv'
    BY <1>1, <1>4, <1>7 DEF PiecesInv
  <1>9. SplitTypeOK'
    <2>1. {online, length, measured, shortest, offset}' \subseteq Nat
      BY <1>4, TypeFacts DEF SplitInv
    <2>2. Len(LastPiece') < ChunkSize'
      BY <1>4, <1>5, <1>7
    <2> QED
      BY <1>4, <1>7, <2>1, <2>2 DEF SplitInv, SplitTypeOK
  <1>10. ProgressInv'
    <2>1. Len(pieces') <= numChunks'
      <3>1. numChunks \in Nat
        BY <1>2, CeilBounds DEF numChunks
      <3> QED
        BY <1>1, <1>2, <1>4, <1>7, <3>1
    <2> QED
      BY <1>1, <1>4, <2>1 DEF ProgressInv, NoError
  <1> QED
    BY <1>8, <1>9, <1>10 DEF SplitInv

LEMMA ReadChunkStep ==
    ASSUME SplitInv, ReadChunk
    PROVE  SplitInv'
  <1> DEFINE s == [b \in 1..Found |-> offset + b]
  <1>1. /\ BySize /\ filling /\ error = "copying" /\ CutTask
        /\ shortest <= length /\ shortest <= measured
        /\ pieces # <<>> /\ Len(LastPiece) < ChunkSize
        /\ Len(pieces) <= numChunks
    BY DEF ReadChunk, Read, SplitInv, SplitTypeOK, ProgressInv
  <1>2. /\ offset \in Nat /\ length \in Nat /\ shortest \in Nat
        /\ ChunkSize \in Nat \ {0} /\ Len(LastPiece) \in Nat
        /\ BufferSize \in Nat \ {0}
    BY <1>1, TypeFacts, SplitterAssumptions DEF SplitInv
  <1>3. /\ Found \in Nat /\ Found <= Room /\ Room \in Nat
        /\ Found = 0 => length <= offset
    <2> DEFINE ahead == Max({length - offset, 0})
    <2>1. Room \in Nat \ {0}
      BY <1>1, <1>2 DEF Room
    <2>2. ahead \in Nat /\ (ahead = 0 => length <= offset)
      <3>1. ahead = IF length - offset > 0 THEN length - offset ELSE 0
        BY <1>2, MaxWithZero
      <3> HIDE DEF ahead
      <3> QED
        BY <1>2, <3>1
    <2>3. Found = Min({BufferSize, Room, ahead})
      BY DEF Found
    <2> HIDE DEF ahead
    <2>4. Found \in {BufferSize, Room, ahead} /\ Found <= Room
      <3>1. BufferSize \in Int /\ Room \in Int /\ ahead \in Int
        BY <1>2, <2>1, <2>2
      <3> DEFINE m == Min({BufferSize, Room, ahead})
      <3>2. m \in {BufferSize, Room, ahead} /\ m <= Room
        BY <3>1, MinOfThree
      <3>3. Found = m
        BY <2>3
      <3> HIDE DEF m
      <3> QED
        BY <3>2, <3>3
    <2> QED
      BY <1>2, <2>1, <2>2, <2>4
  <1>4. /\ s \in Seq(Nat) /\ Len(s) = Found
        /\ \A b \in 1..Len(s) : s[b] = offset + b
    BY <1>2, <1>3
  <1>5. /\ pieces' = WriteToLast(s) /\ offset' = offset + Found
        /\ filling' = (Found \notin {Room, 0})
        /\ UNCHANGED <<request, online, length, measured, shortest, chunks,
                       error>>
    BY DEF ReadChunk, Read
  <1> HIDE DEF s
  <1>6. /\ offset' \in Nat /\ offset' = offset + Len(s)
        /\ Len(LastPiece) + Len(s) <= ChunkSize
    BY <1>2, <1>3, <1>4, <1>5 DEF Room
  <1>7. /\ pieces' \in Seq(Seq(Nat)) /\ pieces' # <<>>
        /\ Len(LastPiece') = Len(LastPiece) + Len(s)
        /\ Len(pieces') = Len(pieces)
        /\ Copied(pieces, offset)'
        /\ \A i \in DOMAIN pieces' :
              Len(pieces'[i]) <= ChunkSize /\ FullOrCut(i)'
        /\ offset' <= UpTo'
        /\ offset' = UpTo' \/ (BySize /\ shortest <= offset')
    BY <1>1, <1>4, <1>5, <1>6, GoOn
  <1>8. /\ ChunkSize' = ChunkSize /\ BySize' = BySize /\ CutTask' = CutTask
        /\ numChunks' = numChunks
    BY <1>5 DEF ChunkSize, BySize, CutTask, numChunks
  <1>9. /\ filling' => Len(LastPiece') < ChunkSize
        /\ ~filling' => Len(LastPiece') = ChunkSize \/ shortest <= offset'
    <2>1. Len(LastPiece') = ChunkSize - Room + Found
      <3>1. Room = ChunkSize - Len(LastPiece)
        BY DEF Room
      <3>2. Len(LastPiece') = Len(LastPiece) + Found
        BY <1>4, <1>7
      <3>3. ChunkSize \in Nat /\ Len(LastPiece) \in Nat /\ Found \in Nat
        BY <1>2, <1>3
      <3> QED
        BY <3>1, <3>2, <3>3
    <2>2. CASE Found = Room
      <3>1. ~filling'
        BY <1>5, <2>2
      <3>2. Len(LastPiece') = ChunkSize
        BY <1>2, <1>3, <2>1, <2>2
      <3> QED
        BY <3>1, <3>2
    <2>3. CASE Found # Room /\ Found = 0
      <3>1. ~filling'
        BY <1>5, <2>3
      <3>2. shortest <= length /\ length <= offset /\ offset' = offset + 0
        BY <1>1, <1>3, <1>5, <2>3
      <3>3. shortest <= offset'
        BY <1>2, <3>2
      <3> QED
        BY <3>1, <3>3
    <2>4. CASE Found \notin {Room, 0}
      <3>1. Len(LastPiece') < ChunkSize
        BY <1>2, <1>3, <2>1, <2>4
      <3>2. filling'
        BY <1>5, <2>4
      <3> QED
        BY <3>1, <3>2
    <2> QED
      BY <2>2, <2>3, <2>4
  <1>10. PiecesInv'
    BY <1>1, <1>5, <1>7, <1>8, <1>9 DEF PiecesInv, LastIsFull
  <1>11. SplitTypeOK'
    <2>1. {online, length, measured, shortest, offset}' \subseteq Nat
      <3>1. /\ online \in Nat /\ length \in Nat /\ measured \in Nat
            /\ shortest \in Nat
        BY TypeFacts DEF SplitInv
      <3> QED
        BY <1>5, <1>6, <3>1
    <2>2. filling' \in BOOLEAN
      BY <1>5
    <2> QED
      BY <1>5, <1>7, <1>8, <1>9, <2>1, <2>2 DEF SplitInv, SplitTypeOK
  <1>12. ProgressInv'
    BY <1>1, <1>5, <1>7, <1>8 DEF ProgressInv, NoError
  <1> QED
    BY <1>10, <1>11, <1>12 DEF SplitInv

LEMMA ListTyped ==
    ASSUME NEW kind \in {"chunk", "map", "pipe", "replica"}, NEW n \in Nat
    PROVE  ChunkList(kind, n)
               \in Seq([kind : {"chunk", "map", "pipe", "replica"}, index : Nat])
  BY DEF ChunkList

LEMMA EndCopyStep ==
    ASSUME SplitInv, EndCopy
    PROVE  SplitInv'
  <1>1. /\ error = "copying" /\ error' = NoError
        /\ UNCHANGED <<request, online, length, fileVars>>
    BY DEF EndCopy, Return
  <1>2. /\ ~filling /\ shortest <= length /\ shortest <= measured
        /\ offset = UpTo \/ (BySize /\ shortest <= offset)
        /\ BySize => LastIsFull \/ shortest <= offset
    <2>1. BySize => ~filling
      BY DEF EndCopy
    <2> QED
      BY <1>1, <2>1 DEF SplitInv, PiecesInv, ProgressInv
  <1>3. /\ offset \in Nat /\ length \in Nat /\ shortest \in Nat
        /\ measured \in Nat /\ ChunkSize \in Nat \ {0} /\ Len(pieces) \in Nat
        /\ pieces # <<>> => Len(pieces) \in Nat \ {0}
    BY TypeFacts DEF SplitInv
  <1>4. shortest <= offset /\ (BySize \/ length <= offset)
    <2>1. CASE ~BySize
      BY <1>2, <1>3, <2>1 DEF EndCopy
    <2>2. CASE BySize /\ LastIsFull /\ offset = UpTo
      <3>1. Len(pieces) = numChunks
        BY <2>2 DEF EndCopy
      <3>2. numChunks * ChunkSize >= measured /\ numChunks \in Nat
        BY <1>3, CeilBounds DEF numChunks
      <3>3. UpTo = Len(pieces) * ChunkSize
        <4>1. CASE pieces = <<>>
          <5>1. UpTo = 0 /\ Len(pieces) = 0
            BY <4>1, NoPieces DEF UpTo
          <5> QED
            BY <1>3, <5>1
        <4>2. CASE pieces # <<>>
          <5>1. UpTo = (Len(pieces) - 1) * ChunkSize + ChunkSize
            BY <2>2, <4>2 DEF UpTo, LastIsFull
          <5> QED
            BY <1>3, <4>2, <5>1, OneMore
        <4> QED
          BY <4>1, <4>2
      <3>4. offset >= measured
        BY <2>2, <3>1, <3>2, <3>3
      <3> QED
        BY <1>2, <1>3, <2>2, <3>4
    <2>3. CASE BySize /\ shortest <= offset
      BY <2>3
    <2> QED
      BY <1>2, <2>1, <2>2, <2>3
  <1>5. ChunkSize' = ChunkSize /\ BySize' = BySize /\ CutTask' = CutTask
    BY <1>1 DEF ChunkSize, BySize, CutTask
  <1>6. PiecesInv'
    <2>1. UNCHANGED <<request, pieces, offset, filling, measured, shortest>>
      BY <1>1 DEF fileVars
    <2>2. shortest' \in Nat /\ measured' \in Nat /\ shortest' <= shortest
      BY <1>3, <2>1
    <2> QED
      BY <2>1, <2>2, PiecesStay
  <1>7. SplitTypeOK'
    <2>1. chunks' = ChunkList(IF request.strategy = "chunk" THEN "chunk"
                              ELSE "map", Len(pieces))
      BY DEF EndCopy, Return
    <2>2. chunks' \in Seq([kind : {"chunk", "map", "pipe", "replica"},
                          index : Nat])
      BY <1>3, <2>1, ListTyped
    <2> QED
      BY <1>1, <1>5, <2>2
      DEF fileVars, SplitInv, SplitTypeOK, LastPiece
  <1>8. ProgressInv'
    BY <1>1, <1>2, <1>4, <1>5 DEF fileVars, ProgressInv, NoError
  <1> QED
    BY <1>6, <1>7, <1>8 DEF SplitInv

LEMMA SplitOtherStep ==
    ASSUME SplitInv, SplitOther
    PROVE  SplitInv'
  <1>1. /\ error = "not split" /\ ~CutTask
        /\ error' # "not split" /\ error' # "copying"
        /\ UNCHANGED <<request, online, length, fileVars>>
    BY DEF SplitOther, pipelineSplit, replicatedSplit, Return, NoError, CutTask
  <1>2. UNCHANGED <<pieces, offset, filling, measured, shortest>> /\ ~filling
    BY <1>1 DEF fileVars, SplitInv, ProgressInv
  <1>3. PiecesInv'
    <2>1. shortest' \in Nat /\ measured' \in Nat /\ shortest' <= shortest
      BY <1>2, TypeFacts DEF SplitInv
    <2> QED
      BY <1>1, <1>2, <2>1, PiecesStay
  <1>4. SplitTypeOK'
    <2>1. /\ online \in Nat /\ request.stages \in Nat
          /\ request.maxNodes \in Nat
      BY TypeFacts DEF SplitInv
    <2>2. numReplicas \in Nat
      BY <2>1, MinOfTwo DEF numReplicas
    <2>3. chunks' \in Seq([kind : {"chunk", "map", "pipe", "replica"},
                          index : Nat])
      <3>1. \/ chunks' = <<>>
            \/ chunks' = ChunkList("pipe", request.stages)
            \/ chunks' = ChunkList("replica", numReplicas)
        BY DEF SplitOther, pipelineSplit, replicatedSplit, Return
      <3>2. CASE chunks' = <<>>
        BY <3>2
      <3>3. CASE chunks' = ChunkList("pipe", request.stages)
        BY <2>1, <3>3, ListTyped
      <3>4. CASE chunks' = ChunkList("replica", numReplicas)
        BY <2>2, <3>4, ListTyped
      <3> QED
        BY <3>1, <3>2, <3>3, <3>4
    <2> QED
      BY <1>1, <1>2, <2>3 DEF SplitInv, SplitTypeOK, LastPiece, ChunkSize
  <1>5. ProgressInv'
    BY <1>1, <1>2 DEF ProgressInv, CutTask
  <1> QED
    BY <1>3, <1>4, <1>5 DEF SplitInv

LEMMA SplitInvariant == SplitSpec => []SplitInv
  <1>1. SplitInv /\ [SplitNext]_splitVars => SplitInv'
    <2> SUFFICES ASSUME SplitInv, [SplitNext]_splitVars
                 PROVE  SplitInv'
      OBVIOUS
    <2>1. CASE UNCHANGED splitVars
      <3>1. UNCHANGED <<request, online, length, measured, shortest, offset,
                        pieces, filling, chunks, error>>
        BY <2>1 DEF splitVars, fileVars
      <3>2. PiecesInv'
        <4>1. shortest' \in Nat /\ measured' \in Nat /\ shortest' <= shortest
          BY <3>1, TypeFacts DEF SplitInv
        <4> QED
          BY <3>1, <4>1, PiecesStay
      <3>3. SplitTypeOK' /\ ProgressInv'
        BY <3>1
        DEF SplitInv, SplitTypeOK, ProgressInv, LastPiece, ChunkSize, BySize,
            CutTask, numChunks
      <3> QED
        BY <3>2, <3>3 DEF SplitInv
    <2> QED
      BY <2>1, MeasureStep, FileChangesStep, ScanLineStep, NextChunkStep,
         ReadChunkStep, EndCopyStep, SplitOtherStep
      DEF SplitNext, SplitTask
  <1> QED
    BY <1>1, SplitInvInit, PTL DEF SplitSpec

-----------------------------------------------------------------------------
(* The theorems. *)

\* Whatever the sizes: no length or offset leaves the natural numbers, and a
\* file that is being filled has room.
THEOREM SplitTypeCorrect == SplitSpec => []SplitTypeOK
  <1>1. SplitInv => SplitTypeOK
    BY DEF SplitInv
  <1> QED
    BY <1>1, SplitInvariant, PTL

\* Whatever is appended to the file or cut from it, and whenever, while it is
\* copied: the chunks' files are what was read, in order and each position
\* once, and hold all that the file held throughout.
THEOREM PiecesMakeTheFileHolds == SplitSpec => []PiecesMakeTheFile
  <1>1. SplitInv => PiecesMakeTheFile
    <2> SUFFICES ASSUME SplitInv, error = NoError, CutTask
                 PROVE  PiecesMakeTheFile
      BY DEF PiecesMakeTheFile, CutTask
    <2>1. /\ UNION {ToSet(pieces[i]) : i \in DOMAIN pieces} = 1..offset
          /\ Sorted(pieces)
      BY CopiedMeans DEF SplitInv, PiecesInv
    <2>2. InOrder
      BY <2>1 DEF InOrder, Sorted
    <2>3. shortest <= offset /\ (BySize \/ length <= offset)
      BY DEF SplitInv, ProgressInv
    <2>4. \A i \in DOMAIN pieces :
             /\ Len(pieces[i]) <= ChunkSize
             /\ \/ Len(pieces[i]) = ChunkSize
                \/ i = Len(pieces)
                \/ BySize /\ shortest < measured
      BY DEF SplitInv, PiecesInv, FullOrCut
    <2> QED
      BY <2>1, <2>2, <2>3, <2>4 DEF PiecesMakeTheFile
  <1> QED
    BY <1>1, SplitInvariant, PTL
=============================================================================
