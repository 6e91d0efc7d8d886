---------------------------- MODULE MemoryProofs ----------------------------
(***************************************************************************)
(* What mem.c keeps true of the memories it shares: which are allocated,   *)
(* and what a load from any of them means, for every number of assignments *)
(* of the inputs, of addresses, of memories and of stores.                 *)
(***************************************************************************)
EXTENDS Memory, WellFoundedInduction, NaturalsInduction, SequenceTheorems, FiniteSetTheorems, TLAPS

-----------------------------------------------------------------------------
(***************************************************************************)
(* Recursion.                                                              *)
(***************************************************************************)
\* A set of numbers that is not empty has a least element.
LEMMA LeastNat ==
  ASSUME NEW S, S \subseteq Nat, S # {}
  PROVE  \E n \in S : \A k \in S : n <= k
<1> DEFINE R == OpToRel(<, Nat)
<1>1. IsWellFoundedOn(R, Nat)
  BY NatLessThanWellFounded
<1> HIDE DEF R
<1>2. PICK n \in S : \A k \in S : ~(<<k, n>> \in R)
  BY <1>1, WFMin
<1>3. \A k \in S : ~(k < n)
  BY <1>2 DEF R, OpToRel
<1>4. QED BY <1>3

\* What holds of 0 and of a number whenever it holds of the one before, holds
\* of every number up to N.
Steps(N, G) ==
  0 \in G /\ \A n \in 1..N : n - 1 \in G => n \in G

\* Such a set holds all of them.
LEMMA StepsReach ==
  ASSUME NEW N \in Nat, NEW G, Steps(N, G)
  PROVE  \A n \in 0..N : n \in G
<1> DEFINE S == {n \in 0..N : n \notin G}
<1>1. SUFFICES ASSUME S # {} PROVE FALSE
  OBVIOUS
<1>2. PICK n \in S : \A k \in S : n <= k
  <2>1. S \subseteq Nat
    OBVIOUS
  <2> HIDE DEF S
  <2>2. QED BY <1>1, <2>1, LeastNat
<1>3. n \in 0..N /\ n \notin G /\ n # 0
  BY <1>2 DEF Steps
<1>4. n \in 1..N /\ n - 1 \in 0..N /\ ~(n <= n - 1)
  BY <1>3
<1>5. n - 1 \notin S
  BY <1>2, <1>4
<1>6. n - 1 \in G
  BY <1>4, <1>5
<1>7. QED BY <1>3, <1>4, <1>6 DEF Steps

Iterated(X, x0, N, F, r) ==
  r \in [0..N -> X] /\ r[0] = x0 /\ \A k \in 1..N : r[k] = F[<<k, r[k - 1]>>]

\* Such a function exists for every number of steps.
LEMMA Iterates ==
  ASSUME NEW X, NEW x0 \in X, NEW N \in Nat, NEW F, \A k \in 1..N : \A w \in X : F[<<k, w>>] \in X
  PROVE  \E r : Iterated(X, x0, N, F, r)
<1> DEFINE Built(n, r) == Iterated(X, x0, n, F, r)
           S == {n \in 0..N : ~\E r : Built(n, r)}
<1>1. SUFFICES ASSUME S # {} PROVE FALSE
  <2>1. N \in 0..N
    OBVIOUS
  <2>2. ~(N \in S) => \E r : Built(N, r)
    BY <2>1
  <2>3. QED BY <1>1, <2>2
<1>2. PICK n \in S : \A k \in S : n <= k
  <2>1. S \subseteq Nat
    OBVIOUS
  <2> HIDE DEF S
  <2>2. QED BY <1>1, <2>1, LeastNat
<1>3. n \in 0..N /\ ~\E r : Built(n, r)
  BY <1>2
<1>4. CASE n = 0
  <2> DEFINE r == [k \in 0..0 |-> x0]
  <2>1. r \in [0..0 -> X] /\ r[0] = x0
    OBVIOUS
  <2>2. Built(0, r)
    BY <2>1 DEF Iterated
  <2>3. QED BY <1>3, <1>4, <2>2
<1>5. CASE n # 0
  <2>1. n - 1 \in 0..N /\ n - 1 \notin S
    <3>1. n - 1 \in 0..N /\ ~(n <= n - 1)
      BY <1>3, <1>5
    <3> HIDE DEF S
    <3>2. QED BY <1>2, <3>1
  <2>2. PICK r : Built(n - 1, r)
    BY <2>1
  <2>3. /\ r \in [0..(n - 1) -> X] /\ r[0] = x0
        /\ \A k \in 1..(n - 1) : r[k] = F[<<k, r[k - 1]>>]
    BY <2>2 DEF Iterated
  <2>4. n \in Nat /\ n \in 1..N /\ n - 1 \in 0..(n - 1)
    BY <1>3, <1>5
  <2> DEFINE new == F[<<n, r[n - 1]>>]
             q == [k \in 0..n |-> IF k = n THEN new ELSE r[k]]
  <2>5. new \in X
    BY <2>3, <2>4
  <2> HIDE DEF new
  <2>6. \A k \in 0..(n - 1) : r[k] \in X
    BY <2>3
  <2>7. \A k \in 0..n : k = n \/ k \in 0..(n - 1)
    BY <2>4
  <2>8. q \in [0..n -> X]
    BY <2>5, <2>6, <2>7
  <2>9. q[0] = x0
    BY <1>5, <2>3, <2>4
  <2>10. ASSUME NEW k \in 1..n
         PROVE  q[k] = F[<<k, q[k - 1]>>]
    <3>1. k \in 0..n /\ k - 1 \in 0..n /\ k - 1 # n
      BY <2>4
    <3>2. q[k - 1] = r[k - 1]
      BY <3>1
    <3>3. CASE k = n
      BY <3>1, <3>2, <3>3 DEF new
    <3>4. CASE k # n
      <4>1. k \in 1..(n - 1)
        BY <2>4, <3>4
      <4>2. q[k] = r[k]
        BY <3>1, <3>4
      <4>3. QED BY <2>3, <3>2, <4>1, <4>2
    <3>5. QED BY <3>3, <3>4
  <2> HIDE DEF q
  <2>11. Built(n, q)
    BY <2>8, <2>9, <2>10 DEF Iterated
  <2>12. QED BY <1>3, <2>11
<1>6. QED BY <1>4, <1>5


-----------------------------------------------------------------------------
(***************************************************************************)
(* Reachability.  What bfmFlag marks is the least set that holds the roots *)
(* and whatever its memories are over.                                     *)
(***************************************************************************)
UnderIn(M, m) == {M[m].memt, M[m].memf} \ {NULL}

Nearer(M, near) == near \cup UNION {UnderIn(M, m) : m \in near \cap DOMAIN M}

FlaggedIn(M, roots) ==
  LET reached[n \in 0..MaxMem] ==
        IF n = 0 THEN roots
        ELSE LET near == reached[n - 1]
             IN near \cup UNION {UnderIn(M, m) : m \in near \cap DOMAIN M}
  IN reached[MaxMem]

\* What the memories are over is allocated.
Heap(M) == DOMAIN M \subseteq Id /\ \A m \in DOMAIN M : UnderIn(M, m) \subseteq DOMAIN M

ClosedIn(M, S) == \A m \in S \cap DOMAIN M : UnderIn(M, m) \subseteq S

Reaching(M, roots, r) ==
  /\ r \in [0..MaxMem -> SUBSET Id] /\ r[0] = roots
  /\ \A n \in 1..MaxMem : r[n] = Nearer(M, r[n - 1])

\* The traversal is a function of the number of its steps.
LEMMA FlaggedIs ==
  ASSUME NEW M, Heap(M), NEW roots \in SUBSET Id
  PROVE  \E r : Reaching(M, roots, r) /\ FlaggedIn(M, roots) = r[MaxMem]
<1> DEFINE Is(f) == f = [n \in 0..MaxMem |-> IF n = 0 THEN roots ELSE Nearer(M, f[n - 1])]
           c == CHOOSE f : Is(f)
<1>1. FlaggedIn(M, roots) = c[MaxMem]
  BY DEF FlaggedIn, Nearer
<1>2. MaxMem \in Nat
  BY MemoryAssumption
<1>3. \E f : f \in [0..MaxMem -> SUBSET Id] /\ Is(f)
  <2> DEFINE X == SUBSET Id
             F == [p \in (1..MaxMem) \X X |-> Nearer(M, p[2])]
  <2>1. \A w \in X : Nearer(M, w) \in X
    BY DEF Nearer, Heap
  <2>2. roots \in X
    OBVIOUS
  <2> HIDE DEF X
  <2>3. \A n \in 1..MaxMem : \A w \in X : F[<<n, w>>] = Nearer(M, w)
    OBVIOUS
  <2> HIDE DEF F
  <2>4. \A n \in 1..MaxMem : \A w \in X : F[<<n, w>>] \in X
    BY <2>1, <2>3
  <2>5. PICK r : Iterated(X, roots, MaxMem, F, r)
    BY <1>2, <2>2, <2>4, Iterates
  <2>6. r \in [0..MaxMem -> X] /\ r[0] = roots /\ \A n \in 1..MaxMem : r[n] = F[<<n, r[n - 1]>>]
    BY <2>5 DEF Iterated
  <2>7. ASSUME NEW n \in 0..MaxMem
        PROVE  r[n] = IF n = 0 THEN roots ELSE Nearer(M, r[n - 1])
    <3>1. CASE n = 0
      BY <2>6, <3>1
    <3>2. CASE n # 0
      <4>1. n \in 1..MaxMem /\ n - 1 \in 0..MaxMem
        BY <1>2, <3>2
      <4>2. r[n - 1] \in X
        BY <2>6, <4>1
      <4>3. QED BY <2>3, <2>6, <3>2, <4>1, <4>2
    <3>3. QED BY <3>1, <3>2
  <2> DEFINE q == [n \in 0..MaxMem |-> IF n = 0 THEN roots ELSE Nearer(M, r[n - 1])]
  <2>8. r = q
    BY <2>6, <2>7
  <2>9. Is(r)
    BY <2>8
  <2>10. QED BY <2>6, <2>9 DEF X
<1>4. Is(c)
  BY <1>3
<1> HIDE DEF c
<1>5. c[0] = roots
  BY <1>2, <1>4
<1>6. \A n \in 1..MaxMem : c[n] = Nearer(M, c[n - 1])
  <2>1. TAKE n \in 1..MaxMem
  <2>2. n \in 0..MaxMem /\ n # 0
    BY <1>2
  <2>3. QED BY <1>4, <2>2
<1>7. \A n \in 0..MaxMem : c[n] \in SUBSET Id
  <2> DEFINE G == {n \in 0..MaxMem : c[n] \in SUBSET Id}
  <2>1. 0 \in G
    BY <1>2, <1>5
  <2>2. ASSUME NEW n \in 1..MaxMem, n - 1 \in G
        PROVE  n \in G
    BY <1>2, <1>6, <2>2 DEF Nearer, Heap
  <2>3. Steps(MaxMem, G)
    BY <2>1, <2>2 DEF Steps
  <2> HIDE DEF G
  <2>4. \A n \in 0..MaxMem : n \in G
    BY <1>2, <2>3, StepsReach
  <2>5. QED BY <2>4 DEF G
<1>8. c \in [0..MaxMem -> SUBSET Id]
  <2>1. c = [n \in 0..MaxMem |-> IF n = 0 THEN roots ELSE Nearer(M, c[n - 1])]
    BY <1>4
  <2> DEFINE q == [n \in 0..MaxMem |-> IF n = 0 THEN roots ELSE Nearer(M, c[n - 1])]
  <2>2. c = q /\ DOMAIN q = 0..MaxMem
    BY <2>1
  <2>3. \A n \in 0..MaxMem : q[n] \in SUBSET Id
    BY <1>7, <2>2
  <2>4. QED BY <2>2, <2>3
<1>9. QED BY <1>1, <1>5, <1>6, <1>8 DEF Reaching

\* The roots are marked, and what a marked memory is over is marked: after as
\* many steps as there are identifiers nothing is left to be marked.
LEMMA FlaggedCloses ==
  ASSUME NEW M, Heap(M), NEW roots \in SUBSET Id
  PROVE  /\ FlaggedIn(M, roots) \subseteq Id /\ roots \subseteq FlaggedIn(M, roots)
         /\ ClosedIn(M, FlaggedIn(M, roots))
<1>1. PICK r : Reaching(M, roots, r) /\ FlaggedIn(M, roots) = r[MaxMem]
  BY FlaggedIs
<1>2. /\ r \in [0..MaxMem -> SUBSET Id] /\ r[0] = roots
      /\ \A n \in 1..MaxMem : r[n] = Nearer(M, r[n - 1])
  BY <1>1 DEF Reaching
<1>3. MaxMem \in Nat
  BY MemoryAssumption
<1>4. IsFiniteSet(Id) /\ Cardinality(Id) = MaxMem
  BY <1>3, FS_Interval DEF Id
<1> DEFINE Many(n) == Cardinality(r[n]) > n \/ ClosedIn(M, r[n])
           G == {n \in 0..MaxMem : Many(n) /\ roots \subseteq r[n]}
<1>5. 0 \in G
  <2>1. 0 \in 0..MaxMem /\ r[0] \subseteq Id
    BY <1>2, <1>3
  <2>2. IsFiniteSet(r[0]) /\ Cardinality(r[0]) \in Nat
    BY <1>4, <2>1, FS_Subset, FS_CardinalityType
  <2>3. CASE r[0] = {}
    BY <1>2, <2>1, <2>3 DEF ClosedIn
  <2>4. CASE r[0] # {}
    <3>1. Cardinality(r[0]) # 0
      BY <2>2, <2>4, FS_EmptySet
    <3>2. QED BY <1>2, <2>1, <2>2, <3>1
  <2>5. QED BY <2>3, <2>4
<1>6. ASSUME NEW n \in 1..MaxMem, n - 1 \in G
      PROVE  n \in G
  <2>1. n \in 0..MaxMem /\ n - 1 \in 0..MaxMem /\ n \in Nat
    BY <1>3
  <2>2. r[n] = Nearer(M, r[n - 1]) /\ r[n] \subseteq Id /\ r[n - 1] \subseteq Id
    BY <1>2, <2>1
  <2>3. r[n - 1] \subseteq r[n]
    BY <2>2 DEF Nearer
  <2>4. roots \subseteq r[n]
    BY <1>6, <2>3
  <2>5. CASE ClosedIn(M, r[n - 1])
    <3>1. r[n] = r[n - 1]
      BY <2>2, <2>5 DEF Nearer, ClosedIn
    <3>2. QED BY <2>1, <2>4, <2>5, <3>1
  <2>6. CASE ~ClosedIn(M, r[n - 1])
    <3>1. r[n] # r[n - 1]
      BY <2>2, <2>6 DEF Nearer, ClosedIn
    <3>2. /\ IsFiniteSet(r[n]) /\ Cardinality(r[n]) \in Nat
          /\ Cardinality(r[n - 1]) \in Nat
      BY <1>4, <2>2, FS_Subset, FS_CardinalityType
    <3>3. Cardinality(r[n - 1]) <= Cardinality(r[n]) /\ Cardinality(r[n - 1]) # Cardinality(r[n])
      BY <2>3, <3>1, <3>2, FS_Subset
    <3>4. Cardinality(r[n - 1]) > n - 1
      BY <1>6, <2>6
    <3>5. Cardinality(r[n]) > n
      BY <2>1, <3>2, <3>3, <3>4
    <3>6. QED BY <2>1, <2>4, <3>5
  <2>7. QED BY <2>5, <2>6
<1>7. Steps(MaxMem, G)
  BY <1>5, <1>6 DEF Steps
<1> HIDE DEF G
<1>8. MaxMem \in 0..MaxMem /\ \A n \in 0..MaxMem : n \in G
  BY <1>3, <1>7, StepsReach
<1>9. MaxMem \in G
  BY <1>8
<1>10. r[MaxMem] \subseteq Id
  BY <1>2, <1>8
<1>11. ~(Cardinality(r[MaxMem]) > MaxMem)
  <2>1. Cardinality(r[MaxMem]) <= MaxMem /\ Cardinality(r[MaxMem]) \in Nat
    BY <1>4, <1>10, FS_Subset, FS_CardinalityType
  <2>2. QED BY <1>3, <2>1
<1>12. ClosedIn(M, r[MaxMem]) /\ roots \subseteq r[MaxMem]
  BY <1>9, <1>11 DEF G
<1>13. QED BY <1>1, <1>10, <1>12

\* Nothing else is marked.
LEMMA FlaggedLeast ==
  ASSUME NEW M, Heap(M), NEW roots \in SUBSET Id, NEW S, roots \subseteq S, ClosedIn(M, S)
  PROVE  FlaggedIn(M, roots) \subseteq S
<1>1. PICK r : Reaching(M, roots, r) /\ FlaggedIn(M, roots) = r[MaxMem]
  BY FlaggedIs
<1>2. r[0] = roots /\ \A n \in 1..MaxMem : r[n] = Nearer(M, r[n - 1])
  BY <1>1 DEF Reaching
<1>3. MaxMem \in Nat
  BY MemoryAssumption
<1> DEFINE G == {n \in 0..MaxMem : r[n] \subseteq S}
<1>4. 0 \in G
  BY <1>2, <1>3
<1>5. ASSUME NEW n \in 1..MaxMem, n - 1 \in G
      PROVE  n \in G
  BY <1>2, <1>3, <1>5 DEF Nearer, ClosedIn
<1>6. Steps(MaxMem, G)
  BY <1>4, <1>5 DEF Steps
<1> HIDE DEF G
<1>7. MaxMem \in 0..MaxMem /\ \A n \in 0..MaxMem : n \in G
  BY <1>3, <1>6, StepsReach
<1>8. MaxMem \in G
  BY <1>7
<1>9. QED BY <1>1, <1>8 DEF G

-----------------------------------------------------------------------------
(***************************************************************************)
(* Stores.  In each assignment the newest cell of an address says what it  *)
(* holds.                                                                  *)
(***************************************************************************)
Stuff == Values \cup {0}
CellSet == [index : Addresses, value : Values]
Contents == [Worlds -> [Addr -> Stuff]]

\* The value of address x in assignment w, where below is what is under the cells.
NewestOf(arr, w, x, below) ==
  LET hits == {k \in DOMAIN arr : arr[k].index[w] = x}
  IN IF hits = {} THEN below ELSE arr[Max(hits)].value

NoneAt(arr, w, x) == \A k \in 1..Len(arr) : arr[k].index[w] # x
NewestAt(arr, w, x, k) ==
  /\ k \in 1..Len(arr) /\ arr[k].index[w] = x
  /\ \A j \in 1..Len(arr) : j > k => arr[j].index[w] # x

\* A set of positions has a greatest one.
LEMMA Greatest ==
  ASSUME NEW N \in Nat, NEW S, S \subseteq 1..N, S # {}
  PROVE  Max(S) \in S /\ \A k \in S : k <= Max(S)
<1> DEFINE T == {N - k : k \in S}
<1>1. T \subseteq Nat /\ T # {}
  OBVIOUS
<1>2. PICK t \in T : \A u \in T : t <= u
  <2> HIDE DEF T
  <2>1. QED BY <1>1, LeastNat
<1>3. PICK n \in S : t = N - n
  BY <1>2
<1>4. \A k \in S : n >= k
  <2>1. TAKE k \in S
  <2>2. N - k \in T
    OBVIOUS
  <2>3. N - n <= N - k /\ n \in 1..N /\ k \in 1..N
    BY <1>2, <1>3, <2>2
  <2>4. QED BY <2>3
<1>5. Max(S) \in S /\ \A k \in S : Max(S) >= k
  BY <1>3, <1>4 DEF Max
<1>6. \A k \in S : k \in 1..N
  OBVIOUS
<1>7. QED BY <1>5, <1>6

\* An address has a newest cell or none, and holds its value or what is below.
LEMMA NewestCases ==
  ASSUME NEW arr \in Seq(CellSet), NEW w, NEW x
  PROVE  /\ NoneAt(arr, w, x) \/ \E k \in 1..Len(arr) : NewestAt(arr, w, x, k)
         /\ NoneAt(arr, w, x) => \A b : NewestOf(arr, w, x, b) = b
         /\ \A k \in 1..Len(arr) :
              NewestAt(arr, w, x, k) => \A b : NewestOf(arr, w, x, b) = arr[k].value
<1> DEFINE hits == {k \in 1..Len(arr) : arr[k].index[w] = x}
<1>1. PICK N \in Nat : N = Len(arr) /\ DOMAIN arr = 1..N
  OBVIOUS
<1>2. hits = {} <=> NoneAt(arr, w, x)
  BY DEF NoneAt
<1>3. \A b : NewestOf(arr, w, x, b) = IF hits = {} THEN b ELSE arr[Max(hits)].value
  BY <1>1 DEF NewestOf
<1>4. hits \subseteq 1..N
  BY <1>1
<1>5. hits # {} => Max(hits) \in hits /\ \A k \in hits : k <= Max(hits)
  <2> HIDE DEF hits
  <2>1. QED BY <1>4, Greatest
<1>6. hits # {} => NewestAt(arr, w, x, Max(hits))
  <2>1. HAVE hits # {}
  <2>2. Max(hits) \in 1..N /\ arr[Max(hits)].index[w] = x
    BY <1>1, <1>5, <2>1
  <2>3. ASSUME NEW j \in 1..Len(arr), j > Max(hits), arr[j].index[w] = x
        PROVE  FALSE
    <3>1. j \in hits
      BY <2>3
    <3>2. j <= Max(hits)
      BY <1>5, <3>1
    <3>3. QED BY <1>1, <2>2, <2>3, <3>2
  <2>4. QED BY <1>1, <2>2, <2>3 DEF NewestAt
<1>7. ASSUME NEW k \in 1..Len(arr), NewestAt(arr, w, x, k)
      PROVE  hits # {} /\ Max(hits) = k
  <2>1. k \in hits
    BY <1>7 DEF NewestAt
  <2>2. k <= Max(hits) /\ Max(hits) \in hits
    BY <1>5, <2>1
  <2>3. ~(Max(hits) > k)
    BY <1>7, <2>2 DEF NewestAt
  <2>4. QED BY <1>1, <2>1, <2>2, <2>3
<1>8. NoneAt(arr, w, x) \/ \E k \in 1..Len(arr) : NewestAt(arr, w, x, k)
  <2>1. hits # {} => Max(hits) \in 1..Len(arr)
    BY <1>5
  <2> HIDE DEF hits
  <2>2. QED BY <1>2, <1>6, <2>1
<1>9. QED
  <2> HIDE DEF hits
  <2>1. QED BY <1>2, <1>3, <1>7, <1>8

\* A cell is taken out.
LEMMA RemovedAt ==
  ASSUME NEW S, NEW s \in Seq(S), NEW i \in 1..Len(s)
  PROVE  /\ RemoveAt(s, i) \in Seq(S) /\ Len(RemoveAt(s, i)) = Len(s) - 1
         /\ \A k \in 1..(Len(s) - 1) : RemoveAt(s, i)[k] = IF k < i THEN s[k] ELSE s[k + 1]
<1>1. PICK N \in Nat : N = Len(s) /\ i \in 1..N /\ \A k \in 1..N : s[k] \in S
  OBVIOUS
<1>2. PICK l : l = SubSeq(s, 1, i - 1)
  OBVIOUS
<1>3. PICK r : r = SubSeq(s, i + 1, N)
  OBVIOUS
<1>4. l \in Seq(S) /\ Len(l) = i - 1 /\ \A k \in 1..(i - 1) : l[k] = s[k]
  <2>1. 1 \in Int /\ i - 1 \in Int /\ \A k \in 1..(i - 1) : s[k] \in S
    BY <1>1
  <2>2. /\ l \in Seq(S) /\ Len(l) = IF 1 <= i - 1 THEN i - 1 - 1 + 1 ELSE 0
        /\ \A k \in 1..(i - 1 - 1 + 1) : l[k] = s[1 + k - 1]
    BY ONLY <1>2, <2>1, SubSeqProperties
  <2>3. QED BY <1>1, <2>2
<1>5. r \in Seq(S) /\ Len(r) = N - i /\ \A k \in 1..(N - i) : r[k] = s[i + k]
  <2>1. i + 1 \in Int /\ N \in Int /\ \A k \in (i + 1)..N : s[k] \in S
    BY <1>1
  <2>2. /\ r \in Seq(S) /\ Len(r) = IF i + 1 <= N THEN N - (i + 1) + 1 ELSE 0
        /\ \A k \in 1..(N - (i + 1) + 1) : r[k] = s[i + 1 + k - 1]
    BY ONLY <1>3, <2>1, SubSeqProperties
  <2>3. QED BY <1>1, <2>2
<1>6. RemoveAt(s, i) = l \o r
  BY <1>1, <1>2, <1>3 DEF RemoveAt
<1>7. /\ l \o r \in Seq(S) /\ Len(l \o r) = Len(l) + Len(r)
      /\ \A k \in 1..(Len(l) + Len(r)) : (l \o r)[k] = IF k <= Len(l) THEN l[k] ELSE r[k - Len(l)]
  BY ONLY <1>4, <1>5, ConcatProperties
<1>8. ASSUME NEW k \in 1..(N - 1)
      PROVE  (l \o r)[k] = IF k < i THEN s[k] ELSE s[k + 1]
  <2>1. (l \o r)[k] = IF k <= i - 1 THEN l[k] ELSE r[k - (i - 1)]
    <3>1. Len(l) + Len(r) = N - 1
      BY <1>1, <1>4, <1>5
    <3>2. QED BY <1>4, <1>7, <3>1
  <2>2. CASE k < i
    BY <1>1, <1>4, <2>1, <2>2
  <2>3. CASE ~(k < i)
    <3>1. k - (i - 1) \in 1..(N - i) /\ i + (k - (i - 1)) = k + 1 /\ ~(k <= i - 1)
      BY <1>1, <2>3
    <3>2. QED BY <1>5, <2>1, <2>3, <3>1
  <2>4. QED BY <2>2, <2>3
<1>9. Len(l \o r) = N - 1
  BY <1>1, <1>4, <1>5, <1>7
<1>10. QED BY <1>1, <1>6, <1>7, <1>8, <1>9

\* Taking out a cell of another address loses nothing of this one.
LEMMA RemovedKeeps ==
  ASSUME NEW arr \in Seq(CellSet), NEW p \in 1..Len(arr), NEW w, NEW x, arr[p].index[w] # x, NEW b
  PROVE  NewestOf(RemoveAt(arr, p), w, x, b) = NewestOf(arr, w, x, b)
<1>1. PICK N \in Nat : N = Len(arr) /\ p \in 1..N
  OBVIOUS
<1>2. PICK t : t = RemoveAt(arr, p)
  OBVIOUS
<1>3. /\ t \in Seq(CellSet) /\ Len(t) = N - 1
      /\ \A k \in 1..(N - 1) : t[k] = IF k < p THEN arr[k] ELSE arr[k + 1]
  BY <1>1, <1>2, RemovedAt
<1>4. CASE NoneAt(arr, w, x)
  <2>1. ASSUME NEW k \in 1..(N - 1)
        PROVE  t[k].index[w] # x
    <3>1. k \in 1..N /\ k + 1 \in 1..N
      BY <1>1
    <3>2. arr[k].index[w] # x /\ arr[k + 1].index[w] # x
      BY <1>1, <1>4, <3>1 DEF NoneAt
    <3>3. QED BY <1>3, <3>2
  <2>2. NoneAt(t, w, x)
    BY <1>3, <2>1 DEF NoneAt
  <2>3. QED BY <1>2, <1>3, <1>4, <2>2, NewestCases
<1>5. CASE ~NoneAt(arr, w, x)
  <2>1. PICK k \in 1..Len(arr) : NewestAt(arr, w, x, k)
    BY <1>5, NewestCases
  <2>2. /\ k \in 1..N /\ k # p /\ arr[k].index[w] = x
        /\ \A j \in 1..N : j > k => arr[j].index[w] # x
    BY <1>1, <2>1 DEF NewestAt
  <2> DEFINE q == IF k < p THEN k ELSE k - 1
  <2>3. q \in 1..(N - 1) /\ t[q] = arr[k]
    <3>1. CASE k < p
      BY <1>1, <1>3, <2>2, <3>1
    <3>2. CASE ~(k < p)
      <4>1. k - 1 \in 1..(N - 1) /\ ~(k - 1 < p) /\ k - 1 + 1 = k
        BY <1>1, <2>2, <3>2
      <4>2. QED BY <1>3, <3>2, <4>1
    <3>3. QED BY <3>1, <3>2
  <2>4. ASSUME NEW j \in 1..(N - 1), j > q
        PROVE  t[j].index[w] # x
    <3>1. CASE j < p
      <4>1. j \in 1..N /\ j > k
        BY <1>1, <2>2, <2>4, <3>1
      <4>2. QED BY <1>3, <2>2, <3>1, <4>1
    <3>2. CASE ~(j < p)
      <4>1. j + 1 \in 1..N /\ j + 1 > k
        BY <1>1, <2>2, <2>4, <3>2
      <4>2. QED BY <1>3, <2>2, <3>2, <4>1
    <3>3. QED BY <3>1, <3>2
  <2> HIDE DEF q
  <2>5. NewestAt(t, w, x, q)
    BY <1>3, <2>2, <2>3, <2>4 DEF NewestAt
  <2>6. NewestOf(t, w, x, b) = t[q].value
    <3>1. q \in 1..Len(t)
      BY <1>3, <2>3
    <3>2. \A c : NewestOf(t, w, x, c) = t[q].value
      BY <1>3, <2>5, <3>1, NewestCases, ZenonT(40)
    <3>3. QED BY <3>2
  <2>7. NewestOf(arr, w, x, b) = arr[k].value
    BY <2>1, NewestCases, ZenonT(40)
  <2>8. QED BY <1>2, <2>3, <2>6, <2>7
<1>6. QED BY <1>4, <1>5

\* A new cell is the newest one of its address.
LEMMA AppendedMeans ==
  ASSUME NEW arr \in Seq(CellSet), NEW i \in Addresses, NEW v \in Values, NEW w, NEW x, NEW b
  PROVE  /\ Append(arr, Cell(i, v)) \in Seq(CellSet)
         /\ NewestOf(Append(arr, Cell(i, v)), w, x, b) =
              IF i[w] = x THEN v ELSE NewestOf(arr, w, x, b)
<1>1. PICK N \in Nat : N = Len(arr)
  OBVIOUS
<1>2. PICK e : e = Cell(i, v) /\ e \in CellSet /\ e.index = i /\ e.value = v
  <2>1. Cell(i, v) \in CellSet /\ Cell(i, v).index = i /\ Cell(i, v).value = v
    BY DEF Cell, CellSet
  <2>2. QED BY <2>1
<1>3. PICK t : t = Append(arr, e)
  OBVIOUS
<1>4. t \in Seq(CellSet) /\ Len(t) = N + 1 /\ t[N + 1] = e /\ \A k \in 1..N : t[k] = arr[k]
  BY <1>1, <1>2, <1>3, AppendProperties
<1>5. CASE i[w] = x
  <2>1. N + 1 \in 1..Len(t) /\ \A j \in 1..Len(t) : ~(j > N + 1)
    BY <1>4
  <2>2. NewestAt(t, w, x, N + 1)
    BY <1>2, <1>4, <1>5, <2>1 DEF NewestAt
  <2>3. NewestOf(t, w, x, b) = t[N + 1].value
    BY <1>4, <2>1, <2>2, NewestCases
  <2>4. QED BY <1>2, <1>3, <1>4, <1>5, <2>3
<1>6. CASE i[w] # x
  <2>1. \A j \in 1..Len(t) : j \in 1..N \/ j = N + 1
    BY <1>4
  <2>2. CASE NoneAt(arr, w, x)
    <3>1. NoneAt(t, w, x)
      BY <1>1, <1>2, <1>4, <1>6, <2>1, <2>2 DEF NoneAt
    <3>2. NewestOf(t, w, x, b) = b /\ NewestOf(arr, w, x, b) = b
      BY <1>4, <2>2, <3>1, NewestCases
    <3>3. QED BY <1>2, <1>3, <1>4, <1>6, <3>2
  <2>3. CASE ~NoneAt(arr, w, x)
    <3>1. PICK k \in 1..Len(arr) : NewestAt(arr, w, x, k)
      BY <2>3, NewestCases
    <3>2. k \in 1..N /\ k \in 1..Len(t) /\ t[k] = arr[k]
      BY <1>1, <1>4
    <3>3. NewestAt(t, w, x, k)
      BY <1>1, <1>2, <1>4, <1>6, <2>1, <3>1, <3>2 DEF NewestAt
    <3>4. NewestOf(t, w, x, b) = arr[k].value /\ NewestOf(arr, w, x, b) = arr[k].value
      <4>1. \A c : NewestOf(t, w, x, c) = t[k].value
        <5>1. t \in Seq(CellSet) /\ k \in 1..Len(t)
          BY <1>4, <3>2
        <5>2. QED BY ONLY <3>3, <5>1, NewestCases
      <4>2. \A c : NewestOf(arr, w, x, c) = arr[k].value
        BY <3>1, NewestCases
      <4>3. QED BY <3>2, <4>1, <4>2
    <3>5. QED BY <1>2, <1>3, <1>4, <1>6, <3>4
  <2>4. QED BY <2>2, <2>3
<1>7. QED BY <1>5, <1>6

\* A store, with the cell of the same index taken out first.
LEMMA StoredMeans ==
  ASSUME NEW arr \in Seq(CellSet), NEW i \in Addresses, NEW v \in Values, NEW w, NEW x, NEW b
  PROVE  /\ Stored(arr, i, v) \in Seq(CellSet)
         /\ NewestOf(Stored(arr, i, v), w, x, b) =
              IF i[w] = x THEN v ELSE NewestOf(arr, w, x, b)
<1> DEFINE same == {k \in DOMAIN arr : arr[k].index = i}
           rest == IF same = {} THEN arr ELSE RemoveAt(arr, Min(same))
<1>1. Stored(arr, i, v) = Append(rest, Cell(i, v))
  BY DEF Stored
<1>2. rest \in Seq(CellSet) /\ (i[w] # x => NewestOf(rest, w, x, b) = NewestOf(arr, w, x, b))
  <2>1. CASE same = {}
    BY <2>1
  <2>2. CASE same # {}
    <3>1. same \subseteq Nat /\ same \subseteq 1..Len(arr)
      OBVIOUS
    <3>2. Min(same) \in same
      <4> HIDE DEF same
      <4>1. PICK n \in same : \A k \in same : n <= k
        BY <2>2, <3>1, LeastNat
      <4>2. QED BY <4>1 DEF Min
    <3>3. PICK p \in 1..Len(arr) : p = Min(same) /\ arr[p].index = i
      BY <3>1, <3>2
    <3>4. rest = RemoveAt(arr, p)
      BY <2>2, <3>3
    <3>5. RemoveAt(arr, p) \in Seq(CellSet)
      BY RemovedAt
    <3>6. i[w] # x => NewestOf(RemoveAt(arr, p), w, x, b) = NewestOf(arr, w, x, b)
      BY <3>3, RemovedKeeps
    <3>7. QED BY <3>4, <3>5, <3>6
  <2>3. QED BY <2>1, <2>2
<1> HIDE DEF rest
<1>3. /\ Append(rest, Cell(i, v)) \in Seq(CellSet)
      /\ NewestOf(Append(rest, Cell(i, v)), w, x, b) =
           IF i[w] = x THEN v ELSE NewestOf(rest, w, x, b)
  BY <1>2, AppendedMeans
<1>4. QED BY <1>1, <1>2, <1>3

-----------------------------------------------------------------------------
(***************************************************************************)
(* Values of several elements.                                             *)
(***************************************************************************)
\* Addresses wrap around.
LEMMA PlusType ==
  ASSUME NEW a \in Addresses, NEW k \in Nat
  PROVE  /\ Plus(a, k) \in Addresses
         /\ \A w \in Worlds : Plus(a, k)[w] = (a[w] + k) % NumAddr
<1>1. NumAddr \in Nat /\ NumAddr > 0
  BY MemoryAssumption
<1>2. ASSUME NEW w \in Worlds
      PROVE  (a[w] + k) % NumAddr \in Addr
  <2>1. a[w] \in Addr
    BY DEF Addresses
  <2>2. PICK n \in Nat : n = a[w] + k
    BY <1>1, <2>1 DEF Addr
  <2>3. n % NumAddr \in 0..(NumAddr - 1)
    BY <1>1
  <2>4. QED BY <2>2, <2>3 DEF Addr
<1>3. QED BY <1>2 DEF Plus, Addresses

\* Two elements of a value that fits the addresses are at different ones.
LEMMA PlusDiffers ==
  ASSUME NEW a \in Addresses, NEW w \in Worlds,
         NEW i \in 0..(NumAddr - 1), NEW j \in 0..(NumAddr - 1), i # j
  PROVE  Plus(a, i)[w] # Plus(a, j)[w]
<1>1. PICK N \in Nat : N = NumAddr /\ N > 0
  BY MemoryAssumption
<1>2. PICK b \in 0..(N - 1) : b = a[w]
  BY <1>1 DEF Addresses, Addr
<1>3. \A k \in 0..(N - 1) : (b + k) % N = IF b + k < N THEN b + k ELSE b + k - N
  <2>1. TAKE k \in 0..(N - 1)
  <2>2. CASE b + k < N
    BY <1>1, <2>2
  <2>3. CASE ~(b + k < N)
    <3>1. PICK n \in 0..(N - 1) : b + k = n + N
      <4>1. b + k - N \in 0..(N - 1) /\ b + k = (b + k - N) + N
        BY <1>1, <2>3
      <4>2. QED BY <4>1
    <3>2. (n + N) % N = n
      BY <1>1
    <3>3. QED BY <1>1, <2>3, <3>1, <3>2
  <2>4. QED BY <2>2, <2>3
<1>4. i \in 0..(N - 1) /\ j \in 0..(N - 1) /\ i \in Nat /\ j \in Nat
  BY <1>1
<1>5. Plus(a, i)[w] = (b + i) % N /\ Plus(a, j)[w] = (b + j) % N
  BY <1>1, <1>2 DEF Plus
<1>6. (b + i) % N # (b + j) % N
  <2>1. /\ (b + i) % N = IF b + i < N THEN b + i ELSE b + i - N
        /\ (b + j) % N = IF b + j < N THEN b + j ELSE b + j - N
    BY <1>3, <1>4
  <2>2. PICK p, q : p = (b + i) % N /\ q = (b + j) % N
    OBVIOUS
  <2>3. /\ p = IF b + i < N THEN b + i ELSE b + i - N
        /\ q = IF b + j < N THEN b + j ELSE b + j - N
    BY <2>1, <2>2
  <2>4. p # q
    BY ONLY <1>1, <1>2, <1>4, <2>3, i # j
  <2>5. QED BY <2>2, <2>4
<1>7. QED BY <1>5, <1>6

Storing(arr, a, vs, r) ==
  /\ r[0] = arr /\ \A k \in 0..Len(vs) : r[k] \in Seq(CellSet)
  /\ \A k \in 1..Len(vs) : r[k] = Stored(r[k - 1], Plus(a, k - 1), vs[k])

Overwriting(g, a, vs, r) ==
  /\ r[0] = g /\ \A k \in 0..Len(vs) : r[k] \in Contents
  /\ \A k \in 1..Len(vs) : r[k] = Overwrite(r[k - 1], Plus(a, k - 1), vs[k])

\* One store keeps the cells cells.
LEMMA StoredType ==
  ASSUME NEW arr \in Seq(CellSet), NEW i \in Addresses, NEW v \in Values
  PROVE  Stored(arr, i, v) \in Seq(CellSet)
BY StoredMeans

\* One store in what a memory should hold.
LEMMA OverwriteMeans ==
  ASSUME NEW g \in Contents, NEW i \in Addresses, NEW v \in Values
  PROVE  /\ Overwrite(g, i, v) \in Contents
         /\ \A w \in Worlds, x \in Addr :
              Overwrite(g, i, v)[w][x] = IF i[w] = x THEN v ELSE g[w][x]
<1>1. \A w \in Worlds : g[w] \in [Addr -> Stuff] /\ i[w] \in Addr /\ v \in Stuff
  BY DEF Contents, Addresses, Stuff
<1>2. \A w \in Worlds : [g[w] EXCEPT ![i[w]] = v] \in [Addr -> Stuff]
  BY <1>1
<1>3. Overwrite(g, i, v) \in Contents
  BY <1>2 DEF Overwrite, Contents
<1>4. ASSUME NEW w \in Worlds, NEW x \in Addr
      PROVE  Overwrite(g, i, v)[w][x] = IF i[w] = x THEN v ELSE g[w][x]
  <2>1. Overwrite(g, i, v)[w] = [g[w] EXCEPT ![i[w]] = v]
    BY DEF Overwrite
  <2>2. QED BY <1>1, <2>1
<1>5. QED BY <1>3, <1>4

\* So what a memory holds keeps its type.
LEMMA OverwriteType ==
  ASSUME NEW g \in Contents, NEW i \in Addresses, NEW v \in Values
  PROVE  Overwrite(g, i, v) \in Contents
BY OverwriteMeans

\* The cells after a value was stored, element by element.
LEMMA StoredAllIs ==
  ASSUME NEW vs \in Seq(Values), NEW a \in Addresses, NEW x0 \in Seq(CellSet)
  PROVE  \E r : Storing(x0, a, vs, r) /\ StoredAll(x0, a, vs) = r[Len(vs)]
<1> DEFINE N == Len(vs)
           By(k, y) == Stored(y, Plus(a, k - 1), vs[k])
           Is(f) == f = [k \in 0..N |-> IF k = 0 THEN x0 ELSE By(k, f[k - 1])]
           c == CHOOSE f : Is(f)
<1>1. StoredAll(x0, a, vs) = c[N]
  BY DEF StoredAll
<1>2. N \in Nat /\ \A k \in 1..N : vs[k] \in Values
  OBVIOUS
<1>3. \A k \in 1..N : \A y \in Seq(CellSet) : By(k, y) \in Seq(CellSet)
  <2>1. TAKE k \in 1..N
  <2>2. TAKE y \in Seq(CellSet)
  <2>3. Plus(a, k - 1) \in Addresses
    <3>1. k - 1 \in Nat
      BY <1>2
    <3>2. QED BY <3>1, PlusType
  <2>4. vs[k] \in Values
    BY <1>2
  <2>5. QED BY ONLY <2>3, <2>4, StoredType DEF By
<1>4. \E f : Is(f)
  <2> DEFINE X == Seq(CellSet)
             F == [p \in (1..N) \X X |-> By(p[1], p[2])]
  <2>1. x0 \in X
    OBVIOUS
  <2>2. \A k \in 1..N : \A y \in X : By(k, y) \in X
    BY <1>3
  <2> HIDE DEF X, N, By
  <2>3. \A k \in 1..N : \A y \in X : F[<<k, y>>] = By(k, y)
    OBVIOUS
  <2> HIDE DEF F
  <2>4. \A k \in 1..N : \A y \in X : F[<<k, y>>] \in X
    BY <2>2, <2>3
  <2>5. PICK r : Iterated(X, x0, N, F, r)
    BY <1>2, <2>1, <2>4, Iterates
  <2>6. r \in [0..N -> X] /\ r[0] = x0 /\ \A k \in 1..N : r[k] = F[<<k, r[k - 1]>>]
    BY <2>5 DEF Iterated
  <2>7. ASSUME NEW k \in 0..N
        PROVE  r[k] = IF k = 0 THEN x0 ELSE By(k, r[k - 1])
    <3>1. CASE k = 0
      BY <2>6, <3>1
    <3>2. CASE k # 0
      <4>1. k \in 1..N /\ k - 1 \in 0..N
        BY <1>2, <3>2
      <4>2. r[k - 1] \in X
        BY <2>6, <4>1
      <4>3. QED BY <2>3, <2>6, <3>2, <4>1, <4>2
    <3>3. QED BY <3>1, <3>2
  <2> DEFINE q == [k \in 0..N |-> IF k = 0 THEN x0 ELSE By(k, r[k - 1])]
  <2>8. r = q
    BY <2>6, <2>7
  <2>9. Is(r)
    BY <2>8
  <2>10. QED BY <2>9
<1>5. Is(c)
  <2> HIDE DEF Is
  <2>1. QED BY <1>4
<1> HIDE DEF c, By
<1>6. c[0] = x0
  BY <1>2, <1>5
<1>7. \A k \in 1..N : c[k] = By(k, c[k - 1])
  <2>1. TAKE k \in 1..N
  <2>2. k \in 0..N /\ k # 0
    BY <1>2
  <2>3. QED BY <1>5, <2>2
<1>8. \A k \in 0..N : c[k] \in Seq(CellSet)
  <2> DEFINE G == {k \in 0..N : c[k] \in Seq(CellSet)}
  <2>1. 0 \in G
    BY <1>2, <1>6
  <2>2. ASSUME NEW k \in 1..N, k - 1 \in G
        PROVE  k \in G
    BY <1>2, <1>3, <1>7, <2>2
  <2>3. Steps(N, G)
    BY <2>1, <2>2 DEF Steps
  <2> HIDE DEF G
  <2>4. \A k \in 0..N : k \in G
    BY <1>2, <2>3, StepsReach
  <2>5. QED BY <2>4 DEF G
<1>9. \A k \in 1..Len(vs) : c[k] = Stored(c[k - 1], Plus(a, k - 1), vs[k])
  BY <1>7 DEF By
<1>10. QED BY <1>1, <1>6, <1>8, <1>9 DEF Storing

\* What a memory should hold after the same stores.
LEMMA OverwriteAllIs ==
  ASSUME NEW vs \in Seq(Values), NEW a \in Addresses, NEW x0 \in Contents
  PROVE  \E r : Overwriting(x0, a, vs, r) /\ OverwriteAll(x0, a, vs) = r[Len(vs)]
<1> DEFINE N == Len(vs)
           By(k, y) == Overwrite(y, Plus(a, k - 1), vs[k])
           Is(f) == f = [k \in 0..N |-> IF k = 0 THEN x0 ELSE By(k, f[k - 1])]
           c == CHOOSE f : Is(f)
<1>1. OverwriteAll(x0, a, vs) = c[N]
  BY DEF OverwriteAll
<1>2. N \in Nat /\ \A k \in 1..N : vs[k] \in Values
  OBVIOUS
<1>3. \A k \in 1..N : \A y \in Contents : By(k, y) \in Contents
  <2>1. TAKE k \in 1..N
  <2>2. TAKE y \in Contents
  <2>3. Plus(a, k - 1) \in Addresses
    <3>1. k - 1 \in Nat
      BY <1>2
    <3>2. QED BY <3>1, PlusType
  <2>4. vs[k] \in Values
    BY <1>2
  <2>5. QED BY ONLY <2>3, <2>4, OverwriteType DEF By
<1>4. \E f : Is(f)
  <2> DEFINE X == Contents
             F == [p \in (1..N) \X X |-> By(p[1], p[2])]
  <2>1. x0 \in X
    OBVIOUS
  <2>2. \A k \in 1..N : \A y \in X : By(k, y) \in X
    BY <1>3
  <2> HIDE DEF X, N, By
  <2>3. \A k \in 1..N : \A y \in X : F[<<k, y>>] = By(k, y)
    OBVIOUS
  <2> HIDE DEF F
  <2>4. \A k \in 1..N : \A y \in X : F[<<k, y>>] \in X
    BY <2>2, <2>3
  <2>5. PICK r : Iterated(X, x0, N, F, r)
    BY <1>2, <2>1, <2>4, Iterates
  <2>6. r \in [0..N -> X] /\ r[0] = x0 /\ \A k \in 1..N : r[k] = F[<<k, r[k - 1]>>]
    BY <2>5 DEF Iterated
  <2>7. ASSUME NEW k \in 0..N
        PROVE  r[k] = IF k = 0 THEN x0 ELSE By(k, r[k - 1])
    <3>1. CASE k = 0
      BY <2>6, <3>1
    <3>2. CASE k # 0
      <4>1. k \in 1..N /\ k - 1 \in 0..N
        BY <1>2, <3>2
      <4>2. r[k - 1] \in X
        BY <2>6, <4>1
      <4>3. QED BY <2>3, <2>6, <3>2, <4>1, <4>2
    <3>3. QED BY <3>1, <3>2
  <2> DEFINE q == [k \in 0..N |-> IF k = 0 THEN x0 ELSE By(k, r[k - 1])]
  <2>8. r = q
    BY <2>6, <2>7
  <2>9. Is(r)
    BY <2>8
  <2>10. QED BY <2>9
<1>5. Is(c)
  <2> HIDE DEF Is
  <2>1. QED BY <1>4
<1> HIDE DEF c, By
<1>6. c[0] = x0
  BY <1>2, <1>5
<1>7. \A k \in 1..N : c[k] = By(k, c[k - 1])
  <2>1. TAKE k \in 1..N
  <2>2. k \in 0..N /\ k # 0
    BY <1>2
  <2>3. QED BY <1>5, <2>2
<1>8. \A k \in 0..N : c[k] \in Contents
  <2> DEFINE G == {k \in 0..N : c[k] \in Contents}
  <2>1. 0 \in G
    BY <1>2, <1>6
  <2>2. ASSUME NEW k \in 1..N, k - 1 \in G
        PROVE  k \in G
    BY <1>2, <1>3, <1>7, <2>2
  <2>3. Steps(N, G)
    BY <2>1, <2>2 DEF Steps
  <2> HIDE DEF G
  <2>4. \A k \in 0..N : k \in G
    BY <1>2, <2>3, StepsReach
  <2>5. QED BY <2>4 DEF G
<1>9. \A k \in 1..Len(vs) : c[k] = Overwrite(c[k - 1], Plus(a, k - 1), vs[k])
  BY <1>7 DEF By
<1>10. QED BY <1>1, <1>6, <1>8, <1>9 DEF Overwriting

\* The cells arr over what is below mean g.
MeansOver(arr, below, g) ==
  \A w \in Worlds, x \in Addr : g[w][x] = NewestOf(arr, w, x, below[w][x])

\* Cells that mean what they should do so after a value is stored.
LEMMA StoredAllMeans ==
  ASSUME NEW vs \in Seq(Values), NEW a \in Addresses, NEW arr \in Seq(CellSet),
         NEW g \in Contents, NEW below
  PROVE  /\ StoredAll(arr, a, vs) \in Seq(CellSet) /\ OverwriteAll(g, a, vs) \in Contents
         /\ MeansOver(arr, below, g) =>
              MeansOver(StoredAll(arr, a, vs), below, OverwriteAll(g, a, vs))
<1>1. PICK r : Storing(arr, a, vs, r) /\ StoredAll(arr, a, vs) = r[Len(vs)]
  BY StoredAllIs
<1>2. PICK q : Overwriting(g, a, vs, q) /\ OverwriteAll(g, a, vs) = q[Len(vs)]
  BY OverwriteAllIs
<1>3. PICK N \in Nat : N = Len(vs) /\ \A k \in 1..N : vs[k] \in Values
  OBVIOUS
<1>4. /\ r[0] = arr /\ \A k \in 0..N : r[k] \in Seq(CellSet)
      /\ \A k \in 1..N : r[k] = Stored(r[k - 1], Plus(a, k - 1), vs[k])
  BY <1>1, <1>3 DEF Storing
<1>5. /\ q[0] = g /\ \A k \in 0..N : q[k] \in Contents
      /\ \A k \in 1..N : q[k] = Overwrite(q[k - 1], Plus(a, k - 1), vs[k])
  BY <1>2, <1>3 DEF Overwriting
<1>6. N \in 0..N /\ 0 \in 0..N
  BY <1>3
<1>7. ASSUME MeansOver(arr, below, g)
      PROVE  MeansOver(r[N], below, q[N])
  <2> DEFINE G == {k \in 0..N : MeansOver(r[k], below, q[k])}
  <2>1. 0 \in G
    BY <1>4, <1>5, <1>6, <1>7
  <2>2. ASSUME NEW k \in 1..N, k - 1 \in G
        PROVE  k \in G
    <3>1. k - 1 \in 0..N /\ k \in 0..N /\ k - 1 \in Nat
      BY <1>3
    <3>2. PICK s \in Seq(CellSet) : s = r[k - 1]
      BY <1>4, <3>1
    <3>3. PICK h \in Contents : h = q[k - 1]
      BY <1>5, <3>1
    <3>4. PICK i \in Addresses : i = Plus(a, k - 1)
      BY <3>1, PlusType
    <3>5. PICK v \in Values : v = vs[k]
      BY <1>3
    <3>6. MeansOver(s, below, h)
      BY <2>2, <3>2, <3>3
    <3>7. ASSUME NEW w \in Worlds, NEW x \in Addr
          PROVE  Overwrite(h, i, v)[w][x] = NewestOf(Stored(s, i, v), w, x, below[w][x])
      <4>1. h[w][x] = NewestOf(s, w, x, below[w][x])
        BY <3>6 DEF MeansOver
      <4>2. NewestOf(Stored(s, i, v), w, x, below[w][x]) =
              IF i[w] = x THEN v ELSE NewestOf(s, w, x, below[w][x])
        BY StoredMeans
      <4>3. Overwrite(h, i, v)[w][x] = IF i[w] = x THEN v ELSE h[w][x]
        BY OverwriteMeans
      <4>4. QED BY <4>1, <4>2, <4>3
    <3>8. r[k] = Stored(s, i, v) /\ q[k] = Overwrite(h, i, v)
      BY <1>4, <1>5, <3>2, <3>3, <3>4, <3>5
    <3>9. MeansOver(r[k], below, q[k])
      BY <3>7, <3>8 DEF MeansOver
    <3>10. QED BY <3>1, <3>9
  <2>3. Steps(N, G)
    BY <2>1, <2>2 DEF Steps
  <2> HIDE DEF G
  <2>4. \A k \in 0..N : k \in G
    BY <1>3, <2>3, StepsReach
  <2>5. N \in G
    BY <1>6, <2>4
  <2>6. QED BY <2>5 DEF G
<1>8. r[N] \in Seq(CellSet) /\ q[N] \in Contents
  BY <1>4, <1>5, <1>6
<1>9. QED BY <1>1, <1>2, <1>3, <1>7, <1>8

\* Each element of a value that fits the addresses is where it was put, over any
\* cells.
LEMMA ElementsStay ==
  ASSUME NEW vs \in Seq(Values), Len(vs) <= NumAddr, NEW a \in Addresses,
         NEW arr \in Seq(CellSet), NEW j \in 1..Len(vs), NEW w \in Worlds, NEW b
  PROVE  NewestOf(StoredAll(arr, a, vs), w, Plus(a, j - 1)[w], b) = vs[j]
<1>1. PICK r : Storing(arr, a, vs, r) /\ StoredAll(arr, a, vs) = r[Len(vs)]
  BY StoredAllIs
<1>2. PICK N \in Nat : N = Len(vs) /\ \A k \in 1..N : vs[k] \in Values
  OBVIOUS
<1>3. /\ \A k \in 0..N : r[k] \in Seq(CellSet)
      /\ \A k \in 1..N : r[k] = Stored(r[k - 1], Plus(a, k - 1), vs[k])
  BY <1>1, <1>2 DEF Storing
<1>4. PICK x : x = Plus(a, j - 1)[w]
  OBVIOUS
<1>5. N <= NumAddr /\ NumAddr \in Nat /\ j \in 1..N
  BY <1>2, MemoryAssumption
<1> DEFINE G == {k \in 0..N : k >= j => NewestOf(r[k], w, x, b) = vs[j]}
<1>6. 0 \in G
  BY <1>2, <1>5
<1>7. ASSUME NEW k \in 1..N, k - 1 \in G
      PROVE  k \in G
  <2>1. k \in 0..N /\ k - 1 \in 0..N /\ k - 1 \in Nat
    BY <1>2
  <2>2. PICK s \in Seq(CellSet) : s = r[k - 1]
    BY <1>3, <2>1
  <2>3. PICK i \in Addresses : i = Plus(a, k - 1)
    BY <2>1, PlusType
  <2>4. PICK v \in Values : v = vs[k]
    BY <1>2
  <2>5. NewestOf(Stored(s, i, v), w, x, b) = IF i[w] = x THEN v ELSE NewestOf(s, w, x, b)
    BY StoredMeans
  <2>6. r[k] = Stored(s, i, v)
    BY <1>3, <2>2, <2>3, <2>4
  <2>7. CASE k = j
    BY <1>4, <2>1, <2>3, <2>4, <2>5, <2>6, <2>7
  <2>8. CASE k > j
    <3>1. k - 1 \in 0..(NumAddr - 1) /\ j - 1 \in 0..(NumAddr - 1) /\ k - 1 # j - 1
      BY <1>2, <1>5, <2>8
    <3>2. i[w] # x
      BY <1>4, <2>3, <3>1, PlusDiffers
    <3>3. k - 1 >= j
      BY <1>2, <1>5, <2>8
    <3>4. NewestOf(s, w, x, b) = vs[j]
      BY <1>7, <2>2, <3>3
    <3>5. QED BY <2>1, <2>5, <2>6, <3>2, <3>4
  <2>9. CASE k < j
    BY <1>2, <1>5, <2>1, <2>9
  <2>10. QED BY <1>2, <1>5, <2>7, <2>8, <2>9
<1>8. Steps(N, G)
  BY <1>6, <1>7 DEF Steps
<1> HIDE DEF G
<1>9. \A k \in 0..N : k \in G
  BY <1>2, <1>8, StepsReach
<1>10. N \in G /\ N >= j
  BY <1>2, <1>5, <1>9
<1>11. QED BY <1>1, <1>2, <1>4, <1>10 DEF G

\* A value the other way round.
LEMMA ReversedType ==
  ASSUME NEW vs \in Seq(Values)
  PROVE  /\ Big(vs) \in Seq(Values) /\ Len(Big(vs)) = Len(vs)
         /\ \A k \in 1..Len(vs) : Big(vs)[k] = vs[Len(vs) - k + 1]
<1>1. PICK N \in Nat : N = Len(vs) /\ \A k \in 1..N : vs[k] \in Values
  OBVIOUS
<1>2. Big(vs) = [k \in 1..N |-> vs[N - k + 1]]
  BY <1>1 DEF Big, Reverse
<1>3. \A k \in 1..N : vs[N - k + 1] \in Values
  <2>1. \A k \in 1..N : N - k + 1 \in 1..N
    BY <1>1
  <2>2. QED BY <1>1, <2>1
<1>4. QED BY <1>1, <1>2, <1>3

-----------------------------------------------------------------------------
(***************************************************************************)
(* The inductive invariant.                                                *)
(***************************************************************************)
NodeSet ==
  [arr : Seq(CellSet), c : SUBSET Worlds, memt : Id \cup {NULL}, memf : Id \cup {NULL}]

\* The contents of what node d is over, where W gives those of the memories.
BelowOf(d, W) ==
  [w \in Worlds |-> [x \in Addr |->
     IF d.memt = NULL THEN 0
     ELSE IF d.memf = NULL \/ w \in d.c THEN W[d.memt][w][x] ELSE W[d.memf][w][x]]]

UnderOf(d) == {d.memt, d.memf} \ {NULL}

Ranking(M, rank) == \A m \in DOMAIN M : \A t \in UnderIn(M, m) : rank[t] < rank[m]

MemoryTypes ==
  /\ DOMAIN mem \subseteq Id /\ mem \in [DOMAIN mem -> NodeSet]
  /\ want \in [DOMAIN mem -> Contents]
  /\ memories \subseteq DOMAIN mem /\ shared \subseteq DOMAIN mem
  /\ \A m \in DOMAIN mem : mem[m].memt = NULL => mem[m].memf = NULL

\* What a memory is over is allocated, and no memory is over itself.
Linked == Heap(mem)
Ranked == \E N \in Nat : \E rank \in [DOMAIN mem -> 0..N] : Ranking(mem, rank)

\* Every memory can be reached from the list.
Kept == DOMAIN mem \subseteq FlaggedIn(mem, memories)

\* Over a shared memory all are shared, one over nothing is not, and those that
\* are not shared mean what they should, each over what is under it.
SharedUp == \A m \in DOMAIN mem : UnderIn(mem, m) \cap shared # {} => m \in shared
SharedOver == \A m \in shared : UnderIn(mem, m) # {}
Meaning ==
  \A m \in DOMAIN mem \ shared : MeansOver(mem[m].arr, BelowOf(mem[m], want), want[m])

IInv == MemoryTypes /\ Linked /\ Ranked /\ Kept /\ SharedUp /\ SharedOver /\ Meaning

\* Traversals are those of the heap there is.
LEMMA FlaggedHere ==
  /\ \A roots : Flagged(roots) = FlaggedIn(mem, roots)
  /\ \A m : Under(m) = UnderIn(mem, m)
BY DEF Flagged, FlaggedIn, Under, UnderIn

\* Meaning is about what is below at each address only.
LEMMA MeansSame ==
  ASSUME NEW arr, NEW g, NEW b, NEW c, MeansOver(arr, b, g),
         \A w \in Worlds, x \in Addr : b[w][x] = c[w][x]
  PROVE  MeansOver(arr, c, g)
BY DEF MeansOver

\* What is below a node depends on the contents of the memories it is over.
LEMMA BelowSame ==
  ASSUME NEW d, NEW W, NEW V, \A t \in UnderOf(d) : W[t] = V[t]
  PROVE  \A w \in Worlds, x \in Addr : BelowOf(d, W)[w][x] = BelowOf(d, V)[w][x]
<1>1. ASSUME NEW w \in Worlds, NEW x \in Addr
      PROVE  BelowOf(d, W)[w][x] = BelowOf(d, V)[w][x]
  <2>1. BelowOf(d, W)[w][x] =
          IF d.memt = NULL THEN 0
          ELSE IF d.memf = NULL \/ w \in d.c THEN W[d.memt][w][x] ELSE W[d.memf][w][x]
    BY DEF BelowOf
  <2>2. BelowOf(d, V)[w][x] =
          IF d.memt = NULL THEN 0
          ELSE IF d.memf = NULL \/ w \in d.c THEN V[d.memt][w][x] ELSE V[d.memf][w][x]
    BY DEF BelowOf
  <2>3. d.memt # NULL => W[d.memt] = V[d.memt]
    BY DEF UnderOf
  <2>4. d.memf # NULL => W[d.memf] = V[d.memf]
    BY DEF UnderOf
  <2>5. QED BY <2>1, <2>2, <2>3, <2>4
<1>2. QED BY <1>1

\* Marking from the same roots marks no less when links are kept.
LEMMA FlaggedGrows ==
  ASSUME NEW M, NEW L, Heap(M), Heap(L), NEW R \in SUBSET Id, NEW S \in SUBSET Id, R \subseteq S,
         DOMAIN M \subseteq DOMAIN L, \A m \in DOMAIN M : UnderIn(L, m) = UnderIn(M, m)
  PROVE  FlaggedIn(M, R) \subseteq FlaggedIn(L, S)
<1>1. S \subseteq FlaggedIn(L, S) /\ ClosedIn(L, FlaggedIn(L, S))
  BY FlaggedCloses
<1>2. ClosedIn(M, FlaggedIn(L, S))
  BY <1>1 DEF ClosedIn
<1>3. R \subseteq FlaggedIn(L, S)
  BY <1>1
<1>4. QED BY <1>2, <1>3, FlaggedLeast

\* A new memory: empty, and over memories there are.
LEMMA MakeStep ==
  ASSUME IInv, NEW d \in NodeSet, NEW holds \in Contents, NEW isShared \in BOOLEAN,
         Make(d, holds, isShared), d.arr = <<>>, UnderOf(d) \subseteq DOMAIN mem,
         d.memt = NULL => d.memf = NULL,
         UnderOf(d) \cap shared # {} => isShared, isShared => UnderOf(d) # {},
         ~isShared => \A w \in Worlds, x \in Addr : holds[w][x] = BelowOf(d, want)[w][x]
  PROVE  IInv'
<1>1. PICK n \in Id \ DOMAIN mem :
        /\ mem' = [k \in DOMAIN mem \cup {n} |-> IF k = n THEN d ELSE mem[k]]
        /\ want' = [k \in DOMAIN mem \cup {n} |-> IF k = n THEN holds ELSE want[k]]
        /\ memories' = memories \cup {n}
        /\ shared' = IF isShared THEN shared \cup {n} ELSE shared
  <2> DEFINE free == Id \ DOMAIN mem
  <2>1. free # {} /\ free \subseteq Nat
    BY DEF Make, Id
  <2>2. Min(free) \in free
    <3> HIDE DEF free
    <3>1. PICK n \in free : \A k \in free : n <= k
      BY <2>1, LeastNat
    <3>2. QED BY <3>1 DEF Min
  <2>3. QED BY <2>2 DEF Make
<1>2. /\ DOMAIN mem' = DOMAIN mem \cup {n} /\ mem'[n] = d /\ want'[n] = holds
      /\ \A k \in DOMAIN mem : k # n /\ mem'[k] = mem[k] /\ want'[k] = want[k]
  BY <1>1
<1>3. /\ UnderIn(mem', n) = UnderOf(d)
      /\ \A k \in DOMAIN mem : UnderIn(mem', k) = UnderIn(mem, k) /\ UnderIn(mem, k) = UnderOf(mem[k])
  BY <1>2 DEF UnderIn, UnderOf
<1>4. Heap(mem) /\ MemoryTypes
  BY DEF IInv, Linked
<1>5. Heap(mem')
  <2>1. DOMAIN mem' \subseteq Id
    BY <1>2, <1>4 DEF Heap
  <2>2. ASSUME NEW k \in DOMAIN mem'
        PROVE  UnderIn(mem', k) \subseteq DOMAIN mem'
    <3>1. CASE k = n
      BY <1>2, <1>3, <3>1
    <3>2. CASE k # n
      <4>1. k \in DOMAIN mem
        BY <1>2, <3>2
      <4>2. UnderIn(mem', k) = UnderIn(mem, k) /\ UnderIn(mem, k) \subseteq DOMAIN mem
        BY <1>3, <1>4, <4>1 DEF Heap
      <4>3. QED BY <1>2, <4>2
    <3>3. QED BY <3>1, <3>2
  <2>3. QED BY <2>1, <2>2 DEF Heap
<1>6. MemoryTypes'
  <2>1. mem' \in [DOMAIN mem' -> NodeSet] /\ want' \in [DOMAIN mem' -> Contents]
    <3>1. \A k \in DOMAIN mem : mem[k] \in NodeSet /\ want[k] \in Contents
      BY <1>4 DEF MemoryTypes
    <3>2. QED BY <1>1, <1>2, <3>1
  <2>2. memories' \subseteq DOMAIN mem' /\ shared' \subseteq DOMAIN mem'
    BY <1>1, <1>2, <1>4 DEF MemoryTypes
  <2>3. \A k \in DOMAIN mem' : mem'[k].memt = NULL => mem'[k].memf = NULL
    BY <1>2, <1>4 DEF MemoryTypes
  <2>4. DOMAIN mem' \subseteq Id
    BY <1>5 DEF Heap
  <2>5. QED BY <2>1, <2>2, <2>3, <2>4 DEF MemoryTypes
<1>7. Ranked'
  <2>1. PICK N \in Nat : \E rank \in [DOMAIN mem -> 0..N] : Ranking(mem, rank)
    BY DEF IInv, Ranked
  <2>1a. PICK rank \in [DOMAIN mem -> 0..N] : Ranking(mem, rank)
    BY <2>1
  <2> DEFINE new == [k \in DOMAIN mem \cup {n} |-> IF k = n THEN N + 1 ELSE rank[k]]
  <2>2. new \in [DOMAIN mem' -> 0..(N + 1)]
    BY <1>2, <2>1a
  <2>3. ASSUME NEW k \in DOMAIN mem', NEW t \in UnderIn(mem', k)
        PROVE  new[t] < new[k]
    <3>1. CASE k = n
      <4>1. t \in DOMAIN mem /\ t # n
        BY <1>2, <1>3, <3>1
      <4>2. new[t] = rank[t] /\ rank[t] \in 0..N /\ new[k] = N + 1
        BY <2>1a, <3>1, <4>1
      <4>3. QED BY <4>2
    <3>2. CASE k # n
      <4>1. k \in DOMAIN mem /\ t \in UnderIn(mem, k)
        BY <1>2, <1>3, <3>2
      <4>2. t \in DOMAIN mem /\ t # n
        BY <1>2, <1>4, <4>1 DEF Heap
      <4>3. rank[t] < rank[k]
        BY <2>1a, <4>1 DEF Ranking
      <4>4. QED BY <3>2, <4>1, <4>2, <4>3
    <3>3. QED BY <3>1, <3>2
  <2>4. Ranking(mem', new)
    BY <2>3 DEF Ranking
  <2> HIDE DEF new
  <2>5. N + 1 \in Nat
    OBVIOUS
  <2>6. QED BY <2>2, <2>4, <2>5 DEF Ranked
<1>8. Kept'
  <2>1. memories \in SUBSET Id /\ memories' \in SUBSET Id /\ memories \subseteq memories'
    BY <1>1, <1>4 DEF MemoryTypes
  <2>2. FlaggedIn(mem, memories) \subseteq FlaggedIn(mem', memories')
    BY <1>2, <1>3, <1>4, <1>5, <2>1, FlaggedGrows
  <2>3. memories' \subseteq FlaggedIn(mem', memories')
    BY <1>5, <2>1, FlaggedCloses
  <2>4. n \in memories'
    BY <1>1
  <2>5. QED BY <1>2, <2>2, <2>3, <2>4 DEF IInv, Kept
<1>9. SharedUp'
  <2>1. ASSUME NEW k \in DOMAIN mem', UnderIn(mem', k) \cap shared' # {}
        PROVE  k \in shared'
    <3>1. UnderIn(mem', k) \subseteq DOMAIN mem
      BY <1>2, <1>3, <1>4 DEF Heap
    <3>2. UnderIn(mem', k) \cap shared # {}
      BY <1>1, <1>2, <2>1, <3>1
    <3>3. QED BY <1>1, <1>2, <1>3, <3>2 DEF IInv, SharedUp
  <2>2. QED BY <2>1 DEF SharedUp
<1>10. Meaning'
  <2>1. ASSUME NEW k \in DOMAIN mem', k \notin shared'
        PROVE  MeansOver(mem'[k].arr, BelowOf(mem'[k], want'), want'[k])
    <3>1. UnderOf(mem'[k]) \subseteq DOMAIN mem
      BY <1>2, <1>3, <1>4 DEF Heap
    <3>2. \A t \in UnderOf(mem'[k]) : want[t] = want'[t]
      BY <1>2, <3>1
    <3>3. \A w \in Worlds, x \in Addr :
            BelowOf(mem'[k], want)[w][x] = BelowOf(mem'[k], want')[w][x]
      BY <3>2, BelowSame
    <3>4. MeansOver(mem'[k].arr, BelowOf(mem'[k], want), want'[k])
      <4>1. CASE k = n
        <5>1. \A w, x, b : NewestOf(<<>>, w, x, b) = b
          <6>1. PICK s \in Seq(CellSet) : s = <<>>
            <7>1. <<>> \in Seq(CellSet)
              OBVIOUS
            <7>2. QED BY <7>1, Zenon
          <6>2. \A w, x : NoneAt(s, w, x)
            BY <6>1 DEF NoneAt
          <6>3. \A w, x, b : NewestOf(s, w, x, b) = b
            BY <6>2, NewestCases
          <6>4. QED BY <6>1, <6>3
        <5>2. ~isShared
          BY <1>1, <2>1, <4>1
        <5>3. \A w \in Worlds, x \in Addr : holds[w][x] = BelowOf(d, want)[w][x]
          BY <5>2
        <5>4. mem'[k] = d /\ want'[k] = holds
          BY <1>2, <4>1
        <5>5. QED BY <5>1, <5>3, <5>4 DEF MeansOver
      <4>2. CASE k # n
        <5>1. k \in DOMAIN mem \ shared
          BY <1>1, <1>2, <2>1, <4>2
        <5>2. QED BY <1>2, <5>1 DEF IInv, Meaning
      <4>3. QED BY <4>1, <4>2
    <3>5. QED BY <3>3, <3>4, MeansSame
  <2>2. QED BY <2>1 DEF Meaning
<1>11. SharedOver'
  <2>1. \A k \in shared : k \in DOMAIN mem /\ UnderIn(mem, k) # {}
    BY <1>4 DEF IInv, SharedOver, MemoryTypes
  <2>2. QED BY <1>1, <1>3, <2>1 DEF SharedOver
<1>12. QED BY <1>5, <1>6, <1>7, <1>8, <1>9, <1>10, <1>11 DEF IInv, Linked

\* A store to a memory, in one or several elements: the memories over it are
\* shared from then on.
LEMMA StoreStep ==
  ASSUME IInv, NEW m, NEW a \in Addresses, NEW vs \in Seq(Values), Store(m, a, vs)
  PROVE  IInv'
<1>1. /\ m \in memories /\ mem' = [mem EXCEPT ![m].arr = StoredAll(@, a, vs)]
      /\ want' = [want EXCEPT ![m] = OverwriteAll(@, a, vs)]
      /\ shared' = shared \cup {n \in DOMAIN mem : m \in Flagged(Under(n))}
      /\ memories' = memories
  BY DEF Store
<1>2. Heap(mem) /\ MemoryTypes /\ m \in DOMAIN mem
  BY <1>1 DEF IInv, Linked, MemoryTypes
<1>3. mem[m] \in NodeSet /\ mem[m].arr \in Seq(CellSet) /\ want[m] \in Contents
  BY <1>2 DEF MemoryTypes, NodeSet
<1>4. StoredAll(mem[m].arr, a, vs) \in Seq(CellSet) /\ OverwriteAll(want[m], a, vs) \in Contents
  BY <1>3, StoredAllMeans
<1>5. /\ DOMAIN mem' = DOMAIN mem /\ DOMAIN want' = DOMAIN want
      /\ mem'[m] = [mem[m] EXCEPT !.arr = StoredAll(mem[m].arr, a, vs)]
      /\ want'[m] = OverwriteAll(want[m], a, vs)
      /\ \A k \in DOMAIN mem : k # m => mem'[k] = mem[k] /\ want'[k] = want[k]
  BY <1>1, <1>2 DEF MemoryTypes
<1>6. /\ mem'[m].arr = StoredAll(mem[m].arr, a, vs) /\ mem'[m].c = mem[m].c
      /\ mem'[m].memt = mem[m].memt /\ mem'[m].memf = mem[m].memf
      /\ mem'[m] \in NodeSet
  BY <1>3, <1>4, <1>5 DEF NodeSet
<1>7. \A k \in DOMAIN mem : UnderIn(mem', k) = UnderIn(mem, k) /\ UnderIn(mem, k) = UnderOf(mem[k])
                            /\ UnderIn(mem', k) = UnderOf(mem'[k])
  BY <1>5, <1>6 DEF UnderIn, UnderOf
<1>8. Heap(mem')
  BY <1>2, <1>5, <1>7 DEF Heap
<1>9. MemoryTypes'
  <2>1. mem' \in [DOMAIN mem' -> NodeSet]
    <3>1. \A k \in DOMAIN mem' : mem'[k] \in NodeSet
      BY <1>2, <1>5, <1>6 DEF MemoryTypes
    <3>2. mem' = [k \in DOMAIN mem' |-> mem'[k]]
      BY <1>1, <1>2 DEF MemoryTypes
    <3>3. QED BY <3>1, <3>2
  <2>2. want' \in [DOMAIN mem' -> Contents]
    BY <1>1, <1>2, <1>4, <1>5 DEF MemoryTypes
  <2>3. memories' \subseteq DOMAIN mem' /\ shared' \subseteq DOMAIN mem'
    BY <1>1, <1>2, <1>5 DEF MemoryTypes
  <2>4. \A k \in DOMAIN mem' : mem'[k].memt = NULL => mem'[k].memf = NULL
    BY <1>2, <1>5, <1>6 DEF MemoryTypes
  <2>5. DOMAIN mem' \subseteq Id
    BY <1>8 DEF Heap
  <2>6. QED BY <2>1, <2>2, <2>3, <2>4, <2>5 DEF MemoryTypes
<1>10. Ranked'
  <2>1. PICK N \in Nat : \E rank \in [DOMAIN mem -> 0..N] : Ranking(mem, rank)
    BY DEF IInv, Ranked
  <2>2. PICK rank \in [DOMAIN mem -> 0..N] : Ranking(mem, rank)
    BY <2>1
  <2>3. Ranking(mem', rank)
    BY <1>5, <1>7, <2>2 DEF Ranking
  <2>4. QED BY <1>5, <2>3 DEF Ranked
<1>11. Kept'
  <2>1. memories \in SUBSET Id /\ memories' \in SUBSET Id /\ memories \subseteq memories'
    BY <1>1, <1>2 DEF MemoryTypes
  <2>2. DOMAIN mem \subseteq DOMAIN mem' /\ \A k \in DOMAIN mem : UnderIn(mem', k) = UnderIn(mem, k)
    BY <1>5, <1>7
  <2>2a. FlaggedIn(mem, memories) \subseteq FlaggedIn(mem', memories')
    BY ONLY <1>2, <1>8, <2>1, <2>2, MemoryAssumption, FlaggedGrows
  <2>3. QED BY <1>5, <2>2a DEF IInv, Kept
<1>12. shared' = shared \cup {n \in DOMAIN mem : m \in FlaggedIn(mem, UnderIn(mem, n))}
  BY <1>1, FlaggedHere
<1>13. \A k \in DOMAIN mem : UnderIn(mem, k) \in SUBSET Id /\ UnderIn(mem, k) \subseteq DOMAIN mem
  BY <1>2 DEF Heap
<1>14. SharedUp'
  <2>1. ASSUME NEW k \in DOMAIN mem', NEW t \in UnderIn(mem', k), t \in shared'
        PROVE  k \in shared'
    <3>1. k \in DOMAIN mem /\ t \in UnderIn(mem, k) /\ t \in DOMAIN mem
      BY <1>5, <1>7, <1>13, <2>1
    <3>2. CASE t \in shared
      <4>1. k \in shared
        BY <3>1, <3>2 DEF IInv, SharedUp
      <4>2. QED BY <1>12, <4>1
    <3>3. CASE t \notin shared
      <4>1. m \in FlaggedIn(mem, UnderIn(mem, t))
        BY <1>12, <2>1, <3>3
      <4> DEFINE S == FlaggedIn(mem, UnderIn(mem, k))
      <4>2. UnderIn(mem, k) \subseteq S /\ ClosedIn(mem, S)
        BY <1>2, <1>13, <3>1, FlaggedCloses
      <4>3. UnderIn(mem, t) \subseteq S
        BY <3>1, <4>2 DEF ClosedIn
      <4>4. FlaggedIn(mem, UnderIn(mem, t)) \subseteq S
        BY <1>2, <1>13, <3>1, <4>2, <4>3, FlaggedLeast
      <4>5. QED BY <1>12, <3>1, <4>1, <4>4
    <3>4. QED BY <3>2, <3>3
  <2>2. QED BY <2>1 DEF SharedUp
<1>15. Meaning'
  <2>1. ASSUME NEW k \in DOMAIN mem', k \notin shared'
        PROVE  MeansOver(mem'[k].arr, BelowOf(mem'[k], want'), want'[k])
    <3>1. k \in DOMAIN mem \ shared /\ m \notin FlaggedIn(mem, UnderIn(mem, k))
      BY <1>5, <1>12, <2>1
    <3>2. m \notin UnderIn(mem, k)
      BY <1>2, <1>13, <3>1, FlaggedCloses
    <3>3. \A t \in UnderOf(mem[k]) : want[t] = want'[t]
      BY <1>5, <1>7, <1>13, <3>1, <3>2
    <3>4. \A w \in Worlds, x \in Addr :
            BelowOf(mem[k], want)[w][x] = BelowOf(mem[k], want')[w][x]
      BY <3>3, BelowSame
    <3>5. MeansOver(mem[k].arr, BelowOf(mem[k], want), want[k])
      BY <3>1 DEF IInv, Meaning
    <3>6. MeansOver(mem[k].arr, BelowOf(mem[k], want'), want[k])
      BY <3>4, <3>5, MeansSame
    <3>7. CASE k = m
      <4>1. BelowOf(mem'[m], want') = BelowOf(mem[m], want')
        BY <1>6 DEF BelowOf
      <4>2. MeansOver(StoredAll(mem[m].arr, a, vs), BelowOf(mem[m], want'), OverwriteAll(want[m], a, vs))
        BY <1>3, <3>6, <3>7, StoredAllMeans
      <4>3. QED BY <1>5, <1>6, <3>7, <4>1, <4>2
    <3>8. CASE k # m
      BY <1>5, <3>1, <3>6, <3>8
    <3>9. QED BY <3>7, <3>8
  <2>2. QED BY <2>1 DEF Meaning
<1>16. SharedOver'
  <2>1. \A k \in shared : k \in DOMAIN mem /\ UnderIn(mem, k) # {}
    BY <1>2 DEF IInv, SharedOver, MemoryTypes
  <2>2. FlaggedIn(mem, {}) \subseteq {}
    <3>1. {} \in SUBSET Id /\ {} \subseteq {} /\ ClosedIn(mem, {})
      BY DEF ClosedIn
    <3>2. QED BY ONLY <1>2, <3>1, MemoryAssumption, FlaggedLeast
  <2>3. \A k \in DOMAIN mem : m \in FlaggedIn(mem, UnderIn(mem, k)) => UnderIn(mem, k) # {}
    BY <2>2
  <2>4. \A k \in shared' : k \in DOMAIN mem /\ UnderIn(mem, k) # {}
    BY <1>12, <2>1, <2>3
  <2>5. QED BY <1>7, <2>4 DEF SharedOver
<1>17. QED BY <1>8, <1>9, <1>10, <1>11, <1>14, <1>15, <1>16 DEF IInv, Linked

\* What is kept when m is destroyed: what another memory in the list reaches.
LEMMA KeptIs ==
  ASSUME IInv, NEW m \in memories
  PROVE  /\ DOMAIN mem \ Collected(m) = FlaggedIn(mem, memories \ {m}) \cap DOMAIN mem
         /\ FlaggedIn(mem, memories \ {m}) \subseteq DOMAIN mem
<1> DEFINE R == FlaggedIn(mem, memories \ {m})
           T == FlaggedIn(mem, {m})
<1>1. Heap(mem) /\ memories \subseteq DOMAIN mem /\ DOMAIN mem \subseteq Id
  BY DEF IInv, Linked, MemoryTypes
<1>2. Collected(m) = T \ R
  BY FlaggedHere DEF Collected
<1>3. memories \in SUBSET Id /\ memories \ {m} \in SUBSET Id /\ {m} \in SUBSET Id
  BY <1>1
<1>4. memories \ {m} \subseteq R /\ ClosedIn(mem, R)
  BY <1>1, <1>3, FlaggedCloses
<1>5. {m} \subseteq T /\ ClosedIn(mem, T)
  BY <1>1, <1>3, FlaggedCloses
<1>6. ClosedIn(mem, R \cup T) /\ memories \subseteq R \cup T
  BY <1>4, <1>5 DEF ClosedIn
<1>7. FlaggedIn(mem, memories) \subseteq R \cup T
  BY <1>1, <1>3, <1>6, FlaggedLeast
<1>8. DOMAIN mem \subseteq R \cup T
  BY <1>7 DEF IInv, Kept
<1>9. R \subseteq DOMAIN mem
  <2>1. ClosedIn(mem, DOMAIN mem) /\ memories \ {m} \subseteq DOMAIN mem
    BY <1>1 DEF Heap, ClosedIn
  <2>2. QED BY <1>1, <1>3, <2>1, FlaggedLeast
<1>10. QED BY <1>2, <1>8, <1>9

\* Destroying a memory.
LEMMA DestroyStep ==
  ASSUME IInv, NEW m, bfmDestroy(m)
  PROVE  IInv'
<1>1. m \in memories /\ memories' = memories \ {m}
  BY DEF bfmDestroy
<1>2. PICK kept : kept = DOMAIN mem \ Collected(m)
  OBVIOUS
<1>3. /\ mem' = [k \in kept |-> mem[k]] /\ want' = [k \in kept |-> want[k]]
      /\ shared' = shared \cap kept
  BY <1>2 DEF bfmDestroy, Only
<1>4. Heap(mem) /\ MemoryTypes /\ memories \subseteq DOMAIN mem /\ DOMAIN mem \subseteq Id
  BY DEF IInv, Linked, MemoryTypes
<1>5. kept = FlaggedIn(mem, memories') /\ kept \subseteq DOMAIN mem
  BY <1>1, <1>2, KeptIs
<1>6. memories' \in SUBSET Id
  BY <1>1, <1>4
<1>7. memories' \subseteq kept /\ ClosedIn(mem, kept)
  BY <1>4, <1>5, <1>6, FlaggedCloses
<1>8. /\ DOMAIN mem' = kept
      /\ \A k \in kept : /\ mem'[k] = mem[k] /\ want'[k] = want[k]
                         /\ UnderIn(mem', k) = UnderIn(mem, k) /\ UnderIn(mem, k) = UnderOf(mem[k])
                         /\ UnderIn(mem, k) \subseteq kept
  BY <1>3, <1>5, <1>7 DEF UnderIn, UnderOf, ClosedIn
<1>9. Heap(mem')
  BY <1>4, <1>5, <1>8 DEF Heap
<1>10. MemoryTypes'
  <2>1. \A k \in kept : mem[k] \in NodeSet /\ want[k] \in Contents
    BY <1>4, <1>5 DEF MemoryTypes
  <2>2. mem' \in [DOMAIN mem' -> NodeSet] /\ want' \in [DOMAIN mem' -> Contents]
    BY <1>3, <1>8, <2>1
  <2>3. \A k \in DOMAIN mem' : mem'[k].memt = NULL => mem'[k].memf = NULL
    BY <1>4, <1>5, <1>8 DEF MemoryTypes
  <2>4. memories' \subseteq DOMAIN mem' /\ shared' \subseteq DOMAIN mem' /\ DOMAIN mem' \subseteq Id
    BY <1>3, <1>4, <1>5, <1>7, <1>8
  <2>5. QED BY <2>2, <2>3, <2>4 DEF MemoryTypes
<1>11. Ranked'
  <2>1. PICK N \in Nat : \E rank \in [DOMAIN mem -> 0..N] : Ranking(mem, rank)
    BY DEF IInv, Ranked
  <2>2. PICK rank \in [DOMAIN mem -> 0..N] : Ranking(mem, rank)
    BY <2>1
  <2> DEFINE new == [k \in kept |-> rank[k]]
  <2>3. new \in [DOMAIN mem' -> 0..N]
    BY <1>5, <1>8, <2>2
  <2>4. ASSUME NEW k \in DOMAIN mem', NEW t \in UnderIn(mem', k)
        PROVE  new[t] < new[k]
    <3>1. k \in kept /\ t \in kept /\ k \in DOMAIN mem /\ t \in UnderIn(mem, k)
      BY <1>5, <1>8
    <3>2. rank[t] < rank[k]
      BY <2>2, <3>1 DEF Ranking
    <3>3. QED BY <3>1, <3>2
  <2>5. Ranking(mem', new)
    BY <2>4 DEF Ranking
  <2> HIDE DEF new
  <2>6. QED BY <2>3, <2>5 DEF Ranked
<1>12. Kept'
  <2> DEFINE S == FlaggedIn(mem', memories') \cap kept
  <2>1. memories' \subseteq FlaggedIn(mem', memories') /\ ClosedIn(mem', FlaggedIn(mem', memories'))
    BY <1>6, <1>9, FlaggedCloses
  <2>2. memories' \subseteq S
    BY <1>7, <2>1
  <2>3. ClosedIn(mem, S)
    BY <1>8, <2>1 DEF ClosedIn
  <2>4. FlaggedIn(mem, memories') \subseteq S
    BY <1>4, <1>6, <2>2, <2>3, FlaggedLeast
  <2>5. QED BY <1>5, <1>8, <2>4 DEF Kept
<1>13. SharedUp'
  BY <1>3, <1>5, <1>8 DEF IInv, SharedUp
<1>14. Meaning'
  <2>1. ASSUME NEW k \in DOMAIN mem', k \notin shared'
        PROVE  MeansOver(mem'[k].arr, BelowOf(mem'[k], want'), want'[k])
    <3>1. k \in kept /\ k \in DOMAIN mem \ shared
      BY <1>3, <1>5, <1>8, <2>1
    <3>2. \A t \in UnderOf(mem[k]) : want[t] = want'[t]
      BY <1>8, <3>1
    <3>3. \A w \in Worlds, x \in Addr :
            BelowOf(mem[k], want)[w][x] = BelowOf(mem[k], want')[w][x]
      BY <3>2, BelowSame
    <3>4. MeansOver(mem[k].arr, BelowOf(mem[k], want), want[k])
      BY <3>1 DEF IInv, Meaning
    <3>5. MeansOver(mem[k].arr, BelowOf(mem[k], want'), want[k])
      BY <3>3, <3>4, MeansSame
    <3>6. QED BY <1>8, <3>1, <3>5
  <2>2. QED BY <2>1 DEF Meaning
<1>15. SharedOver'
  BY <1>3, <1>8 DEF IInv, SharedOver
<1>16. QED BY <1>9, <1>10, <1>11, <1>12, <1>13, <1>14, <1>15 DEF IInv, Linked

-----------------------------------------------------------------------------
\* Nothing is allocated at first.
LEMMA InitHolds == Init => IInv
<1> SUFFICES ASSUME Init PROVE IInv
  OBVIOUS
<1>1. mem = [k \in {} |-> 0] /\ want = [k \in {} |-> 0] /\ memories = {} /\ shared = {}
  BY DEF Init
<1>2. DOMAIN mem = {}
  BY <1>1
<1>3. MemoryTypes
  BY <1>1, <1>2 DEF MemoryTypes
<1>4. Ranked
  <2>1. [k \in {} |-> 0] \in [DOMAIN mem -> 0..0]
    BY <1>2
  <2>2. Ranking(mem, [k \in {} |-> 0])
    BY <1>2 DEF Ranking
  <2>3. QED BY <2>1, <2>2 DEF Ranked
<1>5. Linked /\ Kept /\ SharedUp /\ SharedOver /\ Meaning
  BY <1>1, <1>2 DEF Linked, Heap, Kept, SharedUp, SharedOver, Meaning
<1>6. QED BY <1>3, <1>4, <1>5 DEF IInv

\* A new memory is over nothing.
LEMMA InitMakes == IInv /\ bfmInit => IInv'
<1> SUFFICES ASSUME IInv, bfmInit PROVE IInv'
  OBVIOUS
<1> DEFINE d == Node(Worlds, NULL, NULL)
           holds == [w \in Worlds |-> [a \in Addr |-> 0]]
<1>1. Make(d, holds, FALSE)
  BY DEF bfmInit
<1>2. d.arr = <<>> /\ d.c = Worlds /\ d.memt = NULL /\ d.memf = NULL /\ d \in NodeSet
  BY DEF Node, NodeSet
<1>3. holds \in Contents
  BY DEF Contents, Stuff
<1>4. UnderOf(d) = {}
  BY <1>2 DEF UnderOf
<1>5. \A w \in Worlds, x \in Addr : holds[w][x] = BelowOf(d, want)[w][x]
  BY <1>2 DEF BelowOf
<1> HIDE DEF d, holds
<1>6. QED BY <1>1, <1>2, <1>3, <1>4, <1>5, MakeStep

\* A copy is over one memory and holds what that holds.
LEMMA CopyMakes ==
  ASSUME IInv, NEW m, bfmCopy(m)
  PROVE  IInv'
<1> DEFINE d == Node(Worlds, m, NULL)
<1>1. m \in memories /\ Make(d, want[m], m \in shared)
  BY DEF bfmCopy
<1>2. m \in DOMAIN mem /\ m \in Id /\ m # NULL /\ want[m] \in Contents
  BY <1>1 DEF IInv, MemoryTypes, Id, NULL
<1>3. d.arr = <<>> /\ d.c = Worlds /\ d.memt = m /\ d.memf = NULL /\ d \in NodeSet
  BY <1>2 DEF Node, NodeSet
<1>4. UnderOf(d) = {m}
  BY <1>2, <1>3 DEF UnderOf
<1>5. \A w \in Worlds, x \in Addr : want[m][w][x] = BelowOf(d, want)[w][x]
  BY <1>2, <1>3 DEF BelowOf
<1> HIDE DEF d
<1>6. PICK s \in BOOLEAN : s = (m \in shared)
  <2>1. (m \in shared) \in BOOLEAN
    OBVIOUS
  <2>2. QED BY <2>1, Zenon
<1>7. Make(d, want[m], s) /\ (UnderOf(d) \cap shared # {} => s)
  BY <1>1, <1>4, <1>6
<1>8. UnderOf(d) \subseteq DOMAIN mem /\ UnderOf(d) # {}
  BY <1>2, <1>4
<1>9. d.memt # NULL
  BY <1>2, <1>3
<1>10. QED BY <1>2, <1>3, <1>5, <1>7, <1>8, <1>9, MakeStep

\* A join is over two and holds what the condition chooses.
LEMMA SelectMakes ==
  ASSUME IInv, NEW c \in SUBSET Worlds, NEW t, NEW f, bfmSelect(c, t, f)
  PROVE  IInv'
<1> DEFINE d == Node(c, t, f)
           holds == [w \in Worlds |-> IF w \in c THEN want[t][w] ELSE want[f][w]]
<1>1. t \in memories /\ f \in memories /\ Make(d, holds, {t, f} \cap shared # {})
  BY DEF bfmSelect
<1>2. /\ t \in DOMAIN mem /\ t \in Id /\ t # NULL /\ want[t] \in Contents
      /\ f \in DOMAIN mem /\ f \in Id /\ f # NULL /\ want[f] \in Contents
  BY <1>1 DEF IInv, MemoryTypes, Id, NULL
<1>3. d.arr = <<>> /\ d.c = c /\ d.memt = t /\ d.memf = f /\ d \in NodeSet
  BY <1>2 DEF Node, NodeSet
<1>4. UnderOf(d) = {t, f}
  BY <1>2, <1>3 DEF UnderOf
<1>5. holds \in Contents
  BY <1>2 DEF Contents
<1>6. \A w \in Worlds, x \in Addr : holds[w][x] = BelowOf(d, want)[w][x]
  BY <1>2, <1>3 DEF BelowOf
<1> HIDE DEF d, holds
<1>7. PICK s \in BOOLEAN : s = ({t, f} \cap shared # {})
  OBVIOUS
<1>8. Make(d, holds, s) /\ (UnderOf(d) \cap shared # {} => s)
  BY <1>1, <1>4, <1>7
<1>9. UnderOf(d) \subseteq DOMAIN mem /\ UnderOf(d) # {}
  BY <1>2, <1>4
<1>10. d.memt # NULL
  BY <1>2, <1>3
<1>11. QED BY <1>3, <1>5, <1>6, <1>8, <1>9, <1>10, MakeStep

\* Every step keeps the invariant.
LEMMA NextHolds == IInv /\ [Next]_vars => IInv'
<1> SUFFICES ASSUME IInv, [Next]_vars PROVE IInv'
  OBVIOUS
<1>1. CASE UNCHANGED vars
  BY <1>1 DEF vars, heap, history, IInv, MemoryTypes, Linked, Ranked, Kept, SharedUp, SharedOver, Meaning
<1>2. CASE bfmInit
  BY <1>2, InitMakes
<1>3. ASSUME NEW m \in memories, bfmCopy(m) PROVE IInv'
  BY <1>3, CopyMakes
<1>4. ASSUME NEW m \in memories, bfmDestroy(m) PROVE IInv'
  BY <1>4, DestroyStep
<1>5. ASSUME NEW m \in memories, NEW a \in Addresses, NEW v \in Values, bfmStore(m, a, v) PROVE IInv'
  <2>1. <<v>> \in Seq(Values) /\ Store(m, a, <<v>>)
    BY <1>5 DEF bfmStore
  <2>2. QED BY <2>1, StoreStep
<1>6. ASSUME NEW m \in memories, NEW a \in Addresses, NEW vs \in Words,
             bfmStore_le(m, a, vs) \/ bfmStore_be(m, a, vs)
      PROVE  IInv'
  <2>1. vs \in Seq(Values)
    BY MemoryAssumption
  <2>2. CASE bfmStore_le(m, a, vs)
    <3>1. Store(m, a, vs)
      BY <2>2 DEF bfmStore_le, Little
    <3>2. QED BY <2>1, <3>1, StoreStep
  <2>3. CASE bfmStore_be(m, a, vs)
    <3>1. Big(vs) \in Seq(Values)
      BY <2>1, ReversedType
    <3>2. Store(m, a, Big(vs))
      BY <2>3 DEF bfmStore_be
    <3>3. QED BY <3>1, <3>2, StoreStep
  <2>4. QED BY <1>6, <2>2, <2>3
<1>7. ASSUME NEW m \in memories, NEW f \in memories, NEW c \in SUBSET Worlds, bfmSelect(c, m, f) PROVE IInv'
  BY <1>7, SelectMakes
<1>8. QED BY <1>1, <1>2, <1>3, <1>4, <1>5, <1>6, <1>7 DEF Next

\* The invariant holds in every state.
THEOREM Invariance == Spec => []IInv
<1>1. Init => IInv
  BY InitHolds
<1>2. IInv /\ [Next]_vars => IInv'
  BY NextHolds
<1>3. QED BY <1>1, <1>2, PTL DEF Spec

\* Destroying a memory never frees one that another in the list is over, in any
\* order of destruction (bfmDestroy).
THEOREM NothingDangles == Spec => []NoDangling
<1>1. IInv => NoDangling
  <2> SUFFICES ASSUME IInv PROVE NoDangling
    OBVIOUS
  <2>1. Heap(mem) /\ memories \subseteq DOMAIN mem /\ DOMAIN mem \subseteq Id
    BY DEF IInv, Linked, MemoryTypes
  <2>2. ClosedIn(mem, DOMAIN mem) /\ memories \in SUBSET Id
    BY <2>1 DEF Heap, ClosedIn
  <2>3. FlaggedIn(mem, memories) \subseteq DOMAIN mem
    BY <2>1, <2>2, FlaggedLeast
  <2>4. QED BY <2>3, FlaggedHere DEF NoDangling
<1>2. QED BY <1>1, Invariance, PTL

\* No memory stays allocated that nothing in the list is over (mem.h).
THEOREM NothingLeaks == Spec => []Reclaimed
<1>1. IInv => Reclaimed
  BY FlaggedHere DEF IInv, Kept, Reclaimed
<1>2. QED BY <1>1, Invariance, PTL

-----------------------------------------------------------------------------
(***************************************************************************)
(* Loads.                                                                  *)
(***************************************************************************)
\* Merging the matches of a load is taking the newest in each assignment.
LEMMA MergedIs ==
  ASSUME NEW arr, NEW a, NEW below
  PROVE  Merged(arr, a, below) = [w \in Worlds |-> NewestOf(arr, w, a[w], below[w])]
BY DEF Merged, NewestOf

\* A value of several elements comes back from where it was stored, in both byte
\* orders (bfmStore_le, bfmLoad_le, bfmStore_be, bfmLoad_be).
THEOREM ValuesComeBack == Spec => []RoundTrip
<1>1. IInv => RoundTrip
  <2> SUFFICES ASSUME IInv, NEW m \in memories, NEW a \in Addresses, NEW vs \in Words,
                      Len(vs) <= NumAddr, NEW k \in DOMAIN vs
               PROVE  /\ Merged(StoredAll(mem[m].arr, a, Little(vs)), Plus(a, Offset_le(Len(vs), k)), Constant(0))
                           = Constant(vs[k])
                      /\ Merged(StoredAll(mem[m].arr, a, Big(vs)), Plus(a, Offset_be(Len(vs), k)), Constant(0))
                           = Constant(vs[k])
    BY DEF RoundTrip
  <2>1. vs \in Seq(Values) /\ k \in 1..Len(vs)
    BY MemoryAssumption
  <2>2. PICK N \in Nat : N = Len(vs) /\ k \in 1..N
    BY <2>1
  <2>3. mem[m].arr \in Seq(CellSet)
    BY DEF IInv, MemoryTypes, NodeSet
  <2>4. Merged(StoredAll(mem[m].arr, a, vs), Plus(a, k - 1), Constant(0)) = Constant(vs[k])
    <3>1. \A w \in Worlds :
            NewestOf(StoredAll(mem[m].arr, a, vs), w, Plus(a, k - 1)[w], Constant(0)[w]) = vs[k]
      BY <2>1, <2>3, ElementsStay, ZenonT(40)
    <3>2. QED BY <3>1, MergedIs DEF Constant
  <2>5. PICK b \in Seq(Values) : b = Big(vs) /\ Len(b) = N /\ b[N - k + 1] = vs[k]
    <3>1. N - k + 1 \in 1..N /\ N - (N - k + 1) + 1 = k
      BY <2>2
    <3>2. Big(vs)[N - k + 1] = vs[N - (N - k + 1) + 1]
      BY <2>1, <2>2, <3>1, ReversedType
    <3>3. Big(vs) \in Seq(Values) /\ Len(Big(vs)) = N
      BY <2>1, <2>2, ReversedType
    <3>4. QED BY <3>1, <3>2, <3>3
  <2>6. Merged(StoredAll(mem[m].arr, a, b), Plus(a, N - k), Constant(0)) = Constant(vs[k])
    <3>1. PICK j \in 1..N : j = N - k + 1 /\ j - 1 = N - k
      <4>1. N - k + 1 \in 1..N /\ (N - k + 1) - 1 = N - k
        BY <2>2
      <4>2. QED BY <4>1
    <3>2. \A w \in Worlds :
            NewestOf(StoredAll(mem[m].arr, a, b), w, Plus(a, j - 1)[w], Constant(0)[w]) = b[j]
      <4>1. Len(b) <= NumAddr /\ j \in 1..Len(b)
        BY <2>2, <2>5
      <4>2. QED BY <2>3, <4>1, ElementsStay, ZenonT(40)
    <3>3. b[j] = vs[k]
      BY <2>5, <3>1
    <3>4. \A w \in Worlds :
            NewestOf(StoredAll(mem[m].arr, a, b), w, Plus(a, N - k)[w], Constant(0)[w]) = vs[k]
      BY <3>1, <3>2, <3>3
    <3>5. QED BY <3>4, MergedIs DEF Constant
  <2>7. QED BY <2>2, <2>4, <2>5, <2>6 DEF Little, Offset_le, Offset_be
<1>2. QED BY <1>1, Invariance, PTL

\* What a load from memory n computes when f gives those from the others.
LoadStep(a, f, n) ==
  Merged(mem[n].arr, a,
    IF Perfect(mem[n].arr, a) \/ mem[n].memt = NULL THEN Constant(0)
    ELSE IF mem[n].memf = NULL THEN f[mem[n].memt]
    ELSE LET t == f[mem[n].memt]
             e == f[mem[n].memf]
         IN [w \in Worlds |-> IF w \in mem[n].c THEN t[w] ELSE e[w]])

\* It asks for the memories n is over.
LEMMA LoadStepSame ==
  ASSUME NEW a, NEW f, NEW g, NEW n, \A t \in UnderIn(mem, n) : f[t] = g[t]
  PROVE  LoadStep(a, f, n) = LoadStep(a, g, n)
<1>1. mem[n].memt # NULL => f[mem[n].memt] = g[mem[n].memt]
  BY DEF UnderIn
<1>2. mem[n].memf # NULL => f[mem[n].memf] = g[mem[n].memf]
  BY DEF UnderIn
<1>3. QED BY <1>1, <1>2 DEF LoadStep

\* f is right of the memories below rank k.
LoadsBelow(a, rank, k, f) ==
  \A n \in DOMAIN mem : rank[n] < k => f[n] = LoadStep(a, f, n)

\* A load ends: its recursion follows the rank of the memories.
LEMMA LoadIs ==
  ASSUME IInv, NEW a
  PROVE  \E f : /\ \A m : bfmLoad(m, a) = f[m]
                /\ \A n \in DOMAIN mem : f[n] = LoadStep(a, f, n)
<1> DEFINE Is(f) == f = [n \in DOMAIN mem |-> LoadStep(a, f, n)]
           c == CHOOSE f : Is(f)
<1>1. \A m : bfmLoad(m, a) = c[m]
  BY DEF bfmLoad, LoadStep
<1>2. PICK N \in Nat : \E rank \in [DOMAIN mem -> 0..N] : Ranking(mem, rank)
  BY DEF IInv, Ranked
<1>3. PICK rank \in [DOMAIN mem -> 0..N] : Ranking(mem, rank)
  BY <1>2
<1>4. Heap(mem)
  BY DEF IInv, Linked
<1> DEFINE G == {k \in 0..(N + 1) : \E f : LoadsBelow(a, rank, k, f)}
<1>5. 0 \in G
  <2>1. \A n \in DOMAIN mem : ~(rank[n] < 0)
    BY <1>3
  <2>2. LoadsBelow(a, rank, 0, rank)
    BY <2>1 DEF LoadsBelow
  <2>3. 0 \in 0..(N + 1)
    BY <1>2
  <2>4. QED BY <2>2, <2>3
<1>6. ASSUME NEW k \in 1..(N + 1), k - 1 \in G
      PROVE  k \in G
  <2>1. PICK f : LoadsBelow(a, rank, k - 1, f)
    BY <1>6
  <2> DEFINE g == [n \in DOMAIN mem |-> LoadStep(a, f, n)]
  <2>2. ASSUME NEW n \in DOMAIN mem, rank[n] < k
        PROVE  g[n] = LoadStep(a, g, n)
    <3>1. ASSUME NEW t \in UnderIn(mem, n)
          PROVE  f[t] = g[t]
      <4>1. t \in DOMAIN mem
        BY <1>4 DEF Heap
      <4>2. rank[t] < rank[n] /\ rank[t] \in Nat /\ rank[n] \in Nat /\ k \in Nat
        BY <1>2, <1>3, <4>1 DEF Ranking
      <4>3. rank[t] < k - 1
        BY <2>2, <4>2
      <4>4. f[t] = LoadStep(a, f, t)
        BY <2>1, <4>1, <4>3 DEF LoadsBelow
      <4>5. QED BY <4>1, <4>4
    <3>2. LoadStep(a, f, n) = LoadStep(a, g, n)
      <4> HIDE DEF g
      <4>1. QED BY <3>1, LoadStepSame
    <3>3. QED BY <3>2
  <2> HIDE DEF g
  <2>3. LoadsBelow(a, rank, k, g)
    BY <2>2 DEF LoadsBelow
  <2>4. k \in 0..(N + 1)
    BY <1>2
  <2>5. QED BY <2>3, <2>4
<1>7. Steps(N + 1, G)
  BY <1>5, <1>6 DEF Steps
<1> HIDE DEF G
<1>8. N + 1 \in G
  <2>1. N + 1 \in Nat /\ N + 1 \in 0..(N + 1)
    BY <1>2
  <2>2. \A k \in 0..(N + 1) : k \in G
    BY <1>7, <2>1, StepsReach
  <2>3. QED BY <2>1, <2>2
<1>9. PICK f : LoadsBelow(a, rank, N + 1, f)
  BY <1>8 DEF G
<1>10. \A n \in DOMAIN mem : f[n] = LoadStep(a, f, n)
  <2>1. \A n \in DOMAIN mem : rank[n] < N + 1
    BY <1>2, <1>3
  <2>2. QED BY <1>9, <2>1 DEF LoadsBelow
<1>11. \E q : Is(q)
  <2> DEFINE q == [n \in DOMAIN mem |-> f[n]]
  <2>1. ASSUME NEW n \in DOMAIN mem
        PROVE  q[n] = LoadStep(a, q, n)
    <3>1. \A t \in UnderIn(mem, n) : f[t] = q[t]
      BY <1>4 DEF Heap
    <3>2. LoadStep(a, f, n) = LoadStep(a, q, n)
      <4> HIDE DEF q
      <4>1. QED BY <3>1, LoadStepSame
    <3>3. QED BY <1>10, <3>2
  <2> DEFINE p == [n \in DOMAIN mem |-> LoadStep(a, q, n)]
  <2>2. q = p
    BY <2>1
  <2>3. Is(q)
    BY <2>2
  <2>4. QED BY <2>3
<1>12. Is(c)
  <2> HIDE DEF Is
  <2>1. QED BY <1>11
<1> HIDE DEF c
<1>13. \A n \in DOMAIN mem : c[n] = LoadStep(a, c, n)
  BY <1>12
<1>14. QED BY <1>1, <1>13

\* A load from a memory that is not shared, given those under it.
LEMMA LoadStepMeans ==
  ASSUME IInv, NEW a \in Addresses, NEW f, NEW n \in DOMAIN mem \ shared,
         \A t \in UnderIn(mem, n) : f[t] = [w \in Worlds |-> want[t][w][a[w]]]
  PROVE  LoadStep(a, f, n) = [w \in Worlds |-> want[n][w][a[w]]]
<1> DEFINE below ==
      IF Perfect(mem[n].arr, a) \/ mem[n].memt = NULL THEN Constant(0)
      ELSE IF mem[n].memf = NULL THEN f[mem[n].memt]
      ELSE LET t == f[mem[n].memt]
               e == f[mem[n].memf]
           IN [w \in Worlds |-> IF w \in mem[n].c THEN t[w] ELSE e[w]]
<1>1. LoadStep(a, f, n) = Merged(mem[n].arr, a, below)
  BY DEF LoadStep
<1>2. mem[n].arr \in Seq(CellSet)
  BY DEF IInv, MemoryTypes, NodeSet
<1>3. ASSUME NEW w \in Worlds
      PROVE  NewestOf(mem[n].arr, w, a[w], below[w]) = want[n][w][a[w]]
  <2>1. PICK x \in Addr : x = a[w]
    BY DEF Addresses
  <2>2. want[n][w][x] = NewestOf(mem[n].arr, w, x, BelowOf(mem[n], want)[w][x])
    BY DEF IInv, Meaning, MeansOver
  <2>3. CASE Perfect(mem[n].arr, a)
    <3>1. PICK k \in 1..Len(mem[n].arr) : Match(a, mem[n].arr[k].index) = Worlds
      BY <1>2, <2>3 DEF Perfect
    <3>2. mem[n].arr[k].index[w] = x
      BY <2>1, <3>1 DEF Match
    <3>3. ~NoneAt(mem[n].arr, w, x)
      BY <3>2 DEF NoneAt
    <3>4. PICK j \in 1..Len(mem[n].arr) : NewestAt(mem[n].arr, w, x, j)
      BY <1>2, <3>3, NewestCases
    <3>5. \A b : NewestOf(mem[n].arr, w, x, b) = mem[n].arr[j].value
      BY <1>2, <3>4, NewestCases, ZenonT(40)
    <3>6. QED BY <2>1, <2>2, <3>5
  <2>4. CASE ~Perfect(mem[n].arr, a)
    <3>1. BelowOf(mem[n], want)[w][x] =
            IF mem[n].memt = NULL THEN 0
            ELSE IF mem[n].memf = NULL \/ w \in mem[n].c THEN want[mem[n].memt][w][x]
            ELSE want[mem[n].memf][w][x]
      BY DEF BelowOf
    <3>2. mem[n].memt # NULL => f[mem[n].memt][w] = want[mem[n].memt][w][x]
      <4>1. HAVE mem[n].memt # NULL
      <4>2. mem[n].memt \in UnderIn(mem, n)
        BY <4>1 DEF UnderIn
      <4>3. f[mem[n].memt] = [v \in Worlds |-> want[mem[n].memt][v][a[v]]]
        BY <4>2
      <4>4. QED BY <2>1, <4>3
    <3>3. mem[n].memf # NULL => f[mem[n].memf][w] = want[mem[n].memf][w][x]
      <4>1. HAVE mem[n].memf # NULL
      <4>2. mem[n].memf \in UnderIn(mem, n)
        BY <4>1 DEF UnderIn
      <4>3. f[mem[n].memf] = [v \in Worlds |-> want[mem[n].memf][v][a[v]]]
        BY <4>2
      <4>4. QED BY <2>1, <4>3
    <3>4. below[w] = BelowOf(mem[n], want)[w][x]
      <4>1. CASE mem[n].memt = NULL
        BY <3>1, <4>1 DEF Constant
      <4>2. CASE mem[n].memt # NULL /\ mem[n].memf = NULL
        BY <2>4, <3>1, <3>2, <4>2
      <4>3. CASE mem[n].memt # NULL /\ mem[n].memf # NULL
        BY <2>4, <3>1, <3>2, <3>3, <4>3
      <4>4. QED BY <4>1, <4>2, <4>3
    <3>5. QED BY <2>1, <2>2, <3>4
  <2>5. QED BY <2>3, <2>4
<1> HIDE DEF below
<1>4. QED BY <1>1, <1>3, MergedIs

\* A load of any address from any memory returns what was stored last there, in
\* each assignment, through copies and joins, unless something was stored to a
\* memory under it since (bfmLoad).
THEOREM LoadsReturnStores == Spec => []LoadMeans
<1>1. IInv => LoadMeans
  <2> SUFFICES ASSUME IInv, NEW m \in memories \ shared, NEW a \in Addresses
               PROVE  bfmLoad(m, a) = [w \in Worlds |-> want[m][w][a[w]]]
    BY DEF LoadMeans
  <2>1. PICK f : /\ \A n : bfmLoad(n, a) = f[n]
                 /\ \A n \in DOMAIN mem : f[n] = LoadStep(a, f, n)
    BY LoadIs
  <2>2. PICK N \in Nat : \E rank \in [DOMAIN mem -> 0..N] : Ranking(mem, rank)
    BY DEF IInv, Ranked
  <2>3. PICK rank \in [DOMAIN mem -> 0..N] : Ranking(mem, rank)
    BY <2>2
  <2> DEFINE Good(n) == f[n] = [w \in Worlds |-> want[n][w][a[w]]]
             G == {k \in 0..(N + 1) : \A n \in DOMAIN mem \ shared : rank[n] < k => Good(n)}
  <2>4. 0 \in G
    <3>1. \A n \in DOMAIN mem : ~(rank[n] < 0)
      BY <2>3
    <3>2. QED BY <2>2, <3>1
  <2>5. ASSUME NEW k \in 1..(N + 1), k - 1 \in G
        PROVE  k \in G
    <3>1. ASSUME NEW n \in DOMAIN mem \ shared, rank[n] < k
          PROVE  Good(n)
      <4>1. ASSUME NEW t \in UnderIn(mem, n)
            PROVE  Good(t)
        <5>1. t \in DOMAIN mem /\ t \notin shared
          BY DEF IInv, Linked, Heap, SharedUp
        <5>2. rank[t] < rank[n] /\ rank[t] \in Nat /\ rank[n] \in Nat /\ k \in Nat
          BY <2>2, <2>3, <5>1 DEF Ranking
        <5>3. rank[t] < k - 1
          BY <3>1, <5>2
        <5>4. QED BY <2>5, <5>1, <5>3
      <4>2. LoadStep(a, f, n) = [w \in Worlds |-> want[n][w][a[w]]]
        BY <4>1, LoadStepMeans
      <4>3. QED BY <2>1, <4>2
    <3>2. k \in 0..(N + 1)
      BY <2>2
    <3> HIDE DEF Good
    <3>3. QED BY <3>1, <3>2
  <2>6. Steps(N + 1, G)
    BY <2>4, <2>5 DEF Steps
  <2> HIDE DEF G
  <2>7. N + 1 \in G
    <3>1. N + 1 \in Nat /\ N + 1 \in 0..(N + 1)
      BY <2>2
    <3>2. \A k \in 0..(N + 1) : k \in G
      BY <2>6, <3>1, StepsReach
    <3>3. QED BY <3>1, <3>2
  <2>8. m \in DOMAIN mem /\ rank[m] < N + 1
    BY <2>2, <2>3 DEF IInv, MemoryTypes
  <2>9. Good(m)
    BY <2>7, <2>8 DEF G
  <2>10. QED BY <2>1, <2>9
<1>2. QED BY <1>1, Invariance, PTL

-----------------------------------------------------------------------------
(***************************************************************************)
(* Reads before writes.                                                    *)
(***************************************************************************)
\* What a visit of memory n reports and marks when f gives those of the visits
\* it makes.
VisitStep(a, f, n, marked) ==
  IF n \in marked THEN [rbw |-> {}, marked |-> marked]
  ELSE LET now == marked \cup {n} IN
       IF Perfect(mem[n].arr, a) THEN [rbw |-> {}, marked |-> now]
       ELSE IF mem[n].memt = NULL
       THEN [rbw |-> Unmatched(mem[n].arr, a), marked |-> now]
       ELSE IF mem[n].memf = NULL THEN f[<<mem[n].memt, now>>]
       ELSE f[<<mem[n].memf, f[<<mem[n].memt, now>>].marked>>]

\* f marks more in memories of D, and is right where at most k are not marked.
Visits(D, a, k, f) ==
  \A n \in D, S \in SUBSET D :
    /\ f[<<n, S>>].marked \in SUBSET D /\ S \subseteq f[<<n, S>>].marked
    /\ Cardinality(D \ S) < k => f[<<n, S>>] = VisitStep(a, f, n, S)

\* Less is not marked where more is.
LEMMA LessLeft ==
  ASSUME NEW D, IsFiniteSet(D), NEW S \in SUBSET D, NEW T \in SUBSET D, S \subseteq T,
         NEW n \in T, n \in D \ S
  PROVE  /\ Cardinality(D \ T) \in Nat /\ Cardinality(D \ S) \in Nat
         /\ Cardinality(D \ T) < Cardinality(D \ S)
<1>1. IsFiniteSet(D \ S) /\ IsFiniteSet(D \ T)
  BY FS_Subset
<1>2. Cardinality(D \ S) \in Nat /\ Cardinality(D \ T) \in Nat
  BY <1>1, FS_CardinalityType
<1>3. D \ T \in SUBSET (D \ S) /\ D \ T # D \ S
  OBVIOUS
<1>4. Cardinality(D \ T) <= Cardinality(D \ S) /\ Cardinality(D \ S) # Cardinality(D \ T)
  BY <1>1, <1>3, FS_Subset
<1>5. QED BY <1>2, <1>4

\* The traversal ends: every visit that goes on marks a memory.
LEMMA VisitIs ==
  ASSUME IInv, NEW a
  PROVE  \E f : /\ \A m : Report(m, a) = f[<<m, {}>>]
                /\ \A n \in DOMAIN mem : f[<<n, {}>>] = VisitStep(a, f, n, {})
<1> DEFINE D == DOMAIN mem
           Is(f) == f = [p \in (DOMAIN mem) \X SUBSET DOMAIN mem |-> VisitStep(a, f, p[1], p[2])]
           c == CHOOSE f : Is(f)
<1>1. \A m : Report(m, a) = c[<<m, {}>>]
  BY DEF Report, VisitStep
<1>2. IsFiniteSet(D)
  <2>1. D \in SUBSET Id /\ MaxMem \in Nat
    BY MemoryAssumption DEF IInv, MemoryTypes
  <2>2. IsFiniteSet(Id)
    BY <2>1, FS_Interval DEF Id
  <2>3. QED BY <2>1, <2>2, FS_Subset
<1>3. \A n \in D : UnderIn(mem, n) \subseteq D
  BY DEF IInv, Linked, Heap
<1>4. \A n \in D : mem[n].memt = NULL => mem[n].memf = NULL
  BY DEF IInv, MemoryTypes
<1> HIDE DEF c, Is
<1>5. PICK N \in Nat : N = Cardinality(D)
  BY <1>2, FS_CardinalityType
<1>6. ASSUME NEW n \in D
      PROVE  /\ mem[n].memt # NULL => mem[n].memt \in D
             /\ mem[n].memf # NULL => mem[n].memf \in D
  BY <1>3 DEF UnderIn
<1> DEFINE G == {k \in 0..(N + 1) : \E f : Visits(D, a, k, f)}
<1>7. 0 \in G
  <2> DEFINE f == [p \in D \X SUBSET D |-> [rbw |-> {}, marked |-> p[2]]]
  <2>1. \A n \in D, S \in SUBSET D : f[<<n, S>>].marked = S
    OBVIOUS
  <2>2. \A S \in SUBSET D : ~(Cardinality(D \ S) < 0)
    <3>1. TAKE S \in SUBSET D
    <3>2. IsFiniteSet(D \ S)
      BY <1>2, FS_Subset
    <3>3. Cardinality(D \ S) \in Nat
      BY <3>2, FS_CardinalityType
    <3>4. QED BY <3>3
  <2> HIDE DEF f
  <2>3. Visits(D, a, 0, f)
    BY <2>1, <2>2 DEF Visits
  <2>4. 0 \in 0..(N + 1)
    BY <1>5
  <2>5. QED BY <2>3, <2>4
<1>8. ASSUME NEW k \in 1..(N + 1), k - 1 \in G
      PROVE  k \in G
  <2>1. PICK f : Visits(D, a, k - 1, f)
    BY <1>8
  <2>2. \A n \in D, S \in SUBSET D : f[<<n, S>>].marked \in SUBSET D /\ S \subseteq f[<<n, S>>].marked
    BY <2>1 DEF Visits
  <2>3. ASSUME NEW n \in D, NEW S \in SUBSET D
        PROVE  VisitStep(a, f, n, S).marked \in SUBSET D /\ S \subseteq VisitStep(a, f, n, S).marked
    <3>1. S \cup {n} \in SUBSET D
      OBVIOUS
    <3>2. CASE n \in S
      BY <3>2 DEF VisitStep
    <3>3. CASE n \notin S /\ Perfect(mem[n].arr, a)
      BY <3>1, <3>3 DEF VisitStep
    <3>4. CASE n \notin S /\ ~Perfect(mem[n].arr, a) /\ mem[n].memt = NULL
      BY <3>1, <3>4 DEF VisitStep
    <3>5. CASE n \notin S /\ ~Perfect(mem[n].arr, a) /\ mem[n].memt # NULL /\ mem[n].memf = NULL
      <4>1. VisitStep(a, f, n, S) = f[<<mem[n].memt, S \cup {n}>>]
        BY <3>5 DEF VisitStep
      <4>2. mem[n].memt \in D
        BY <1>6, <3>5
      <4>3. PICK U : U = S \cup {n} /\ U \in SUBSET D /\ S \subseteq U
        BY <3>1
      <4>4. f[<<mem[n].memt, U>>].marked \in SUBSET D /\ U \subseteq f[<<mem[n].memt, U>>].marked
        BY <2>2, <4>2, <4>3
      <4>5. QED BY <4>1, <4>3, <4>4
    <3>6. CASE n \notin S /\ ~Perfect(mem[n].arr, a) /\ mem[n].memt # NULL /\ mem[n].memf # NULL
      <4>1. VisitStep(a, f, n, S) = f[<<mem[n].memf, f[<<mem[n].memt, S \cup {n}>>].marked>>]
        BY <3>6 DEF VisitStep
      <4>2. PICK T \in SUBSET D : T = f[<<mem[n].memt, S \cup {n}>>].marked /\ S \cup {n} \subseteq T
        <5>1. mem[n].memt \in D
          BY <1>6, <3>6
        <5>2. QED BY <2>2, <3>1, <5>1
      <4>3. mem[n].memf \in D
        BY <1>6, <3>6
      <4>4. f[<<mem[n].memf, T>>].marked \in SUBSET D /\ T \subseteq f[<<mem[n].memf, T>>].marked
        BY <2>2, <4>3
      <4>5. QED BY <4>1, <4>2, <4>4
    <3>7. QED BY <3>2, <3>3, <3>4, <3>5, <3>6
  <2> DEFINE g == [p \in D \X SUBSET D |->
                     IF Cardinality(D \ p[2]) < k THEN VisitStep(a, f, p[1], p[2]) ELSE f[p]]
  <2>4. \A n \in D, S \in SUBSET D :
          g[<<n, S>>] = IF Cardinality(D \ S) < k THEN VisitStep(a, f, n, S) ELSE f[<<n, S>>]
    OBVIOUS
  <2> HIDE DEF g
  <2>5. \A n \in D, S \in SUBSET D : g[<<n, S>>].marked \in SUBSET D /\ S \subseteq g[<<n, S>>].marked
    BY <2>2, <2>3, <2>4
  <2>6. ASSUME NEW n \in D, NEW S \in SUBSET D, Cardinality(D \ S) < k - 1
        PROVE  g[<<n, S>>] = f[<<n, S>>]
    <3>1. IsFiniteSet(D \ S)
      BY <1>2, FS_Subset
    <3>2. Cardinality(D \ S) \in Nat
      BY <3>1, FS_CardinalityType
    <3>3. Cardinality(D \ S) < k
      BY <1>5, <2>6, <3>2
    <3>4. f[<<n, S>>] = VisitStep(a, f, n, S)
      BY <2>1, <2>6 DEF Visits
    <3>5. QED BY <2>4, <3>3, <3>4
  <2>7. ASSUME NEW n \in D, NEW S \in SUBSET D, Cardinality(D \ S) < k
        PROVE  g[<<n, S>>] = VisitStep(a, g, n, S)
    <3>1. g[<<n, S>>] = VisitStep(a, f, n, S)
      BY <2>4, <2>7
    <3>2. ASSUME NEW t \in D, NEW T \in SUBSET D, S \cup {n} \subseteq T, n \notin S
          PROVE  g[<<t, T>>] = f[<<t, T>>]
      <4>1. n \in T /\ n \in D \ S /\ S \subseteq T
        BY <3>2
      <4>2. /\ Cardinality(D \ T) \in Nat /\ Cardinality(D \ S) \in Nat
            /\ Cardinality(D \ T) < Cardinality(D \ S)
        BY <1>2, <4>1, LessLeft
      <4>3. Cardinality(D \ T) < k - 1
        BY <1>5, <2>7, <4>2
      <4>4. QED BY <2>6, <4>3
    <3>3. VisitStep(a, f, n, S) = VisitStep(a, g, n, S)
      <4>1. CASE n \in S
        BY <4>1 DEF VisitStep
      <4>2. CASE n \notin S /\ Perfect(mem[n].arr, a)
        BY <4>2 DEF VisitStep
      <4>3. CASE n \notin S /\ mem[n].memt = NULL
        BY <4>3 DEF VisitStep
      <4>4. CASE n \notin S /\ ~Perfect(mem[n].arr, a) /\ mem[n].memt # NULL
        <5>1. mem[n].memt \in D /\ S \cup {n} \in SUBSET D
          BY <1>6, <4>4
        <5>2. g[<<mem[n].memt, S \cup {n}>>] = f[<<mem[n].memt, S \cup {n}>>]
          BY <3>2, <4>4, <5>1
        <5>3. CASE mem[n].memf = NULL
          BY <4>4, <5>2, <5>3 DEF VisitStep
        <5>4. CASE mem[n].memf # NULL
          <6>1. PICK T \in SUBSET D : T = f[<<mem[n].memt, S \cup {n}>>].marked /\ S \cup {n} \subseteq T
            BY <2>2, <5>1
          <6>2. mem[n].memf \in D
            BY <1>6, <5>4
          <6>3. g[<<mem[n].memf, T>>] = f[<<mem[n].memf, T>>]
            BY <3>2, <4>4, <6>1, <6>2
          <6>4. VisitStep(a, f, n, S) = f[<<mem[n].memf, T>>]
            BY <4>4, <5>4, <6>1 DEF VisitStep
          <6>5. VisitStep(a, g, n, S) = g[<<mem[n].memf, T>>]
            BY <4>4, <5>2, <5>4, <6>1 DEF VisitStep
          <6>6. QED BY <6>3, <6>4, <6>5
        <5>5. QED BY <5>3, <5>4
      <4>5. QED BY <4>1, <4>2, <4>3, <4>4
    <3>4. QED BY <3>1, <3>3
  <2>8. Visits(D, a, k, g)
    BY <2>5, <2>7 DEF Visits
  <2>9. k \in 0..(N + 1)
    BY <1>5
  <2>10. QED BY <2>8, <2>9
<1>9. Steps(N + 1, G)
  BY <1>7, <1>8 DEF Steps
<1> HIDE DEF G
<1>10. N + 1 \in G
  <2>1. N + 1 \in Nat /\ N + 1 \in 0..(N + 1)
    BY <1>5
  <2>2. \A k \in 0..(N + 1) : k \in G
    BY <1>9, <2>1, StepsReach
  <2>3. QED BY <2>1, <2>2
<1>11. PICK f : Visits(D, a, N + 1, f)
  BY <1>10 DEF G
<1>12. ASSUME NEW n \in D, NEW S \in SUBSET D
       PROVE  f[<<n, S>>] = VisitStep(a, f, n, S) /\ f[<<n, S>>].marked \in SUBSET D
  <2>1. Cardinality(D \ S) <= N /\ Cardinality(D \ S) \in Nat
    <3>1. D \ S \in SUBSET D /\ IsFiniteSet(D \ S)
      BY <1>2, FS_Subset
    <3>2. QED BY <1>2, <1>5, <3>1, FS_Subset, FS_CardinalityType
  <2>2. Cardinality(D \ S) < N + 1
    BY <1>5, <2>1
  <2>3. QED BY <1>11, <2>2 DEF Visits
<1>13. \E q : Is(q)
  <2>1. PICK q : q = [p \in (DOMAIN mem) \X SUBSET DOMAIN mem |-> f[p]]
    OBVIOUS
  <2>2. \A n \in D, S \in SUBSET D : q[<<n, S>>] = f[<<n, S>>]
    BY <2>1
  <2>3. ASSUME NEW n \in D, NEW S \in SUBSET D
        PROVE  f[<<n, S>>] = VisitStep(a, q, n, S)
    <3>1. S \cup {n} \in SUBSET D
      OBVIOUS
    <3>2. mem[n].memt # NULL => q[<<mem[n].memt, S \cup {n}>>] = f[<<mem[n].memt, S \cup {n}>>]
      BY <1>6, <2>2, <3>1
    <3>3. mem[n].memf # NULL =>
            q[<<mem[n].memf, f[<<mem[n].memt, S \cup {n}>>].marked>>] =
              f[<<mem[n].memf, f[<<mem[n].memt, S \cup {n}>>].marked>>]
      <4>1. HAVE mem[n].memf # NULL
      <4>2. mem[n].memf \in D /\ mem[n].memt \in D
        BY <1>4, <1>6, <4>1
      <4>3. f[<<mem[n].memt, S \cup {n}>>].marked \in SUBSET D
        BY <1>12, <3>1, <4>2
      <4>4. QED BY <2>2, <4>2, <4>3
    <3>4. VisitStep(a, f, n, S) = VisitStep(a, q, n, S)
      BY <1>4, <3>2, <3>3 DEF VisitStep
    <3>5. QED BY <1>12, <3>4
  <2>4. ASSUME NEW p \in (DOMAIN mem) \X SUBSET DOMAIN mem
        PROVE  f[p] = VisitStep(a, q, p[1], p[2])
    <3>1. p = <<p[1], p[2]>> /\ p[1] \in D /\ p[2] \in SUBSET D
      OBVIOUS
    <3>2. f[<<p[1], p[2]>>] = VisitStep(a, q, p[1], p[2])
      BY <2>3, <3>1
    <3>3. QED BY <3>1, <3>2
  <2>5. q = [p \in (DOMAIN mem) \X SUBSET DOMAIN mem |-> VisitStep(a, q, p[1], p[2])]
    BY <2>1, <2>4
  <2>6. QED BY <2>5 DEF Is
<1>14. Is(c)
  BY <1>13 DEF c
<1>15. \A n \in DOMAIN mem, S \in SUBSET DOMAIN mem : c[<<n, S>>] = VisitStep(a, c, n, S)
  BY <1>14 DEF Is
<1>16. {} \in SUBSET DOMAIN mem
  OBVIOUS
<1>17. \A n \in DOMAIN mem : c[<<n, {}>>] = VisitStep(a, c, n, {})
  BY <1>15, <1>16
<1>18. QED BY <1>1, <1>17

\* What bfmLoad_RBW reports of a memory over no other is true in exactly the
\* assignments in which nothing was stored at the address.
THEOREM LocalReportsAreRight == Spec => []RbwLocal
<1>1. IInv => RbwLocal
  <2> SUFFICES ASSUME IInv, NEW m \in memories, NEW a \in Addresses, Under(m) = {}
               PROVE  bfmLoad_RBW(m, a) = ReadsBeforeWrites(m, a)
    BY DEF RbwLocal
  <2>1. m \in DOMAIN mem /\ UnderIn(mem, m) = {} /\ mem[m].memt = NULL
    BY FlaggedHere DEF IInv, MemoryTypes, UnderIn
  <2>2. m \notin shared
    BY <2>1 DEF IInv, SharedOver
  <2>3. mem[m].arr \in Seq(CellSet)
    BY <2>1 DEF IInv, MemoryTypes, NodeSet
  <2>4. bfmLoad_RBW(m, a) = Unmatched(mem[m].arr, a)
    <3>1. PICK f : /\ \A n : Report(n, a) = f[<<n, {}>>]
                   /\ \A n \in DOMAIN mem : f[<<n, {}>>] = VisitStep(a, f, n, {})
      BY VisitIs
    <3>2. Report(m, a) = VisitStep(a, f, m, {})
      BY <2>1, <3>1
    <3>3. CASE Perfect(mem[m].arr, a)
      <4>1. Report(m, a).rbw = {}
        BY <3>2, <3>3 DEF VisitStep
      <4>2. PICK k \in DOMAIN mem[m].arr : Match(a, mem[m].arr[k].index) = Worlds
        BY <3>3 DEF Perfect
      <4>3. Unmatched(mem[m].arr, a) = {}
        BY <4>2 DEF Unmatched
      <4>4. QED BY <4>1, <4>3 DEF bfmLoad_RBW
    <3>4. CASE ~Perfect(mem[m].arr, a)
      BY <2>1, <3>2, <3>4 DEF VisitStep, bfmLoad_RBW
    <3>5. QED BY <3>3, <3>4
  <2>5. ASSUME NEW w \in Worlds
        PROVE  w \in Unmatched(mem[m].arr, a) <=> want[m][w][a[w]] = 0
    <3>1. PICK x \in Addr : x = a[w]
      BY DEF Addresses
    <3>2. want[m][w][x] = NewestOf(mem[m].arr, w, x, 0)
      <4>1. MeansOver(mem[m].arr, BelowOf(mem[m], want), want[m])
        BY <2>1, <2>2 DEF IInv, Meaning
      <4>2. BelowOf(mem[m], want)[w][x] = 0
        BY <2>1 DEF BelowOf
      <4>3. QED BY <4>1, <4>2 DEF MeansOver
    <3>3. w \in Unmatched(mem[m].arr, a) <=> NoneAt(mem[m].arr, w, x)
      BY <2>3, <3>1 DEF Unmatched, Match, NoneAt
    <3>4. CASE NoneAt(mem[m].arr, w, x)
      BY <2>3, <3>1, <3>2, <3>3, <3>4, NewestCases
    <3>5. CASE ~NoneAt(mem[m].arr, w, x)
      <4>1. PICK k \in 1..Len(mem[m].arr) : NewestAt(mem[m].arr, w, x, k)
        BY <2>3, <3>5, NewestCases
      <4>2. \A b : NewestOf(mem[m].arr, w, x, b) = mem[m].arr[k].value
        <5>1. \A j \in 1..Len(mem[m].arr) :
                NewestAt(mem[m].arr, w, x, j) => \A b : NewestOf(mem[m].arr, w, x, b) = mem[m].arr[j].value
          BY <2>3, NewestCases
        <5>2. QED BY <4>1, <5>1
      <4>3. mem[m].arr[k] \in CellSet
        BY <2>3, <4>1
      <4>4. mem[m].arr[k].value \in Values
        BY <4>3 DEF CellSet
      <4>5. QED BY <3>1, <3>2, <3>3, <3>5, <4>2, <4>4, MemoryAssumption
    <3>6. QED BY <3>4, <3>5
  <2>6. Unmatched(mem[m].arr, a) \subseteq Worlds
    BY DEF Unmatched
  <2>7. QED BY <2>4, <2>5, <2>6 DEF ReadsBeforeWrites
<1>2. QED BY <1>1, Invariance, PTL

=============================================================================
