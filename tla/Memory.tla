------------------------------- MODULE Memory --------------------------------
(***************************************************************************)
(* The symbolic memories of mem.c.  A memory is a list of stores over      *)
(* another memory (a copy), over two of them chosen by a condition (a      *)
(* join), or over nothing; memories share what they are over.  A symbolic  *)
(* bit is the set of assignments in which it is true, a symbolic address   *)
(* or value a function of the assignment.  Two bit vectors are the same,   *)
(* and an address matches a cell for certain, when they are equal in every *)
(* assignment: the code sees only what the constructors simplify.          *)
(***************************************************************************)
EXTENDS Integers, Sequences, SequencesExt, FiniteSets

CONSTANTS
  Worlds,    \* the assignments of the inputs
  NumAddr,   \* addresses are 0..NumAddr-1, and wrap around
  Values,    \* values that are stored; 0 is read where nothing is
  Words,     \* longer values that are stored: pairs of elements
  MaxMem,    \* bound: memories allocated at once
  MaxStores  \* bound: cells of all memories together

ASSUME MemoryAssumption ==
  /\ Worlds # {} /\ NumAddr \in Nat \ {0} /\ MaxMem \in Nat /\ MaxStores \in Nat
  \* What is stored is told apart from what was never stored.
  /\ 0 \notin Values /\ Words \subseteq Seq(Values)

Addr == 0..(NumAddr - 1)
Addresses == [Worlds -> Addr]
NULL == 0
Id == 1..MaxMem

VARIABLES
  mem,       \* the memories that are allocated
  memories,  \* those the client has a reference to: the list in the bfman
  want,      \* history: what each holds, as a function of assignment and address
  shared     \* history: memories over one that was stored to since

heap == <<mem, memories>>
history == <<want, shared>>
vars == <<heap, history>>

-----------------------------------------------------------------------------
(* Traversals.  Each starts with a new value of memflag, so that no memory  *)
(* is marked.                                                               *)

Under(m) == {mem[m].memt, mem[m].memf} \ {NULL}

\* bfmFlag marks what can be reached.
Flagged(roots) ==
  LET reached[n \in 0..MaxMem] ==
        IF n = 0 THEN roots
        ELSE LET near == reached[n - 1]
             IN near \cup UNION {Under(m) : m \in near \cap DOMAIN mem}
  IN reached[MaxMem]

-----------------------------------------------------------------------------
(* Loads.                                                                   *)

Match(a, index) == {w \in Worlds : a[w] = index[w]}
Constant(v) == [w \in Worlds |-> v]

\* Mutant of Merged: the oldest store that matches wins.
MergedOldest(arr, a, below) ==
  [w \in Worlds |->
     LET hits == {k \in DOMAIN arr : arr[k].index[w] = a[w]}
     IN IF hits = {} THEN below[w] ELSE arr[Min(hits)].value]

\* loadLocal and stackMerge: the newest store that matches wins.
Merged(arr, a, below) ==
  [w \in Worlds |->
     LET hits == {k \in DOMAIN arr : arr[k].index[w] = a[w]}
     IN IF hits = {} THEN below[w] ELSE arr[Max(hits)].value]

Perfect(arr, a) == \E k \in DOMAIN arr : Match(a, arr[k].index) = Worlds

\* Mutant of Unmatched: only the newest store counts.
UnmatchedNewest(arr, a) ==
  IF arr = <<>> THEN Worlds ELSE Worlds \ Match(a, Last(arr).index)

\* The condition stackMerge collects: no store matches.
Unmatched(arr, a) == {w \in Worlds : \A k \in DOMAIN arr : w \notin Match(a, arr[k].index)}

\* The value of a load from m at address a.  A load memoises the value of each
\* memory it has visited, and every load starts over with a new memflag, so
\* what is memoised is what another visit would compute.
bfmLoad(m, a) ==
  LET load[n \in DOMAIN mem] ==
        Merged(mem[n].arr, a,
          IF Perfect(mem[n].arr, a) \/ mem[n].memt = NULL THEN Constant(0)
          ELSE IF mem[n].memf = NULL THEN load[mem[n].memt]
          ELSE LET t == load[mem[n].memt]
                   f == load[mem[n].memf]
               IN [w \in Worlds |-> IF w \in mem[n].c THEN t[w] ELSE f[w]])
  IN load[m]

\* What the same traversal reports as read before it was written, and the
\* memories it has marked.  Each visit sets the report, and one to a memory
\* that is marked sets it to false.
Report(m, a) ==
  LET visit[p \in (DOMAIN mem) \X SUBSET DOMAIN mem] ==
        LET n == p[1]
            now == p[2] \cup {n}
        IN IF n \in p[2] THEN [rbw |-> {}, marked |-> p[2]]
           ELSE IF Perfect(mem[n].arr, a) THEN [rbw |-> {}, marked |-> now]
           ELSE IF mem[n].memt = NULL
           THEN [rbw |-> Unmatched(mem[n].arr, a), marked |-> now]
           ELSE IF mem[n].memf = NULL THEN visit[<<mem[n].memt, now>>]
           ELSE visit[<<mem[n].memf, visit[<<mem[n].memt, now>>].marked>>]
  IN visit[<<m, {}>>]

bfmLoad_RBW(m, a) == Report(m, a).rbw

Plus(a, k) == [w \in Worlds |-> (a[w] + k) % NumAddr]

\* How far from the address bfmLoad_le and bfmLoad_be find element k of a value
\* of n elements, the first the least significant.
Offset_le(n, k) == k - 1
Offset_be(n, k) == n - k

-----------------------------------------------------------------------------
(* Stores.                                                                  *)

Cell(index, value) == [index |-> index, value |-> value]

\* removeMapping drops the first cell of the same index, bfmStore adds one.
Stored(arr, index, value) ==
  LET same == {k \in DOMAIN arr : arr[k].index = index}
      rest == IF same = {} THEN arr ELSE RemoveAt(arr, Min(same))
  IN Append(rest, Cell(index, value))

StoredAll(arr, a, vs) ==
  LET after[k \in 0..Len(vs)] ==
        IF k = 0 THEN arr ELSE Stored(after[k - 1], Plus(a, k - 1), vs[k])
  IN after[Len(vs)]

\* Mutant of Big: the bytes in the order they are in the value.
BigSame(vs) == vs

\* The elements of a value in the order they are stored.
Little(vs) == vs
Big(vs) == Reverse(vs)

Overwrite(g, a, v) ==
  [w \in Worlds |-> [g[w] EXCEPT ![a[w]] = v]]
OverwriteAll(g, a, vs) ==
  LET after[k \in 0..Len(vs)] ==
        IF k = 0 THEN g ELSE Overwrite(after[k - 1], Plus(a, k - 1), vs[k])
  IN after[Len(vs)]

Cells == Cardinality(UNION {{m} \X DOMAIN mem[m].arr : m \in DOMAIN mem})

Store(m, a, vs) ==
  /\ m \in memories /\ Cells + Len(vs) <= MaxStores
  /\ mem' = [mem EXCEPT ![m].arr = StoredAll(@, a, vs)]
  /\ want' = [want EXCEPT ![m] = OverwriteAll(@, a, vs)]
  /\ shared' = shared \cup {n \in DOMAIN mem : m \in Flagged(Under(n))}
  /\ UNCHANGED memories

bfmStore(m, a, v) == Store(m, a, <<v>>)
bfmStore_le(m, a, vs) == Len(vs) > 1 /\ Store(m, a, Little(vs))
bfmStore_be(m, a, vs) == Len(vs) > 1 /\ Store(m, a, Big(vs))

-----------------------------------------------------------------------------
(* Making and destroying.                                                   *)

Node(c, t, f) == [arr |-> <<>>, c |-> c, memt |-> t, memf |-> f]

Make(node, holds, isShared) ==
  /\ Id \ DOMAIN mem # {}
  /\ LET n == Min(Id \ DOMAIN mem)
         With(f, x) == [k \in DOMAIN mem \cup {n} |-> IF k = n THEN x ELSE f[k]]
     IN /\ mem' = With(mem, node) /\ want' = With(want, holds)
        /\ memories' = memories \cup {n}
        /\ shared' = IF isShared THEN shared \cup {n} ELSE shared

bfmInit ==
  Make(Node(Worlds, NULL, NULL), [w \in Worlds |-> [a \in Addr |-> 0]], FALSE)

bfmCopy(m) ==
  m \in memories /\ Make(Node(Worlds, m, NULL), want[m], m \in shared)

\* With a constant condition bfmSelect returns one of the two and makes nothing.
bfmSelect(c, t, f) ==
  /\ {t, f} \subseteq memories /\ c \notin {{}, Worlds}
  /\ Make(Node(c, t, f),
          [w \in Worlds |-> IF w \in c THEN want[t][w] ELSE want[f][w]],
          {t, f} \cap shared # {})

\* Mutants of Collected: everything m reaches; nothing but m.
CollectedAll(m) == Flagged({m})
CollectedShallow(m) == {m} \ Flagged(memories \ {m})

\* What bfmDestroy frees: what m reaches and no other memory in the list does.
Collected(m) == Flagged({m}) \ Flagged(memories \ {m})

Only(f, S) == [k \in S |-> f[k]]

bfmDestroy(m) ==
  /\ m \in memories
  /\ memories' = memories \ {m}
  /\ LET kept == DOMAIN mem \ Collected(m)
     IN /\ mem' = Only(mem, kept) /\ want' = Only(want, kept)
        /\ shared' = shared \cap kept

-----------------------------------------------------------------------------
Init ==
  /\ mem = [k \in {} |-> 0] /\ memories = {}
  /\ want = [k \in {} |-> 0] /\ shared = {}

Next ==
  \/ bfmInit
  \/ \E m \in memories :
       \/ bfmCopy(m) \/ bfmDestroy(m)
       \/ \E a \in Addresses :
            \/ \E v \in Values : bfmStore(m, a, v)
            \/ \E vs \in Words : bfmStore_le(m, a, vs) \/ bfmStore_be(m, a, vs)
       \/ \E f \in memories, c \in SUBSET Worlds : bfmSelect(c, m, f)

Spec == Init /\ [][Next]_vars

-----------------------------------------------------------------------------
\* A load of any address from any memory returns what was stored last at that
\* address in each assignment, through copies and joins, as long as nothing was
\* stored to a memory under it.
LoadMeans ==
  \A m \in memories \ shared, a \in Addresses :
    bfmLoad(m, a) = [w \in Worlds |-> want[m][w][a[w]]]

\* Destroying never frees a memory that another one in the list is over, in
\* any order of destruction.
NoDangling == Flagged(memories) \subseteq DOMAIN mem

\* mem.h: destroying reclaims a memory and those it depends on as soon as no
\* other active memory refers to them; none is left behind.
Reclaimed == DOMAIN mem \subseteq Flagged(memories)

\* A value that fits the addresses, stored by bfmStore_le or bfmStore_be at any
\* address and over any cells, is what bfmLoad_le or bfmLoad_be returns.
RoundTrip ==
  \A m \in memories, a \in Addresses, vs \in Words :
    Under(m) = {} /\ Len(vs) <= NumAddr =>
      LET little == StoredAll(mem[m].arr, a, Little(vs))
          big == StoredAll(mem[m].arr, a, Big(vs))
          Element(arr, k) == Merged(arr, Plus(a, k), Constant(0))
      IN \A k \in DOMAIN vs :
           /\ Element(little, Offset_le(Len(vs), k)) = Constant(vs[k])
           /\ Element(big, Offset_be(Len(vs), k)) = Constant(vs[k])

\* Where nothing was stored at the address that is loaded.
ReadsBeforeWrites(m, a) == {w \in Worlds : want[m][w][a[w]] = 0}

\* bfmLoad_RBW of a memory that is over no other is right: true in exactly the
\* assignments in which nothing was stored at the address, however the symbolic
\* addresses of the stores overlap.
RbwLocal ==
  \A m \in memories, a \in Addresses :
    Under(m) = {} => bfmLoad_RBW(m, a) = ReadsBeforeWrites(m, a)

\* mem.h says of bfmLoad_RBW of any memory that upon return the literal is true
\* iff the load read a location that was never written.
RbwRight ==
  \A m \in memories \ shared, a \in Addresses :
    bfmLoad_RBW(m, a) = ReadsBeforeWrites(m, a)

=============================================================================
