------------------------------- MODULE Readback -------------------------------
(***************************************************************************)
(* Reading vectors back under an assignment of the inputs: aigAssignment   *)
(* of the bfman, which bfSimulate starts anew, bfGet completes gate by     *)
(* gate as far as it needs, and new inputs make longer, while the client   *)
(* goes on building vectors.                                               *)
(***************************************************************************)
EXTENDS Bitvec

CONSTANTS
  Answers,      \* the assignments given to bfSimulate, in the order they are given
  ReadVectors,  \* bound: first vectors of the clients that read
  MaxReadVars   \* bound: variables of a graph that is read

VARIABLES
  aigAssignment,  \* the value of each variable, as far as it is known
  answered,       \* history: how many of Answers have been given
  got             \* history: the vector just read and the number returned

readVars == <<aigAssignment, answered, got>>

false == 0
true == 1
unknown == 2

NoRead == [x |-> 0, val |-> 0]

\* bf_prep_assignment: the array is doubled until variable v is in it.
Prepared(a, v) ==
  LET doubled[size \in Nat] == IF v < size THEN size ELSE doubled[2 * size]
  IN  [u \in 0..(doubled[Cardinality(DOMAIN a)] - 1) |->
         IF u \in DOMAIN a THEN a[u] ELSE unknown]

\* Mutant of Cleared: the values of the last answer stay.
ClearedNothing(a) == a

\* bf_clear_assignment.
Cleared(a) == [v \in DOMAIN a |-> unknown]

ValueOf(a, l) == IF l > 0 THEN a[l] ELSE 1 - a[-l]

\* The walk of bf_get_assignment_lazily with its stack: a gate is left when
\* both its arguments are known, and is under those that are not.
RECURSIVE Completed(_, _)
Completed(a, stack) ==
  IF stack = <<>> THEN a
  ELSE LET o == VarOf(Last(stack)) IN
       IF o \in man.inputs \/ a[o] # unknown THEN Completed(a, Front(stack))
       ELSE LET g == GateOf(man, o)
                open == SelectSeq(<<g.rhs0, g.rhs1>>, LAMBDA l : a[VarOf(l)] = unknown)
            IN IF open # <<>> THEN Completed(a, stack \o open)
               ELSE Completed([a EXCEPT ![o] = ValueOf(a, g.rhs0) * ValueOf(a, g.rhs1)],
                              Front(stack))

\* One literal: the array afterwards and the value.
bfGet(a, l) ==
  IF l = LITERAL_TRUE THEN [a |-> a, val |-> true]
  ELSE IF l = LITERAL_FALSE THEN [a |-> a, val |-> false]
  ELSE After(Completed(a, <<VarOf(l)>>), LAMBDA b : [a |-> b, val |-> ValueOf(b, l)])

-----------------------------------------------------------------------------

\* The client gives every input a value; the fresh inputs of bfvQuotRem share one.
bfSimulate ==
  /\ answered < Len(Answers) /\ clauses = {}
  /\ regs[1] \in ReadVectors /\ man.numVars <= MaxReadVars
  /\ answered' = answered + 1
  /\ LET cleared == Cleared(Prepared(aigAssignment, man.numVars))
     IN  aigAssignment' =
           [v \in DOMAIN cleared |->
              IF v \notin man.inputs THEN cleared[v]
              ELSE IF ValueIn(Answers[answered'], Min({v, NumInputs + 1}))
                   THEN true ELSE false]
  /\ got' = NoRead
  /\ UNCHANGED vars

\* The array does not follow the gates made after the last answer, so the client
\* reads no variable beyond it (the code does not check).
bfvGet(x) ==
  /\ answered > 0 /\ clauses = {} /\ man.numVars <= MaxReadVars
  /\ \A l \in ToSet(regs[x]) \ Constants : VarOf(l) \in DOMAIN aigAssignment
  /\ LET all == For(LAMBDA acc, j :
                      After(bfGet(acc.a, regs[x][j]), LAMBDA bit :
                        [a |-> bit.a, val |-> acc.val + bit.val * 2^(j - 1)]),
                    [a |-> aigAssignment, val |-> 0], Len(regs[x]))
     IN  /\ aigAssignment' = all.a
         /\ got' = [x |-> x, val |-> all.val]
  /\ UNCHANGED <<vars, answered>>

\* A call of bitvec.c or bfSetClause; bfNewVar prepares the array.
Build ==
  /\ Next
  /\ answered > 0 => clauses' = {}      \* bound: no clause is set after an answer
  /\ aigAssignment' = Prepared(aigAssignment, Max(man'.inputs))
  /\ got' = NoRead
  /\ UNCHANGED answered

ReadInit ==
  /\ Init
  /\ aigAssignment = Prepared([v \in 0..15 |-> unknown], NumInputs)
  /\ answered = 0
  /\ got = NoRead

ReadNext == Build \/ bfSimulate \/ \E x \in DOMAIN regs : bfvGet(x)

ReadSpec == ReadInit /\ [][ReadNext]_<<vars, readVars>>

-----------------------------------------------------------------------------

\* bfvGet returns the number the vector has in the last assignment given,
\* whichever gates an earlier read, or a read under an earlier assignment, has
\* valued, and whether the vector was built before or after the assignment.
GetsWord ==
  got # NoRead => got.val = Reading[got.x].val[Answers[answered]]

=============================================================================
