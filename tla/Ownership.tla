------------------------------- MODULE Ownership -------------------------------
(***************************************************************************)
(* What bitvec.h promises of the hold counts: a function frees each vector *)
(* it is passed that nobody holds, and leaves every other vector and every *)
(* count as it was, and the vectors that are new are those it returns.     *)
(* Where the code does something else, Step has a disjunct for it.         *)
(***************************************************************************)
EXTENDS Naturals, FiniteSets

VARIABLES
  count,   \* the vectors there are, each with its number of holds
  call     \* the last call: how it went, its arguments, how many it returned

vars == <<count, call>>

Unheld(args) == {v \in args : count[v] = 0}

\* A number of vectors are new; they have no holds.
Leaves(gone, more, new) ==
  LET made == DOMAIN count' \ DOMAIN count
      left == DOMAIN count \ gone
  IN
  /\ Cardinality(made) = new
  /\ count' = [v \in left \cup made |->
                IF v \in made THEN 0 ELSE IF v \in more THEN count[v] + 1 ELSE count[v]]

Init == count = <<>> /\ call = [how |-> "none", args |-> {}, made |-> 0]

Step(used) ==
  /\ used \subseteq DOMAIN count
  /\ \/ call'.how = "hold" /\ Leaves({}, used, call'.made)
     \/ /\ call'.how = "release" /\ \A v \in used : count[v] > 0
        /\ count' = [v \in DOMAIN count |-> IF v \in used THEN count[v] - 1 ELSE count[v]]
     \/ /\ call'.how = "drop" /\ \A v \in used : count[v] > 0
        /\ count' = [v \in {w \in DOMAIN count : w \notin used \/ count[w] > 1} |->
                       IF v \in used THEN count[v] - 1 ELSE count[v]]
     \/ call'.how = "returns" /\ Leaves(Unheld(used), {}, call'.made)
     \* A signed remainder leaves its quotient, and a rotation to the left the
     \* rest of the width if that is certain to be too large: one vector more
     \* than is returned, which nobody can free.
     \/ call'.how = "leaks" /\ Leaves(Unheld(used), {}, call'.made + 1)
     \* A shift by a distance that is certain to be too large, and a clause
     \* that is certain to hold, free nothing.
     \/ call'.how = "keeps" /\ Leaves({}, {}, call'.made)
     \* A signed division by a constant zero frees its divisor only, and the
     \* dividend has one more hold.
     \/ call'.how = "holds" /\ \E x \in used : Leaves(Unheld(used) \ {x}, {x}, call'.made)

Next == Step(call'.args)

Spec == Init /\ [][Next]_vars

=============================================================================
