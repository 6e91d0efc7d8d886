----------------------------- MODULE SatService ------------------------------
(***************************************************************************)
(* What a solver that keeps its clauses between calls promises: it may     *)
(* refuse a clause or an assumption only when it contradicts what it       *)
(* already has, and every search ends with the right answer for the        *)
(* clauses added and the assumptions held when it was asked.               *)
(***************************************************************************)
EXTENDS Cnf, Sequences

CONSTANTS
  Clauses,   \* the clauses a client may add, as sets of literals
  Queries    \* the literals it may assume

VARIABLES
  formula,   \* the set of clauses added, each a set of literals
  held,      \* the literals assumed, oldest first
  asked,     \* the literals the last question was about
  busy,      \* is a search under way
  answer     \* "SAT", "UNSAT" or "none" since the last call

vars == <<formula, held, asked, busy, answer>>

SetOf(s) == {s[k] : k \in DOMAIN s}

Init == formula = {} /\ held = <<>> /\ asked = {} /\ busy = FALSE /\ answer = "none"

\* The answer "UNSAT" needs a reason, "none" does not.
MayRefuse ==
  \/ answer' = "none"
  \/ answer' = "UNSAT" /\ ~Consistent(formula', asked')

AddClause(c) ==
  /\ ~busy /\ formula' = formula \cup {c}
  /\ asked' = SetOf(held) /\ MayRefuse
  /\ UNCHANGED <<held, busy>>

PushAssumption(p) ==
  /\ ~busy /\ UNCHANGED <<formula, busy>>
  /\ \/ held' = Append(held, p) /\ asked' = {} /\ answer' = "none"
     \/ /\ UNCHANGED held
        /\ asked' = SetOf(held) \cup {p} /\ answer' = "UNSAT" /\ MayRefuse

PopAssumptions(num) ==
  /\ ~busy /\ num \in 1..Len(held)
  /\ held' = SubSeq(held, 1, Len(held) - num)
  /\ asked' = {} /\ answer' = "none"
  /\ UNCHANGED <<formula, busy>>

Solve ==
  /\ ~busy /\ asked' = SetOf(held) /\ MayRefuse
  /\ busy' = (answer' = "none")
  /\ UNCHANGED <<formula, held>>

Answer ==
  /\ busy /\ busy' = FALSE
  /\ answer' = IF Consistent(formula, asked) THEN "SAT" ELSE "UNSAT"
  /\ UNCHANGED <<formula, held, asked>>

Next ==
  \/ \E c \in Clauses : AddClause(c)
  \/ \E p \in Queries : PushAssumption(p)
  \/ \E num \in 1..Len(held) : PopAssumptions(num)
  \/ Solve \/ Answer

Spec == Init /\ [][Next]_vars /\ WF_vars(Answer)

=============================================================================
