----------------------------- MODULE Incremental -----------------------------
(***************************************************************************)
(* funcsat at its interface: what it keeps of the clauses and assumptions  *)
(* it is given, also for a client whose clauses contradict what it assumes. *)
(* Clauses of two or more literals are watched and stay.  A unit clause is *)
(* only a literal on level 0 of the trail, put there after the assumptions *)
(* that hold at the time, and goes or stays with them.                     *)
(***************************************************************************)
EXTENDS Cnf, Sequences

CONSTANTS
  Clauses,   \* clauses a client may add, as sets of literals
  Queries    \* literals a client may assume

ASSUME InterfaceAssumption == Clauses \subseteq SUBSET Lit /\ Queries \subseteq Lit

VARIABLES
  formula,   \* the clauses added
  root,      \* level 0: [lit, at, unit], at the number of assumptions below it
  held,      \* the literals the client assumes, oldest first
  marks,     \* for each of them the last one, at or below it, that is on the trail
  asked,     \* the literals the last question was about
  busy,      \* is a search under way
  answer,    \* "SAT", "UNSAT" or "none" since the last call
  lost       \* history: clauses refused, or given while something was assumed

vars == <<formula, root, held, marks, asked, busy, answer, lost>>

SetOf(s) == {s[k] : k \in DOMAIN s}
RootLits == {r.lit : r \in root}
Unit(l) == {l}
IsUnit(c) == \E l \in Lit : c = Unit(l)
IsLong(c) == c # {} /\ ~IsUnit(c)
Kept == {c \in formula : IsLong(c)}

\* The assumption below what is put on the trail while the first n hold.
Mark(n) == IF n = 0 THEN 0 ELSE marks[n]

EntryAtBottom(l, n, u) == [lit |-> l, at |-> 0, unit |-> u]
Entry(l, n, u) == [lit |-> l, at |-> n, unit |-> u]

\* In every model of the formula that satisfies the first n assumptions l holds.
Implied(l, n) ==
  \A a \in ModelsOf(formula) :
    (\A k \in 1..n : Holds(a, held[k])) => Holds(a, l)

-----------------------------------------------------------------------------
Init ==
  /\ formula = {} /\ root = {} /\ held = <<>> /\ marks = <<>>
  /\ asked = {} /\ busy = FALSE /\ answer = "none" /\ lost = {}

AddLong(cs) ==
  /\ ~busy /\ \A c \in cs : IsLong(c)
  /\ formula' = formula \cup cs
  /\ asked' = SetOf(held) /\ answer' = "none"
  /\ UNCHANGED <<root, held, marks, busy, lost>>

AddUnitDropped(l) ==
  /\ ~busy
  /\ formula' = formula \cup {Unit(l)}
  /\ asked' = SetOf(held) /\ answer' = "none"
  /\ UNCHANGED <<root, held, marks, busy, lost>>

\* A literal that holds already is not recorded again.
AddUnit(l) ==
  /\ ~busy
  /\ formula' = formula \cup {Unit(l)}
  /\ root' = IF l \in RootLits \/ -l \in RootLits THEN root
             ELSE root \cup {Entry(l, Mark(Len(held)), TRUE)}
  /\ lost' = IF held # <<>> \/ -l \in RootLits THEN lost \cup {Unit(l)} ELSE lost
  /\ asked' = SetOf(held)
  /\ answer' = IF -l \in RootLits THEN "UNSAT" ELSE "none"
  /\ UNCHANGED <<held, marks, busy>>

AddEmpty ==
  /\ ~busy
  /\ formula' = formula \cup {{}} /\ lost' = lost \cup {{}}
  /\ asked' = SetOf(held) /\ answer' = "UNSAT"
  /\ UNCHANGED <<root, held, marks, busy>>

PushAssumption(p) ==
  /\ ~busy
  /\ IF -p \in RootLits
     THEN /\ asked' = SetOf(held) \cup {p} /\ answer' = "UNSAT"
          /\ UNCHANGED <<root, held, marks>>
     ELSE /\ asked' = {} /\ answer' = "none"
          /\ held' = Append(held, p)
          /\ marks' = Append(marks, IF p \in RootLits THEN Mark(Len(held)) ELSE Len(held) + 1)
          /\ root' = IF p \in RootLits THEN root
                     ELSE root \cup {Entry(p, Len(held) + 1, FALSE)}
  /\ UNCHANGED <<formula, busy, lost>>

\* The unit clauses above the assumptions popped are implied again where the
\* trail now ends, and are then like any implied literal.
PopAssumptions(num) ==
  /\ ~busy /\ num \in 1..Len(held)
  /\ num = 1 \/ \A k \in (Len(held) - num + 1)..Len(held) : marks[k] = k
  /\ LET n == Len(held) - num
         below == {r \in root : r.at <= n}
         units == {r.lit : r \in {e \in root \ below : e.unit}}
     IN /\ root' = below \cup {Entry(l, Mark(n), FALSE) : l \in units}
        /\ held' = SubSeq(held, 1, n) /\ marks' = SubSeq(marks, 1, n)
  /\ asked' = {} /\ answer' = "none"
  /\ UNCHANGED <<formula, busy, lost>>

\* An empty clause is noticed before the search.
Solve ==
  /\ ~busy /\ asked' = SetOf(held)
  /\ \/ busy' = TRUE /\ answer' = "none"
     \/ {} \in formula /\ UNCHANGED busy /\ answer' = "UNSAT"
  /\ UNCHANGED <<formula, root, held, marks, lost>>

\* What propagation or learning finds at level 0 stays there.
Deduce(X) ==
  /\ busy
  /\ \A l \in X : Implied(l, Len(held))
  /\ root' = root \cup {Entry(l, Mark(Len(held)), FALSE) : l \in X \ RootLits}
  /\ UNCHANGED <<formula, held, marks, asked, busy, answer, lost>>

AnswerSat(a) ==
  /\ busy /\ a \in ModelsOf(Kept) /\ \A l \in RootLits : Holds(a, l)
  /\ busy' = FALSE /\ answer' = "SAT"
  /\ UNCHANGED <<formula, root, held, marks, asked, lost>>

AnswerUnsat ==
  /\ busy /\ ~Consistent(formula, asked)
  /\ busy' = FALSE /\ answer' = "UNSAT"
  /\ UNCHANGED <<formula, root, held, marks, asked, lost>>

Next ==
  \/ \E c \in Clauses : IsLong(c) /\ AddLong({c})
  \/ \E l \in Lit : Unit(l) \in Clauses /\ AddUnit(l)
  \/ {} \in Clauses /\ AddEmpty
  \/ \E p \in Queries : PushAssumption(p)
  \/ \E num \in 1..Len(held) : PopAssumptions(num)
  \/ Solve
  \/ \E X \in SUBSET Lit : Deduce(X)
  \/ \E a \in ModelsOf({}) : AnswerSat(a)
  \/ AnswerUnsat

Spec == Init /\ [][Next]_vars

-----------------------------------------------------------------------------
\* The answer "UNSAT" is right whatever the client does.
UnsatRight == answer = "UNSAT" => ~Consistent(formula, asked)

\* The answer "SAT" is right as long as no clause was lost.
SatRight == answer = "SAT" /\ lost = {} => Consistent(formula, asked)

=============================================================================
