--------------------------- MODULE SolvingProofs ---------------------------
(***************************************************************************)
(* What the interface of funcsat guarantees to every client; what solve.c, *)
(* as one, keeps true of the graph, of funcsat and of its own flags and    *)
(* stacks, and from it that what its own client is told is right, for      *)
(* every number of variables, inputs, constraints and assumptions.         *)
(***************************************************************************)
EXTENDS Solving, SequenceTheorems, TLAPS

-----------------------------------------------------------------------------
(***************************************************************************)
(* The interface of funcsat: an answer "UNSAT" is right, and an answer     *)
(* "SAT" is right while no clause was refused or added under an            *)
(* assumption.                                                             *)
(***************************************************************************)
\* Level 0 says nothing but what the formula and the assumptions below say.
RootImplied ==
  \A r \in root :
    /\ r.at = 0 \/ (r.at \in 1..Len(held) /\ marks[r.at] = r.at)
    /\ Implied(r.lit, r.at)
    /\ r.unit => Unit(r.lit) \in formula

\* Marks do not decrease, and are their own mark.
MarksOrdered ==
  \A k \in 1..Len(held) :
    /\ marks[k] \in 0..k
    /\ \A j \in 1..k : marks[j] <= marks[k] /\ (marks[k] <= j => marks[j] = marks[k])

\* Every assumption is on level 0, also the one that was not pushed.
AssumedOnRoot ==
  \A k \in 1..Len(held) : \E r \in root : r.lit = held[k] /\ r.at <= marks[k]

\* While nothing was lost every unit clause is at the bottom of level 0.
UnitsKept ==
  lost = {} =>
    /\ {} \notin formula
    /\ \A l \in Lit : Unit(l) \in formula =>
         \E r \in root : r.lit = l /\ r.at = 0

Types ==
  /\ formula \in SUBSET SUBSET Lit
  /\ root \in SUBSET [lit : Lit, at : Nat, unit : BOOLEAN]
  /\ held \in Seq(Lit) /\ marks \in Seq(Nat) /\ Len(marks) = Len(held)
  /\ asked \in SUBSET Lit /\ busy \in BOOLEAN
  /\ answer \in {"none", "SAT", "UNSAT"}

Inv ==
  /\ Types /\ RootImplied /\ MarksOrdered /\ AssumedOnRoot /\ UnitsKept
  /\ (busy => asked = SetOf(held))
  /\ UnsatRight /\ SatRight

-----------------------------------------------------------------------------
\* A literal is a nonzero integer, and so is its negation.
LEMMA LitFacts ==
  /\ MaxVar \in Nat \ {0}
  /\ \A l \in Lit : l \in Int /\ -l \in Lit /\ l # 0 /\ -(-l) = l
BY MaxVarAssumption DEF Lit

\* A literal and its negation do not hold together, and one of them does.
LEMMA HoldsNegated ==
  ASSUME NEW a \in [Var -> BOOLEAN], NEW l \in Lit
  PROVE  Holds(a, -l) <=> ~Holds(a, l)
<1>1. CASE l > 0
  <2>1. l \in Var /\ ~(-l > 0) /\ -(-l) = l
    BY <1>1, MaxVarAssumption DEF Lit, Var
  <2> QED BY <1>1, <2>1 DEF Holds
<1>2. CASE ~(l > 0)
  <2>1. -l \in Var /\ -l > 0
    BY <1>2, MaxVarAssumption DEF Lit, Var
  <2> QED BY <1>2, <2>1 DEF Holds
<1> QED BY <1>1, <1>2

\* A unit clause holds when its literal does.
LEMMA UnitHolds ==
  ASSUME NEW a, NEW l
  PROVE  Satisfies(a, Unit(l)) <=> Holds(a, l)
BY DEF Satisfies, Unit

\* A unit clause implies its literal, under any number of assumptions.
LEMMA UnitImplies ==
  ASSUME NEW l, Unit(l) \in formula, NEW n
  PROVE  Implied(l, n)
BY UnitHolds DEF Implied, ModelsOf

\* A mark is a number of assumptions.
LEMMA MarkType ==
  ASSUME Types, MarksOrdered, NEW n \in 0..Len(held)
  PROVE  Mark(n) \in 0..n
BY DEF Types, MarksOrdered, Mark

\* A mark is 0 or an assumption that is on the trail.
LEMMA MarkOfMark ==
  ASSUME Types, MarksOrdered, NEW n \in 0..Len(held)
  PROVE  Mark(n) = 0 \/ (Mark(n) \in 1..Len(held) /\ marks[Mark(n)] = Mark(n))
<1>0. Len(held) \in Nat /\ Mark(n) \in 0..n
  BY MarkType DEF Types
<1>1. CASE n = 0
  BY <1>1 DEF Mark
<1>2. CASE n # 0 /\ Mark(n) # 0
  <2>1. n \in 1..Len(held) /\ Mark(n) = marks[n] /\ Mark(n) \in 1..n
    BY <1>0, <1>2 DEF Mark
  <2>2. \A j \in 1..n : marks[n] <= j => marks[j] = marks[n]
    BY <2>1 DEF MarksOrdered
  <2>3. marks[Mark(n)] = Mark(n)
    BY <2>1, <2>2
  <2> QED BY <1>0, <2>1, <2>3
<1> QED BY <1>1, <1>2

\* What the first n assumptions imply, those up to their mark imply: the others
\* held already when they were pushed.
LEMMA MarkImplies ==
  ASSUME Inv, NEW n \in 0..Len(held), NEW l, Implied(l, n)
  PROVE  Implied(l, Mark(n))
<1> SUFFICES ASSUME NEW a \in ModelsOf(formula),
                    \A k \in 1..Mark(n) : Holds(a, held[k])
             PROVE  Holds(a, l)
  BY DEF Implied
<1>0. Mark(n) \in 0..n /\ Len(held) \in Nat
  BY MarkType DEF Inv, Types
<1>1. ASSUME NEW k \in 1..n PROVE Holds(a, held[k])
  <2>1. CASE k <= Mark(n)
    BY <1>0, <2>1
  <2>2. CASE ~(k <= Mark(n))
    <3>0. k \in 1..Len(held) /\ n \in 1..Len(held)
      BY <1>0
    <3>1. Mark(n) = marks[n]
      BY <3>0 DEF Mark
    <3>2. marks[k] = marks[n]
      BY <1>0, <2>2, <3>0, <3>1 DEF Inv, MarksOrdered
    <3>3. PICK r \in root : r.lit = held[k] /\ r.at <= marks[k]
      BY <3>0 DEF Inv, AssumedOnRoot
    <3>4. Implied(r.lit, r.at) /\ r.at \in Nat
      BY DEF Inv, RootImplied, Types
    <3>5. \A j \in 1..r.at : Holds(a, held[j])
      BY <1>0, <3>1, <3>2, <3>3, <3>4
    <3> QED BY <3>3, <3>4, <3>5 DEF Implied
  <2> QED BY <1>0, <2>1, <2>2
<1> QED BY <1>1 DEF Implied

\* In a model of the formula and of all the assumptions level 0 holds.
LEMMA RootHolds ==
  ASSUME Inv, NEW a \in ModelsOf(formula), \A k \in 1..Len(held) : Holds(a, held[k]),
         NEW l \in RootLits
  PROVE  Holds(a, l)
<1>1. PICK r \in root : r.lit = l
  BY DEF RootLits
<1>2. r.at \in Nat /\ r.at <= Len(held) /\ Implied(l, r.at) /\ Len(held) \in Nat
  BY <1>1 DEF Inv, RootImplied, Types
<1>3. \A k \in 1..r.at : Holds(a, held[k])
  BY <1>2
<1> QED BY <1>2, <1>3 DEF Implied

\* What is assumed is on level 0.
LEMMA HeldOnRoot ==
  ASSUME Inv, NEW k \in 1..Len(held)
  PROVE  held[k] \in RootLits
BY DEF Inv, AssumedOnRoot, RootLits


\* More clauses imply more.
LEMMA ImpliedMore ==
  ASSUME NEW l, NEW n, Implied(l, n), formula \subseteq formula', UNCHANGED held
  PROVE  Implied(l, n)'
BY DEF Implied, ModelsOf

\* A refusal is right: the negation is implied by what holds.
LEMMA RefusalRight ==
  ASSUME Inv, NEW l \in Lit, -l \in RootLits, NEW a \in ModelsOf(formula),
         \A k \in 1..Len(held) : Holds(a, held[k])
  PROVE  ~Holds(a, l)
<1>1. Holds(a, -l)
  BY RootHolds
<1>2. a \in [Var -> BOOLEAN]
  BY DEF ModelsOf
<1> QED BY <1>1, <1>2, HoldsNegated

\* What holds of the set of assumptions holds of each.
LEMMA SetOfHeld ==
  ASSUME Types, NEW a, \A l \in SetOf(held) : Holds(a, l)
  PROVE  \A k \in 1..Len(held) : Holds(a, held[k])
BY DEF SetOf, Types

-----------------------------------------------------------------------------
\* The initial states satisfy the invariant.
LEMMA InitInv == Init => Inv
<1> SUFFICES ASSUME Init PROVE Inv
  OBVIOUS
<1> USE DEF Init
<1>1. Types
  <2>1. held \in Seq(Lit) /\ marks \in Seq(Nat) /\ Len(marks) = Len(held)
    OBVIOUS
  <2>2. formula \in SUBSET SUBSET Lit /\ asked \in SUBSET Lit
        /\ root \in SUBSET [lit : Lit, at : Nat, unit : BOOLEAN]
    OBVIOUS
  <2>3. busy \in BOOLEAN /\ answer \in {"none", "SAT", "UNSAT"}
    OBVIOUS
  <2> QED BY <2>1, <2>2, <2>3 DEF Types
<1>2. RootImplied /\ MarksOrdered /\ AssumedOnRoot /\ UnitsKept
  BY DEF RootImplied, MarksOrdered, AssumedOnRoot, UnitsKept
<1> QED BY <1>1, <1>2 DEF Inv, UnsatRight, SatRight

\* A clause of two or more literals is kept.
LEMMA AddLongInv ==
  ASSUME Inv, NEW cs \in SUBSET SUBSET Lit, AddLong(cs)
  PROVE  Inv'
<1> USE DEF Inv
<1>0. formula' = formula \cup cs /\ UNCHANGED <<root, held, marks, lost>>
      /\ answer' = "none" /\ busy' = busy /\ ~busy /\ asked' = SetOf(held)
  BY DEF AddLong
<1>1. Types'
  BY <1>0 DEF Types, SetOf
<1>2. RootImplied'
  BY <1>0, ImpliedMore DEF RootImplied
<1>3. MarksOrdered' /\ AssumedOnRoot'
  BY <1>0 DEF MarksOrdered, AssumedOnRoot
<1>4. UnitsKept'
  <2>1. \A c \in cs : c # {} /\ \A l \in Lit : c # Unit(l)
    BY DEF AddLong, IsLong, IsUnit
  <2> QED BY <1>0, <2>1 DEF UnitsKept
<1> QED BY <1>0, <1>1, <1>2, <1>3, <1>4 DEF UnsatRight, SatRight

\* A unit clause goes to level 0.
LEMMA AddUnitInv ==
  ASSUME Inv, NEW l \in Lit, AddUnit(l)
  PROVE  Inv'
<1> USE DEF Inv
<1>m. PICK n \in 0..Len(held) : n = Mark(Len(held))
  <2>1. Len(held) \in 0..Len(held)
    BY DEF Types
  <2> QED BY <2>1, MarkType
<1>n. n = 0 \/ (n \in 1..Len(held) /\ marks[n] = n)
  <2>1. Len(held) \in 0..Len(held)
    BY DEF Types
  <2> QED BY <1>m, <2>1, MarkOfMark
<1> DEFINE e == Entry(l, n, TRUE)
<1>0. /\ formula' = formula \cup {Unit(l)} /\ UNCHANGED <<held, marks, busy>>
      /\ ~busy /\ asked' = SetOf(held)
      /\ root' = root \/ root' = root \cup {e}
  BY <1>m DEF AddUnit
<1>1. Types'
  <2>1. e \in [lit : Lit, at : Nat, unit : BOOLEAN]
    BY <1>m DEF Entry, Types
  <2>2. answer' \in {"none", "SAT", "UNSAT"} /\ Unit(l) \in SUBSET Lit
    BY DEF AddUnit, Unit
  <2>3. formula' \in SUBSET SUBSET Lit /\ asked' \in SUBSET Lit
    BY <1>0, <2>2 DEF Types, SetOf
  <2>4. root' \in SUBSET [lit : Lit, at : Nat, unit : BOOLEAN]
    BY <1>0, <2>1 DEF Types
  <2> QED BY <1>0, <2>2, <2>3, <2>4 DEF Types
<1>2. RootImplied'
  <2>1. ASSUME NEW r \in root
        PROVE  /\ r.at = 0 \/ (r.at \in 1..Len(held)' /\ marks'[r.at] = r.at)
               /\ Implied(r.lit, r.at)'
               /\ r.unit => Unit(r.lit) \in formula'
    BY <1>0, ImpliedMore DEF RootImplied
  <2>2. Implied(l, n)'
    BY <1>0, UnitHolds DEF Implied, ModelsOf
  <2>3. e.lit = l /\ e.at = n
    BY DEF Entry
  <2>5. /\ e.at = 0 \/ (e.at \in 1..Len(held)' /\ marks'[e.at] = e.at)
        /\ Implied(e.lit, e.at)'
        /\ Unit(e.lit) \in formula'
    BY <1>0, <1>n, <2>2, <2>3
  <2>6. \A r \in root' : r \in root \/ r = e
    BY <1>0
  <2> QED BY <2>1, <2>5, <2>6 DEF RootImplied
<1>3. MarksOrdered' /\ AssumedOnRoot'
  BY <1>0 DEF MarksOrdered, AssumedOnRoot
<1>4. UnitsKept'
  <2> SUFFICES ASSUME lost' = {}
               PROVE  /\ {} \notin formula'
                      /\ \A k \in Lit : Unit(k) \in formula' =>
                           \E r \in root' : r.lit = k /\ r.at = 0
    BY DEF UnitsKept
  <2>1. lost = {} /\ held = <<>> /\ -l \notin RootLits
    BY DEF AddUnit
  <2>2. {} # Unit(l) /\ \A k : Unit(k) = Unit(l) => k = l
    BY DEF Unit
  <2>3. \E r \in root' : r.lit = l /\ r.at = 0
    <3>1. CASE l \in RootLits
      <4>1. PICK r \in root : r.lit = l
        BY <3>1 DEF RootLits
      <4>2. r.at = 0
        BY <2>1 DEF RootImplied
      <4> QED BY <1>0, <4>1, <4>2
    <3>2. CASE l \notin RootLits
      <4>1. e \in root' /\ e.lit = l /\ e.at = 0
        BY <2>1, <3>2, <1>m DEF AddUnit, Entry, Mark
      <4> QED BY <4>1
    <3> QED BY <3>1, <3>2
  <2> QED BY <1>0, <2>1, <2>2, <2>3 DEF UnitsKept
<1>5. UnsatRight'
  <2> SUFFICES ASSUME answer' = "UNSAT", NEW a \in ModelsOf(formula'),
                      \A k \in SetOf(held) : Holds(a, k)
               PROVE  FALSE
    BY <1>0 DEF UnsatRight, Consistent
  <2>1. -l \in RootLits
    BY DEF AddUnit
  <2>2. a \in ModelsOf(formula) /\ Holds(a, l)
    BY <1>0, UnitHolds DEF ModelsOf
  <2> QED BY <2>1, <2>2, SetOfHeld, RefusalRight
<1>6. SatRight'
  BY DEF AddUnit, SatRight
<1> QED BY <1>0, <1>1, <1>2, <1>3, <1>4, <1>5, <1>6

\* The empty clause is refused.
LEMMA AddEmptyInv ==
  ASSUME Inv, AddEmpty
  PROVE  Inv'
<1> USE DEF Inv
<1>0. /\ formula' = formula \cup {{}} /\ UNCHANGED <<root, held, marks, busy>>
      /\ ~busy /\ asked' = SetOf(held) /\ answer' = "UNSAT" /\ lost' # {}
  BY DEF AddEmpty
<1>1. Types'
  BY <1>0 DEF Types, SetOf
<1>2. RootImplied'
  BY <1>0, ImpliedMore DEF RootImplied
<1>3. MarksOrdered' /\ AssumedOnRoot' /\ UnitsKept' /\ SatRight'
  BY <1>0 DEF MarksOrdered, AssumedOnRoot, UnitsKept, SatRight
<1>4. UnsatRight'
  <2>1. \A a : ~Satisfies(a, {})
    BY DEF Satisfies
  <2>2. {} \in formula'
    BY <1>0
  <2> QED BY <2>1, <2>2 DEF UnsatRight, Consistent, ModelsOf
<1> QED BY <1>0, <1>1, <1>2, <1>3, <1>4

\* An assumption that is on level 0 already is not put on the trail again; its
\* mark is that of the assumption below.
LEMMA PushInv ==
  ASSUME Inv, NEW p \in Lit, PushAssumption(p)
  PROVE  Inv'
<1> USE DEF Inv
<1>0. ~busy /\ UNCHANGED <<formula, busy, lost>> /\ Len(held) \in Nat
  BY DEF PushAssumption, Types
<1>1. CASE -p \in RootLits
  <2>0. /\ UNCHANGED <<root, held, marks>>
        /\ asked' = SetOf(held) \cup {p} /\ answer' = "UNSAT"
    BY <1>1 DEF PushAssumption
  <2>1. Types'
    BY <1>0, <2>0 DEF Types, SetOf
  <2>2. RootImplied' /\ MarksOrdered' /\ AssumedOnRoot' /\ UnitsKept' /\ SatRight'
    BY <1>0, <2>0, ImpliedMore
    DEF RootImplied, MarksOrdered, AssumedOnRoot, UnitsKept, SatRight
  <2>3. UnsatRight'
    <3> SUFFICES ASSUME NEW a \in ModelsOf(formula),
                        \A k \in SetOf(held) \cup {p} : Holds(a, k)
                 PROVE  FALSE
      BY <1>0, <2>0 DEF UnsatRight, Consistent
    <3> QED BY <1>1, SetOfHeld, RefusalRight
  <2> QED BY <1>0, <2>0, <2>1, <2>2, <2>3
<1>2. CASE -p \notin RootLits
  <2> DEFINE top == Len(held) + 1
  <2>0. /\ asked' = {} /\ answer' = "none" /\ held' = Append(held, p)
        /\ Len(held') = top /\ held'[top] = p
        /\ \A k \in 1..Len(held) : held'[k] = held[k]
    <3>1. asked' = {} /\ answer' = "none" /\ held' = Append(held, p)
      BY <1>2 DEF PushAssumption
    <3>2. held \in Seq(Lit)
      BY DEF Types
    <3> QED BY <3>1, <3>2
  <2>m. PICK n \in 0..top : n = IF p \in RootLits THEN Mark(Len(held)) ELSE top
    <3>1. Len(held) \in 0..Len(held)
      BY <1>0
    <3> QED BY <1>0, <3>1, MarkType
  <2>1. /\ marks' = Append(marks, n) /\ Len(marks') = top /\ marks'[top] = n
        /\ \A k \in 1..Len(held) : marks'[k] = marks[k]
        /\ root' = IF p \in RootLits THEN root
                   ELSE root \cup {Entry(p, top, FALSE)}
    <3>1. /\ marks' = Append(marks, n)
          /\ root' = IF p \in RootLits THEN root
                     ELSE root \cup {Entry(p, top, FALSE)}
      BY <1>2, <2>m DEF PushAssumption
    <3>2. marks \in Seq(Nat) /\ Len(marks) = Len(held) /\ n \in Nat
      BY <1>0, <2>m DEF Types
    <3> QED BY <3>1, <3>2
  <2>2. Types'
    <3>1. held' \in Seq(Lit) /\ marks' \in Seq(Nat) /\ Len(marks') = Len(held')
      BY <1>0, <2>0, <2>1 DEF Types
    <3>2. root' \in SUBSET [lit : Lit, at : Nat, unit : BOOLEAN]
      <4>1. Entry(p, top, FALSE) \in [lit : Lit, at : Nat, unit : BOOLEAN]
        BY <1>0 DEF Entry
      <4>2. root' = root \/ root' = root \cup {Entry(p, top, FALSE)}
        BY <2>1
      <4> QED BY <4>1, <4>2 DEF Types
    <3> QED BY <1>0, <2>0, <3>1, <3>2 DEF Types
  <2>3. ASSUME NEW r \in root
        PROVE  /\ r.at = 0 \/ (r.at \in 1..top /\ marks'[r.at] = r.at)
               /\ Implied(r.lit, r.at)'
               /\ r.unit => Unit(r.lit) \in formula'
    <3>1. /\ r.at = 0 \/ (r.at \in 1..Len(held) /\ marks[r.at] = r.at)
          /\ Implied(r.lit, r.at) /\ (r.unit => Unit(r.lit) \in formula)
      BY DEF RootImplied
    <3>2. \A k \in 1..r.at : held'[k] = held[k]
      BY <1>0, <2>0, <3>1
    <3>3. Implied(r.lit, r.at)'
      BY <1>0, <3>1, <3>2 DEF Implied, ModelsOf
    <3> QED BY <1>0, <2>1, <3>1, <3>3
  <2>4. RootImplied'
    <3>1. CASE p \in RootLits
      BY <2>0, <2>1, <2>3, <3>1 DEF RootImplied
    <3>2. CASE p \notin RootLits
      <4> DEFINE e == Entry(p, top, FALSE)
      <4>1. e.lit = p /\ e.at = top /\ e.unit = FALSE
        BY DEF Entry
      <4>2. n = top /\ root' = root \cup {e}
        BY <2>m, <2>1, <3>2
      <4>3. ASSUME NEW a, \A k \in 1..top : Holds(a, held'[k])
            PROVE  Holds(a, p)
        <5>1. top \in 1..top
          BY <1>0
        <5> QED BY <2>0, <4>3, <5>1
      <4>4. \A k \in {top} : Implied(p, k)'
        BY <4>3 DEF Implied
      <4>5. \A r \in root' : r \in root \/ (r.lit = p /\ r.at = top /\ r.unit = FALSE)
        BY <4>1, <4>2
      <4>6. top \in 1..top /\ marks'[top] = top
        BY <1>0, <2>1, <4>2
      <4> QED BY <2>0, <2>3, <4>4, <4>5, <4>6 DEF RootImplied
    <3> QED BY <3>1, <3>2
  <2>5. MarksOrdered'
    <3>1. ASSUME NEW k \in 1..Len(held)
          PROVE  /\ marks'[k] \in 0..k
                 /\ \A j \in 1..k : /\ marks'[j] <= marks'[k]
                                    /\ marks'[k] <= j => marks'[j] = marks'[k]
      BY <1>0, <2>1 DEF MarksOrdered
    <3>2. ASSUME NEW j \in 1..Len(held)
          PROVE  marks[j] <= n /\ (n <= j => marks[j] = n)
      <4>1. CASE p \in RootLits
        <5>1. n = marks[Len(held)] /\ Len(held) \in 1..Len(held)
          BY <1>0, <2>m, <4>1 DEF Mark
        <5> QED BY <1>0, <5>1 DEF MarksOrdered
      <4>2. CASE p \notin RootLits
        <5>1. n = top /\ marks[j] \in 0..j
          BY <2>m, <4>2 DEF MarksOrdered
        <5> QED BY <1>0, <5>1
      <4> QED BY <4>1, <4>2
    <3>3. \A j \in 1..top : j \in 1..Len(held) \/ j = top
      BY <1>0
    <3>4. \A j \in 1..top : marks'[j] <= n /\ (n <= j => marks'[j] = n)
      BY <2>1, <3>2, <3>3
    <3>5. \A k \in 1..top : k \in 1..Len(held) \/ k = top
      BY <1>0
    <3> QED BY <2>0, <2>1, <3>1, <3>4, <3>5 DEF MarksOrdered
  <2>6. AssumedOnRoot'
    <3>1. ASSUME NEW k \in 1..Len(held)
          PROVE  \E r \in root' : r.lit = held'[k] /\ r.at <= marks'[k]
      BY <2>0, <2>1 DEF AssumedOnRoot
    <3>2. \E r \in root' : r.lit = p /\ r.at <= n
      <4>1. CASE p \in RootLits
        <5>1. PICK r \in root : r.lit = p
          BY <4>1 DEF RootLits
        <5>2. r.at = 0 \/ (r.at \in 1..Len(held) /\ marks[r.at] = r.at)
          BY DEF RootImplied
        <5>0. r \in root' /\ n \in Nat
          BY <1>0, <2>1, <2>m, <4>1
        <5>3. CASE r.at = 0
          BY <5>0, <5>1, <5>3
        <5>4. CASE r.at \in 1..Len(held) /\ marks[r.at] = r.at
          <6>1. n = marks[Len(held)] /\ Len(held) \in 1..Len(held)
            BY <1>0, <2>m, <4>1, <5>4 DEF Mark
          <6>2. marks[r.at] <= marks[Len(held)]
            BY <5>4, <6>1 DEF MarksOrdered
          <6> QED BY <5>0, <5>1, <5>4, <6>1, <6>2
        <5> QED BY <5>2, <5>3, <5>4
      <4>2. CASE p \notin RootLits
        <5>1. Entry(p, top, FALSE) \in root' /\ n = top
          BY <2>1, <2>m, <4>2
        <5>2. Entry(p, top, FALSE).lit = p /\ Entry(p, top, FALSE).at = top
          BY DEF Entry
        <5>3. top <= n
          BY <1>0, <5>1
        <5> QED BY <5>1, <5>2, <5>3
      <4> QED BY <4>1, <4>2
    <3>3. \A k \in 1..top : k \in 1..Len(held) \/ k = top
      BY <1>0
    <3>4. \E r \in root' : r.lit = held'[top] /\ r.at <= marks'[top]
      BY <2>0, <2>1, <3>2
    <3>5. \A k \in 1..top : \E r \in root' : r.lit = held'[k] /\ r.at <= marks'[k]
      BY <3>1, <3>3, <3>4
    <3> QED BY <2>0, <3>5 DEF AssumedOnRoot
  <2>7. UnitsKept' /\ UnsatRight' /\ SatRight'
    BY <1>0, <2>0, <2>1 DEF UnitsKept, UnsatRight, SatRight
  <2> QED BY <1>0, <2>2, <2>4, <2>5, <2>6, <2>7
<1> QED BY <1>1, <1>2

\* The first n of a sequence.
LEMMA FirstOf ==
  ASSUME NEW X, NEW s \in Seq(X), NEW n \in 0..Len(s)
  PROVE  /\ SubSeq(s, 1, n) \in Seq(X) /\ Len(SubSeq(s, 1, n)) = n
         /\ \A k \in 1..n : SubSeq(s, 1, n)[k] = s[k]
OBVIOUS

\* Popping keeps what is below, and puts the unit clauses above it there again.
LEMMA PopInv ==
  ASSUME Inv, NEW num \in 1..Len(held), PopAssumptions(num)
  PROVE  Inv'
<1> USE DEF Inv
<1>l. held \in Seq(Lit) /\ marks \in Seq(Nat) /\ Len(marks) = Len(held)
      /\ Len(held) \in Nat
  BY DEF Types
<1>n. PICK n \in 0..Len(held) : n = Len(held) - num /\ n < Len(held)
  <2>1. Len(held) - num \in 0..Len(held) /\ Len(held) - num < Len(held)
    BY <1>l
  <2> QED BY <2>1
<1> DEFINE below == {r \in root : r.at <= n}
           units == {r.lit : r \in {e \in root \ below : e.unit}}
<1>m. PICK m \in 0..n : m = Mark(n) /\ (m = 0 \/ (m \in 1..n /\ marks[m] = m))
  <2>1. Mark(n) \in 0..n
    BY MarkType
  <2>2. Mark(n) = 0 \/ (Mark(n) \in 1..Len(held) /\ marks[Mark(n)] = Mark(n))
    BY MarkOfMark
  <2> QED BY <2>1, <2>2
<1>0. /\ ~busy /\ UNCHANGED <<formula, busy, lost>>
      /\ asked' = {} /\ answer' = "none"
      /\ root' = below \cup {Entry(l, m, FALSE) : l \in units}
      /\ held' = SubSeq(held, 1, n) /\ marks' = SubSeq(marks, 1, n)
  BY <1>n, <1>m DEF PopAssumptions
<1>1. /\ Len(held') = n /\ Len(marks') = n /\ held' \in Seq(Lit) /\ marks' \in Seq(Nat)
      /\ \A k \in 1..n : held'[k] = held[k] /\ marks'[k] = marks[k]
  <2>1. held' = SubSeq(held, 1, n) /\ marks' = SubSeq(marks, 1, n)
    BY <1>0
  <2>2. /\ SubSeq(held, 1, n) \in Seq(Lit) /\ Len(SubSeq(held, 1, n)) = n
        /\ \A k \in 1..n : SubSeq(held, 1, n)[k] = held[k]
    BY <1>l, FirstOf
  <2>3. /\ SubSeq(marks, 1, n) \in Seq(Nat) /\ Len(SubSeq(marks, 1, n)) = n
        /\ \A k \in 1..n : SubSeq(marks, 1, n)[k] = marks[k]
    <3>1. n \in 0..Len(marks)
      BY <1>l
    <3>2. QED BY <1>l, <3>1, FirstOf
  <2> QED BY <2>1, <2>2, <2>3
<1>2. ASSUME NEW r \in root'
      PROVE  \/ r \in root /\ r.at <= n
             \/ /\ r.at = m /\ r.unit = FALSE /\ r.lit \in Lit
                /\ Unit(r.lit) \in formula
  <2>1. CASE r \in below
    BY <2>1
  <2>2. CASE r \notin below
    <3>1. PICK l \in units : r = Entry(l, m, FALSE)
      BY <1>0, <2>2
    <3>2. PICK e \in root : e.unit /\ e.lit = l
      BY <3>1
    <3>3. l \in Lit /\ Unit(l) \in formula
      BY <3>2 DEF Types, RootImplied
    <3> QED BY <3>1, <3>3 DEF Entry
  <2> QED BY <2>1, <2>2
<1>3. Types'
  <2>1. root' \in SUBSET [lit : Lit, at : Nat, unit : BOOLEAN]
    <3>1. units \subseteq Lit
      BY DEF Types
    <3>2. \A l \in units : Entry(l, m, FALSE) \in [lit : Lit, at : Nat, unit : BOOLEAN]
      BY <3>1 DEF Entry
    <3> QED BY <1>0, <3>2 DEF Types
  <2> QED BY <1>0, <1>1, <2>1 DEF Types
<1>4. RootImplied'
  <2> SUFFICES ASSUME NEW r \in root'
               PROVE  /\ r.at = 0 \/ (r.at \in 1..n /\ marks'[r.at] = r.at)
                      /\ Implied(r.lit, r.at)'
                      /\ r.unit => Unit(r.lit) \in formula
    BY <1>0, <1>1 DEF RootImplied
  <2>1. CASE r \in root /\ r.at <= n
    <3>1. /\ r.at = 0 \/ (r.at \in 1..Len(held) /\ marks[r.at] = r.at)
          /\ Implied(r.lit, r.at) /\ (r.unit => Unit(r.lit) \in formula)
      BY <2>1 DEF RootImplied
    <3>2. r.at = 0 \/ r.at \in 1..n
      BY <2>1, <3>1
    <3>3. \A k \in 1..r.at : held'[k] = held[k]
      BY <1>1, <3>2
    <3>4. Implied(r.lit, r.at)'
      BY <1>0, <3>1, <3>3 DEF Implied
    <3> QED BY <1>1, <3>1, <3>2, <3>4
  <2>2. CASE r.at = m /\ r.unit = FALSE /\ Unit(r.lit) \in formula
    <3>1. Implied(r.lit, r.at)'
      BY <1>0, <2>2, UnitHolds DEF Implied, ModelsOf
    <3> QED BY <1>1, <1>m, <2>2, <3>1
  <2> QED BY <1>2, <2>1, <2>2
<1>5. MarksOrdered'
  <2> SUFFICES ASSUME NEW k \in 1..n
               PROVE  /\ marks'[k] \in 0..k
                      /\ \A j \in 1..k : /\ marks'[j] <= marks'[k]
                                         /\ marks'[k] <= j => marks'[j] = marks'[k]
    BY <1>1 DEF MarksOrdered
  <2>1. k \in 1..Len(held) /\ marks'[k] = marks[k]
    BY <1>1, <1>l
  <2>2. \A j \in 1..k : marks'[j] = marks[j]
    BY <1>1
  <2> QED BY <2>1, <2>2 DEF MarksOrdered
<1>6. AssumedOnRoot'
  <2> SUFFICES ASSUME NEW k \in 1..n
               PROVE  \E r \in root' : r.lit = held[k] /\ r.at <= marks[k]
    BY <1>1 DEF AssumedOnRoot
  <2>1. PICK r \in root : r.lit = held[k] /\ r.at <= marks[k]
    BY DEF AssumedOnRoot
  <2>2. marks[k] \in 0..k /\ r.at \in Nat
    BY DEF MarksOrdered, Types
  <2>3. r.at <= n
    BY <2>1, <2>2
  <2> QED BY <1>0, <2>1, <2>3
<1>7. UnitsKept'
  <2> SUFFICES ASSUME lost = {}, NEW l \in Lit, Unit(l) \in formula
               PROVE  \E r \in root' : r.lit = l /\ r.at = 0
    BY <1>0 DEF UnitsKept
  <2>1. PICK r \in root : r.lit = l /\ r.at = 0
    BY DEF UnitsKept
  <2>2. r \in below
    BY <1>n, <2>1
  <2> QED BY <1>0, <2>1, <2>2
<1> QED BY <1>0, <1>3, <1>4, <1>5, <1>6, <1>7 DEF UnsatRight, SatRight

\* A search begins.
LEMMA SolveInv ==
  ASSUME Inv, Solve
  PROVE  Inv'
<1> USE DEF Inv
<1>0. /\ UNCHANGED <<formula, root, held, marks, lost>> /\ asked' = SetOf(held)
      /\ busy' \in BOOLEAN
      /\ answer' = "none" \/ (answer' = "UNSAT" /\ {} \in formula)
  BY DEF Solve, Types
<1>1. Types'
  BY <1>0 DEF Types, SetOf
<1>2. RootImplied' /\ MarksOrdered' /\ AssumedOnRoot' /\ UnitsKept' /\ SatRight'
  BY <1>0, ImpliedMore
  DEF RootImplied, MarksOrdered, AssumedOnRoot, UnitsKept, SatRight
<1>3. UnsatRight'
  <2>1. \A a : ~Satisfies(a, {})
    BY DEF Satisfies
  <2> QED BY <1>0, <2>1 DEF UnsatRight, Consistent, ModelsOf
<1>4. SetOf(held)' = SetOf(held)
  BY <1>0 DEF SetOf
<1> QED BY <1>0, <1>1, <1>2, <1>3, <1>4

\* Level 0 grows by what is implied.
LEMMA DeduceInv ==
  ASSUME Inv, NEW X \in SUBSET Lit, Deduce(X)
  PROVE  Inv'
<1> USE DEF Inv
<1>n. Len(held) \in 0..Len(held)
  BY DEF Types
<1>m. PICK m \in 0..Len(held) :
        /\ m = Mark(Len(held))
        /\ m = 0 \/ (m \in 1..Len(held) /\ marks[m] = m)
  BY <1>n, MarkType, MarkOfMark
<1>0. /\ UNCHANGED <<formula, held, marks, asked, busy, answer, lost>>
      /\ root' = root \cup {Entry(l, m, FALSE) : l \in X \ RootLits}
  BY <1>m DEF Deduce
<1>1. ASSUME NEW l \in X PROVE Implied(l, m)
  BY <1>n, <1>m, MarkImplies DEF Deduce
<1>2. ASSUME NEW r \in root'
      PROVE  r \in root \/ (r.lit \in X /\ r.at = m /\ r.unit = FALSE)
  BY <1>0 DEF Entry
<1>3. Types'
  <2>1. \A l \in X : Entry(l, m, FALSE) \in [lit : Lit, at : Nat, unit : BOOLEAN]
    BY DEF Entry
  <2> QED BY <1>0, <2>1 DEF Types
<1>4. RootImplied'
  <2>1. ASSUME NEW l, NEW n, Implied(l, n) PROVE Implied(l, n)'
    BY <1>0, <2>1, ImpliedMore
  <2> QED BY <1>0, <1>1, <1>2, <1>m, <2>1 DEF RootImplied
<1>5. MarksOrdered' /\ AssumedOnRoot' /\ UnitsKept'
  BY <1>0 DEF MarksOrdered, AssumedOnRoot, UnitsKept
<1>6. UnsatRight' /\ SatRight' /\ (busy' => asked' = SetOf(held)')
  BY <1>0 DEF UnsatRight, SatRight, SetOf
<1> QED BY <1>3, <1>4, <1>5, <1>6

\* The search ends with an answer.
LEMMA AnswerInv ==
  ASSUME Inv, AnswerUnsat \/ \E a \in ModelsOf({}) : AnswerSat(a)
  PROVE  Inv'
<1> USE DEF Inv
<1>0. /\ UNCHANGED <<formula, root, held, marks, asked, lost>> /\ busy' = FALSE
      /\ answer' \in {"SAT", "UNSAT"} /\ busy
  BY DEF AnswerUnsat, AnswerSat
<1>1. Types' /\ MarksOrdered' /\ AssumedOnRoot' /\ UnitsKept'
  BY <1>0 DEF Types, MarksOrdered, AssumedOnRoot, UnitsKept
<1>2. RootImplied'
  BY <1>0, ImpliedMore DEF RootImplied
<1>3. UnsatRight'
  BY <1>0 DEF UnsatRight, AnswerUnsat, AnswerSat
<1>4. SatRight'
  <2> SUFFICES ASSUME answer' = "SAT", lost = {}
               PROVE  Consistent(formula, SetOf(held))
    BY <1>0 DEF SatRight
  <2>1. PICK a : a \in ModelsOf(Kept) /\ \A l \in RootLits : Holds(a, l)
    BY DEF AnswerUnsat, AnswerSat
  <2>2. ASSUME NEW c \in formula PROVE Satisfies(a, c)
    <3>1. CASE c \in Kept
      BY <2>1, <3>1 DEF ModelsOf
    <3>2. CASE c \notin Kept
      <4>1. c # {}
        BY DEF UnitsKept
      <4>2. PICK l \in Lit : c = Unit(l)
        BY <3>2, <4>1 DEF Kept, IsLong, IsUnit
      <4>3. l \in RootLits
        BY <4>2 DEF UnitsKept, RootLits
      <4> QED BY <2>1, <4>2, <4>3, UnitHolds
    <3> QED BY <3>1, <3>2
  <2>3. a \in ModelsOf(formula)
    BY <2>1, <2>2 DEF ModelsOf
  <2>4. \A l \in SetOf(held) : Holds(a, l)
    BY <2>1, HeldOnRoot DEF SetOf, Types
  <2> QED BY <2>3, <2>4 DEF Consistent
<1> QED BY <1>0, <1>1, <1>2, <1>3, <1>4

-----------------------------------------------------------------------------
\* Every step keeps the invariant.
LEMMA NextInv == Inv /\ [Next]_vars => Inv'
<1> SUFFICES ASSUME Inv, [Next]_vars PROVE Inv'
  OBVIOUS
<1>1. ASSUME NEW c \in Clauses, IsLong(c), AddLong({c}) PROVE Inv'
  <2>1. {c} \in SUBSET SUBSET Lit
    BY InterfaceAssumption
  <2> QED BY <1>1, <2>1, AddLongInv
<1>2. ASSUME NEW l \in Lit, AddUnit(l) PROVE Inv'
  BY <1>2, AddUnitInv
<1>3. CASE AddEmpty
  BY <1>3, AddEmptyInv
<1>4. ASSUME NEW p \in Queries, PushAssumption(p) PROVE Inv'
  BY <1>4, PushInv, InterfaceAssumption
<1>5. ASSUME NEW num \in 1..Len(held), PopAssumptions(num) PROVE Inv'
  BY <1>5, PopInv
<1>6. CASE Solve
  BY <1>6, SolveInv
<1>7. ASSUME NEW X \in SUBSET Lit, Deduce(X) PROVE Inv'
  BY <1>7, DeduceInv
<1>8. CASE AnswerUnsat \/ \E a \in ModelsOf({}) : AnswerSat(a)
  BY <1>8, AnswerInv
<1>9. CASE UNCHANGED vars
  <2>1. \A l, n : Implied(l, n) => Implied(l, n)'
    BY <1>9 DEF vars, Implied
  <2>2. Types' /\ RootImplied' /\ MarksOrdered'
    BY <1>9, <2>1 DEF vars, Inv, Types, RootImplied, MarksOrdered
  <2>3. AssumedOnRoot' /\ UnitsKept' /\ UnsatRight' /\ SatRight'
    BY <1>9 DEF vars, Inv, AssumedOnRoot, UnitsKept, UnsatRight, SatRight
  <2> QED BY <1>9, <2>2, <2>3 DEF vars, Inv, SetOf
<1> QED BY <1>1, <1>2, <1>3, <1>4, <1>5, <1>6, <1>7, <1>8, <1>9 DEF Next

\* The invariant holds in every reachable state.
LEMMA Invariance == Spec => []Inv
BY InitInv, NextInv, PTL DEF Spec

\* Whatever a client does, funcsat answers "UNSAT" only when no model of the
\* clauses added satisfies the assumptions.
THEOREM UnsatIsRight == Spec => []UnsatRight
<1>1. Inv => UnsatRight
  BY DEF Inv
<1> QED BY <1>1, Invariance, PTL

\* As long as no clause was refused or added under an assumption, the answer
\* "SAT" means that the clauses added have a model in which the assumptions hold.
THEOREM SatIsRight == Spec => []SatRight
<1>1. Inv => SatRight
  BY DEF Inv
<1> QED BY <1>1, Invariance, PTL

-----------------------------------------------------------------------------
(***************************************************************************)
(* The client solve.c.                                                     *)
(***************************************************************************)
P == INSTANCE CircuitsProofs WITH LITERAL_MAX <- MaxVar + 1, ArgsRightToLeft <- TRUE

Asks == {"bfMayBeTrue", "bfMustBeTrue", "bfCheckStatus"}
Literals == Lit \cup G!Constants

\* What is put on the stack of assumptions for literal p.
AssumeOf(p) == IF p = G!LITERAL_TRUE THEN 0 ELSE p

Prefix(s, t) == Len(s) <= Len(t) /\ \A k \in 1..Len(s) : t[k] = s[k]

SolvingTypes ==
  /\ pc \in {"idle", "push", "pop", "ask", "translate", "require", "search"}
  /\ assumps \in Seq(Lit \cup {0}) /\ before \in Seq(Lit \cup {0})
  /\ questions \in Seq(Literals)
  /\ got \in Seq({"SAT", "UNSAT"}) /\ Len(got) <= Len(questions)
  /\ togo \in Nat

\* The graph is well formed, and whatever is asked, assumed or required is about
\* its variables.
GraphOK ==
  /\ P!WF(man) /\ man.outputs \subseteq Lit
  /\ \A k \in DOMAIN assumps : VarOf(assumps[k]) <= man.numVars
  /\ \A k \in DOMAIN before : VarOf(before[k]) <= man.numVars
  /\ \A k \in DOMAIN questions : questions[k] \in Lit => VarOf(questions[k]) <= man.numVars

\* funcsat was only given what the graph says.
FormulaOK ==
  \A c \in formula :
    \/ \E g \in man.ands : c \in GateClauses(g)
    \/ \E o \in man.outputs : c = Unit(-o)

\* The variable of l is an input, or a gate that was translated with all that
\* is below it.
Covered(l) == VarOf(l) \in nodes \cup man.inputs

FlagsOK ==
  /\ required \subseteq man.outputs
  /\ \A v \in nodes : \E g \in man.ands : g.lhs = v
  /\ ~written => \A o \in required : Unit(-o) \in formula /\ Covered(o)
  /\ ~written /\ pc \in {"require", "search"} =>
       /\ \A o \in man.outputs : Covered(o)
       /\ \A l \in Assumed : Covered(l)
  /\ pc = "search" => man.outputs \subseteq required

\* A search is under way exactly while a call waits for its answer.
SolverOK == Inv /\ (busy <=> pc = "search")

\* Between the calls it makes of funcsat, each call knows how far it has got.
IdleOK ==
  /\ pc = "idle"
  /\ call \in Asks \cup {"bfSolve"} \/ (call = "bfvPushAssumption" /\ got # <<>>)
  => assumps = before

PushOK ==
  pc = "push" =>
    /\ call = "bfvPushAssumption" /\ got = <<>> /\ Prefix(before, assumps)
    /\ Len(assumps) - Len(before) <= Len(questions)
    /\ \A k \in 1..(Len(assumps) - Len(before)) :
         assumps[Len(before) + k] = AssumeOf(questions[k])

PopOK ==
  pc = "pop" =>
    /\ togo \in 1..Len(assumps)
    /\ \/ call = "bfPopAssumptions" /\ got = <<>>
       \/ /\ Prefix(before, assumps) /\ togo = Len(assumps) - Len(before)
          /\ \/ call = "bfvPushAssumption"
             \/ call \in Asks /\ togo = 1

AskOK ==
  pc = "ask" => call \in Asks /\ assumps = before /\ Len(got) < Len(questions)

SearchOK ==
  pc \in {"translate", "require", "search"} =>
    /\ Len(got) < Len(questions)
    /\ \/ /\ call = "bfSolve" /\ assumps = before /\ questions = <<G!LITERAL_TRUE>>
       \/ /\ call \in Asks /\ Prefix(before, assumps)
          /\ Len(assumps) = Len(before) + 1
          /\ assumps[Len(assumps)] = AssumeOf(questions[Len(got) + 1])

CallOK ==
  /\ call \in Asks \cup {"none", "bfSolve", "bfvPushAssumption", "bfPopAssumptions"}
  /\ call = "bfCheckStatus" => Len(questions) = 2
  /\ IdleOK /\ PushOK /\ PopOK /\ AskOK /\ SearchOK

\* The values the inputs have been given since a translation.
AssignmentOK ==
  aigAssignment # <<>> =>
    /\ DOMAIN aigAssignment \subseteq man.inputs
    /\ \A v \in DOMAIN aigAssignment : aigAssignment[v] \in BOOLEAN
    /\ \A l \in solved.outputs \cup solved.assumed : l \in Lit /\ VarOf(l) <= man.numVars

IInv ==
  /\ SolvingTypes /\ GraphOK /\ FormulaOK /\ FlagsOK /\ SolverOK /\ CallOK
  /\ StacksMatch /\ ConesTranslated /\ UnsatAnswers /\ SatAnswers
  /\ AssignmentOK /\ AssignmentSolves

-----------------------------------------------------------------------------
(***************************************************************************)
(* The graph: what is proved of Circuits, for the literals of funcsat.     *)
(***************************************************************************)
\* The instance of Circuits satisfies the assumptions of its theorems.
LEMMA GraphAssumptions == P!LiteralMaxAssumption /\ P!ArgsAssumption
<1>1. P!LiteralMaxAssumption
  BY MaxVarAssumption DEF P!LiteralMaxAssumption
<1>2. P!ArgsAssumption
  BY DEF P!ArgsAssumption
<1>3. QED BY <1>1, <1>2

\* The literals of funcsat and the constants of the graph are apart.
LEMMA Numbers ==
  /\ MaxVar \in Nat \ {0}
  /\ G!LITERAL_TRUE = MaxVar + 1 /\ G!LITERAL_FALSE = -(MaxVar + 1)
  /\ G!Constants = {MaxVar + 1, -(MaxVar + 1)}
  /\ Lit \cap G!Constants = {}
  /\ \A l \in Lit : l \in Int /\ l # 0 /\ -l \in Lit /\ -(-l) = l /\ VarOf(l) \in 1..MaxVar /\ VarOf(-l) = VarOf(l)
BY MaxVarAssumption DEF G!LITERAL_TRUE, G!LITERAL_FALSE, G!Constants, Lit, VarOf

\* The definitions of Circuits that Solving uses are those its theorems are about.
LEMMA SameNames ==
  /\ P!LITERAL_TRUE = G!LITERAL_TRUE /\ P!LITERAL_FALSE = G!LITERAL_FALSE
  /\ P!Constants = G!Constants
  /\ P!EmptyGraph = G!EmptyGraph
BY DEF P!LITERAL_TRUE, G!LITERAL_TRUE, P!LITERAL_FALSE, G!LITERAL_FALSE,
       P!Constants, G!Constants, P!EmptyGraph, G!EmptyGraph

\* The value of a literal is the one the theorems are about.
LEMMA SameVal ==
  ASSUME NEW s, NEW l
  PROVE  P!Val(s, l) = G!Val(s, l)
BY SameNames DEF P!Val, G!Val

\* So are the constraint and the input a graph gets.
LEMMA SameSet ==
  ASSUME NEW m, NEW a
  PROVE  P!Set(m, a) = G!Set(m, a) /\ P!NewVar(m) = G!NewVar(m)
BY SameNames DEF P!Set, G!Set, P!NewVar, G!NewVar

\* So is the gate it gets.
LEMMA SameNewAnd ==
  ASSUME NEW m, NEW a, NEW b
  PROVE  P!NewAnd(m, a, b) = G!NewAnd(m, a, b)
<1>1. P!Found(m, a, b) = G!Found(m, a, b)
  BY DEF P!Found, G!Found, P!EqualAnd, G!EqualAnd
<1>2. P!AndSimplifies(a, b) = G!AndSimplifies(a, b) /\ P!AndSimplified(a, b) = G!AndSimplified(a, b)
  BY SameNames DEF P!AndSimplifies, G!AndSimplifies, P!AndSimplified, G!AndSimplified
<1>3. P!NewGate(m, a, b) = G!NewGate(m, a, b)
  BY DEF P!NewGate, G!NewGate, P!Result, G!Result, P!AddAnd, G!AddAnd,
         P!HashInsert, G!HashInsert, P!AuxVar, G!AuxVar
<1> QED BY <1>1, <1>2, <1>3 DEF P!NewAnd, G!NewAnd, P!Result, G!Result

\* And so are the values its gates have under given inputs.
LEMMA SameEval ==
  ASSUME NEW m, NEW i
  PROVE  P!Eval(m, i) = G!Eval(m, i)
BY DEF G!Eval, P!Eval, G!Val, P!Val, G!Constants, P!Constants,
  G!LITERAL_TRUE, P!LITERAL_TRUE, G!LITERAL_FALSE, P!LITERAL_FALSE

\* A literal of a graph is a literal for funcsat, or a constant.
LEMMA LitsAre ==
  ASSUME NEW m, P!WF(m)
  PROVE  /\ m.numVars \in 0..MaxVar /\ m.inputs \subseteq Var
         /\ \A l \in Lit : VarOf(l) <= m.numVars => l \in P!LitsOf(m)
         /\ \A v \in m.inputs : v \in 1..m.numVars
         /\ \A g \in m.ands :
              /\ g.lhs \in 1..m.numVars /\ g.rhs0 \in Lit /\ g.rhs1 \in Lit
              /\ VarOf(g.rhs0) < g.lhs /\ VarOf(g.rhs1) < g.lhs
<1>1. P!Lit = Lit /\ P!Var = Var /\ \A l : P!VarOf(l) = VarOf(l)
  BY MaxVarAssumption DEF P!Lit, Lit, P!Var, Var, P!VarOf, VarOf
<1>2. m \in P!Graph /\ P!Ordered(m)
  BY DEF P!WF
<1>3. m.numVars \in 0..MaxVar /\ m.inputs \subseteq Var
  BY <1>1, <1>2, MaxVarAssumption DEF P!Graph
<1>4. \A l \in Lit : VarOf(l) <= m.numVars => l \in P!LitsOf(m)
  BY <1>1 DEF P!LitsOf
<1>5. \A v \in m.inputs : v \in 1..m.numVars
  BY <1>2, <1>3 DEF P!Ordered, Var
<1>6. ASSUME NEW g \in m.ands
      PROVE  /\ g.lhs \in 1..m.numVars /\ g.rhs0 \in Lit /\ g.rhs1 \in Lit
             /\ VarOf(g.rhs0) < g.lhs /\ VarOf(g.rhs1) < g.lhs
  <2>1. g \in [lhs : P!Var, rhs0 : P!Lit, rhs1 : P!Lit]
    BY <1>2 DEF P!Graph
  <2>2. g.lhs \in Var /\ g.rhs0 \in Lit /\ g.rhs1 \in Lit
    BY <1>1, <2>1
  <2>3. g.lhs <= m.numVars /\ VarOf(g.rhs0) < g.lhs /\ VarOf(g.rhs1) < g.lhs
    BY <1>1, <1>2 DEF P!Ordered
  <2>4. QED BY <1>3, <2>2, <2>3 DEF Var
<1>7. QED BY <1>3, <1>4, <1>5, <1>6

\* Graph n is m with more in it: what m says of its variables stays as it is.
Grown(m, n) ==
  /\ P!WF(n) /\ n.outputs \subseteq Lit
  /\ m.numVars <= n.numVars /\ m.outputs \subseteq n.outputs
  /\ m.ands \subseteq n.ands /\ m.inputs \subseteq n.inputs
  /\ \A v \in n.inputs : v <= m.numVars => v \in m.inputs
  /\ \A g \in n.ands : g.lhs <= m.numVars => g \in m.ands

\* An input is new.
LEMMA NewVarGrown ==
  ASSUME NEW m, P!WF(m), m.outputs \subseteq Lit, G!NewVar(m).numVars <= MaxVar
  PROVE  Grown(m, G!NewVar(m))
<1> DEFINE n == G!NewVar(m)
<1>1. m \in P!Graph
  BY DEF P!WF
<1>2. m.numVars \in 0..MaxVar
  BY LitsAre
<1>3. /\ n.numVars = m.numVars + 1 /\ n.inputs = m.inputs \cup {m.numVars + 1}
      /\ n.ands = m.ands /\ n.outputs = m.outputs
  BY <1>1 DEF P!Graph, G!NewVar
<1>4. P!Fits(n)
  BY <1>2, <1>3, MaxVarAssumption DEF P!Fits
<1>5. P!WF(n)
  BY <1>4, GraphAssumptions, SameSet, P!NewVarSound
<1>6. QED BY <1>2, <1>3, <1>5 DEF Grown

\* A gate, if one is added, is new.
LEMMA NewAndGrown ==
  ASSUME NEW m, P!WF(m), m.outputs \subseteq Lit, NEW a \in Lit, NEW b \in Lit,
         VarOf(a) <= m.numVars, VarOf(b) <= m.numVars,
         G!NewAnd(m, a, b).m.numVars <= MaxVar
  PROVE  Grown(m, G!NewAnd(m, a, b).m)
<1> DEFINE r == P!NewAnd(m, a, b)
           n == r.m
<1>0. n = G!NewAnd(m, a, b).m
  BY SameNewAnd
<1>1. a \in P!LitsOf(m) /\ b \in P!LitsOf(m)
  BY LitsAre
<1>2. m \in P!Wide /\ a \in Int /\ b \in Int
  BY GraphAssumptions, P!GraphIsWide, Numbers DEF P!WF
<1>3. n \in P!Wide
  BY <1>2, GraphAssumptions, P!NewAndGrows
<1>4. n.numVars \in Nat
  BY <1>3 DEF P!Wide
<1>5. P!Fits(n)
  BY <1>0, <1>4, MaxVarAssumption DEF P!Fits
<1>6. P!Good(m, r)
  BY <1>1, <1>5, GraphAssumptions, P!NewAndWF
<1>7. P!WF(n) /\ P!Extends(m, n)
  BY <1>6 DEF P!Good
<1>8. /\ m.numVars <= n.numVars /\ m.ands \subseteq n.ands
      /\ m.inputs = n.inputs /\ m.outputs = n.outputs
  BY <1>7 DEF P!Extends
<1>9. ASSUME NEW g \in n.ands, g.lhs <= m.numVars
      PROVE  g \in m.ands
  <2>1. g.lhs \in 1..m.numVars
    BY <1>7, <1>9, LitsAre
  <2>2. g.lhs \notin m.inputs
    BY <1>7, <1>8 DEF P!WF, P!Decided
  <2>3. PICK h \in m.ands : h.lhs = g.lhs
    BY <2>1, <2>2 DEF P!WF, P!Decided
  <2>4. h = g
    BY <1>7, <1>8, <2>3 DEF P!WF, P!Decided
  <2>5. QED BY <2>4
<1> HIDE DEF n
<1>10. Grown(m, n)
  BY <1>7, <1>8, <1>9 DEF Grown
<1>11. QED BY <1>0, <1>10

\* A constraint leaves variables and gates alone.
LEMMA SetGrown ==
  ASSUME NEW m, P!WF(m), m.outputs \subseteq Lit, NEW a \in Lit, VarOf(a) <= m.numVars
  PROVE  Grown(m, G!Set(m, a))
<1> DEFINE n == G!Set(m, a)
<1>1. a \in P!LitsOf(m) /\ m \in P!Graph
  BY LitsAre DEF P!WF
<1>2. P!WF(n)
  BY <1>1, GraphAssumptions, SameSet, P!SetSound
<1>3. a \notin G!Constants /\ -a \in Lit
  BY Numbers
<1>4. /\ n.numVars = m.numVars /\ n.inputs = m.inputs /\ n.ands = m.ands
      /\ n.outputs = m.outputs \cup {-a}
  BY <1>1, <1>3 DEF P!Graph, G!Set
<1>5. m.numVars \in Nat
  BY LitsAre
<1>6. QED BY <1>2, <1>3, <1>4, <1>5 DEF Grown

-----------------------------------------------------------------------------
(***************************************************************************)
(* Clauses and graph.  An assignment of funcsat's variables satisfies the  *)
(* clauses of a gate exactly if it gives the gate its value.               *)
(***************************************************************************)
LEMMA HoldsBoolean ==
  ASSUME NEW a \in [Var -> BOOLEAN], NEW l \in Lit
  PROVE  Holds(a, l) \in BOOLEAN
<1>1. VarOf(l) \in Var
  BY Numbers DEF Var
<1>2. (l > 0 => l \in Var) /\ (~(l > 0) => -l \in Var)
  BY <1>1, Numbers DEF VarOf
<1>3. QED BY <1>2, Zenon DEF Holds

\* An assignment satisfies a gate's clauses when it respects the gate.
LEMMA GateClausesMean ==
  ASSUME NEW a \in [Var -> BOOLEAN], NEW g, g.lhs \in Var, g.rhs0 \in Lit, g.rhs1 \in Lit
  PROVE  (\A c \in GateClauses(g) : Satisfies(a, c)) <=>
           (Holds(a, g.lhs) <=> Holds(a, g.rhs0) /\ Holds(a, g.rhs1))
<1>1. g.lhs \in Lit
  BY MaxVarAssumption DEF Var, Lit
<1>2. /\ Holds(a, -g.lhs) <=> ~Holds(a, g.lhs)
      /\ Holds(a, -g.rhs0) <=> ~Holds(a, g.rhs0)
      /\ Holds(a, -g.rhs1) <=> ~Holds(a, g.rhs1)
  BY <1>1, HoldsNegated
<1>3. Satisfies(a, {-g.rhs0, -g.rhs1, g.lhs}) <=>
        Holds(a, -g.rhs0) \/ Holds(a, -g.rhs1) \/ Holds(a, g.lhs)
  BY DEF Satisfies
<1>4. Satisfies(a, {g.rhs0, -g.lhs}) <=> Holds(a, g.rhs0) \/ Holds(a, -g.lhs)
  BY DEF Satisfies
<1>5. Satisfies(a, {g.rhs1, -g.lhs}) <=> Holds(a, g.rhs1) \/ Holds(a, -g.lhs)
  BY DEF Satisfies
<1>6. (\A c \in GateClauses(g) : Satisfies(a, c)) <=>
        /\ Satisfies(a, {-g.rhs0, -g.rhs1, g.lhs})
        /\ Satisfies(a, {g.rhs0, -g.lhs}) /\ Satisfies(a, {g.rhs1, -g.lhs})
  BY DEF GateClauses
<1>7. QED BY <1>2, <1>3, <1>4, <1>5, <1>6

\* A solution of the graph, with any values for the variables it does not have.
AsAssignment(s) == [v \in Var |-> IF v <= man.numVars THEN s[v] ELSE FALSE]

\* A solution is a model of the graph in which no output is true.
LEMMA SolutionIs ==
  ASSUME P!WF(man), NEW s \in G!Solutions(man)
  PROVE  /\ P!ModelOf(s, man) /\ s \in [1..man.numVars -> BOOLEAN]
         /\ \A o \in man.outputs : o \notin G!Constants /\ ~G!Val(s, o)
<1>1. s \in [1..man.numVars -> BOOLEAN] /\ G!Respects(s, man)
  BY DEF G!Solutions, G!Models
<1>2. P!Respects(s, man)
  BY <1>1, SameVal DEF G!Respects, P!Respects
<1>3. P!Covers(s, man)
  BY <1>1 DEF P!Covers
<1>4. QED BY <1>1, <1>2, <1>3 DEF P!ModelOf, G!Solutions

\* A valuation of the graph and the assignment made of it agree on its literals.
LEMMA AssignmentAgrees ==
  ASSUME P!WF(man), NEW s, s \in [1..man.numVars -> BOOLEAN]
  PROVE  /\ AsAssignment(s) \in [Var -> BOOLEAN]
         /\ \A l \in Lit : VarOf(l) <= man.numVars =>
              (Holds(AsAssignment(s), l) <=> G!Val(s, l))
<1>0. man.numVars \in 0..MaxVar
  BY LitsAre
<1>1. \A v \in Var : v <= man.numVars => v \in 1..man.numVars
  BY <1>0 DEF Var
<1>2. AsAssignment(s) \in [Var -> BOOLEAN]
  BY <1>1 DEF AsAssignment
<1>3. ASSUME NEW l \in Lit, VarOf(l) <= man.numVars
      PROVE  Holds(AsAssignment(s), l) <=> G!Val(s, l)
  <2>1. l \notin G!Constants
    BY Numbers
  <2>2. \A v \in Var : v <= man.numVars => AsAssignment(s)[v] = s[v]
    BY DEF AsAssignment
  <2>3. CASE l > 0
    <3>1. AsAssignment(s)[l] = s[l]
      BY <1>3, <2>2, <2>3, Numbers DEF VarOf, Var
    <3>2. QED BY <2>1, <2>3, <3>1 DEF Holds, G!Val
  <2>4. CASE ~(l > 0)
    <3>1. AsAssignment(s)[-l] = s[-l]
      BY <1>3, <2>2, <2>4, Numbers DEF VarOf, Var
    <3>2. QED BY <2>1, <2>4, <3>1 DEF Holds, G!Val
  <2>5. QED BY <2>3, <2>4
<1>4. QED BY <1>2, <1>3

\* A solution of the graph satisfies all that funcsat was given.
LEMMA SolutionSatisfies ==
  ASSUME P!WF(man), man.outputs \subseteq Lit, FormulaOK, NEW s \in G!Solutions(man)
  PROVE  AsAssignment(s) \in ModelsOf(formula)
<1> DEFINE a == AsAssignment(s)
<1>1. /\ P!ModelOf(s, man) /\ s \in [1..man.numVars -> BOOLEAN]
      /\ \A o \in man.outputs : ~G!Val(s, o)
  BY SolutionIs
<1>2. /\ a \in [Var -> BOOLEAN]
      /\ \A l \in Lit : VarOf(l) <= man.numVars => (Holds(a, l) <=> G!Val(s, l))
  BY <1>1, AssignmentAgrees
<1> HIDE DEF a
<1>3. ASSUME NEW g \in man.ands
      PROVE  \A c \in GateClauses(g) : Satisfies(a, c)
  <2>1. /\ g.lhs \in 1..man.numVars /\ g.rhs0 \in Lit /\ g.rhs1 \in Lit
        /\ VarOf(g.rhs0) < g.lhs /\ VarOf(g.rhs1) < g.lhs
        /\ man.numVars \in 0..MaxVar
    BY LitsAre
  <2>2. g.lhs \in Var /\ g.lhs \in Lit /\ VarOf(g.lhs) = g.lhs
    BY <2>1, MaxVarAssumption DEF Var, Lit, VarOf
  <2>3. VarOf(g.rhs0) <= man.numVars /\ VarOf(g.rhs1) <= man.numVars
    BY <2>1, Numbers
  <2>4. /\ Holds(a, g.lhs) <=> G!Val(s, g.lhs)
        /\ Holds(a, g.rhs0) <=> G!Val(s, g.rhs0)
        /\ Holds(a, g.rhs1) <=> G!Val(s, g.rhs1)
    BY <1>2, <2>1, <2>2, <2>3
  <2>5. G!Val(s, g.lhs) = s[g.lhs]
    BY <2>1, <2>2, Numbers DEF G!Val
  <2>6. s[g.lhs] = (G!Val(s, g.rhs0) /\ G!Val(s, g.rhs1))
    BY <1>1, SameVal DEF P!ModelOf, P!Respects
  <2>7. Holds(a, g.lhs) <=> Holds(a, g.rhs0) /\ Holds(a, g.rhs1)
    BY <2>4, <2>5, <2>6
  <2>8. QED BY <1>2, <2>1, <2>2, <2>7, GateClausesMean
<1>4. ASSUME NEW o \in man.outputs
      PROVE  Satisfies(a, Unit(-o))
  <2>1. o \in Lit /\ VarOf(o) <= man.numVars
    <3>1. o \in P!LitsOf(man)
      BY DEF P!WF, P!Ordered
    <3>2. o \in Lit /\ P!VarOf(o) <= man.numVars
      BY <3>1, SameNames, Numbers DEF P!LitsOf
    <3>3. QED BY <3>2 DEF P!VarOf, VarOf
  <2>2. ~Holds(a, o)
    BY <1>1, <1>2, <2>1
  <2>3. Holds(a, -o)
    BY <1>2, <2>1, <2>2, HoldsNegated
  <2>4. QED BY <2>3, UnitHolds
<1>5. \A c \in formula : Satisfies(a, c)
  BY <1>3, <1>4 DEF FormulaOK
<1>6. QED BY <1>2, <1>5 DEF ModelsOf, a

\* So when funcsat finds no model with literals ls, the graph has no solution in
\* which literals hold that ls is part of.
LEMMA UnsolvableIf ==
  ASSUME P!WF(man), man.outputs \subseteq Lit, FormulaOK,
         NEW ls \in SUBSET Lit, \A l \in ls : VarOf(l) <= man.numVars,
         ~Consistent(formula, ls), NEW ms, ls \subseteq ms
  PROVE  ~Solvable(ms)
<1> SUFFICES ASSUME NEW s \in G!Solutions(man), Meets(s, ms)
             PROVE  FALSE
  BY DEF Solvable
<1>1. AsAssignment(s) \in ModelsOf(formula) /\ s \in [1..man.numVars -> BOOLEAN]
  BY SolutionSatisfies, SolutionIs
<1>2. \A l \in ls : Holds(AsAssignment(s), l)
  BY <1>1, AssignmentAgrees DEF Meets
<1>3. QED BY <1>1, <1>2 DEF Consistent

-----------------------------------------------------------------------------
(***************************************************************************)
(* From funcsat's model back to the graph.                                 *)
(***************************************************************************)
\* An assignment that satisfies the clauses given and a model of the graph with
\* the same inputs give every flagged gate the same value.
LEMMA FlaggedAgree ==
  ASSUME P!WF(man), FlagsOK, ConesTranslated, ~written,
         NEW a \in ModelsOf(formula), NEW s, P!ModelOf(s, man),
         \A v \in man.inputs : s[v] = a[v]
  PROVE  \A v \in nodes \cup man.inputs : s[v] = a[v]
<1> DEFINE S == {v \in nodes \cup man.inputs : s[v] # a[v]}
<1>1. SUFFICES ASSUME S # {} PROVE FALSE
  BY <1>1
<1>2. \A v \in nodes : \E g \in man.ands : g.lhs = v
  BY DEF FlagsOK
<1>3. \A v \in nodes \cup man.inputs : v \in 1..man.numVars
  BY <1>2, LitsAre
<1>4. PICK v \in S : \A w \in S : v <= w
  <2>1. S \subseteq Nat
    BY <1>3
  <2> HIDE DEF S
  <2>2. QED BY <1>1, <2>1, P!LeastNat, GraphAssumptions
<1>5. v \in nodes /\ s[v] # a[v] /\ v \in 1..man.numVars
  BY <1>3, <1>4
<1>6. PICK g \in man.ands : g.lhs = v
  BY <1>2, <1>5
<1>7. /\ g.rhs0 \in Lit /\ g.rhs1 \in Lit
      /\ VarOf(g.rhs0) < v /\ VarOf(g.rhs1) < v
  BY <1>6, LitsAre
<1>8. /\ GateClauses(g) \subseteq formula
      /\ \A h \in man.ands : h.lhs \in {VarOf(g.rhs0), VarOf(g.rhs1)} => h.lhs \in nodes
  BY <1>5, <1>6 DEF ConesTranslated
<1>9. a \in [Var -> BOOLEAN] /\ \A c \in GateClauses(g) : Satisfies(a, c)
  BY <1>8 DEF ModelsOf
<1>10. v \in Var /\ v \in Lit /\ VarOf(v) = v
  BY <1>5, LitsAre, MaxVarAssumption DEF Var, Lit, VarOf
<1>11. Holds(a, v) <=> Holds(a, g.rhs0) /\ Holds(a, g.rhs1)
  BY <1>6, <1>7, <1>9, <1>10, GateClausesMean
<1>12. ASSUME NEW l \in {g.rhs0, g.rhs1}
       PROVE  Holds(a, l) <=> G!Val(s, l)
  <2>1. l \in Lit /\ VarOf(l) < v /\ VarOf(l) \in 1..man.numVars
    BY <1>5, <1>7, LitsAre, Numbers
  <2>2. VarOf(l) \in nodes \cup man.inputs
    <3>1. VarOf(l) \in man.inputs \/ \E h \in man.ands : h.lhs = VarOf(l)
      BY <2>1 DEF P!WF, P!Decided
    <3>2. QED BY <1>8, <3>1
  <2>3. VarOf(l) \notin S
    BY <1>4, <1>5, <2>1, LitsAre
  <2>4. s[VarOf(l)] = a[VarOf(l)]
    BY <2>2, <2>3
  <2>5. l \notin G!Constants
    BY <2>1, Numbers
  <2>6. CASE l > 0
    BY <2>4, <2>5, <2>6, <2>1, Numbers DEF Holds, G!Val, VarOf
  <2>7. CASE ~(l > 0)
    <3>1. VarOf(l) = -l
      BY <2>1, <2>7, Numbers DEF VarOf
    <3>2. QED BY <2>4, <2>5, <2>7, <3>1 DEF Holds, G!Val
  <2>8. QED BY <2>6, <2>7
<1>13. s[v] = (G!Val(s, g.rhs0) /\ G!Val(s, g.rhs1))
  BY <1>6, SameVal DEF P!ModelOf, P!Respects
<1>14. Holds(a, v) = a[v]
  BY <1>5, <1>10, LitsAre DEF Holds, Var
<1>15. s[v] \in BOOLEAN /\ a[v] \in BOOLEAN
  BY <1>5, <1>9, <1>10 DEF P!ModelOf, P!Covers
<1>16. s[v] = a[v]
  BY <1>11, <1>12, <1>13, <1>14, <1>15
<1>17. QED BY <1>5, <1>16

\* A covered literal has the same value in both.
LEMMA CoveredAgree ==
  ASSUME P!WF(man), FlagsOK, ConesTranslated, ~written,
         NEW a \in ModelsOf(formula), NEW s, P!ModelOf(s, man),
         \A v \in man.inputs : s[v] = a[v],
         NEW l \in Lit, Covered(l)
  PROVE  Holds(a, l) <=> G!Val(s, l)
<1>1. s[VarOf(l)] = a[VarOf(l)]
  BY FlaggedAgree DEF Covered
<1>2. l \notin G!Constants
  BY Numbers
<1>3. CASE l > 0
  BY <1>1, <1>2, <1>3, Numbers DEF Holds, G!Val, VarOf
<1>4. CASE ~(l > 0)
  <2>1. VarOf(l) = -l
    BY <1>4, Numbers DEF VarOf
  <2>2. QED BY <1>1, <1>2, <1>4, <2>1 DEF Holds, G!Val
<1>5. QED BY <1>3, <1>4

\* While no clause was lost, what funcsat answers satisfies the units it dropped
\* from the clauses too.
LEMMA AnswerIsModel ==
  ASSUME Inv, lost = {}, NEW a, AnswerSat(a)
  PROVE  a \in ModelsOf(formula) /\ \A l \in SetOf(held) : Holds(a, l)
<1>1. a \in ModelsOf(Kept) /\ \A l \in RootLits : Holds(a, l)
  BY DEF AnswerSat
<1>2. ASSUME NEW c \in formula
      PROVE  Satisfies(a, c)
  <2>1. CASE IsLong(c)
    BY <1>1, <2>1 DEF Kept, ModelsOf
  <2>2. CASE IsUnit(c)
    <3>1. PICK l \in Lit : c = Unit(l)
      BY <2>2 DEF IsUnit
    <3>2. l \in RootLits
      BY <3>1 DEF Inv, UnitsKept, RootLits
    <3>3. QED BY <1>1, <3>1, <3>2, UnitHolds
  <2>3. CASE c = {}
    BY <2>3 DEF Inv, UnitsKept
  <2>4. QED BY <2>1, <2>2, <2>3 DEF IsLong
<1>3. \A l \in SetOf(held) : l \in RootLits
  BY HeldOnRoot DEF SetOf, Inv, Types
<1>4. QED BY <1>1, <1>2, <1>3 DEF ModelsOf

\* The graph's solution that the inputs of such a model extend to.
LEMMA AnswerExtends ==
  ASSUME P!WF(man), man.outputs \subseteq Lit, FlagsOK, ConesTranslated, ~written,
         NEW a \in ModelsOf(formula), NEW i, \A v \in man.inputs : i[v] = a[v],
         \A o \in man.outputs : Unit(-o) \in formula /\ Covered(o)
  PROVE  /\ G!Eval(man, i) \in G!Solutions(man)
         /\ \A l \in Lit : Covered(l) => (Holds(a, l) <=> G!Val(G!Eval(man, i), l))
<1> DEFINE s == P!Eval(man, i)
<1>1. a \in [Var -> BOOLEAN] /\ man.inputs \subseteq Var
  BY LitsAre DEF ModelsOf
<1>2. \A v \in man.inputs : i[v] \in BOOLEAN
  BY <1>1
<1>3. /\ s \in [1..man.numVars -> BOOLEAN] /\ P!ModelOf(s, man)
  BY <1>2, GraphAssumptions, P!EvalIsModel
<1>4. \A v \in man.inputs : s[v] = a[v]
  BY <1>2, GraphAssumptions, P!EvalIsModel
<1> HIDE DEF s
<1>5. \A l \in Lit : Covered(l) => (Holds(a, l) <=> G!Val(s, l))
  BY <1>3, <1>4, CoveredAgree
<1>6. ASSUME NEW o \in man.outputs
      PROVE  o \notin G!Constants /\ ~G!Val(s, o)
  <2>1. o \in Lit /\ o \notin G!Constants
    BY Numbers
  <2>2. Holds(a, -o)
    BY UnitHolds DEF ModelsOf
  <2>3. ~Holds(a, o)
    BY <1>1, <2>1, <2>2, HoldsNegated
  <2>4. QED BY <1>5, <2>1, <2>3
<1>7. G!Respects(s, man)
  BY <1>3, SameVal DEF P!ModelOf, P!Respects, G!Respects
<1>8. s \in G!Solutions(man)
  BY <1>3, <1>6, <1>7 DEF G!Solutions, G!Models
<1>9. s = G!Eval(man, i)
  BY SameEval DEF s
<1>10. QED BY <1>5, <1>8, <1>9

\* What is built later does not change the values computed from the inputs.
LEMMA EvalKeeps ==
  ASSUME P!WF(man), NEW n, Grown(man, n), NEW i, NEW j,
         \A v \in man.inputs : i[v] \in BOOLEAN,
         \A v \in n.inputs : j[v] \in BOOLEAN,
         \A v \in man.inputs : i[v] = j[v],
         NEW l \in Lit, VarOf(l) <= man.numVars
  PROVE  G!Val(G!Eval(n, j), l) <=> G!Val(G!Eval(man, i), l)
<1> DEFINE s == P!Eval(man, i)
           t == P!Eval(n, j)
<1>1. /\ P!ModelOf(s, man)
      /\ \A v \in man.inputs : s[v] = i[v]
  BY GraphAssumptions, P!EvalIsModel
<1>2. /\ P!ModelOf(t, n)
      /\ \A v \in n.inputs : t[v] = j[v]
  BY GraphAssumptions, P!EvalIsModel DEF Grown
<1> HIDE DEF s, t
<1>3. man.numVars \in Nat /\ n.numVars \in Nat
  BY LitsAre DEF Grown
<1>4. P!ModelOf(t, man)
  BY <1>2, <1>3 DEF Grown, P!ModelOf, P!Covers, P!Respects
<1>5. \A v \in man.inputs : s[v] = t[v]
  BY <1>1, <1>2 DEF Grown
<1>6. \A v \in 1..man.numVars : s[v] = t[v]
  BY <1>1, <1>4, <1>5, GraphAssumptions, P!ModelsAgree
<1>7. s[VarOf(l)] = t[VarOf(l)] /\ l \notin G!Constants
  BY <1>6, Numbers
<1>8. G!Val(t, l) <=> G!Val(s, l)
  <2>1. CASE l > 0
    BY <1>7, <2>1, Numbers DEF G!Val, VarOf
  <2>2. CASE ~(l > 0)
    <3>1. VarOf(l) = -l
      BY <2>2, Numbers DEF VarOf
    <3>2. QED BY <1>7, <2>2, <3>1 DEF G!Val
  <2>3. QED BY <2>1, <2>2
<1>9. s = G!Eval(man, i) /\ t = G!Eval(n, j)
  BY SameEval DEF s, t
<1>10. QED BY <1>8, <1>9

-----------------------------------------------------------------------------
(***************************************************************************)
(* Recursion: a function that is defined step by step exists.              *)
(***************************************************************************)
Iterated(X, x0, N, F, r) ==
  r \in [0..N -> X] /\ r[0] = x0 /\ \A k \in 1..N : r[k] = F[<<k, r[k - 1]>>]

\* Such a function exists for every number of steps.
LEMMA Iterates ==
  ASSUME NEW X, NEW x0 \in X, NEW N \in Nat, NEW F, \A k \in 1..N : \A w \in X : F[<<k, w>>] \in X
  PROVE  \E r : Iterated(X, x0, N, F, r)
<1> DEFINE Built(n, r) == Iterated(X, x0, n, F, r)
           S == {n \in 0..N : ~\E r : Built(n, r)}
<1>1. SUFFICES ASSUME S # {} PROVE FALSE
  <2>1. N \in 0..N
    OBVIOUS
  <2>2. ~(N \in S) => \E r : Built(N, r)
    BY <2>1
  <2>3. QED BY <1>1, <2>2
<1>2. PICK n \in S : \A k \in S : n <= k
  <2>1. S \subseteq Nat
    OBVIOUS
  <2> HIDE DEF S
  <2>2. QED BY <1>1, <2>1, P!LeastNat, GraphAssumptions
<1>3. n \in 0..N /\ ~\E r : Built(n, r)
  BY <1>2
<1>4. CASE n = 0
  <2> DEFINE r == [k \in 0..0 |-> x0]
  <2>1. r \in [0..0 -> X] /\ r[0] = x0
    OBVIOUS
  <2>2. Built(0, r)
    BY <2>1 DEF Iterated
  <2>3. QED BY <1>3, <1>4, <2>2
<1>5. CASE n # 0
  <2>1. n - 1 \in 0..N /\ n - 1 \notin S
    <3>1. n - 1 \in 0..N /\ ~(n <= n - 1)
      BY <1>3, <1>5
    <3> HIDE DEF S
    <3>2. QED BY <1>2, <3>1
  <2>2. PICK r : Built(n - 1, r)
    BY <2>1
  <2>3. /\ r \in [0..(n - 1) -> X] /\ r[0] = x0
        /\ \A k \in 1..(n - 1) : r[k] = F[<<k, r[k - 1]>>]
    BY <2>2 DEF Iterated
  <2>4. n \in Nat /\ n \in 1..N /\ n - 1 \in 0..(n - 1)
    BY <1>3, <1>5
  <2> DEFINE new == F[<<n, r[n - 1]>>]
             q == [k \in 0..n |-> IF k = n THEN new ELSE r[k]]
  <2>5. new \in X
    BY <2>3, <2>4
  <2> HIDE DEF new
  <2>6. \A k \in 0..(n - 1) : r[k] \in X
    BY <2>3
  <2>7. \A k \in 0..n : k = n \/ k \in 0..(n - 1)
    BY <2>4
  <2>8. q \in [0..n -> X]
    BY <2>5, <2>6, <2>7
  <2>9. q[0] = x0
    BY <1>5, <2>3, <2>4
  <2>10. ASSUME NEW k \in 1..n
         PROVE  q[k] = F[<<k, q[k - 1]>>]
    <3>1. k \in 0..n /\ k - 1 \in 0..n /\ k - 1 # n
      BY <2>4
    <3>2. q[k - 1] = r[k - 1]
      BY <3>1
    <3>3. CASE k = n
      BY <3>1, <3>2, <3>3 DEF new
    <3>4. CASE k # n
      <4>1. k \in 1..(n - 1)
        BY <2>4, <3>4
      <4>2. q[k] = r[k]
        BY <3>1, <3>4
      <4>3. QED BY <2>3, <3>2, <4>1, <4>2
    <3>5. QED BY <3>3, <3>4
  <2> HIDE DEF q
  <2>11. Built(n, q)
    BY <2>8, <2>9, <2>10 DEF Iterated
  <2>12. QED BY <1>3, <2>11
<1>6. QED BY <1>4, <1>5

\* r and q begin alike and stay alike.
InStep(N, r, q) ==
  r[0] = q[0] /\ \A k \in 1..N : r[k - 1] = q[k - 1] => r[k] = q[k]

\* Two of them that begin alike are equal.
LEMMA IteratesUnique ==
  ASSUME NEW N \in Nat, NEW r, NEW q, InStep(N, r, q)
  PROVE  r[N] = q[N]
<1> SUFFICES \A k \in 0..N : r[k] = q[k]
  OBVIOUS
<1>0. r[0] = q[0] /\ \A k \in 1..N : r[k - 1] = q[k - 1] => r[k] = q[k]
  BY DEF InStep
<1> DEFINE S == {k \in 0..N : r[k] # q[k]}
<1>1. SUFFICES ASSUME S # {} PROVE FALSE
  BY <1>1
<1>2. PICK n \in S : \A k \in S : n <= k
  <2>1. S \subseteq Nat
    OBVIOUS
  <2> HIDE DEF S
  <2>2. QED BY <1>1, <2>1, P!LeastNat, GraphAssumptions
<1>3. n \in 0..N /\ r[n] # q[n]
  BY <1>2
<1>4. n # 0 /\ n \in 1..N /\ n - 1 \in 0..N
  BY <1>0, <1>3
<1>5. n - 1 \notin S
  BY <1>2, <1>3
<1>6. r[n - 1] = q[n - 1]
  BY <1>4, <1>5
<1>7. QED BY <1>0, <1>3, <1>4, <1>6

-----------------------------------------------------------------------------
(***************************************************************************)
(* The cone of influence.                                                  *)
(***************************************************************************)
\* The variables right below the gates whose variable is in w.
Below(w) == UNION {{VarOf(g.rhs0), VarOf(g.rhs1)} : g \in {h \in man.ands : h.lhs \in w}}

\* What is reached after n steps, for every n.
Reached(ls, done, r) ==
  /\ r[0] = {VarOf(l) : l \in ls}
  /\ \A n \in 1..MaxVar : r[n] = r[n - 1] \cup Below(r[n - 1] \ done)

\* The cone is made of what can be reached in so many steps.
LEMMA ConeReached ==
  ASSUME NEW ls, NEW done
  PROVE  \E r : Reached(ls, done, r) /\ Cone(ls, done) = {g \in man.ands : g.lhs \in r[MaxVar] \ done}
<1> DEFINE start == {VarOf(l) : l \in ls}
           step(w) == w \cup UNION {{VarOf(g.rhs0), VarOf(g.rhs1)} :
                                    g \in {h \in man.ands : h.lhs \in w \ done}}
           Is(f) == f = [n \in 0..MaxVar |-> IF n = 0 THEN start ELSE step(f[n - 1])]
           c == CHOOSE f : Is(f)
<1>1. Cone(ls, done) = {g \in man.ands : g.lhs \in c[MaxVar] \ done}
  BY DEF Cone
<1>2. MaxVar \in Nat
  BY MaxVarAssumption
<1>3. \A w : step(w) = w \cup Below(w \ done)
  BY DEF Below
<1>4. \E f : Is(f)
  <2> DEFINE U == start \cup {VarOf(g.rhs0) : g \in man.ands} \cup {VarOf(g.rhs1) : g \in man.ands}
             X == SUBSET U
             F == [p \in (1..MaxVar) \X X |-> step(p[2])]
  <2>1. \A w \in X : step(w) \in X
    OBVIOUS
  <2>2. start \in X
    OBVIOUS
  <2> HIDE DEF X, step, start
  <2>3. \A n \in 1..MaxVar : \A w \in X : F[<<n, w>>] \in X
    BY <2>1
  <2>4. \A n \in 1..MaxVar : \A w \in X : F[<<n, w>>] = step(w)
    OBVIOUS
  <2> HIDE DEF F
  <2>4a. PICK r : Iterated(X, start, MaxVar, F, r)
    BY <1>2, <2>2, <2>3, Iterates
  <2>5. r \in [0..MaxVar -> X] /\ r[0] = start /\ \A n \in 1..MaxVar : r[n] = F[<<n, r[n - 1]>>]
    BY <2>4a DEF Iterated
  <2>6. ASSUME NEW n \in 0..MaxVar
        PROVE  r[n] = IF n = 0 THEN start ELSE step(r[n - 1])
    <3>1. CASE n = 0
      BY <2>5, <3>1
    <3>2. CASE n # 0
      <4>1. n \in 1..MaxVar /\ n - 1 \in 0..MaxVar
        BY <1>2, <3>2
      <4>2. r[n - 1] \in X
        BY <2>5, <4>1
      <4>3. QED BY <2>4, <2>5, <3>2, <4>1, <4>2
    <3>3. QED BY <3>1, <3>2
  <2> DEFINE q == [n \in 0..MaxVar |-> IF n = 0 THEN start ELSE step(r[n - 1])]
  <2>7. r = q
    BY <2>5, <2>6
  <2>8. Is(r)
    BY <2>7
  <2>9. QED BY <2>8
<1>5. Is(c)
  BY <1>4
<1> HIDE DEF c
<1>6. c[0] = start
  BY <1>2, <1>5
<1>7. ASSUME NEW n \in 1..MaxVar
      PROVE  c[n] = c[n - 1] \cup Below(c[n - 1] \ done)
  <2>1. n \in 0..MaxVar /\ n # 0
    BY <1>2
  <2> HIDE DEF step, start
  <2>2. c[n] = step(c[n - 1])
    BY <1>5, <2>1
  <2>3. QED BY <1>3, <2>2
<1>8. Reached(ls, done, c)
  BY <1>6, <1>7 DEF Reached
<1>9. QED BY <1>1, <1>8

\* What is reached first in step n has a variable of at most MaxVar - n: a
\* gate is above what is below it.
LEMMA ReachedLower ==
  ASSUME P!WF(man), NEW ls \in SUBSET Lit, NEW done, NEW r, Reached(ls, done, r)
  PROVE  \A n \in 0..MaxVar : \A v \in r[n] :
           /\ v \in Nat
           /\ (n > 0 /\ v \in r[n - 1]) \/ v <= MaxVar - n
<1> DEFINE Low(n) == \A v \in r[n] : /\ v \in Nat
                                     /\ (n > 0 /\ v \in r[n - 1]) \/ v <= MaxVar - n
           S == {n \in 0..MaxVar : ~Low(n)}
<1>0. MaxVar \in Nat
  BY MaxVarAssumption
<1>1. SUFFICES ASSUME S # {} PROVE FALSE
  BY <1>1
<1>2. PICK n \in S : \A k \in S : n <= k
  <2>1. S \subseteq Nat
    OBVIOUS
  <2> HIDE DEF S
  <2>2. QED BY <1>1, <2>1, P!LeastNat, GraphAssumptions
<1>3. n \in 0..MaxVar /\ ~Low(n)
  BY <1>2
<1>4. n # 0
  <2>1. SUFFICES ASSUME n = 0 PROVE Low(0)
    BY <1>3
  <2>2. QED BY <1>0, Numbers DEF Reached
<1>5. n - 1 \in 0..MaxVar /\ n \in 1..MaxVar /\ ~(n <= n - 1)
  <2> HIDE DEF Low
  <2>1. n \in 0..MaxVar
    BY <1>3
  <2>2. QED BY ONLY <1>0, <1>4, <2>1
<1>6. Low(n - 1)
  <2> HIDE DEF Low
  <2>1. n - 1 \notin S
    <3> HIDE DEF S
    <3>1. QED BY <1>2, <1>5
  <2>2. QED BY <1>5, <2>1
<1>7. r[n] = r[n - 1] \cup Below(r[n - 1] \ done)
  BY <1>5 DEF Reached
<1>8. ASSUME NEW v \in r[n], v \notin r[n - 1]
      PROVE  v \in Nat /\ v <= MaxVar - n
  <2>1. PICK g \in man.ands : g.lhs \in r[n - 1] /\ g.lhs \notin done /\ v \in {VarOf(g.rhs0), VarOf(g.rhs1)}
    BY <1>7, <1>8 DEF Below
  <2>2. /\ g.rhs0 \in Lit /\ g.rhs1 \in Lit /\ g.lhs \in Nat
        /\ VarOf(g.rhs0) < g.lhs /\ VarOf(g.rhs1) < g.lhs
    BY LitsAre
  <2>3. v \in Nat /\ v < g.lhs
    BY <2>1, <2>2, Numbers
  <2>4. CASE n - 1 > 0 /\ g.lhs \in r[n - 1 - 1]
    <3>1. n - 1 \in 1..MaxVar
      BY <1>5, <2>4
    <3>2. r[n - 1] = r[n - 1 - 1] \cup Below(r[n - 1 - 1] \ done)
      BY <3>1 DEF Reached
    <3>3. v \in Below(r[n - 1 - 1] \ done)
      BY <2>1, <2>4 DEF Below
    <3>4. QED BY <1>8, <3>2, <3>3
  <2>5. CASE g.lhs <= MaxVar - (n - 1)
    BY <1>0, <1>5, <2>2, <2>3, <2>5
  <2>6. QED BY <1>6, <2>1, <2>4, <2>5
<1>9. \A v \in r[n - 1] : v \in Nat
  BY <1>6
<1>10. Low(n)
  BY <1>4, <1>3, <1>8, <1>9
<1>11. QED BY <1>3, <1>10

\* The cone of ls holds the gates of ls and, with a gate, those right below it,
\* but for those that are done.
LEMMA ConeClosed ==
  ASSUME P!WF(man), NEW ls \in SUBSET Lit, NEW done
  PROVE  /\ Cone(ls, done) \subseteq man.ands
         /\ \A g \in Cone(ls, done) : g.lhs \notin done
         /\ \A g \in man.ands, l \in ls : g.lhs = VarOf(l) => g.lhs \in done \/ g \in Cone(ls, done)
         /\ \A g \in Cone(ls, done), h \in man.ands :
              h.lhs \in {VarOf(g.rhs0), VarOf(g.rhs1)} => h.lhs \in done \/ h \in Cone(ls, done)
<1>1. PICK r : Reached(ls, done, r) /\ Cone(ls, done) = {g \in man.ands : g.lhs \in r[MaxVar] \ done}
  BY ConeReached
<1>2. MaxVar \in Nat /\ MaxVar \in 0..MaxVar /\ MaxVar \in 1..MaxVar /\ MaxVar > 0 /\ MaxVar - MaxVar = 0
  BY MaxVarAssumption
<1>3. \A n \in 0..MaxVar : r[0] \subseteq r[n]
  <2> DEFINE S == {n \in 0..MaxVar : ~(r[0] \subseteq r[n])}
  <2>1. SUFFICES ASSUME S # {} PROVE FALSE
    BY <2>1
  <2>2. PICK n \in S : \A k \in S : n <= k
    <3>1. S \subseteq Nat
      OBVIOUS
    <3> HIDE DEF S
    <3>2. QED BY <2>1, <3>1, P!LeastNat, GraphAssumptions
  <2>3. n \in 0..MaxVar /\ ~(r[0] \subseteq r[n])
    BY <2>2
  <2>4. n # 0
    BY <2>3
  <2>5. n - 1 \in 0..MaxVar /\ n \in 1..MaxVar /\ ~(n <= n - 1)
    BY <1>2, <2>3, <2>4
  <2>6. n - 1 \notin S
    <3> HIDE DEF S
    <3>1. QED BY <2>2, <2>5
  <2>7. r[n - 1] \subseteq r[n]
    BY <1>1, <2>5 DEF Reached
  <2>8. QED BY <2>3, <2>5, <2>6, <2>7
<1>4. ASSUME NEW g \in man.ands, NEW l \in ls, g.lhs = VarOf(l)
      PROVE  g.lhs \in done \/ g \in Cone(ls, done)
  <2>1. g.lhs \in r[0]
    BY <1>1, <1>4 DEF Reached
  <2>2. g.lhs \in r[MaxVar]
    BY <1>2, <1>3, <2>1
  <2>3. QED BY <1>1, <2>2
<1>5. ASSUME NEW g \in Cone(ls, done), NEW h \in man.ands, h.lhs \in {VarOf(g.rhs0), VarOf(g.rhs1)}
      PROVE  h.lhs \in done \/ h \in Cone(ls, done)
  <2>1. g \in man.ands /\ g.lhs \in r[MaxVar] /\ g.lhs \notin done
    BY <1>1
  <2>2. g.lhs \in Nat /\ g.lhs > 0
    BY <2>1, LitsAre
  <2>3. g.lhs \in r[MaxVar - 1]
    <3>1. (MaxVar > 0 /\ g.lhs \in r[MaxVar - 1]) \/ g.lhs <= MaxVar - MaxVar
      BY <1>1, <1>2, <2>1, ReachedLower
    <3>2. QED BY <1>2, <2>2, <3>1
  <2>4. h.lhs \in Below(r[MaxVar - 1] \ done)
    BY <1>5, <2>1, <2>3 DEF Below
  <2>5. h.lhs \in r[MaxVar]
    BY <1>1, <1>2, <2>4 DEF Reached
  <2>6. QED BY <1>1, <2>5
<1>6. Cone(ls, done) \subseteq man.ands /\ \A g \in Cone(ls, done) : g.lhs \notin done
  BY <1>1
<1>7. QED BY <1>4, <1>5, <1>6

-----------------------------------------------------------------------------
(***************************************************************************)
(* The two stacks.                                                         *)
(***************************************************************************)
PushedBy(s, n, w) == IF s[n] = 0 THEN w ELSE Append(w, s[n])

\* What the first n assumptions of s are to funcsat, for every n.
Pushing(s, r) ==
  r[0] = <<>> /\ \A n \in 1..Len(s) : r[n] = PushedBy(s, n, r[n - 1])

\* It is what PushedOf computes.
LEMMA PushedIs ==
  ASSUME NEW s \in Seq(Lit \cup {0})
  PROVE  \E r : Pushing(s, r) /\ PushedOf(s) = r[Len(s)]
<1> DEFINE N == Len(s)
           Is(f) == f = [n \in 0..N |-> IF n = 0 THEN <<>> ELSE PushedBy(s, n, f[n - 1])]
           c == CHOOSE f : Is(f)
<1>1. PushedOf(s) = c[N]
  <2>1. PushedOf(s) =
          (CHOOSE f : f = [n \in 0..N |-> IF n = 0 THEN <<>>
                                          ELSE IF s[n] = 0 THEN f[n - 1] ELSE Append(f[n - 1], s[n])])[N]
    BY DEF PushedOf
  <2>2. QED BY <2>1 DEF PushedBy
<1>2. N \in Nat /\ \A n \in 1..N : s[n] \in Lit \cup {0}
  OBVIOUS
<1>3. \E f : Is(f)
  <2> DEFINE X == Seq(Lit)
             F == [p \in (1..N) \X X |-> PushedBy(s, p[1], p[2])]
  <2>1. \A n \in 1..N : \A w \in X : PushedBy(s, n, w) \in X
    BY <1>2 DEF PushedBy
  <2>2. <<>> \in X
    OBVIOUS
  <2> HIDE DEF X, N
  <2>3. \A n \in 1..N : \A w \in X : F[<<n, w>>] = PushedBy(s, n, w)
    OBVIOUS
  <2> HIDE DEF F
  <2>4. \A n \in 1..N : \A w \in X : F[<<n, w>>] \in X
    BY <2>1, <2>3
  <2>5. PICK r : Iterated(X, <<>>, N, F, r)
    BY <1>2, <2>2, <2>4, Iterates
  <2>6. r \in [0..N -> X] /\ r[0] = <<>> /\ \A n \in 1..N : r[n] = F[<<n, r[n - 1]>>]
    BY <2>5 DEF Iterated
  <2>7. ASSUME NEW n \in 0..N
        PROVE  r[n] = IF n = 0 THEN <<>> ELSE PushedBy(s, n, r[n - 1])
    <3>1. CASE n = 0
      BY <2>6, <3>1
    <3>2. CASE n # 0
      <4>1. n \in 1..N /\ n - 1 \in 0..N
        BY <1>2, <3>2
      <4>2. r[n - 1] \in X
        BY <2>6, <4>1
      <4>3. QED BY <2>3, <2>6, <3>2, <4>1, <4>2
    <3>3. QED BY <3>1, <3>2
  <2> DEFINE q == [n \in 0..N |-> IF n = 0 THEN <<>> ELSE PushedBy(s, n, r[n - 1])]
  <2>8. r = q
    BY <2>6, <2>7
  <2>9. Is(r)
    BY <2>8
  <2>10. QED BY <2>9
<1>4. Is(c)
  BY <1>3
<1> HIDE DEF c
<1>5. c[0] = <<>>
  BY <1>2, <1>4
<1>6. ASSUME NEW n \in 1..N
      PROVE  c[n] = PushedBy(s, n, c[n - 1])
  <2>1. n \in 0..N /\ n # 0
    BY <1>2
  <2>2. QED BY <1>4, <2>1
<1>7. Pushing(s, c)
  BY <1>5, <1>6 DEF Pushing
<1>8. QED BY <1>1, <1>7

\* Nothing assumed is nothing pushed.
LEMMA PushedEmpty == PushedOf(<<>>) = <<>>
<1>1. PICK s \in Seq(Lit \cup {0}) : s = <<>>
  <2>1. <<>> \in Seq(Lit \cup {0})
    OBVIOUS
  <2>2. QED BY <2>1, Zenon
<1>2. PICK r : Pushing(s, r) /\ PushedOf(s) = r[Len(s)]
  BY PushedIs
<1>3. Len(s) = 0 /\ r[0] = <<>>
  BY <1>1, <1>2 DEF Pushing
<1>4. QED BY <1>1, <1>2, <1>3

\* One more assumption.
LEMMA PushedAppend ==
  ASSUME NEW s \in Seq(Lit \cup {0}), NEW e \in Lit \cup {0}
  PROVE  PushedOf(Append(s, e)) = IF e = 0 THEN PushedOf(s) ELSE Append(PushedOf(s), e)
<1>1. PICK t : t = Append(s, e)
  OBVIOUS
<1>2. PICK N \in Nat : N = Len(s)
  OBVIOUS
<1>3. /\ t \in Seq(Lit \cup {0}) /\ Len(t) = N + 1 /\ t[N + 1] = e
      /\ \A k \in 1..N : t[k] = s[k]
  BY <1>1, <1>2
<1>4. PICK r : Pushing(s, r) /\ PushedOf(s) = r[N]
  BY <1>2, PushedIs
<1>5. PICK q : Pushing(t, q) /\ PushedOf(t) = q[N + 1]
  BY <1>3, PushedIs
<1>6. r[0] = <<>> /\ \A n \in 1..N : r[n] = PushedBy(s, n, r[n - 1])
  BY <1>2, <1>4 DEF Pushing
<1>7. q[0] = <<>> /\ \A n \in 1..(N + 1) : q[n] = PushedBy(t, n, q[n - 1])
  BY <1>3, <1>5 DEF Pushing
<1>8. ASSUME NEW n \in 1..N
      PROVE  q[n] = PushedBy(s, n, q[n - 1])
  <2>1. n \in 1..(N + 1) /\ t[n] = s[n]
    BY <1>3
  <2>2. QED BY <1>7, <2>1 DEF PushedBy
<1>9. \A n \in 1..N : r[n - 1] = q[n - 1] => r[n] = q[n]
  <2>1. TAKE n \in 1..N
  <2>2. HAVE r[n - 1] = q[n - 1]
  <2>3. r[n] = PushedBy(s, n, r[n - 1]) /\ q[n] = PushedBy(s, n, q[n - 1])
    BY <1>6, <1>8
  <2>4. QED BY <2>2, <2>3
<1>10. r[0] = q[0]
  BY <1>6, <1>7
<1>11. InStep(N, r, q)
  BY <1>9, <1>10 DEF InStep
<1>12. N + 1 \in 1..(N + 1) /\ N + 1 - 1 = N
  OBVIOUS
<1>13. r[N] = q[N]
  BY <1>11, IteratesUnique
<1>14. q[N + 1] = PushedBy(t, N + 1, q[N])
  <2>1. q[N + 1] = PushedBy(t, N + 1, q[N + 1 - 1])
    BY <1>7, <1>12
  <2>2. QED BY <1>12, <2>1
<1>15. q[N + 1] = IF e = 0 THEN r[N] ELSE Append(r[N], e)
  BY <1>3, <1>13, <1>14 DEF PushedBy
<1>16. QED BY <1>1, <1>4, <1>5, <1>15

\* The literals funcsat was given are the assumptions but for the constant.
LEMMA PushedSet ==
  ASSUME NEW s \in Seq(Lit \cup {0})
  PROVE  PushedOf(s) \in Seq(Lit) /\ SetOf(PushedOf(s)) = Range(s) \ {0}
<1> DEFINE N == Len(s)
           First(n) == {s[k] : k \in 1..n} \ {0}
           Good(n, w) == w \in Seq(Lit) /\ SetOf(w) = First(n)
<1>1. PICK r : Pushing(s, r) /\ PushedOf(s) = r[N]
  BY PushedIs
<1>2. N \in Nat /\ \A n \in 1..N : s[n] \in Lit \cup {0}
  OBVIOUS
<1>3. r[0] = <<>> /\ \A n \in 1..N : r[n] = PushedBy(s, n, r[n - 1])
  BY <1>1 DEF Pushing
<1> HIDE DEF N
<1>4. \A n \in 0..N : Good(n, r[n])
  <2> DEFINE S == {n \in 0..N : ~Good(n, r[n])}
  <2>1. SUFFICES ASSUME S # {} PROVE FALSE
    BY <2>1
  <2>2. PICK n \in S : \A k \in S : n <= k
    <3>1. S \subseteq Nat
      OBVIOUS
    <3> HIDE DEF S
    <3>2. QED BY <2>1, <3>1, P!LeastNat, GraphAssumptions
  <2>3. n \in 0..N /\ ~Good(n, r[n])
    BY <2>2
  <2>4. n # 0
    <3>1. SetOf(<<>>) = {} /\ <<>> \in Seq(Lit)
      BY DEF SetOf
    <3>2. First(0) = {}
      OBVIOUS
    <3>3. Good(0, r[0])
      BY <1>3, <3>1, <3>2
    <3>4. QED BY <2>3, <3>3
  <2>5. n - 1 \in 0..N /\ n \in 1..N /\ ~(n <= n - 1)
    <3>1. n \in 0..N
      BY <2>3
    <3>2. QED BY ONLY <1>2, <2>4, <3>1
  <2>6. Good(n - 1, r[n - 1])
    <3>1. n - 1 \notin S
      <4> HIDE DEF S
      <4>1. QED BY <2>2, <2>5
    <3> HIDE DEF Good
    <3>2. QED BY <2>5, <3>1
  <2>7. First(n) = First(n - 1) \cup ({s[n]} \ {0})
    <3>1. \A k \in 1..n : k = n \/ k \in 1..(n - 1)
      BY <2>5
    <3>2. \A k \in 1..(n - 1) : k \in 1..n
      BY <2>5
    <3>3. n \in 1..n
      BY <2>5
    <3>4. QED BY <3>1, <3>2, <3>3
  <2>8. r[n] = PushedBy(s, n, r[n - 1]) /\ s[n] \in Lit \cup {0}
    BY <1>2, <1>3, <2>5
  <2>9. ASSUME NEW w \in Seq(Lit), NEW e \in Lit
        PROVE  Append(w, e) \in Seq(Lit) /\ SetOf(Append(w, e)) = SetOf(w) \cup {e}
    <3>1. PICK u : u = Append(w, e)
      OBVIOUS
    <3>2. u \in Seq(Lit) /\ Len(u) = Len(w) + 1 /\ Len(w) \in Nat /\ u[Len(w) + 1] = e
          /\ DOMAIN w = 1..Len(w) /\ DOMAIN u = 1..(Len(w) + 1)
          /\ \A k \in 1..Len(w) : u[k] = w[k]
      BY <3>1
    <3>3. SetOf(u) \subseteq SetOf(w) \cup {e}
      BY <3>2 DEF SetOf
    <3>4. SetOf(w) \cup {e} \subseteq SetOf(u)
      <4>1. Len(w) + 1 \in DOMAIN u /\ \A k \in DOMAIN w : k \in DOMAIN u
        BY <3>2
      <4>2. QED BY <3>2, <4>1 DEF SetOf
    <3>5. QED BY <3>1, <3>2, <3>3, <3>4
  <2> HIDE DEF First
  <2>10. 0 \notin Lit
    BY Numbers
  <2>11. CASE s[n] = 0
    <3>1. First(n) = First(n - 1) /\ r[n] = r[n - 1]
      BY <2>7, <2>8, <2>11 DEF PushedBy
    <3>2. QED BY <2>3, <2>6, <3>1
  <2>12. CASE s[n] # 0
    <3>1. First(n) = First(n - 1) \cup {s[n]} /\ r[n] = Append(r[n - 1], s[n]) /\ s[n] \in Lit
      BY <2>7, <2>8, <2>12 DEF PushedBy
    <3>2. QED BY <2>3, <2>6, <2>9, <3>1
  <2>13. QED BY <2>11, <2>12
<1>5. Good(N, r[N])
  <2>1. N \in 0..N
    BY <1>2
  <2> HIDE DEF Good
  <2>2. QED BY <1>4, <2>1
<1>6. First(N) = Range(s) \ {0}
  <2>1. DOMAIN s = 1..N
    BY DEF N
  <2>2. QED BY <2>1 DEF Range
<1>7. QED BY <1>1, <1>5, <1>6

\* One assumption less.
LEMMA PushedFront ==
  ASSUME NEW s \in Seq(Lit \cup {0}), s # <<>>
  PROVE  /\ Front(s) \in Seq(Lit \cup {0}) /\ Len(Front(s)) = Len(s) - 1
         /\ \A k \in 1..(Len(s) - 1) : Front(s)[k] = s[k]
         /\ Last(s) \in Lit \cup {0} /\ Last(s) = s[Len(s)]
         /\ PushedOf(s) = IF Last(s) = 0 THEN PushedOf(Front(s)) ELSE Append(PushedOf(Front(s)), Last(s))
<1> DEFINE N == Len(s)
           f == Front(s)
           e == Last(s)
<1>1. N \in Nat /\ N >= 1 /\ N \in 1..N
  OBVIOUS
<1>2. f = SubSeq(s, 1, N - 1) /\ e = s[N]
  BY DEF Front, Last
<1>3. /\ f \in Seq(Lit \cup {0}) /\ Len(f) = N - 1
      /\ \A k \in 1..(N - 1) : f[k] = s[k]
  <2>1. PICK u : u = SubSeq(s, 1, N - 1)
    OBVIOUS
  <2>2. N - 1 \in 0..N
    BY <1>1
  <2>3. u \in Seq(Lit \cup {0})
    BY <1>1, <2>1
  <2>4. Len(u) = N - 1
    <3>1. PICK M \in Nat : M = N - 1
      BY <1>1
    <3>2. /\ \A k \in 1..M : s[k] \in Lit \cup {0}
          /\ 1 <= M \/ M = 0
      BY <1>1, <3>1
    <3>3. u = SubSeq(s, 1, M)
      BY <2>1, <3>1
    <3>4. Len(u) = IF 1 <= M THEN M - 1 + 1 ELSE 0
      BY ONLY <3>2, <3>3, M \in Nat, SubSeqProperties
    <3>5. QED BY <3>1, <3>2, <3>4
  <2>5. \A k \in 1..(N - 1) : u[k] = s[k]
    BY <1>1, <2>1
  <2>6. QED BY <1>2, <2>1, <2>3, <2>4, <2>5
<1>4. e \in Lit \cup {0}
  BY <1>1, <1>2
<1>5. s = Append(f, e)
  <2>1. PICK t, g, x : t = Append(g, x) /\ g = f /\ x = e
    OBVIOUS
  <2>2. t \in Seq(Lit \cup {0}) /\ Len(t) = N /\ t[N] = e /\ \A k \in 1..(N - 1) : t[k] = f[k]
    BY <1>1, <1>3, <1>4, <2>1
  <2>3. \A k \in 1..N : t[k] = s[k]
    BY <1>1, <1>2, <1>3, <2>2
  <2>4. t = s
    BY <2>2, <2>3, SeqEqual
  <2>5. QED BY <2>1, <2>4
<1>6. PushedOf(s) = IF e = 0 THEN PushedOf(f) ELSE Append(PushedOf(f), e)
  <2> HIDE DEF f, e
  <2>1. QED BY <1>3, <1>4, <1>5, PushedAppend
<1>7. QED BY <1>2, <1>3, <1>4, <1>6

-----------------------------------------------------------------------------
(***************************************************************************)
(* What a step keeps of what it does not touch.                            *)
(***************************************************************************)
\* The solution found stays one as long as the graph does.
LEMMA SolutionKept ==
  ASSUME AssignmentOK, AssignmentSolves, UNCHANGED <<man, solution>>
  PROVE  AssignmentOK' /\ AssignmentSolves'
<1>1. man' = man /\ aigAssignment' = aigAssignment /\ solved' = solved
  BY DEF solution
<1>2. AssignmentOK'
  BY <1>1 DEF AssignmentOK
<1>3. AssignmentSolves'
  BY <1>1 DEF AssignmentSolves, Meets
<1>4. QED BY <1>2, <1>3

\* The answers of a call stay right while the graph does not change.
LEMMA AnswersKept ==
  ASSUME UnsatAnswers, SatAnswers, UNCHANGED <<man, call, questions, got, before>>,
         lost' = {} /\ ~written' => lost = {} /\ ~written
  PROVE  UnsatAnswers' /\ SatAnswers'
<1>1. \A ls : Solvable(ls)' <=> Solvable(ls)
  BY DEF Solvable, Meets
<1>2. Given' = Given
  BY DEF Given
<1>3. UnsatAnswers'
  BY <1>1, <1>2 DEF UnsatAnswers
<1>4. SatAnswers'
  BY <1>1, <1>2 DEF SatAnswers, SatAnswersRight
<1>5. QED BY <1>3, <1>4

\* A call has given no answer when it begins.
LEMMA NoAnswers ==
  ASSUME got' = <<>>
  PROVE  UnsatAnswers' /\ SatAnswers'
<1>1. DOMAIN got' = {}
  OBVIOUS
<1>2. QED BY <1>1 DEF UnsatAnswers, SatAnswers, SatAnswersRight

\* What was translated stays translated.
LEMMA TranslationKept ==
  ASSUME FormulaOK, ConesTranslated, UNCHANGED <<man, nodes, written, formula>>
  PROVE  FormulaOK' /\ ConesTranslated'
BY DEF FormulaOK, ConesTranslated, GateClauses

\* The flags stay right when neither they nor the formula change.
LEMMA FlagsKept ==
  ASSUME FlagsOK, UNCHANGED <<man, flags, formula>>,
         \/ pc' \notin {"require", "search"}
         \/ /\ pc \in {"require", "search"} /\ assumps' = assumps
            /\ pc' = "search" => man.outputs \subseteq required
  PROVE  FlagsOK'
<1>1. man' = man /\ nodes' = nodes /\ required' = required /\ written' = written /\ formula' = formula
  BY DEF flags
<1>2. \A l : Covered(l)' <=> Covered(l)
  BY <1>1 DEF Covered
<1>3. assumps' = assumps => Assumed' = Assumed
  BY DEF Assumed
<1>4. CASE pc' \notin {"require", "search"}
  BY <1>1, <1>2, <1>4 DEF FlagsOK
<1>5. CASE /\ pc \in {"require", "search"} /\ assumps' = assumps
           /\ pc' = "search" => man.outputs \subseteq required
  BY <1>1, <1>2, <1>3, <1>5 DEF FlagsOK
<1>6. QED BY <1>4, <1>5

-----------------------------------------------------------------------------
(***************************************************************************)
(* Pushing and popping one assumption.                                     *)
(***************************************************************************)
\* What funcsat holds is what the client assumes.
LEMMA HeldIsAssumed ==
  ASSUME SolvingTypes, StacksMatch
  PROVE  held \in Seq(Lit) /\ SetOf(held) = Assumed /\ Assumed \subseteq Lit
<1>1. assumps \in Seq(Lit \cup {0})
  BY DEF SolvingTypes
<1>2. PushedOf(assumps) \in Seq(Lit) /\ SetOf(PushedOf(assumps)) = Range(assumps) \ {0}
  BY <1>1, PushedSet
<1>3. \A x \in Range(assumps) : x \in Lit \cup {0}
  BY <1>1 DEF Range
<1>4. QED BY <1>2, <1>3 DEF StacksMatch, Assumed

\* The assumptions are about variables of the graph.
LEMMA AssumedInGraph ==
  ASSUME SolvingTypes, GraphOK
  PROVE  /\ \A l \in Assumed : VarOf(l) <= man.numVars
         /\ Given \subseteq Lit
<1>1. before \in Seq(Lit \cup {0})
  BY DEF SolvingTypes
<1>2. \A x \in Range(before) : x \in Lit \cup {0}
  BY <1>1 DEF Range
<1>3. \A l \in Assumed : VarOf(l) <= man.numVars
  BY DEF GraphOK, Assumed, Range
<1>4. QED BY <1>2, <1>3 DEF Given

\* A literal is refused only if the graph has no solution in which it and the
\* assumptions hold.
LEMMA RefusedRight ==
  ASSUME SolvingTypes, GraphOK, FormulaOK, Inv, StacksMatch,
         NEW p \in Literals, p \in Lit => VarOf(p) <= man.numVars, Refused(p),
         NEW ms, p \in ms, Assumed \subseteq ms
  PROVE  ~Solvable(ms)
<1>1. CASE p = G!LITERAL_FALSE
  <2>1. p \in G!Constants /\ p # G!LITERAL_TRUE
    BY <1>1, Numbers
  <2>2. \A s : ~G!Val(s, p)
    BY <2>1 DEF G!Val
  <2>3. QED BY <2>2 DEF Solvable, Meets
<1>2. CASE p # G!LITERAL_FALSE
  <2>1. -p \in RootLits
    BY <1>2 DEF Refused
  <2>2. RootLits \subseteq Lit
    BY DEF Inv, Types, RootLits
  <2>3. p \in Lit
    <3>1. p = G!LITERAL_TRUE => -p \notin Lit
      BY Numbers
    <3>2. G!Constants = {G!LITERAL_TRUE, G!LITERAL_FALSE}
      BY DEF G!Constants
    <3>3. QED BY <1>2, <2>1, <2>2, <3>1, <3>2 DEF Literals
  <2> DEFINE ls == Assumed \cup {p}
  <2>4. ~Consistent(formula, ls)
    <3>1. SUFFICES ASSUME NEW a \in ModelsOf(formula), \A l \in ls : Holds(a, l)
                   PROVE  FALSE
      BY DEF Consistent
    <3>2. \A l \in SetOf(held) : Holds(a, l)
      BY <3>1, HeldIsAssumed
    <3>3. \A k \in 1..Len(held) : Holds(a, held[k])
      BY <3>2, SetOfHeld DEF Inv
    <3>4. ~Holds(a, p)
      BY <2>1, <2>3, <3>3, RefusalRight
    <3>5. QED BY <3>1, <3>4
  <2>5. ls \subseteq Lit /\ \A l \in ls : VarOf(l) <= man.numVars
    BY <2>3, HeldIsAssumed, AssumedInGraph
  <2>6. ls \subseteq ms
    OBVIOUS
  <2> HIDE DEF ls
  <2>7. QED BY <2>4, <2>5, <2>6, UnsolvableIf DEF GraphOK
<1>3. QED BY <1>1, <1>2

\* A step that leaves funcsat alone.
LEMMA UnchangedInv ==
  ASSUME Inv, UNCHANGED vars
  PROVE  Inv'
<1>1. [Next]_vars
  OBVIOUS
<1>2. QED BY <1>1, NextInv

\* A push that is refused leaves both stacks as they were, another one puts the
\* literal on both.
LEMMA PushStep ==
  ASSUME SolvingTypes, Inv, StacksMatch, NEW p \in Literals, Push(p)
  PROVE  /\ Inv' /\ busy' = busy /\ formula' = formula /\ lost' = lost
         /\ StacksMatch' /\ assumps' \in Seq(Lit \cup {0})
         /\ Refused(p) => assumps' = assumps
         /\ ~Refused(p) => assumps' = Append(assumps, AssumeOf(p)) /\ AssumeOf(p) \in Lit \cup {0}
<1>0. assumps \in Seq(Lit \cup {0}) /\ 0 \in Lit \cup {0}
  BY DEF SolvingTypes
<1>1. CASE p \in G!Constants
  <2>1. assumps' = (IF p = G!LITERAL_TRUE THEN Append(assumps, 0) ELSE assumps) /\ UNCHANGED solver
    BY <1>1 DEF Push
  <2>2. UNCHANGED vars
    BY <2>1 DEF solver
  <2>3. Inv'
    BY <2>2, UnchangedInv
  <2>4. Refused(p) <=> p # G!LITERAL_TRUE
    <3>1. RootLits \subseteq Lit
      BY DEF Inv, Types, RootLits
    <3>2. p = G!LITERAL_TRUE => -p \notin Lit /\ p # G!LITERAL_FALSE
      BY Numbers
    <3>3. p = G!LITERAL_TRUE \/ p = G!LITERAL_FALSE
      BY <1>1 DEF G!Constants
    <3>4. QED BY <3>1, <3>2, <3>3 DEF Refused
  <2>5. assumps' \in Seq(Lit \cup {0})
    BY <1>0, <2>1
  <2>6. PushedOf(assumps)' = PushedOf(assumps)
    <3>1. PushedOf(Append(assumps, 0)) = PushedOf(assumps)
      BY <1>0, PushedAppend
    <3>2. QED BY <2>1, <3>1
  <2>7. StacksMatch'
    BY <2>2, <2>6 DEF StacksMatch, vars
  <2>8. QED BY <1>0, <2>1, <2>2, <2>3, <2>4, <2>5, <2>7 DEF vars, AssumeOf
<1>2. CASE p \notin G!Constants
  <2>1. p \in Lit /\ p # G!LITERAL_TRUE /\ p # G!LITERAL_FALSE /\ p # 0
    BY <1>2, Numbers DEF Literals, G!Constants
  <2>2. /\ PushAssumption(p)
        /\ assumps' = IF answer' = "UNSAT" THEN assumps ELSE Append(assumps, p)
    BY <1>2 DEF Push
  <2>3. Inv' /\ busy' = busy /\ formula' = formula /\ lost' = lost
    BY <2>1, <2>2, PushInv DEF PushAssumption
  <2>4. Refused(p) <=> -p \in RootLits
    BY <2>1 DEF Refused
  <2>5. CASE -p \in RootLits
    <3>1. answer' = "UNSAT" /\ held' = held
      BY <2>2, <2>5 DEF PushAssumption
    <3>2. assumps' = assumps
      BY <2>2, <3>1
    <3>3. PushedOf(assumps)' = PushedOf(assumps)
      BY <3>2
    <3>4. QED BY <1>0, <2>3, <2>4, <2>5, <3>1, <3>2, <3>3 DEF StacksMatch
  <2>6. CASE -p \notin RootLits
    <3>1. answer' = "none" /\ held' = Append(held, p)
      BY <2>2, <2>6 DEF PushAssumption
    <3>2. assumps' = Append(assumps, p)
      BY <2>2, <3>1
    <3>3. PushedOf(Append(assumps, p)) = Append(PushedOf(assumps), p)
      BY <1>0, <2>1, PushedAppend
    <3>4. PushedOf(assumps)' = Append(PushedOf(assumps), p)
      BY <3>2, <3>3
    <3>5. assumps' \in Seq(Lit \cup {0})
      BY <1>0, <2>1, <3>2
    <3>6. QED BY <2>1, <2>3, <2>4, <2>6, <3>1, <3>2, <3>4, <3>5 DEF StacksMatch, AssumeOf
  <2>7. QED BY <2>5, <2>6
<1>3. QED BY <1>1, <1>2

\* Taking off what was put on last.
LEMMA SubSeqOfAppend ==
  ASSUME NEW S, NEW w \in Seq(S), NEW e \in S
  PROVE  SubSeq(Append(w, e), 1, Len(Append(w, e)) - 1) = w
<1>1. PICK u, N : u = Append(w, e) /\ N = Len(w)
  OBVIOUS
<1>2. u \in Seq(S) /\ N \in Nat /\ Len(u) = N + 1 /\ \A k \in 1..N : u[k] = w[k]
  BY <1>1
<1>3. PICK q : q = SubSeq(u, 1, N)
  OBVIOUS
<1>4. q \in Seq(S) /\ Len(q) = N /\ \A k \in 1..N : q[k] = u[k]
  <2>1. \A k \in 1..N : u[k] \in S
    BY <1>2
  <2>2. /\ SubSeq(u, 1, N) \in Seq(S)
        /\ Len(SubSeq(u, 1, N)) = IF 1 <= N THEN N - 1 + 1 ELSE 0
        /\ \A k \in 1..(N - 1 + 1) : SubSeq(u, 1, N)[k] = u[1 + k - 1]
    BY ONLY <1>2, <2>1, SubSeqProperties
  <2>3. \A k \in 1..N : k \in 1..(N - 1 + 1) /\ 1 + k - 1 = k
    BY <1>2
  <2>4. (IF 1 <= N THEN N - 1 + 1 ELSE 0) = N
    BY <1>2
  <2>5. QED BY <1>3, <2>2, <2>3, <2>4
<1>5. q = w
  BY <1>1, <1>2, <1>4, SeqEqual
<1>6. Len(u) - 1 = N
  BY <1>2
<1>7. QED BY <1>1, <1>3, <1>5, <1>6

\* A pop takes the last assumption off both stacks.
LEMMA PopStep ==
  ASSUME SolvingTypes, Inv, StacksMatch, assumps # <<>>, Pop
  PROVE  /\ Inv' /\ busy' = busy /\ formula' = formula /\ lost' = lost
         /\ StacksMatch' /\ assumps' = Front(assumps) /\ assumps' \in Seq(Lit \cup {0})
<1>0. assumps \in Seq(Lit \cup {0}) /\ assumps' = Front(assumps) /\ 0 \notin Lit
  BY Numbers DEF SolvingTypes, Pop
<1>1. PICK s, f, e : s = assumps /\ f = Front(assumps) /\ e = Last(assumps)
  OBVIOUS
<1>2. /\ f \in Seq(Lit \cup {0}) /\ e \in Lit \cup {0}
      /\ PushedOf(s) = IF e = 0 THEN PushedOf(f) ELSE Append(PushedOf(f), e)
  <2>1. s \in Seq(Lit \cup {0}) /\ s # <<>> /\ f = Front(s) /\ e = Last(s)
    BY <1>0, <1>1
  <2>2. QED BY <2>1, PushedFront
<1>3. PushedOf(s) = held
  BY <1>1 DEF StacksMatch
<1>4. assumps' = f
  BY <1>0, <1>1
<1>5. (IF e = 0 THEN UNCHANGED solver ELSE PopAssumptions(1))
  BY <1>1 DEF Pop
<1>6. CASE e = 0
  <2>1. UNCHANGED vars
    BY <1>5, <1>6 DEF solver
  <2>2. Inv'
    BY <2>1, UnchangedInv
  <2>3. PushedOf(assumps)' = held
    BY <1>2, <1>3, <1>4, <1>6
  <2>4. QED BY <1>0, <1>2, <1>4, <2>1, <2>2, <2>3 DEF vars, StacksMatch
<1>7. CASE e # 0
  <2>1. PopAssumptions(1)
    BY <1>5, <1>7
  <2>2. 1 \in 1..Len(held) /\ held' = SubSeq(held, 1, Len(held) - 1) /\ UNCHANGED <<formula, busy, lost>>
    BY <2>1 DEF PopAssumptions
  <2>3. Inv'
    BY <2>1, <2>2, PopInv
  <2>4. held = Append(PushedOf(f), e)
    BY <1>2, <1>3, <1>7
  <2>5. PICK w : w = PushedOf(f)
    OBVIOUS
  <2>6. w \in Seq(Lit) /\ e \in Lit
    BY <1>2, <1>7, <2>5, PushedSet
  <2>7. held = Append(w, e)
    BY <2>4, <2>5
  <2>8. held' = w
    BY <2>2, <2>6, <2>7, SubSeqOfAppend
  <2>9. PushedOf(assumps)' = held'
    BY <1>4, <2>5, <2>8
  <2>10. QED BY <1>0, <1>2, <1>4, <2>2, <2>3, <2>9 DEF StacksMatch
<1>8. QED BY <1>6, <1>7

-----------------------------------------------------------------------------
(***************************************************************************)
(* Calls that only change the graph.                                       *)
(***************************************************************************)
\* Between calls nothing has to be known of the last one.
LEMMA Cleared ==
  ASSUME SolvingTypes, CallOK, pc = "idle", Clear, assumps' = assumps
  PROVE  SolvingTypes' /\ CallOK' /\ UnsatAnswers' /\ SatAnswers'
<1>1. /\ call' = "none" /\ questions' = <<>> /\ got' = <<>> /\ before' = assumps
      /\ pc' = "idle" /\ togo' = togo
  BY DEF Clear
<1>2. SolvingTypes'
  <2>1. <<>> \in Seq(Literals) /\ <<>> \in Seq({"SAT", "UNSAT"}) /\ Len(got') <= Len(questions')
    BY <1>1
  <2>2. QED BY <1>1, <2>1 DEF SolvingTypes
<1>3. CallOK'
  BY <1>1 DEF CallOK, IdleOK, PushOK, PopOK, AskOK, SearchOK, Asks
<1>4. QED BY <1>1, <1>2, <1>3, NoAnswers

\* More of the graph: what was said of the graph before still holds.
LEMMA GraphStep ==
  ASSUME IInv, NEW m, Grown(man, m), Graph(m)
  PROVE  IInv'
<1>0. /\ pc = "idle" /\ man' = m /\ Clear
      /\ UNCHANGED <<solver, assumps, flags, solution>>
  BY DEF Graph
<1>1. /\ UNCHANGED <<formula, held, nodes, required, written, busy, aigAssignment, solved, assumps, vars>>
      /\ pc' = pc
  BY <1>0 DEF solver, vars, flags, solution, Clear
<1>2. /\ P!WF(man) /\ man.outputs \subseteq Lit /\ Grown(man, man')
      /\ SolvingTypes /\ CallOK /\ FormulaOK /\ FlagsOK /\ SolverOK
      /\ StacksMatch /\ ConesTranslated /\ AssignmentOK /\ AssignmentSolves
  BY <1>0 DEF IInv, GraphOK
<1>3. /\ man.numVars \in Nat /\ man'.numVars \in Nat /\ man.numVars <= man'.numVars
      /\ P!WF(man') /\ man'.outputs \subseteq Lit /\ man.outputs \subseteq man'.outputs
      /\ man.ands \subseteq man'.ands /\ man.inputs \subseteq man'.inputs
      /\ \A v \in man'.inputs : v <= man.numVars => v \in man.inputs
      /\ \A g \in man'.ands : g.lhs <= man.numVars => g \in man.ands
  BY <1>2, LitsAre DEF Grown
<1>4. SolvingTypes' /\ CallOK' /\ UnsatAnswers' /\ SatAnswers'
  BY <1>0, <1>1, <1>2, Cleared
<1>5. GraphOK'
  <2>1. \A k \in DOMAIN assumps : VarOf(assumps[k]) <= man'.numVars
    <3>1. ASSUME NEW k \in DOMAIN assumps PROVE VarOf(assumps[k]) <= man'.numVars
      <4>1. VarOf(assumps[k]) <= man.numVars
        BY DEF IInv, GraphOK
      <4>2. assumps[k] \in Lit \cup {0}
        BY <1>2 DEF SolvingTypes
      <4>3. VarOf(assumps[k]) \in Nat
        BY <4>2, Numbers DEF VarOf
      <4>4. QED BY <1>3, <4>1, <4>3
    <3>2. QED BY <3>1
  <2>2. assumps' = assumps /\ before' = assumps /\ questions' = <<>>
    BY <1>0 DEF Clear
  <2>3. QED BY <1>3, <2>1, <2>2 DEF GraphOK
<1>6. FormulaOK'
  BY <1>1, <1>2, <1>3 DEF FormulaOK, GateClauses
<1>7. \A l : Covered(l) => Covered(l)'
  BY <1>1, <1>3 DEF Covered
<1>8. FlagsOK'
  <2>1. required' \subseteq man'.outputs
    BY <1>1, <1>2, <1>3 DEF FlagsOK
  <2>2. \A v \in nodes' : \E g \in man'.ands : g.lhs = v
    BY <1>1, <1>2, <1>3 DEF FlagsOK
  <2>3. ~written' => \A o \in required' : Unit(-o) \in formula' /\ Covered(o)'
    BY <1>1, <1>2, <1>7 DEF FlagsOK
  <2>4. pc' = "idle"
    BY <1>0, <1>1
  <2>5. QED BY <2>1, <2>2, <2>3, <2>4 DEF FlagsOK
<1>9. SolverOK'
  BY <1>1, <1>2, UnchangedInv DEF SolverOK
<1>10. StacksMatch'
  BY <1>1, <1>2 DEF StacksMatch
<1>11. ConesTranslated'
  <2>1. SUFFICES ASSUME ~written, NEW g \in man'.ands, g.lhs \in nodes
                 PROVE  /\ GateClauses(g) \subseteq formula
                        /\ \A h \in man'.ands : h.lhs \in {VarOf(g.rhs0), VarOf(g.rhs1)} => h.lhs \in nodes
    BY <1>1 DEF ConesTranslated, GateClauses
  <2>2. PICK e \in man.ands : e.lhs = g.lhs
    BY <1>2, <2>1 DEF FlagsOK
  <2>3. g.lhs <= man.numVars /\ g.lhs \in Nat
    BY <1>2, <2>2, LitsAre
  <2>4. g \in man.ands
    BY <1>3, <2>3
  <2>5. /\ GateClauses(g) \subseteq formula
        /\ \A h \in man.ands : h.lhs \in {VarOf(g.rhs0), VarOf(g.rhs1)} => h.lhs \in nodes
    BY <1>2, <2>1, <2>4 DEF ConesTranslated
  <2>6. ASSUME NEW h \in man'.ands, h.lhs \in {VarOf(g.rhs0), VarOf(g.rhs1)}
        PROVE  h \in man.ands
    <3>1. VarOf(g.rhs0) < g.lhs /\ VarOf(g.rhs1) < g.lhs
      BY <1>2, <2>4, LitsAre
    <3>2. h.lhs \in Nat
      BY <1>3, LitsAre
    <3>3. h.lhs <= man.numVars
      BY <1>3, <2>3, <2>6, <3>1, <3>2
    <3>4. QED BY <1>3, <3>3
  <2>7. QED BY <2>5, <2>6
<1>12. AssignmentOK' /\ AssignmentSolves'
  <2>1. CASE aigAssignment = <<>>
    BY <1>1, <2>1 DEF AssignmentOK, AssignmentSolves
  <2>2. CASE aigAssignment # <<>>
    <3>1. /\ DOMAIN aigAssignment \subseteq man.inputs
          /\ \A v \in DOMAIN aigAssignment : aigAssignment[v] \in BOOLEAN
          /\ \A l \in solved.outputs \cup solved.assumed : l \in Lit /\ VarOf(l) <= man.numVars
      BY <1>2, <2>2 DEF AssignmentOK
    <3>2. AssignmentOK'
      <4>1. ASSUME NEW l \in solved.outputs \cup solved.assumed
            PROVE  l \in Lit /\ VarOf(l) <= man'.numVars
        <5>1. l \in Lit /\ VarOf(l) <= man.numVars /\ VarOf(l) \in Nat
          BY <3>1, Numbers
        <5>2. QED BY <1>3, <5>1
      <4>2. QED BY <1>1, <1>3, <3>1, <4>1 DEF AssignmentOK
    <3> DEFINE value(v) == v \in DOMAIN aigAssignment /\ aigAssignment[v]
               i == [v \in man.inputs |-> value(v)]
               j == [v \in man'.inputs |-> value(v)]
    <3>3. \A v : value(v) \in BOOLEAN
      BY <3>1
    <3> HIDE DEF value
    <3>4. /\ \A v \in man.inputs : i[v] \in BOOLEAN
          /\ \A v \in man'.inputs : j[v] \in BOOLEAN
          /\ \A v \in man.inputs : i[v] = j[v]
      BY <1>3, <3>3
    <3>5. /\ \A o \in solved.outputs : ~G!Val(G!Eval(man, i), o)
          /\ \A l \in solved.assumed : G!Val(G!Eval(man, i), l)
      BY <1>2, <2>2 DEF AssignmentSolves, Meets, value
    <3> HIDE DEF i, j
    <3>6. \A l \in solved.outputs \cup solved.assumed :
            G!Val(G!Eval(man', j), l) <=> G!Val(G!Eval(man, i), l)
      BY <1>2, <3>1, <3>4, EvalKeeps
    <3>7. /\ \A o \in solved.outputs : ~G!Val(G!Eval(man', j), o)
          /\ \A l \in solved.assumed : G!Val(G!Eval(man', j), l)
      BY <3>5, <3>6
    <3>8. AssignmentSolves'
      BY <1>1, <3>7 DEF AssignmentSolves, Meets, j, value
    <3>9. QED BY <3>2, <3>8
  <2>3. QED BY <2>1, <2>2
<1>13. QED
  BY <1>4, <1>5, <1>6, <1>8, <1>9, <1>10, <1>11, <1>12 DEF IInv

-----------------------------------------------------------------------------
(***************************************************************************)
(* The calls that use funcsat.                                             *)
(***************************************************************************)
\* Literals that a question or a vector of assumptions is about.
OfGraph(qs) ==
  qs \in Seq(Literals) /\ \A k \in DOMAIN qs : qs[k] \in Lit => VarOf(qs[k]) <= man.numVars

\* A call that begins only notes what it is about.
LEMMA BeginStep ==
  ASSUME IInv, NEW f, NEW qs, OfGraph(qs), NEW next \in {"push", "pop", "ask", "translate"},
         NEW pops \in Nat, Begin(f, qs, next, pops), CallOK'
  PROVE  IInv'
<1>0. /\ pc = "idle" /\ pc' = next /\ call' = f /\ questions' = qs /\ got' = <<>>
      /\ togo' = pops /\ before' = assumps
      /\ UNCHANGED <<solver, man, assumps, flags, solution>>
  BY DEF Begin
<1>1. /\ UNCHANGED <<formula, held, nodes, required, written, busy, assumps, vars, man>>
  BY <1>0 DEF solver, vars, flags
<1>2. /\ SolvingTypes /\ GraphOK /\ FormulaOK /\ FlagsOK /\ SolverOK /\ StacksMatch
      /\ ConesTranslated /\ AssignmentOK /\ AssignmentSolves
  BY DEF IInv
<1>3. SolvingTypes'
  <2>1. <<>> \in Seq({"SAT", "UNSAT"}) /\ Len(<<>>) = 0 /\ Len(qs) \in Nat /\ qs \in Seq(Literals)
    BY DEF OfGraph
  <2>2. next \in {"idle", "push", "pop", "ask", "translate", "require", "search"}
    OBVIOUS
  <2>3. Len(got') <= Len(questions')
    BY <1>0, <2>1
  <2>4. QED BY <1>0, <1>2, <2>1, <2>2, <2>3 DEF SolvingTypes
<1>4. GraphOK'
  BY <1>0, <1>1, <1>2 DEF GraphOK, OfGraph
<1>5. FormulaOK' /\ ConesTranslated' /\ AssignmentOK' /\ AssignmentSolves'
  BY <1>0, <1>1, <1>2, TranslationKept, SolutionKept
<1>6. FlagsOK'
  BY <1>0, <1>1, <1>2, FlagsKept
<1>7. SolverOK'
  BY <1>0, <1>1, <1>2, UnchangedInv DEF SolverOK
<1>8. StacksMatch'
  BY <1>1, <1>2 DEF StacksMatch
<1>9. QED BY <1>0, <1>3, <1>4, <1>5, <1>6, <1>7, <1>8, NoAnswers DEF IInv

\* Every sequence is a prefix of itself.
LEMMA PrefixSelf == \A s \in Seq(Lit \cup {0}) : Prefix(s, s)
BY DEF Prefix

\* A question is about literals of the graph.
LEMMA AskedOfGraph ==
  ASSUME NEW x \in Lit, VarOf(x) <= man.numVars
  PROVE  OfGraph(<<x>>) /\ OfGraph(<<-x>>) /\ OfGraph(<<-x, x>>) /\ OfGraph(<<G!LITERAL_TRUE>>)
<1>1. x \in Literals /\ -x \in Literals /\ G!LITERAL_TRUE \in Literals
  BY Numbers DEF Literals, G!Constants
<1>2. VarOf(-x) <= man.numVars /\ G!LITERAL_TRUE \notin Lit
  BY Numbers
<1>3. OfGraph(<<x>>)
  BY <1>1 DEF OfGraph
<1>4. OfGraph(<<-x>>)
  BY <1>1, <1>2 DEF OfGraph
<1>5. OfGraph(<<-x, x>>)
  BY <1>1, <1>2 DEF OfGraph
<1>6. OfGraph(<<G!LITERAL_TRUE>>)
  BY <1>1, <1>2 DEF OfGraph
<1>7. QED BY <1>3, <1>4, <1>5, <1>6

\* A question begins.
LEMMA AskBegins ==
  ASSUME IInv, NEW f \in Asks, NEW qs, OfGraph(qs), Len(qs) = IF f = "bfCheckStatus" THEN 2 ELSE 1,
         Begin(f, qs, "ask", 0)
  PROVE  IInv'
<1>1. /\ pc' = "ask" /\ call' = f /\ questions' = qs /\ got' = <<>> /\ before' = assumps
      /\ assumps' = assumps
  BY DEF Begin
<1>2. Len(questions') = (IF f = "bfCheckStatus" THEN 2 ELSE 1) /\ Len(got') = 0
  BY <1>1
<1>3. CallOK'
  BY <1>1, <1>2 DEF CallOK, IdleOK, PushOK, PopOK, AskOK, SearchOK, Asks
<1>4. 0 \in Nat /\ "ask" \in {"push", "pop", "ask", "translate"}
  OBVIOUS
<1>5. QED BY <1>3, <1>4, BeginStep

\* bfSolve begins.
LEMMA SolveBegins ==
  ASSUME IInv, bfSolve
  PROVE  IInv'
<1>1. Begin("bfSolve", <<G!LITERAL_TRUE>>, "translate", 0)
  BY DEF bfSolve
<1>2. /\ pc' = "translate" /\ call' = "bfSolve" /\ questions' = <<G!LITERAL_TRUE>> /\ got' = <<>>
      /\ before' = assumps /\ assumps' = assumps
  BY <1>1 DEF Begin
<1>3. Len(questions') = 1 /\ Len(got') = 0
  BY <1>2
<1>4. questions' = <<G!LITERAL_TRUE>>'
  BY <1>2 DEF G!LITERAL_TRUE
<1>5. CallOK'
  BY <1>2, <1>3, <1>4 DEF CallOK, IdleOK, PushOK, PopOK, AskOK, SearchOK, Asks
<1>6. OfGraph(<<G!LITERAL_TRUE>>)
  <2>1. G!LITERAL_TRUE \in Literals /\ G!LITERAL_TRUE \notin Lit
    BY Numbers DEF Literals, G!Constants
  <2>2. QED BY <2>1 DEF OfGraph
<1>7. 0 \in Nat /\ "translate" \in {"push", "pop", "ask", "translate"}
  OBVIOUS
<1>8. QED BY <1>1, <1>5, <1>6, <1>7, BeginStep

\* A push of a vector begins.
LEMMA PushBegins ==
  ASSUME IInv, NEW ps \in Vectors, bfvPushAssumption(ps)
  PROVE  IInv'
<1>1. Begin("bfvPushAssumption", ps, "push", 0)
  BY DEF bfvPushAssumption
<1>2. /\ pc' = "push" /\ call' = "bfvPushAssumption" /\ questions' = ps /\ got' = <<>>
      /\ before' = assumps /\ assumps' = assumps
  BY <1>1 DEF Begin
<1>3. PICK n \in 1..MaxVector : ps \in [1..n -> Asking]
  BY DEF Vectors
<1>4. n \in Nat
  BY <1>3, SolvingAssumption
<1>5. Asking \subseteq Literals /\ \A l \in Asking : l \in Lit => VarOf(l) <= man.numVars
  <2>1. ASSUME NEW l \in Asking, l \in Lit PROVE VarOf(l) <= man.numVars
    BY <2>1, Numbers DEF Asking, Lits
  <2>2. QED BY <2>1 DEF Asking, Lits, Literals
<1>6. ps \in Seq(Literals)
  BY <1>3, <1>4, <1>5
<1>7. OfGraph(ps)
  BY <1>3, <1>5, <1>6 DEF OfGraph
<1>8. assumps \in Seq(Lit \cup {0}) /\ Len(assumps) \in Nat /\ Len(ps) \in Nat
  BY <1>6 DEF IInv, SolvingTypes
<1>9. PushOK'
  <2>1. Prefix(assumps, assumps) /\ Len(assumps) - Len(assumps) = 0
    BY <1>8, PrefixSelf
  <2>2. Prefix(before, assumps)' /\ (Len(assumps) - Len(before))' = 0
    BY <1>2, <2>1 DEF Prefix
  <2>3. 0 <= Len(questions')
    BY <1>2, <1>8
  <2>4. QED BY <1>2, <2>2, <2>3 DEF PushOK
<1>10. CallOK'
  BY <1>2, <1>9 DEF CallOK, IdleOK, PopOK, AskOK, SearchOK, Asks
<1>11. 0 \in Nat /\ "push" \in {"push", "pop", "ask", "translate"}
  OBVIOUS
<1>12. QED BY <1>1, <1>7, <1>10, <1>11, BeginStep

\* A pop begins.
LEMMA PopBegins ==
  ASSUME IInv, NEW num, bfPopAssumptions(num)
  PROVE  IInv'
<1>1. num \in 1..Len(assumps) /\ Begin("bfPopAssumptions", <<>>, "pop", num)
  BY DEF bfPopAssumptions
<1>2. /\ pc' = "pop" /\ call' = "bfPopAssumptions" /\ questions' = <<>> /\ got' = <<>>
      /\ togo' = num /\ before' = assumps /\ assumps' = assumps
  BY <1>1 DEF Begin
<1>3. CallOK'
  BY <1>1, <1>2 DEF CallOK, IdleOK, PushOK, PopOK, AskOK, SearchOK, Asks
<1>4. Len(assumps) \in Nat
  BY DEF IInv, SolvingTypes
<1>5. num \in Nat /\ "pop" \in {"push", "pop", "ask", "translate"}
  BY <1>1, <1>4
<1>6. OfGraph(<<>>)
  <2>1. <<>> \in Seq(Literals) /\ DOMAIN <<>> = {}
    OBVIOUS
  <2>2. QED BY <2>1 DEF OfGraph
<1>7. QED BY <1>1, <1>3, <1>5, <1>6, BeginStep

-----------------------------------------------------------------------------
(***************************************************************************)
(* The steps of a call that push and pop.                                  *)
(***************************************************************************)
\* t is s with e put on it.
Appended(s, e, t) ==
  /\ Len(t) = Len(s) + 1 /\ t[Len(s) + 1] = e
  /\ DOMAIN s = 1..Len(s) /\ DOMAIN t = 1..(Len(s) + 1) /\ Len(s) \in Nat
  /\ \A k \in 1..Len(s) : t[k] = s[k]

\* Append, place by place.
LEMMA AppendIs ==
  ASSUME NEW S, NEW s \in Seq(S), NEW e \in S
  PROVE  Append(s, e) \in Seq(S) /\ Appended(s, e, Append(s, e))
<1>1. PICK t : t = Append(s, e)
  OBVIOUS
<1>2. t \in Seq(S) /\ Len(t) = Len(s) + 1 /\ Len(s) \in Nat
  BY <1>1
<1>3. DOMAIN s = 1..Len(s) /\ DOMAIN t = 1..(Len(s) + 1)
  BY <1>2
<1>4. t[Len(s) + 1] = e /\ \A k \in 1..Len(s) : t[k] = s[k]
  BY <1>1
<1>5. QED BY <1>1, <1>2, <1>3, <1>4 DEF Appended

\* A step of a call that changes funcsat and the stacks only.
LEMMA StackStep ==
  ASSUME IInv, pc \in {"push", "pop", "ask"},
         UNCHANGED <<man, flags, solution, questions, before, formula, lost, busy>>,
         pc' \in {"idle", "push", "pop", "ask", "translate"},
         assumps' \in Seq(Lit \cup {0}), \A k \in DOMAIN assumps' : VarOf(assumps'[k]) <= man.numVars,
         got' \in Seq({"SAT", "UNSAT"}), Len(got') <= Len(questions), togo' \in Nat,
         Inv', StacksMatch', CallOK', UnsatAnswers', SatAnswers'
  PROVE  IInv'
<1>1. /\ SolvingTypes /\ GraphOK /\ FormulaOK /\ FlagsOK /\ SolverOK
      /\ ConesTranslated /\ AssignmentOK /\ AssignmentSolves
  BY DEF IInv
<1>2. SolvingTypes'
  BY <1>1 DEF SolvingTypes
<1>3. GraphOK'
  BY <1>1 DEF GraphOK
<1>4. nodes' = nodes /\ written' = written
  BY DEF flags
<1>5. FormulaOK' /\ ConesTranslated' /\ AssignmentOK' /\ AssignmentSolves'
  BY <1>1, <1>4, TranslationKept, SolutionKept
<1>6. FlagsOK'
  BY <1>1, FlagsKept
<1>7. SolverOK'
  BY <1>1 DEF SolverOK
<1>8. QED BY <1>2, <1>3, <1>5, <1>6, <1>7 DEF IInv

\* A prefix of the same length is the sequence.
LEMMA PrefixAll ==
  ASSUME NEW s \in Seq(Lit \cup {0}), NEW t \in Seq(Lit \cup {0}), Prefix(s, t), Len(s) = Len(t)
  PROVE  s = t
BY SeqEqual DEF Prefix

\* What is assumed in the middle of a push was assumed before or is in the vector.
LEMMA PushedWithin ==
  ASSUME SolvingTypes, PushOK, pc = "push"
  PROVE  Assumed \subseteq Given \cup Range(questions)
<1>1. /\ assumps \in Seq(Lit \cup {0}) /\ before \in Seq(Lit \cup {0}) /\ questions \in Seq(Literals)
      /\ Len(assumps) \in Nat /\ Len(before) \in Nat /\ Len(questions) \in Nat
      /\ DOMAIN assumps = 1..Len(assumps) /\ DOMAIN before = 1..Len(before)
      /\ DOMAIN questions = 1..Len(questions)
  BY DEF SolvingTypes
<1>2. /\ Prefix(before, assumps) /\ Len(assumps) - Len(before) <= Len(questions)
      /\ \A k \in 1..(Len(assumps) - Len(before)) :
           assumps[Len(before) + k] = AssumeOf(questions[k])
  BY DEF PushOK
<1>3. ASSUME NEW k \in 1..Len(assumps), assumps[k] # 0
      PROVE  assumps[k] \in Given \cup Range(questions)
  <2>1. CASE k <= Len(before)
    <3>1. k \in DOMAIN before /\ before[k] = assumps[k]
      BY <1>1, <1>2, <2>1 DEF Prefix
    <3>2. QED BY <1>3, <3>1 DEF Given, Range
  <2>2. CASE ~(k <= Len(before))
    <3>1. PICK j \in 1..(Len(assumps) - Len(before)) : Len(before) + j = k
      <4>1. k - Len(before) \in 1..(Len(assumps) - Len(before)) /\ Len(before) + (k - Len(before)) = k
        BY <1>1, <2>2
      <4>2. QED BY <4>1
    <3>2. assumps[k] = AssumeOf(questions[j])
      BY <1>2, <3>1
    <3>3. j \in DOMAIN questions
      BY <1>1, <1>2
    <3>4. assumps[k] = questions[j]
      BY <1>3, <3>2 DEF AssumeOf
    <3>5. QED BY <3>3, <3>4 DEF Range
  <2>3. QED BY <2>1, <2>2
<1>4. QED BY <1>1, <1>3 DEF Assumed, Range

\* A vector of assumptions, one literal further.
LEMMA PushNextStep ==
  ASSUME IInv, PushNext
  PROVE  IInv'
<1>0. /\ pc = "push" /\ UNCHANGED <<man, flags, solution, call, questions, before>>
      /\ SolvingTypes /\ GraphOK /\ FormulaOK /\ SolverOK /\ Inv /\ StacksMatch /\ CallOK
      /\ UnsatAnswers /\ SatAnswers
  BY DEF PushNext, IInv, SolverOK
<1>1. /\ call = "bfvPushAssumption" /\ got = <<>> /\ Prefix(before, assumps) /\ PushOK
      /\ Len(assumps) - Len(before) <= Len(questions)
      /\ \A k \in 1..(Len(assumps) - Len(before)) :
           assumps[Len(before) + k] = AssumeOf(questions[k])
  BY <1>0 DEF CallOK, PushOK
<1>2. /\ assumps \in Seq(Lit \cup {0}) /\ before \in Seq(Lit \cup {0}) /\ questions \in Seq(Literals)
      /\ Len(assumps) \in Nat /\ Len(before) \in Nat /\ Len(questions) \in Nat
      /\ DOMAIN questions = 1..Len(questions) /\ togo \in Nat
  BY <1>0 DEF SolvingTypes
<1>3. PICK n \in Nat : n = Len(assumps) - Len(before)
  <2>1. PICK i, j : i = Len(assumps) /\ j = Len(before)
    OBVIOUS
  <2>2. i \in Nat /\ j \in Nat /\ j <= i
    BY <1>1, <1>2, <2>1 DEF Prefix
  <2>3. i - j \in Nat
    BY <2>2
  <2>4. QED BY <2>1, <2>3
<1>4. nodes' = nodes /\ written' = written
  BY <1>0 DEF flags
<1>5. CASE n = Len(questions)
  <2>1. pc' = "idle" /\ UNCHANGED <<solver, assumps, got, togo>>
    BY <1>3, <1>5 DEF PushNext
  <2>2. UNCHANGED vars
    BY <2>1 DEF solver
  <2>3. Inv' /\ formula' = formula /\ lost' = lost /\ busy' = busy /\ held' = held
    BY <1>0, <2>2, UnchangedInv DEF vars
  <2>4. StacksMatch'
    BY <1>0, <2>1, <2>3 DEF StacksMatch
  <2>5. CallOK'
    BY <1>0, <1>1, <2>1 DEF CallOK, IdleOK, PushOK, PopOK, AskOK, SearchOK, Asks
  <2>6. UnsatAnswers' /\ SatAnswers'
    BY <1>1, <2>1, NoAnswers
  <2>7. \A k \in DOMAIN assumps' : VarOf(assumps'[k]) <= man.numVars
    BY <1>0, <2>1 DEF GraphOK
  <2>8. got' \in Seq({"SAT", "UNSAT"}) /\ Len(got') <= Len(questions)
    BY <1>0, <2>1 DEF SolvingTypes
  <2>9. QED BY <1>0, <1>2, <2>1, <2>3, <2>4, <2>5, <2>6, <2>7, <2>8, StackStep
<1>6. CASE n # Len(questions)
  <2>1. PICK p : p = questions[n + 1]
    OBVIOUS
  <2>2. /\ Push(p)
        /\ IF Refused(p)
           THEN /\ got' = <<"UNSAT">> /\ togo' = n
                /\ pc' = IF n = 0 THEN "idle" ELSE "pop"
           ELSE UNCHANGED <<pc, got, togo>>
    BY <1>3, <1>6, <2>1 DEF PushNext
  <2>3. n + 1 \in DOMAIN questions
    BY <1>1, <1>2, <1>3, <1>6
  <2>4. p \in Literals /\ (p \in Lit => VarOf(p) <= man.numVars) /\ p \in Range(questions)
    BY <1>0, <1>2, <2>1, <2>3 DEF GraphOK, Range
  <2>5. /\ Inv' /\ busy' = busy /\ formula' = formula /\ lost' = lost
        /\ StacksMatch' /\ assumps' \in Seq(Lit \cup {0})
        /\ Refused(p) => assumps' = assumps
        /\ ~Refused(p) => assumps' = Append(assumps, AssumeOf(p)) /\ AssumeOf(p) \in Lit \cup {0}
    BY <1>0, <2>2, <2>4, PushStep
  <2>6. CASE Refused(p)
    <3>1. /\ assumps' = assumps /\ got' = <<"UNSAT">> /\ togo' = n
          /\ pc' = IF n = 0 THEN "idle" ELSE "pop"
      BY <2>2, <2>5, <2>6
    <3>2. ~Solvable(Given \cup Range(questions))
      <4>1. Assumed \subseteq Given \cup Range(questions)
        BY <1>0, <1>1, PushedWithin
      <4>2. QED BY <1>0, <2>4, <2>6, <4>1, RefusedRight
    <3>3. UnsatAnswers'
      <4>1. (~Solvable(Given \cup Range(questions)))'
        BY <1>0, <3>2 DEF Solvable, Meets, Given
      <4>2. QED BY <1>0, <1>1, <4>1 DEF UnsatAnswers
    <3>4. SatAnswers'
      <4>1. \A k \in DOMAIN got' : got'[k] # "SAT"
        BY <3>1
      <4>2. QED BY <4>1 DEF SatAnswers, SatAnswersRight
    <3>5. CallOK'
      <4>1. n = 0 => assumps = before
        <5>1. n = 0 => Len(before) = Len(assumps)
          BY <1>2, <1>3
        <5>2. QED BY <1>1, <1>2, <5>1, PrefixAll
      <4>2. IdleOK'
        BY <1>0, <3>1, <4>1 DEF IdleOK
      <4>3. n # 0 => n \in 1..Len(assumps)
        BY <1>2, <1>3
      <4>4. PopOK'
        BY <1>0, <1>1, <1>3, <3>1, <4>3 DEF PopOK, Prefix
      <4>5. QED
        BY <1>0, <1>1, <3>1, <4>2, <4>4 DEF CallOK, PushOK, AskOK, SearchOK, Asks
    <3>6. \A k \in DOMAIN assumps' : VarOf(assumps'[k]) <= man.numVars
      BY <1>0, <3>1 DEF GraphOK
    <3>7. got' \in Seq({"SAT", "UNSAT"}) /\ Len(got') <= Len(questions)
      <4>1. Len(got') = 1 /\ got' \in Seq({"SAT", "UNSAT"})
        BY <3>1
      <4>2. QED BY <1>2, <2>3, <4>1
    <3>8. pc' \in {"idle", "push", "pop", "ask", "translate"} /\ togo' \in Nat
      BY <3>1
    <3>9. QED BY <1>0, <2>5, <3>3, <3>4, <3>5, <3>6, <3>7, <3>8, StackStep
  <2>7. CASE ~Refused(p)
    <3>1. /\ assumps' = Append(assumps, AssumeOf(p)) /\ AssumeOf(p) \in Lit \cup {0}
          /\ UNCHANGED <<pc, got, togo>>
      BY <2>2, <2>5, <2>7
    <3>2. Appended(assumps, AssumeOf(p), assumps')
      BY <1>2, <3>1, AppendIs
    <3>3. VarOf(AssumeOf(p)) <= man.numVars
      <4>1. p # G!LITERAL_FALSE
        BY <2>7 DEF Refused
      <4>2. p \in Lit \/ p = G!LITERAL_TRUE
        BY <2>4, <4>1 DEF Literals, G!Constants
      <4>3. man.numVars \in Nat /\ VarOf(0) = 0
        BY <1>0, LitsAre DEF GraphOK, VarOf
      <4>4. QED BY <2>4, <4>2, <4>3 DEF AssumeOf
    <3>4. \A k \in DOMAIN assumps' : VarOf(assumps'[k]) <= man.numVars
      <4>1. \A k \in DOMAIN assumps' : k = Len(assumps) + 1 \/ k \in DOMAIN assumps
        BY <1>2, <3>2 DEF Appended
      <4>2. QED BY <1>0, <3>2, <3>3, <4>1 DEF GraphOK, Appended
    <3>5. PushOK'
      <4>1. Prefix(before, assumps')
        BY <1>1, <1>2, <3>2 DEF Prefix, Appended
      <4>2. Len(assumps') - Len(before) = n + 1 /\ n + 1 <= Len(questions)
        BY <1>2, <1>3, <2>3, <3>2 DEF Appended
      <4>3. ASSUME NEW k \in 1..(n + 1)
            PROVE  assumps'[Len(before) + k] = AssumeOf(questions[k])
        <5>1. CASE k = n + 1
          <6>1. Len(before) + k = Len(assumps) + 1
            BY <1>2, <1>3, <5>1
          <6>2. QED BY <2>1, <3>2, <5>1, <6>1 DEF Appended
        <5>2. CASE k # n + 1
          <6>1. k \in 1..n /\ Len(before) + k \in 1..Len(assumps)
            BY <1>2, <1>3, <5>2
          <6>2. assumps'[Len(before) + k] = assumps[Len(before) + k]
            BY <3>2, <6>1 DEF Appended
          <6>3. QED BY <1>1, <1>3, <6>1, <6>2
        <5>3. QED BY <5>1, <5>2
      <4>4. /\ call' = "bfvPushAssumption" /\ got' = <<>> /\ before' = before /\ questions' = questions
        BY <1>0, <1>1, <3>1
      <4>5. Prefix(before, assumps)'
        BY <4>1, <4>4 DEF Prefix
      <4>6. /\ Len(assumps') - Len(before') <= Len(questions')
            /\ \A k \in 1..(Len(assumps') - Len(before')) :
                 assumps'[Len(before') + k] = AssumeOf(questions'[k])
        BY <4>2, <4>3, <4>4
      <4>7. QED BY <4>4, <4>5, <4>6 DEF PushOK, AssumeOf
    <3>6. CallOK'
      BY <1>0, <1>1, <3>1, <3>5 DEF CallOK, IdleOK, PopOK, AskOK, SearchOK, Asks
    <3>7. UnsatAnswers' /\ SatAnswers'
      BY <1>1, <3>1, NoAnswers
    <3>8. /\ got' \in Seq({"SAT", "UNSAT"}) /\ Len(got') <= Len(questions)
          /\ pc' \in {"idle", "push", "pop", "ask", "translate"} /\ togo' \in Nat
      BY <1>0, <1>2, <3>1 DEF SolvingTypes
    <3>9. QED BY <1>0, <2>5, <3>4, <3>6, <3>7, <3>8, StackStep
  <2>8. QED BY <2>6, <2>7
<1>7. QED BY <1>5, <1>6

\* A question is pushed as an assumption; one that is refused is answered.
LEMMA AskNextStep ==
  ASSUME IInv, AskNext
  PROVE  IInv'
<1>0. /\ pc = "ask" /\ UNCHANGED <<man, flags, solution, call, questions, togo, before>>
      /\ SolvingTypes /\ GraphOK /\ FormulaOK /\ SolverOK /\ Inv /\ StacksMatch /\ CallOK
      /\ UnsatAnswers /\ SatAnswers
  BY DEF AskNext, IInv, SolverOK
<1>1. call \in Asks /\ assumps = before /\ Len(got) < Len(questions)
  BY <1>0 DEF CallOK, AskOK
<1>2. /\ assumps \in Seq(Lit \cup {0}) /\ questions \in Seq(Literals) /\ got \in Seq({"SAT", "UNSAT"})
      /\ Len(assumps) \in Nat /\ Len(questions) \in Nat /\ Len(got) \in Nat
      /\ DOMAIN questions = 1..Len(questions) /\ togo \in Nat
  BY <1>0 DEF SolvingTypes
<1>3. PICK n \in Nat : n = Len(got)
  BY <1>2
<1>4. PICK p : p = questions[n + 1]
  OBVIOUS
<1>5. /\ Push(p)
      /\ IF Refused(p)
         THEN /\ got' = Append(got, "UNSAT")
              /\ pc' = IF n + 1 < Len(questions) THEN "ask" ELSE "idle"
         ELSE pc' = "translate" /\ UNCHANGED got
  BY <1>3, <1>4 DEF AskNext
<1>6. n + 1 \in DOMAIN questions /\ n + 1 <= Len(questions)
  BY <1>1, <1>2, <1>3
<1>7. p \in Literals /\ (p \in Lit => VarOf(p) <= man.numVars)
  BY <1>0, <1>2, <1>4, <1>6 DEF GraphOK
<1>8. /\ Inv' /\ busy' = busy /\ formula' = formula /\ lost' = lost
      /\ StacksMatch' /\ assumps' \in Seq(Lit \cup {0})
      /\ Refused(p) => assumps' = assumps
      /\ ~Refused(p) => assumps' = Append(assumps, AssumeOf(p)) /\ AssumeOf(p) \in Lit \cup {0}
  BY <1>0, <1>5, <1>7, PushStep
<1>9. nodes' = nodes /\ written' = written /\ man' = man /\ call' = call /\ questions' = questions
      /\ before' = before /\ togo' = togo
  BY <1>0 DEF flags
<1>10. CASE Refused(p)
  <2>1. /\ assumps' = assumps /\ got' = Append(got, "UNSAT")
        /\ pc' = IF n + 1 < Len(questions) THEN "ask" ELSE "idle"
    BY <1>5, <1>8, <1>10
  <2>2. got' \in Seq({"SAT", "UNSAT"}) /\ Appended(got, "UNSAT", got')
    <3>1. "UNSAT" \in {"SAT", "UNSAT"}
      OBVIOUS
    <3>2. QED BY <1>2, <2>1, <3>1, AppendIs
  <2>3. Len(got') = n + 1 /\ got'[n + 1] = "UNSAT" /\ DOMAIN got' = 1..(n + 1) /\ DOMAIN got = 1..n
        /\ \A k \in 1..n : got'[k] = got[k]
    BY <1>3, <2>2 DEF Appended
  <2>4. \A k \in DOMAIN got' : k = n + 1 \/ k \in DOMAIN got
    BY <2>3
  <2>5. ~Solvable(Given \cup {p})
    <3>1. Assumed \subseteq Given \cup {p}
      BY <1>1 DEF Assumed, Given
    <3>2. QED BY <1>0, <1>7, <1>10, <3>1, RefusedRight
  <2>6. \A ls : Solvable(ls)' <=> Solvable(ls)
    BY <1>9 DEF Solvable, Meets
  <2>7. Given' = Given
    BY <1>9 DEF Given
  <2>8. call # "bfvPushAssumption"
    BY <1>1 DEF Asks
  <2>9. UnsatAnswers'
    <3>1. \A k \in DOMAIN got' : got'[k] = "UNSAT" => ~Solvable(Given \cup {questions[k]})
      <4>1. TAKE k \in DOMAIN got'
      <4>2. HAVE got'[k] = "UNSAT"
      <4>3. CASE k = n + 1
        BY <1>4, <2>5, <4>3
      <4>4. CASE k \in DOMAIN got
        <5>1. got[k] = "UNSAT"
          BY <2>3, <4>2, <4>4
        <5>2. QED BY <1>0, <2>8, <4>4, <5>1 DEF UnsatAnswers
      <4>5. QED BY <2>4, <4>3, <4>4
    <3>2. QED BY <1>9, <2>6, <2>7, <2>8, <3>1 DEF UnsatAnswers
  <2>10. SatAnswers'
    <3>1. SUFFICES ASSUME lost = {} /\ ~written, NEW k \in DOMAIN got', got'[k] = "SAT"
                   PROVE  Solvable(Given \cup {questions[k]})
      BY <1>8, <1>9, <2>6, <2>7 DEF SatAnswers, SatAnswersRight
    <3>2. k \in DOMAIN got /\ got[k] = "SAT"
      BY <2>3, <2>4, <3>1
    <3>3. QED BY <1>0, <3>1, <3>2 DEF SatAnswers, SatAnswersRight
  <2>11. CallOK'
    <3>1. pc' = "ask" => Len(got') < Len(questions')
      BY <1>9, <2>1, <2>3
    <3>2. AskOK' /\ IdleOK'
      BY <1>1, <1>9, <2>1, <3>1 DEF AskOK, IdleOK
    <3>3. QED BY <1>0, <1>1, <1>9, <2>1, <3>2 DEF CallOK, PushOK, PopOK, SearchOK, Asks
  <2>12. \A k \in DOMAIN assumps' : VarOf(assumps'[k]) <= man.numVars
    BY <1>0, <2>1 DEF GraphOK
  <2>13. pc' \in {"idle", "push", "pop", "ask", "translate"} /\ Len(got') <= Len(questions) /\ togo' \in Nat
    BY <1>2, <1>6, <1>9, <2>1, <2>3
  <2>14. QED BY <1>0, <1>8, <2>2, <2>9, <2>10, <2>11, <2>12, <2>13, StackStep
<1>11. CASE ~Refused(p)
  <2>1. /\ assumps' = Append(assumps, AssumeOf(p)) /\ AssumeOf(p) \in Lit \cup {0}
        /\ pc' = "translate" /\ got' = got
    BY <1>5, <1>8, <1>11
  <2>2. Appended(assumps, AssumeOf(p), assumps')
    BY <1>2, <2>1, AppendIs
  <2>3. VarOf(AssumeOf(p)) <= man.numVars
    <3>1. p # G!LITERAL_FALSE
      BY <1>11 DEF Refused
    <3>2. p \in Lit \/ p = G!LITERAL_TRUE
      BY <1>7, <3>1 DEF Literals, G!Constants
    <3>3. man.numVars \in Nat /\ VarOf(0) = 0
      BY <1>0, LitsAre DEF GraphOK, VarOf
    <3>4. QED BY <1>7, <3>2, <3>3 DEF AssumeOf
  <2>4. \A k \in DOMAIN assumps' : VarOf(assumps'[k]) <= man.numVars
    <3>1. \A k \in DOMAIN assumps' : k = Len(assumps) + 1 \/ k \in DOMAIN assumps
      BY <1>2, <2>2 DEF Appended
    <3>2. QED BY <1>0, <2>2, <2>3, <3>1 DEF GraphOK, Appended
  <2>5. UnsatAnswers' /\ SatAnswers'
    BY <1>0, <1>8, <1>9, <2>1, AnswersKept
  <2>6. SearchOK'
    <3>1. Prefix(before, assumps')
      BY <1>1, <1>2, <2>2 DEF Prefix, Appended
    <3>2. Len(assumps') = Len(before) + 1
      BY <1>1, <2>2 DEF Appended
    <3>3. assumps'[Len(assumps')] = AssumeOf(questions[Len(got) + 1])
      BY <1>3, <1>4, <2>2 DEF Appended
    <3>4. AssumeOf(questions[Len(got) + 1])' = AssumeOf(questions[Len(got) + 1])
      BY <1>9, <2>1 DEF AssumeOf
    <3>5. Prefix(before, assumps)'
      BY <1>9, <3>1 DEF Prefix
    <3>6. QED BY <1>1, <1>9, <2>1, <3>2, <3>3, <3>4, <3>5 DEF SearchOK, Asks
  <2>7. CallOK'
    BY <1>0, <1>1, <1>9, <2>1, <2>6 DEF CallOK, IdleOK, PushOK, PopOK, AskOK, Asks
  <2>8. got' \in Seq({"SAT", "UNSAT"}) /\ Len(got') <= Len(questions) /\ togo' \in Nat
        /\ pc' \in {"idle", "push", "pop", "ask", "translate"}
    BY <1>0, <1>2, <1>9, <2>1 DEF SolvingTypes
  <2>9. QED BY <1>0, <1>8, <2>4, <2>5, <2>7, <2>8, StackStep
<1>12. QED BY <1>10, <1>11

\* One assumption is popped.
LEMMA PopNextStep ==
  ASSUME IInv, PopNext
  PROVE  IInv'
<1>0. /\ pc = "pop" /\ Pop /\ togo' = togo - 1
      /\ pc' = IF togo > 1 THEN "pop"
               ELSE IF call = "bfCheckStatus" /\ Len(got) = 1 THEN "ask" ELSE "idle"
      /\ UNCHANGED <<man, flags, solution, call, questions, got, before>>
      /\ SolvingTypes /\ GraphOK /\ FormulaOK /\ SolverOK /\ Inv /\ StacksMatch /\ CallOK
      /\ UnsatAnswers /\ SatAnswers
  BY DEF PopNext, IInv, SolverOK
<1>1. /\ togo \in 1..Len(assumps)
      /\ \/ call = "bfPopAssumptions" /\ got = <<>>
         \/ /\ Prefix(before, assumps) /\ togo = Len(assumps) - Len(before)
            /\ \/ call = "bfvPushAssumption"
               \/ call \in Asks /\ togo = 1
  BY <1>0 DEF CallOK, PopOK
<1>2. /\ assumps \in Seq(Lit \cup {0}) /\ before \in Seq(Lit \cup {0})
      /\ Len(assumps) \in Nat /\ Len(before) \in Nat /\ DOMAIN assumps = 1..Len(assumps)
      /\ questions \in Seq(Literals) /\ got \in Seq({"SAT", "UNSAT"}) /\ Len(got) <= Len(questions)
      /\ Len(got) \in Nat
  BY <1>0 DEF SolvingTypes
<1>3. togo \in Nat /\ togo - 1 \in Nat /\ assumps # <<>>
  <2>1. PICK N, m : N = Len(assumps) /\ m = togo
    BY Zenon
  <2>2. N \in Nat /\ m \in 1..N
    BY <1>1, <1>2, <2>1, Zenon
  <2>3. m \in Nat /\ m - 1 \in Nat /\ N # 0
    BY <2>2
  <2>4. assumps = <<>> => Len(assumps) = 0
    OBVIOUS
  <2>5. QED BY <2>1, <2>3, <2>4
<1>4. /\ Inv' /\ busy' = busy /\ formula' = formula /\ lost' = lost
      /\ StacksMatch' /\ assumps' = Front(assumps) /\ assumps' \in Seq(Lit \cup {0})
  BY <1>0, <1>3, PopStep
<1>5. /\ Len(assumps') = Len(assumps) - 1 /\ DOMAIN assumps' = 1..(Len(assumps) - 1)
      /\ \A k \in 1..(Len(assumps) - 1) : assumps'[k] = assumps[k]
  <2>1. /\ Len(Front(assumps)) = Len(assumps) - 1
        /\ \A k \in 1..(Len(assumps) - 1) : Front(assumps)[k] = assumps[k]
    BY <1>2, <1>3, PushedFront, Zenon
  <2>2. DOMAIN assumps' = 1..Len(assumps')
    BY <1>4
  <2>3. QED BY <1>4, <2>1, <2>2
<1>6. /\ man' = man /\ call' = call /\ questions' = questions /\ got' = got /\ before' = before
      /\ written' = written
  BY <1>0 DEF flags
<1>7. \A k \in DOMAIN assumps' : VarOf(assumps'[k]) <= man.numVars
  <2>1. \A k \in DOMAIN assumps' : k \in DOMAIN assumps /\ assumps'[k] = assumps[k]
    BY <1>2, <1>5
  <2>2. QED BY <1>0, <2>1 DEF GraphOK
<1>8. UnsatAnswers' /\ SatAnswers'
  BY <1>0, <1>4, <1>6, AnswersKept
<1>9. CallOK'
  <2>1. PICK i \in Nat, j \in Nat, m \in Nat : i = Len(assumps) /\ j = Len(before) /\ m = togo
    BY <1>2, <1>3
  <2>2. m \in 1..i /\ Len(assumps') = i - 1 /\ togo' = m - 1
    BY <1>0, <1>1, <1>5, <2>1
  <2>3. Prefix(before, assumps) /\ m = i - j => Prefix(before, assumps')
    <3>1. HAVE Prefix(before, assumps) /\ m = i - j
    <3>2. j <= i - 1 /\ \A k \in 1..j : k \in 1..(i - 1) /\ assumps[k] = before[k]
      BY <2>1, <2>2, <3>1 DEF Prefix
    <3>3. Len(before) <= Len(assumps') /\ \A k \in 1..Len(before) : assumps'[k] = before[k]
      BY <1>5, <2>1, <2>2, <3>2
    <3>4. QED BY <3>3 DEF Prefix
  <2>4. Prefix(before, assumps)' <=> Prefix(before, assumps')
    BY <1>6 DEF Prefix
  <2>5. ASSUME m = 1, Prefix(before, assumps), m = i - j
        PROVE  assumps' = before
    <3>1. Len(before) = Len(assumps')
      BY <2>1, <2>2, <2>5
    <3>2. QED BY <1>2, <1>4, <2>3, <2>5, <3>1, PrefixAll
  <2>6. CASE togo > 1
    <3>1. pc' = "pop" /\ togo' \in 1..Len(assumps')
      BY <1>0, <2>1, <2>2, <2>6
    <3>2. \/ call = "bfPopAssumptions" /\ got = <<>>
          \/ Prefix(before, assumps) /\ m = i - j /\ call = "bfvPushAssumption"
      BY <1>1, <2>1, <2>6
    <3>3. m = i - j => togo' = Len(assumps') - Len(before')
      BY <1>6, <2>1, <2>2
    <3>4. PopOK'
      BY <1>6, <2>3, <2>4, <3>1, <3>2, <3>3 DEF PopOK
    <3>5. QED BY <1>0, <1>6, <3>1, <3>4 DEF CallOK, IdleOK, PushOK, AskOK, SearchOK, Asks
  <2>7. CASE ~(togo > 1)
    <3>1. m = 1
      BY <2>1, <2>2, <2>7
    <3>2. pc' = IF call = "bfCheckStatus" /\ Len(got) = 1 THEN "ask" ELSE "idle"
      BY <1>0, <2>7
    <3>3. \/ call = "bfPopAssumptions" /\ got = <<>>
          \/ assumps' = before' /\ call \in Asks \cup {"bfvPushAssumption"}
      BY <1>1, <1>6, <2>1, <2>5, <3>1
    <3>4. IdleOK'
      BY <1>6, <3>3 DEF IdleOK, Asks
    <3>5. call = "bfCheckStatus" => Len(questions) = 2
      BY <1>0 DEF CallOK
    <3>6. AskOK'
      BY <1>6, <3>2, <3>3, <3>5 DEF AskOK, Asks
    <3>7. QED BY <1>0, <1>6, <3>2, <3>4, <3>6 DEF CallOK, PushOK, PopOK, SearchOK, Asks
  <2>8. QED BY <2>6, <2>7, SMTT(20)
<1>10. pc' \in {"idle", "push", "pop", "ask", "translate"}
  BY <1>0
<1>11. togo' \in Nat
  BY <1>0, <1>3
<1>12. got' \in Seq({"SAT", "UNSAT"}) /\ Len(got') <= Len(questions)
  BY <1>2, <1>6
<1>13. QED BY <1>0, <1>4, <1>7, <1>8, <1>9, <1>10, <1>11, <1>12, StackStep

-----------------------------------------------------------------------------
(***************************************************************************)
(* Translation.                                                            *)
(***************************************************************************)
\* A gate's clauses are clauses for funcsat.
LEMMA GateClausesType ==
  ASSUME P!WF(man), NEW g \in man.ands
  PROVE  GateClauses(g) \in SUBSET SUBSET Lit
<1>1. g.rhs0 \in Lit /\ g.rhs1 \in Lit /\ g.lhs \in 1..man.numVars /\ man.numVars \in 0..MaxVar
  BY LitsAre
<1>2. g.lhs \in Lit
  BY <1>1, MaxVarAssumption DEF Lit
<1>3. -g.rhs0 \in Lit /\ -g.rhs1 \in Lit /\ -g.lhs \in Lit
  BY <1>1, <1>2, Numbers
<1>4. QED BY <1>1, <1>2, <1>3 DEF GateClauses

\* The constraints are about variables of the graph.
LEMMA OutputsInGraph ==
  ASSUME P!WF(man), man.outputs \subseteq Lit
  PROVE  \A o \in man.outputs : o \in Lit /\ VarOf(o) <= man.numVars
<1>1. P!Ordered(man) /\ \A l : P!VarOf(l) = VarOf(l)
  BY DEF P!WF, P!VarOf, VarOf
<1>2. \A o \in man.outputs : o \in P!LitsOf(man)
  BY <1>1 DEF P!Ordered
<1>3. QED BY <1>1, <1>2, Numbers, SameNames DEF P!LitsOf

\* What is not flagged is translated with all that is below it.
LEMMA TranslateStep ==
  ASSUME IInv, Translate
  PROVE  IInv'
<1> DEFINE new == Cone(Untranslated, nodes)
<1>0. /\ pc = "translate" /\ pc' = "require"
      /\ AddLong(UNION {GateClauses(g) : g \in new})
      /\ nodes' = nodes \cup {g.lhs : g \in new}
      /\ aigAssignment' = <<>>
      /\ UNCHANGED <<man, assumps, required, written, call, questions, got, togo, before>>
      /\ SolvingTypes /\ GraphOK /\ FormulaOK /\ FlagsOK /\ SolverOK /\ Inv /\ StacksMatch /\ CallOK
      /\ UnsatAnswers /\ SatAnswers /\ ConesTranslated /\ P!WF(man) /\ man.outputs \subseteq Lit
  BY DEF Translate, IInv, SolverOK, GraphOK
<1>1. Assumed \subseteq Lit
  BY <1>0, HeldIsAssumed
<1>2. Untranslated \in SUBSET Lit
  BY <1>0, <1>1 DEF Untranslated
<1>3. /\ new \subseteq man.ands
      /\ \A g \in man.ands, l \in Untranslated : g.lhs = VarOf(l) => g.lhs \in nodes \/ g \in new
      /\ \A g \in new, h \in man.ands :
           h.lhs \in {VarOf(g.rhs0), VarOf(g.rhs1)} => h.lhs \in nodes \/ h \in new
  BY <1>0, <1>2, ConeClosed
<1> HIDE DEF new
<1>4. /\ formula' = formula \cup UNION {GateClauses(g) : g \in new}
      /\ held' = held /\ lost' = lost /\ busy' = busy
  BY <1>0 DEF AddLong
<1>5. Inv'
  <2>1. UNION {GateClauses(g) : g \in new} \in SUBSET SUBSET Lit
    BY <1>0, <1>3, GateClausesType
  <2>2. QED BY <1>0, <2>1, AddLongInv
<1>6. SolvingTypes' /\ GraphOK'
  BY <1>0 DEF SolvingTypes, GraphOK
<1>7. FormulaOK'
  <2>1. \A c \in formula' : c \in formula \/ \E g \in man.ands : c \in GateClauses(g)
    BY <1>3, <1>4
  <2>2. QED BY <1>0, <2>1 DEF FormulaOK, GateClauses
<1>8. ASSUME NEW l \in Lit, VarOf(l) <= man.numVars, l \in Untranslated
      PROVE  VarOf(l) \in nodes' \cup man.inputs
  <2>1. VarOf(l) \in 1..man.numVars
    <3>1. VarOf(l) \in Nat /\ VarOf(l) >= 1 /\ man.numVars \in Nat
      BY <1>0, Numbers, LitsAre
    <3>2. QED BY <1>8, <3>1
  <2>2. VarOf(l) \in man.inputs \/ \E g \in man.ands : g.lhs = VarOf(l)
    BY <1>0, <2>1 DEF P!WF, P!Decided
  <2>3. QED BY <1>0, <1>3, <1>8, <2>2
<1>9. \A o \in man.outputs : VarOf(o) <= man.numVars
  BY <1>0, OutputsInGraph
<1>10. FlagsOK'
  <2>1. \A l : Covered(l) => VarOf(l) \in nodes' \cup man.inputs
    BY <1>0 DEF Covered
  <2>2. \A l : Covered(l)' <=> VarOf(l) \in nodes' \cup man.inputs
    BY <1>0 DEF Covered
  <2>3. \A v \in nodes' : \E g \in man.ands : g.lhs = v
    BY <1>0, <1>3 DEF FlagsOK
  <2>4. ~written => \A o \in required : Unit(-o) \in formula' /\ VarOf(o) \in nodes' \cup man.inputs
    BY <1>0, <1>4, <2>1 DEF FlagsOK
  <2>5. ~written => \A o \in man.outputs : VarOf(o) \in nodes' \cup man.inputs
    BY <1>0, <1>8, <1>9, <2>4 DEF Untranslated
  <2>6. \A l \in Assumed : VarOf(l) \in nodes' \cup man.inputs
    BY <1>0, <1>1, <1>8, AssumedInGraph DEF Untranslated
  <2>7. Assumed' = Assumed
    BY <1>0 DEF Assumed
  <2>8. QED BY <1>0, <2>2, <2>3, <2>4, <2>5, <2>6, <2>7 DEF FlagsOK
<1>11. SolverOK'
  BY <1>0, <1>4, <1>5 DEF SolverOK
<1>12. CallOK'
  <2>1. SearchOK'
    BY <1>0 DEF CallOK, SearchOK, Prefix, AssumeOf, G!LITERAL_TRUE
  <2>2. QED BY <1>0, <2>1 DEF CallOK, IdleOK, PushOK, PopOK, AskOK, Asks
<1>13. StacksMatch'
  BY <1>0, <1>4 DEF StacksMatch
<1>14. ConesTranslated'
  <2>1. SUFFICES ASSUME ~written, NEW g \in man.ands, g.lhs \in nodes'
                 PROVE  /\ GateClauses(g) \subseteq formula'
                        /\ \A h \in man.ands : h.lhs \in {VarOf(g.rhs0), VarOf(g.rhs1)} => h.lhs \in nodes'
    BY <1>0 DEF ConesTranslated, GateClauses
  <2>2. CASE g.lhs \in nodes
    <3>1. /\ GateClauses(g) \subseteq formula
          /\ \A h \in man.ands : h.lhs \in {VarOf(g.rhs0), VarOf(g.rhs1)} => h.lhs \in nodes
      BY <1>0, <2>1, <2>2 DEF ConesTranslated
    <3>2. QED BY <1>0, <1>4, <3>1
  <2>3. CASE g.lhs \notin nodes
    <3>1. PICK h \in new : h.lhs = g.lhs
      BY <1>0, <2>1, <2>3
    <3>2. g \in new
      BY <1>0, <1>3, <3>1 DEF P!WF, P!Decided
    <3>3. QED BY <1>0, <1>3, <1>4, <3>2
  <2>4. QED BY <2>2, <2>3
<1>15. UnsatAnswers' /\ SatAnswers'
  BY <1>0, <1>4, AnswersKept
<1>16. AssignmentOK' /\ AssignmentSolves'
  BY <1>0 DEF AssignmentOK, AssignmentSolves
<1>17. QED
  BY <1>6, <1>7, <1>10, <1>11, <1>12, <1>13, <1>14, <1>15, <1>16 DEF IInv

\* A step of a search call that leaves the stacks and the graph alone.
LEMMA SearchStep ==
  ASSUME IInv, pc \in {"require", "search"}, pc' \in {"require", "search"},
         UNCHANGED <<man, assumps, nodes, written, solution, call, questions, got, togo, before>>,
         Inv', busy' <=> pc' = "search", held' = held, formula \subseteq formula',
         lost \subseteq lost', FormulaOK', FlagsOK'
  PROVE  IInv'
<1>1. /\ SolvingTypes /\ GraphOK /\ FormulaOK /\ FlagsOK /\ SolverOK /\ StacksMatch /\ CallOK
      /\ ConesTranslated /\ AssignmentOK /\ AssignmentSolves /\ UnsatAnswers /\ SatAnswers
  BY DEF IInv
<1>2. SolvingTypes' /\ GraphOK' /\ SolverOK' /\ StacksMatch'
  BY <1>1 DEF SolvingTypes, GraphOK, SolverOK, StacksMatch
<1>3. CallOK'
  <2>1. SearchOK'
    BY <1>1 DEF CallOK, SearchOK, Prefix, AssumeOf, G!LITERAL_TRUE
  <2>2. QED BY <1>1, <2>1 DEF CallOK, IdleOK, PushOK, PopOK, AskOK, Asks
<1>4. ConesTranslated'
  <2>1. \A g : GateClauses(g) \subseteq formula => GateClauses(g) \subseteq formula'
    OBVIOUS
  <2>2. QED BY <1>1, <2>1 DEF ConesTranslated, GateClauses
<1>5. UnsatAnswers' /\ SatAnswers' /\ AssignmentOK' /\ AssignmentSolves'
  BY <1>1, AnswersKept, SolutionKept
<1>6. QED BY <1>1, <1>2, <1>3, <1>4, <1>5 DEF IInv

\* An output becomes a unit clause.
LEMMA RequireStep ==
  ASSUME IInv, NEW o, Require(o)
  PROVE  IInv'
<1>0. /\ pc = "require" /\ o \in man.outputs \ required /\ AddUnit(-o)
      /\ required' = required \cup {o} /\ pc' = pc
      /\ UNCHANGED <<man, assumps, nodes, written, solution, call, questions, got, togo, before>>
      /\ FormulaOK /\ FlagsOK /\ SolverOK /\ Inv /\ man.outputs \subseteq Lit
  BY DEF Require, calls, IInv, SolverOK, GraphOK
<1>1. -o \in Lit
  BY <1>0, Numbers
<1>2. Inv' /\ busy' = busy /\ held' = held /\ formula' = formula \cup {Unit(-o)} /\ lost \subseteq lost'
  BY <1>0, <1>1, AddUnitInv DEF AddUnit
<1>3. FormulaOK'
  BY <1>0, <1>2 DEF FormulaOK, GateClauses
<1>4. FlagsOK'
  <2>1. \A l : Covered(l)' <=> Covered(l)
    BY <1>0 DEF Covered
  <2>2. Assumed' = Assumed
    BY <1>0 DEF Assumed
  <2>3. ~written => Covered(o) /\ Unit(-o) \in formula'
    BY <1>0, <1>2 DEF FlagsOK
  <2>4. QED BY <1>0, <1>2, <2>1, <2>2, <2>3 DEF FlagsOK
<1>5. QED BY <1>0, <1>2, <1>3, <1>4, SearchStep DEF SolverOK

\* The search begins, or goes on.
LEMMA SearchingStep ==
  ASSUME IInv, Search \/ \E l \in Lit : Searching(l)
  PROVE  IInv'
<1>0. FormulaOK /\ FlagsOK /\ SolverOK /\ Inv /\ ConesTranslated
  BY DEF IInv, SolverOK
<1>1. CASE Search
  <2>1. /\ pc = "require" /\ man.outputs \subseteq required
        /\ Solve /\ busy' /\ pc' = "search"
        /\ UNCHANGED <<man, assumps, flags, solution, call, questions, got, togo, before>>
    BY <1>1 DEF Search
  <2>2. Inv' /\ formula' = formula /\ held' = held /\ lost' = lost
    BY <1>0, <2>1, SolveInv DEF Solve
  <2>3. nodes' = nodes /\ written' = written
    BY <2>1 DEF flags
  <2>4. FormulaOK' /\ FlagsOK'
    BY <1>0, <2>1, <2>2, <2>3, TranslationKept, FlagsKept
  <2>5. QED BY <2>1, <2>2, <2>3, <2>4, SearchStep
<1>2. ASSUME NEW l \in Lit, Searching(l)
      PROVE  IInv'
  <2>1. /\ pc = "search" /\ Deduce({l})
        /\ UNCHANGED <<man, assumps, flags, solution, pc, call, questions, got, togo, before>>
    BY <1>2 DEF Searching, calls
  <2>2. Inv' /\ formula' = formula /\ held' = held /\ lost' = lost /\ busy' = busy
    <3>1. {l} \in SUBSET Lit
      OBVIOUS
    <3>2. Inv'
      BY <1>0, <2>1, <3>1, DeduceInv
    <3>3. QED BY <2>1, <3>2 DEF Deduce
  <2>3. nodes' = nodes /\ written' = written /\ required' = required
    BY <2>1 DEF flags
  <2>4. man.outputs \subseteq required
    BY <1>0, <2>1 DEF FlagsOK
  <2>5. FormulaOK' /\ FlagsOK'
    BY <1>0, <2>1, <2>2, <2>3, <2>4, TranslationKept, FlagsKept
  <2>6. QED BY <1>0, <2>1, <2>2, <2>3, <2>5, SearchStep DEF SolverOK
<1>3. QED BY <1>1, <1>2

-----------------------------------------------------------------------------
(***************************************************************************)
(* Answers.                                                                *)
(***************************************************************************)
\* What a call is told: one more answer, and then the assumption it made goes.
LEMMA AnsweredStep ==
  ASSUME IInv, pc = "search", NEW r \in {"SAT", "UNSAT"}, Answered(r), Inv', ~busy',
         UNCHANGED <<formula, held, lost>>, AssignmentOK', AssignmentSolves',
         r = "UNSAT" => ~Solvable(Given \cup {questions[Len(got) + 1]}),
         r = "SAT" /\ lost = {} /\ ~written => Solvable(Given \cup {questions[Len(got) + 1]})
  PROVE  IInv'
<1>0. /\ SolvingTypes /\ GraphOK /\ FormulaOK /\ FlagsOK /\ StacksMatch /\ CallOK
      /\ ConesTranslated /\ UnsatAnswers /\ SatAnswers
  BY DEF IInv
<1>1. /\ got' = Append(got, r)
      /\ \/ call = "bfSolve" /\ pc' = "idle" /\ togo' = togo
         \/ call # "bfSolve" /\ pc' = "pop" /\ togo' = 1
      /\ UNCHANGED <<man, assumps, flags, call, questions, before>>
  BY DEF Answered
<1>2. nodes' = nodes /\ required' = required /\ written' = written
  BY <1>1 DEF flags
<1>3. PICK n \in Nat : n = Len(got)
  BY <1>0 DEF SolvingTypes
<1>4. /\ Len(got) < Len(questions)
      /\ \/ call = "bfSolve" /\ assumps = before
         \/ /\ call \in Asks /\ Prefix(before, assumps) /\ Len(assumps) = Len(before) + 1
  BY <1>0 DEF CallOK, SearchOK
<1>5. /\ got' \in Seq({"SAT", "UNSAT"}) /\ Len(got') = n + 1 /\ got'[n + 1] = r
      /\ DOMAIN got' = 1..(n + 1) /\ DOMAIN got = 1..n /\ \A k \in 1..n : got'[k] = got[k]
  <2>1. got' \in Seq({"SAT", "UNSAT"}) /\ Appended(got, r, got')
    BY <1>0, <1>1, AppendIs DEF SolvingTypes
  <2>2. QED BY <1>3, <2>1 DEF Appended
<1>6. \A k \in DOMAIN got' : k = n + 1 \/ k \in DOMAIN got
  BY <1>5
<1>7. SolvingTypes'
  <2>1. Len(got') <= Len(questions') /\ togo' \in Nat
    <3>1. Len(questions) \in Nat /\ togo \in Nat
      BY <1>0 DEF SolvingTypes
    <3>2. QED BY <1>1, <1>3, <1>4, <1>5, <3>1
  <2>2. QED BY <1>0, <1>1, <1>5, <2>1 DEF SolvingTypes
<1>8. GraphOK' /\ FormulaOK' /\ ConesTranslated' /\ StacksMatch' /\ SolverOK' /\ FlagsOK'
  <2>1. GraphOK' /\ StacksMatch'
    BY <1>0, <1>1 DEF GraphOK, StacksMatch
  <2>2. FormulaOK' /\ ConesTranslated'
    BY <1>0, <1>1, <1>2, TranslationKept
  <2>3. FlagsOK'
    BY <1>0, <1>1, FlagsKept
  <2>4. SolverOK'
    BY <1>1 DEF SolverOK
  <2>5. QED BY <2>1, <2>2, <2>3, <2>4
<1>9. CallOK'
  <2>1. CASE call = "bfSolve"
    BY <1>0, <1>1, <1>4, <2>1 DEF CallOK, IdleOK, PushOK, PopOK, AskOK, SearchOK, Asks
  <2>2. CASE call # "bfSolve"
    <3>1. Len(assumps) \in Nat /\ Len(before) \in Nat
      BY <1>0 DEF SolvingTypes
    <3>2. /\ pc' = "pop" /\ togo' = 1 /\ call' \in Asks
          /\ togo' \in 1..Len(assumps') /\ togo' = Len(assumps') - Len(before')
      BY <1>1, <1>4, <2>2, <3>1
    <3>3. Prefix(before, assumps)'
      BY <1>1, <1>4, <2>2 DEF Prefix
    <3>4. PopOK'
      BY <3>2, <3>3 DEF PopOK
    <3>5. QED BY <1>0, <1>1, <3>2, <3>4 DEF CallOK, IdleOK, PushOK, AskOK, SearchOK, Asks
  <2>3. QED BY <2>1, <2>2
<1>10. (\A ls : Solvable(ls)' <=> Solvable(ls)) /\ Given' = Given
  BY <1>1 DEF Solvable, Meets, Given
<1>11. call # "bfvPushAssumption"
  BY <1>4 DEF Asks
<1>12. UnsatAnswers'
  <2>1. ASSUME NEW k \in DOMAIN got', got'[k] = "UNSAT"
        PROVE  ~Solvable(Given \cup {questions[k]})
    <3>1. CASE k = n + 1
      BY <1>3, <1>5, <2>1, <3>1
    <3>2. CASE k \in DOMAIN got
      <4>1. got[k] = "UNSAT"
        BY <1>5, <2>1, <3>2
      <4>2. QED BY <1>0, <1>11, <3>2, <4>1 DEF UnsatAnswers
    <3>3. QED BY <1>6, <2>1, <3>1, <3>2
  <2>2. QED BY <1>1, <1>10, <1>11, <2>1 DEF UnsatAnswers
<1>13. SatAnswers'
  <2>1. ASSUME lost = {} /\ ~written, NEW k \in DOMAIN got', got'[k] = "SAT"
        PROVE  Solvable(Given \cup {questions[k]})
    <3>1. CASE k = n + 1
      BY <1>3, <1>5, <2>1, <3>1
    <3>2. CASE k \in DOMAIN got
      <4>1. got[k] = "SAT"
        BY <1>5, <2>1, <3>2
      <4>2. QED BY <1>0, <2>1, <3>2, <4>1 DEF SatAnswers, SatAnswersRight
    <3>3. QED BY <1>6, <2>1, <3>1, <3>2
  <2>2. QED BY <1>1, <1>2, <1>10, <2>1 DEF SatAnswers, SatAnswersRight
<1>14. QED
  BY <1>7, <1>8, <1>9, <1>12, <1>13 DEF IInv

\* During a search the assumptions are those of the client and the question.
LEMMA AssumedIsAsked ==
  ASSUME SolvingTypes, CallOK, pc = "search"
  PROVE  /\ Assumed \subseteq Given \cup {questions[Len(got) + 1]}
         /\ Given \cup {questions[Len(got) + 1]} \subseteq Assumed \cup {G!LITERAL_TRUE}
<1> DEFINE q == questions[Len(got) + 1]
<1>0. /\ assumps \in Seq(Lit \cup {0}) /\ before \in Seq(Lit \cup {0})
      /\ DOMAIN assumps = 1..Len(assumps) /\ DOMAIN before = 1..Len(before)
      /\ Len(assumps) \in Nat /\ Len(before) \in Nat /\ questions \in Seq(Literals)
  BY DEF SolvingTypes
<1>1. PICK n, m : n = Len(got) /\ m = Len(questions)
  OBVIOUS
<1>2. n \in Nat /\ m \in Nat
  BY <1>1 DEF SolvingTypes
<1>3. /\ Len(got) < Len(questions)
      /\ \/ call = "bfSolve" /\ assumps = before /\ questions = <<G!LITERAL_TRUE>>
         \/ /\ call \in Asks /\ Prefix(before, assumps)
            /\ Len(assumps) = Len(before) + 1
            /\ assumps[Len(assumps)] = AssumeOf(q)
  BY DEF CallOK, SearchOK
<1>4. CASE call = "bfSolve" /\ assumps = before /\ questions = <<G!LITERAL_TRUE>>
  <2>1. Len(questions) = 1
    BY <1>4
  <2>2. n + 1 = 1
    <3>1. n < 1
      BY <1>1, <1>3, <2>1
    <3>2. QED BY <1>2, <3>1
  <2>3. q = G!LITERAL_TRUE
    BY <1>1, <1>4, <2>2
  <2> HIDE DEF q
  <2>4. Assumed = Given
    BY <1>4 DEF Assumed, Given
  <2>5. QED BY <2>3, <2>4 DEF q
<1>5. CASE /\ call \in Asks /\ Prefix(before, assumps)
           /\ Len(assumps) = Len(before) + 1
           /\ assumps[Len(assumps)] = AssumeOf(q)
  <2>1. q \in Literals
    <3>1. n < m
      BY <1>1, <1>3
    <3>2. n + 1 \in 1..m
      BY <1>2, <3>1
    <3>3. QED BY <1>0, <1>1, <3>2
  <2> HIDE DEF q
  <2>2. (q = G!LITERAL_TRUE /\ AssumeOf(q) = 0) \/ (q # 0 /\ AssumeOf(q) = q)
    BY <2>1, Numbers DEF AssumeOf, Literals, G!Constants
  <2>3. \A k \in 1..Len(assumps) : k = Len(assumps) \/ k \in 1..Len(before)
    BY <1>0, <1>5
  <2>4. Len(assumps) \in 1..Len(assumps) /\ \A k \in 1..Len(before) : k \in 1..Len(assumps) /\ assumps[k] = before[k]
    BY <1>0, <1>5 DEF Prefix
  <2>5. ASSUME NEW l \in Assumed
        PROVE  l \in Given \cup {q}
    <3>1. PICK k \in 1..Len(assumps) : assumps[k] = l /\ l # 0
      BY <1>0 DEF Assumed, Range
    <3>2. CASE k = Len(assumps)
      BY <1>5, <2>2, <3>1, <3>2
    <3>3. CASE k \in 1..Len(before)
      BY <1>0, <2>4, <3>1, <3>3 DEF Given, Range
    <3>4. QED BY <2>3, <3>2, <3>3
  <2>6. ASSUME NEW l \in Given
        PROVE  l \in Assumed
    <3>1. PICK k \in 1..Len(before) : before[k] = l /\ l # 0
      BY <1>0 DEF Given, Range
    <3>2. QED BY <1>0, <2>4, <3>1 DEF Assumed, Range
  <2>7. q \in Assumed \cup {G!LITERAL_TRUE}
    BY <1>0, <1>5, <2>2, <2>4 DEF Assumed, Range
  <2>8. QED BY <2>5, <2>6, <2>7 DEF q
<1>6. QED BY <1>3, <1>4, <1>5

\* The answer "unsatisfiable" is passed on.
LEMMA UnsatStep ==
  ASSUME IInv, Unsat
  PROVE  IInv'
<1> DEFINE q == questions[Len(got) + 1]
<1>0. /\ pc = "search" /\ AnswerUnsat /\ Answered("UNSAT") /\ UNCHANGED solution
      /\ SolvingTypes /\ GraphOK /\ FormulaOK /\ SolverOK /\ Inv /\ StacksMatch /\ CallOK
      /\ AssignmentOK /\ AssignmentSolves
  BY DEF Unsat, IInv, SolverOK
<1>1. /\ Inv' /\ ~busy' /\ UNCHANGED <<formula, held, lost>> /\ busy /\ ~Consistent(formula, asked)
  BY <1>0, AnswerInv DEF AnswerUnsat
<1>2. asked = Assumed /\ Assumed \subseteq Lit
  BY <1>0, <1>1, HeldIsAssumed DEF Inv
<1>3. Assumed \subseteq Given \cup {q}
  BY <1>0, AssumedIsAsked
<1>4. \A l \in Assumed : VarOf(l) <= man.numVars
  BY <1>0, AssumedInGraph
<1> HIDE DEF q
<1>5. ~Solvable(Given \cup {q})
  <2>1. ~Consistent(formula, Assumed)
    BY <1>1, <1>2
  <2>2. P!WF(man) /\ man.outputs \subseteq Lit
    BY <1>0 DEF GraphOK
  <2>3. Assumed \in SUBSET Lit
    BY <1>2
  <2>4. QED BY <1>0, <1>3, <1>4, <2>1, <2>2, <2>3, UnsolvableIf
<1>6. UNCHANGED <<man, solution>>
  BY <1>0 DEF Answered
<1>7. AssignmentOK' /\ AssignmentSolves'
  BY <1>0, <1>6, SolutionKept
<1>8. "UNSAT" \in {"SAT", "UNSAT"} /\ "UNSAT" # "SAT"
  OBVIOUS
<1>9. QED BY <1>0, <1>1, <1>5, <1>7, <1>8, AnsweredStep DEF q

\* The answer "satisfiable" comes with values for the inputs.
LEMMA SatStep ==
  ASSUME IInv, NEW a, a \in ModelsOf({}), Sat(a)
  PROVE  IInv'
<1> DEFINE q == questions[Len(got) + 1]
           i == [v \in man.inputs |-> a[v]]
<1>0. /\ pc = "search" /\ AnswerSat(a) /\ Answered("SAT") /\ aigAssignment' = i
      /\ solved' = IF lost = {} /\ ~written
                   THEN [outputs |-> man.outputs, assumed |-> Assumed]
                   ELSE [outputs |-> {}, assumed |-> {}]
      /\ SolvingTypes /\ GraphOK /\ FormulaOK /\ FlagsOK /\ SolverOK /\ Inv /\ StacksMatch /\ CallOK
      /\ ConesTranslated /\ man' = man /\ P!WF(man) /\ man.outputs \subseteq Lit
  BY DEF Sat, IInv, SolverOK, GraphOK, Answered
<1>1. Inv' /\ ~busy' /\ UNCHANGED <<formula, held, lost>>
  BY <1>0, AnswerInv DEF AnswerSat
<1>2. a \in [Var -> BOOLEAN] /\ man.inputs \subseteq Var
  BY <1>0, LitsAre DEF ModelsOf
<1>3. DOMAIN i = man.inputs /\ \A v \in man.inputs : i[v] = a[v] /\ i[v] \in BOOLEAN
  BY <1>2
<1> DEFINE j == [v \in man.inputs |-> v \in DOMAIN i /\ i[v]]
<1>4. \A v \in man.inputs : j[v] = a[v]
  BY <1>3
<1> HIDE DEF i, q
<1> HIDE DEF j
<1>5. ASSUME lost = {}, ~written
      PROVE  /\ G!Eval(man, j) \in G!Solutions(man)
             /\ \A l \in Assumed : G!Val(G!Eval(man, j), l)
             /\ \A o \in man.outputs : ~G!Val(G!Eval(man, j), o)
  <2>1. a \in ModelsOf(formula) /\ \A l \in SetOf(held) : Holds(a, l)
    BY <1>0, <1>5, AnswerIsModel
  <2>2. /\ man.outputs \subseteq required
        /\ \A o \in required : Unit(-o) \in formula
        /\ \A o \in man.outputs : Covered(o)
        /\ \A l \in Assumed : Covered(l)
    BY <1>0, <1>5 DEF FlagsOK
  <2>3. /\ G!Eval(man, j) \in G!Solutions(man)
        /\ \A l \in Lit : Covered(l) => (Holds(a, l) <=> G!Val(G!Eval(man, j), l))
    <3>1. \A o \in man.outputs : Unit(-o) \in formula /\ Covered(o)
      BY <2>2
    <3>2. QED BY <1>0, <1>4, <1>5, <2>1, <3>1, AnswerExtends
  <2>4. \A o \in man.outputs : ~G!Val(G!Eval(man, j), o)
    BY <1>0, <2>3, SolutionIs
  <2>5. SetOf(held) = Assumed /\ Assumed \subseteq Lit
    BY <1>0, HeldIsAssumed
  <2>6. QED BY <2>1, <2>2, <2>3, <2>4, <2>5
<1>6. AssignmentOK'
  <2>1. ASSUME NEW l \in solved'.outputs \cup solved'.assumed
        PROVE  l \in Lit /\ VarOf(l) <= man.numVars
    <3>1. l \in man.outputs \cup Assumed
      BY <1>0, <2>1
    <3>2. CASE l \in Assumed
      BY <1>0, <3>2, HeldIsAssumed, AssumedInGraph
    <3>3. CASE l \in man.outputs
      BY <1>0, <3>3, OutputsInGraph
    <3>4. QED BY <3>1, <3>2, <3>3
  <2>2. DOMAIN aigAssignment' = man'.inputs /\ \A v \in DOMAIN aigAssignment' : aigAssignment'[v] \in BOOLEAN
    BY <1>0, <1>3
  <2>3. QED BY <1>0, <2>1, <2>2 DEF AssignmentOK
<1>7. AssignmentSolves'
  <2>1. j = [v \in man'.inputs |-> v \in DOMAIN aigAssignment' /\ aigAssignment'[v]]
    BY <1>0 DEF j
  <2>2. /\ \A o \in solved'.outputs : ~G!Val(G!Eval(man, j), o)
        /\ \A l \in solved'.assumed : G!Val(G!Eval(man, j), l)
    <3>1. CASE lost = {} /\ ~written
      <4>1. solved'.outputs = man.outputs /\ solved'.assumed = Assumed
        BY <1>0, <3>1
      <4>2. QED BY <1>5, <3>1, <4>1
    <3>2. CASE ~(lost = {} /\ ~written)
      <4>1. solved'.outputs = {} /\ solved'.assumed = {}
        BY <1>0, <3>2
      <4>2. QED BY <4>1
    <3>3. QED BY <3>1, <3>2
  <2>3. QED BY <1>0, <2>1, <2>2 DEF AssignmentSolves, Meets
<1>8. lost = {} /\ ~written => Solvable(Given \cup {q})
  <2>1. SUFFICES ASSUME lost = {}, ~written PROVE Solvable(Given \cup {q})
    OBVIOUS
  <2>2. Given \cup {q} \subseteq Assumed \cup {G!LITERAL_TRUE}
    BY <1>0, AssumedIsAsked DEF q
  <2>3. G!Val(G!Eval(man, j), G!LITERAL_TRUE)
    BY DEF G!Val, G!Constants
  <2>4. Meets(G!Eval(man, j), Given \cup {q})
    BY <1>5, <2>1, <2>2, <2>3 DEF Meets
  <2>5. QED BY <1>5, <2>1, <2>4 DEF Solvable
<1>9. "SAT" \in {"SAT", "UNSAT"} /\ "SAT" # "UNSAT"
  OBVIOUS
<1>10. QED BY <1>0, <1>1, <1>6, <1>7, <1>8, <1>9, AnsweredStep DEF q

-----------------------------------------------------------------------------
(***************************************************************************)
(* A new solver, and a call that writes to a file.                         *)
(***************************************************************************)
LEMMA ResetStep ==
  ASSUME IInv, bfResetFuncsat
  PROVE  IInv'
<1>0. /\ pc = "idle" /\ assumps = <<>> /\ Clear
      /\ formula' = {} /\ root' = {} /\ held' = <<>> /\ marks' = <<>>
      /\ asked' = {} /\ answer' = "none" /\ lost' = {}
      /\ nodes' = {} /\ required' = {} /\ written' = FALSE
      /\ UNCHANGED <<busy, man, assumps, solution>>
      /\ SolvingTypes /\ GraphOK /\ SolverOK /\ CallOK /\ AssignmentOK /\ AssignmentSolves
  BY DEF bfResetFuncsat, IInv
<1>1. pc' = "idle" /\ questions' = <<>> /\ before' = assumps
  BY <1>0 DEF Clear
<1>2. Inv'
  <2>1. busy' = FALSE
    <3>1. busy \in BOOLEAN /\ ~busy
      BY <1>0 DEF SolverOK, Inv, Types
    <3>2. QED BY <1>0, <3>1
  <2>2. Init'
    BY <1>0, <2>1 DEF Init
  <2>3. (Init => Inv)'
    BY InitInv, PTL
  <2>4. QED BY <2>2, <2>3
<1>3. SolverOK'
  BY <1>0, <1>1, <1>2 DEF SolverOK
<1>4. SolvingTypes' /\ CallOK' /\ UnsatAnswers' /\ SatAnswers'
  BY <1>0, Cleared
<1>5. GraphOK'
  <2>1. DOMAIN assumps' = {} /\ DOMAIN before' = {} /\ DOMAIN questions' = {}
    BY <1>0, <1>1
  <2>2. QED BY <1>0, <2>1 DEF GraphOK
<1>6. FormulaOK' /\ FlagsOK' /\ ConesTranslated'
  BY <1>0, <1>1 DEF FormulaOK, FlagsOK, ConesTranslated
<1>7. StacksMatch'
  <2>1. PushedOf(assumps)' = <<>>
    BY <1>0, PushedEmpty
  <2>2. QED BY <1>0, <2>1 DEF StacksMatch
<1>8. AssignmentOK' /\ AssignmentSolves'
  BY <1>0, SolutionKept
<1>9. QED BY <1>3, <1>4, <1>5, <1>6, <1>7, <1>8 DEF IInv

\* A call that writes to a file sets flags, and notes that it did.
LEMMA PrintStep ==
  ASSUME IInv, bfPrintCNF
  PROVE  IInv'
<1> DEFINE cone == Cone(Assumed \cup man.outputs, {})
<1>0. /\ pc = "idle" /\ Clear
      /\ nodes' = {g.lhs : g \in cone}
      /\ required' = man.outputs /\ written' = TRUE
      /\ AddLong({})
      /\ UNCHANGED <<man, assumps, solution>>
      /\ SolvingTypes /\ GraphOK /\ FormulaOK /\ SolverOK /\ Inv /\ CallOK /\ StacksMatch
      /\ AssignmentOK /\ AssignmentSolves /\ P!WF(man) /\ man.outputs \subseteq Lit
  BY DEF bfPrintCNF, IInv, SolverOK, GraphOK
<1>1. pc' = "idle" /\ questions' = <<>> /\ before' = assumps
  BY <1>0 DEF Clear
<1>2. cone \subseteq man.ands
  <2>1. Assumed \cup man.outputs \in SUBSET Lit
    BY <1>0, HeldIsAssumed
  <2>2. QED BY <1>0, <2>1, ConeClosed
<1> HIDE DEF cone
<1>3. Inv' /\ formula' = formula /\ held' = held /\ busy' = busy
  <2>1. {} \in SUBSET SUBSET Lit
    OBVIOUS
  <2>2. Inv'
    BY <1>0, <2>1, AddLongInv
  <2>3. QED BY <1>0, <2>2 DEF AddLong
<1>4. SolverOK' /\ StacksMatch'
  BY <1>0, <1>1, <1>3 DEF SolverOK, StacksMatch
<1>5. SolvingTypes' /\ CallOK' /\ UnsatAnswers' /\ SatAnswers'
  BY <1>0, Cleared
<1>6. GraphOK'
  <2>1. DOMAIN questions' = {}
    BY <1>1
  <2>2. QED BY <1>0, <1>1, <2>1 DEF GraphOK
<1>7. FormulaOK'
  BY <1>0, <1>3 DEF FormulaOK, GateClauses
<1>8. FlagsOK'
  BY <1>0, <1>1, <1>2 DEF FlagsOK
<1>9. ConesTranslated'
  BY <1>0 DEF ConesTranslated
<1>10. AssignmentOK' /\ AssignmentSolves'
  BY <1>0, SolutionKept
<1>11. QED BY <1>4, <1>5, <1>6, <1>7, <1>8, <1>9, <1>10 DEF IInv

-----------------------------------------------------------------------------
(***************************************************************************)
(* The invariant.                                                          *)
(***************************************************************************)
LEMMA SolvingInitIInv == SolvingInit => IInv
<1> SUFFICES ASSUME SolvingInit PROVE IInv
  OBVIOUS
<1>0. /\ Init /\ man = G!EmptyGraph /\ assumps = <<>> /\ nodes = {} /\ required = {}
      /\ aigAssignment = <<>> /\ written = FALSE /\ pc = "idle" /\ call = "none"
      /\ questions = <<>> /\ got = <<>> /\ togo = 0 /\ before = <<>>
  BY DEF SolvingInit
<1>1. formula = {} /\ held = <<>> /\ busy = FALSE
  BY <1>0 DEF Init
<1>2. DOMAIN assumps = {} /\ DOMAIN questions = {} /\ DOMAIN got = {} /\ DOMAIN before = {}
  BY <1>0
<1>3. SolvingTypes
  BY <1>0 DEF SolvingTypes
<1>4. GraphOK
  <2>1. P!WF(man)
    BY <1>0, GraphAssumptions, SameNames, P!EmptyWF
  <2>2. man.outputs = {}
    BY <1>0 DEF G!EmptyGraph
  <2>3. QED BY <1>2, <2>1, <2>2 DEF GraphOK
<1>5. FormulaOK /\ FlagsOK /\ ConesTranslated /\ AssignmentOK /\ AssignmentSolves
  BY <1>0, <1>1 DEF FormulaOK, FlagsOK, ConesTranslated, AssignmentOK, AssignmentSolves
<1>6. SolverOK
  BY <1>0, <1>1, InitInv DEF SolverOK
<1>7. CallOK
  BY <1>0 DEF CallOK, IdleOK, PushOK, PopOK, AskOK, SearchOK, Asks
<1>8. StacksMatch
  BY <1>0, <1>1, PushedEmpty DEF StacksMatch
<1>9. UnsatAnswers /\ SatAnswers
  BY <1>2 DEF UnsatAnswers, SatAnswers, SatAnswersRight
<1>10. QED BY <1>3, <1>4, <1>5, <1>6, <1>7, <1>8, <1>9 DEF IInv

\* The graph grows.
LEMMA BuildStep ==
  ASSUME IInv, Build
  PROVE  IInv'
<1>0. P!WF(man) /\ man.outputs \subseteq Lit
  BY DEF IInv, GraphOK
<1>1. CASE bfNewVar
  <2>1. Graph(G!NewVar(man)) /\ G!NewVar(man).numVars <= MaxVar
    BY <1>1 DEF bfNewVar, Graph
  <2>2. QED BY <1>0, <2>1, NewVarGrown, GraphStep
<1>2. ASSUME NEW a \in Lits \cap Fanins, NEW b \in Lits \cap Fanins, bfNewAnd(a, b)
      PROVE  IInv'
  <2>1. Graph(G!NewAnd(man, a, b).m) /\ G!NewAnd(man, a, b).m.numVars <= MaxVar
    BY <1>2 DEF bfNewAnd, Graph
  <2>2. a \in Lit /\ b \in Lit /\ VarOf(a) <= man.numVars /\ VarOf(b) <= man.numVars
    BY DEF Lits
  <2>3. QED BY <1>0, <2>1, <2>2, NewAndGrown, GraphStep
<1>3. ASSUME NEW a \in Lits \cap Constraints, bfSet(a)
      PROVE  IInv'
  <2>1. Graph(G!Set(man, a))
    BY <1>3 DEF bfSet
  <2>2. a \in Lit /\ VarOf(a) <= man.numVars
    BY DEF Lits
  <2>3. QED BY <1>0, <2>1, <2>2, SetGrown, GraphStep
<1>4. QED BY <1>1, <1>2, <1>3 DEF Build

\* Assumptions are pushed and popped.
LEMMA AssumeStep ==
  ASSUME IInv, Assume
  PROVE  IInv'
BY PushBegins, PopBegins, PushNextStep, PopNextStep DEF Assume

\* A question is asked, or goes on.
LEMMA AskStep ==
  ASSUME IInv, Ask
  PROVE  IInv'
<1>1. ASSUME NEW x \in Lits \cap Queries, bfMayBeTrue(x) \/ bfMustBeTrue(x) \/ bfCheckStatus(x)
      PROVE  IInv'
  <2>1. x \in Lit /\ VarOf(x) <= man.numVars
    BY DEF Lits
  <2>2. OfGraph(<<x>>) /\ OfGraph(<<-x>>) /\ OfGraph(<<-x, x>>)
    BY <2>1, AskedOfGraph
  <2>3. CASE bfMayBeTrue(x)
    <3>1. Begin("bfMayBeTrue", <<x>>, "ask", 0)
      BY <2>3 DEF bfMayBeTrue
    <3>2. Len(<<x>>) = IF "bfMayBeTrue" = "bfCheckStatus" THEN 2 ELSE 1
      OBVIOUS
    <3>3. "bfMayBeTrue" \in Asks
      BY DEF Asks
    <3>4. QED BY <2>2, <3>1, <3>2, <3>3, AskBegins
  <2>4. CASE bfMustBeTrue(x)
    <3>1. Begin("bfMustBeTrue", <<-x>>, "ask", 0)
      BY <2>4 DEF bfMustBeTrue
    <3>2. Len(<<-x>>) = IF "bfMustBeTrue" = "bfCheckStatus" THEN 2 ELSE 1
      OBVIOUS
    <3>3. "bfMustBeTrue" \in Asks
      BY DEF Asks
    <3>4. QED BY <2>2, <3>1, <3>2, <3>3, AskBegins
  <2>5. CASE bfCheckStatus(x)
    <3>1. Begin("bfCheckStatus", <<-x, x>>, "ask", 0)
      BY <2>5 DEF bfCheckStatus
    <3>2. Len(<<-x, x>>) = IF "bfCheckStatus" = "bfCheckStatus" THEN 2 ELSE 1
      OBVIOUS
    <3>3. "bfCheckStatus" \in Asks
      BY DEF Asks
    <3>4. QED BY <2>2, <3>1, <3>2, <3>3, AskBegins
  <2>6. QED BY <1>1, <2>3, <2>4, <2>5
<1>2. ASSUME NEW l \in Lit, Searching(l) PROVE IInv'
  BY <1>2, SearchingStep
<1>3. ASSUME NEW a \in ModelsOf({}), Sat(a) PROVE IInv'
  BY <1>3, SatStep
<1>4. ASSUME NEW o \in man.outputs, Require(o) PROVE IInv'
  BY <1>4, RequireStep
<1>5. CASE bfSolve
  BY <1>5, SolveBegins
<1>6. CASE AskNext
  BY <1>6, AskNextStep
<1>7. CASE Translate
  BY <1>7, TranslateStep
<1>8. CASE Search
  BY <1>8, SearchingStep
<1>9. CASE Unsat
  BY <1>9, UnsatStep
<1>10. QED BY <1>1, <1>2, <1>3, <1>4, <1>5, <1>6, <1>7, <1>8, <1>9 DEF Ask

\* A step that changes nothing keeps the invariant.
LEMMA StutterStep ==
  ASSUME IInv, UNCHANGED allVars
  PROVE  IInv'
<1>1. UNCHANGED <<vars, man, assumps, nodes, required, written, solution, aigAssignment, solved,
                  pc, call, questions, got, togo, before>>
  BY DEF allVars, solver, flags, solution, calls
<1>2. UNCHANGED <<formula, held, lost, busy>>
  BY <1>1 DEF vars
<1>3. /\ SolvingTypes /\ GraphOK /\ FormulaOK /\ FlagsOK /\ SolverOK /\ StacksMatch /\ CallOK
      /\ ConesTranslated /\ AssignmentOK /\ AssignmentSolves /\ UnsatAnswers /\ SatAnswers
  BY DEF IInv
<1>4. SolvingTypes' /\ GraphOK' /\ StacksMatch'
  BY <1>1, <1>2, <1>3 DEF SolvingTypes, GraphOK, StacksMatch
<1>5. FormulaOK' /\ ConesTranslated' /\ AssignmentOK' /\ AssignmentSolves' /\ UnsatAnswers' /\ SatAnswers'
  BY <1>1, <1>2, <1>3, TranslationKept, SolutionKept, AnswersKept
<1>6. SolverOK'
  BY <1>1, <1>2, <1>3, UnchangedInv DEF SolverOK
<1>7. FlagsOK'
  <2>1. (\A l : Covered(l)' <=> Covered(l)) /\ Assumed' = Assumed
    BY <1>1 DEF Covered, Assumed
  <2>2. QED BY <1>1, <1>2, <1>3, <2>1 DEF FlagsOK
<1>8. CallOK'
  <2>1. IdleOK' /\ PopOK' /\ AskOK'
    BY <1>1, <1>3 DEF CallOK, IdleOK, PopOK, AskOK, Prefix, Asks
  <2>2. PushOK' /\ SearchOK'
    BY <1>1, <1>3 DEF CallOK, PushOK, SearchOK, Prefix, Asks, AssumeOf, G!LITERAL_TRUE
  <2>3. QED BY <1>1, <1>3, <2>1, <2>2 DEF CallOK, Asks
<1>9. QED BY <1>4, <1>5, <1>6, <1>7, <1>8 DEF IInv

\* Every step keeps the invariant.
LEMMA SolvingNextIInv == IInv /\ [SolvingNext]_allVars => IInv'
<1> SUFFICES ASSUME IInv, [SolvingNext]_allVars PROVE IInv'
  OBVIOUS
<1>1. QED
  BY BuildStep, AssumeStep, AskStep, ResetStep, PrintStep, StutterStep DEF SolvingNext

\* The invariant holds in every reachable state.
LEMMA SolvingInvariance == SolvingSpec => []IInv
BY SolvingInitIInv, SolvingNextIInv, PTL DEF SolvingSpec

\* Whatever the client built, assumed, asked and popped before, a call answers
\* "unsatisfiable" only if the graph has no solution in which the assumptions
\* and the literal asked about hold: solve.c passes on funcsat's answers, and
\* refuses a literal whose negation is on level 0.
THEOREM UnsatAnswersAreRight == SolvingSpec => []UnsatAnswers
<1>1. IInv => UnsatAnswers
  BY DEF IInv
<1> QED BY <1>1, SolvingInvariance, PTL

\* As long as no constraint was lost by funcsat and no flag set by a call that
\* writes, a call answers "satisfiable" only if the graph has such a solution.
THEOREM SatAnswersAreRight == SolvingSpec => []SatAnswers
<1>1. IInv => SatAnswers
  BY DEF IInv
<1> QED BY <1>1, SolvingInvariance, PTL

\* A gate is flagged only if its clauses and those of the gates below it were
\* given to funcsat: what addLitConeOfInfluence relies on when it stops there.
THEOREM FlaggedConesTranslated == SolvingSpec => []ConesTranslated
<1>1. IInv => ConesTranslated
  BY DEF IInv
<1> QED BY <1>1, SolvingInvariance, PTL

\* The stack of assumptions of bitfunc and that of funcsat differ by the
\* constants only, also in the middle of a call and after a refused push.
THEOREM StacksStayInStep == SolvingSpec => []StacksMatch
<1>1. IInv => StacksMatch
  BY DEF IInv
<1> QED BY <1>1, SolvingInvariance, PTL

\* When a question is answered, or a vector of assumptions refused, the
\* assumptions are those from before the call.
THEOREM CallsRestoreAssumptions == SolvingSpec => []CallsRestore
<1>1. IInv => CallsRestore
  BY DEF IInv, CallOK, IdleOK, CallsRestore, Asks
<1> QED BY <1>1, SolvingInvariance, PTL

\* The values the inputs have after an answer "satisfiable" make the constraints
\* and the assumptions of that question true, however the graph grows after it.
THEOREM AssignmentIsSolution == SolvingSpec => []AssignmentSolves
<1>1. IInv => AssignmentSolves
  BY DEF IInv
<1> QED BY <1>1, SolvingInvariance, PTL

=============================================================================
