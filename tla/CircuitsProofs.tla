--------------------------- MODULE CircuitsProofs ---------------------------
(***************************************************************************)
(* What the gate constructors of Circuits do to a well-formed graph, for   *)
(* every size of literal and both argument evaluation orders: the result   *)
(* is well formed, extends the graph, and means what its name says in      *)
(* every model of the result.                                              *)
(***************************************************************************)
EXTENDS Circuits, TLAPS, WellFoundedInduction

Graph ==
  [numVars : 0..(LITERAL_MAX - 1), inputs : SUBSET Var,
   ands : SUBSET [lhs : Var, rhs0 : Lit, rhs1 : Lit],
   andhash : SUBSET [a : Lit, b : Lit, o : Var],
   outputs : SUBSET (Lit \cup Constants)]

\* A graph whose variable counter may have run into the constants.
Wide ==
  [numVars : Nat, inputs : SUBSET Int,
   ands : SUBSET [lhs : Int, rhs0 : Int, rhs1 : Int],
   andhash : SUBSET [a : Int, b : Int, o : Int], outputs : SUBSET Int]

\* Variables occur only once they are handed out, a gate is numbered after its
\* inputs.
Ordered(m) ==
  /\ \A v \in m.inputs : v <= m.numVars
  /\ \A g \in m.ands : /\ g.lhs <= m.numVars
                       /\ VarOf(g.rhs0) < g.lhs
                       /\ VarOf(g.rhs1) < g.lhs
  /\ \A o \in m.outputs : o \in LitsOf(m)

\* The hash table and the gates are the same set, and no two entries have the
\* same inputs.
Hashed(m) ==
  /\ \A e \in m.andhash : [lhs |-> e.o, rhs0 |-> e.a, rhs1 |-> e.b] \in m.ands
  /\ \A g \in m.ands : [a |-> g.rhs0, b |-> g.rhs1, o |-> g.lhs] \in m.andhash
  /\ \A e, f \in m.andhash : EqualAnd(e, f.a, f.b) => e.o = f.o

\* A variable is an input or names one gate.
Decided(m) ==
  /\ \A v \in 1..m.numVars : v \in m.inputs \/ \E g \in m.ands : g.lhs = v
  /\ \A g \in m.ands : g.lhs \notin m.inputs
  /\ \A g, h \in m.ands : g.lhs = h.lhs => g = h

WF(m) == m \in Graph /\ Ordered(m) /\ Hashed(m) /\ Decided(m)

\* m2 is m with more gates.
Extends(m, m2) ==
  /\ m.numVars <= m2.numVars
  /\ m.ands \subseteq m2.ands
  /\ m.inputs = m2.inputs
  /\ m.outputs = m2.outputs

\* What a constructor returns when it is called on graph m.
Good(m, r) == WF(r.m) /\ Extends(m, r.m) /\ r.lit \in LitsOf(r.m)

\* s gives the variables of m values (and perhaps others)...
Covers(s, m) == \A v \in 1..m.numVars : s[v] \in BOOLEAN

\* ... that agree with the gates of m.
ModelOf(s, m) == Covers(s, m) /\ Respects(s, m)

\* The graph of a new bfman is well formed.
LEMMA EmptyWF == WF(EmptyGraph)
BY LiteralMaxAssumption DEF WF, Graph, Ordered, Hashed, Decided, EmptyGraph

-----------------------------------------------------------------------------
\* Negation stays within the literals of a graph.
LEMMA NegLit ==
  ASSUME NEW m \in Graph, NEW a \in LitsOf(m)
  PROVE  -a \in LitsOf(m) /\ a \in Int /\ -(-a) = a
  BY LiteralMaxAssumption
     DEF LitsOf, Lit, Var, VarOf, Constants, LITERAL_TRUE, LITERAL_FALSE, Graph

\* The literals of a graph are literals of a larger one.
LEMMA LitsGrow ==
  ASSUME NEW m \in Graph, NEW m2 \in Graph, m.numVars <= m2.numVars
  PROVE  LitsOf(m) \subseteq LitsOf(m2)
  BY LiteralMaxAssumption DEF LitsOf, Lit, Var, VarOf, Graph

\* A graph that fits is one that may have run over.
LEMMA GraphIsWide ==
  ASSUME NEW m \in Graph
  PROVE  m \in Wide /\ LitsOf(m) \subseteq Int
<1>1. Var \subseteq Int /\ Lit \subseteq Int /\ Constants \subseteq Int
  BY LiteralMaxAssumption
     DEF Var, Lit, Constants, LITERAL_TRUE, LITERAL_FALSE
<1>2. m.numVars \in Nat
  BY DEF Graph
<1>3. m.ands \subseteq [lhs : Int, rhs0 : Int, rhs1 : Int]
  BY <1>1 DEF Graph
<1>4. m.andhash \subseteq [a : Int, b : Int, o : Int]
  BY <1>1 DEF Graph
<1>5. QED BY <1>1, <1>2, <1>3, <1>4 DEF Graph, Wide, LitsOf

\* The fields of the graph bfNewAnd builds when it makes a gate.
LEMMA NewGateFields ==
  ASSUME NEW m \in Wide, NEW a, NEW b
  PROVE  LET r == NewGate(m, a, b)
             o == m.numVars + 1
         IN  /\ r.lit = o
             /\ r.m = [numVars |-> o, inputs |-> m.inputs,
                       ands |-> m.ands \cup {[lhs |-> o, rhs0 |-> a, rhs1 |-> b]},
                       andhash |-> m.andhash \cup {[a |-> a, b |-> b, o |-> o]},
                       outputs |-> m.outputs]
  BY DEF NewGate, Result, AddAnd, HashInsert, AuxVar, Wide

\* A literal that does not simplify is a proper literal.
LEMMA ProperArgs ==
  ASSUME NEW m \in Graph, NEW a \in LitsOf(m), NEW b \in LitsOf(m),
         ~AndSimplifies(a, b)
  PROVE  /\ a \in Lit /\ VarOf(a) <= m.numVars
         /\ b \in Lit /\ VarOf(b) <= m.numVars
  BY DEF AndSimplifies, LitsOf

-----------------------------------------------------------------------------
(***************************************************************************)
(* bfNewAnd                                                                *)
(***************************************************************************)
\* The new gate goes behind every variable, so the graph stays ordered; it is
\* made only when no entry has its inputs, so the table stays unambiguous.
LEMMA NewGateWF ==
  ASSUME NEW m, WF(m), NEW a \in LitsOf(m), NEW b \in LitsOf(m),
         ~AndSimplifies(a, b), Found(m, a, b) = {}, Fits(NewGate(m, a, b).m)
  PROVE  LET r == NewGate(m, a, b)
         IN  Good(m, r)
<1> DEFINE r == NewGate(m, a, b)
           o == m.numVars + 1
           gate == [lhs |-> o, rhs0 |-> a, rhs1 |-> b]
           entry == [a |-> a, b |-> b, o |-> o]
<1>1. m \in Graph /\ Ordered(m) /\ Hashed(m) /\ Decided(m)
  BY DEF WF
<1>2. /\ r.lit = o
      /\ r.m = [numVars |-> o, inputs |-> m.inputs, ands |-> m.ands \cup {gate},
                andhash |-> m.andhash \cup {entry}, outputs |-> m.outputs]
  BY <1>1, GraphIsWide, NewGateFields
<1>3. m.numVars \in Nat /\ o \in Var /\ o < LITERAL_MAX
  BY <1>1, <1>2, LiteralMaxAssumption DEF Fits, Graph, Var
<1>4. a \in Lit /\ VarOf(a) < o /\ b \in Lit /\ VarOf(b) < o
  <2>1. VarOf(a) \in Nat /\ VarOf(b) \in Nat
    BY <1>1, ProperArgs DEF VarOf, Lit, Var
  <2>2. QED BY <1>1, <1>3, <2>1, ProperArgs
<1>5. r.m \in Graph
  <2>1. o \in 0..(LITERAL_MAX - 1)
    BY <1>3, LiteralMaxAssumption
  <2>2. gate \in [lhs : Var, rhs0 : Lit, rhs1 : Lit]
    BY <1>3, <1>4
  <2>3. entry \in [a : Lit, b : Lit, o : Var]
    BY <1>3, <1>4
  <2>4. QED BY <1>1, <1>2, <2>1, <2>2, <2>3 DEF Graph
<1>6. Ordered(r.m)
  <2>1. \A v \in r.m.inputs : v <= r.m.numVars
    BY <1>1, <1>2, <1>3 DEF Ordered, Graph, Var
  <2>2. \A g \in r.m.ands : /\ g.lhs <= r.m.numVars
                            /\ VarOf(g.rhs0) < g.lhs
                            /\ VarOf(g.rhs1) < g.lhs
    BY <1>1, <1>2, <1>3, <1>4 DEF Ordered, Graph, Var
  <2>3. \A l \in r.m.outputs : l \in LitsOf(r.m)
    BY <1>1, <1>2, <1>3, <1>5, LitsGrow DEF Ordered
  <2>4. QED BY <2>1, <2>2, <2>3 DEF Ordered
<1>7. Hashed(r.m)
  <2>1. \A e \in r.m.andhash :
          [lhs |-> e.o, rhs0 |-> e.a, rhs1 |-> e.b] \in r.m.ands
    <3>1. [lhs |-> entry.o, rhs0 |-> entry.a, rhs1 |-> entry.b] = gate
      OBVIOUS
    <3>2. ASSUME NEW e \in m.andhash
          PROVE  [lhs |-> e.o, rhs0 |-> e.a, rhs1 |-> e.b] \in m.ands
      BY <1>1 DEF Hashed
    <3> TAKE e \in r.m.andhash
    <3>3. e = entry \/ e \in m.andhash
      BY <1>2
    <3>4. m.ands \subseteq r.m.ands /\ gate \in r.m.ands
      BY <1>2
    <3>5. QED BY <3>1, <3>2, <3>3, <3>4
  <2>2. \A g \in r.m.ands :
          [a |-> g.rhs0, b |-> g.rhs1, o |-> g.lhs] \in r.m.andhash
    <3>1. [a |-> gate.rhs0, b |-> gate.rhs1, o |-> gate.lhs] = entry
      OBVIOUS
    <3>2. ASSUME NEW g \in m.ands
          PROVE  [a |-> g.rhs0, b |-> g.rhs1, o |-> g.lhs] \in m.andhash
      BY <1>1 DEF Hashed
    <3> TAKE g \in r.m.ands
    <3>3. g = gate \/ g \in m.ands
      BY <1>2
    <3>4. m.andhash \subseteq r.m.andhash /\ entry \in r.m.andhash
      BY <1>2
    <3>5. QED BY <3>1, <3>2, <3>3, <3>4
  <2>3. \A e \in m.andhash : ~EqualAnd(e, a, b)
    BY DEF Found
  <2>4. \A e \in m.andhash : ~EqualAnd(entry, e.a, e.b)
    BY <2>3 DEF EqualAnd
  <2>5. ASSUME NEW e \in r.m.andhash, NEW f \in r.m.andhash,
               EqualAnd(e, f.a, f.b)
        PROVE  e.o = f.o
    BY <1>1, <1>2, <2>3, <2>4, <2>5 DEF Hashed
  <2>6. QED BY <2>1, <2>2, <2>5 DEF Hashed
<1>8. Extends(m, r.m)
  BY <1>2, <1>3 DEF Extends
<1>9. r.lit \in LitsOf(r.m)
  BY <1>2, <1>3 DEF LitsOf, Lit, VarOf, Var
<1>10. Decided(r.m)
  <2>1. \A v \in 1..r.m.numVars : v \in r.m.inputs \/ \E g \in r.m.ands : g.lhs = v
    <3> TAKE v \in 1..r.m.numVars
    <3>1. CASE v = o
      <4>1. gate \in r.m.ands /\ gate.lhs = o
        BY <1>2
      <4>2. QED BY <3>1, <4>1
    <3>2. CASE v # o
      <4>1. v \in 1..m.numVars
        BY <1>2, <1>3, <3>2
      <4>2. QED BY <1>1, <1>2, <4>1 DEF Decided
    <3>3. QED BY <3>1, <3>2
  <2>2. \A g \in m.ands : g.lhs # o
    BY <1>1, <1>3 DEF Ordered, Graph
  <2>3. o \notin m.inputs
    BY <1>1, <1>3 DEF Ordered, Graph
  <2>4. \A g \in r.m.ands : g \in m.ands \/ (g = gate /\ g.lhs = o)
    BY <1>2
  <2>5. \A g \in r.m.ands : g.lhs \notin r.m.inputs
    BY <1>1, <1>2, <2>3, <2>4 DEF Decided
  <2>6. \A g, h \in r.m.ands : g.lhs = h.lhs => g = h
    BY <1>1, <2>2, <2>4 DEF Decided
  <2>7. QED BY <2>1, <2>5, <2>6 DEF Decided
<1>11. QED BY <1>5, <1>6, <1>7, <1>8, <1>9, <1>10 DEF WF, Good

\* A gate keeps a graph well formed, unless the counter runs over.
LEMMA NewAndWF ==
  ASSUME NEW m, WF(m), NEW a \in LitsOf(m), NEW b \in LitsOf(m),
         Fits(NewAnd(m, a, b).m)
  PROVE  Good(m, NewAnd(m, a, b))
<1> DEFINE r == NewAnd(m, a, b)
<1>0. m \in Graph /\ m.numVars \in Nat
  BY DEF WF, Graph
<1>1. CASE AndSimplifies(a, b)
  <2>1. r.m = m /\ r.lit = AndSimplified(a, b)
    BY <1>1 DEF NewAnd, Result
  <2>2. AndSimplified(a, b) \in LitsOf(m)
    BY DEF AndSimplified, LitsOf, Constants
  <2>3. QED BY <1>0, <2>1, <2>2 DEF Extends, Good
<1>2. CASE ~AndSimplifies(a, b) /\ Found(m, a, b) # {}
  <2>1. PICK e \in Found(m, a, b) : r = Result(m, e.o)
    BY <1>2 DEF NewAnd
  <2>2. r.m = m /\ r.lit = e.o
    BY <2>1 DEF Result
  <2>3. e.o \in Var /\ e.o <= m.numVars
    BY <1>0 DEF Found, WF, Graph, Hashed, Ordered
  <2>4. QED BY <1>0, <2>2, <2>3 DEF Good, Extends, LitsOf, Lit, VarOf, Var
<1>3. CASE ~AndSimplifies(a, b) /\ Found(m, a, b) = {}
  <2>1. r = NewGate(m, a, b)
    BY <1>3 DEF NewAnd
  <2>2. QED BY <1>3, <2>1, NewGateWF
<1>4. QED BY <1>1, <1>2, <1>3

-----------------------------------------------------------------------------
(***************************************************************************)
(* The meaning of literals                                                 *)
(***************************************************************************)
LEMMA ValBoolean ==
  ASSUME NEW m \in Graph, NEW s, Covers(s, m), NEW a \in LitsOf(m)
  PROVE  Val(s, a) \in BOOLEAN
<1>1. CASE a \in Constants
  <2>1. Val(s, a) = (a = LITERAL_TRUE)
    BY <1>1 DEF Val
  <2>2. (a = LITERAL_TRUE) \in BOOLEAN
    BY Zenon
  <2>3. QED BY <2>1, <2>2
<1>2. CASE a \notin Constants
  <2>1. a \in Int /\ a # 0 /\ VarOf(a) \in 1..m.numVars
    BY <1>2, LiteralMaxAssumption DEF LitsOf, Lit, Var, VarOf, Graph
  <2>2. s[VarOf(a)] \in BOOLEAN
    BY <2>1 DEF Covers
  <2>3. CASE a > 0
    BY <1>2, <2>1, <2>2, <2>3 DEF Val, VarOf
  <2>4. CASE a < 0
    <3>1. ~(a > 0) /\ VarOf(a) = -a
      BY <2>1, <2>4 DEF VarOf
    <3>2. Val(s, a) = ~s[-a]
      BY <1>2, <3>1 DEF Val
    <3>3. (~s[-a]) \in BOOLEAN
      BY Zenon
    <3>4. QED BY <3>2, <3>3
  <2>5. a > 0 \/ a < 0
    BY <2>1
  <2>6. QED BY <2>3, <2>4, <2>5
<1>3. QED BY <1>1, <1>2

\* The negation of a literal has the opposite value.
LEMMA ValNeg ==
  ASSUME NEW m \in Graph, NEW s, Covers(s, m), NEW a \in LitsOf(m)
  PROVE  Val(s, -a) = ~Val(s, a)
<1>1. CASE a \in Constants
  BY <1>1, LiteralMaxAssumption
     DEF Val, Constants, LITERAL_TRUE, LITERAL_FALSE
<1>2. CASE a \notin Constants
  <2>1. a \in Int /\ a # 0 /\ VarOf(a) \in 1..m.numVars /\ -(-a) = a
    BY <1>2, LiteralMaxAssumption DEF LitsOf, Lit, Var, VarOf, Graph
  <2>2. -a \notin Constants
    BY <1>2, <2>1, LiteralMaxAssumption
       DEF Constants, LITERAL_TRUE, LITERAL_FALSE
  <2>3. s[VarOf(a)] \in BOOLEAN
    BY <2>1 DEF Covers
  <2>4. CASE a > 0
    <3>1. Val(s, a) = s[a]
      BY <1>2, <2>4 DEF Val
    <3>2. ~(-a > 0)
      BY <2>1, <2>4
    <3>3. Val(s, -a) = ~s[a]
      BY <2>1, <2>2, <3>2 DEF Val
    <3>4. QED BY <3>1, <3>3
  <2>5. CASE a < 0
    <3>1. ~(a > 0) /\ -a > 0 /\ VarOf(a) = -a
      BY <2>1, <2>5 DEF VarOf
    <3>2. Val(s, a) = ~s[-a] /\ Val(s, -a) = s[-a]
      BY <1>2, <2>2, <3>1 DEF Val
    <3>3. QED BY <2>3, <3>1, <3>2
  <2>6. QED BY <2>1, <2>4, <2>5
<1>3. QED BY <1>1, <1>2

\* A model of a graph is a model of every graph it extends.
LEMMA ModelShrinks ==
  ASSUME NEW m \in Graph, NEW m2 \in Graph, Extends(m, m2),
         NEW s, Covers(s, m2), Respects(s, m2)
  PROVE  Covers(s, m) /\ Respects(s, m)
  BY DEF Extends, Covers, Respects, Graph

\* A gate means the conjunction of its inputs.
LEMMA NewAndMeans ==
  ASSUME NEW m, WF(m), NEW a \in LitsOf(m), NEW b \in LitsOf(m),
         NEW s, Fits(NewAnd(m, a, b).m),
         Covers(s, NewAnd(m, a, b).m), Respects(s, NewAnd(m, a, b).m)
  PROVE  Val(s, NewAnd(m, a, b).lit) = (Val(s, a) /\ Val(s, b))
<1> DEFINE r == NewAnd(m, a, b)
<1>1. m \in Graph /\ WF(r.m) /\ Extends(m, r.m)
  BY NewAndWF DEF WF, Good
<1>2. Covers(s, m) /\ Respects(s, m)
  BY <1>1, ModelShrinks DEF WF
<1>3. Val(s, a) \in BOOLEAN /\ Val(s, b) \in BOOLEAN
  BY <1>1, <1>2, ValBoolean
<1>4. CASE AndSimplifies(a, b)
  <2>1. r.lit = AndSimplified(a, b)
    BY <1>4 DEF NewAnd, Result
  <2>2. Val(s, LITERAL_TRUE) = TRUE /\ Val(s, LITERAL_FALSE) = FALSE
    BY LiteralMaxAssumption DEF Val, Constants, LITERAL_TRUE, LITERAL_FALSE
  <2>3. Val(s, -b) = ~Val(s, b)
    BY <1>1, <1>2, ValNeg
  <2>4. QED BY <1>3, <1>4, <2>1, <2>2, <2>3
            DEF AndSimplifies, AndSimplified, Constants
<1>5. CASE ~AndSimplifies(a, b) /\ Found(m, a, b) # {}
  <2>1. PICK e \in Found(m, a, b) : r = Result(m, e.o)
    BY <1>5 DEF NewAnd
  <2>2. r.lit = e.o /\ e \in m.andhash /\ EqualAnd(e, a, b)
    BY <2>1 DEF Result, Found
  <2> DEFINE g == [lhs |-> e.o, rhs0 |-> e.a, rhs1 |-> e.b]
  <2>3. g \in m.ands
    BY <2>2 DEF WF, Hashed
  <2>4. s[e.o] = (Val(s, e.a) /\ Val(s, e.b))
    BY <1>2, <2>3 DEF Respects
  <2>5. e.o \in Var
    BY <1>1, <2>2 DEF Graph
  <2>6. e.o \notin Constants /\ e.o > 0
    BY <2>5, LiteralMaxAssumption
       DEF Var, Constants, LITERAL_TRUE, LITERAL_FALSE
  <2>7. Val(s, e.o) = s[e.o]
    BY <2>6 DEF Val
  <2>8. QED BY <1>3, <2>2, <2>4, <2>7 DEF EqualAnd
<1>6. CASE ~AndSimplifies(a, b) /\ Found(m, a, b) = {}
  <2> DEFINE o == m.numVars + 1
             g == [lhs |-> o, rhs0 |-> a, rhs1 |-> b]
  <2>1. r = NewGate(m, a, b)
    BY <1>6 DEF NewAnd
  <2>2. r.lit = o /\ r.m.numVars = o /\ g \in r.m.ands
    <3>1. /\ r.lit = o
          /\ r.m = [numVars |-> o, inputs |-> m.inputs,
                    ands |-> m.ands \cup {g},
                    andhash |-> m.andhash \cup {[a |-> a, b |-> b, o |-> o]},
                    outputs |-> m.outputs]
      BY <1>1, <2>1, GraphIsWide, NewGateFields
    <3>2. QED BY <3>1
  <2>3. s[o] = (Val(s, a) /\ Val(s, b))
    BY <2>2 DEF Respects
  <2>4. o \notin Constants /\ o > 0
    BY <1>1, <2>2, LiteralMaxAssumption
       DEF Graph, WF, Constants, LITERAL_TRUE, LITERAL_FALSE
  <2>5. Val(s, o) = s[o]
    BY <2>4 DEF Val
  <2>6. QED BY <2>2, <2>3, <2>5
<1>7. QED BY <1>4, <1>5, <1>6

-----------------------------------------------------------------------------
(***************************************************************************)
(* The constructors made of bfNewAnd                                       *)
(***************************************************************************)
\* Variables are never given back, even past the largest literal.
LEMMA NewAndGrows ==
  ASSUME NEW m \in Wide, NEW a \in Int, NEW b \in Int
  PROVE  /\ NewAnd(m, a, b).m \in Wide
         /\ NewAnd(m, a, b).lit \in Int
         /\ m.numVars <= NewAnd(m, a, b).m.numVars
<1> DEFINE r == NewAnd(m, a, b)
           o == m.numVars + 1
<1>1. CASE AndSimplifies(a, b)
  <2>1. r.m = m /\ r.lit = AndSimplified(a, b)
    BY <1>1 DEF NewAnd, Result
  <2>2. AndSimplified(a, b) \in Int
    BY LiteralMaxAssumption DEF AndSimplified, LITERAL_TRUE, LITERAL_FALSE
  <2>3. QED BY <2>1, <2>2 DEF Wide
<1>2. CASE ~AndSimplifies(a, b) /\ Found(m, a, b) # {}
  <2>1. PICK e \in Found(m, a, b) : r = Result(m, e.o)
    BY <1>2 DEF NewAnd
  <2>2. QED BY <2>1 DEF Found, Result, Wide
<1>3. CASE ~AndSimplifies(a, b) /\ Found(m, a, b) = {}
  <2> DEFINE g == [lhs |-> o, rhs0 |-> a, rhs1 |-> b]
             e == [a |-> a, b |-> b, o |-> o]
  <2>1. r = NewGate(m, a, b)
    BY <1>3 DEF NewAnd
  <2>2. /\ r.lit = o
        /\ r.m = [numVars |-> o, inputs |-> m.inputs, ands |-> m.ands \cup {g},
                  andhash |-> m.andhash \cup {e}, outputs |-> m.outputs]
    BY <2>1, NewGateFields
  <2>3. o \in Nat /\ g \in [lhs : Int, rhs0 : Int, rhs1 : Int]
                 /\ e \in [a : Int, b : Int, o : Int]
    BY DEF Wide
  <2>4. QED BY <2>2, <2>3 DEF Wide
<1>4. QED BY <1>1, <1>2, <1>3

\* Two calls in a row extend the graph as one does.
LEMMA GoodTrans ==
  ASSUME NEW m, NEW r, NEW r2, WF(m), Good(m, r), Good(r.m, r2)
  PROVE  /\ Good(m, r2) /\ LitsOf(m) \subseteq LitsOf(r.m)
         /\ LitsOf(r.m) \subseteq LitsOf(r2.m)
<1>1. m \in Graph /\ r.m \in Graph /\ r2.m \in Graph
  BY DEF WF, Good
<1>2. Extends(m, r2.m)
  BY <1>1 DEF Good, Extends, Graph
<1>3. QED BY <1>1, <1>2, LitsGrow DEF Good, Extends

\* bfNewAnd, in the form the other constructors use it.
LEMMA AndSound ==
  ASSUME NEW m, WF(m), NEW a \in LitsOf(m), NEW b \in LitsOf(m),
         Fits(NewAnd(m, a, b).m)
  PROVE  /\ Good(m, NewAnd(m, a, b))
         /\ \A s : ModelOf(s, NewAnd(m, a, b).m) =>
              /\ ModelOf(s, m)
              /\ Val(s, NewAnd(m, a, b).lit) = (Val(s, a) /\ Val(s, b))
<1>1. Good(m, NewAnd(m, a, b))
  BY NewAndWF
<1>2. ASSUME NEW s, ModelOf(s, NewAnd(m, a, b).m)
      PROVE  /\ ModelOf(s, m)
             /\ Val(s, NewAnd(m, a, b).lit) = (Val(s, a) /\ Val(s, b))
  BY <1>1, <1>2, NewAndMeans, ModelShrinks DEF ModelOf, Good, WF
<1>3. QED BY <1>1, <1>2

\* Negating the result of a constructor.
LEMMA NotSound ==
  ASSUME NEW m, NEW r, Good(m, r), r = Result(r.m, r.lit)
  PROVE  /\ Not(r).m = r.m /\ Not(r).lit = -r.lit
         /\ Good(m, Not(r))
         /\ \A s : ModelOf(s, r.m) => Val(s, -r.lit) = ~Val(s, r.lit)
<1>1. Not(r).m = r.m /\ Not(r).lit = -r.lit
  BY DEF Not, Result
<1>2. r.m \in Graph
  BY DEF Good, WF
<1>3. -r.lit \in LitsOf(r.m)
  BY <1>2, NegLit DEF Good
<1>4. \A s : ModelOf(s, r.m) => Val(s, -r.lit) = ~Val(s, r.lit)
  BY <1>2, ValNeg DEF Good, ModelOf
<1>5. QED BY <1>1, <1>3, <1>4 DEF Good

\* bfNewAnd returns a graph and a literal.
LEMMA NewAndShape ==
  ASSUME NEW m, NEW a, NEW b
  PROVE  NewAnd(m, a, b) = Result(NewAnd(m, a, b).m, NewAnd(m, a, b).lit)
  BY DEF NewAnd, NewGate, Result

\* The constants have their values in every valuation.
LEMMA ConstantValues ==
  ASSUME NEW s
  PROVE  Val(s, LITERAL_TRUE) = TRUE /\ Val(s, LITERAL_FALSE) = FALSE
  BY LiteralMaxAssumption DEF Val, Constants, LITERAL_TRUE, LITERAL_FALSE

\* A constructor that simplifies returns its own graph.
LEMMA SimplifiedGood ==
  ASSUME NEW m, WF(m), NEW l \in LitsOf(m)
  PROVE  Good(m, Result(m, l))
  BY DEF Good, Result, WF, Extends, Graph

\* bfNewOr means the disjunction.
LEMMA OrSound ==
  ASSUME NEW m, WF(m), NEW a \in LitsOf(m), NEW b \in LitsOf(m),
         Fits(NewOr(m, a, b).m)
  PROVE  /\ Good(m, NewOr(m, a, b))
         /\ \A s : ModelOf(s, NewOr(m, a, b).m) =>
              /\ ModelOf(s, m)
              /\ Val(s, NewOr(m, a, b).lit) = (Val(s, a) \/ Val(s, b))
<1> DEFINE r == NewOr(m, a, b)
<1>0. m \in Graph
  BY DEF WF
<1>1. -a \in LitsOf(m) /\ -b \in LitsOf(m)
  BY <1>0, NegLit
<1>2. CASE AndSimplifies(a, b)
  <2>1. r = Result(m, OrSimplified(a, b)) /\ r.m = m /\ r.lit = OrSimplified(a, b)
    BY <1>2 DEF NewOr, Result
  <2>2. OrSimplified(a, b) \in LitsOf(m)
    BY DEF OrSimplified, LitsOf, Constants
  <2>3. ASSUME NEW s, ModelOf(s, m)
        PROVE  Val(s, OrSimplified(a, b)) = (Val(s, a) \/ Val(s, b))
    <3>1. Val(s, a) \in BOOLEAN /\ Val(s, b) \in BOOLEAN
      BY <1>0, <2>3, ValBoolean DEF ModelOf
    <3>2. Val(s, -b) = ~Val(s, b)
      BY <1>0, <2>3, ValNeg DEF ModelOf
    <3>3. QED BY <1>2, <3>1, <3>2, ConstantValues
              DEF AndSimplifies, OrSimplified, Constants
  <2>4. QED BY <2>1, <2>2, <2>3, SimplifiedGood
<1>3. CASE ~AndSimplifies(a, b)
  <2> DEFINE p == NewAnd(m, -a, -b)
  <2>1. r = Not(p) /\ p = Result(p.m, p.lit)
    BY <1>3, NewAndShape DEF NewOr
  <2>2. r.m = p.m
    BY <2>1 DEF Not, Result
  <2>3. Good(m, p)
    BY <1>1, <2>2, AndSound
  <2>4. Good(m, r) /\ r.lit = -p.lit
    BY <2>1, <2>3, NotSound
  <2>5. ASSUME NEW s, ModelOf(s, r.m)
        PROVE  ModelOf(s, m) /\ Val(s, r.lit) = (Val(s, a) \/ Val(s, b))
    <3>1. ModelOf(s, m) /\ Val(s, p.lit) = (Val(s, -a) /\ Val(s, -b))
      BY <1>1, <2>2, <2>5, AndSound
    <3>2. Val(s, -a) = ~Val(s, a) /\ Val(s, -b) = ~Val(s, b)
      BY <1>0, <3>1, ValNeg DEF ModelOf
    <3>3. Val(s, a) \in BOOLEAN /\ Val(s, b) \in BOOLEAN
      BY <1>0, <3>1, ValBoolean DEF ModelOf
    <3>4. Val(s, r.lit) = ~Val(s, p.lit)
      BY <2>1, <2>2, <2>3, <2>4, <2>5, NotSound
    <3>5. QED BY <3>1, <3>2, <3>3, <3>4
  <2>6. QED BY <2>4, <2>5
<1>4. QED BY <1>2, <1>3

\* Three calls of bfNewAnd in a row, the last on the negated results of the
\* first two, in the order the build evaluates arguments.
Chain(m, a, b, c, d) ==
  LET p == NewAnd(m, a, b)
      q == NewAnd(p.m, c, d)
  IN  IF ArgsRightToLeft THEN NewAnd(q.m, -q.lit, -p.lit)
      ELSE NewAnd(q.m, -p.lit, -q.lit)

\* The conjunction of two negated conjunctions, left one first, means what it says.
LEMMA ChainSound ==
  ASSUME NEW m, WF(m),
         NEW a \in LitsOf(m), NEW b \in LitsOf(m),
         NEW c \in LitsOf(m), NEW d \in LitsOf(m),
         Fits(Chain(m, a, b, c, d).m)
  PROVE  LET r == Chain(m, a, b, c, d)
         IN  /\ Good(m, r) /\ r = Result(r.m, r.lit)
             /\ \A s : ModelOf(s, r.m) =>
                  /\ ModelOf(s, m)
                  /\ Val(s, r.lit) =
                       (~(Val(s, a) /\ Val(s, b)) /\ ~(Val(s, c) /\ Val(s, d)))
<1> DEFINE p == NewAnd(m, a, b)
           q == NewAnd(p.m, c, d)
           r == Chain(m, a, b, c, d)
<1>a. r \in {NewAnd(q.m, -p.lit, -q.lit), NewAnd(q.m, -q.lit, -p.lit)}
  BY DEF Chain
<1> HIDE DEF r
<1>b. Fits(r.m)
  BY DEF r
<1>0. m \in Graph /\ m \in Wide /\ LitsOf(m) \subseteq Int
  BY GraphIsWide DEF WF
<1>1. Fits(p.m) /\ Fits(q.m)
  <2>1. p.m \in Wide /\ p.lit \in Int
    BY <1>0, NewAndGrows
  <2>2. q.m \in Wide /\ q.lit \in Int /\ p.m.numVars <= q.m.numVars
    BY <1>0, <2>1, NewAndGrows
  <2>3. -p.lit \in Int /\ -q.lit \in Int
    BY <2>1, <2>2
  <2>4. r.m \in Wide /\ q.m.numVars <= r.m.numVars
    BY <1>a, <2>2, <2>3, NewAndGrows
  <2>5. QED BY <1>b, <2>1, <2>2, <2>4, LiteralMaxAssumption DEF Fits, Wide
<1>2. Good(m, p)
  BY <1>1, AndSound
<1>3. WF(p.m) /\ LitsOf(m) \subseteq LitsOf(p.m)
  BY <1>0, <1>2, LitsGrow DEF Good, Extends, WF
<1>4. Good(p.m, q)
  BY <1>1, <1>3, AndSound
<1>5. WF(q.m) /\ p.lit \in LitsOf(q.m) /\ q.lit \in LitsOf(q.m) /\ Good(m, q)
  BY <1>2, <1>3, <1>4, GoodTrans DEF Good
<1>6. -p.lit \in LitsOf(q.m) /\ -q.lit \in LitsOf(q.m)
  BY <1>5, NegLit DEF WF
<1>7. Good(q.m, r) /\ r = Result(r.m, r.lit)
  BY <1>a, <1>b, <1>5, <1>6, AndSound, NewAndShape
<1>8. Good(m, r)
  BY <1>5, <1>7, GoodTrans
<1>9. ASSUME NEW s, ModelOf(s, r.m)
      PROVE  /\ ModelOf(s, m)
             /\ Val(s, r.lit) = (~(Val(s, a) /\ Val(s, b)) /\ ~(Val(s, c) /\ Val(s, d)))
  <2>1. /\ ModelOf(s, q.m)
        /\ \/ Val(s, r.lit) = (Val(s, -p.lit) /\ Val(s, -q.lit))
           \/ Val(s, r.lit) = (Val(s, -q.lit) /\ Val(s, -p.lit))
    BY <1>a, <1>b, <1>5, <1>6, <1>9, AndSound
  <2>2. ModelOf(s, p.m) /\ Val(s, q.lit) = (Val(s, c) /\ Val(s, d))
    BY <1>1, <1>3, <2>1, AndSound
  <2>3. ModelOf(s, m) /\ Val(s, p.lit) = (Val(s, a) /\ Val(s, b))
    BY <1>1, <2>2, AndSound
  <2>4. Val(s, -p.lit) = ~Val(s, p.lit) /\ Val(s, -q.lit) = ~Val(s, q.lit)
    BY <1>5, <2>1, ValNeg DEF ModelOf, WF
  <2>5. QED BY <2>1, <2>2, <2>3, <2>4
<1>10. QED BY <1>7, <1>8, <1>9 DEF r

\* The conjunction of two negated conjunctions, in either order of evaluation.
LEMMA AndOfNandsSound ==
  ASSUME NEW m, WF(m),
         NEW a \in LitsOf(m), NEW b \in LitsOf(m),
         NEW c \in LitsOf(m), NEW d \in LitsOf(m),
         Fits(AndOfNands(m, a, b, c, d).m)
  PROVE  LET r == AndOfNands(m, a, b, c, d)
         IN  /\ Good(m, r) /\ r = Result(r.m, r.lit)
             /\ \A s : ModelOf(s, r.m) =>
                  /\ ModelOf(s, m)
                  /\ Val(s, r.lit) =
                       (~(Val(s, a) /\ Val(s, b)) /\ ~(Val(s, c) /\ Val(s, d)))
<1>1. CASE ArgsRightToLeft
  <2>1. AndOfNands(m, a, b, c, d) = Chain(m, c, d, a, b)
    BY <1>1 DEF AndOfNands, Chain
  <2>2. QED BY <2>1, ChainSound
<1>2. CASE ~ArgsRightToLeft
  <2>1. AndOfNands(m, a, b, c, d) = Chain(m, a, b, c, d)
    BY <1>2 DEF AndOfNands, Chain
  <2>2. QED BY <2>1, ChainSound
<1>3. QED BY <1>1, <1>2

\* bfNewXor means that the inputs differ.
LEMMA XorSound ==
  ASSUME NEW m, WF(m), NEW a \in LitsOf(m), NEW b \in LitsOf(m),
         Fits(NewXor(m, a, b).m)
  PROVE  LET r == NewXor(m, a, b)
         IN  /\ Good(m, r) /\ r = Result(r.m, r.lit)
             /\ \A s : ModelOf(s, r.m) =>
                  /\ ModelOf(s, m)
                  /\ Val(s, r.lit) = (Val(s, a) # Val(s, b))
<1> DEFINE r == NewXor(m, a, b)
<1>0. m \in Graph
  BY DEF WF
<1>1. -a \in LitsOf(m) /\ -b \in LitsOf(m)
  BY <1>0, NegLit
<1>2. ASSUME NEW s, ModelOf(s, m)
      PROVE  /\ Val(s, a) \in BOOLEAN /\ Val(s, b) \in BOOLEAN
             /\ Val(s, -a) = ~Val(s, a) /\ Val(s, -b) = ~Val(s, b)
  BY <1>0, <1>2, ValBoolean, ValNeg DEF ModelOf
<1>3. CASE AndSimplifies(a, b)
  <2>1. r = Result(m, XorSimplified(a, b)) /\ r.m = m /\ r.lit = XorSimplified(a, b)
    BY <1>3 DEF NewXor, Result
  <2>2. XorSimplified(a, b) \in LitsOf(m)
    BY <1>1 DEF XorSimplified, LitsOf, Constants
  <2>3. ASSUME NEW s, ModelOf(s, m)
        PROVE  Val(s, XorSimplified(a, b)) = (Val(s, a) # Val(s, b))
    BY <1>2, <1>3, <2>3, ConstantValues
       DEF AndSimplifies, XorSimplified, Constants
  <2>4. QED BY <2>1, <2>2, <2>3, SimplifiedGood
<1>4. CASE ~AndSimplifies(a, b)
  <2>1. r = AndOfNands(m, a, b, -a, -b)
    BY <1>4 DEF NewXor
  <2>2. /\ Good(m, r) /\ r = Result(r.m, r.lit)
        /\ \A s : ModelOf(s, r.m) =>
             /\ ModelOf(s, m)
             /\ Val(s, r.lit) =
                  (~(Val(s, a) /\ Val(s, b)) /\ ~(Val(s, -a) /\ Val(s, -b)))
    BY <1>1, <2>1, AndOfNandsSound
  <2>3. ASSUME NEW s, ModelOf(s, r.m)
        PROVE  ModelOf(s, m) /\ Val(s, r.lit) = (Val(s, a) # Val(s, b))
    BY <1>2, <2>2, <2>3
  <2>4. QED BY <2>2, <2>3
<1>5. QED BY <1>3, <1>4

\* bfNewImplies means the implication.
LEMMA ImpliesSound ==
  ASSUME NEW m, WF(m), NEW a \in LitsOf(m), NEW b \in LitsOf(m),
         Fits(NewImplies(m, a, b).m)
  PROVE  /\ Good(m, NewImplies(m, a, b))
         /\ \A s : ModelOf(s, NewImplies(m, a, b).m) =>
              /\ ModelOf(s, m)
              /\ Val(s, NewImplies(m, a, b).lit) = (Val(s, a) => Val(s, b))
<1>1. m \in Graph /\ -a \in LitsOf(m)
  BY NegLit DEF WF
<1>2. NewImplies(m, a, b) = NewOr(m, -a, b)
  BY DEF NewImplies
<1>3. ASSUME NEW s, ModelOf(s, NewOr(m, -a, b).m)
      PROVE  ModelOf(s, m) /\ Val(s, NewOr(m, -a, b).lit) = (Val(s, a) => Val(s, b))
  <2>1. ModelOf(s, m) /\ Val(s, NewOr(m, -a, b).lit) = (Val(s, -a) \/ Val(s, b))
    BY <1>1, <1>2, <1>3, OrSound
  <2>2. Val(s, -a) = ~Val(s, a) /\ Val(s, a) \in BOOLEAN /\ Val(s, b) \in BOOLEAN
    BY <1>1, <2>1, ValNeg, ValBoolean DEF ModelOf
  <2>3. QED BY <2>1, <2>2
<1>4. QED BY <1>1, <1>2, <1>3, OrSound

\* bfNewSelect means the choice.
LEMMA SelectSound ==
  ASSUME NEW m, WF(m),
         NEW a \in LitsOf(m), NEW b \in LitsOf(m), NEW c \in LitsOf(m),
         Fits(NewSelect(m, a, b, c).m)
  PROVE  LET r == NewSelect(m, a, b, c)
         IN  /\ Good(m, r)
             /\ \A s : ModelOf(s, r.m) =>
                  /\ ModelOf(s, m)
                  /\ Val(s, r.lit) = (IF Val(s, a) THEN Val(s, b) ELSE Val(s, c))
<1> DEFINE r == NewSelect(m, a, b, c)
<1>0. m \in Graph /\ -a \in LitsOf(m)
  BY NegLit DEF WF
<1>1. ASSUME NEW s, ModelOf(s, m)
      PROVE  /\ Val(s, a) \in BOOLEAN /\ Val(s, b) \in BOOLEAN
             /\ Val(s, c) \in BOOLEAN /\ Val(s, -a) = ~Val(s, a)
  BY <1>0, <1>1, ValBoolean, ValNeg DEF ModelOf
<1>2. CASE a = LITERAL_TRUE
  <2>1. r = Result(m, b) /\ r.m = m /\ r.lit = b
    BY <1>2 DEF NewSelect, Result
  <2>2. ASSUME NEW s, ModelOf(s, m)
        PROVE  Val(s, b) = (IF Val(s, a) THEN Val(s, b) ELSE Val(s, c))
    BY <1>2, ConstantValues
  <2>3. QED BY <2>1, <2>2, SimplifiedGood
<1>3. CASE a # LITERAL_TRUE /\ (a = LITERAL_FALSE \/ b = c)
  <2>1. r = Result(m, c) /\ r.m = m /\ r.lit = c
    BY <1>3 DEF NewSelect, Result
  <2>2. ASSUME NEW s, ModelOf(s, m)
        PROVE  Val(s, c) = (IF Val(s, a) THEN Val(s, b) ELSE Val(s, c))
    BY <1>3, ConstantValues
  <2>3. QED BY <2>1, <2>2, SimplifiedGood
<1>4. CASE ~(a = LITERAL_TRUE \/ a = LITERAL_FALSE \/ b = c)
  <2> DEFINE p == AndOfNands(m, a, b, -a, c)
  <2>1. r = Not(p)
    BY <1>4 DEF NewSelect
  <2>2. r.m = p.m
    BY <2>1 DEF Not
  <2>3. /\ Good(m, p) /\ p = Result(p.m, p.lit)
        /\ \A s : ModelOf(s, p.m) =>
             /\ ModelOf(s, m)
             /\ Val(s, p.lit) =
                  (~(Val(s, a) /\ Val(s, b)) /\ ~(Val(s, -a) /\ Val(s, c)))
    BY <1>0, <2>2, AndOfNandsSound
  <2>4. /\ Good(m, r) /\ r.lit = -p.lit
        /\ \A s : ModelOf(s, p.m) => Val(s, -p.lit) = ~Val(s, p.lit)
    BY <2>1, <2>3, NotSound
  <2>5. ASSUME NEW s, ModelOf(s, r.m)
        PROVE  /\ ModelOf(s, m)
               /\ Val(s, r.lit) = (IF Val(s, a) THEN Val(s, b) ELSE Val(s, c))
    <3>1. /\ ModelOf(s, m)
          /\ Val(s, p.lit) =
               (~(Val(s, a) /\ Val(s, b)) /\ ~(Val(s, -a) /\ Val(s, c)))
          /\ Val(s, r.lit) = ~Val(s, p.lit)
      BY <2>2, <2>3, <2>4, <2>5
    <3>2. QED BY <1>1, <3>1
  <2>6. QED BY <2>4, <2>5
<1>5. QED BY <1>2, <1>3, <1>4

-----------------------------------------------------------------------------
(***************************************************************************)
(* Inputs and constraints                                                  *)
(***************************************************************************)
LEMMA NewVarSound ==
  ASSUME NEW m, WF(m), Fits(NewVar(m))
  PROVE  /\ WF(NewVar(m)) /\ NewVar(m).outputs = m.outputs
         /\ \A s : ModelOf(s, NewVar(m)) => ModelOf(s, m)
<1> DEFINE o == m.numVars + 1
           n == NewVar(m)
<1>1. m \in Graph /\ Ordered(m) /\ Hashed(m) /\ Decided(m) /\ m \in Wide
  BY GraphIsWide DEF WF
<1>2. n = [numVars |-> o, inputs |-> m.inputs \cup {o}, ands |-> m.ands,
           andhash |-> m.andhash, outputs |-> m.outputs]
  <2> DEFINE x == m.inputs \cup {o}
  <2>1. n = [m EXCEPT !.numVars = o, !.inputs = x]
    BY DEF NewVar
  <2> HIDE DEF n, o, x
  <2>2. n = [numVars |-> o, inputs |-> x, ands |-> m.ands,
             andhash |-> m.andhash, outputs |-> m.outputs]
    BY <1>1, <2>1 DEF Wide
  <2>3. QED BY <2>2 DEF x
<1>3. m.numVars \in Nat /\ o \in Var /\ o < LITERAL_MAX
  BY <1>1, <1>2, LiteralMaxAssumption DEF Fits, Graph, Var
<1>4. n \in Graph
  <2>1. o \in 0..(LITERAL_MAX - 1)
    BY <1>3, LiteralMaxAssumption
  <2>2. QED BY <1>1, <1>2, <1>3, <2>1 DEF Graph
<1>5. Ordered(n)
  <2>1. \A v \in n.inputs : v <= n.numVars
    BY <1>1, <1>2, <1>3 DEF Ordered, Graph, Var
  <2>2. \A g \in n.ands : /\ g.lhs <= n.numVars
                          /\ VarOf(g.rhs0) < g.lhs
                          /\ VarOf(g.rhs1) < g.lhs
    BY <1>1, <1>2, <1>3 DEF Ordered, Graph, Var
  <2>3. \A l \in n.outputs : l \in LitsOf(n)
    BY <1>1, <1>2, <1>3, <1>4, LitsGrow DEF Ordered
  <2>4. QED BY <2>1, <2>2, <2>3 DEF Ordered
<1>6. Hashed(n)
  BY <1>1, <1>2 DEF Hashed
<1>7. ASSUME NEW s, ModelOf(s, n)
      PROVE  ModelOf(s, m)
  BY <1>2, <1>3, <1>7 DEF ModelOf, Covers, Respects
<1>8. Decided(n)
  <2>1. \A v \in 1..n.numVars : v = o \/ v \in 1..m.numVars
    BY <1>2, <1>3
  <2>2. \A g \in n.ands : g.lhs # o
    BY <1>1, <1>2, <1>3 DEF Ordered, Graph
  <2>3. QED BY <1>1, <1>2, <2>1, <2>2 DEF Decided
<1>9. QED BY <1>2, <1>4, <1>5, <1>6, <1>7, <1>8 DEF WF

\* No constraint of m is violated by s.
Quiet(s, m) == \A o \in m.outputs : o \notin Constants /\ ~Val(s, o)

\* bfSet adds its literal to the constraints, unless it is the false constant.
LEMMA SetSound ==
  ASSUME NEW m, WF(m), NEW a \in LitsOf(m)
  PROVE  /\ WF(Set(m, a)) /\ Set(m, a).numVars = m.numVars
         /\ \A s : ModelOf(s, Set(m, a)) =>
              /\ ModelOf(s, m)
              /\ Quiet(s, Set(m, a)) <=>
                   Quiet(s, m) /\ (a = LITERAL_FALSE \/ Val(s, a))
<1> DEFINE n == Set(m, a)
<1>0. m \in Graph /\ Ordered(m) /\ Hashed(m) /\ Decided(m) /\ -a \in LitsOf(m)
  BY NegLit DEF WF
<1>1. CASE a \in Constants
  <2>1. n = m
    BY <1>1 DEF Set
  <2>2. \A s : a = LITERAL_FALSE \/ Val(s, a)
    BY <1>1, ConstantValues DEF Constants
  <2>3. QED BY <2>1, <2>2
<1>2. CASE a \notin Constants
  <2>1. n = [numVars |-> m.numVars, inputs |-> m.inputs, ands |-> m.ands,
             andhash |-> m.andhash, outputs |-> m.outputs \cup {-a}]
    BY <1>0, <1>2 DEF Set, Graph
  <2>2. n \in Graph
    BY <1>0, <2>1 DEF Graph, LitsOf
  <2>3. LitsOf(n) = LitsOf(m)
    BY <2>1 DEF LitsOf
  <2>4. Ordered(n)
    BY <1>0, <2>1, <2>3 DEF Ordered
  <2>5. Hashed(n)
    BY <1>0, <2>1 DEF Hashed
  <2>6. -a \notin Constants /\ a # LITERAL_FALSE
    BY <1>0, <1>2, NegLit, LiteralMaxAssumption
       DEF Constants, LITERAL_TRUE, LITERAL_FALSE
  <2>7. ASSUME NEW s, ModelOf(s, n)
        PROVE  /\ ModelOf(s, m)
               /\ Quiet(s, n) <=> Quiet(s, m) /\ (a = LITERAL_FALSE \/ Val(s, a))
    <3>1. ModelOf(s, m)
      BY <2>1, <2>7 DEF ModelOf, Covers, Respects
    <3>2. Val(s, -a) = ~Val(s, a) /\ Val(s, a) \in BOOLEAN
      BY <1>0, <3>1, ValNeg, ValBoolean DEF ModelOf
    <3>3. Quiet(s, n) <=> Quiet(s, m) /\ -a \notin Constants /\ ~Val(s, -a)
      BY <2>1 DEF Quiet
    <3>4. QED BY <2>6, <3>1, <3>2, <3>3
  <2>8. Decided(n)
    BY <1>0, <2>1 DEF Decided
  <2>9. QED BY <2>1, <2>2, <2>4, <2>5, <2>7, <2>8 DEF WF
<1>3. QED BY <1>1, <1>2

\* bfNewOr returns a literal, also on a graph that ran over.
LEMMA NewOrGrows ==
  ASSUME NEW m \in Wide, NEW a \in Int, NEW b \in Int
  PROVE  /\ NewOr(m, a, b).m \in Wide
         /\ NewOr(m, a, b).lit \in Int
         /\ m.numVars <= NewOr(m, a, b).m.numVars
<1>1. CASE AndSimplifies(a, b)
  <2>1. NewOr(m, a, b).m = m /\ NewOr(m, a, b).lit = OrSimplified(a, b)
    BY <1>1 DEF NewOr, Result
  <2>2. OrSimplified(a, b) \in Int
    BY LiteralMaxAssumption DEF OrSimplified, LITERAL_TRUE, LITERAL_FALSE
  <2>3. QED BY <2>1, <2>2 DEF Wide
<1>2. CASE ~AndSimplifies(a, b)
  <2>1. /\ NewOr(m, a, b).m = NewAnd(m, -a, -b).m
        /\ NewOr(m, a, b).lit = -NewAnd(m, -a, -b).lit
    BY <1>2, NewAndShape DEF NewOr, Not, Result
  <2>2. QED BY <2>1, NewAndGrows
<1>3. QED BY <1>1, <1>2

\* bfNewOr answers the false constant only when it is called on it.
LEMMA OrFalse ==
  ASSUME NEW m, WF(m), NEW a \in LitsOf(m), NEW b \in LitsOf(m),
         Fits(NewOr(m, a, b).m), NewOr(m, a, b).lit = LITERAL_FALSE
  PROVE  a = LITERAL_FALSE /\ b = LITERAL_FALSE
<1>0. m \in Graph /\ m.numVars \in Nat
  BY DEF WF, Graph
<1>1. CASE AndSimplifies(a, b)
  <2>1. OrSimplified(a, b) = LITERAL_FALSE
    BY <1>1 DEF NewOr, Result
  <2>2. LITERAL_FALSE # LITERAL_TRUE
    BY LiteralMaxAssumption DEF LITERAL_TRUE, LITERAL_FALSE
  <2>3. QED BY <1>1, <2>1, <2>2 DEF OrSimplified
<1>2. CASE ~AndSimplifies(a, b)
  <2> DEFINE p == NewAnd(m, -a, -b)
  <2>1. -a \in LitsOf(m) /\ -b \in LitsOf(m) /\ -(-b) = b
    BY <1>0, NegLit
  <2>2. ~AndSimplifies(-a, -b)
    <3>1. a \in Int /\ b \in Int /\ LITERAL_MAX \in Int
      BY <1>0, NegLit, LiteralMaxAssumption
    <3>2. QED BY <1>2, <3>1
              DEF AndSimplifies, Constants, LITERAL_TRUE, LITERAL_FALSE
  <2>3. NewOr(m, a, b).m = p.m /\ NewOr(m, a, b).lit = -p.lit
    BY <1>2, NewAndShape DEF NewOr, Not, Result
  <2>4. p.lit \in Var
    <3>1. CASE Found(m, -a, -b) # {}
      <4>1. PICK e \in Found(m, -a, -b) : p = Result(m, e.o)
        BY <2>2, <3>1 DEF NewAnd
      <4>2. QED BY <1>0, <4>1 DEF Found, Graph, Result
    <3>2. CASE Found(m, -a, -b) = {}
      <4>1. p = NewGate(m, -a, -b)
        BY <2>2, <3>2 DEF NewAnd
      <4>2. p.lit = m.numVars + 1 /\ p.m.numVars = m.numVars + 1
        <5>1. /\ p.lit = m.numVars + 1
              /\ p.m = [numVars |-> m.numVars + 1, inputs |-> m.inputs,
                   ands |-> m.ands \cup
                     {[lhs |-> m.numVars + 1, rhs0 |-> -a, rhs1 |-> -b]},
                   andhash |-> m.andhash \cup
                     {[a |-> -a, b |-> -b, o |-> m.numVars + 1]},
                   outputs |-> m.outputs]
          BY <1>0, <4>1, GraphIsWide, NewGateFields
        <5>2. QED BY <5>1
      <4>3. QED BY <1>0, <2>3, <4>2, LiteralMaxAssumption DEF Fits, Var
    <3>3. QED BY <3>1, <3>2
  <2>5. -p.lit # LITERAL_FALSE
    BY <2>4, LiteralMaxAssumption DEF Var, LITERAL_FALSE
  <2>6. QED BY <2>3, <2>5
<1>3. QED BY <1>1, <1>2

\* bfSetEqual records exactly the equality, unless it compares the constants.
LEMMA SetEqualSound ==
  ASSUME NEW m, WF(m), NEW a \in LitsOf(m), NEW b \in LitsOf(m),
         Fits(SetEqual(m, a, b))
  PROVE  LET n == SetEqual(m, a, b)
         IN  /\ WF(n)
             /\ \A s : ModelOf(s, n) =>
                  /\ ModelOf(s, m)
                  /\ Quiet(s, n) <=> /\ Quiet(s, m)
                                     /\ {a, b} = Constants \/ Val(s, a) = Val(s, b)
<1> DEFINE r1 == NewOr(m, a, -b)
           m1 == Set(r1.m, r1.lit)
           r2 == NewOr(m1, -a, b)
           n == Set(r2.m, r2.lit)
<1>1. SetEqual(m, a, b) = n
  BY DEF SetEqual
<1>2. /\ m \in Graph /\ m \in Wide /\ a \in Int /\ b \in Int
      /\ -a \in LitsOf(m) /\ -b \in LitsOf(m) /\ -(-a) = a /\ -(-b) = b
  BY NegLit, GraphIsWide DEF WF
<1>3. Fits(r1.m) /\ Fits(r2.m)
  <2>1. r1.m \in Wide /\ r1.lit \in Int
    BY <1>2, NewOrGrows
  <2>2. m1 \in Wide /\ m1.numVars = r1.m.numVars
    BY <2>1 DEF Set, Wide
  <2>3. r2.m \in Wide /\ m1.numVars <= r2.m.numVars
    BY <1>2, <2>2, NewOrGrows
  <2>4. n.numVars = r2.m.numVars
    BY <2>3 DEF Set, Wide
  <2>5. QED BY <1>1, <2>1, <2>2, <2>3, <2>4, LiteralMaxAssumption DEF Fits, Wide
<1>4. /\ Good(m, r1)
      /\ \A s : ModelOf(s, r1.m) =>
           ModelOf(s, m) /\ Val(s, r1.lit) = (Val(s, a) \/ Val(s, -b))
  BY <1>2, <1>3, OrSound
<1>5. WF(r1.m) /\ LitsOf(m) \subseteq LitsOf(r1.m) /\ r1.m.outputs = m.outputs
  BY <1>2, <1>4, LitsGrow DEF Good, Extends, WF
<1>6. /\ WF(m1) /\ m1.numVars = r1.m.numVars
      /\ \A s : ModelOf(s, m1) =>
           /\ ModelOf(s, r1.m)
           /\ Quiet(s, m1) <=>
                Quiet(s, r1.m) /\ (r1.lit = LITERAL_FALSE \/ Val(s, r1.lit))
  BY <1>4, <1>5, SetSound DEF Good
<1>7. -a \in LitsOf(m1) /\ b \in LitsOf(m1)
  BY <1>2, <1>5, <1>6 DEF LitsOf
<1>8. /\ Good(m1, r2)
      /\ \A s : ModelOf(s, r2.m) =>
           ModelOf(s, m1) /\ Val(s, r2.lit) = (Val(s, -a) \/ Val(s, b))
  BY <1>3, <1>6, <1>7, OrSound
<1>9. WF(r2.m) /\ r2.lit \in LitsOf(r2.m) /\ r2.m.outputs = m1.outputs
  BY <1>8 DEF Good, Extends
<1>10. /\ WF(n)
       /\ \A s : ModelOf(s, n) =>
            /\ ModelOf(s, r2.m)
            /\ Quiet(s, n) <=>
                 Quiet(s, r2.m) /\ (r2.lit = LITERAL_FALSE \/ Val(s, r2.lit))
  BY <1>9, SetSound
<1>11. /\ r1.lit = LITERAL_FALSE => a = LITERAL_FALSE /\ b = LITERAL_TRUE
       /\ r2.lit = LITERAL_FALSE => a = LITERAL_TRUE /\ b = LITERAL_FALSE
  <2>1. r1.lit = LITERAL_FALSE => a = LITERAL_FALSE /\ -b = LITERAL_FALSE
    BY <1>2, <1>3, OrFalse
  <2>2. r2.lit = LITERAL_FALSE => -a = LITERAL_FALSE /\ b = LITERAL_FALSE
    BY <1>3, <1>6, <1>7, OrFalse
  <2>3. QED BY <1>2, <2>1, <2>2, LiteralMaxAssumption
            DEF LITERAL_TRUE, LITERAL_FALSE
<1>12. ASSUME NEW s, ModelOf(s, n)
       PROVE  /\ ModelOf(s, m)
              /\ Quiet(s, n) <=> /\ Quiet(s, m)
                                 /\ {a, b} = Constants \/ Val(s, a) = Val(s, b)
  <2>1. ModelOf(s, r2.m) /\ ModelOf(s, m1) /\ ModelOf(s, r1.m) /\ ModelOf(s, m)
    BY <1>4, <1>6, <1>8, <1>10, <1>12
  <2>2. /\ Val(s, a) \in BOOLEAN /\ Val(s, b) \in BOOLEAN
        /\ Val(s, -a) = ~Val(s, a) /\ Val(s, -b) = ~Val(s, b)
    BY <1>2, <2>1, ValBoolean, ValNeg DEF ModelOf
  <2>3. /\ Val(s, r1.lit) = (Val(s, a) \/ ~Val(s, b))
        /\ Val(s, r2.lit) = (~Val(s, a) \/ Val(s, b))
    BY <1>4, <1>8, <2>1, <2>2
  <2>4. /\ Quiet(s, r1.m) <=> Quiet(s, m)
        /\ Quiet(s, r2.m) <=> Quiet(s, m1)
    BY <1>5, <1>9 DEF Quiet
  <2>5. Quiet(s, n) <=> /\ Quiet(s, m)
                        /\ r1.lit = LITERAL_FALSE \/ Val(s, r1.lit)
                        /\ r2.lit = LITERAL_FALSE \/ Val(s, r2.lit)
    BY <1>6, <1>10, <1>12, <2>1, <2>4
  <2>6. CASE {a, b} = Constants
    <3>1. \/ a = LITERAL_TRUE /\ b = LITERAL_FALSE
          \/ a = LITERAL_FALSE /\ b = LITERAL_TRUE
      BY <2>6, LiteralMaxAssumption DEF Constants, LITERAL_TRUE, LITERAL_FALSE
    <3>2. /\ r1.lit = LITERAL_FALSE \/ Val(s, r1.lit)
          /\ r2.lit = LITERAL_FALSE \/ Val(s, r2.lit)
      <4>1. CASE a = LITERAL_TRUE /\ b = LITERAL_FALSE
        <5>1. r2.lit = LITERAL_FALSE
          BY <1>2, <4>1, LiteralMaxAssumption
             DEF NewOr, AndSimplifies, Constants, OrSimplified, Result,
                 LITERAL_TRUE, LITERAL_FALSE
        <5>2. QED BY <2>3, <4>1, <5>1, ConstantValues
      <4>2. CASE a = LITERAL_FALSE /\ b = LITERAL_TRUE
        <5>1. r1.lit = LITERAL_FALSE
          BY <1>2, <4>2, LiteralMaxAssumption
             DEF NewOr, AndSimplifies, Constants, OrSimplified, Result,
                 LITERAL_TRUE, LITERAL_FALSE
        <5>2. QED BY <2>3, <4>2, <5>1, ConstantValues
      <4>3. QED BY <3>1, <4>1, <4>2
    <3>3. QED BY <2>1, <2>5, <2>6, <3>2
  <2>7. CASE {a, b} # Constants
    <3>1. r1.lit # LITERAL_FALSE /\ r2.lit # LITERAL_FALSE
      BY <1>11, <2>7 DEF Constants
    <3>2. QED BY <2>1, <2>2, <2>3, <2>5, <2>7, <3>1
  <2>8. QED BY <2>6, <2>7
<1>13. QED BY <1>1, <1>10, <1>12

\* The conjunction of two negated conjunctions is a literal, also of a graph that ran over.
LEMMA ChainGrows ==
  ASSUME NEW m \in Wide, NEW a \in Int, NEW b \in Int, NEW c \in Int, NEW d \in Int
  PROVE  LET r == AndOfNands(m, a, b, c, d)
         IN  r.m \in Wide /\ r.lit \in Int /\ r = Result(r.m, r.lit)
<1>1. ASSUME NEW x \in Int, NEW y \in Int, NEW u \in Int, NEW v \in Int
      PROVE  LET r == Chain(m, x, y, u, v)
             IN  r.m \in Wide /\ r.lit \in Int /\ r = Result(r.m, r.lit)
  <2> DEFINE p == NewAnd(m, x, y)
             q == NewAnd(p.m, u, v)
  <2>1. p.m \in Wide /\ p.lit \in Int
    BY NewAndGrows
  <2>2. q.m \in Wide /\ q.lit \in Int
    BY <2>1, NewAndGrows
  <2>3. -p.lit \in Int /\ -q.lit \in Int
    BY <2>1, <2>2
  <2>4. QED BY <2>2, <2>3, NewAndGrows, NewAndShape DEF Chain
<1>2. AndOfNands(m, a, b, c, d) \in {Chain(m, a, b, c, d), Chain(m, c, d, a, b)}
  BY DEF AndOfNands, Chain
<1>3. LET r == Chain(m, a, b, c, d)
      IN  r.m \in Wide /\ r.lit \in Int /\ r = Result(r.m, r.lit)
  BY <1>1
<1>4. LET r == Chain(m, c, d, a, b)
      IN  r.m \in Wide /\ r.lit \in Int /\ r = Result(r.m, r.lit)
  BY <1>1
<1>5. CASE AndOfNands(m, a, b, c, d) = Chain(m, a, b, c, d)
  BY <1>3, <1>5
<1>6. CASE AndOfNands(m, a, b, c, d) = Chain(m, c, d, a, b)
  BY <1>4, <1>6
<1>7. QED BY <1>2, <1>5, <1>6

\* Whatever a constructor returns, its variable counter is a number and its
\* literal is an integer.
LEMMA ResultsWide ==
  ASSUME NEW m \in Wide, NEW a \in Int, NEW b \in Int, NEW c \in Int
  PROVE  /\ NewAnd(m, a, b).m \in Wide /\ NewAnd(m, a, b).lit \in Int
         /\ NewOr(m, a, b).m \in Wide /\ NewOr(m, a, b).lit \in Int
         /\ NewXor(m, a, b).m \in Wide /\ NewXor(m, a, b).lit \in Int
         /\ NewSelect(m, a, b, c).m \in Wide
<1>1. -a \in Int /\ -b \in Int
  OBVIOUS
<1>2. NewXor(m, a, b).m \in Wide /\ NewXor(m, a, b).lit \in Int
  <2>1. CASE AndSimplifies(a, b)
    <3>1. XorSimplified(a, b) \in Int
      BY LiteralMaxAssumption DEF XorSimplified, LITERAL_TRUE, LITERAL_FALSE
    <3>2. QED BY <2>1, <3>1 DEF NewXor, Result
  <2>2. CASE ~AndSimplifies(a, b)
    BY <1>1, <2>2, ChainGrows DEF NewXor
  <2>3. QED BY <2>1, <2>2
<1>3. NewSelect(m, a, b, c).m \in Wide
  <2> DEFINE p == AndOfNands(m, a, b, -a, c)
  <2>1. p.m \in Wide /\ p = Result(p.m, p.lit)
    BY <1>1, ChainGrows
  <2>2. Not(p).m = p.m
    BY <2>1 DEF Not, Result
  <2>3. QED BY <2>1, <2>2 DEF NewSelect, Result
<1>4. QED BY <1>2, <1>3, NewAndGrows, NewOrGrows

\* A constraint on a graph that ran over leaves a graph.
LEMMA SetGrows ==
  ASSUME NEW m \in Wide, NEW a \in Int
  PROVE  Set(m, a) \in Wide /\ Set(m, a).numVars = m.numVars
  BY DEF Set, Wide

\* So does an equality.
LEMMA SetEqualGrows ==
  ASSUME NEW m \in Wide, NEW a \in Int, NEW b \in Int
  PROVE  SetEqual(m, a, b) \in Wide /\ m.numVars <= SetEqual(m, a, b).numVars
<1> DEFINE r1 == NewOr(m, a, -b)
           m1 == Set(r1.m, r1.lit)
           r2 == NewOr(m1, -a, b)
<1>0. -a \in Int /\ -b \in Int
  OBVIOUS
<1>1. r1.m \in Wide /\ r1.lit \in Int /\ m.numVars <= r1.m.numVars
  BY <1>0, NewOrGrows
<1>2. m1 \in Wide /\ m1.numVars = r1.m.numVars
  BY <1>1, SetGrows
<1>3. r2.m \in Wide /\ r2.lit \in Int /\ m1.numVars <= r2.m.numVars
  BY <1>0, <1>2, NewOrGrows
<1>4. /\ Set(r2.m, r2.lit) \in Wide
      /\ Set(r2.m, r2.lit).numVars = r2.m.numVars
  BY <1>3, SetGrows
<1>5. SetEqual(m, a, b) = Set(r2.m, r2.lit)
  BY DEF SetEqual
<1>6. m.numVars \in Nat /\ m1.numVars \in Nat /\ r2.m.numVars \in Nat
  BY <1>2, <1>3 DEF Wide
<1>7. QED BY <1>1, <1>2, <1>3, <1>4, <1>5, <1>6

\* bfNewOr returns a graph and a literal.
LEMMA OrShape ==
  ASSUME NEW m, NEW a, NEW b
  PROVE  NewOr(m, a, b) = Result(NewOr(m, a, b).m, NewOr(m, a, b).lit)
<1>1. CASE AndSimplifies(a, b)
  BY <1>1 DEF NewOr, Result
<1>2. CASE ~AndSimplifies(a, b)
  BY <1>2, NewAndShape DEF NewOr, Not, Result
<1>3. QED BY <1>1, <1>2

\* bfNewXor returns a graph and a literal.
LEMMA XorShape ==
  ASSUME NEW m, NEW a, NEW b
  PROVE  NewXor(m, a, b) = Result(NewXor(m, a, b).m, NewXor(m, a, b).lit)
<1>1. CASE AndSimplifies(a, b)
  BY <1>1 DEF NewXor, Result
<1>2. CASE ~AndSimplifies(a, b)
  BY <1>2, NewAndShape DEF NewXor, AndOfNands
<1>3. QED BY <1>1, <1>2

\* So does an input.
LEMMA NewVarWide ==
  ASSUME NEW m \in Wide
  PROVE  NewVar(m) \in Wide
<1> DEFINE o == m.numVars + 1
           x == m.inputs \cup {o}
<1>1. NewVar(m) = [m EXCEPT !.numVars = o, !.inputs = x]
  BY DEF NewVar
<1>2. o \in Nat /\ x \subseteq Int
  BY DEF Wide
<1> HIDE DEF o, x
<1>3. QED BY <1>1, <1>2 DEF Wide

-----------------------------------------------------------------------------
(***************************************************************************)
(* Evaluation.  A statement about every variable is proved by looking at   *)
(* the least variable of which it is false.                                *)
(***************************************************************************)
\* A set of numbers that is not empty has a least element.
LEMMA LeastNat ==
  ASSUME NEW S, S \subseteq Nat, S # {}
  PROVE  \E n \in S : \A k \in S : n <= k
<1> DEFINE R == OpToRel(<, Nat)
<1>1. IsWellFoundedOn(R, Nat)
  BY NatLessThanWellFounded
<1> HIDE DEF R
<1>2. PICK n \in S : \A k \in S : ~(<<k, n>> \in R)
  BY <1>1, WFMin
<1>3. \A k \in S : ~(k < n)
  BY <1>2 DEF R, OpToRel
<1>4. QED BY <1>3

\* The gate that names variable v, and the value of v when e gives those below.
GateOf(m, v) == CHOOSE g \in m.ands : g.lhs = v
EvalStep(m, i, e, v) ==
  IF v \in m.inputs THEN i[v]
  ELSE Val(e, GateOf(m, v).rhs0) /\ Val(e, GateOf(m, v).rhs1)

\* A gate is the one of its variable.
LEMMA GateOfIs ==
  ASSUME NEW m, WF(m), NEW g \in m.ands
  PROVE  GateOf(m, g.lhs) = g /\ g.lhs \notin m.inputs /\ g.lhs \in 1..m.numVars
<1>1. \A h \in m.ands : h.lhs = g.lhs => h = g
  BY DEF WF, Decided
<1>2. GateOf(m, g.lhs) \in m.ands /\ GateOf(m, g.lhs).lhs = g.lhs
  BY DEF GateOf
<1>3. g.lhs \in 1..m.numVars
  BY LiteralMaxAssumption DEF WF, Graph, Ordered, Var
<1>4. QED BY <1>1, <1>2, <1>3 DEF WF, Decided

\* A variable that is no input has a gate.
LEMMA GateOfAux ==
  ASSUME NEW m, WF(m), NEW v \in 1..m.numVars, v \notin m.inputs
  PROVE  GateOf(m, v) \in m.ands /\ GateOf(m, v).lhs = v
BY DEF GateOf, WF, Decided

\* The value of a literal depends on its variable only.
LEMMA ValSame ==
  ASSUME NEW l \in Lit \cup Constants, NEW e, NEW f, l \in Lit => e[VarOf(l)] = f[VarOf(l)]
  PROVE  Val(e, l) = Val(f, l)
BY LiteralMaxAssumption DEF Val, Lit, Var, VarOf, Constants, LITERAL_TRUE, LITERAL_FALSE

\* The value of v depends on the values below v.
LEMMA EvalStepSame ==
  ASSUME NEW m, WF(m), NEW i, NEW v \in 1..m.numVars, NEW e, NEW f,
         \A w \in 1..(v - 1) : e[w] = f[w]
  PROVE  EvalStep(m, i, e, v) = EvalStep(m, i, f, v)
<1>1. CASE v \in m.inputs
  BY <1>1 DEF EvalStep
<1>2. CASE v \notin m.inputs
  <2> DEFINE g == GateOf(m, v)
  <2>1. g \in m.ands /\ g.lhs = v
    BY <1>2, GateOfAux
  <2> HIDE DEF g
  <2>2. /\ g.rhs0 \in Lit /\ g.rhs1 \in Lit
        /\ VarOf(g.rhs0) < v /\ VarOf(g.rhs1) < v
    BY <2>1 DEF WF, Graph, Ordered
  <2>3. VarOf(g.rhs0) \in 1..(v - 1) /\ VarOf(g.rhs1) \in 1..(v - 1)
    BY <2>2, LiteralMaxAssumption DEF Lit, Var, VarOf
  <2>4. Val(e, g.rhs0) = Val(f, g.rhs0) /\ Val(e, g.rhs1) = Val(f, g.rhs1)
    BY <2>2, <2>3, ValSame
  <2>5. QED BY <1>2, <2>4 DEF EvalStep, g
<1>3. QED BY <1>1, <1>2

\* The function on the first n variables that solve.c computes.
Solves(m, i, n, f) == f = [v \in 1..n |-> EvalStep(m, i, f, v)]

\* The values of the gates can be computed in the order of their numbers.
LEMMA EvalExists ==
  ASSUME NEW m, WF(m), NEW i, NEW n \in 0..m.numVars
  PROVE  \E f : Solves(m, i, n, f)
<1> DEFINE S == {k \in 0..m.numVars : ~\E f : Solves(m, i, k, f)}
<1>0. m.numVars \in Nat
  BY DEF WF, Graph
<1>1. SUFFICES ASSUME S # {} PROVE FALSE
  BY <1>1
<1>2. PICK k \in S : \A j \in S : k <= j
  <2>1. S \subseteq Nat
    OBVIOUS
  <2> HIDE DEF S
  <2>2. QED BY <1>1, <2>1, LeastNat
<1>3. k \in 0..m.numVars /\ ~\E f : Solves(m, i, k, f)
  BY <1>2
<1>4. CASE k = 0
  <2> DEFINE f == [v \in 1..0 |-> TRUE]
  <2>1. 1..0 = {}
    OBVIOUS
  <2>2. f = [v \in 1..0 |-> EvalStep(m, i, f, v)]
    BY <2>1
  <2>3. QED BY <1>3, <1>4, <2>2 DEF Solves
<1>5. CASE k # 0
  <2>1. k - 1 \in 0..m.numVars /\ k - 1 \notin S
    BY <1>0, <1>2, <1>3, <1>5
  <2>2. PICK f : Solves(m, i, k - 1, f)
    BY <2>1
  <2> DEFINE h == [v \in 1..k |-> IF v = k THEN EvalStep(m, i, f, k) ELSE f[v]]
  <2>3. \A v \in 1..(k - 1) : h[v] = f[v]
    BY <1>0, <1>3
  <2>4. ASSUME NEW v \in 1..k
        PROVE  h[v] = EvalStep(m, i, h, v)
    <3>1. v \in 1..m.numVars /\ \A w \in 1..(v - 1) : f[w] = h[w]
      BY <1>0, <1>3, <2>3
    <3>2. EvalStep(m, i, f, v) = EvalStep(m, i, h, v)
      BY <3>1, EvalStepSame
    <3>3. CASE v = k
      BY <3>2, <3>3, Zenon
    <3>4. CASE v # k
      <4>1. v \in 1..(k - 1)
        BY <1>0, <1>3, <3>4
      <4>2. f[v] = EvalStep(m, i, f, v)
        BY <2>2, <4>1 DEF Solves
      <4>3. QED BY <2>3, <3>2, <4>1, <4>2
    <3>5. QED BY <3>3, <3>4
  <2> DEFINE q == [v \in 1..k |-> EvalStep(m, i, h, v)]
  <2>5. h = q
    BY <2>4
  <2>6. Solves(m, i, k, h)
    BY <2>5 DEF Solves
  <2>7. QED BY <1>3, <2>6
<1>6. QED BY <1>4, <1>5

\* Eval computes them.
LEMMA EvalSolves ==
  ASSUME NEW m, WF(m), NEW i
  PROVE  Solves(m, i, m.numVars, Eval(m, i))
<1>1. Eval(m, i) = CHOOSE f : f = [v \in 1..m.numVars |-> EvalStep(m, i, f, v)]
  BY DEF Eval, EvalStep, GateOf
<1>2. Eval(m, i) = CHOOSE f : Solves(m, i, m.numVars, f)
  BY <1>1 DEF Solves
<1>3. m.numVars \in 0..m.numVars
  BY DEF WF, Graph
<1>4. \E f : Solves(m, i, m.numVars, f)
  BY <1>3, EvalExists
<1>5. QED BY <1>2, <1>4

\* What solve.c computes from the inputs is a model of the graph...
LEMMA EvalIsModel ==
  ASSUME NEW m, WF(m), NEW i, \A v \in m.inputs : i[v] \in BOOLEAN
  PROVE  /\ Eval(m, i) \in [1..m.numVars -> BOOLEAN]
         /\ ModelOf(Eval(m, i), m)
         /\ \A v \in m.inputs : Eval(m, i)[v] = i[v]
<1> DEFINE e == Eval(m, i)
<1>1. e = [v \in 1..m.numVars |-> EvalStep(m, i, e, v)]
  BY EvalSolves DEF Solves
<1> HIDE DEF e
<1>2. \A v \in 1..m.numVars : EvalStep(m, i, e, v) \in BOOLEAN
  BY DEF EvalStep
<1>3. e \in [1..m.numVars -> BOOLEAN]
  BY <1>1, <1>2
<1>4. ASSUME NEW g \in m.ands
      PROVE  e[g.lhs] = (Val(e, g.rhs0) /\ Val(e, g.rhs1))
  <2>1. GateOf(m, g.lhs) = g /\ g.lhs \notin m.inputs /\ g.lhs \in 1..m.numVars
    BY GateOfIs
  <2>2. e[g.lhs] = EvalStep(m, i, e, g.lhs)
    BY <1>1, <2>1
  <2>3. QED BY <2>1, <2>2 DEF EvalStep
<1>5. ASSUME NEW v \in m.inputs
      PROVE  e[v] = i[v]
  <2>1. v \in 1..m.numVars
    BY LiteralMaxAssumption DEF WF, Graph, Ordered, Var
  <2>2. e[v] = EvalStep(m, i, e, v)
    BY <1>1, <2>1
  <2>3. QED BY <2>2 DEF EvalStep
<1>6. QED BY <1>3, <1>4, <1>5 DEF e, ModelOf, Covers, Respects

\* ... and the only one with these inputs.
LEMMA ModelsAgree ==
  ASSUME NEW m, WF(m), NEW s, NEW t, ModelOf(s, m), ModelOf(t, m),
         \A v \in m.inputs : s[v] = t[v]
  PROVE  \A v \in 1..m.numVars : s[v] = t[v]
<1> DEFINE S == {v \in 1..m.numVars : s[v] # t[v]}
<1>1. SUFFICES ASSUME S # {} PROVE FALSE
  BY <1>1
<1>2. PICK v \in S : \A w \in S : v <= w
  <2>1. S \subseteq Nat
    OBVIOUS
  <2> HIDE DEF S
  <2>2. QED BY <1>1, <2>1, LeastNat
<1>3. v \in 1..m.numVars /\ s[v] # t[v] /\ v \notin m.inputs
  BY <1>2
<1>4. \A w \in 1..(v - 1) : s[w] = t[w]
  BY <1>2, <1>3 DEF WF, Graph
<1> DEFINE g == GateOf(m, v)
<1>5. g \in m.ands /\ g.lhs = v
  BY <1>3, GateOfAux
<1> HIDE DEF g
<1>6. /\ g.rhs0 \in Lit /\ g.rhs1 \in Lit
      /\ VarOf(g.rhs0) < v /\ VarOf(g.rhs1) < v
  BY <1>5 DEF WF, Graph, Ordered
<1>7. VarOf(g.rhs0) \in 1..(v - 1) /\ VarOf(g.rhs1) \in 1..(v - 1)
  BY <1>6, LiteralMaxAssumption DEF Lit, Var, VarOf
<1>8. Val(s, g.rhs0) = Val(t, g.rhs0) /\ Val(s, g.rhs1) = Val(t, g.rhs1)
  BY <1>4, <1>6, <1>7, ValSame
<1>9. /\ s[v] = (Val(s, g.rhs0) /\ Val(s, g.rhs1))
      /\ t[v] = (Val(t, g.rhs0) /\ Val(t, g.rhs1))
  BY <1>5 DEF ModelOf, Respects
<1>10. QED BY <1>3, <1>8, <1>9

=============================================================================
