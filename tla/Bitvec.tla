-------------------------------- MODULE Bitvec --------------------------------
(***************************************************************************)
(* The algorithms of bitvec.c on the And-Inverter Graph.  Each function    *)
(* takes the graph and vectors of literals, the least significant first,   *)
(* and returns the graph with the gates it made and the new vector (the    *)
(* code's indices count from 0, a sequence's from 1).  A client calls them *)
(* one after the other, on any vectors it has.  What they return is        *)
(* compared with Words.  The client holds each of its vectors, so none is  *)
(* freed: what the functions do with vectors nobody holds is in Holds.     *)
(***************************************************************************)
EXTENDS BigGates

CONSTANTS
  NumInputs,    \* inputs the client has made, variables 1..NumInputs
  StartVectors, \* the sequences of vectors a client starts from
  Numbers,    \* the numbers a client passes
  MaxVectors,   \* bound: vectors a client has
  MaxWidth,     \* bound: the widest vector
  MaxClauses    \* bound: calls of bfSetClause

ASSUME BitvecAssumption ==
  /\ NumInputs \in 1..(LITERAL_MAX - 1) /\ Numbers \subseteq Nat
  /\ {MaxVectors, MaxWidth, MaxClauses} \subseteq Nat

VARIABLES
  man,       \* the graph of the bfman
  regs,      \* the vectors the client has, in the order they were made
  lastCall,  \* history: the last call that made a vector
  clauses    \* history: the positions of the vectors given to bfSetClause

vars == <<man, regs, lastCall, clauses>>

Vector(m, v) == [m |-> m, v |-> v]
AsVector(r) == Vector(r.m, <<r.lit>>)
Top(v) == v[Len(v)]
Zeros(n) == [j \in 1..n |-> LITERAL_FALSE]

\* Two inner calls of one argument list, in the order the build evaluates them.
Both(m, F(_), G(_)) ==
  IF ArgsRightToLeft
  THEN After(G(m), LAMBDA g :
         After(F(g.m), LAMBDA f : [m |-> f.m, l |-> f.lit, r |-> g.lit]))
  ELSE After(F(m), LAMBDA f :
         After(G(f.m), LAMBDA g : [m |-> g.m, l |-> f.lit, r |-> g.lit]))

\* A loop over positions: Step takes the graph and a position and makes one
\* literal of the result.
Loop(m, n, Step(_, _)) ==
  For(LAMBDA acc, j : Pushed(acc, Step(acc.m, j)), Vector(m, <<>>), n)

-----------------------------------------------------------------------------
(* Bit by bit.                                                              *)

bfvAnd(m, x, y) == Loop(m, Len(x), LAMBDA n, j : NewAnd(n, x[j], y[j]))
bfvOr(m, x, y) == Loop(m, Len(x), LAMBDA n, j : NewOr(n, x[j], y[j]))
bfvXor(m, x, y) == Loop(m, Len(x), LAMBDA n, j : NewXor(n, x[j], y[j]))
bfvInvert(m, x) == Vector(m, [j \in DOMAIN x |-> -x[j]])
bfvSelect(m, t, x, y) == Loop(m, Len(x), LAMBDA n, j : NewSelect(n, t, x[j], y[j]))
bfvReverse(m, x) == Vector(m, Reverse(x))
bfvConcat(m, x, y) == Vector(m, x \o y)
bfvZextend(m, k, x) == Vector(m, x \o Zeros(k - Len(x)))
bfvSextend(m, k, x) == Vector(m, x \o [j \in 1..(k - Len(x)) |-> Top(x)])
bfvTruncate(m, k, x) == Vector(m, SubSeq(x, 1, k))

\* Stops at the end of x.
bfvExtract(m, x, begin, len) ==
  Vector(m, SubSeq(x, begin + 1, Min({begin + len, Len(x)})))

Binary(n, width) ==
  [j \in 1..width |-> IF (n \div 2^(j - 1)) % 2 = 1 THEN LITERAL_TRUE ELSE LITERAL_FALSE]
bfvUconstant(m, width, n) == Vector(m, Binary(n, width))

-----------------------------------------------------------------------------
(* Arithmetic.                                                              *)

\* The carry of two bits: a majority vote.
Majority(m, c, a, b) ==
  After(Both(m, LAMBDA n : NewOr(n, a, b), LAMBDA n : NewAnd(n, a, b)),
        LAMBDA p : NewSelect(p.m, c, p.l, p.r))

Parity(m, c, a, b) == After(NewXor(m, a, b), LAMBDA r : NewXor(r.m, c, r.lit))

\* The sum, with the carry out appended.
bfvAdd(m, x, y, cin) ==
  LET step(acc, j) ==
        After(Parity(acc.m, acc.c, x[j], y[j]), LAMBDA s :
        After(Majority(s.m, acc.c, x[j], y[j]), LAMBDA c :
          [m |-> c.m, v |-> Append(acc.v, s.lit), c |-> c.lit]))
  IN  After(For(step, [m |-> m, v |-> <<>>, c |-> cin], Len(x)),
            LAMBDA sum : Vector(sum.m, Append(sum.v, sum.c)))

Sum(m, x, y, cin) ==
  After(bfvAdd(m, x, y, cin), LAMBDA s : Vector(s.m, Front(s.v)))

bfvSubtract(m, x, y) == Sum(m, x, bfvInvert(m, y).v, LITERAL_TRUE)
bfvIncr(m, x) == Sum(m, x, Binary(1, Len(x)), LITERAL_FALSE)

\* Every bit above the lowest that is true is inverted.
bfvNegate(m, x) ==
  LET step(acc, j) ==
        After(NewSelect(acc.m, acc.invert, -x[j], x[j]), LAMBDA s :
        After(NewOr(s.m, acc.invert, x[j]), LAMBDA o :
          [m |-> o.m, v |-> Append(acc.v, s.lit), invert |-> o.lit]))
  IN  After(For(step, [m |-> m, v |-> <<>>, invert |-> LITERAL_FALSE], Len(x)),
            LAMBDA neg : Vector(neg.m, neg.v))

bfvAbsoluteValue(m, x) ==
  After(bfvNegate(m, x), LAMBDA neg : bfvSelect(neg.m, Top(x), neg.v, x))

bfvSconstant(m, width, n) ==
  IF n < 0 THEN bfvNegate(m, Binary(-n, width)) ELSE Vector(m, Binary(n, width))

\* For each bit of y, x shifted is added to the part of the result above it.
bfvMul(m, x, y) ==
  LET row(acc, j) ==
        After(SubSeq(acc.v, j, Len(x)), LAMBDA high :
        After(Sum(acc.m, SubSeq(x, 1, Len(high)), high, LITERAL_FALSE), LAMBDA s :
        After(bfvSelect(s.m, y[j], s.v, high), LAMBDA t :
          Vector(t.m, SubSeq(acc.v, 1, j - 1) \o t.v))))
  IN  For(row, Vector(m, Zeros(Len(x))), Len(x))

-----------------------------------------------------------------------------
(* Comparisons.                                                             *)

\* Bits that are the same literal in front are skipped; the first that is not
\* may be its negation.
bfvEqual(m, x, y) ==
  LET differ == {j \in DOMAIN x : x[j] # y[j]}
      from(l) ==
        After(Loop(m, Len(x) - l + 1,
                   LAMBDA n, j : NewEqual(n, x[l + j - 1], y[l + j - 1])),
              LAMBDA eqs : bfBigAnd(eqs.m, eqs.v))
  IN  IF differ = {} THEN Result(m, LITERAL_TRUE)
      ELSE IF x[Min(differ)] = -y[Min(differ)] THEN Result(m, LITERAL_FALSE)
      ELSE from(Min(differ))

\* From the top bit down: x is less where y has the first bit they differ in.
bfvUlt(m, x, y) ==
  LET step(acc, j) ==
        After(Both(acc.m, LAMBDA n : bfBigAnd(n, acc.eqs),
                          LAMBDA n : NewAnd(n, y[j], -x[j])), LAMBDA p :
        After(NewAnd(p.m, p.l, p.r), LAMBDA lt :
        After(NewEqual(lt.m, -x[j], -y[j]), LAMBDA eq :
          [m |-> eq.m, eqs |-> Append(acc.eqs, eq.lit), ltp |-> Append(acc.ltp, lt.lit)])))
  IN  After(ForDown(step, [m |-> m, eqs |-> <<>>, ltp |-> <<>>], Len(x)),
            LAMBDA all : bfBigOr(all.m, all.ltp))

\* Either of two comparisons, made in the build's order.
OrEqual(LessThan(_), m, x, y) ==
  After(Both(m, LessThan, LAMBDA n : bfvEqual(n, x, y)),
        LAMBDA p : NewOr(p.m, p.l, p.r))

bfvUlte(m, x, y) == OrEqual(LAMBDA n : bfvUlt(n, x, y), m, x, y)

bfvSlt(m, x, y) ==
  LET sameSign(n) ==
        After(Both(n, LAMBDA o : NewEqual(o, Top(x), Top(y)), LAMBDA o : bfvUlt(o, x, y)),
              LAMBDA p : NewAnd(p.m, p.l, p.r))
  IN  After(Both(m, LAMBDA n : NewAnd(n, Top(x), -Top(y)), sameSign),
            LAMBDA p : NewOr(p.m, p.l, p.r))

bfvSlte(m, x, y) == OrEqual(LAMBDA n : bfvSlt(n, x, y), m, x, y)

bfvSltZero(m, x) == Result(m, Top(x))
bfvSgteZero(m, x) == Result(m, -Top(x))

-----------------------------------------------------------------------------
(* Shifts.  The width of the value is a power of two.                       *)

bfvLshiftConst(m, x, dist) ==
  LET d == Min({dist, Len(x)})
  IN  Vector(m, Zeros(d) \o SubSeq(x, 1, Len(x) - d))

bfvRshiftConst(m, x, dist, fill) ==
  LET d == Min({dist, Len(x)})
  IN  Vector(m, SubSeq(x, d + 1, Len(x)) \o [j \in 1..d |-> fill])

\* Half of x less x is negative only if x is greater than zero.
bfvSgtZero(m, x) ==
  After(bfvSubtract(m, bfvRshiftConst(m, x, 1, Top(x)).v, x),
        LAMBDA sub : Result(sub.m, Top(sub.v)))

\* Stage s moves the vector by 2^s positions if bit s of the distance is set.
leftBarrelShift(m, val, dist, stages) ==
  For(LAMBDA acc, s : bfvSelect(acc.m, dist[s],
                        bfvLshiftConst(acc.m, acc.v, 2^(s - 1)).v, acc.v),
      Vector(m, val), stages)

rightBarrelShift(m, val, dist, stages, fill) ==
  For(LAMBDA acc, s : bfvSelect(acc.m, dist[s],
                        bfvRshiftConst(acc.m, acc.v, 2^(s - 1), fill).v, acc.v),
      Vector(m, val), stages)

\* Mutant of OverflowsFrom: one bit too high.
OverflowsFromNext(m, dist, s) ==
  For(LAMBDA acc, j : IF j <= s + 1 THEN acc ELSE NewOr(acc.m, acc.lit, dist[j]),
      Result(m, LITERAL_FALSE), Len(dist))

\* The disjunction of the distance's bits above the lowest s: there may be none.
OverflowsFrom(m, dist, s) ==
  For(LAMBDA acc, j : IF j <= s THEN acc ELSE NewOr(acc.m, acc.lit, dist[j]),
      Result(m, LITERAL_FALSE), Len(dist))

ilog2(n) == CHOOSE s \in 0..n : 2^s = n
IsPowerOfTwo(n) == \E s \in 0..n : 2^s = n

\* Filled: what a distance of the width or more makes of the value.
Shifted(Barrel(_, _), m, val, dist, fill) ==
  LET stages == Min({ilog2(Len(val)), Len(dist)})
      filled == [j \in DOMAIN val |-> fill]
  IN  After(OverflowsFrom(m, dist, ilog2(Len(val))), LAMBDA of :
        IF of.lit = LITERAL_TRUE THEN Vector(of.m, filled)
        ELSE After(Barrel(of.m, stages), LAMBDA s :
          IF of.lit = LITERAL_FALSE THEN s
          ELSE bfvSelect(s.m, of.lit, filled, s.v)))

bfvLshift(m, val, dist) ==
  Shifted(LAMBDA n, s : leftBarrelShift(n, val, dist, s), m, val, dist, LITERAL_FALSE)
bfvRshift(m, val, dist, fill) ==
  Shifted(LAMBDA n, s : rightBarrelShift(n, val, dist, s, fill), m, val, dist, fill)

-----------------------------------------------------------------------------
(* Rotation: both shifts are arguments of one call of bfvOr.  bfvRrotate has  *)
(* no value: it frees the distance before it is done with it (Holds).        *)

\* The two vectors as arguments of bfvOr, made in the build's order.
OrOf(m, F(_), G(_)) ==
  IF ArgsRightToLeft
  THEN After(G(m), LAMBDA g : After(F(g.m), LAMBDA f : bfvOr(f.m, f.v, g.v)))
  ELSE After(F(m), LAMBDA f : After(G(f.m), LAMBDA g : bfvOr(g.m, f.v, g.v)))

\* The test, the value itself and the two shifts, made in the build's order.
UnlessZero(m, d, x, F(_), G(_)) ==
  LET zero(n) == bfvEqual(n, d, Zeros(Len(d)))
  IN  IF ArgsRightToLeft
      THEN After(OrOf(m, F, G), LAMBDA s :
             After(zero(s.m), LAMBDA z : bfvSelect(z.m, z.lit, x, s.v)))
      ELSE After(zero(m), LAMBDA z :
             After(OrOf(z.m, F, G), LAMBDA s : bfvSelect(s.m, z.lit, x, s.v)))

\* The distance left to the width.
Rest(m, x, d) == bfvSubtract(m, Binary(Len(x), Len(d)), d)
Masked(m, x, d) == bfvAnd(m, d, Binary(Len(x) - 1, Len(d)))

\* The masked distance is made and not used.
bfvLrotate(m, x, d) ==
  UnlessZero(Masked(m, x, d).m, d, x,
    LAMBDA n : bfvLshift(n, x, d),
    LAMBDA n : After(Rest(n, x, d), LAMBDA r : bfvRshift(r.m, x, r.v, LITERAL_FALSE)))

-----------------------------------------------------------------------------
(* Division.                                                                *)

NewVars(m, n) == For(LAMBDA acc, j : NewVar(acc), m, n)

\* y shifted left by s positions, as long as the divisor is wide.
Aligned(y, s) == Zeros(s) \o SubSeq(y, 1, Len(y) - s)

\* Is a bit of y lost when it is shifted by s?  From the top, to the first that
\* is true for certain.
Lost(m, y, s) ==
  For(LAMBDA acc, j : IF acc.lit = LITERAL_TRUE THEN acc
                      ELSE NewOr(acc.m, acc.lit, y[Len(y) + 1 - j]),
      Result(m, LITERAL_FALSE), s)

\* Is the remainder less than y shifted by s?  The bits are compared from the
\* top until the comparison is decided for certain.
Less(m, rem, y, s) ==
  LET step(acc, j) ==
        IF acc.known = LITERAL_TRUE THEN acc
        ELSE After(Aligned(y, s)[j], LAMBDA b :
             After(NewAnd(acc.m, b, -rem[j]), LAMBDA a :
             After(NewSelect(a.m, acc.known, acc.q, a.lit), LAMBDA q :
             After(NewXor(q.m, b, rem[j]), LAMBDA d :
             After(NewOr(d.m, acc.known, d.lit), LAMBDA k :
               [m |-> k.m, q |-> q.lit, known |-> k.lit])))))
      start(lost) == [m |-> lost.m, q |-> lost.lit, known |-> lost.lit]
  IN  After(ForDown(step, start(Lost(m, y, s)), Len(rem)), LAMBDA end : Result(end.m, end.q))

\* The remainder less y, both of the same width.
Difference(m, rem, y) ==
  LET step(acc, j) ==
        After(NewSelect(acc.m, acc.borrow, -rem[j], rem[j]), LAMBDA t :
        After(Both(t.m, LAMBDA n : NewAnd(n, acc.borrow, y[j]),
                        LAMBDA n : NewOr(n, acc.borrow, y[j])), LAMBDA p :
        After(NewSelect(p.m, rem[j], p.l, p.r), LAMBDA b :
        After(NewXor(b.m, t.lit, y[j]), LAMBDA d :
          [m |-> d.m, v |-> Append(acc.v, d.lit), borrow |-> b.lit]))))
  IN  After(For(step, [m |-> m, v |-> <<>>, borrow |-> LITERAL_FALSE], Len(rem)),
            LAMBDA end : Vector(end.m, end.v))

\* One bit of the quotient: y shifted is taken off the remainder if it fits.
Divided(acc, s, y) ==
  LET keep(m, q, rem) == [m |-> m, quot |-> [acc.quot EXCEPT ![s + 1] = q], rem |-> rem]
      subtract(m, q) ==
        After(Difference(m, acc.rem, Aligned(y, s)), LAMBDA diff :
          IF q = LITERAL_TRUE THEN keep(diff.m, q, diff.v)
          ELSE After(bfvSelect(diff.m, q, diff.v, acc.rem),
                     LAMBDA kept : keep(kept.m, q, kept.v)))
  IN  After(Less(acc.m, acc.rem, y, s), LAMBDA less :
        IF less.lit = LITERAL_TRUE THEN keep(less.m, LITERAL_FALSE, acc.rem)
        ELSE subtract(less.m, -less.lit))

\* The quotient and the room for a difference are made of new inputs, each of
\* which is overwritten before it is read.
bfvQuotRem(m, x, y) ==
  LET n == Len(x)
  IN  ForDown(LAMBDA acc, j : Divided(acc, j - 1, y),
              [m |-> NewVars(m, 2 * n), rem |-> x, quot |-> [j \in 1..n |-> m.numVars + j]],
              n)

bfvQuot(m, x, y) == After(bfvQuotRem(m, x, y), LAMBDA d : Vector(d.m, d.quot))
bfvRem(m, x, y) == After(bfvQuotRem(m, x, y), LAMBDA d : Vector(d.m, d.rem))

bfvSdiv(m, x, y) ==
  LET zeros == Zeros(Len(x))
      quotient(n) ==
        After(bfvAbsoluteValue(n, x), LAMBDA xabs :
        After(bfvAbsoluteValue(xabs.m, y), LAMBDA yabs : bfvQuot(yabs.m, xabs.v, yabs.v)))
  IN  After(bfvEqual(m, y, zeros), LAMBDA zero :
        IF zero.lit = LITERAL_TRUE THEN Vector(zero.m, zeros)
        ELSE After(NewXor(zero.m, Top(x), Top(y)), LAMBDA sign :
             After(quotient(sign.m), LAMBDA q :
             After(bfvNegate(q.m, q.v), LAMBDA neg :
             After(bfvSelect(neg.m, sign.lit, neg.v, q.v), LAMBDA signed :
               bfvSelect(signed.m, zero.lit, zeros, signed.v))))))

\* There is no test for zero.
bfvSrem(m, x, y) ==
  After(bfvAbsoluteValue(m, x), LAMBDA xabs :
  After(bfvAbsoluteValue(xabs.m, y), LAMBDA yabs :
  After(bfvRem(yabs.m, xabs.v, yabs.v), LAMBDA r :
  After(bfvNegate(r.m, r.v), LAMBDA neg :
    bfvSelect(neg.m, Top(x), neg.v, r.v)))))

-----------------------------------------------------------------------------
(* The client.  A call is a record: the operation, the positions of its      *)
(* vectors, a literal (the lowest bit of vector t) and a number; the unused  *)
(* ones are 1 and 0.                                                         *)

Call(op, x, y, t, k) == [op |-> op, x |-> x, y |-> y, t |-> t, k |-> k]
NoCall == Call("none", 1, 1, 1, 0)

Return(c, r) ==
  /\ Len(regs) < MaxVectors /\ Len(r.v) \in 1..MaxWidth /\ Fits(r.m)
  /\ clauses = {}                    \* bound: no vector is made after a clause
  /\ man' = r.m
  /\ regs' = Append(regs, r.v)
  /\ lastCall' = c
  /\ UNCHANGED clauses

Unary(x) ==
  LET v == regs[x]
      Returns(op, r) == Return(Call(op, x, 1, 1, 0), r)
  IN
  \/ Returns("bfvInvert", bfvInvert(man, v))
  \/ Returns("bfvNegate", bfvNegate(man, v))
  \/ Returns("bfvAbsoluteValue", bfvAbsoluteValue(man, v))
  \/ Returns("bfvIncr", bfvIncr(man, v))
  \/ Returns("bfvReverse", bfvReverse(man, v))
  \/ Returns("bfvSltZero", AsVector(bfvSltZero(man, v)))
  \/ Returns("bfvSgtZero", AsVector(bfvSgtZero(man, v)))
  \/ Returns("bfvSgteZero", AsVector(bfvSgteZero(man, v)))
  \/ Returns("bfBigAnd", AsVector(bfBigAnd(man, v)))
  \/ Returns("bfBigOr", AsVector(bfBigOr(man, v)))
  \/ Returns("bfBigXor", AsVector(bfBigXor(man, v)))

\* Two vectors of one size.
SameSize(x, y) ==
  LET v == regs[x]  w == regs[y]
      Returns(op, r) == Return(Call(op, x, y, 1, 0), r)
  IN
  /\ Len(v) = Len(w)
  /\ \/ Returns("bfvAnd", bfvAnd(man, v, w))
     \/ Returns("bfvOr", bfvOr(man, v, w))
     \/ Returns("bfvXor", bfvXor(man, v, w))
     \/ Returns("bfvSubtract", bfvSubtract(man, v, w))
     \/ Returns("bfvMul", bfvMul(man, v, w))
     \/ Returns("bfvQuot", bfvQuot(man, v, w))
     \/ Returns("bfvRem", bfvRem(man, v, w))
     \/ Returns("bfvSdiv", bfvSdiv(man, v, w))
     \/ Returns("bfvSrem", bfvSrem(man, v, w))
     \/ Returns("bfvEqual", AsVector(bfvEqual(man, v, w)))
     \/ Returns("bfvUlt", AsVector(bfvUlt(man, v, w)))
     \/ Returns("bfvUlte", AsVector(bfvUlte(man, v, w)))
     \/ Returns("bfvSlt", AsVector(bfvSlt(man, v, w)))
     \/ Returns("bfvSlte", AsVector(bfvSlte(man, v, w)))
     \/ \E t \in DOMAIN regs :
          LET l == regs[t][1] IN
          \/ Return(Call("bfvAdd", x, y, t, 0), bfvAdd(man, v, w, l))
          \/ Return(Call("bfvSelect", x, y, t, 0), bfvSelect(man, l, v, w))

\* Vectors of any sizes; a distance is shifted by, or rotated by.
Moves(x, y) ==
  LET v == regs[x]  d == regs[y]
      Returns(op, r) == Return(Call(op, x, y, 1, 0), r)
  IN
  \/ Returns("bfvConcat", bfvConcat(man, v, d))
  \/ /\ IsPowerOfTwo(Len(v))
     /\ \/ Returns("bfvLshift", bfvLshift(man, v, d))
        \/ Returns("bfvARshift", bfvRshift(man, v, d, Top(v)))
        \/ \E t \in DOMAIN regs :
             Return(Call("bfvRshift", x, y, t, 0), bfvRshift(man, v, d, regs[t][1]))
        \/ /\ Len(v) < 2^Len(d)
           /\ Returns("bfvLrotate", bfvLrotate(man, v, d))

\* A vector and a number.
Resized(x, k) ==
  LET v == regs[x]
      Returns(op, r) == Return(Call(op, x, 1, 1, k), r)
  IN
  \/ Returns("bfvLshiftConst", bfvLshiftConst(man, v, k))
  \/ \E t \in DOMAIN regs :
       Return(Call("bfvRshiftConst", x, 1, t, k), bfvRshiftConst(man, v, k, regs[t][1]))
  \/ k >= Len(v) /\ Returns("bfvZextend", bfvZextend(man, k, v))
  \/ k >= Len(v) /\ Returns("bfvSextend", bfvSextend(man, k, v))
  \/ k <= Len(v) /\ Returns("bfvTruncate", bfvTruncate(man, k, v))
  \/ \E begin \in Numbers :
       /\ begin <= Len(v)
       /\ Return(Call("bfvExtract", x, 1, begin, k), bfvExtract(man, v, begin, k))

\* A number of a width: it has to fit without its sign.
Constant(width, n) ==
  /\ n < 2^width
  /\ \/ Return(Call("bfvUconstant", 1, 1, width, n), bfvUconstant(man, width, n))
     \/ Return(Call("bfvSconstant", 1, 1, width, -n), bfvSconstant(man, width, -n))

bfSetClause(x) ==
  /\ Cardinality(clauses) < MaxClauses
  /\ man' = SetClause(man, regs[x])
  /\ clauses' = clauses \cup {x}
  /\ lastCall' = NoCall
  /\ UNCHANGED regs

Init ==
  /\ man = NewVars(EmptyGraph, NumInputs)
  /\ regs \in StartVectors
  /\ lastCall = NoCall
  /\ clauses = {}

Next ==
  \/ bfSetClause(Len(regs))         \* bound: clauses are set on the newest vector
  \/ \E x \in DOMAIN regs :
       \/ Unary(x)
       \/ \E y \in DOMAIN regs : SameSize(x, y) \/ Moves(x, y)
       \/ \E k \in Numbers : Resized(x, k)
  \/ \E width, n \in Numbers : Constant(width, n)

Spec == Init /\ [][Next]_vars

-----------------------------------------------------------------------------
(* What the vectors mean: an assignment is a number whose lowest digits are  *)
(* the values of the client's inputs and whose highest is the value of those *)
(* that bfvQuotRem makes, which nothing may depend on.                       *)

Worlds == 0..(2^(NumInputs + 1) - 1)
ValueIn(w, k) == (w \div 2^(k - 1)) % 2 = 1

GateOf(m, o) == CHOOSE g \in m.ands : g.lhs = o

\* Is literal l true in assignment w, given the truth of the variables?
TrueIn(truth, l, w) ==
  IF l \in Constants THEN l = LITERAL_TRUE
  ELSE IF l > 0 THEN w \in truth[l] ELSE w \notin truth[-l]

\* The assignments that make variable o true, given those of the variables
\* below it.
TruthOf(truth, o) ==
  IF o \in man.inputs THEN {w \in Worlds : ValueIn(w, Min({o, NumInputs + 1}))}
  ELSE LET g == GateOf(man, o)
       IN  {w \in Worlds : TrueIn(truth, g.rhs0, w) /\ TrueIn(truth, g.rhs1, w)}

\* The variables up to n, by halves.
RECURSIVE Settled(_, _)
Settled(truth, n) ==
  IF Len(truth) = n THEN truth
  ELSE IF Len(truth) = n - 1 THEN Append(truth, TruthOf(truth, n))
  ELSE Settled(Settled(truth, (Len(truth) + n) \div 2), n)

Truth == Settled(<<>>, man.numVars)

\* The vectors as numbers in each assignment.
Reading ==
  LET truth == Truth
      Number(v, w) ==
        For(LAMBDA n, j : IF TrueIn(truth, v[j], w) THEN n + 2^(j - 1) ELSE n, 0, Len(v))
  IN  [r \in DOMAIN regs |->
         [size |-> Len(regs[r]), val |-> [w \in Worlds |-> Number(regs[r], w)]]]

Numerals == INSTANCE Words

\* The assignments in which the last call turned a vector by more than its width:
\* the code does not rotate it then, as bitvec.h says it does.
TurnedTooFar(ws) ==
  IF lastCall.op # "bfvLrotate" THEN {}
  ELSE {w \in Worlds : ws[lastCall.y].val[w] > ws[lastCall.x].size}

\* Every function returns, in every assignment of the inputs, the number that
\* its name says: the gates of each algorithm, simplified and shared as the
\* hash table has it, for constant, shared and symbolic bits, compute what Words
\* says of the call.  Nothing depends on an input the client did not make:
\* bfvQuotRem allocates its quotient and a scratch vector as fresh inputs and
\* has to overwrite each before it is read.  bfvLrotate is
\* to rotate by at most the width.
ReturnsWord ==
  lastCall # NoCall =>
    LET ws == Reading
        word == Numerals!Returned(Front(ws), lastCall)
    IN  /\ Last(ws).size = word.size
        /\ \A w \in Worlds \ TurnedTooFar(ws) : Last(ws).val[w] = word.val[w]

\* The assignments that make every output false.
Allowed ==
  LET truth == Truth
  IN  {w \in Worlds : \A o \in man.outputs : o \notin Constants /\ ~TrueIn(truth, o, w)}
Satisfied ==
  LET truth == Truth
  IN  {w \in Worlds : \A x \in clauses : \E l \in ToSet(regs[x]) : TrueIn(truth, l, w)}

\* Every assignment the outputs allow satisfies the clauses given to
\* bfSetClause, with constant, repeated or complementary literals and literals
\* computed by any other function.
ClauseRequired == Allowed \subseteq Satisfied

\* bitfunc.h says of bfSetClause that it requires the disjunction of the
\* literals to hold, so every assignment that satisfies them is allowed.
ClauseExact == Satisfied \subseteq Allowed

=============================================================================
