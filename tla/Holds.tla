--------------------------------- MODULE Holds ---------------------------------
(***************************************************************************)
(* The hold counts of bit vectors.  A function of bitvec.c frees (consumes) *)
(* the vectors it is passed unless somebody holds them, so each holds what *)
(* it passes on and needs again, in the order its calls come.  Every read, *)
(* hold, release and free is a step on the vectors there are; what the     *)
(* vectors mean is in Bitvec.                                              *)
(***************************************************************************)
EXTENDS Integers, FiniteSets, SequencesExt, FiniteSetsExt

CONSTANTS
  HoldModulus,  \* numHolds is a uint8_t: 256 in the code
  MaxVectors,   \* bound: vectors there are between two calls
  MaxHolds,     \* bound: the client's holds of a vector
  MaxCount,     \* bound: all holds of a vector between two calls
  Stages        \* stages of a barrel shift

ASSUME HoldsAssumption ==
  /\ {MaxVectors, MaxHolds, MaxCount, Stages} \subseteq Nat
  \* bfvLrotate, bfvLshift and one call for each stage hold a vector at once,
  \* which may be both the value and the distance.
  /\ HoldModulus \in Nat /\ MaxCount + 2 * (Stages + 2) < HoldModulus

VARIABLES
  count,   \* the vectors there are, each with its numHolds
  bad,     \* a freed vector was used, or a vector released that nobody holds
  mine,    \* the vectors the client may use, each with the client's holds
  call     \* history: the last call, as Ownership has it

vars == <<count, bad, mine, call>>

-----------------------------------------------------------------------------
(* The vectors during a call.  The new ones have addresses above those that  *)
(* were there before, and a freed one is not given out again.               *)

After(x, Op(_)) == Op(x)

Addresses == 1..(MaxVectors + 2)
Begin == [count |-> count, next |-> MaxVectors + 3, bad |-> bad]
Live(h) == DOMAIN h.count

\* A function reads the vector.
Reads(h, v) == [h EXCEPT !.bad = @ \/ v \notin Live(h)]

Hold(h, v) ==
  IF v \in Live(h) THEN [h EXCEPT !.count[v] = (@ + 1) % HoldModulus] ELSE Reads(h, v)

Release(h, v) ==
  IF v \in Live(h) /\ h.count[v] # 0 THEN [h EXCEPT !.count[v] = @ - 1]
  ELSE [h EXCEPT !.bad = TRUE]

\* CONSUME_BITVEC
Consume(h, v) ==
  IF v \in Live(h) /\ h.count[v] = 0
  THEN [h EXCEPT !.count = Restrict(@, DOMAIN @ \ {v})]
  ELSE Reads(h, v)

ReleaseConsume(h, v) == Consume(Release(h, v), v)

\* The counts with those of one more vector.
With(f, v, n) == [w \in DOMAIN f \cup {v} |-> IF w = v THEN n ELSE f[w]]

\* A new vector: the heap, and the vector.
New(h) == [h |-> [h EXCEPT !.count = With(@, h.next, 0), !.next = @ + 1], v |-> h.next]

HoldBoth(h, x, y) == Hold(Hold(h, x), y)
ReleaseBoth(h, x, y) == ReleaseConsume(ReleaseConsume(h, x), y)

-----------------------------------------------------------------------------
(* The functions.  Each returns the heap and a vector, or, if it computes a  *)
(* literal, the heap.                                                        *)

\* Reads its argument, frees it, and returns a new vector: so do bfvNegate,
\* bfvZextend, bfvSextend, bfvTruncate, bfvExtract, bfvReverse, bfvDup and the
\* shifts by a constant.
bfvInvert(h, x) == New(Consume(Reads(h, x), x))

\* Mutant of ConsumeBoth: the same vector is freed twice.
ConsumeTwice(h, x, y) == Consume(Consume(Reads(Reads(h, x), y), x), y)

\* Two arguments are freed once if they are the same vector: bfvAnd, bfvOr,
\* bfvXor, bfvAdd.
ConsumeBoth(h, x, y) ==
  LET read == Reads(Reads(h, x), y)
  IN  IF x = y THEN Consume(read, x) ELSE Consume(Consume(read, x), y)
bfvAnd(h, x, y) == New(ConsumeBoth(h, x, y))

bfvSelect(h, thn, els) == New(Consume(Consume(Reads(Reads(h, thn), els), thn), els))

\* And bfvMul.
bfvConcat(h, x, y) == New(ReleaseBoth(HoldBoth(h, x, y), x, y))

bfvSubtract(h, x, y) ==
  After(bfvInvert(h, y), LAMBDA negy : bfvAnd(negy.h, x, negy.v))

bfvAbsoluteValue(h, x) ==
  After(bfvInvert(Hold(h, x), x), LAMBDA inv :
  After(bfvSelect(inv.h, inv.v, x), LAMBDA ret :
    [h |-> ReleaseConsume(ret.h, x), v |-> ret.v]))

bfvEqual(h, x, y) == ReleaseBoth(HoldBoth(h, x, y), x, y)
bfvUlt(h, x, y) == ConsumeBoth(h, x, y)

\* Mutant of bfvUlte: the second operand stays held.
bfvUlteForgets(h, x, y) ==
  ReleaseConsume(bfvEqual(bfvUlt(HoldBoth(h, x, y), x, y), x, y), x)

\* And bfvSlte.
bfvUlte(h, x, y) ==
  ReleaseBoth(bfvEqual(bfvUlt(HoldBoth(h, x, y), x, y), x, y), x, y)

bfvSgtZero(h, x) ==
  After(bfvInvert(Hold(h, x), x), LAMBDA half :
  After(bfvSubtract(half.h, half.v, x), LAMBDA sub :
    Consume(ReleaseConsume(sub.h, x), sub.v)))

\* Every stage holds the value and the distance until it returns.  What it
\* returns is freed by the stage above it, and left out.
BarrelShift(h, val, dist) ==
  LET down[s \in 0..Stages] ==
        HoldBoth(IF s = 0 THEN h ELSE down[s - 1], val, dist)
      up[s \in 0..Stages] ==
        ReleaseBoth(Reads(Reads(IF s = 0 THEN down[Stages] ELSE up[s - 1], val), dist),
                    val, dist)
  IN  New(up[Stages])

\* A distance that is certain to be too large returns at once.
bfvShift(h, val, dist, overflow) ==
  IF overflow THEN New(Reads(Reads(h, val), dist))
  ELSE BarrelShift(h, val, dist)

bfvQuotRem(h, x, y) ==
  After(New(h), LAMBDA rem :
  After(New(rem.h), LAMBDA quot :
  After(New(quot.h), LAMBDA tmp :
    [h |-> ConsumeBoth(Consume(tmp.h, tmp.v), x, y), quot |-> quot.v, rem |-> rem.v])))

bfvQuot(h, x, y) ==
  After(bfvQuotRem(h, x, y), LAMBDA d : [h |-> Consume(d.h, d.rem), v |-> d.quot])
bfvRem(h, x, y) ==
  After(bfvQuotRem(h, x, y), LAMBDA d : [h |-> Consume(d.h, d.quot), v |-> d.rem])

\* The vector or its negation, and the vector held meanwhile.
Signed(h, v) ==
  After(bfvInvert(Hold(h, v), v), LAMBDA negated :
    bfvSelect(Release(negated.h, v), negated.v, v))

\* The exit for a divisor that is certain to be zero forgets the dividend.
bfvSdiv(h, x, y, zero) ==
  LET divided(g) ==
        After(bfvAbsoluteValue(g, x), LAMBDA x_abs :
        After(bfvAbsoluteValue(x_abs.h, y), LAMBDA y_abs :
          bfvQuot(y_abs.h, x_abs.v, y_abs.v)))
      result(g, vec_zero) ==
        After(divided(g), LAMBDA quotient :
        After(Signed(quotient.h, quotient.v), LAMBDA intermediate :
        After(bfvSelect(Release(intermediate.h, vec_zero), vec_zero, intermediate.v),
              LAMBDA output : [h |-> ReleaseBoth(output.h, x, y), v |-> output.v])))
      held(n) == [h |-> HoldBoth(Hold(n.h, n.v), y, x), v |-> n.v]
      tested(n) == [h |-> bfvEqual(n.h, y, n.v), v |-> n.v]
  IN  After(tested(held(New(h))), LAMBDA vec_zero :
        IF zero THEN [h |-> ReleaseConsume(Release(vec_zero.h, vec_zero.v), y), v |-> vec_zero.v]
        ELSE result(vec_zero.h, vec_zero.v))

\* Nothing frees the quotient.
bfvSrem(h, x, y) ==
  After(bfvAbsoluteValue(h, x), LAMBDA x_abs :
  After(bfvAbsoluteValue(x_abs.h, y), LAMBDA y_abs :
  After(bfvQuotRem(y_abs.h, x_abs.v, y_abs.v), LAMBDA d :
  After(Signed(d.h, d.rem), LAMBDA output :
    [h |-> output.h, v |-> output.v, quot |-> d.quot]))))

\* The distance masked by the width less one.
Masked(h, d) == After(New(h), LAMBDA c : bfvAnd(c.h, d, c.v))

\* x, or the two shifts of it: the one by d and the one by the rest of the width,
\* which nothing frees if it is certain to be too large.  The arguments are made
\* from the right, as the build does.
Turned(h, x, d, over, restOver) ==
  After(New(h), LAMBDA width :
  After(bfvSubtract(width.h, width.v, d), LAMBDA rest :
  After(bfvShift(rest.h, x, rest.v, restOver), LAMBDA back :
  After(bfvShift(back.h, x, d, over), LAMBDA forth :
  After(bfvAnd(forth.h, forth.v, back.v), LAMBDA either :
  After(New(either.h), LAMBDA zero :
  After(bfvSelect(bfvEqual(zero.h, d, zero.v), x, either.v), LAMBDA result :
    [h |-> result.h, v |-> result.v, rest |-> rest.v])))))))

\* d is the masked distance from here on, which nobody holds; the caller's stays
\* held, and so does x.
bfvRrotate(h, x, d) ==
  After(Masked(HoldBoth(h, x, d), d), LAMBDA masked :
    Turned(masked.h, x, masked.v, FALSE, FALSE))

bfvLrotate(h, x, d, over, restOver) ==
  After(Masked(HoldBoth(h, x, d), d), LAMBDA myd :
  After(Turned(Hold(myd.h, myd.v), x, d, over, restOver), LAMBDA result :
    [result EXCEPT !.h =
       ReleaseConsume(ReleaseConsume(ReleaseConsume(@, myd.v), d), x)]))

-----------------------------------------------------------------------------
(* The client holds what it uses again: a vector it does not hold is passed  *)
(* once, and in one place only where the code frees both of its operands.    *)

Fits(h) ==
  /\ Cardinality(Live(h)) <= MaxVectors /\ \A v \in Live(h) : h.count[v] <= MaxCount

\* Between calls the new vectors are at the lowest free addresses.
Placed(h, v) ==
  LET low == Min(Addresses \ (DOMAIN count \cup Live(h)))
  IN  [h |-> [h EXCEPT !.count = With(Restrict(@, DOMAIN @ \ {v}), low, @[v])], v |-> low]

End(how, args, h, made) ==
  /\ Fits(h)
  /\ count' = h.count /\ bad' = h.bad
  /\ call' = [how |-> how, args |-> args, made |-> made]

\* The client has what the call made, and not what it passed and does not hold.
Return(how, args, h, made) ==
  /\ End(how, args, h, Cardinality(made))
  /\ mine' = [v \in {w \in DOMAIN mine : w \notin args \/ mine[w] > 0} \cup made |->
                IF v \in made THEN 0 ELSE mine[v]]

MakesBy(how, args, r) ==
  After(Placed(r.h, r.v), LAMBDA p : Return(how, args, p.h, {p.v}))
Makes(args, r) == MakesBy("returns", args, r)
MakesTwo(args, h, v, w) ==
  After(Placed(h, v), LAMBDA p :
  After(Placed(p.h, w), LAMBDA q : Return("returns", args, q.h, {p.v, q.v})))

\* The call returns v; w is a vector of its own, which it does not free.
MakesLeaving(args, h, v, w) ==
  After(Placed(h, v), LAMBDA p :
  After(Placed(p.h, w), LAMBDA q : Return("leaks", args, q.h, {p.v})))

bfvInit == Makes({}, New(Begin))

bfvHold(x) ==
  /\ mine[x] < MaxHolds
  /\ End("hold", {x}, Hold(Begin, x), 0)
  /\ mine' = [mine EXCEPT ![x] = @ + 1]

bfvRelease(x) ==
  /\ mine[x] > 0
  /\ End("release", {x}, Release(Begin, x), 0)
  /\ mine' = [mine EXCEPT ![x] = @ - 1]

bfvReleaseConsume(x) ==
  /\ mine[x] > 0
  /\ End("drop", {x}, ReleaseConsume(Begin, x), 0)
  /\ mine' = [v \in {w \in DOMAIN mine : w # x \/ mine[w] > 1} |->
                IF v = x THEN mine[v] - 1 ELSE mine[v]]

Unary(x) ==
  \/ Makes({x}, bfvInvert(Begin, x))
  \/ Makes({x}, bfvAbsoluteValue(Begin, x))
  \/ Return("returns", {x}, bfvSgtZero(Begin, x), {})
  \* The tests of a sign, bfBigAnd and its siblings, and a clause.
  \/ Return("returns", {x}, Consume(Reads(Begin, x), x), {})

Binary(x, y) ==
  \/ Makes({x, y}, bfvAnd(Begin, x, y))
  \/ Makes({x, y}, bfvConcat(Begin, x, y))
  \/ Makes({x, y}, bfvQuot(Begin, x, y))
  \/ Makes({x, y}, bfvRem(Begin, x, y))
  \/ Makes({x, y}, bfvSdiv(Begin, x, y, FALSE))
  \/ Return("returns", {x, y}, bfvEqual(Begin, x, y), {})
  \/ Return("returns", {x, y}, bfvUlt(Begin, x, y), {})
  \/ Return("returns", {x, y}, bfvUlte(Begin, x, y), {})
  \/ After(bfvQuotRem(Begin, x, y), LAMBDA d : MakesTwo({x, y}, d.h, d.quot, d.rem))

\* These free their second operand before they read the first, or free both.
Careful(x, y) ==
  /\ x # y \/ mine[x] > 0
  /\ \/ Makes({x, y}, bfvSelect(Begin, x, y))
     \/ Makes({x, y}, bfvSubtract(Begin, x, y))
     \/ After(bfvSrem(Begin, x, y), LAMBDA r : MakesLeaving({x, y}, r.h, r.v, r.quot))

Moves(x, d) ==
  \/ Makes({x, d}, bfvShift(Begin, x, d, FALSE))
  \/ \E over \in BOOLEAN : Makes({x, d}, bfvLrotate(Begin, x, d, over, FALSE))
  \/ \E over \in BOOLEAN :
       After(bfvLrotate(Begin, x, d, over, TRUE), LAMBDA r :
         MakesLeaving({x, d}, r.h, r.v, r.rest))

\* The exits that do something else.
Exits(x, y) ==
  \/ MakesBy("keeps", {x, y}, bfvShift(Begin, x, y, TRUE))
  \/ Return("keeps", {x}, Reads(Begin, x), {})      \* bfSetClause
  \/ MakesBy("holds", {x, y}, bfvSdiv(Begin, x, y, TRUE))

Init ==
  /\ count = <<>> /\ bad = FALSE /\ mine = <<>>
  /\ call = [how |-> "none", args |-> {}, made |-> 0]

Next ==
  \/ bfvInit
  \/ \E x \in DOMAIN mine :
       \/ bfvHold(x) \/ bfvRelease(x) \/ bfvReleaseConsume(x)
       \/ Unary(x)
       \/ \E y \in DOMAIN mine :
            \/ Binary(x, y) \/ Careful(x, y) \/ Moves(x, y) \/ Exits(x, y)

Spec == Init /\ [][Next]_vars

\* The same client, and bfvRrotate.
Rotates ==
  \E x, d \in DOMAIN mine :
    /\ x # d /\ mine[x] > 0 /\ mine[d] > 0
    /\ Makes({x, d}, bfvRrotate(Begin, x, d))
RotatingSpec == Init /\ [][Next \/ Rotates]_vars

-----------------------------------------------------------------------------

\* No function reads, holds, releases or frees a vector that is freed already,
\* or releases one that nobody holds, whatever the client holds and whichever
\* operands are the same vector: every function holds what it passes on for as
\* long as it still needs it, and numHolds does not wrap in between.
Safe == ~bad

\* bitvec.h: a client that holds a vector may pass it to any bfv* function and
\* use it again.  Here the client holds both operands of bfvRrotate.
RotatesSafely == Safe

Promised == INSTANCE Ownership

\* Every call frees exactly the vectors it was passed that nobody holds, makes
\* what it returns and leaves every other count alone: the holds a function
\* takes are balanced on each of its paths, and no vector of its own is left.
\* It is so but for what Ownership lists: two exits that free nothing, one that
\* leaves a hold, and two functions that leave one vector of their own.
Contract == Promised!Spec

=============================================================================
