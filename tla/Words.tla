-------------------------------- MODULE Words --------------------------------
(***************************************************************************)
(* What bitvec.h promises: a bit vector is a number of fixed width in each *)
(* assignment, and every function makes a new one from those it is given.  *)
(***************************************************************************)
EXTENDS Integers, FiniteSetsExt

CONSTANT Worlds   \* the assignments of the inputs

\* A vector is a record: its size, and val, a number for each world.
Word(size, F(_)) ==
  [size |-> size, val |-> [w \in Worlds |-> F(w) % 2^size]]
Bit(P(_)) == Word(1, LAMBDA w : IF P(w) THEN 1 ELSE 0)

Digit(n, j) == (n \div 2^j) % 2
FromDigits(size, D(_)) ==
  LET low[j \in 0..size] == IF j = 0 THEN 0 ELSE low[j - 1] + D(j - 1) * 2^(j - 1)
  IN  low[size]
Signed(n, size) == IF 2 * n >= 2^size THEN n - 2^size ELSE n
Absolute(n) == IF n < 0 THEN -n ELSE n

\* Rounded towards zero, as in C; the remainder has the sign of the dividend.
Quotient(n, d) ==
  IF (n < 0) = (d < 0) THEN Absolute(n) \div Absolute(d)
  ELSE -(Absolute(n) \div Absolute(d))
Remainder(n, d) == n - d * Quotient(n, d)

Bitwise(ws, c, F(_, _)) ==
  LET x == ws[c.x]  y == ws[c.y]
  IN  Word(x.size, LAMBDA w : FromDigits(x.size,
        LAMBDA j : F(Digit(x.val[w], j), Digit(y.val[w], j))))

ShiftedRight(n, size, dist, fill) ==
  LET d == Min({dist, size})
  IN  (n \div 2^d) + fill * (2^size - 2^(size - d))

\* The vector a call returns, given the vectors there are.  A call is a record
\* of the operation, the positions x and y of its vectors, that of a vector
\* whose lowest bit is a literal argument, t, and a number k.
Returned(ws, c) ==
  LET x == ws[c.x]  y == ws[c.y]  n == x.size  k == c.k
      X(w) == x.val[w]
      Y(w) == y.val[w]
      T(w) == ws[c.t].val[w] % 2       \* a literal: the lowest bit of a vector
      SX(w) == Signed(X(w), n)
      SY(w) == Signed(Y(w), n)
      top(w) == X(w) \div 2^(n - 1)
  IN
  CASE c.op = "bfvAnd" -> Bitwise(ws, c, LAMBDA p, q : p * q)
    [] c.op = "bfvOr" -> Bitwise(ws, c, LAMBDA p, q : p + q - p * q)
    [] c.op = "bfvXor" -> Bitwise(ws, c, LAMBDA p, q : (p + q) % 2)
    [] c.op = "bfvInvert" -> Word(n, LAMBDA w : 2^n - 1 - X(w))
    [] c.op = "bfvSelect" -> Word(n, LAMBDA w : IF T(w) = 1 THEN X(w) ELSE Y(w))
    [] c.op = "bfvNegate" -> Word(n, LAMBDA w : -X(w))
    [] c.op = "bfvAbsoluteValue" -> Word(n, LAMBDA w : Absolute(SX(w)))
    [] c.op = "bfvAdd" -> Word(n + 1, LAMBDA w : X(w) + Y(w) + T(w))
    [] c.op = "bfvIncr" -> Word(n, LAMBDA w : X(w) + 1)
    [] c.op = "bfvSubtract" -> Word(n, LAMBDA w : X(w) - Y(w))
    [] c.op = "bfvMul" -> Word(n, LAMBDA w : X(w) * Y(w))
    [] c.op = "bfvQuot" ->
         Word(n, LAMBDA w : IF Y(w) = 0 THEN 2^n - 1 ELSE X(w) \div Y(w))
    [] c.op = "bfvRem" ->
         Word(n, LAMBDA w : IF Y(w) = 0 THEN X(w) ELSE X(w) % Y(w))
    [] c.op = "bfvSdiv" ->
         Word(n, LAMBDA w : IF Y(w) = 0 THEN 0 ELSE Quotient(SX(w), SY(w)))
    [] c.op = "bfvSrem" ->
         Word(n, LAMBDA w : IF Y(w) = 0 THEN X(w) ELSE Remainder(SX(w), SY(w)))
    [] c.op = "bfvEqual" -> Bit(LAMBDA w : X(w) = Y(w))
    [] c.op = "bfvUlt" -> Bit(LAMBDA w : X(w) < Y(w))
    [] c.op = "bfvUlte" -> Bit(LAMBDA w : X(w) <= Y(w))
    [] c.op = "bfvSlt" -> Bit(LAMBDA w : SX(w) < SY(w))
    [] c.op = "bfvSlte" -> Bit(LAMBDA w : SX(w) <= SY(w))
    [] c.op = "bfvSltZero" -> Bit(LAMBDA w : SX(w) < 0)
    [] c.op = "bfvSgtZero" -> Bit(LAMBDA w : SX(w) > 0)
    [] c.op = "bfvSgteZero" -> Bit(LAMBDA w : SX(w) >= 0)
    [] c.op = "bfBigAnd" -> Bit(LAMBDA w : X(w) = 2^n - 1)
    [] c.op = "bfBigOr" -> Bit(LAMBDA w : X(w) # 0)
    [] c.op = "bfBigXor" ->
         Word(1, LAMBDA w : MapThenSumSet(LAMBDA j : Digit(X(w), j), 0..(n - 1)))
    [] c.op = "bfvZextend" -> Word(k, X)
    [] c.op = "bfvSextend" -> Word(k, SX)
    [] c.op = "bfvTruncate" -> Word(k, X)
    [] c.op = "bfvExtract" ->
         \* k bits from position t on, as many as there are
         Word(Min({c.t + k, n}) - c.t, LAMBDA w : X(w) \div 2^(c.t))
    [] c.op = "bfvConcat" -> Word(n + y.size, LAMBDA w : X(w) + 2^n * Y(w))
    [] c.op = "bfvReverse" ->
         Word(n, LAMBDA w : FromDigits(n, LAMBDA j : Digit(X(w), n - 1 - j)))
    [] c.op \in {"bfvUconstant", "bfvSconstant"} -> Word(c.t, LAMBDA w : k)
    [] c.op = "bfvLshiftConst" -> Word(n, LAMBDA w : X(w) * 2^k)
    [] c.op = "bfvRshiftConst" -> Word(n, LAMBDA w : ShiftedRight(X(w), n, k, T(w)))
    [] c.op = "bfvLshift" -> Word(n, LAMBDA w : X(w) * 2^Min({Y(w), n}))
    [] c.op = "bfvRshift" -> Word(n, LAMBDA w : ShiftedRight(X(w), n, Y(w), T(w)))
    [] c.op = "bfvARshift" -> Word(n, LAMBDA w : ShiftedRight(X(w), n, Y(w), top(w)))
    [] c.op = "bfvLrotate" ->
         \* A distance of the width is no distance, and so on: so the comment
         \* above the code, and the distance it masks and does not use.
         Word(n, LAMBDA w : LET d == Y(w) % n
                            IN  X(w) * 2^d + (X(w) \div 2^(n - d)))

=============================================================================
