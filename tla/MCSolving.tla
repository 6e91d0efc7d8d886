------------------------------ MODULE MCSolving ------------------------------
(***************************************************************************)
(* Solving with few literals to build on, to set and to ask about.         *)
(***************************************************************************)
EXTENDS Solving

\* Two inputs, a gate on them, and a gate above it.
BuildOn == {1, -2, -3}
SetThese == {-1, 4}
AskThese == {1, -4}

\* A gate, and two assumptions or two constraints that contradict each
\* other only through it.
OneGate == {1, -2}
SetBoth == {-1, 3}
AssumeThese == {-1, 3}

\* One input.
SetOne == {1}
AskNot == {-1}

=============================================================================
