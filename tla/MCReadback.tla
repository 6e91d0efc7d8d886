------------------------------ MODULE MCReadback ------------------------------
(* A small instance of Readback for TLC, on the vectors of MCBitvec. *)
EXTENDS Readback, MCBitvec

\* Two assignments that differ in every input.
Opposite == <<5, 26>>
\* The clients that read: those with a first vector of two inputs, or of one.
Readers == {<<1, 2>>, <<1>>}

=============================================================================
