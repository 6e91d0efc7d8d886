------------------------------ MODULE MCFuncsat ------------------------------
(* Small instances of Funcsat for TLC. *)
EXTENDS Funcsat

SomeQueries == {1, -2}
Small == {<<>>, <<1>>, <<-2>>, <<1, -1>>, <<1, 2>>, <<-1, 2, -1>>, <<-2, -1>>}

\* Formulas that need learning: a client adds the clauses of one in order.
AllSigns(v1, v2, v3) == <<
  <<v1, v2, v3>>, <<v1, v2, -v3>>, <<v1, -v2, v3>>, <<v1, -v2, -v3>>,
  <<-v1, v2, v3>>, <<-v1, v2, -v3>>, <<-v1, -v2, v3>>, <<-v1, -v2, -v3>> >>
Opposed == << <<-2, 4, 5>>, <<-2, 4, -5>>, <<-3, -4, 5>>, <<-3, -4, -5>> >>
Guarded == Append(Opposed, <<-3, 6>>)
Chain == << <<1, 2, 3, 4>>, <<-1, 2>>, <<-2, 3>>, <<-3, 4>>, <<-4, -1>>, <<-4, -2, -3>>, <<1, -4>> >>
\* Refuted above level 0, while a learned clause is still a reason there.
Leftover == << <<1, 2, 3>>, <<-3, 4>>, <<-4, 5>>, <<-4, -5>>, <<3, 6>>, <<3, -6>> >>
Selected == [k \in 1..8 |-> Append(AllSigns(3, 4, 5)[k], IF k <= 4 THEN -1 ELSE -2)]
CONSTANT Scripts
SearchScripts == {AllSigns(1, 2, 3), Guarded, Leftover, Chain, Selected, Opposed}
ScriptInputs == UNION {Range(s) : s \in Scripts}
Begun(f) == {s \in Scripts : Len(f) <= Len(s) /\ \A k \in DOMAIN f : f[k] = Range(s[k])}
NextOf(f) == {s[Len(f) + 1] : s \in {t \in Begun(f) : Len(f) < Len(t)}}
AnyInput(f) == Inputs

\* Questions come after the whole formula, and a second one after Opposed.
InOrder ==
  /\ held # <<>> \/ solves > 0 => \E s \in Begun(formula) : Len(formula) = Len(s)
  /\ solves > 1 => restarts = 0 /\ formula = [k \in DOMAIN Opposed |-> Range(Opposed[k])]

=============================================================================
