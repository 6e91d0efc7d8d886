# A verification development of bitfunc

bitfunc is a C library for reasoning about programs at the bit level. A client
builds bit vectors, memories and arrays over a handle (`bfman`); the library
lowers them to an And-Inverter Graph (AIG); a back end (the bundled CDCL solver
funcsat, or PicoSAT, PrecoSAT, PicoMUS or ABC run on a file) decides whether the
constraints have a solution; the client reads values back from the solution.

The TLA+ modules beside this file model the parts whose correctness is hard to
see in a test, TLC checks them on small instances, and TLAPS proves the main
facts about them for every value of the constants. Paths below are relative to
the repository.

## 1. Inventory

| Part | State | Operations | Talks to |
|---|---|---|---|
| AIG (`src/circuits.c`, `src/bitfunc.c`, `src/bitfunc/circuits_internal.h`) | `numVars`, inputs, and gates, `andhash`, outputs | `bfNewVar`, `bfNewAnd` ... `bfNewSelect`, `bfSet`, `bfSetEqual`, `bfAnd` ..., `bfBigAnd/Or/Xor`, `bfSetClause` | called by every other part |
| Solving (`src/solve.c`, assumptions and cores in `src/bitfunc.c`, reading in `src/circuits.c`) | assumption stack `assumps`, the flag `clausesForThisNodeExists` of every gate and output, `aigAssignment`, `solveStatus` | `bfPushAssumption`, `bfPopAssumptions`, `bfSolve`, `bfMayBeTrue`, `bfMustBeTrue`, `bfCheckStatus`, `bfSimulate`, `bfGet`, `bfvGet` | AIG; funcsat by calls; other solvers by files and sub-processes |
| funcsat (`funcsat/src/funcsat.c`) | clause database with two watched literals, trail, decision levels, reasons, propagation queue, unit facts, assumptions, activity heap, restart counters | `funcsatAddClause`, `funcsatPushAssumption`, `funcsatPopAssumptions`, `funcsatSolve`, `funcsatReset`, `funcsatResize` | used by Solving |
| Bit vectors (`src/bitvec.c`) | reference counts `numHolds` | ripple adders, multiplier, divider, shifts, comparisons, `bfvSelect`, ... | AIG |
| Memory (`src/mem.c`) | a list of stores and conditional writes, memo tables of loads, `memflag` | `bfmStore`, `bfmLoad`, `bfmCopy`, `bfmSelect`, `bfmFromCounterExample` | bit vectors, Solving |
| Arrays (`src/array.c`, end of `src/circuits.c`) | table of indexed reads | `bfaWrite`, `bfaRead`, congruence constraints | bit vectors |
| Machine states and conditional branches (`src/machine_state.c`, `src/cbranch.c`) | registers and memory of one path | copy, select, join, branch | bit vectors, memory |
| Program representation (`src/program.c`, `src/bap.c`, `src/pcode_definitions.c`, `src/llvm_definitions.c`) | tables of instructions, blocks, functions | add, look up, link | machine states |
| Heap model (`src/klee_mem.c`) | list of objects | allocate, find | memory |
| Data structures of funcsat (`hashtable.c`, `fibheap.c`, `fifoq.c`, `vec.c`) | tables, heaps, queues | insert, remove, iterate | funcsat, bitfunc |
| Python, Cython, Haskell, LLVM front ends | expression graphs, symbolic execution | - | the C library |
| Vendored (`src/aiger.c`, `src/lemon.c`, `src/lempar.c`) | - | - | - |

`funcsat/src/Makefile.am` builds `funcsat.c` and the data structures only;
`clause.c`, `restart.c`, `solcount.c`, `backbone.c`, `binwatch.c`, `debug.c`,
`proof.c` and `frontend.c` beside it are left from before `funcsat.c` was written
as one literate program (`funcsat.w`), and are not part of any build.

Nothing in the library is concurrent. What is hard is the state one object keeps
over a long sequence of calls: graph and clause sets that only grow while a
solver, a trail, an assignment and several flags follow them; solver state that
must survive answers, assumptions and conflicts; three kinds of caches (the gate
table, the loads of a memory, the flags of the nodes already translated).

### What makes each part correct

| Part | Correct when |
|---|---|
| AIG | the graph is acyclic and hashed; every constructor returns a literal that means its operator, whatever was built before; the outputs say what the client demanded; nothing but the client's constraints restricts an input |
| funcsat | answers are right for the clauses added and the assumptions held; everything learned follows from the clauses alone; trail, levels, reasons, watches, heap and queue stay in step through conflicts, restarts and calls; every call returns |
| Solving | answers are those of the graph although every gate is translated once; the two assumption stacks stay in step through refused pushes; a question leaves the assumptions alone; the assignment read back is a solution |
| Memory | a load is what was stored last, in every assignment; copies and joins stay apart; destroying frees what nothing refers to, and only that; a read-before-write report is exact |
| Vectors on the graph, bit vectors | each algorithm computes the arithmetic function, for constant, shared and symbolic bits; a call frees exactly the vectors it is passed that nobody holds; what is read back is the vector's number under the answer |
| Arrays | reads are congruent, memoised reads are not stale |
| Machine states, branches | a joined state is the state of the branch taken |

### Behaviours that are hard to test

The 40 hazards of `PROJECT.json` name them line by line. The ones that shaped
the models: a unit clause lives on the trail among assumptions and is popped
with them; a refused call must not be undone as if it had happened; a flag says
"translated" while the solver's state was reset or its answer ignored; conflict
analysis must stop at level 0 where the assumptions are; a fact learned for one
variable moves to another; a memory is freed while others are over it; a vector
is passed on by a function that still needs it, or that returns early; a divider
is shared by five operations with their own paths for zero and for the sign.

## 2. The modules

```
Circuits --- Aig --- AigProofs                    the graph
   |    \--- CircuitsProofs
   |
BigGates --- Bitvec --- Readback --- MCReadback   vectors on the graph, and reading
               |   \--- MCBitvec                  them back
             Words                                what a vector should be

Ownership --- Holds --- HoldsProofs               who holds a vector, who frees it

Cnf --- SatService                                what a solver promises
   \---- Incremental                              what funcsat keeps
   \---- Funcsat --- MCFuncsat                     the engine; implements both
             \----- FuncsatProofs --- FuncsatAnswerProofs --- FuncsatModelProofs
Incremental + Circuits --- Solving --- MCSolving  bitfunc over funcsat
                              \------- SolvingProofs    also of Incremental
Memory --- MCMemory                               symbolic memories
   \------ MemoryProofs
```

An `MC` module only names the small sets of a run.

### `Circuits`, `Aig`

`Circuits` holds the graph as a record and one operator per function of
`circuits.c` that returns the graph after the call and the literal the call
returns. C does not fix the order in which the arguments of a call are evaluated,
and `bfNewXor` and `bfNewSelect` build gates in the arguments of a call; the
constant `ArgsRightToLeft` says which order the build uses (gcc on x86-64
evaluates right to left). The hash table is a set of entries, found with
`EqualAnd`; the Aiger symbols and names are left out.

`Aig` is the state machine: `man` is the graph, `demands` a history variable of
what the client asked to be equal. One action per function of `circuits.h`.
A call that would exceed the bounds (`MaxVar`, `MaxInputs`, `MaxDemands`) is not
made; `MaxDemandVar` and `MaxDemandInputs` keep the graphs that also have
constraints smaller.

### `BigGates`, `Bitvec`, `Words`

`BigGates` has the functions of `circuits.c` that take a vector of literals:
`bfBigAnd`, `bfBigOr`, `bfBigXor` with their sorting, duplicate elimination and
halving passes, and `bfSetClause`, which builds gates behind the hash table.

`Bitvec` has the algorithms of `bitvec.c`: the ripple adder, subtraction,
negation, absolute value, the multiplier, the restoring divider and the four
operations over it, the comparisons, barrel shifts with their overflow test, the
left rotation, extension, truncation, concatenation, constants. Each is a function
from a graph and vectors (sequences of literals, lowest bit first) to a graph and
a vector, made of the gate constructors of `Circuits` in the code's order, so
simplification and sharing are those of the hash table. `Both` and `OrOf` stand
for two inner calls in one argument list. Loops are `For` and `ForDown`; a `break`
is a condition on what the loop has so far. `bfvQuotRem` makes its quotient and a
scratch vector of fresh inputs, as the code does, and overwrites them.

The client of `Bitvec` calls any function on any vectors it has (`regs`): the
guards of a call are the `INPUTCHECK`s and assertions of the code (equal sizes,
power-of-two widths, distances that fit). `Words` says what the vector should be
without any graph: a number for every assignment of the inputs, by arithmetic
modulo `2^width`. It also says what the code does at the edges the header leaves
open: a quotient by zero is all ones and the remainder the dividend, `bfvSdiv` by
zero is zero, `bfvSrem` by zero the dividend. `bfvLrotate` should rotate modulo the
width; for distances above the width it does not, and `ReturnsWord` is about the
other assignments (`TurnedTooFar`; section 5).

`bfvRrotate` has no value in `Bitvec`: it reads a vector it has freed (finding 4).

### `Readback`

`aigAssignment` over the same graph: `bfSimulate` makes it as long as the graph
(`Prepared` doubles it), clears it and writes the inputs; `bfvGet` reads each bit
with the stack walk of `bf_get_assignment_lazily` (`Completed`), which leaves
the values of the gates it meets in the array; a new input (those of
`bfvQuotRem`) may lengthen it. The client builds, simulates and reads in any
order. A gate does not lengthen the array, and the code does not compare the
number of a gate with its length: a client of the model reads no variable
beyond it, so that `GetsWord` says nothing of such a read. The bound is the code's: 16 entries at first, doubled at an answer or
an input. A gate built after the last answer and past the end is read out of
bounds in the code (`solve.c:1013`).

### `Holds`, `Ownership`

The other half of `bitvec.c`: `numHolds`. A function frees what it is passed
unless somebody holds it, so it holds what it passes on and still needs. `Holds`
has the same functions with everything but the holds, releases, frees and reads
left out, over a heap of vectors with their counts, modulo `HoldModulus` (a
`uint8_t` in the code). Functions with the same trace share an operator, named in
its comment. The client passes only vectors it holds, or that it passes for the
last time; the groups of actions (`Unary`, `Binary`, `Careful`, `Moves`,
`Exits`) differ in what the operands may be: `Careful` are the functions that free
both operands without asking whether they are one vector; the client does not pass
them one vector twice that it does not hold, and `MaxHolds` and `MaxCount` keep it from
holding a vector so often that `numHolds` wraps. `Safe` is about what the functions do
under these two conditions on the client.

`Ownership` is the promise of `bitvec.h`, with a disjunct of its own for each way in
which the code does something else: a shift by a distance certain to be too large and
a clause certain to hold free nothing (`keeps`); a signed division by a constant
zero leaves a hold (`holds`); a signed remainder never frees its quotient, and
`bfvLrotate` not the rest of the width when shifting by it takes the exit above, so each
leaves one vector that is not returned (`leaks`). `Contract` says that `Holds` implements
`Ownership`: there is no other path that does not balance.

### `Cnf`, `SatService`, `Incremental`

`Cnf` has the words for clauses and models. `SatService` is the abstract
specification of an incremental solver: calls may refuse only what contradicts
the formula and the assumptions, every search ends with the right answer.
funcsat implements it for a careful client only. `Incremental` is the weaker
contract it keeps also for clients whose clauses contradict what is assumed, or
are units added above assumptions, and says precisely what is lost then:
clauses of two or more literals stay; a unit clause is an entry `[lit, at,
unit]` of level 0, above the assumption it was added under, and goes when that
is popped (it is implied again below, then without being remembered as a unit
clause); the empty clause is forgotten by the next call. `lost` is the history
of clauses refused or added under an assumption.

### `Funcsat`

The engine of `funcsat.c`, with `pc` for the place in the code: one action per
interface call up to its loop, one per clause visited by `bcp` (`VisitClause`),
one per turn of the loops of `findUips` (`SkipLiteral`, `ResolveReason`,
`Recount`, `Learn`, `Undo`, `Refuted`) and of `propagateFacts`
(`PropagateFact`, `FactsDone`). Clauses are sequences, since positions 0 and 1
are watched; each list of watchers is a sequence of `[cls, lit]`, with the
blocking literal; the arrays `model`, `level`, `reason` and `decisions` are the
fields of the trail's entries; `unit_facts` holds the learned clauses that wait
for a variable to be popped. Abstracted: the activity heap is a set (any
unassigned variable of it may be decided next, always false first as the code
does), and the restart policy may ask for a restart after any conflict
(`MaxRestarts` bounds how often). What `bfInit` switches off is left out:
minimization, subsumption, phase saving. Learned clauses are never deleted: the
sweep is compiled out (`funcsat.c:108`). The resource limit of a client
(`funcsat.c:101`) is never hit, as with the default `bfInit` keeps.

`Offers(formula)` is the set of clauses a client may add next: all of `Inputs` in
`incremental`, the next clause of a script in `search`.

`PopAssumptions(num)` is what happens when no assumption popped is recorded as 0, or
one alone is popped, as bitfunc does. Left out is the early return of `funcsat.c:266`
when several are popped and one is recorded as 0: fewer are popped than asked for,
and nothing says so. What `incremental` shows and the theorems prove is for clients
that do not pop so; no property is about the others.

### `Solving`

bitfunc over `Incremental`: the graph of `Circuits`, the flags
`clausesForThisNodeExists` (`nodes` of gates, `required` of outputs), the two
assumption stacks (`assumps` with 0 for the constant true, `held` in funcsat), the
assignment read back. A call is a sequence of steps, one per call it makes of
funcsat (`pc`, `questions`, `got`, `togo`): `bfvPushAssumption` pushes literal by
literal and undoes them when one is refused; `bfMayBeTrue`, `bfMustBeTrue` and
`bfCheckStatus` push, translate the cones, require the outputs in any order,
search, and pop. `bfResetFuncsat` and `bfPrintCNF` (with it every file back end)
change the flags between calls. The search is that of `Incremental`, which
`Funcsat` is shown to implement; in it single literals are deduced one at a time.

### `Memory`

`mem.c` as a heap of memories: a memory has its cells and is over nothing, one
memory (a copy) or two and a condition (a join). Bits are sets of assignments
(`Worlds`), addresses and values functions of the assignment, so that a store
at a symbolic address hits different places in different assignments. Marks
(`memflag`) are fresh for each traversal. `want` is what each memory should hold,
`shared` the memories over one that was stored to later (`mem.h` promises nothing
of their contents). Identifiers of freed memories are used again, like addresses.
`RoundTrip` is about values that fit the addresses: a longer one would overwrite its
own first elements.

## 3. What is checked

| Run | Instance | Question |
|---|---|---|
| `aig` | every graph of at most 3 inputs and 4 variables; with constraints 2 inputs, 3 variables, 2 constraints | shape of the graph (`Acyclic`, `Strashed`, `InputsDecide`), meaning of every constructor for all arguments (`OpsMean`, `SelectMeans`); the solutions are the models that satisfy the constraints not refused (`DemandsRecorded`) |
| `bitvec` | 133 starts of vectors of one to four bits, one or two calls, one clause, two answers | every function computes the number `Words` says (`ReturnsWord`); `bfSetClause` requires its clause (`ClauseRequired`); `bfvGet` reads the number back (`GetsWord`) |
| `clause_exact` | the same starts, one call | finding 1 |
| `holds` | 3 vectors between two calls, one hold each by the client, one barrel stage | nothing freed is used (`Safe`); **`Holds` implements `Ownership`** (`Contract`) |
| `rotate` | the same with `bfvRrotate` | finding 4 |
| `search` | searches in every order of decisions, with a restart, on five formulas of up to 8 clauses and 6 variables, under up to 2 assumptions; a second search of one of them, under assumptions that come and go | the invariants of trail, levels, reasons and facts during conflict analysis; level 0 never shrinks (`LevelZeroKept`); what is learned follows from the formula alone (`LearnedSound`); **`Funcsat` implements `SatService`**, liveness included |
| `incremental` | every sequence of up to 3 of 7 clauses over 2 variables (empty, unit, tautology, repeated literals), up to 2 assumptions, 2 searches | watches, queue, heap and assumptions are as the next call needs them; answers are right; **`Funcsat` implements `Incremental`** |
| `solving` | 2 inputs, a gate above a gate, one constraint, one assumption | answers are those of the graph; cones are complete; the assignment solves |
| `assuming` | 1 gate, 2 constraints, 2 assumptions, vectors of 2 | the stacks match, questions restore, funcsat's answers are right |
| `solving_lost` | 1 input | finding 2 |
| `memory` | 2 assignments, 2 addresses, 2 values, 3 memories at once, 2 cells | `LoadMeans`, `NoDangling`, `Reclaimed`, `RoundTrip`, `RbwLocal` |
| `memory_rbw` | the same | finding 3 |

**Why the bounds are enough.** The smallest graph in which structural hashing, a
gate over a gate and every simplification occur has four variables; the types
of arguments (same, opposite, constant, input, gate) all occur. Vectors of three have an
odd element in the first pass of `bfBigAnd` and an even one in the second. In
`bitvec` every binary function gets all pairs of a symbolic vector of three bits
and one whose bits are constant, its own or shared with it, in both orders, so
carries, borrows, signs, zero divisors and the most negative number occur for
constants (where the gates fold and the early exits are taken) and for inputs; two
bits in a further 48 combinations; values of one, two and four bits shifted by
distances shorter, as long and longer than the barrel. `MaxWidth` 7 is the
concatenation of the two widest. Clauses are set on the newest vector, before any
answer, and no vector is made after one. Two answers that differ in every input tell a value of
the last answer from one of this. `ReadVectors` (the clients that start with a
vector of two inputs, or of one) and `MaxReadVars` bound who reads; what they
read is any of the functions, and graphs of up to 40 variables make the array of 16 double twice.
In `holds` three vectors make every pattern of equal operands, `HoldModulus` is 16 in place of 256:
`HoldsAssumption` says which holds can meet on one vector and is what the
code needs of its eight bits. Two variables and
three clauses give every combination of unit, binary, refused and lost clause
with assumptions below and above; conflict analysis proper needs the larger
formulas of `search`, each chosen to reach a case (several implication
points, a fact that moves, a conflict with nothing but assumptions, a
backjump over levels): the clauses are added in order so that the decisions,
not the building of the formula, make the state space. Two assignments tell a
symbolic bit from a constant, three memories make a chain of copies, a join with a shared
branch and every order of destruction. 2 cells can match, not match, or overlap
in one assignment only.

`Offers` of `search` keeps the client to adding the clauses of a script in order,
and `CONSTRAINT InOrder` to adding them all before it assumes or asks, and to a
second search, without restart, of the formula `Opposed` only; it never cuts a search.
`CHECK_DEADLOCK FALSE` is used in `search`, `incremental`, `bitvec`,
`clause_exact`, `holds` and `rotate` only: when the client has used its calls up,
the system stops. `SYMMETRY Swaps` in
`memory` exchanges the two assignments, which no definition tells apart, and no
temporal property is checked there.

**Fairness.** `WF_vars(Engine)`: once `funcsatSolve` is called nothing else of the
process runs until it returns, and some step of its loop can always be taken
until then. Nothing is assumed about clients, and nothing about which variable is
decided. `WF_vars(Answer)` of `SatService` is what that implements. There is no
liveness property of the graph, of `Solving` or of memories: their calls end by
the shape of the data they walk, which the invariants state (`Acyclic`).

**Refinements.** In `Funcsat`, `Service == INSTANCE SatService WITH ...` maps the
sequence of clauses to a set, `held` to what the client assumes and `busy` to
`pc # "idle"`, for a client that loses nothing (`lost = {}`);
`Interface == INSTANCE Incremental WITH ...` maps level 0 of
the trail to `root`, with `AssumedAt` counting the assumptions below an entry,
for every client of `Next`. In `Holds`, `Promised == INSTANCE Ownership` takes `count` and
`call` as they are: `call` is a history variable that says how the call ended.

Every property of a passing run is also run against a changed definition: each
of the 41 mutants of `PROJECT.json` is a plausible slip in the
C function its definition stands for, and breaks that property under the run's
configuration. The mutated form stands just before the definition, with the
comment "Mutant of".

## 4. What is proved

TLAPS proves, for every value of the constants that satisfies the assumptions
below (any number of variables, clauses, inputs, memories, vectors, stages and calls):

| Module | Theorem | Says |
|---|---|---|
| `AigProofs` | `TypeCorrect`, `NoCycles`, `NoDuplicates` | types, order and hashing of the graph in every reachable state |
| | `ConstructorsMean`, `SelectIsChoice` | `OpsMean` and `SelectMeans`: constructors return their operator in every model of the resulting graph |
| | `InputsAreFree` | every valuation of the inputs has exactly one model of the gates |
| | `NothingLost` | the solutions of the graph are the models of the constraints not refused |
| `FuncsatAnswerProofs` | `TypeCorrect`, `LevelsCount`, `TrailIsJustified`, `ListsMatch`, `HeapIsComplete` | trail, levels, reasons, watch lists and heap of the engine are in step |
| | `FactsAreReady` | moving learned clauses never makes a conflict or assigns a variable twice |
| | `LearnedFollows` | what is learned follows from the clauses alone, not from assumptions |
| | `UnsatIsRight`, `LevelZeroIsKept` | UNSAT is right; a search never takes back level 0 |
| `FuncsatModelProofs` | `NothingIsPending`, `AnalysisCanResolve` | propagation is complete, so that conflict analysis always finds what it looks for |
| | `SatIsRight`, `AssumptionsAreHeld` | SAT comes with a model; level 0 holds the assumptions in their order |
| | `ImplementsService` | every step of `Funcsat` is a step of `SatService` or a stutter, for a client that loses no clause (the safety part of `ServiceSpec`) |
| | `ImplementsInterface` | **`Funcsat` implements `Incremental`**, for every client of `Funcsat` |
| `SolvingProofs` | `UnsatIsRight`, `SatIsRight` | what the answers of `Incremental` mean |
| | `UnsatAnswersAreRight`, `SatAnswersAreRight` | what bitfunc's answers mean for the graph |
| | `FlaggedConesTranslated`, `StacksStayInStep`, `CallsRestoreAssumptions`, `AssignmentIsSolution` | flags, the two stacks, the questions, the assignment read back |
| `HoldsProofs` | `HoldsAreThere`, `NoFreedIsUsed` | nothing freed is read, held, released or freed again |
| | `PromisesKept` | **`Holds` implements `Ownership`**: holds are balanced on every path but those it lists |
| `MemoryProofs` | `NothingDangles`, `NothingLeaks` | what can be reached is exactly what is allocated |
| | `LoadsReturnStores`, `ValuesComeBack`, `LocalReportsAreRight` | loads through copies and joins; values of several elements; read before write |

Together the refinements carry the answers from the engine to the client of bitfunc:
`Funcsat` implements `Incremental`, whose answers mean what `UnsatIsRight` and
`SatIsRight` say, and `Solving` is over `Incremental`, so `UnsatAnswersAreRight` and
`SatAnswersAreRight` are about the graph.

*Assumptions.* `LITERAL_MAX` and `MaxVar` are positive numbers, `ArgsRightToLeft` is
a Boolean (both orders are covered), bounds are numbers; clauses and queries are over the
literals. Of memories: there is an assignment and an address, and what is stored is told apart
from what was never stored. Of holds: those a vector has between two calls and those
one call adds do not wrap `numHolds`. TLC evaluates the same assumptions in every
run. No number of variables, steps or stages is fixed in a proof.

*The graph.* `TypeOK` and `Strashed` are not inductive: a graph could hold a gate
that the table does not know, and `bfNewAnd` would make a second one. `IInv` is
`WF` (types; `Ordered`: every gate is numbered after its inputs and nothing is
above the counter; `Hashed`: table and gates are the same set) and `Recorded`
(the outputs mean the demands in every model, not only in the models of the
bounded instance). `CircuitsProofs` has one lemma per constructor: the result is
well formed, extends the graph (`Extends`) and means its name
(`AndSound`, `OrSound`, `XorSound`, `ImpliesSound`, `SelectSound`,
`SetSound`, `SetEqualSound`). The rest follows from two facts:
a model of the larger graph is a model of the smaller (`ModelShrinks`), so a
literal keeps its meaning; and meaning is all `Recorded` needs. `Wide` and
`Fits` handle the one overflow of the code: `bfNewVar` counts up to the literals
that stand for the constants, so a step that would not fit is excluded by its guard and the
lemmas hold for the graphs before it.

*The engine.* `Inv` of `FuncsatProofs` has what the checked invariants need to be
inductive: where each clause is (`Placed`: a learned clause is watched, is a fact being
moved, or waits for one variable, never two of these), that a waiting clause follows
from what is below its variable and is the reason of a literal of its level
(`UnitFactsWait`), what the clause under analysis and its count say (`UipFalse`, `Counted`), that
facts which imply opposite literals cannot both become implied (`OppositesResolved`: their
resolvent is the clause that is learned, or one of their literals was popped), and
what propagating the facts has done and has still to do (`Propagating`). What is above level 0 when a call
returns stays on the trail until the next call pops it, unjustified if the search was
refuted: the invariants about it hold of the part that may be looked at (`Live`). `RootSound` is the
reason for UNSAT: an entry of level 0 follows from the formula and the assumptions
pushed before it, `AssumptionsInOrder` says which those are. SAT needs
the completeness of propagation, `Complete` of `FuncsatModelProofs`: a clause with a watched
literal that `bcp` has seen false was true by then at that level or below (`VisitedTrue`),
half-way through a watch list too. This is also why analysis can go on: a clause in conflict has two literals
of the current level (`ConflictTwo`), so the decision is never popped while
two are left (`ResolvesTwo`).

*The engine and its interface.* The invariants of `Funcsat` give each step of the two refinements. For
`Incremental` the trail's level 0 is `root`, and `AssumedAt` counts the assumptions
that stand below an entry: a pop takes back the same entries in both because the
assumption recorded last at or below each one is the recorder of its mark, and what a search
adds to level 0 (several literals at once when it backjumps there) is a sequence of
deductions.

*The interface of funcsat.* `UnsatRight` needs to know that level 0 says nothing
but what formula and assumptions imply. `RootImplied` says at which
assumption each entry stands and that it follows from the formula and the assumptions up to
there; that survives popping only because `marks` (the last assumption at or below each
one that is on the trail) never decreases and is its own mark (`MarksOrdered`), and
because an assumption that already held is found lower down
(`AssumedOnRoot`). `SatRight` needs that unit clauses are at the bottom of
level 0 while nothing was lost (`UnitsKept`): the entry of a unit clause at 0 is
never popped, one above an assumption is.

*bitfunc over funcsat.* `IInv` of `SolvingProofs` says what funcsat was given (`FormulaOK`:
clauses of gates of the graph and units of outputs, so every model of the graph is
one of the formula, which makes UNSAT right), what the flags promise (`FlagsOK`, `ConesTranslated`), and
for every place in a call how far it has got (`PushOK`, `PopOK`, `AskOK`,
`SearchOK`): the stack is the one from before the call and the literals pushed since.
SAT is right because an assignment of what was translated extends to a
model of the graph: values of the gates outside the cones are computed from the inputs
(`CircuitsProofs` again, through an instance for the literals of funcsat). It needs that no call wrote
the flags and nothing was lost (finding 2).

*Holds.* `Gives(h, S, g, V)` says what a function does to the heap: from `h` to `g` those of `S` that
nobody holds are freed, those of `V` are new, and every other count is as before.
Every function of `bitvec.c` has a lemma of this form, for all coincidences of its operands,
composed from those of the functions it calls; `Room` says how many holds more than those it finds
a call may need without wrapping. A barrel shift of any number of
stages is one step down the stages, which makes vectors, and one back, which frees them. `HoldsInv` is what is
inductive between calls: what the client holds is there, with at least its holds. `Placing` gives the
vectors that a call made their addresses, and each action is then one of `Ownership`.

*Memories.* `NoDangling` and `Reclaimed` hold together or not at all: `Linked` (what a memory is
over is allocated) and `Kept` (what is allocated can be reached) survive `bfmDestroy`
because what it frees is what no reference but the destroyed one reaches. `Ranked`
says that memories are over one another without a circle. It is what lets a load, which descends a
level at a time, be proved by its depth; that the marking of a traversal ends after as
many rounds as there are memories is a pigeonhole argument. `Meaning` states the
contents one level deep: the newest cell that matches, else what the memory below should
hold; `SharedUp` and `SharedOver` keep those for which `mem.h` promises
nothing from being below one for which it does. `Report` walks the marked memories; its
lemma is by the number of those still unmarked.

*Induction.* The induction theorems of the library cannot be instantiated by the provers
used here. Where a loop or a recursive function has to be followed, the proofs take the
least number without the property (`LeastElement`, `LeastNat`, from
`NatLessThanWellFounded`), with the property written as the set of numbers that have
it; the loop is a function given by its steps.

*Only model-checked.* The liveness of `ServiceSpec`, which needs fairness and
`ENABLED`. `ReturnsWord`, `ClauseRequired` and `GetsWord` of `Bitvec` and `Readback`:
the walks of the graph (`Settled`, `Completed`) are recursive operators, in whose
presence the provers lose arithmetic, and what a loop over a vector computes for every
width is an induction over data for each of some forty functions. The two action
properties that are proved, `LevelZeroKept` and `Contract`, are proved as the runs check them.

## 5. Findings

1. `clause_exact`: `add_clause_to_AIG` (`circuits_internal.h:139`) accumulates
   the wrong sign: `bfSetClause` of `l1, l2` requires `l1` and forbids `l2`.
   `bitfunc.h:184` says it requires the disjunction.
2. `solving_lost`: `bfFuncsatSolve` ignores that funcsat refused an output's unit
   clause (`solve.c:638`) and flags the output: after `bfSet(x)`,
   `bfMayBeTrue(-x)` answers true and `bfMustBeTrue(x)` false, against
   `bitfunc.h:237`. `SatAnswers` states what is left: the answers are right while
   nothing is refused and no call writes the flags.
3. `memory_rbw`: the read-before-write literal of a load from a copy or a join is
   not that of `mem.h:88` (`mem.c:389-396`); `RbwLocal` states what is left.

4. `rotate`: `bfvRrotate` overwrites its distance by a masked one that nobody
   holds (`bitvec.c:1104`) and passes it to three functions that free it.
   `bitvec.h:11` asks clients to hold a vector they pass more than once.

The second, third and fourth behave the same in the compiled library. Read or seen
there too, and shown by no run:

- `bfvLrotate` computes its distance modulo the width and shifts by the distance it was
  passed (`bitvec.c:1124`): above the width every bit is shifted out. `bitvec.h:295` and
  the code quoted at `bitvec.c:1114` have a rotation.
- A distance certain to be too large (`bitvec.c:705`) and a clause certain to hold free
  nothing, against `bitvec.h:9-11`; `bfvSdiv` by a constant zero leaves its dividend
  held; `bfvSrem` never frees its quotient (`bitvec.c:937`), nor `bfvLrotate` the rest
  of the width it could not shift by (`bitvec.c:1127`). These are the disjuncts of `Ownership`.
- `funcsatPopAssumptions` stops at an assumption recorded as 0 (`funcsat.c:266`);
  those below it that were to be popped stay assumed, against `funcsat.w:127`: 1 is
  pushed twice, both are popped, and 1 is still assumed. `funcsatSolCount` (`funcsat.c:2710`)
  leaves an assumption behind that way and counts too few: of the clause
  `1` and the subset `2, 1` it counts one solution of two.
- `bfPrintCNF` flags what it prints as given to funcsat (`solve.c:246`), so that a
  question after it may be answered without it: with an input set to true and nothing
  refused, `bfMayBeTrue` of its negation answers true after `bfPrintCNF`. The model has the
  call; `SatAnswers` and `ConesTranslated` say what is right without it (`written`).
- `bfmFromCounterExample` of a join fails its own assertion (`mem.c:592`);
  `bfmDestroy` lets the memoised value of its argument go instead of that of each
  memory (`mem.c:118`); `bfmStoreVector` puts the third value over the second (`mem.c:274`).
- A gate past the end of `aigAssignment` is read out of bounds (`solve.c:1013`), which
  `GetsWord` does not reach; `conditional_branch` loses the joined state (`cbranch.c:82`).

## 6. Not modelled, and the plan

Not planned: the vendored files; the front ends, which only call the
library; text formats (DIMACS, Aiger, BAP and LLVM syntax) and the processes
of other solvers, which are input and output; files outside every build. These are
most of the lines: the generated `bitfunc_cy.c` alone is two thirds of the C of the
repository, and Aiger, Lemon and its template another tenth. The components of `PROJECT.json` say so one by
one.

- *Arrays* (end of `circuits.c`): the functions are declared in
  `circuits_internal.h` only and nothing calls them.
- *Machine states and conditional branches*: a machine state is registers and a memory,
  copied and joined one by one with functions that `Bitvec`, `Holds` and `Memory`
  have (`bfmsSelect` is `bfmSelect` and two `bfmDestroy`, which `memory`
  reaches); a conditional branch runs callbacks of the client.
- *Program representation*: tables of instructions composed of bit-vector calls.
- *The rest of `bitvec.c`*: names, printing, the growth of the storage, and
  functions that only arrange literals (`bfvConcat3`, `bfvOne`, `bfvOnes`, `bfvSame`).

What is left, in order:

1. `Memory`, the rest: stores of vectors (`mem.c:274`), `bfmFromCounterExample`
   with its nested traversals (`mem.c:610`), the memoised values with their counts.
2. `Funcsat`, the rest: lists of assumptions, pops that meet a 0, solution counting, a
   resource limit that ends a search as UNSAT; the heap, the hash table and `sparsebits` as modules of
   their own with a function or a set as the abstract specification.
3. `Solving`, the rest: cores of assumptions; the heap model's questions
   (`klee_mem.c:65` leaves an assumption behind) as its client.
4. Proofs of the bit-vector functions, gate by gate, with `CircuitsProofs`: first
   `bfSetClause` and the ripple adder; the walks of `BigGates` and `Readback` would
   have to be written without recursive operators first.

The runs are as long as is practical together; a new one takes the place of one
that a larger instance makes superfluous.
