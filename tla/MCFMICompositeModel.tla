------------------------- MODULE MCFMICompositeModel -------------------------
(* Composite models for FMICompositeModel: a chain through an FMU whose    *)
(* output depends on its input, an algebraic loop, two FMUs in one solver; *)
(* more and fewer cores than jobs; no, all and sparse rows of results.     *)
EXTENDS FMICompositeModel

Out(s) == <<s, "y">>
In(s) == <<s, "u">>
Single(a, b) == <<<<Out(a), In(b)>>>>

Depends(through) ==
  [o \in {Out(s) : s \in {"f", "g", "t"}} |-> IF o[1] \in through THEN {In(o[1])} ELSE {}]

(* A table t drives f, which passes its input on to g. *)
Chain(cores, logging) ==
  [subModels |-> {"f", "g", "t"}, connections |-> <<Single("t", "f"), Single("f", "g")>>,
   depends |-> Depends({"f"}), interval |-> 2, logging |-> logging,
   jobs |-> <<{"t"}, {"f"}, {"g"}>>, cores |-> cores]

(* f and g feed each other, in a loop or not. *)
Ring(through, connections) ==
  [subModels |-> {"f", "g"}, connections |-> connections,
   depends |-> Depends(through), interval |-> 1, logging |-> 2,
   jobs |-> <<{"f"}, {"g"}>>, cores |-> 2]

OneSolver == [Chain(4, 2) EXCEPT !.jobs = <<{"t"}, {"f", "g"}>>, !.interval = 3]

MCSetups ==
  {Chain(4, -1), Chain(3, 0), Chain(2, 1), Chain(4, 3), OneSolver,
   Ring({"f"}, <<Single("g", "f"), Single("f", "g")>>),
   Ring({"f", "g"}, <<Single("f", "g") \o Single("g", "f")>>)}
MCMaxTime == 4
MCMaxCalls == 2
=============================================================================
