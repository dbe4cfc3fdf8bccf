----------------------------- MODULE MCPMRMaster -----------------------------
(* Composite models for PMRMaster: a chain, a cycle, a rate cycle, a late  *)
(* down-sampling, a table, an algebraic loop beside a chain, ratios that   *)
(* do not divide and a sub-model without connections.  Two ticks are the   *)
(* least interval with a point between two communication points.           *)
EXTENDS PMRMaster

O(s) == <<s, "y">>
I(s) == <<s, "u">>
From(a, b) == <<O(a), I(b)>>

Base ==
  [subModels |-> {"f", "g"}, tables |-> {}, ratio |-> [s \in {"f", "g"} |-> 1],
   connections |-> <<<<From("f", "g")>>>>, late |-> FALSE,
   interval |-> 2, stop |-> 8, integers |-> {}, offset |-> 0]

(* f -> g -> h, sorted from the front and from the back. *)
Chain(order, late, ratios) ==
  [Base EXCEPT !.subModels = {"f", "g", "h"}, !.ratio = ratios, !.late = late,
               !.connections = order]
Forward == <<<<From("f", "g")>>, <<From("g", "h")>>>>
Backward == <<<<From("g", "h")>>, <<From("f", "g")>>>>
Rates(f, g, h) == [s \in {"f", "g", "h"} |-> CASE s = "f" -> f [] s = "g" -> g [] OTHER -> h]

(* Two sub-models that feed each other. *)
Cycle(ratio) ==
  [Base EXCEPT !.ratio = [s \in {"f", "g"} |-> IF s = "f" THEN 1 ELSE ratio],
               !.connections = <<<<From("f", "g")>>, <<From("g", "f")>>>>]

(* A sub-model that feeds itself, driven by a table. *)
SelfLoop ==
  [Base EXCEPT !.tables = {"f"},
     !.connections = <<<<From("f", "g")>>, <<<<O("g"), <<"g", "w">>>>>>>>]

(* A loop of the signals "x" next to the connection. *)
LoopBeside ==
  [Base EXCEPT !.connections =
     <<<<From("f", "g")>>, <<<<<<"f", "x">>, <<"g", "x">>>>, <<<<"g", "x">>, <<"f", "x">>>>>>>>]

(* The stop time is no multiple of the interval. *)
Clamped(stop) == [Base EXCEPT !.stop = stop, !.interval = 20]

Counting == [Base EXCEPT !.integers = {I("g")}, !.offset = -2]

Unequal == [Base EXCEPT !.ratio = [s \in {"f", "g"} |-> IF s = "f" THEN 2 ELSE 3]]
Unconnected == [Base EXCEPT !.subModels = {"f", "g", "h"}, !.ratio = Rates(1, 1, 1)]

MCSetups ==
  {Chain(order, late, ratios) : order \in {Forward, Backward}, late \in BOOLEAN,
                                ratios \in {Rates(1, 2, 4), Rates(2, 1, 2), Rates(4, 2, 1)}}
  \cup {Cycle(1), Cycle(2), SelfLoop, LoopBeside, Counting, Unequal, Unconnected,
        Clamped(70), Clamped(61)}
=============================================================================
