------------------------------- MODULE MCSolver -------------------------------
(* Two FMUs with time events in one communication step, at the same time,  *)
(* at a communication time, and in the part of a step that cvode has       *)
(* already passed; FMUs with and without states, and FMUs that were not    *)
(* connected to the solver in the order of their names.                    *)
EXTENDS Solver

Plain(method) ==
  [method |-> method, fmus |-> <<"f", "g">>, order |-> <<"f", "g">>,
   stateful |-> {"f", "g"}, interval |-> 4,
   events |-> [f |-> {1, 3, 4}, g |-> {3, 6}]]

MCSetups ==
  {Plain("internal"), Plain("euler"), Plain("cvode"),
   [Plain("euler") EXCEPT !.stateful = {"f"}, !.events = [f |-> {}, g |-> {2, 8}]],
   [Plain("cvode") EXCEPT !.events = [f |-> {5}, g |-> {2}]],
   [Plain("euler") EXCEPT !.order = <<"g", "f">>],
   [Plain("cvode") EXCEPT !.order = <<"g", "f">>, !.stateful = {"f"}]}

MCEndTime == 8
MCMaxResets == 1
=============================================================================
