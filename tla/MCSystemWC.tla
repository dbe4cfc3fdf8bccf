----------------------------- MODULE MCSystemWC -----------------------------
(* A model of two FMUs, the second of which may refuse, and one of an FMU   *)
(* that never does and that is stepped to the stop time in one step.        *)
EXTENDS SystemWC

MCSetups ==
  {[components |-> <<"f", "g">>, failing |-> {"g"}, stepSize |-> 2, stopTime |-> 3],
   [components |-> <<"f">>, failing |-> {}, stepSize |-> 1, stopTime |-> 1]}
=============================================================================
