----------------------------- MODULE MCSystemTLM ------------------------------
(***************************************************************************)
(* Two subsystems with a mechanical connection, whose buses interpolate    *)
(* differently, and an unconnected bus; three subsystems in a row, the     *)
(* last one fed by a signal; and a pair of oms2, in whatever order it is   *)
(* built.  A step without a limit is longer than the delays.               *)
(***************************************************************************)
EXTENDS SystemTLM

Between(a, ka, b, kb, h) == [ends |-> <<<<a, ka>>, <<b, kb>>>>, half |-> h]

MCSetups ==
  { [api |-> "oms3", systems |-> <<"a", "b">>, connections |-> <<Between("a", "plain", "b", "coarse", 1)>>,
     loose |-> {"b"}, failing |-> {"b"}, stepSize |-> 3],
    [api |-> "oms3", systems |-> <<"a", "b", "c">>,
     connections |-> <<Between("a", "fine", "b", "plain", 2), Between("b", "output", "c", "input", 1)>>,
     loose |-> {}, failing |-> {}, stepSize |-> 5],
    [api |-> "oms2", systems |-> <<"a", "b">>, connections |-> <<Between("a", "plain", "b", "fine", 1)>>,
     loose |-> {}, failing |-> {"b"}, stepSize |-> 3] }
=============================================================================
