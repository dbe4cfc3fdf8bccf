------------------------------ MODULE MCSignals ------------------------------
(***************************************************************************)
(* Two FMUs: a real, an integer and a boolean output of A drive inputs of  *)
(* B.  Expressions match a local variable, the signals of A, or, before    *)
(* the first call, the parameters.                                         *)
(***************************************************************************)
EXTENDS Signals

V(name, type, causality, start) ==
  [name |-> name, type |-> type, causality |-> causality, start |-> start]
MCFMUs == <<"A", "B">>
MCVariables ==
  [A |-> <<V("y", "real", "output", 10), V("k", "real", "parameter", 3), V("v", "real", "input", 0),
           V("m", "int", "output", 30), V("c", "bool", "output", 0)>>,
   B |-> <<V("n", "int", "input", 1), V("s", "string", "input", 0), V("x", "int", "local", 20),
           V("u", "real", "input", 0), V("b", "bool", "input", 1), V("q", "int", "parameter", 5)>>]
MCConnections == <<<<<<"A", 1>>, <<"B", 4>>>>, <<<<"A", 4>>, <<"B", 1>>>>, <<<<"A", 5>>, <<"B", 5>>>>>>
MCBases == {{}, {<<"A", "k">>, <<"B", "q">>}}
MCPatterns == {{<<"B", "x">>}, {<<"A", "y">>, <<"A", "v">>}}
MCSettings == [real |-> {4}, int |-> {2}, bool |-> {0}]
MCFileNames == {[name |-> "a", kind |-> ".mat"], [name |-> "b", kind |-> ".csv"]}
=============================================================================
