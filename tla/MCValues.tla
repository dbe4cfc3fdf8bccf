------------------------------- MODULE MCValues -------------------------------
(***************************************************************************)
(* An FMU A beside a sub-system, sub, with an FMU E: A drives E through a  *)
(* connector of sub, and E drives A through another.  In two of the        *)
(* wirings a connection between integers or a loop stands in the way.      *)
(***************************************************************************)
EXTENDS Values

V(name, type, causality, start) ==
  [name |-> name, type |-> type, causality |-> causality, start |-> start]
C(name, type, causality) == [name |-> name, type |-> type, causality |-> causality]

MCSubSystems == <<"sub">>
MCComponents == [root |-> <<"A">>, sub |-> <<"E">>]
MCVariables ==
  [A |-> <<V("y", "real", "output", 10), V("u", "real", "input", 0), V("n", "int", "output", 5)>>,
   E |-> <<V("u", "real", "input", 0), V("k", "int", "parameter", 3), V("y", "real", "output", 20),
           V("b", "bool", "input", 0)>>]

MCDrafts ==
  {[root |-> <<C("y", "real", "output")>>,
    sub |-> <<C("u", "real", "input"), C("m", "int", "input"), C("y", "real", "output")>>]}
MCConnectors == {C("u", "int", "input"), C("m", "bool", "input"), C("y", "real", "output")}

W(a, x, b, y) == <<[from |-> <<a, x>>, to |-> <<b, y>>]>>
Inner == <<W("E", "y", "sub", "y"), W("sub", "u", "E", "u")>>
Outer == <<W("A", "y", "sub", "u"), W("sub", "y", "A", "u"), W("sub", "y", "root", "y")>>
MCWirings ==
  {[root |-> Outer, sub |-> Inner],
   [root |-> <<Outer[1], W("A", "n", "sub", "m"), Outer[2]>>, sub |-> Inner],
   [root |-> <<Outer[1] \o Outer[2]>>, sub |-> Inner]}
MCSettings == [real |-> {4}, int |-> {2}, bool |-> {1}]
=============================================================================
