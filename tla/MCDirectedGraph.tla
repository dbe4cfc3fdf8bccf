----------------------------- MODULE MCDirectedGraph -------------------------
(***************************************************************************)
(* A system with a sub-system s, which holds one component that may pass   *)
(* its input through, and two components: c with two inputs, any of which  *)
(* the output may depend on, and d with one.  The system has an input and  *)
(* an output of its own.                                                   *)
(***************************************************************************)
EXTENDS DirectedGraph

In(name) == [name |-> name, causality |-> "input"]
Out(name) == [name |-> name, causality |-> "output"]

V1(name, causality) == [name |-> <<name>>, causality |-> causality, unknown |-> causality = "output"]

(* The output y and some inputs, on which it depends as given; its start   *)
(* value depends on nothing.                                               *)
Component(inputs, dependencies) ==
  [variables |-> <<V1("y", "output")>> \o [n \in DOMAIN inputs |-> V1(inputs[n], "input")],
   outputs |-> <<dependencies>>, unknowns |-> << << >> >>]

SubSystem(h) ==
  AddEdge(AddEdge(IncludeGraph(Cleared, h, <<"e">>), In(<<"u">>), In(<<"e", "u">>)),
          Out(<<"e", "y">>), Out(<<"y">>))

MCParts == << <<"s">>, <<"c">>, <<"d">> >>
U == <<"u">>
V == <<"v">>
MCGraphs(part) ==
  CASE part = <<"s">> -> {SubSystem(h) : h \in DependencyGraphs(Component(<<"u">>, <<2>>))}
    [] part = <<"c">> -> DependencyGraphs(Component(<<"u", "v">>, <<2>>))
                           \cup {OutputsGraph(Component(<<"u", "v">>, <<0>>))}
    [] part = <<"d">> -> {OutputsGraph(Component(<<"u">>, <<0>>))}

MCConnections ==
  ({In(U), Out(<<"s", "y">>), Out(<<"c", "y">>), Out(<<"d", "y">>)}
     \X {In(<<"s", "u">>), In(<<"c", "u">>), In(<<"d", "u">>)})
  \cup {<<Out(<<"d", "y">>), Out(<<"y">>)>>, <<Out(<<"d", "y">>), In(<<"c", "v">>)>>}
=============================================================================
