-------------------------------- MODULE MCSystem ------------------------------
(***************************************************************************)
(* Three models to start with: a weakly coupled system with an FMU and a   *)
(* strongly coupled system with a table in it, a TLM system of two weakly  *)
(* coupled ones, and a TLM system of a weakly coupled one and a table.     *)
(* They are what the calls of System.tla build.                            *)
(***************************************************************************)
EXTENDS System

In == [causality |-> "input", type |-> "real"]
Out == [causality |-> "output", type |-> "real"]

EnumIn == [causality |-> "input", type |-> "enum"]
EnumOut == [causality |-> "output", type |-> "enum"]

MCKinds == "cs" :> ("u" :> In @@ "y" :> Out @@ "v" :> EnumIn @@ "e" :> EnumOut) @@ "table" :> ("y" :> Out)
           @@ "me" :> NoTree @@ "external" :> NoTree

R == <<"r">>
WC ==
  LET t1 == AddSystem(AddSystem(NoTree, R, "wc"), <<"r", "s">>, "sc")
      t2 == AddConnector(AddConnector(t1, R, <<"s", "u">>, In), R, <<"s", "y">>, Out)
      t3 == AddSubModel(AddSubModel(t2, R, <<"c">>, "cs"), R, <<"s", "d">>, "table")
  IN AddConnection(AddConnection(t3, R, <<"c", "y">>, <<"s", "u">>), R, <<"s", "y">>, <<"s", "d", "y">>)
TLM ==
  LET t1 == AddSystem(AddSystem(AddSystem(NoTree, R, "tlm"), <<"r", "s">>, "wc"), <<"r", "c">>, "wc")
      t2 == AddConnector(AddConnector(t1, R, <<"s", "u">>, In), R, <<"s", "y">>, Out)
      t3 == AddTLMBus(AddTLMBus(t2, R, <<"s", "p">>), R, <<"c", "p">>)
  IN AddTLMConnection(t3, R, <<"s", "p">>, <<"c", "p">>, 10)
Mixed ==
  LET t1 == AddSystem(AddSystem(NoTree, R, "tlm"), <<"r", "s">>, "wc")
      t2 == AddSubModel(AddConnector(t1, R, <<"s", "u">>, In), R, <<"c">>, "table")
  IN AddConnection(t2, R, <<"c", "y">>, <<"s", "u">>)
MCBases == {WC, TLM, Mixed}

MCSystems == {R, <<"r", "s">>, <<"r", "y">>}
MCConnectors == {<<"u">>, <<"s", "y">>, <<"s", "u">>}
MCSubModels == {<<"c">>, <<"s", "c">>, <<"s", "d">>, <<"s", "e">>}
MCEnds == {<<"u">>, <<"c", "u">>, <<"c", "y">>, <<"c", "v">>, <<"c", "e">>, <<"s", "u">>, <<"s", "y">>, <<"s", "d", "y">>,
           <<"s", "p">>, <<"c", "p">>}
MCBuses == {<<"s", "p">>, <<"c", "p">>}
MCSignals == {<<"s", "u">>, <<"s", "y">>}
MCTLMTypes == <<"f", "v">>
MCSymmetry == Permutations(Names)
=============================================================================
