------------------------------- MODULE MCScope -------------------------------
(***************************************************************************)
(* An FMI model A with two sub-models, f and g, and solvers s and t; a     *)
(* sub-model is also called by its full name, and one call uses a name     *)
(* that is no identifier.  The client starts with a new model or with one  *)
(* in which f drives g, and each has a solver, and there may be a second   *)
(* model, B.                                                               *)
(***************************************************************************)
EXTENDS Scope

A == <<"A">>
B == <<"B">>
F == <<"f">>
G == <<"g">>
AF == A \o F
AG == A \o G
MCMapOrder == <<AF, AG, F, G, <<"s">>, <<"solver_A", "f">>, <<"solver_A", "g">>, <<"solver_f">>,
                <<"solver_g">>, <<"solver_s">>, <<"t">>>>
MCNames == {A, B}
MCSubModels == {F, G, AG}
MCSolvers == {<<"s">>, <<"t">>}
MCFMUs == {F, G}
MCRenamings == {<<AF, AG>>, <<AG, AF>>, <<AF, A \o <<"s">> >>, <<A, B>>, <<B, A>>}
MCSignals == {[cref |-> F, var |-> "y"], [cref |-> AF, var |-> "y"], [cref |-> G, var |-> "u"]}
MCSettings == {<<"startTime", "half">>, <<"stopTime", "small">>, <<"masterAlgorithm", "pctpl">>}
MCBases ==
  LET parts == AddSolver(AddSolver(AddSubModel(AddSubModel(NewModel(A), F, "cs"), G, "me"),
                                   <<"s">>, "internal"), <<"t">>, "euler")
      solved == ConnectSolver(ConnectSolver(parts, F, <<"s">>), G, <<"t">>)
  IN {NewModel(A), AddConnection(solved, [cref |-> F, var |-> "y"], [cref |-> G, var |-> "u"])}
MCDeletions == {F, G, <<"s">>}
=============================================================================
