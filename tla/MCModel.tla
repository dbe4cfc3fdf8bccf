------------------------------- MODULE MCModel -------------------------------
(* Three FMUs of which one may refuse to be initialised; a row or two for  *)
(* every step, sparse rows and none; buffers of one and of three rows.     *)
EXTENDS Model

Base ==
  [fmus |-> <<"f", "g", "h">>, failing |-> {}, interval |-> 2, logging |-> 0, bufferSize |-> 3]

Refusing == [Base EXCEPT !.failing = {"g"}, !.logging = -1]

MCSetups ==
  {Base, Refusing, [Base EXCEPT !.logging = 2, !.bufferSize = 1],
   [Base EXCEPT !.interval = 1, !.logging = 2]}
MCFileNames == {"a.mat", "b.csv"}
MCMaxTime == 3
MCMaxCalls == 6
=============================================================================
