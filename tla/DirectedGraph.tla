---------------------------- MODULE DirectedGraph ----------------------------
(***************************************************************************)
(* The dependency graph of a system (DirectedGraph.cpp) and the call that  *)
(* fills it again, System::updateDependencyGraphs.  Nodes are connectors,  *)
(* edges are connections and the dependencies inside of the components;    *)
(* getSortedConnections orders the connections by Tarjan's algorithm on    *)
(* the edges, and keeps the order until an edge is added.  The oms2 class  *)
(* is the same without the flip of the system's own connectors.            *)
(*                                                                         *)
(* A connector is [name, causality], a name is a sequence of identifiers.  *)
(***************************************************************************)
EXTENDS Integers, SequencesExt, FiniteSetsExt

CONSTANTS
  Parts,         (* the sub-systems and components, in the order of the maps *)
  Graphs(_),     (* the graphs a part may have                              *)
  Connections,   (* the connections the system may have: <<from, to>>       *)
  MaxConnections (* bound: the connections of the system                    *)

VARIABLES
  graph,   (* [nodes, edges, sorted, valid]: an edge is a pair of positions  *)
  parts,   (* the parts that are not included yet                           *)
  made     (* the connections that were added                               *)

vars == <<graph, parts, made>>

Cleared == [nodes |-> << >>, edges |-> << >>, sorted |-> << >>, valid |-> TRUE]

-----------------------------------------------------------------------------
(* Building the graph. *)

AddNode(g, v) == [g EXCEPT !.nodes = Append(@, v)]

(* The position of v: the nodes are looked through until both ends of the  *)
(* edge have been met.                                                     *)
Met(g, n, v) == {i \in 1..n : g.nodes[i] = v}
IndexOf(g, v, w) ==
  LET scanned == Min({n \in 1..Len(g.nodes) : Met(g, n, v) # {} /\ Met(g, n, w) # {}}
                     \cup {Len(g.nodes)})
  IN Met(g, scanned, v)
WithNode(g, v, found) == IF found = {} THEN AddNode(g, v) ELSE g
PlaceOf(g, found) == IF found = {} THEN Len(g.nodes) ELSE Max(found)

Edge(g, v, w) ==
  LET i == IndexOf(g, v, w)      g1 == WithNode(g, v, i)
      j == IndexOf(g, w, v)      g2 == WithNode(g1, w, j)
  IN [g2 EXCEPT !.edges = Append(@, <<PlaceOf(g1, i), PlaceOf(g2, j)>>)]

AddEdge(g, v, w) == [Edge(g, v, w) EXCEPT !.valid = FALSE]

AddPrefix(v, prefix) == [v EXCEPT !.name = prefix \o @]

IncludeGraph(g, h, prefix) ==
  FoldLeft(LAMBDA acc, e : AddEdge(acc, AddPrefix(h.nodes[e[1]], prefix),
                                        AddPrefix(h.nodes[e[2]], prefix)),
           FoldLeft(LAMBDA acc, v : AddNode(acc, AddPrefix(v, prefix)), g, h.nodes),
           h.edges)

-----------------------------------------------------------------------------
(* The graphs of a component, from its modelDescription: variables are     *)
(* records name, causality, unknown, the latter if the value at the        *)
(* beginning is computed; outputs and unknowns say for the nth of them, by *)
(* the order of the variables, on which variables it depends, <<0>> being  *)
(* all inputs.                                                             *)

Nodes(variables) ==
  [n \in DOMAIN variables |-> [name |-> variables[n].name, causality |-> variables[n].causality]]
Inputs(component) ==
  Nodes(SelectSeq(component.variables, LAMBDA v : v.causality = "input"))
Outputs(component) ==
  Nodes(SelectSeq(component.variables, LAMBDA v : v.causality = "output"))
InitialUnknowns(component) == Nodes(SelectSeq(component.variables, LAMBDA v : v.unknown))

Depends(component, g, v, dependencies) ==
  LET sources == IF dependencies = <<0>> THEN Inputs(component)
                 ELSE [n \in DOMAIN dependencies |->
                         Nodes(component.variables)[dependencies[n]]]
  IN FoldLeft(LAMBDA acc, u : AddEdge(acc, u, v), g, sources)

DependencyGraph(component, nodes, dependencies) ==
  FoldLeft(LAMBDA acc, n : Depends(component, acc, nodes[n], dependencies[n]),
           FoldLeft(AddNode, Cleared, nodes), [n \in DOMAIN nodes |-> n])

OutputsGraph(component) ==
  DependencyGraph(component, Outputs(component), component.outputs)
InitialUnknownsGraph(component) ==
  DependencyGraph(component, InitialUnknowns(component), component.unknowns)
DependencyGraphs(component) == {OutputsGraph(component), InitialUnknownsGraph(component)}

-----------------------------------------------------------------------------
(* Sorting: strongly connected components of edges. *)

(* Mutant: a component is put after those found before it.                 *)
OutputBehind(sccs, scc) == Append(sccs, scc)
Output(sccs, scc) == <<scc>> \o sccs

(* Mutant: the depth of a successor on the stack is not looked at.         *)
LowlinkOwn(low, depth) == low
Lowlink(low, depth) == Min({low, depth})

GetEdgeIndex(edges, from, to) == Min({i \in DOMAIN edges : edges[i] = <<from, to>>})

RECURSIVE StrongConnect(_, _, _)
StrongConnect(edges, v, t) ==
  LET opened == [t EXCEPT !.d[v] = t.index, !.low[v] = t.index,
                          !.index = @ + 1, !.stack = Append(@, v)]
      leaving == SelectSeq(edges, LAMBDA e : e[1] = edges[v][2])
      Visit(u, e) ==
        LET w == GetEdgeIndex(edges, e[1], e[2]) IN
          IF u.d[w] = -1
          THEN LET r == StrongConnect(edges, w, u) IN
                 [r EXCEPT !.low[v] = Min({@, r.low[w]})]
          ELSE IF \E i \in DOMAIN u.stack : u.stack[i] = w
               THEN [u EXCEPT !.low[v] = Lowlink(@, u.d[w])] ELSE u
      visited == FoldLeft(Visit, opened, leaving)
      place == CHOOSE i \in DOMAIN visited.stack : visited.stack[i] = v
      popped == SubSeq(visited.stack, place, Len(visited.stack))
  IN IF visited.low[v] = visited.d[v]
     THEN [visited EXCEPT !.stack = SubSeq(@, 1, place - 1),
                          !.sccs = Output(@, Reverse(popped))]
     ELSE visited

GetSCCs(edges) ==
  LET none == [i \in DOMAIN edges |-> -1] IN
    FoldLeft(LAMBDA t, v : IF t.d[v] = -1 THEN StrongConnect(edges, v, t) ELSE t,
             [d |-> none, low |-> none, index |-> 0, stack |-> << >>, sccs |-> << >>],
             [v \in DOMAIN edges |-> v]).sccs

(* A connector of the system itself is seen from inside.                   *)
Flipped(v) == Len(v.name) = 1
Gives(v) == v.causality = IF Flipped(v) THEN "input" ELSE "output"
Takes(v) == v.causality = IF Flipped(v) THEN "output" ELSE "input"
IsWire(g, e) == Gives(g.nodes[e[1]]) /\ Takes(g.nodes[e[2]])

CalculateSortedConnections(g) ==
  LET sccs == GetSCCs(g.edges)
      Wires(scc) == SelectSeq([m \in DOMAIN scc |-> g.edges[scc[m]]], LAMBDA e : IsWire(g, e))
      groups == [n \in DOMAIN sccs |-> Wires(sccs[n])]
  IN [g EXCEPT !.valid = TRUE, !.sorted = SelectSeq(groups, LAMBDA s : s # << >>)]

-----------------------------------------------------------------------------
(* System::updateDependencyGraphs, and the readers of the order. *)

Init == graph = Cleared /\ parts = Parts /\ made = << >>

Include ==
  /\ parts # << >>
  /\ \E h \in Graphs(Head(parts)) : graph' = IncludeGraph(graph, h, Head(parts))
  /\ parts' = Tail(parts)
  /\ UNCHANGED made

Connect ==
  /\ parts = << >> /\ Len(made) < MaxConnections
  /\ \E c \in Connections :
       graph' = AddEdge(graph, c[1], c[2]) /\ made' = Append(made, c)
  /\ UNCHANGED parts

GetSortedConnections ==
  /\ parts = << >>
  /\ graph' = IF graph.valid THEN graph ELSE CalculateSortedConnections(graph)
  /\ UNCHANGED <<parts, made>>

(* The graph is filled again from the start.                               *)
Clear ==
  /\ Len(made) = MaxConnections
  /\ graph' = Cleared /\ parts' = Parts /\ made' = << >>

Next == Include \/ Connect \/ GetSortedConnections \/ Clear

Spec == Init /\ [][Next]_vars

-----------------------------------------------------------------------------
(* What updateInputs relies on, whenever the order is taken to be valid. *)

Edges == DOMAIN graph.edges
Feeds == {p \in Edges \X Edges : graph.edges[p[1]][2] = graph.edges[p[2]][1]}
Reaches ==
  FoldSet(LAMBDA k, R : R \cup {p \in Edges \X Edges : <<p[1], k>> \in R /\ <<k, p[2]>> \in R},
          Feeds, Edges)
Wires == {e \in Edges : IsWire(graph, graph.edges[e])}

(* The places of a wire: the group, and the place in it.                   *)
Places(e) ==
  {p \in (DOMAIN graph.sorted) \X Edges :
     p[2] \in DOMAIN graph.sorted[p[1]] /\ graph.sorted[p[1]][p[2]] = graph.edges[e]}
LastGroup(e) == Max({p[1] : p \in Places(e)})

(* Two connections are solved together as an algebraic loop exactly when   *)
(* the value of each depends on the other, through components and systems. *)
LoopsTogether ==
  graph.valid =>
    \A e, f \in Wires :
      graph.edges[e] # graph.edges[f] =>
        ((<<e, f>> \in Reaches /\ <<f, e>> \in Reaches)
           <=> \E p \in Places(e), q \in Places(f) : p[1] = q[1])

(* A value is copied after the values it depends on: where e feeds f, and  *)
(* they are no loop, f is copied again after the last time e is.           *)
ProducersFirst ==
  graph.valid =>
    \A e, f \in Wires :
      <<e, f>> \in Reaches /\ <<f, e>> \notin Reaches => LastGroup(e) < LastGroup(f)
=============================================================================
