--------------------------- MODULE WorkloadGraph ---------------------------
(***************************************************************************)
(* The validation of a workload graph and its topological order            *)
(* (sim/workloads/schema.py, sim/workloads/validate.py).  Kahn's algorithm *)
(* takes one node per step; the order in which nodes with no dependencies  *)
(* enter its queue is that of Python sets, so it is left open.  A graph    *)
(* that passes the construction checks goes on to the lifetime check.      *)
(***************************************************************************)
EXTENDS Integers, Sequences, FiniteSets

CONSTANTS Nodes, Tensors,
          Graphs   \* graphs to validate: [inputs, outputs, dependencies: by node,
                   \* producer, alias: by tensor]

VARIABLES graph, phase, degree, queue, order

vars == <<graph, phase, degree, queue, order>>

None  == "none"       \* producer_node or alias_of left empty
Input == "input"      \* the producer of graph inputs

(* Edges by data flow: the declared producer of a tensor before its readers. *)
DataEdges(g) == {e \in Nodes \X Nodes : \E t \in g.inputs[e[2]] \cap Tensors : g.producer[t] = e[1]}

(* Edges of the graph: dependencies on oneself or on unknown nodes are ignored. *)
Edges(g) == DataEdges(g) \cup {e \in Nodes \X Nodes : e[1] # e[2] /\ e[1] \in g.dependencies[e[2]]}

After(g, n) == {m \in Nodes : <<n, m>> \in Edges(g)}

InDegree(n) == Cardinality({m \in Nodes : n \in After(graph, m)})

Orders(S) == {s \in [1..Cardinality(S) -> S] : \A i, j \in DOMAIN s : s[i] = s[j] => i = j}

Init ==
  /\ graph \in Graphs /\ phase = "build"
  /\ degree = [n \in Nodes |-> 0] /\ queue = <<>> /\ order = <<>>

(* _check_dag_cycles: a node that reads what it produces is an error at once. *)
RejectSelfLoop ==
  /\ phase = "build" /\ \E n \in Nodes : <<n, n>> \in DataEdges(graph)
  /\ phase' = "rejected" /\ UNCHANGED <<graph, degree, queue, order>>

CountDegrees ==
  /\ phase = "build" /\ \A n \in Nodes : <<n, n>> \notin DataEdges(graph)
  /\ LET deg == [n \in Nodes |-> InDegree(n)]
     IN degree' = deg /\ queue' \in Orders({n \in Nodes : deg[n] = 0})
  /\ phase' = "sort" /\ UNCHANGED <<graph, order>>

(* Faulty: a neighbour is queued when its first predecessor is done. *)
ReadyEarly(n) == {m \in After(graph, n) : degree[m] = InDegree(m)}

(* The neighbours of n that wait for n alone. *)
Ready(n) == {m \in After(graph, n) : degree[m] = 1}

Visit ==
  /\ phase = "sort" /\ queue # <<>>
  /\ LET n == Head(queue)
     IN /\ degree' = [m \in Nodes |-> degree[m] - IF m \in After(graph, n) THEN 1 ELSE 0]
        /\ \E s \in Orders(Ready(n)) : queue' = Tail(queue) \o s
        /\ order' = Append(order, n)
  /\ UNCHANGED <<graph, phase>>

Verdict(ok, next) == phase' = IF ok THEN next ELSE "rejected"

EndSort ==
  /\ phase = "sort" /\ queue = <<>>
  /\ Verdict(Len(order) = Cardinality(Nodes), "references")
  /\ UNCHANGED <<graph, degree, queue, order>>

(* _check_tensor_references. *)
References(g) ==
  /\ \A n \in Nodes : g.inputs[n] \cup g.outputs[n] \subseteq Tensors
  /\ \A t \in Tensors : g.producer[t] \in Nodes \cup {None, Input}

CheckReferences ==
  /\ phase = "references" /\ Verdict(References(graph), "aliases")
  /\ UNCHANGED <<graph, degree, queue, order>>

(* _check_alias_validity. *)
CheckAliases ==
  /\ phase = "aliases"
  /\ Verdict(\A t \in Tensors : graph.alias[t] \in (Tensors \ {t}) \cup {None}, "lifetime")
  /\ UNCHANGED <<graph, degree, queue, order>>

(* validate_tensor_lifetime. *)
CheckLifetime ==
  /\ phase = "lifetime"
  /\ Verdict(\A n \in Nodes : /\ graph.outputs[n] \cap graph.inputs[n] = {}
                              /\ \A t \in graph.outputs[n] : graph.producer[t] \in {n, None},
             "accepted")
  /\ UNCHANGED <<graph, degree, queue, order>>

Next ==
  RejectSelfLoop \/ CountDegrees \/ Visit \/ EndSort
    \/ CheckReferences \/ CheckAliases \/ CheckLifetime

Spec == Init /\ [][Next]_vars
----------------------------------------------------------------------------
TypeOK ==
  /\ phase \in {"build", "sort", "references", "aliases", "lifetime", "accepted", "rejected"}
  /\ degree \in [Nodes -> Int] /\ \A i \in DOMAIN queue : queue[i] \in Nodes

(* What the graph says, read without the algorithm: m must run before n.   *)
Direct(g, n) ==
  {m \in Nodes : \/ m # n /\ m \in g.dependencies[n]
                 \/ \E t \in g.inputs[n] \cap Tensors : g.producer[t] = m}

(* All that must run before n, directly or not. *)
Below(g, n) ==
  LET below[k \in 0..Cardinality(Nodes)] ==
        IF k = 0 THEN Direct(g, n)
        ELSE below[k - 1] \cup UNION {Direct(g, m) : m \in below[k - 1]}
  IN  below[Cardinality(Nodes)]

Cyclic(g) == \E n \in Nodes : n \in Below(g, n)

(* A cyclic graph is never accepted, whatever else is wrong with it, and   *)
(* an accepted one names only tensors and nodes that exist and that agree  *)
(* on who writes what.                                                     *)
AcceptedIsSound ==
  phase = "accepted" =>
    /\ ~Cyclic(graph)
    /\ \A n \in Nodes : \A t \in graph.outputs[n] :
         t \in Tensors /\ graph.producer[t] \in {n, None}

(* The sort rejects no graph that could run: a rejected one has a cycle or *)
(* a reference that does not resolve or contradicts another.               *)
RejectedForAReason ==
  phase = "rejected" =>
    \/ Cyclic(graph) \/ ~References(graph)
    \/ \E t \in Tensors : graph.alias[t] \notin (Tensors \ {t}) \cup {None}
    \/ \E n \in Nodes : \E t \in graph.outputs[n] :
         t \in graph.inputs[n] \/ graph.producer[t] \notin {n, None}

(* topological_order: every node once, after everything it depends on.     *)
OrderIsTopological ==
  phase \in {"references", "aliases", "lifetime", "accepted"} =>
    /\ \A n \in Nodes : \E i \in DOMAIN order : order[i] = n
    /\ \A i, j \in DOMAIN order : i < j => order[j] \notin Direct(graph, order[i]) \cup {order[i]}

============================================================================
