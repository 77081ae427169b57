----------------------- MODULE MCWorkerOrchestration -----------------------
(* Instances of WorkerOrchestration for TLC. *)
EXTENDS WorkerOrchestration, TLC

CONSTANTS c1, c2, t1, t2

Edges(required, advisory) == [requires |-> required, advises |-> advisory]

\* A chain of required dependencies, a fork with an advisory one, a join, and
\* a graph that create_plan refuses.
OrderedGraphs ==
  {Edges({<<2, 1>>, <<3, 2>>}, {}), Edges({<<2, 1>>}, {<<3, 1>>}),
   Edges({<<3, 1>>}, {<<3, 2>>}), Edges({<<1, 2>>, <<2, 1>>}, {})}

\* The second of two jobs requires the first, or is advised by it.
PairGraphs == {Edges({<<2, 1>>}, {}), Edges({}, {<<2, 1>>})}

\* A chain that lists the last job first.
BackwardGraphs == {Edges({<<1, 2>>, <<2, 3>>}, {})}

OneServer == {{c1, c2}}
OneServerOneCaller == {{c1}}
ServerWithThread == {{c1, t1}}

CallerSymmetry == Permutations({c1, c2})
=============================================================================
