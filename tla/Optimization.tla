---------------------------- MODULE Optimization ----------------------------
(***************************************************************************)
(* What the optimizations of src/optimizations share (Optimization.hpp,    *)
(* Optimizer.cpp): how one is run for the connections of a layer, and a    *)
(* whole pass of one as the graph it leaves.                               *)
(***************************************************************************)
EXTENDS Graph

New(g) == 1 + Max(LayersOf(g))

(* OptimizeForConnection runs an optimization for every connection of a    *)
(* layer, then erases the layers behind a connection that nothing reads.   *)

EraseUnconnectedChildren(g, base) ==
  LET es == g.outs[base]
      after[k \in 0 .. Len(es)] ==
        IF k = 0 THEN g ELSE
        LET h == after[k - 1]
            c == es[k][1]
        IN IF c \in LayersOf(h) /\ IsOutputUnconnected(h, c) THEN EraseLayer(h, c) ELSE h
  IN after[Len(es)]

ForConnections(g, base, baseKinds, childKind, Impl(_, _)) ==
  LET es == g.outs[base]
      after[k \in 0 .. Len(es)] ==
        IF k = 0 THEN g ELSE
        LET h == after[k - 1]
        IN IF h.kind[es[k][1]] = childKind THEN Impl(h, es[k]) ELSE h
  IN IF g.kind[base] \in baseKinds /\ g.kind[base] # "output"
     THEN EraseUnconnectedChildren(after[Len(es)], base)
     ELSE g

EraseIfUnconnected(g, l) == IF IsOutputUnconnected(g, l) THEN EraseLayer(g, l) ELSE g

(* Optimizer::Pass with an optimization that has nothing to do on the      *)
(* layers it inserts: it goes to the layers there were, from the last.     *)
Pass(g, Impl(_, _)) ==
  LET visit(h, l) == IF l \in LayersOf(h) THEN EraseIfUnconnected(Impl(h, l), l) ELSE h
  IN FoldLeft(visit, TopologicalSort(g), Reverse(TopologicalSort(g).order))
=============================================================================
