------------------------ MODULE SubgraphViewSelector ------------------------
(***************************************************************************)
(* SubgraphViewSelector::SelectSubgraphs (src/armnn/SubgraphViewSelector.  *)
(* cpp) over a whole graph: a work queue gives every layer a split id once *)
(* its parents have theirs; the selected layers of one split id become one *)
(* subgraph, which a backend may then replace as a unit.                   *)
(*                                                                         *)
(* Layers are 1 .. N in the graph's (topological) order.  Split ids are    *)
(* uint32_t in the code; a graph has too few layers for them to wrap.      *)
(***************************************************************************)
EXTENDS Integers, SequencesExt

CONSTANTS
  N,          \* bound: layers of the graph
  MaxInputs   \* bound: connected input slots of a layer

ASSUME NAssumption == N \in Nat \ {0}
ASSUME MaxInputsAssumption == MaxInputs \in Nat

VARIABLES
  edges,      \* connections: <<parent, child>>
  selected,   \* m_IsSelected: what the selector function accepts
  splitId,    \* m_SplitId
  processed,  \* m_IsProcessed
  queue       \* processQueue

vars == <<edges, selected, splitId, processed, queue>>

Layers == 1 .. N
Parents(l) == {p \in Layers : <<p, l>> \in edges}
Children(l) == {c \in Layers : <<l, c>> \in edges}


(* The order of the children, and of the sources, is that of a list; here  *)
(* it is some order (SetToSeq), and no proof depends on which.             *)

(* Sources are Input layers (never selected, see ApplyBackendOptimizations)*)
(* or Constant layers.                                                     *)
Init ==
  /\ edges \in SUBSET {e \in Layers \X Layers : e[1] < e[2]}
  /\ \A l \in Layers : Cardinality(Parents(l)) <= MaxInputs
  /\ selected \in SUBSET Layers
  /\ splitId = [l \in Layers |-> 0]
  /\ processed = {}
  /\ queue = SetToSeq({l \in Layers : Parents(l) = {}})

----------------------------------------------------------------------------
IsReadyForSplitAssignment(l) == Parents(l) \subseteq processed

ParentIds(l) == {splitId[p] : p \in Parents(l)}
SelectableIds(l) ==
  {splitId[p] : p \in {q \in Parents(l) : q \in selected /\ l \in selected}}

(* The folds of AssignSplitId.  lowest() is 0 for an unsigned type, and    *)
(* the minimum is only used when there is a parent.                        *)
MaxOr0(S) == CHOOSE m \in S \cup {0} : \A s \in S : s <= m
MinOf(S) == CHOOSE m \in S : \A s \in S : m <= s

NewSplit(l) == \E p \in Parents(l) : (p \in selected) # (l \in selected)

SplitIdIgnoringFork(l) ==  \* mutant
  IF NewSplit(l) /\ SelectableIds(l) # {} THEN MaxOr0(SelectableIds(l))
  ELSE MaxOr0(ParentIds(l)) + (IF NewSplit(l) THEN 1 ELSE 0)

SplitIdWithoutIncrement(l) == MaxOr0(ParentIds(l))  \* mutant

AssignSplitId(l) ==
  IF ~NewSplit(l) THEN MaxOr0(ParentIds(l))
  ELSE IF MaxOr0(SelectableIds(l)) > MinOf(ParentIds(l))
       THEN MaxOr0(SelectableIds(l))
       ELSE MaxOr0(ParentIds(l)) + 1

(* An entry of the queue whose layer was processed already.                *)
Skip ==
  /\ queue # <<>>
  /\ Head(queue) \in processed
  /\ queue' = Tail(queue)
  /\ UNCHANGED <<edges, selected, splitId, processed>>

(* A parent is not processed yet: back to the end of the queue.            *)
Postpone ==
  /\ queue # <<>>
  /\ Head(queue) \notin processed
  /\ ~IsReadyForSplitAssignment(Head(queue))
  /\ queue' = Append(Tail(queue), Head(queue))
  /\ UNCHANGED <<edges, selected, splitId, processed>>

FirstChildOnly(l) == Tail(queue) \o SetToSeq({c \in Children(l) : \A d \in Children(l) : c <= d})  \* mutant
QueueAfter(l) == Tail(queue) \o SetToSeq(Children(l))

Process ==
  /\ queue # <<>>
  /\ Head(queue) \notin processed
  /\ IsReadyForSplitAssignment(Head(queue))
  /\ LET l == Head(queue) IN
     /\ splitId' = [splitId EXCEPT ![l] = AssignSplitId(l)]
     /\ processed' = processed \cup {l}
     /\ queue' = QueueAfter(l)
  /\ UNCHANGED <<edges, selected>>

Finished == queue = <<>> /\ UNCHANGED vars

Next == Skip \/ Postpone \/ Process \/ Finished

Spec == Init /\ [][Next]_vars
FairSpec == Spec /\ WF_vars(Next)

----------------------------------------------------------------------------
(* The result: the selected layers of one split id.                        *)

Subgraph(id) == {l \in selected : splitId[l] = id}
SameSubgraph(a, b) == a \in selected /\ b \in selected /\ splitId[a] = splitId[b]

(* CollectNonSelectedInputs and CollectNonSelectedOutputSlots: a slot is   *)
(* on the boundary when the layer at the other end has another split id,   *)
(* whether that layer is selected or not.                                  *)
CollectedInputs(id) ==
  {e \in edges : e[2] \in Subgraph(id) /\ splitId[e[1]] # id}
CollectedOutputs(id) ==
  {e \in edges : e[1] \in Subgraph(id) /\ splitId[e[2]] # id}

----------------------------------------------------------------------------
(* Properties                                                              *)

TypeOK ==
  /\ edges \subseteq Layers \X Layers
  /\ selected \subseteq Layers
  /\ splitId \in [Layers -> 0 .. N - 1]
  /\ processed \subseteq Layers
  /\ queue \in Seq(Layers)

(* The split id never decreases along a connection, and grows where the    *)
(* selection changes.  It is why a chain of layers cannot leave a subgraph *)
(* and come back to it.                                                    *)
SplitIdsGrow ==
  \A p, c \in processed : <<p, c>> \in edges =>
    /\ splitId[p] <= splitId[c]
    /\ (p \in selected) # (c \in selected) => splitId[p] < splitId[c]

(* The slots that are collected are all the slots that cross the boundary  *)
(* of a subgraph, so that a replacement can be wired to every one of them. *)
BoundaryComplete ==
  queue = <<>> => \A id \in {splitId[l] : l \in selected} :
    /\ CollectedInputs(id) =
         {e \in edges : e[2] \in Subgraph(id) /\ e[1] \notin Subgraph(id)}
    /\ CollectedOutputs(id) =
         {e \in edges : e[1] \in Subgraph(id) /\ e[2] \notin Subgraph(id)}

(* Every layer outside the subgraphs is a node, and a subgraph is one node *)
(* (its first layer stands for it).                                        *)
NodeOf(l) == IF l \in selected THEN MinOf(Subgraph(splitId[l])) ELSE l

Feeds(a, b) == \E e \in edges : NodeOf(e[1]) = a /\ NodeOf(e[2]) = b

(* SubgraphViewSelector.cpp:185-188, "thus we avoid the execution          *)
(* dependency": with each subgraph taken as one node the graph still has   *)
(* an execution order, that is, no set of nodes waits for itself.          *)
NoCyclicSubgraphs ==
  queue = <<>> =>
    \A C \in (SUBSET {NodeOf(l) : l \in Layers}) \ {{}} :
      \E b \in C : \A a \in C \ {b} : ~Feeds(a, b)

(* Why the work queue runs dry: it never holds only layers that wait for   *)
(* parents, so a round of postponing comes to one that can be taken out;   *)
(* and when it is empty no layer has been forgotten.                       *)
QueueRunsDry ==
  /\ queue # <<>> =>
       \E l \in ToSet(queue) : l \in processed \/ IsReadyForSplitAssignment(l)
  /\ queue = <<>> => Layers \subseteq processed

(* The work queue is emptied, whatever the shape of the graph, and every   *)
(* layer has its split id then: none is left with id 0 and silently put    *)
(* into a subgraph of its own.                                             *)
Terminates == <>(queue = <<>> /\ processed = Layers)
=============================================================================
