-------------------------- MODULE BackendAssignment --------------------------
(***************************************************************************)
(* armnn::Optimize (Network.cpp) from the first pass of the optimizer on:  *)
(* the network is converted to Float16 if asked, every layer is given a    *)
(* backend, with conversion layers where only Float32 is supported, then   *)
(* the backends optimize the subgraphs they were given, which replaces     *)
(* layers or sends them to other backends, and copies and debug layers are *)
(* inserted.  The graph is that of Graph.tla, with one data type for the   *)
(* info of an output slot; param is the data type of a layer's constant    *)
(* tensors, and for a replacement layer the subgraph it stands for.        *)
(***************************************************************************)
EXTENDS Optimization

CONSTANTS
  N,            \* bound: layers of the user's network
  Kinds,        \* bound: the kinds of layers in it
  Backends,     \* the backends there are
  Preferences,  \* bound: the backendPreferences the user may give
  Devices,      \* bound: the sets of backends a device may support
  Supports,     \* bound: what IsLayerSupported says, per backend: <<kind, type>> pairs
  KeepView,     \* only the backend visited last changes which layers there are
  OneAnswer     \* a backend that reports a failure replaces nothing of the subgraph

CpuRef == "CpuRef"
Types == {"f32", "f16"}
Converters == {"fp16ToFp32", "fp32ToFp16"}
Weighted == {"conv", "constant"}

ASSUME NAssumption == N \in Nat
ASSUME KindsAssumption == Kinds \subseteq {"input", "output", "addition", "permute"} \cup Weighted
ASSUME BackendsAssumption == CpuRef \in Backends
ASSUME PreferencesAssumption ==
  \A p \in Preferences : p # <<>> /\ ToSet(p) \subseteq Backends
ASSUME DevicesAssumption == Devices \subseteq SUBSET Backends
ASSUME RulesAssumption == {KeepView, OneAnswer} \subseteq BOOLEAN
ASSUME SupportsAssumption ==
  \A s \in Supports : \A b \in Backends : s[b] \subseteq
    ({"input", "output", "addition", "permute"} \cup Weighted) \X Types \cup Converters \X {"any"}

VARIABLES
  graph,       \* optGraph
  phase,       \* the step of Optimize that comes next
  source,      \* the user's network
  preferred,   \* BackendSettings::m_PreferredBackends
  device,      \* m_SupportedBackends
  support,     \* the member of Supports that the backends follow
  selected,    \* m_SelectedBackends
  ignored,     \* m_IgnoredBackends of settingsCopy, {} otherwise
  at,          \* AssignBackends: the layer its iterator is at
  rest,        \* the layers behind it, when it walks a subgraph
  mainView,    \* the layers of mainSubgraph
  todo,        \* the selected backends still to optimize for
  current,     \* the backend being asked
  views,       \* its subgraphs still to be optimized
  failures,    \* the failed subgraphs it still reports
  failedBy     \* per layer: the last backend that failed to optimize it

apply == <<mainView, todo, current, views, failures, failedBy>>
given == <<preferred, device, support, source>>
vars == <<graph, phase, selected, ignored, at, rest, apply, given>>

None_ == "none"

Init ==
  /\ graph = EmptyGraph /\ phase = "build" /\ source = EmptyGraph
  /\ preferred = <<>> /\ device = {} /\ support \in Supports
  /\ selected = {} /\ ignored = {} /\ at = None /\ rest = <<>>
  /\ mainView = <<>> /\ todo = {} /\ current = None_ /\ views = <<>>
  /\ failures = 0 /\ failedBy = <<>>

----------------------------------------------------------------------------
(* The user's network, of one data type.                                   *)

NumInputSlots(kind) ==
  CASE kind \in {"input", "constant"} -> 0 [] kind = "addition" -> 2 [] OTHER -> 1

ConnectAll(g, l, from) ==
  FoldLeftDomain(LAMBDA h, i : Connect(h, from[i], <<l, i>>), g, from)

Unread(g) == {l \in LayersOf(g) : IsOutputUnconnected(g, l)}

AddConnectedLayer ==
  /\ phase = "build"
  /\ Cardinality(LayersOf(graph)) < N
  /\ \E kind \in Kinds, type \in Types :
     \E from \in [1 .. NumInputSlots(kind) -> LayersOf(graph)] :
       LET l == Cardinality(LayersOf(graph)) + 1
           g == ConnectAll(AddLayer(graph, l, kind, type, NumInputSlots(kind)), l, from)
       IN
       /\ l = 1 => kind = "input"
       /\ l > 1 => type = graph.info[1]
       /\ kind = "input" => NumInputs(graph) = Len(graph.order)
       /\ kind = "output" \/ NumOutputs(graph) = 0
       /\ \A i \in DOMAIN from : graph.kind[from[i]] # "output"
       /\ graph' = IF kind = "output" THEN g ELSE [g EXCEPT !.info[l] = type]
       /\ Cardinality(Unread(graph')) <= N - l  \* or some stay unread
  /\ UNCHANGED <<phase, selected, ignored, at, rest, apply, given>>

(* Layer::GetDataType: the type of the first input, or of the output.      *)
GetDataType(g, l) == IF g.ins[l] # <<>> THEN g.info[g.ins[l][1]] ELSE g.info[l]

----------------------------------------------------------------------------
(* NetworkUtils.cpp.                                                       *)

InsertConvertFp16ToFp32LayersBefore(g, l) ==
  LET before(h, i) ==
        LET n == New(h)
        IN [InsertNewLayer(h, n, <<l, i>>, "fp16ToFp32", <<>>) EXCEPT !.info[n] = "f32"]
      h == FoldLeftDomain(before, g, g.ins[l])
  IN IF g.kind[l] = "output" THEN h ELSE [h EXCEPT !.info[l] = "f32"]

InsertConvertFp32ToFp16LayersAfter(g, l) ==
  LET n == New(g) IN
  IF g.kind[l] = "output" THEN g
  ELSE [InsertNewLayerAfter(g, n, l, "fp32ToFp16", <<>>) EXCEPT !.info[n] = "f16"]

InsertDebugLayerAfter(g, l) ==
  LET n == New(g)
  IN [InsertNewLayerAfter(g, n, l, "debug", <<>>)
        EXCEPT !.info[n] = g.info[l], !.backend[n] = CpuRef]

----------------------------------------------------------------------------
(* options.m_ReduceFp32ToFp16.                                             *)

ConvertFp32NetworkToFp16(g, l) ==
  LET narrowed == {p \in Parents(g, l) : g.kind[p] # "input"} \cup {l} IN
  CASE g.kind[l] = "input" ->
         IF GetDataType(g, l) = "f32" THEN InsertConvertFp32ToFp16LayersAfter(g, l) ELSE g
    [] g.kind[l] = "output" ->
         IF GetDataType(g, l) = "f32" THEN InsertConvertFp16ToFp32LayersBefore(g, l) ELSE g
    [] g.kind[l] \in Converters -> g
    [] OTHER -> [g EXCEPT !.info = [p \in narrowed |-> "f16"] @@ @]

(* The start of Optimize: the copy of the network is sorted.  The first    *)
(* pass of the optimizer is OptimizerPass.                                 *)
Begin ==
  /\ phase = "build"
  /\ LayersOf(graph) # {} /\ Unread(graph) = {}
  /\ source' = graph
  /\ \E reduceFp32ToFp16 \in BOOLEAN :
       graph' = IF reduceFp32ToFp16 THEN Pass(graph, ConvertFp32NetworkToFp16)
                ELSE TopologicalSort(graph)
  /\ preferred' \in Preferences /\ device' \in Devices
  /\ IF ToSet(preferred') \cap device' = {} THEN phase' = "error" /\ UNCHANGED at
     ELSE phase' = "assign" /\ at' = graph'.order[1]
  /\ UNCHANGED <<selected, ignored, rest, apply, support>>

----------------------------------------------------------------------------
(* AssignBackends.                                                         *)

(* IWorkloadFactory::IsLayerSupported with the backend of the layer set to *)
(* b.  Conversions have the types of their own slots.                     *)
IsLayerSupported(g, b, l, type) ==
  <<g.kind[l], IF g.kind[l] \in Converters THEN "any" ELSE type>> \in support[b]

IsCpuRefUsed == CpuRef \in device /\ CpuRef \in ToSet(preferred)

IgnoreNothing == SelectSeq(preferred, LAMBDA b : b \in device)  \* mutant

GetAvailablePreferredBackends ==
  SelectSeq(preferred, LAMBDA b : b \in device /\ b \notin ignored)

(* Only Float32 is supported: the layer gets conversions around it.        *)
FallsBackToFloat32(g, b, l) ==
  /\ ~IsLayerSupported(g, b, l, GetDataType(g, l))
  /\ GetDataType(g, l) = "f16" /\ g.kind[l] \notin Converters
  /\ IsLayerSupported(g, b, l, "f32")

IsCandidate(g, b, l) ==
  IsLayerSupported(g, b, l, GetDataType(g, l)) \/ FallsBackToFloat32(g, b, l)

PreferredFirst(b) == <<b>> \o SelectSeq(GetAvailablePreferredBackends, LAMBDA c : c # b)

FirstSuch(seq, Test(_)) ==
  LET found == SelectSeq(seq, Test) IN IF found = <<>> THEN None_ ELSE Head(found)

(* What the loop body does for a layer: the graph and the selected         *)
(* backends it leaves, and whether it found a backend.                     *)
ConvertAround(g, l) ==
  InsertConvertFp32ToFp16LayersAfter(InsertConvertFp16ToFp32LayersBefore(g, l), l)

FallBackOnOneBackend(g, b, l) ==  \* mutant
  LET h == ConvertAround(g, l) IN
  [graph |-> [h EXCEPT !.backend = [n \in {l} \cup (LayersOf(h) \ LayersOf(g)) |-> b] @@ @],
   selected |-> selected, found |-> TRUE]

FallBack(g, b, l) ==
  LET h == ConvertAround(g, l)
      convertLayers == LayersOf(h) \ LayersOf(g)
      assign(n) == FirstSuch(PreferredFirst(b), LAMBDA c : IsLayerSupported(h, c, n, "any"))
      assigned == [n \in convertLayers |-> assign(n)]
  IN [graph |-> [h EXCEPT !.backend = assigned @@ (l :> b) @@ @],
      selected |-> selected,
      found |-> \A n \in convertLayers : assigned[n] # None_]

AssignBackend(g, l) ==
  LET b == FirstSuch(GetAvailablePreferredBackends, LAMBDA c : IsCandidate(g, c, l)) IN
  CASE b = None_ ->
         [graph |-> [g EXCEPT !.backend[l] = CpuRef],
          selected |-> selected \cup {CpuRef},
          found |-> ~IsCpuRefUsed /\ g.kind[l] \in {"memCopy", "constant", "permute"}]
    [] b # None_ /\ FallsBackToFloat32(g, b, l) -> FallBack(g, b, l)
    [] OTHER ->
         [graph |-> [g EXCEPT !.backend[l] = b], selected |-> selected \cup {b}, found |-> TRUE]

(* The walk goes through the list of the graph, and so to the conversions  *)
(* inserted behind the layer it is at.                                     *)
AssignInGraph ==
  /\ phase = "assign" /\ at # None
  /\ LET r == AssignBackend(graph, at)
         pos == PosInGraph(r.graph, at)
     IN
     /\ graph' = r.graph
     /\ IF r.found
        THEN /\ selected' = r.selected
             /\ at' = IF pos = Len(r.graph.order) THEN None ELSE r.graph.order[pos + 1]
             /\ UNCHANGED phase
        ELSE phase' = "error" /\ UNCHANGED <<selected, at>>
  /\ UNCHANGED <<ignored, rest, apply, given>>

(* Conversions back and forth are bypassed.                                *)
OptimizeInverseConversions(g, e) ==
  MoveAllConnections(g, e[1], g.ins[g.ins[e[1]][1]][1])

InverseConversions(g, l) ==
  IF g.kind[l] = "fp16ToFp32"
  THEN ForConnections(g, l, {"fp16ToFp32"}, "fp32ToFp16", OptimizeInverseConversions)
  ELSE ForConnections(g, l, {"fp32ToFp16"}, "fp16ToFp32", OptimizeInverseConversions)

EndAssignViewFirst ==  \* mutant
  /\ phase = "assign" /\ at = None
  /\ graph' = Pass(graph, InverseConversions)
  /\ mainView' = graph.order
  /\ todo' = selected
  /\ phase' = "select"
  /\ UNCHANGED <<selected, ignored, at, rest, current, views, failures, failedBy, given>>

EndAssign ==
  /\ phase = "assign" /\ at = None
  /\ LET g == Pass(graph, InverseConversions) IN
     /\ graph' = g
     /\ mainView' = g.order
  /\ todo' = selected
  /\ phase' = "select"
  /\ UNCHANGED <<selected, ignored, at, rest, current, views, failures, failedBy, given>>

----------------------------------------------------------------------------
(* ApplyBackendOptimizations: SelectSubgraphs for one backend.             *)

Known == ToSet(mainView)  \* layerInfos

IsSelected(g, b, l) == g.kind[l] \notin {"input", "output"} /\ g.backend[l] = b

KnownParents(g, l) == Parents(g, l) \cap Known
Children(g, l) == {e[1] : e \in ToSet(g.outs[l])}

(* What a computation says of the layers of a list, each after those it    *)
(* reads: Of(f, l) with f what it says of the layers before l.             *)
InTurn(layers, Of(_, _)) == FoldLeft(LAMBDA f, l : (l :> Of(f, l)) @@ f, <<>>, layers)

(* The layers the work queue comes to: from the inputs and constants on,   *)
(* a layer is pushed when one of its parents has been processed, and       *)
(* processed when all of them that are known have been.                    *)
Processed(g) ==
  LET step(done, l) ==
        IF \/ g.kind[l] \in {"input", "constant"}
           \/ KnownParents(g, l) # {} /\ KnownParents(g, l) \subseteq done
        THEN done \cup {l} ELSE done
  IN FoldLeft(step, {}, mainView)

(* A layer that was pushed and never becomes ready goes round the queue    *)
(* for ever.                                                               *)
QueueNeverEmpty(g) ==
  \E l \in Processed(g) : \E c \in (Children(g, l) \cap Known) \ Processed(g) : TRUE

SplitIds(g, b) ==
  LET processed == Processed(g)
      sel(l) == IsSelected(g, b, l)
      split(id, l) ==
        LET ids == {id[p] : p \in KnownParents(g, l)}
            selectable == {id[p] : p \in {q \in KnownParents(g, l) : sel(q) /\ sel(l)}}
            newSplit == \E p \in KnownParents(g, l) : sel(p) # sel(l)
        IN CASE l \notin processed -> 0
             [] l \in processed /\ ~newSplit -> Max(ids \cup {0})
             [] newSplit /\ Max(selectable \cup {0}) > Min(ids) -> Max(selectable)
             [] OTHER -> Max(ids) + 1
  IN InTurn(mainView, split)

(* The slots at which another split id, or a layer not known, begins.      *)
ViewOf(g, b, id, split) ==
  LET layers == SelectSeq(mainView, LAMBDA l : IsSelected(g, b, l) /\ id[l] = split)
      other(l) == l \notin Known \/ id[l] # split
      slots == FlattenSeq([k \in DOMAIN layers |-> [i \in DOMAIN g.ins[layers[k]] |-> <<layers[k], i>>]])
  IN [layers |-> layers,
      ins |-> SelectSeq(slots, LAMBDA e : other(g.ins[e[1]][e[2]])),
      outs |-> SelectSeq(layers, LAMBDA l : \E c \in Children(g, l) : other(c))]

SelectSubgraphs(g, b) ==
  LET id == SplitIds(g, b)
      used == {id[l] : l \in {m \in Known : IsSelected(g, b, m)}}
      ids == SelectSeq([i \in DOMAIN mainView |-> i - 1], LAMBDA i : i \in used)
  IN [i \in DOMAIN ids |-> ViewOf(g, b, id, ids[i])]

(* Some selected backend's turn; m_SelectedBackends is an unordered set.   *)
(* A layer of mainView that is no more is read after it was deleted.       *)
SelectForBackend ==
  /\ phase = "select" /\ views = <<>>
  /\ \E b \in todo :
     /\ todo' = todo \ {b}
     /\ current' = b
     /\ IF ~ Known \subseteq LayersOf(graph) THEN phase' = "undefined" /\ UNCHANGED views
        ELSE IF QueueNeverEmpty(graph) THEN phase' = "hangs" /\ UNCHANGED views
        ELSE views' = SelectSubgraphs(graph, b) /\ UNCHANGED phase
  /\ UNCHANGED <<graph, selected, ignored, at, rest, mainView, failures, failedBy, given>>

----------------------------------------------------------------------------
(* What a backend answers for a subgraph: it is left untouched, or parts   *)
(* of it are replaced by layers of the backend, or failed, as one part or  *)
(* as two.  The substitutions come first; the failures of the same answer  *)
(* are dealt with in phase "substituted".                                  *)

Unchanged ==
  /\ phase = "select" /\ views # <<>>
  /\ views' = Tail(views)
  /\ UNCHANGED <<graph, phase, selected, ignored, at, rest, mainView, todo,
                 current, failures, failedBy, given>>

(* One layer for the whole of a part with one output slot.                 *)
PartOf(g, l) ==
  [layers |-> <<l>>, ins |-> [i \in DOMAIN g.ins[l] |-> <<l, i>>], outs |-> <<l>>]

Body(g, part) ==
  [layers |-> part.layers, slots |-> part.ins, out |-> part.outs[1],
   kind |-> Restrict(g.kind, ToSet(part.layers)),
   ins |-> Restrict(g.ins, ToSet(part.layers)),
   info |-> g.info[part.outs[1]]]

Replace(g, part) ==
  LET n == New(g)
      h == Reparent(g, n, "preCompiled", Body(g, part), Len(part.ins))
      by == [layers |-> <<n>>, ins |-> [i \in DOMAIN part.ins |-> <<n, i>>], outs |-> <<n>>]
  IN [SubstituteSubgraph(h, part, by) EXCEPT !.info[n] = g.info[part.outs[1]], !.backend[n] = current]

Parts(view) ==
  {<<view>> : v \in {w \in {view} : Len(w.outs) = 1}}
    \cup {[i \in DOMAIN s |-> PartOf(graph, s[i])] :
            s \in {SelectSeq(view.layers, LAMBDA l : l \in S) :
                     S \in (SUBSET ToSet(view.layers)) \ {{}}}}

Substitute ==
  /\ phase = "select" /\ views # <<>>
  /\ KeepView => todo = {}
  /\ \E parts \in Parts(Head(views)) : graph' = FoldLeft(Replace, graph, parts)
  /\ \E restFailed \in {FALSE, ~OneAnswer} :
       IF restFailed THEN phase' = "substituted" /\ UNCHANGED views
       ELSE views' = Tail(views) /\ UNCHANGED phase
  /\ UNCHANGED <<selected, ignored, at, rest, mainView, todo, current,
                 failures, failedBy, given>>

(* The failed subgraphs: for each, the layers of the whole subgraph are    *)
(* assigned again, with the settings of a copy that ignores the backend.   *)
Fail ==
  /\ phase \in {"select", "substituted"} /\ views # <<>>
  /\ KeepView => todo = {} \/ \A l \in ToSet(Head(views).layers) \cap LayersOf(graph) :
                               GetDataType(graph, l) = "f16" => graph.kind[l] \in Converters
  /\ failures' \in 1 .. 2
  /\ failedBy' = [l \in ToSet(Head(views).layers) |-> current] @@ failedBy
  /\ ignored' = IF current # CpuRef THEN {current} ELSE {}
  /\ phase' = "reassign"
  /\ at' = None /\ rest' = <<>>
  /\ UNCHANGED <<graph, selected, mainView, todo, current, views, given>>

ReassignSubgraph ==
  /\ phase = "reassign" /\ at = None /\ failures > 0
  /\ failures' = failures - 1
  /\ IF GetAvailablePreferredBackends = <<>> THEN phase' = "error" /\ UNCHANGED <<at, rest>>
     ELSE /\ at' = Head(Head(views).layers)
          /\ rest' = Tail(Head(views).layers)
          /\ UNCHANGED phase
  /\ UNCHANGED <<graph, selected, ignored, mainView, todo, current, views, failedBy, given>>

(* The subgraph still lists the layers that were just replaced, which are  *)
(* then read although they were deleted.                                   *)
AssignInView ==
  /\ phase = "reassign" /\ at # None
  /\ IF at \notin LayersOf(graph)
     THEN phase' = "undefined" /\ UNCHANGED <<graph, at, rest>>
     ELSE LET r == AssignBackend(graph, at) IN
          /\ graph' = r.graph
          /\ IF r.found
             THEN /\ at' = IF rest = <<>> THEN None ELSE Head(rest)
                  /\ rest' = IF rest = <<>> THEN <<>> ELSE Tail(rest)
                  /\ UNCHANGED phase
             ELSE phase' = "error" /\ UNCHANGED <<at, rest>>
  /\ UNCHANGED <<selected, ignored, apply, given>>

EndReassign ==
  /\ phase = "reassign" /\ at = None /\ failures = 0
  /\ phase' = "select"
  /\ views' = Tail(views)
  /\ ignored' = {}
  /\ UNCHANGED <<graph, selected, at, rest, mainView, todo, current, failures, failedBy, given>>

----------------------------------------------------------------------------
(* The end of Optimize: debug layers, copies, constants.                   *)

AddDebug(g, l) == IF g.kind[l] \in {"debug", "output"} THEN g ELSE InsertDebugLayerAfter(g, l)

LeaveConstants(g, l) == g  \* mutant

(* A float constant tensor takes the data type of its layer.               *)
ConvertConstants(g, l) ==
  IF g.kind[l] \in Weighted THEN [g EXCEPT !.param[l] = GetDataType(g, l)] ELSE g

EndOptimize ==
  /\ phase = "select" /\ views = <<>> /\ todo = {}
  /\ \E debug \in BOOLEAN :
       LET g == IF debug THEN Pass(graph, AddDebug) ELSE graph
       IN graph' = Pass(AddCopyLayers(g), ConvertConstants)
  /\ phase' = "done"
  /\ UNCHANGED <<selected, ignored, at, rest, apply, given>>

Stop == phase \in {"done", "error"} /\ UNCHANGED vars

(* A network some layer of which stays unread is not optimized.            *)
NotOptimized == phase = "build" /\ Unread(graph) # {} /\ UNCHANGED vars

Next ==
  \/ AddConnectedLayer \/ Begin
  \/ AssignInGraph \/ EndAssign
  \/ SelectForBackend \/ Unchanged \/ Substitute
  \/ Fail \/ ReassignSubgraph \/ AssignInView \/ EndReassign
  \/ EndOptimize \/ Stop \/ NotOptimized

Spec == Init /\ [][Next]_vars

----------------------------------------------------------------------------
(* What the outputs of a network compute, as terms over the layers of the  *)
(* user's network; a replacement computes what its subgraph did.           *)

Transparent == Converters \cup {"memCopy", "debug", "output"}

Term(kind, l, args) == IF kind \in Transparent THEN args[1] ELSE <<l>> \o args

BodyTerm(body, args) ==
  LET position(e) == CHOOSE i \in DOMAIN body.slots : body.slots[i] = e
      term(x, l) ==
        Term(body.kind[l], l,
             [i \in DOMAIN body.ins[l] |->
                IF <<l, i>> \in ToSet(body.slots) THEN args[position(<<l, i>>)]
                ELSE x[body.ins[l][i]]])
  IN InTurn(body.layers, term)[body.out]

Terms(g) ==
  LET term(x, l) ==
        LET args == [i \in DOMAIN g.ins[l] |-> x[g.ins[l][i]]]
        IN IF g.kind[l] = "preCompiled" THEN BodyTerm(g.param[l], args)
           ELSE Term(g.kind[l], l, args)
  IN InTurn(g.order, term)

----------------------------------------------------------------------------
(* Properties                                                              *)

Running == phase \notin {"undefined", "hangs"}

(* Optimize never comes back to a view of the graph that conversions or    *)
(* replacements have made stale: it reads no layer that was deleted, and   *)
(* its work queues run dry.  It is what backends/README.md:144-146 and 205 *)
(* say becomes of the subgraphs of every backend; Network.cpp:338 takes    *)
(* one view for all of them.                                               *)
ViewsStayCurrent == Running

(* While layers are inserted, replaced and moved, the list holds each layer*)
(* once, every link is known at both of its ends, every input slot stays   *)
(* connected, and the list starts with the inputs, ends with the outputs   *)
(* and can be executed in order.                                           *)
WellFormed ==
  phase # "build" /\ Running =>
    /\ ToSet(graph.order) = LayersOf(graph) /\ IsInjective(graph.order)
    /\ LinksAgree(graph)
    /\ InputsFirstOutputsLast(graph)
    /\ \A l \in LayersOf(graph) : None \notin ToSet(graph.ins[l])
    /\ TopologicallyOrdered(graph)

(* The optimized network computes what the user's network computes, but    *)
(* for the precision.                                                      *)
SameFunction ==
  phase = "done" => \A l \in LayersOf(source) : source.kind[l] = "output" =>
    l \in LayersOf(graph) /\ Terms(graph)[l] = Terms(source)[l]

(* Each layer is on a backend that supports it for the data type it now    *)
(* has: for the conversions too, and for layers assigned a second time.    *)
(* Only what no preferred backend can run falls back to CpuRef.            *)
EveryLayerSupported ==
  phase \in {"select", "done"} => \A l \in LayersOf(graph) :
    \/ graph.kind[l] \in {"memCopy", "debug", "preCompiled"}
    \/ IsLayerSupported(graph, graph.backend[l], l, GetDataType(graph, l))
    \/ /\ graph.kind[l] \in {"constant", "permute"} /\ graph.backend[l] = CpuRef
       /\ ~IsCpuRefUsed

(* Tensors pass from one backend to another only through a copy, which     *)
(* runs on the backend that reads it.                                      *)
CopiesBetweenBackends ==
  phase = "done" => \A l \in LayersOf(graph) : \A p \in Parents(graph, l) :
    graph.backend[l] # graph.backend[p] =>
      graph.kind[l] = "memCopy" /\ \A e \in ToSet(graph.outs[l]) : graph.backend[e[1]] = graph.backend[l]

(* The data types on both sides of a layer are those it was supported for: *)
(* only a conversion changes them, and the inputs and outputs of the       *)
(* network keep the types the user gave them, except for an input on a     *)
(* backend that does not have the type.                                    *)
OutputType(g, l) ==
  CASE g.kind[l] = "fp16ToFp32" -> "f32" [] g.kind[l] = "fp32ToFp16" -> "f16"
    [] g.kind[l] = "preCompiled" -> g.param[l].info
    [] OTHER -> GetDataType(g, l)

TypesAgree ==
  phase = "done" => \A l \in LayersOf(graph) :
    /\ graph.kind[l] # "output" => graph.info[l] = OutputType(graph, l)
    /\ graph.kind[l] \in Weighted => graph.param[l] = GetDataType(graph, l)
    /\ graph.kind[l] = "addition" => Cardinality({graph.info[p] : p \in Parents(graph, l)}) = 1
    /\ graph.kind[l] = "fp16ToFp32" => GetDataType(graph, l) = "f16"
    /\ graph.kind[l] = "fp32ToFp16" => GetDataType(graph, l) = "f32"
    /\ graph.kind[l] \in {"input", "output"} =>
         \/ GetDataType(graph, l) = GetDataType(source, l)
         \/ /\ graph.kind[l] = "input"
            /\ ~IsLayerSupported(source, graph.backend[l], l, GetDataType(source, l))

(* "Failed to optimize the given sub-graph, re-assign the sub-graph layers *)
(* to other available backends" (Network.cpp:388): no layer stays on the   *)
(* backend that was the last to fail on it.                                *)
FailedLayersMoved ==
  phase = "done" => \A l \in DOMAIN failedBy :
    l \in LayersOf(graph) => graph.backend[l] # failedBy[l] \/ failedBy[l] = CpuRef
=============================================================================
