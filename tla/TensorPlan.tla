----------------------------- MODULE TensorPlan -----------------------------
(***************************************************************************)
(* Where the tensors of a loaded network live.  The LoadedNetwork          *)
(* constructor walks the sorted graph and creates a tensor handle for      *)
(* every output slot; mergers and splitters turn the handles of their      *)
(* neighbours into sub-tensors (MergerLayer, SplitterLayer).  Then the     *)
(* workloads are made, of which some decide that they have nothing to do,  *)
(* and Graph::AllocateDynamicBuffers tells the memory manager from where   *)
(* to where each buffer is needed; buffers whose lifetimes do not overlap  *)
(* share memory.                                                           *)
(*                                                                         *)
(* All layers run on one backend (copy layers separate the backends).      *)
(***************************************************************************)
EXTENDS Integers, Sequences, FiniteSets

CONSTANTS
  N,           \* bound: layers of the network
  Kinds,       \* bound: the kinds of layers in it
  SubTensors,  \* IWorkloadFactory::SupportsSubTensors (Neon and OpenCL: TRUE)
  Promises     \* what the network is known not to do, see KeepsPromises

ASSUME NAssumption == N \in Nat \ {0}
ASSUME SubTensorsAssumption == SubTensors \in BOOLEAN
ASSUME PromisesAssumption ==
  Promises \subseteq {"OutputsConnected", "ExclusiveViews", "NoSplitToMerge"}
ASSUME KindsAssumption ==
  Kinds \subseteq {"input", "constant", "unary", "splitter", "merger", "output"}

----------------------------------------------------------------------------
(* The sorted graph.  A layer has a kind, the output slots its inputs are  *)
(* connected to, whether sub-tensors of the right type and shape exist for *)
(* it, and its priority in the order.  "unary" stands for every layer with *)
(* one input and one output.                                               *)

NumOutputs(kind) ==
  CASE kind = "output" -> 0 [] kind = "splitter" -> 2 [] OTHER -> 1

SlotsOf(g) == {s \in (1 .. Len(g)) \X (1 .. 2) : s[2] <= NumOutputs(g[s[1]].kind)}

Connections(g, s) ==
  {e \in (1 .. Len(g)) \X (1 .. 2) : e[2] <= Len(g[e[1]].ins) /\ g[e[1]].ins[e[2]] = s}

Priority(g, kind, ins) ==  \* Layer::GetPriority
  CASE kind = "input" -> 0
    [] kind = "output" -> N + 1
    [] OTHER -> 1 + (CHOOSE p \in 0 .. N :
                       /\ p \in {g[ins[i][1]].prio : i \in DOMAIN ins} \cup {0}
                       /\ \A i \in DOMAIN ins : g[ins[i][1]].prio <= p)

(* The optimizer erases a layer none of whose outputs is connected.        *)
(* Promises narrow the networks further:                                   *)
(*   OutputsConnected       every output slot is connected;                *)
(*   ExclusiveViews         what a merger reads through sub-tensors is     *)
(*                          read by nothing else;                          *)
(*   NoSplitToMerge         no merger reads the output of a splitter.      *)
Unread(g) ==
  IF "OutputsConnected" \in Promises
  THEN {s \in SlotsOf(g) : Connections(g, s) = {}}
  ELSE {l \in DOMAIN g : /\ NumOutputs(g[l].kind) > 0
                         /\ \A s \in SlotsOf(g) : s[1] = l => Connections(g, s) = {}}

KeepsPromises(g) ==
  \A m \in DOMAIN g : g[m].kind = "merger" => \A i \in 1 .. 2 :
    /\ "ExclusiveViews" \in Promises /\ g[m].sub =>
         Cardinality(Connections(g, g[m].ins[i])) = 1
    /\ "NoSplitToMerge" \in Promises => g[g[m].ins[i][1]].kind # "splitter"

----------------------------------------------------------------------------
VARIABLES
  net,           \* the layers of the sorted graph
  phase,         \* "build", "handles", "constants", "outputs", "inputs",
                 \* "ready"; "undefined" once a dangling handle was used
  cur,           \* the layer a loop over the graph is at
  mergers,       \* m_MergerLayers of MergerLayer::CreateTensorHandles
  handles,       \* every tensor handle made, in order: parents and view
  freed,         \* those destroyed by OutputHandler::SetData
  data,          \* OutputHandler::m_TensorHandle of every output slot
  skipped,       \* mergers and splitters whose workload does nothing
  preallocated,  \* preallocatedTensors
  refs,          \* handleReferenceCounts
  managed,       \* when Manage() was called on a handle, or 0
  allocated      \* when Allocate() was called on a handle, or 0

vars == <<net, phase, cur, mergers, handles, freed, data, skipped,
          preallocated, refs, managed, allocated>>

handleVars == <<mergers, handles, freed, data, skipped>>
planVars == <<preallocated, refs, managed, allocated>>

Layers == DOMAIN net
Slots == SlotsOf(net)
OutputSlots(l) == {s \in Slots : s[1] = l}
InputSlots(l) == {<<l, i>> : i \in DOMAIN net[l].ins}
Source(e) == net[e[1]].ins[e[2]]  \* GetConnectedOutputSlot

Init ==
  /\ net = <<>>
  /\ phase = "build"
  /\ cur = 1
  /\ mergers = <<>>
  /\ handles = <<>>
  /\ freed = {}
  /\ data = <<>>
  /\ skipped = {}
  /\ preallocated = {}
  /\ refs = <<>>
  /\ managed = <<>>
  /\ allocated = <<>>

----------------------------------------------------------------------------
(* The network to load: its sorted layers, one after the other.            *)

Shapes ==  \* kind, inputs, whether sub-tensors are possible
  ({"input", "constant"} \X {<<>>} \X {FALSE}) \cup
  ({"unary", "output"} \X {<<s>> : s \in Slots} \X {FALSE}) \cup
  ({"splitter"} \X {<<s>> : s \in Slots} \X {FALSE, SubTensors}) \cup
  ({"merger"} \X (Slots \X Slots) \X {FALSE, SubTensors})

AddLayer ==
  /\ phase = "build"
  /\ Len(net) < N
  /\ \E x \in {y \in Shapes : y[1] \in Kinds} :
       LET prio == Priority(net, x[1], x[2]) IN
       /\ \A l \in Layers : net[l].prio <= prio
       /\ net' = Append(net, [kind |-> x[1], ins |-> x[2], sub |-> x[3], prio |-> prio])
       /\ KeepsPromises(net')
       /\ Cardinality(Unread(net')) <= N - Len(net')  \* or some stay unread
  /\ UNCHANGED <<phase, cur, handleVars, planVars>>

Load ==
  /\ phase = "build"
  /\ net # <<>>
  /\ Unread(net) = {}
  /\ phase' = "handles"
  /\ data' = [s \in Slots |-> 0]
  /\ UNCHANGED <<net, cur, mergers, handles, freed, skipped, planVars>>

(* A network that is not complete stays unloaded.                          *)
NotLoaded == phase = "build" /\ Unread(net) # {} /\ UNCHANGED vars

----------------------------------------------------------------------------
(* Tensor handles.  A handle knows its parents: of a sub-tensor, the       *)
(* tensor it is a view of, and that tensor's parents.                      *)

TensorHandle == [view |-> 0, parent |-> 0, ancestors |-> {}]
SubTensorHandle(p, i) ==
  [view |-> i, parent |-> p, ancestors |-> handles[p].ancestors \cup {p}]

(* TraceSubTensorHandleAncestry: an ancestor is older than its children.   *)
Root(h) == CHOOSE r \in handles[h].ancestors \cup {h} : handles[r].parent = 0

Dangling(h) == handles[h].ancestors \cap freed # {}

(* OutputHandler::SetData for slot after slot: each new handle destroys    *)
(* the one that was there.                                                 *)
SetData(slots, new) ==
  LET at(s) == {i \in DOMAIN slots : slots[i] = s}
      last(s) == CHOOSE i \in at(s) : \A j \in at(s) : j <= i
      made == {Len(handles) + i : i \in DOMAIN slots}
      kept == {Len(handles) + last(s) : s \in {slots[i] : i \in DOMAIN slots}}
  IN
  /\ handles' = handles \o new
  /\ data' = [s \in Slots |-> IF at(s) = {} THEN data[s] ELSE Len(handles) + last(s)]
  /\ freed' = freed \cup (made \ kept) \cup ({data[slots[i]] : i \in DOMAIN slots} \ {0})

OwnSlots(l) == [i \in 1 .. NumOutputs(net[l].kind) |-> <<l, i>>]

OwnHandles(l) == SetData(OwnSlots(l), [i \in DOMAIN OwnSlots(l) |-> TensorHandle])

ViewsOfInput(l) ==
  SetData(OwnSlots(l),
          [i \in DOMAIN OwnSlots(l) |-> SubTensorHandle(data[net[l].ins[1]], i)])

ViewsReversed(m) ==  \* mutant
  SetData(net[m].ins,
          [i \in DOMAIN net[m].ins |-> SubTensorHandle(data[<<m, 1>>], 3 - i)])

ViewsOfOutput(m) ==
  SetData(net[m].ins,
          [i \in DOMAIN net[m].ins |-> SubTensorHandle(data[<<m, 1>>], i)])

(* Layer::CreateTensorHandles of the next layer.  A splitter makes its     *)
(* outputs views of its input.  A merger goes on in SubstituteInputs.      *)
CreateTensorHandles ==
  /\ phase = "handles"
  /\ mergers = <<>>
  /\ cur <= Len(net)
  /\ IF net[cur].kind = "splitter" /\ net[cur].sub
     THEN ViewsOfInput(cur) ELSE OwnHandles(cur)
  /\ mergers' = IF net[cur].kind = "merger" /\ SubTensors THEN <<cur>> ELSE <<>>
  /\ cur' = cur + 1
  /\ UNCHANGED <<net, phase, skipped, planVars>>

MergersNotFollowed(slots) == <<>>  \* mutant
MergerOf(s) == IF net[s[1]].kind = "merger" THEN <<s[1]>> ELSE <<>>
MergersAmong(slots) == MergerOf(slots[1]) \o MergerOf(slots[2])

(* A merger makes its inputs views of its output, and so on through the    *)
(* mergers among its inputs, unless a view of some input is impossible.    *)
SubstituteInputs ==
  /\ mergers # <<>>
  /\ LET m == Head(mergers) IN
       IF net[m].sub
       THEN /\ ViewsOfOutput(m)
            /\ mergers' = Tail(mergers) \o MergersAmong(net[m].ins)
       ELSE mergers' = Tail(mergers) /\ UNCHANGED <<handles, freed, data>>
  /\ UNCHANGED <<net, phase, cur, skipped, planVars>>

----------------------------------------------------------------------------
(* Workloads: the merger and the splitter of Neon and OpenCL configure     *)
(* nothing when their inputs, or outputs, are all sub-tensors.             *)

AllSubTensors(slots) == \A s \in slots : handles[data[s]].parent # 0

HasNothingToDo(l) ==
  \/ net[l].kind = "merger" /\ AllSubTensors({net[l].ins[i] : i \in 1 .. 2})
  \/ net[l].kind = "splitter" /\ AllSubTensors(OutputSlots(l))

CreateWorkloads ==
  /\ phase = "handles"
  /\ mergers = <<>>
  /\ cur > Len(net)
  /\ phase' = "constants"
  /\ skipped' = {l \in Layers : HasNothingToDo(l)}
  /\ managed' = [h \in DOMAIN handles |-> 0]
  /\ allocated' = [h \in DOMAIN handles |-> 0]
  /\ UNCHANGED <<net, cur, mergers, handles, freed, data, preallocated, refs>>

----------------------------------------------------------------------------
(* Graph::AllocateDynamicBuffers.  The outputs of layer l are counted at   *)
(* time 2l - 1, its inputs are discounted at time 2l.                      *)

RootsWithConstants(slots) == {Root(data[s]) : s \in slots}  \* mutant
Roots(slots) == {Root(data[s]) : s \in slots} \ preallocated

(* The ancestry of a handle whose parent was destroyed is followed.        *)
UseDangling(slots, next) ==
  IF \E s \in slots : Dangling(data[s])
  THEN phase' = "undefined" /\ UNCHANGED <<net, cur, handleVars, planVars>>
  ELSE next

ConstantSlots == {s \in Slots : net[s[1]].kind = "constant"}

AllocateConstants ==
  /\ phase = "constants"
  /\ UseDangling(ConstantSlots,
       /\ preallocated' = {Root(data[s]) : s \in ConstantSlots}
       /\ phase' = "outputs"
       /\ cur' = 1
       /\ UNCHANGED <<net, handleVars, refs, managed, allocated>>)

CountConnections(r, slots) ==
  Cardinality({e \in Layers \X (1 .. 2) :
                 \E s \in slots : Root(data[s]) = r /\ e \in Connections(net, s)})

CountedOnce(r, slots) == Cardinality({s \in slots : Root(data[s]) = r})  \* mutant
CountedWithItself(r, slots) == CountConnections(r, slots) + 1  \* mutant

NewReferences(r, slots) == CountConnections(r, slots)

ManageOutputs ==
  /\ phase = "outputs"
  /\ cur <= Len(net)
  /\ UseDangling(OutputSlots(cur),
       LET roots == Roots(OutputSlots(cur)) IN
       /\ refs' = [r \in DOMAIN refs \cup roots |->
                     (IF r \in DOMAIN refs THEN refs[r] ELSE 0)
                     + (IF r \in roots THEN NewReferences(r, OutputSlots(cur)) ELSE 0)]
       /\ managed' = [h \in DOMAIN handles |->
                        IF h \in roots \ DOMAIN refs THEN 2 * cur - 1 ELSE managed[h]]
       /\ phase' = "inputs"
       /\ UNCHANGED <<net, cur, handleVars, preallocated, allocated>>)

(* A count that is not there starts at 0 and wraps below it.               *)
ReleaseInputs ==
  /\ phase = "inputs"
  /\ UseDangling({Source(e) : e \in InputSlots(cur)},
       LET roots == Roots({Source(e) : e \in InputSlots(cur)})
           left(r) == (IF r \in DOMAIN refs THEN refs[r] ELSE 0)
                      - Cardinality({e \in InputSlots(cur) : Root(data[Source(e)]) = r})
           done == {r \in roots : left(r) = 0}
       IN
       /\ refs' = [r \in (DOMAIN refs \cup roots) \ done |->
                     IF r \in roots THEN left(r) ELSE refs[r]]
       /\ allocated' = [h \in DOMAIN handles |->
                          IF h \in done THEN 2 * cur ELSE allocated[h]]
       /\ phase' = IF cur = Len(net) THEN "ready" ELSE "outputs"
       /\ cur' = cur + 1
       /\ UNCHANGED <<net, handleVars, preallocated, managed>>)

Done == phase \in {"ready", "undefined"} /\ UNCHANGED vars

Next ==
  \/ AddLayer \/ Load \/ NotLoaded
  \/ CreateTensorHandles \/ SubstituteInputs \/ CreateWorkloads
  \/ AllocateConstants \/ ManageOutputs \/ ReleaseInputs
  \/ Done

Spec == Init /\ [][Next]_vars

----------------------------------------------------------------------------
(* Properties                                                              *)

Handles == DOMAIN handles

(* When a layer has its handles, no handle in use is a view of one that    *)
(* was destroyed: making the outputs of the previous layers sub-tensors    *)
(* "just needs" that and nothing else of the graph (MergerLayer.cpp:39-41).*)
NoDanglingParent ==
  mergers = <<>> =>
    \A s \in DOMAIN data : data[s] # 0 => ~Dangling(data[s])

(* "Allocates memory for all tensors under output tensor handers of each   *)
(* layer" (Graph.hpp:189): when the plan is ready every tensor of the      *)
(* network has memory.                                                     *)
AllTensorsAllocated ==
  phase = "ready" =>
    \A s \in Slots : Root(data[s]) \in preallocated \/ allocated[Root(data[s])] # 0

(* A merger or splitter that does nothing does so because its inputs, or   *)
(* outputs, are already in their places in one buffer: view i of its       *)
(* output, or of its input (NeonConcatWorkload.cpp, "it's not executed").  *)
SkippedAreInPlace ==
  \A l \in skipped :
    \A i \in 1 .. 2 :
      LET whole == IF net[l].kind = "merger" THEN <<l, 1>> ELSE net[l].ins[1]
          part == IF net[l].kind = "merger" THEN net[l].ins[i] ELSE <<l, i>>
      IN handles[data[part]].parent = data[whole] /\ handles[data[part]].view = i

(* When the layers run: the inputs are all copied in before the first      *)
(* workload, the outputs all copied out after the last.                    *)
RunTime(l) ==
  CASE net[l].kind = "input" -> 0 [] net[l].kind = "output" -> N + 1 [] OTHER -> l

UseTimes(r) ==
  {RunTime(s[1]) : s \in {t \in Slots : Root(data[t]) = r}} \cup
  {RunTime(e[1]) : e \in {f \in Layers \X (1 .. 2) :
                           f[2] \in DOMAIN net[f[1]].ins /\ Root(data[Source(f)]) = r}}

(* Buffers with lifetimes one after the other may get the same memory.     *)
MayShareMemory(a, b) ==
  /\ {a, b} \cap preallocated = {}
  /\ allocated[a] # 0
  /\ allocated[a] < managed[b]

(* What shares memory is never in use at once: of two buffers that may     *)
(* share it, the last write or read of the one comes before the first of   *)
(* the other, in the order in which the workloads, and the copies in and   *)
(* out, really run.                                                        *)
SharedMemoryIsFree ==
  phase = "ready" =>
    \A a, b \in {Root(data[s]) : s \in Slots} : MayShareMemory(a, b) =>
      \A t \in UseTimes(a), u \in UseTimes(b) : t < u

LifetimeMovesOn(h) ==
  /\ managed[h] # 0 => managed'[h] = managed[h]
  /\ allocated[h] # 0 => allocated'[h] = allocated[h]
  /\ allocated'[h] # 0 => managed'[h] # 0
  /\ h \in preallocated => managed'[h] = 0

LifetimesMoveOn ==
  phase \in {"outputs", "inputs"} => \A h \in Handles : LifetimeMovesOn(h)

(* A lifetime, once begun, is not begun again, and once ended is not ended *)
(* again: no count reaches 0 with a reader still to come.  The memory of a *)
(* constant has no lifetime: the memory manager never hands it out.        *)
LifetimesHappenOnce ==
  [][LifetimesMoveOn]_vars

=============================================================================
