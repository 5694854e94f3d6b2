# A TLA+ verification of Arm NN

This directory holds TLA+ models of Arm NN (the tree under `src/armnn/`), the TLC
configurations that check them on small instances, and proofs, checked by TLAPS, of what
holds for every instance. `PROJECT.json` lists every component, run, mutant, finding,
hazard and theorem, and says for every definition which lines of the source it stands for.

Paths below are relative to `src/armnn/src/` unless they say otherwise.

## 1. The system

Arm NN takes a neural network, optimizes it for a set of backends and runs it.

    parsers ──▶ INetwork (a Graph the user builds)
                    │ Optimize(): copy, passes, backends per layer, subgraphs to
                    │             backends, conversion and copy layers
                    ▼
              IOptimizedNetwork (another Graph)
                    │ IRuntime::LoadNetwork()
                    ▼
              LoadedNetwork: sorted graph, tensor handles, workloads, memory plan
                    │ IRuntime::EnqueueWorkload(), from any number of threads
                    ▼
              backends: Ref, Neon, Cl (workloads, tensor handles, memory managers,
                        and for Cl a context that outlives single networks)

| component | state | operations | talks to | hard | correct when |
|---|---|---|---|---|---|
| Runtime (`armnn/Runtime.cpp`) | id counter, map from id to network, `m_Mutex`, a thread-local last id, backend contexts | LoadNetwork, UnloadNetwork, EnqueueWorkload, destructor | LoadedNetwork, backend contexts | one mutex guards the map only: the counter, the raw pointer an inference uses and the context callbacks are outside it | an id names one network for ever; a call uses a network only while it exists; nothing leaks or waits for ever |
| LoadedNetwork | working-memory flag and mutex, memory managers, input and output queues | construct, EnqueueWorkload, FreeWorkingMemory, Execute | Runtime, workloads, memory managers | queues are rebuilt without a lock; another network's thread frees the memory; Acquire may throw | an inference has its memory to itself; results belong to the caller |
| Cl backend context | ids of loaded networks, its mutex | Before/AfterLoad, Before/AfterUnload | Runtime | decides under the lock, acts after it | the process-wide cache is cleared only when no network needs it |
| Graph, Layer, slots | list of layers, connections at both ends, cached priorities, an "in order" flag | add, insert, erase, connect, move connections, sort, substitute, allocate | everything that rewrites graphs | two copies of each connection; a sort that is skipped when a flag says so | both ends agree; inputs first, outputs last; a layer after those it reads |
| Optimizer and its optimizations | the iterator of a pass | Pass, one Run per optimization | Graph | it walks, backwards, the list that it changes | it ends, and the network still computes the same |
| SubgraphViewSelector | work queue, split ids | SelectSubgraphs | Graph, backends | a queue that re-inserts; a numeric test decides where a layer may rejoin | subgraphs have complete boundaries and can be executed one after the other |
| Tensor handles and memory plan (`MergerLayer`, `SplitterLayer`, `OutputHandler`, `Graph::AllocateDynamicBuffers`) | handles, their parents, reference counts, lifetimes | CreateTensorHandles, workload construction, Manage, Allocate | memory managers, workloads | views of views; replacing a handle destroys the old one; workloads that skip themselves | every tensor has memory that nothing else uses while it is live |
| Network.cpp (Optimize, AssignBackends, ApplyBackendOptimizations) | selected backends, graph | Optimize | Optimizer, selector, backends | a view of the graph that outlives substitutions; fall-back after partial failure | every layer has a backend that supports it; the graph is whole |
| NetworkQuantizer | range tracker, refine count | OverrideInputRange, Refine, ExportNetwork | Runtime, INetwork | inserts debug layers into the user's network | the exported network is the user's, with every range known |
| Profiling | profiler per thread, stack of events | register, begin, end | everything | a destructor acts on the current thread's profiler | events nest; a thread's profiler is alive |
| armnnUtils/GraphTopologicalSort | node states, stack | sort | TensorFlow and Caffe parsers | cycles | an order, or nothing if there is a cycle |
| parsers | tables of slots, tensors or operations, bindings, the network so far | CreateNetwork, one parsing function per operator, Cleanup | INetwork | layers made late or fused; slots connected at the end; infos computed apart from the layers; what an exception leaves | the network reads what the model says, its infos are those the layers infer, the bindings are the network's, the parser can be used again |
| serializer, deserializer | ids given so far, layers written; connections and bindings read | one function per layer type, each way | INetwork | ids are given in another order than layers are written | what is read is what was written |
| layers, layer support, queue descriptors, workload factories | none | shape inference, support rules, Validate, CreateWorkload | Optimize, LoadNetwork | four checks of one layer, none of which knows what the others have | what Optimize accepts can be loaded and run |
| reference workloads | none beyond the tensor data | one kernel per layer type | LoadedNetwork | offsets computed in nested loops, two data layouts | accesses stay inside the tensors; every element of an output is written once, from the right elements |

Within a network everything is sequential. Concurrency enters through the clients of
one `IRuntime`: `tests/ExecuteNetwork/ExecuteNetwork.cpp` runs threads on one shared
runtime. Nothing is persisted, so there is no crash recovery, and there is no messaging;
failures are exceptions and error codes between two steps of a call.

## 2. Modules

| module | models | used by |
|---|---|---|
| `LoadedNetwork` | what each member function does to one network | `Runtime` extends it |
| `ClBackendContext` | the GpuAcc context | `Runtime` extends it |
| `Runtime` | threads calling the runtime; the composition of the two above | `MCRuntime`, `RuntimeProofs` |
| `NetworkRegistry` | abstract: what `IRuntime` promises about ids | `Runtime` instantiates it |
| `MCRuntime` | symmetry for TLC | runs |
| `RuntimeProofs`, `RuntimeRefinement` | the theorems about the runtime; that it refines `NetworkRegistry` | – |
| `SubgraphViewSelector` | SelectSubgraphs | runs, `SubgraphProofs` |
| `SubgraphProofs` | the theorems about the selector | – |
| `TensorPlan` | handles, views, skipped workloads, lifetimes | runs, `TensorPlanProofs` |
| `TensorPlanProofs`, `TensorLifetimeProofs` | the theorems about handles and skipped workloads; those about lifetimes and memory | – |
| `Graph` | the graph and the operations on it | `OptimizerPass`, `Optimization` |
| `GraphProofs` | what the operations on a graph keep of it | `OptimizerPassProofs` |
| `Optimization` | how one optimization is run for the connections of a layer | `OptimizerPass`, `BackendAssignment` |
| `OptimizerPass` | building a network and the first optimization pass | `MCOptimizerPass`, `OptimizerPassProofs` |
| `OptimizerPassProofs` | the theorems about the pass | – |
| `BackendAssignment` | the rest of Optimize: types, backends, subgraphs, copies, constants | `MCBackendAssignment` |
| `Tensors` | tensor infos, shapes, offsets | all below |
| `LayerShapes` | InferOutputShapes and ValidateTensorShapesFromInputs of the layers | `LayerExecution`, `ImportedNetwork` |
| `RefLayerSupport`, `LayerSupportDispatch` | what the backends say they support | `LayerExecution` |
| `WorkloadData`, `WorkloadFactories` | Validate of the queue descriptors; the three factories | `LayerExecution` |
| `RefKernels` | the reference kernels, as what they read and write | `LayerExecution` |
| `LayerReference` | abstract: where an element of an output comes from | `LayerExecution` |
| `LayerExecution` | one layer from its description to its result; the composition of the modules above | `MCLayerExecution` |
| `ImportedNetwork` | the network an importer builds, and what the parsers share | all below |
| `TfParser`, `CaffeParser`, `TfLiteParser`, `OnnxParser` | what each step of a parser does to its state | `NetworkImport` |
| `Serializer`, `Deserializer` | the visitor; the reader | `NetworkImport` |
| `NetworkImport` | a call of a parser, the sort of its nodes, the way to a file and back | `MCNetworkImport`, `NetworkImportProofs` |
| `ImportedOperands` | what the operands of a layer come from, for the properties of `NetworkImport` | `MCNetworkImport` |
| `NetworkImportProofs` | the theorems about the sort and the steps of a call | – |
| `MCOptimizerPass`, `MCBackendAssignment`, `MCLayerExecution`, `MCNetworkImport` | the inputs of the runs | runs |

An operator whose line ends in `\* mutant` is a plausible bug in the code; it is used
only as the replacement named in `PROJECT.json` to show that a property can fail.

### Runtime, LoadedNetwork, ClBackendContext

A thread has a step counter `pc[t]`, the id it was called with (`netId`) and the
`LoadedNetwork*` it holds (`netPtr`). A step is everything between two points where
another thread can be seen to act: a lock taken or released, or a shared variable
touched with no lock. So `m_NetworkIdCounter++`, which is not atomic, is
`GenerateRead` and `GenerateWrite`; `LoadNetwork` stores under `m_Mutex` in `Store`, and
if it replaces a network, that network's destructor runs in `FreeReplaced` and `DestroyReplaced` with the
mutex still held; `UnloadNetwork` is `BeforeUnload`, `Erase`, `FreeErased`, `DestroyErased`,
`AfterUnload`, `ClearCache`; `EnqueueWorkload` is `GetNetwork`, the switch of
working memory (`SameNetwork`, `SwitchNetwork`, `FindLastNetwork`, `FreeLastNetwork`),
`FillInputs`, `FillOutputs`, and the critical section `BeginExecute`, `Allocate`,
`ExecuteWorkloads`, `FinishExecute`. `~Runtime` unloads what is loaded through the same
actions and then destroys its contexts before the networks that are left.

`~LoadedNetwork` is two steps because it is two things in the code: `FreeWorkingMemory` waits for the network's own mutex and drops it
again, and only then are the members destroyed, with nothing locked but `m_Mutex`. A call that was waiting for the network's mutex may
enter in between, acquire the memory once more and run while the members go. A thread that uses a
destroyed network, or is in an inference when its network is destroyed, may go to the step "undefined" and stays there.

Clients know the ids that some `LoadNetwork` has returned (`returnedIds`). If two loads get the same id, that may be one that the other
load has still to store, under a call that uses the network it replaces.

A tensor's value is the thread that supplied the inputs it was computed from; nothing
finer is needed to say whose results a caller gets.

Two constants describe the environment. `Faults` says which calls may fail: the
constructor, `BeforeUnloadNetwork` (OpenCL synchronisation), `Acquire`, a workload, or the
validation of a call. `Rules` says what clients promise: to load one network at
a time, not to unload a network that is being enqueued, to run one inference of a
network at a time. The interface states none of them; the runs show which are
needed for what.

`NetworkRegistry` is the specification a client has in mind: an id is unused,
then loading, then loaded, then gone, and never comes back. The refinement mapping
(`StatusOf` in `Runtime`) reads the status of an id off the map, the threads that are
loading and the ids already returned; `open` is true until the runtime has been
destroyed with everything in it.

`GetProfiler`, the tensor-info getters and `RegisterDebugCallback` only read the map and are left out.

### SubgraphViewSelector

The initial states are all graphs of `N` layers and all selections. One step takes
the head of the work queue: `Skip` (already processed), `Postpone` (a parent has no id yet,
back to the end) or `Process` (assign a split id, queue the children).
`CollectedInputs` and `CollectedOutputs` are what the two collecting functions find.
Split ids are 32-bit in the code and cannot wrap: an id is below the number of layers. The order of the children of a layer is some order (`SetToSeq`);
no proof depends on which.

### TensorPlan

`AddLayer` builds every sorted network over the kinds of layers that differ for this code:
inputs, constants, splitters, mergers, outputs, and "unary" for all the rest. Then:
`CreateTensorHandles`, layer by layer, with a merger's work queue in `SubstituteInputs`;
`CreateWorkloads`, which records the mergers and splitters that decide they have nothing
to do; and `Graph::AllocateDynamicBuffers` as `AllocateConstants`, `ManageOutputs`,
`ReleaseInputs`. A handle records its parents, because `TraceSubTensorHandleAncestry`
follows pointers, and `freed` records the handles destroyed when a slot gets a new one.
Time is the order of the plan: outputs of layer *l* at 2*l* − 1, inputs at 2*l*.

`Promises` narrows the networks, where the code is known not to cope with all:
`OutputsConnected` (no slot is unread), `ExclusiveViews` (what a merger reads through
sub-tensors is read by nothing else) and `NoSplitToMerge`. Without `ExclusiveViews` a slot
that is read by two mergers, or by a splitter and a merger, gets a new handle after others were
made from the old one, and `NoDanglingParent` fails; `MergerLayer.cpp:39-41` says
that the slots' order is all that is needed. Without `NoSplitToMerge` a splitter workload, which
asks whether its outputs have a parent and not whether it is its own input, never writes outputs
that a merger made views of its output (`SkippedAreInPlace`). Without `OutputsConnected` a slot that nothing
reads is managed with a count of 0 that is never decremented, and gets no memory (`AllTensorsAllocated`).

### Graph and OptimizerPass

`Graph` represents a graph as one record and each operation as the graph it leaves; the
connections are kept at both ends as the code keeps them, the list keeps
its three regions (inputs, others, outputs), the priorities stay cached as
`GetPriority` caches them, and `inOrder` is `m_LayersInOrder`. A layer stands for its only output
slot. A loop of the code is a function of its turns (`after[k]`), and the stable sort is the list whose
k-th layer has k − 1 layers before it, so that both can be reasoned about.

`OptimizerPass` builds every network of up to `N` layers (`AddConnectedLayer`), sorts it
(`BeginPass`) and walks it as `Optimizer::Pass` does: `Visit` steps the iterator back,
`RunOptimization` runs one optimization and erases the layer if nothing reads it, `EndVisit`
is the sort that ends the turn of the loop, and `EndPass` ends the walk. `visited` holds the layers the iterator was at. The optimizations
are the first set `Optimize` uses, except `FoldPadIntoConvolution2d`.
`OptimizeForConnection` goes over the connections of a layer while
an optimization may add to them: the model takes them at the start of the loop. Names and
observables of erased layers are not modelled.

What a network computes is `Element`: each element of each tensor as a term over
elements of the inputs. An activation or an addition acts on each element alone; a layer of kind
"other" also depends on the position and the shape, so a permute may not be moved across it.

### BackendAssignment

The user's network is built as in `OptimizerPass`, and `Begin` starts Optimize with a list of
preferred backends, a device and what the backends support. `phase` says which loop of
`Network.cpp` comes next. `AssignInGraph` and `AssignInView` are one turn of the loop of `AssignBackends`, with the conversion layers that
`FallBack` puts into the list being walked; `SelectForBackend` takes a selected backend, in any order because the set
is unordered, and computes its subgraphs as `SubgraphViewSelector` does; `Substitute` and `Fail` are what a
backend may answer for one of them: left alone, replaced in parts, failed as one or two views, or both of these, in this order ("substituted"). `ReassignSubgraph` and `EndReassign`
send the layers of a failed subgraph to other backends, and `EndOptimize` is the straight line at the end: inverse
conversions, debug layers, copies, constants. An info is reduced to its data type. What the code reads after it was deleted, and a work queue that
never runs dry, take the phase to a state the properties exclude. `KeepView` is a promise of the backends, needed because the view of the whole graph is
taken once: only the backend visited last changes the graph (finding 4). `OneAnswer` is the other: a backend does not replace parts of a subgraph
and fail others. `src/backends/README.md` allows such an answer, but for a failure the code walks the whole subgraph again,
with the layers it has just replaced and deleted; so without the promise every such answer reads freed layers.

### The layers: from a description to a result

`LayerExecution` takes one layer of any kind and data type through `InferTensorInfos`, `AssignBackend` (Optimize, which
puts one data type in the place of all the tensors' own), `GetWorkloadFactory` (which asks again, with the tensors' own), `MakeWorkload` and, for the
reference backend, `Execute`. The four checks are the four modules `LayerShapes`, `RefLayerSupport` with its dispatch, `WorkloadData` and `WorkloadFactories`;
an assertion that fails is a state of its own (a debug build). What the Compute Library accepts is a choice, `acl`.

A kernel is the set of the elements it writes, each with the elements it is computed from, in the order and
with the offsets of the code's loops. So a kernel that runs over the end of a tensor, skips an element or
swaps height and width is seen, and a wrong sum is not. `LayerReference` says the same without loops, on indices.

### The importers

A parser has a record `st`: the network so far (`ImportedNetwork`), and the tables it keeps between nodes. The modules of
the parsers have one operator per parsing function, which gives the state after it; a layer is its kind, descriptor, constants, the slots it reads and the
infos of its outputs. `NetworkImport` is the control around them: `CreateNetwork`, the sort as in `GraphTopologicalSort.hpp` (`StartTarget`, `VisitChild`,
`FinishNode`, `RefuseGraph`), one action per node and format, `FinishLoading`, `Return`; then `StartSerialize`, `VisitLayer` for each layer and
`StartDeserialize`, `ReadLayer`, `FinishDeserialize`; and `CallAgain` with the same parser. An exception, or an assertion of a debug build, ends the call in "thrown".

The handlers around a call (`TfParser.cpp:3437`, `CaffeParser.cpp:1850`, `OnnxParser.cpp:562`) catch `ParseException` alone, and clean up (`Failed`).
Everything else goes past them and leaves the parser as it is (`Uncaught`, `escaped`): the `InvalidArgumentException` of a `TensorShape` with no dimensions or more
than four, or of reading a dimension that a shape does not have (`Escapes`, `IfRank`); `std::stoi` in a TensorFlow output's name; a message that `boost::format` refuses; a
request for no outputs. The next call of the TensorFlow or the Caffe parser starts with what is left. `CallAgain` keeps a client from what would then be undefined: no
further call of an ONNX parser, and of a Caffe parser only for a model that reads tops of its own. The TensorFlow Lite parser goes on to the next operator after a
`ParseException`; others end its loop, and it cleans up when the next call starts.

Of TensorFlow: operations whose layer is created when it is first read (`MatMul`, `Mul`, `Const`), additions of a product and a constant
that become a fully connected layer, and the pattern of a leaky ReLu. Of Caffe: in-place layers and grouped convolutions. Of TensorFlow Lite and ONNX: the tables of
producers and consumers, connected at the end. Left out: reading protobuf and flatbuffers files, missing attributes, quantization
parameters, the values of constants unless a parsing function reads them (axes, shapes, paddings), and Caffe's record-by-record reader as far as it differs.

## 3. What is checked

These are the runs. A "violated" run checks one property that the
code's own documentation states and that the code does not keep.

| run | question | bounds | result |
|---|---|---|---|
| `runtime_free` | what holds whatever clients do and whatever fails? | 2 threads, 2 networks, 2 memory managers, 3 calls | an inference keeps its memory until its network is destroyed; no network leaks |
| `runtime_safe` | what holds for disciplined clients, and can calls wait for ever? | the same, 4 calls, no symmetry | unique ids, no use after unload, memory bounded by threads, own results, every call returns; refines `NetworkRegistry` |
| `runtime_concurrent_loads` | are ids unique without discipline? | as `runtime_free` | violated |
| `subgraph_select` | split ids, boundaries, acyclicity, termination | all graphs of 5 layers, ≤ 2 inputs | hold |
| `subgraph_cycle` | acyclicity with three inputs | 4 layers | violated |
| `tensor_views` | views, skipped workloads, memory plan | all networks of ≤ 6 layers | hold under the three promises |
| `optimizer_pass` | same function with the right shapes, well-formed graph, end | all networks of ≤ 6 layers | hold |
| `optimizer_order` | is a list marked sorted sorted? | 6 layers of four kinds | violated |
| `backends` | is the optimized network whole, supported, typed, and the same function? | all networks of ≤ 4 layers, 3 backends, 4 preferences, 2 devices | hold, with the promises `KeepView` and `OneAnswer` |
| `backend_views` | is the view of the graph current, without that promise? | 3 layers | violated |
| `layers` | are the checks of a layer enough for its load and its kernel? | every kind, type and backend; shapes of up to 4 dimensions | hold, but for the named exceptions |
| `import` | is what is parsed what the model says, and does it survive a file? | 1,277 models and networks, 2 calls of a parser | hold, but for the named exceptions |

An exception is an operator that a property names in a disjunct of its own (`TypesHidden`, `MisjudgedInfo`, `LosesSum`, `AsRead` ...), and a hazard in `PROJECT.json`: the
cases in which the code does not do what the property says. They are listed at the end of section 4.

### Why the bounds are enough

*Runtime.* A race of this code needs two threads, and its effects need at most two networks:
one that is switched away from or replaced and one that is switched to. Three calls
(enqueue or unload; loads are bounded by the networks, each loaded once) give a thread a first
enqueue, a switch and a concurrent call; four give also an unload followed by
a use. Two memory managers distinguish "some acquired" from "all acquired". Threads and networks
are symmetric; `runtime_safe`, which checks liveness, uses no symmetry (307,511 states). What is proved (section 5) does
not depend on these bounds.

*Subgraphs.* Every decision of `AssignSplitId` compares at most the parents of one layer, so
two inputs and five layers allow a fork, a rejoin and a change of selection on each branch;
the cycle needs three inputs and appears with four layers.

*Tensors.* Six layers hold an input, a splitter or two mergers in a chain, a
layer between them and the outputs; both with and without sub-tensors for each
view (`sub` is chosen per layer). What is proved (section 5) holds for networks of any length.

*Optimizer.* Six layers hold an input, three rewritable layers and the output, or fewer
with branches that share a parent; the six optimizations interact on three layers
(a permute moved up over an activation meets its inverse; a permute becomes a reshape that
merges with the next one). The two permutations are rotations that are each other's
inverse, the shape ⟨1,2,2⟩ has the dimension of size one that makes a rotation sometimes a
reshape and sometimes not. Networks where
a layer stays unread are not optimized: the erasure of such layers by the pass itself
appears after rewritings.

*Backends.* The fall back to Float32 needs a layer between two others; a subgraph that is replaced in parts, or fails as two views, needs two
layers; a copy needs two backends. Four layers hold an input, two of these and an output. Three backends are needed for a layer to be sent on twice.
The two members of `Supports` make a Float16 network fall back on one backend and on every one.

*Layers.* The offsets of a kernel depend on each dimension alone, so a dimension of two or three with a stride, a dilation or a
padding of one or two shows an off-by-one, a swapped pair of dimensions and a window that leaves the input; the run has, for each kind, every descriptor field that its
code branches on, in both layouts.

*Import.* Every parsing function has models for each of its branches and each refusal, with operands of each pair of ranks; the graphs
have up to four nodes that read each other in any way, cycles included, so that deferred, fused and in-place layers have none, one or two readers; a second call has a good model
whose names are those of the first.

### Fairness and deadlock

`FairSpec` of the runtime has weak fairness of each thread while it is inside a call:
threads are scheduled, and nothing forces a client to make a call. `std::mutex` is not fair, so a
thread could be overtaken for ever by others that keep calling; calls are finitely many here,
which stands in for that. `EveryCallReturns` thus says that the two mutexes are never waited for in a circle
and that no loop of a call is endless. The selector has
`WF_vars(Next)`: its thread runs. `FairSpec` of the optimizer's pass says that its one thread goes on until
the pass is over (`PassGoesOn`). That is the weak fairness of the steps of the pass, one of which can be taken whenever
`phase = "pass"` (deadlock checking shows it), written without `ENABLED`, for which TLC would have to run the optimizations
again at every state. So `PassEnds` says that there is no cycle: no optimization puts back before the iterator what another
one has taken away. `import` states the end of a call without fairness, because TLC's check of it takes hours there: no step
goes back (`EveryStepAdvances`), and deadlock checking shows that a call that has not ended can take one.

`layers` may stop where a layer is refused. `runtime_free` and `runtime_concurrent_loads` have `CHECK_DEADLOCK FALSE`: they do not ask
clients to keep unloads and inferences apart, so a thread may end in the step "undefined", which has
no next step that a specification could give it, and then the destructor cannot start. In
the other runs nothing is undefined and TLC checks that only the destroyed runtime (`Gone`) has
nothing more to do. The other modules end in explicit stuttering steps.

### What the rules and faults are needed for

- `UniqueIds` needs `SerialLoads` (finding 1). `NoUseAfterUnload` needs `NoUnloadInUse`:
  `GetLoadedNetworkPtr` returns a raw pointer, and the call that holds it may also be waiting for the network's mutex, or run an inference it
  entered in the middle of the destructor. `NoUseAfterUnload` speaks of all of these, and needs `SerialLoads` too: a `Store` under the same id destroys
  a network as an unload does. `ResultsAreOwn` needs `OneInference`: two calls on one
  network rebuild the same queues before either takes the working-memory mutex.
- `NoDoubleAcquire` does not hold with the fault "acquire": managers acquired before the one that
  throws stay acquired while the flag stays unset. `runtime_safe` leaves the fault out.
- With the fault "sync" a network can outlive the contexts: an unload that fails in
  `~Runtime` leaves it to `DestroyMembers` (a hazard; nothing in the repository promises otherwise).

## 4. Findings

1. **Ids** (`runtime_concurrent_loads`). `GenerateNetworkId` increments a plain `int` with no lock;
   `IRuntime.hpp` calls the result a unique identifier and `ExecuteNetwork` shares a runtime between
   threads. A second `Store` under the same id destroys the first network.
2. **Subgraph cycle** (`subgraph_cycle`). With three inputs `maxSelectableId > minSplitId` does not
   keep a layer from rejoining a subgraph on which another of its parents depends.
3. **Order** (`optimizer_order`). Of equal siblings of the same priority the first connected takes the
   readers of the other, even those that stand before it in the list; the list stays marked as sorted.
4. **Stale view** (`backend_views`). `ApplyBackendOptimizations` takes one view of the graph for all backends; when one has
   replaced layers, the selection for the next one reads layers that were deleted.

Exceptions of the properties of `layers`: mixed operand types that Optimize's one data type hides; copies of Boolean tensors by the accelerated backends, which say they have them and make none
(`TypesHidden`, `CopiesNotMade`); Float16 maxima and comparisons the Compute Library has but the queue descriptors do not (`HalvesRefused`); parameters that only `Validate` compares with the
shapes (`ParametersDisagree`); weights that nothing compares with the input (`WeightsFit`); a slice that goes backwards on a dropped axis (`EmptySlice`).

Exceptions of the properties of `import`: infos of broadcast differences, products and quotients, of means without `keep_dims`, and of Caffe's
unclipped poolings (`MisjudgedInfo`); an identity of a later output (`LosesOutput`), a sum of six or seven operands (`LosesSum`), a TensorFlow Lite difference with a lower second operand (`SwapsOperands`); ONNX
outputs nobody produces (`Unproduced`); the shapes of a detection in the bindings of the next model (`StaleShapes`); the info of a second output (`ReadsLaterOutput`); what the file
loses: the dilation of depthwise convolutions, SoftReLu, the type QuantisedSymm16 and its constants, the type of some reshapes (`AsRead`, `InfosAsRead`, `LosesConstant`, `moved`). Both are written out at the properties.
`NothingLeftOver` leaves out the calls that end in an exception the handlers do not catch (`escaped`): these leave everything, which is a hazard of its own in `PROJECT.json`.

The Cl cache is cleared after the decision that no network is left has been taken under another lock; this is a hazard without a property, as
nothing in the repository says otherwise.

## 5. What is proved

With no bound on threads, networks, memory managers, calls, layers of a network (also of one that is optimized), or nodes of a model:

| module | theorem | statement | under |
|---|---|---|---|
| `RuntimeProofs` | `TypeCorrect` | `Spec => []TypeOK` | any rules, any faults |
| | `InferenceKeepsMemory` | `Spec => []InferenceHasMemory` | any rules, any faults |
| | `InferencesExclude` | `Spec => []OneInferenceAtATime` | any rules, any faults |
| | `SerialLoadsUnique` | `Spec => []UniqueIds` | `SerialLoads` |
| | `NetworksAreNotLost` | `Spec => []NoNetworkLost` | any rules, any faults |
| | `AcquiredOnce` | `Spec => []NoDoubleAcquire` | no fault "acquire" |
| | `PointersStayValid` | `Spec => []NoUseAfterUnload` | `SerialLoads`, `NoUnloadInUse` |
| | `MemoryFollowsThreads` | `Spec => []WorkingMemoryIsCurrent` | `SerialLoads`, `NoUnloadInUse` |
| | `CallersGetTheirResults` | `Spec => ResultsAreOwn` | all three rules |
| | `LocksDoNotCircle` | `Spec => []NoCircularWait` | any rules, any faults |
| `RuntimeRefinement` | `RuntimeIsRegistry` | `Spec => ImplementsRegistry` | `SerialLoads`, `NoUnloadInUse` |
| `SubgraphProofs` | `SplitIdsGrowAlways` | `Spec => []SplitIdsGrow` | at most two inputs per layer |
| | `BoundariesComplete` | `Spec => []BoundaryComplete` | at most two inputs per layer |
| | `NoCycleWithTwoInputs` | `Spec => []NoCyclicSubgraphs` | at most two inputs per layer |
| | `QueueGoesOn` | `Spec => []QueueRunsDry` | at most two inputs per layer |
| `TensorPlanProofs` | `ParentsLive` | `Spec => []NoDanglingParent` | `ExclusiveViews` |
| | `SkippedInPlace` | `Spec => []SkippedAreInPlace` | `ExclusiveViews`, `NoSplitToMerge` |
| `TensorLifetimeProofs` | `LifetimesOnce` | `Spec => LifetimesHappenOnce` | `ExclusiveViews`, `OutputsConnected` |
| | `TensorsAllocated` | `Spec => []AllTensorsAllocated` | `ExclusiveViews`, `OutputsConnected` |
| | `MemoryIsFree` | `Spec => []SharedMemoryIsFree` | `ExclusiveViews`, `OutputsConnected` |
| `OptimizerPassProofs` | `GraphStaysWellFormed` | `Spec => []WellFormed` | any network |
| | `PassGoesOnce` | `Spec => NoLayerTwice` | any network |
| `NetworkImportProofs` | `SortIsInOrder` | `Spec => []SortedInOrder` | any models |
| | `CallsAdvance` | `Spec => EveryStepAdvances` | any models |
| | `NothingIsLeft` | `Spec => []NothingLeftOver` | any models |

So every safety property of the runtime, of the selector and of the tensors that a passing run checks is proved as well. The assumptions are
those named in the modules: `NoThread` and `NoNetwork` are not a thread and a network, `Rules` are client rules,
`MaxCalls` is a natural number, a graph has a layer, the kinds of layers of a network to optimize are those of `OptimizerPass`. The rules are needed: `runtime_concurrent_loads` shows it for
`SerialLoads`, `subgraph_cycle` for the two inputs. Each promise about tensors stands in the table only where it is used:
no theorem about memory needs `NoSplitToMerge`, though the run that checks it has all three.

### The invariants of the runtime

Each proof that a step keeps an invariant has one lemma per group of actions
(load, unload, enqueue, destroy) with one step per action.

- `TypeInv`. `TypeOK` is not inductive: what `Store` puts into the map comes from the thread's own id and
  pointer. `TypeInv` adds at which steps these are set.
- `MemInv`, for `InferenceHasMemory`. `HeldInv`: a thread in the critical section owns the mutex of its network and, once it has
  allocated, the memory, until the network is destroyed; and the flag is set only on acquired managers. `OwnerInv`: only one thread
  constructs a network; from then on the network has one owner, an id of the map or one thread between the map and the destructor, and only this owner destroys it. So
  two destructors never run on one network, and the frees of others cannot come after the allocation of a running inference.
  `DestroyerInv`: `~Runtime` runs alone, so `DestroyMembers` meets no inference. What `MemInv` does not say, because it is not so, is that a network
  is never destroyed under an inference: `FreeWorkingMemory` waits for the one that runs, and the next one may enter before
  the members go. Under any rules the theorem ends where the network does; that it does not end so is `NoUseAfterUnload`.
- `IdInv`, for `UniqueIds`: every id handed out or returned is below the counter, the one loading thread that
  has read the counter still holds its value, and an id under load is none that has been returned.
- `OwnedInv`, for `NoNetworkLost`: the pointer of a call that only looks at a network is dropped when the call
  returns, so "some thread points to it" is not inductive; the threads that count are those between the map and the
  destructor (`Owns`).
- `UseInv`, for `NoUseAfterUnload`: the map holds constructed networks under their own ids (`StoredInv`); an id being
  loaded is not in the map, so nothing is ever replaced (`LoadingInv`); a network being destroyed has left the map, and nobody
  enqueues or loads its id (`UnloadingInv`); therefore the pointer of a call is still that of the map (`UsingInv`), also while it waits for the network's mutex or runs its
  inference, and none of them is left for a destructor to overtake.
- `CurrentInv`, for `WorkingMemoryIsCurrent`: adds that a call has set its thread's last id before it uses a network, and that a
  network under construction, or about to be stored, has no working memory.
- `ResultInv`, for `ResultsAreOwn`: one call at a time enqueues an id, and by `UseInv` calls with different ids have
  different networks (`PointersApart`); so from `FillInputs` on the queues of a call's network are its own.
- `LockInv`, for `NoCircularWait`: it adds to `MemInv` who holds what between two steps (`MutexInv`). `m_Mutex` is held across a step only by a thread that
  is about to free or to destroy a network, the mutex of a network that is not destroyed only by the inference it serves, and that one never asks for `m_Mutex`.
  So a chain of waiting threads ends after two. This is the safety half of `EveryCallReturns`; the other half is the scheduler's.
- `AliveInv`, for the refinement: a call runs only while the runtime exists, and a network has no id before `GenerateWrite`. A step
  is `Quiet` (it touches nothing the mapping reads, so the registry stutters) or one of six that move an id: `GenerateWrite` is
  `Issue`, `Store` is `Load`, `MakeLoadedNetworkFails` is `Fail`, `Erase` is `Unload`, and the registry's `Shutdown` is `DestroyContexts`, or
  `DestroyMembers` if an unload failed before.

### The invariants of the selector

`SplitInv` adds to `SplitIdsGrow` that a layer is processed after its parents: no layer gets its id
behind the back of a child. The arithmetic is `AssignedIdGrows`: when an id is taken from a selected parent because it is
greater than the least, and there are two parents, the other one is the least and unselected. With three there may be
a third between them, which is finding 2.

`QueueInv` says why the queue forgets nobody: a layer that is not processed is in the queue, or none of its parents is processed, and the
first of them to be will queue it. When the queue is empty the least unprocessed layer would have an unprocessed parent before it
(`FirstIsReady`, `AllProcessed`). The same layer shows `QueueRunsDry`: it is in the queue and ready, so the queue is never reduced
to layers that put each other off, which is the safety half of `Terminates`. `NoCycleWithTwoInputs` then orders the nodes by split id and, within one split id, the unselected layers by
their place in the list (`FeedsGrows`): every set of nodes has a least one, and it waits for no other.

### The invariants of the tensors

`HandleInv` holds from the first layer of a network to the end of its plan:

- `NetInv`: a layer reads slots of layers before it, and the list is sorted by priority (`NetGrows`); from `LoadNetwork` on, the promises hold.
- `Forest`: the parent of a handle was made before it, and its recorded ancestors are its parent's and its parent. So views cannot form a circle, although
  `SubstituteInputs` replaces handles of layers long past.
- `DataIsCurrent`: the layers that have been visited have a handle for each slot, no two slots share one, and none of
  them was freed. It needs the next part: a merger replaces the handle of a slot, and whoever has made a view of the old one is left with a freed parent.
- `ViewsInPlace`: the inputs of a merger that took sub-tensors are views of its output unless the merger is still in the work queue
  (`Queued`); the outputs of a splitter are views of its input unless a merger has taken them; nothing else is a view.

`ExclusiveViews` enters through `OneReader`: the slot whose handle `SubstituteInputs` replaces is read by that merger alone, so nobody has a view of
the old handle but the parts of a merger one level up, and that merger is put into the queue in the same step. `NoSplitToMerge` is needed only
for `SkippedInPlace`: a splitter judges by the parents of its outputs (`NothingToDo`).

`PlanInv` counts. Of a buffer (a handle without parent, with every view of it) that is no constant's it says, at each step of the plan: its lifetime has begun
if and only if one of its slots has been visited, at the first of these (`ManagedAre`); its count is the number of reads of visited slots
still to come (`Waiting`, `CountsAre`); and it is given back at the last of them (`AllocatedAre`). It is inductive because of `Crossing`: when a buffer is written before a layer and again at or
after it, one of its reads crosses that layer, since two slots share a buffer only through splitters and mergers that
read one and write the other. Without this the count could come down to zero between two slots of a
buffer, its memory be given away, and its lifetime be begun a second time. `OutputsConnected` makes the first count of a slot more
than zero (`EverySlotRead`). `MemoryIsFree` is then about time: what a layer uses lies between the
begin and the end of its buffer (`UsedBetween`), as the inputs of a network are the first layers, which run before all others.

### The invariants of the graph

`GraphProofs` says what each operation on a graph keeps. `Linked` is about both ends of a connection: the list holds each layer
once (`Lists`), and the connections of an output slot are the input slots that read it, each once (`Wired`). `Connect`,
`Disconnect`, `MoveAllConnections`, `InsertNewLayer` and `EraseLayer` each have a lemma that they keep it, from the one
fact they share: some slots are moved from one reader's list to another (`WiredMoved`). `Regional` says that the list is inputs, others, outputs, in this
order; `RegionsAre` that the counts by which the code finds the borders are right, so that `Between` puts a layer in its region.
`Acyclic` (some ranks grow along every connection) is needed by the sort alone: priorities are defined by
recursion over the parents, and only in an acyclic graph are there such priorities (`PrioritiesExist`), with outputs above all
others (`PriorityBounds`). `LinkedSort` then is a statement about a stable sort.

`WellFormed` is not inductive. `PassInv` has three parts.

- `Whole`: the above, and every input slot is connected, to a layer that is not an output. That it stays acyclic needs an argument for each
  optimization: a rewriting gives the readers of one layer to another, and ranks are found for which the other comes no
  later than the first (`LowerRank` for equal siblings, `ParentFirst` for inverse permutes, `RankedBehind` for inserted layers).
- `AtPass`: the iterator is at a layer of the list, and between two turns every layer is read. Within a turn this fails, and what replaces it is the crux: while
  an optimization runs for the connections of a layer, all that nothing reads are children of that layer, which are erased at the
  end (`Turn`); and the layer is read, or what it reads has another reader (`Kept`), so that its own erasure
  leaves nobody unread. `Optimized` is what remains of it after the last connection, and `RunOptimized` says that each of the six optimizations comes to it.
- `Walked`: no layer the iterator was at stands before it. Layers are inserted beside the one it is at and erased anywhere, but
  those that stay keep their places (`InPlace`); and the list is never marked as out of order by a rewriting, so the sort at the end of a turn
  moves nothing. This is what `m_LayersInOrder` buys, and what finding 3 is the price of.

The library's induction theorems have an operator as parameter, so an induction along a loop is about a set: the turns at which
something holds contain 0 and with each turn the next one, and so are all of them (`ByTurns`; a set of turns has a least element).

`PassGoesOnce` is the half of termination that is proved. The other half is that the layers before the iterator run out, for which
what is inserted there would have to be bounded. Twice the layers is no bound: above a permute, every addition that reads the layer before it
at both inputs gets two more. So the end of the pass is left to `PassEnds`.

### The invariants of the importers

`SortInv`: a node is on the stack, or in the result, or on neither, and once (`VisitedOnce`); a node in the result stands behind all its inputs
(`InputsDone`), because `FinishNode` waits until none is pending; and when the layers are being parsed every target is in the result (`TargetsDone`).
The order of the parsing functions rests on it: without it a function would find no operation for an input. `CallsAdvance` is the
termination argument that stands in for liveness: every step raises the stage, or puts one more node on the stack or into the result, or moves on
in the list; a node on the stack is never pushed again, which is how cycles are refused. That there are only so many steps follows with
`SortedInOrder`: a node is listed once.

`LeftInv` follows what is in the parser from call to call. A TensorFlow, Caffe or ONNX parser is clean (`Cleaned`) whenever no call is under way, unless the last one ended
in an exception that escaped. `HandlerCleans` is the argument for a call that throws: whichever parsing function threw, what did not escape is a `ParseException`, and the
handler cleans up; `CleanupCleans` is that for one that returns. What the invariant adds is about the sort, whose refusal of a cycle throws from
the state the call began with: there the flags are known and the format is one that sorts. It needs no assumption about the models or about what an
earlier call has left, since each call starts with its own flags.

### Model-checked only

Liveness (`EveryCallReturns`, `Terminates`, `PassEnds`) is outside the prover's reach; the safety
half of each is proved (`NoCircularWait`, `QueueRunsDry`, `NoLayerTwice`). The rest of what is not proved is mostly
about what an operator computes by going through data, and that needs induction over the data. Along a loop it can be done as in
the proofs about the graph, one loop at a time; over terms and shapes it cannot.

- `OptimizerPass`: `SameFunction` compares terms (`Element`) that recurse over two graphs at once.
- `BackendAssignment`: `GraphProofs` is the base for its `WellFormed`, but a step of it folds operators of these over the whole list: copies,
  substitutions and the selection of subgraphs. `NoCyclicSubgraphs` and `BoundaryComplete` are proved of the selector itself.
- `LayerExecution`: shapes and offsets are products and sums over dimensions, and a kernel is a set computed from them. It has no loop between its steps, so there is
  no invariant to find: TLC evaluates each layer of the bounded inputs.
- The remaining properties of `NetworkImport` compare what was built by parsing functions, one operator per function of the code, over lists of operands and infos.

## 6. Not modelled, and the plan

Not modelled, and why: the arithmetic of the kernels (floating point); the Compute Library and OpenCL (external: what
they accept is a choice, what they compute is not seen); reading and writing of protobuf and flatbuffers data (generated code); `ExecutionFrame` (unused by the
others), observables (names only), build files, samples and test programs. `PROJECT.json` gives the reason for each
component and a note for each hazard that no property covers yet.

Left, in this order:

1. `NetworkQuantizer`: the life cycle over the user's network; and the registration in `Profiling`.
2. `FoldPadIntoConvolution2d`, the one optimization that is missing from `OptimizerPass`.
3. The kernels of LSTM and DetectionPostProcess, and the copies between backends.
4. The selector started from a view that is not the whole graph, except as it is used in `BackendAssignment`.
5. Quantization parameters, in the checks of a layer and in the importers.
6. Theorems about `BackendAssignment`: its `WellFormed`, on top of `GraphProofs`, with the folds of a step as functions of
   their turns; then `EveryLayerSupported` and `FailedLayersMoved`.

Hazards seen while reading in what is not modelled, beside those `PROJECT.json` lists: `FoldPadIntoConvolution2d` sets the padding of the
convolution to that of the pad layer instead of adding it (`armnn/optimizations/FoldPadIntoConvolution2d.hpp:44`); layer guids come from a static counter
that threads building networks increment at once (`armnn/Layer.cpp:156`); `NetworkQuantizer::Refine` keeps its debug layers in the user's network until `ExportNetwork` is called.
