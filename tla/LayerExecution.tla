---------------------------- MODULE LayerExecution ----------------------------
(* One layer on its way from the network a client described to its result. *)
(* InferTensorInfos compares the shapes of its outputs with those its      *)
(* inputs give; Optimize asks a backend for it, with one data type in      *)
(* place of the tensors' own; LoadNetwork asks again with the tensors' own *)
(* types and has the backend's factory make a workload; the workload of    *)
(* the reference backend then runs its kernel.  No check looks at what     *)
(* another one has: the properties say that together they are enough.      *)
EXTENDS LayerSupportDispatch, WorkloadFactories, RefKernels, LayerReference

CONSTANTS
  Layers,    \* the layers a client may describe
  Backends   \* "CpuRef", "CpuAcc", "GpuAcc": the backend Optimize tries

VARIABLES
  layer,
  backend,
  acl,      \* what the library of an accelerated backend says of it
  stage,
  writes    \* what the kernel wrote, once it has run

vars == <<layer, backend, acl, stage, writes>>

Kernel(l) ==
  CASE l.kind = "activation" -> Activation(l)
    [] l.kind \in {"addition", "subtraction", "multiplication", "division", "maximum",
                   "minimum", "equal", "greater"} -> BroadcastLoop(l)
    [] l.kind = "batchNormalization" -> BatchNormImpl(l)
    [] l.kind = "batchToSpaceNd" -> BatchToSpaceNd(l)
    [] l.kind = "constant" -> Constant(l)
    [] l.kind = "convolution2d" -> Convolve(l, FALSE)
    [] l.kind = "debug" -> Debug(l)
    [] l.kind = "depthwiseConvolution2d" -> Convolve(l, TRUE)
    [] l.kind = "dequantize" -> Dequantize(l)
    [] l.kind = "floor" -> Floor(l)
    [] l.kind = "fullyConnected" -> FullyConnected(l)
    [] l.kind = "gather" -> Gather(l)
    [] l.kind = "l2Normalization" -> L2Normalization(l)
    [] l.kind = "mean" -> Mean(l)
    [] l.kind = "merger" -> Merger(l)
    [] l.kind = "normalization" -> Normalization(l)
    [] l.kind = "pad" -> Pad(l)
    [] l.kind = "permute" -> Permute(l)
    [] l.kind = "pooling2d" -> Pooling2d(l)
    [] l.kind = "quantize" -> Quantize(l)
    [] l.kind = "reshape" -> Reshape(l)
    [] l.kind = "resizeBilinear" -> ResizeBilinear(l)
    [] l.kind = "rsqrt" -> Rsqrt(l)
    [] l.kind = "softmax" -> Softmax(l)
    [] l.kind = "spaceToBatchNd" -> SpaceToBatchNd(l)
    [] l.kind = "splitter" -> Splitter(l)
    [] l.kind = "stridedSlice" -> StridedSlice(l)

(* The copies and conversions, whose kernels are not modelled; neither are *)
(* those of the accelerated backends.                                      *)
HasKernel(l) ==
  l.kind \notin {"memCopy", "input", "output", "convertFp16ToFp32", "convertFp32ToFp16", "lstm",
                 "detectionPostProcess"}

----------------------------------------------------------------------------

Init ==
  /\ layer \in Layers /\ backend \in Backends /\ acl \in BOOLEAN
  /\ backend = "CpuRef" => ~acl
  /\ stage = "described" /\ writes = {}

(* Optimize, first of all.                                                 *)
InferTensorInfos ==
  /\ stage = "described"
  /\ stage' = IF ValidateTensorShapesFromInputs(layer) THEN "inferred" ELSE "refused"
  /\ UNCHANGED <<layer, backend, acl, writes>>

(* Layer::GetDataType gives the type of the first input.                   *)
AssignBackend ==
  LET type == KeyType(layer)
  IN /\ stage = "inferred"
     /\ stage' = CASE DispatchAsserts(layer, type) -> "aborted in Optimize"
                   [] ~DispatchAsserts(layer, type) ->
                        IF IsLayerSupported(backend, layer, type, acl) THEN "assigned" ELSE "unsupported"
     /\ UNCHANGED <<layer, backend, acl, writes>>

(* LoadNetwork's GetWorkloadFactory asserts that the layer is supported.   *)
GetWorkloadFactory ==
  /\ stage = "assigned"
  /\ stage' = IF ~DispatchAsserts(layer, None) /\ IsLayerSupported(backend, layer, None, acl)
              THEN "supported" ELSE "aborted"
  /\ UNCHANGED <<layer, backend, acl, writes>>

MakeWorkload ==
  /\ stage = "supported"
  /\ stage' = IF layer.kind \in {"input", "output"} THEN "made" ELSE CreateWorkload(backend, layer)
  /\ UNCHANGED <<layer, backend, acl, writes>>

(* Execute, and PostAllocationConfigure where that does the work.          *)
Execute ==
  /\ stage = "made" /\ backend = "CpuRef" /\ HasKernel(layer)
  /\ IF layer.kind = "gather" /\ ~GatherAsserts(layer)
     THEN stage' = "aborted in Execute" /\ UNCHANGED writes
     ELSE stage' = "executed" /\ writes' = Kernel(layer)
  /\ UNCHANGED <<layer, backend, acl>>

Next == InferTensorInfos \/ AssignBackend \/ GetWorkloadFactory \/ MakeWorkload \/ Execute

Spec == Init /\ [][Next]_vars

----------------------------------------------------------------------------

(* What Optimize lets through although no workload can be made of it.      *)

(* The data type Optimize asks with hides that the tensors' own differ; of *)
(* a quantization the reference backend lets a half through.               *)
TypesHidden(l) ==
  \/ l.kind \in {"addition", "equal"} /\ ~SameType(l.ins[1], l.ins[2])
  \/ l.kind = "quantize" /\ l.ins[1].type = "f16"

(* The accelerated backends copy tensors of every type, by their word.     *)
CopiesNotMade(l, b) ==
  l.kind = "memCopy" /\ b # "CpuRef" /\ KeyType(l) \notin {"f16", "f32", "u8"}

(* Halves their library has but the queue descriptor or the class has not. *)
HalvesRefused(l, b) ==
  l.kind \in {"maximum", "minimum", "greater"} /\ b # "CpuRef" /\ KeyType(l) = "f16"

(* Parameters only Validate compares with the shapes.                      *)
ParametersDisagree(l) ==
  \/ l.kind = "depthwiseConvolution2d"
     /\ l.consts.weight.shape[2] # l.ins[1].shape[ChannelsIndex(l.d.layout)]
  \/ l.kind = "splitter"
     /\ \E v \in DOMAIN l.outs : \E i \in DOMAIN l.d.origins[v] :
          l.d.origins[v][i] + l.outs[v].shape[i] > l.ins[1].shape[i]
  \/ l.kind = "spaceToBatchNd"
     /\ \E b \in 1 .. 2 :
          LET size == IF b = 1 THEN HeightIndex(l.d.layout) ELSE WidthIndex(l.d.layout)
          IN (l.ins[1].shape[size] + l.d.pads[b][1] + l.d.pads[b][2]) % l.d.block[b] # 0

(* A layer Optimize accepted gets its workload, except in the cases above: *)
(* LoadNetwork's assertion that the layer is supported holds, the factory  *)
(* makes a workload, Validate does not throw, and no assertion of a        *)
(* workload class fails.                                                   *)
AcceptedLayersLoad ==
  stage \in {"null", "thrown", "aborted"} =>
    \/ TypesHidden(layer) \/ CopiesNotMade(layer, backend) \/ HalvesRefused(layer, backend)
    \/ ParametersDisagree(layer)

(* Constants no check compares with the input they are applied to.         *)
WeightsFit(l) ==
  CASE l.kind = "convolution2d" ->
         l.consts.weight.shape[ChannelsIndex(l.d.layout)] = l.ins[1].shape[ChannelsIndex(l.d.layout)]
    [] l.kind = "fullyConnected" ->
         l.consts.weight.shape[IF l.d.transpose THEN 2 ELSE 1] = Product(Tail(l.ins[1].shape))
    [] OTHER -> TRUE

InfoOf(l, tensor) ==
  CASE tensor = "in1" -> l.ins[1] [] tensor = "in2" -> l.ins[2] [] OTHER -> l.consts[tensor]

(* A kernel stays inside the tensors it reads and writes, of every layer   *)
(* that passed the checks, if its weights fit its input.                   *)
AccessesInBounds ==
  stage = "executed" /\ WeightsFit(layer) =>
    \A w \in writes :
      /\ w.at \in Offsets(layer.outs[w.out].shape)
      /\ \A s \in w.from : s[1] # "zero" => s[2] \in Offsets(InfoOf(layer, s[1]).shape)

(* A slice that goes backwards on an axis it drops stops before it starts. *)
EmptySlice(l) ==
  l.kind = "stridedSlice" /\ \E i \in l.d.shrinkAxisMask : l.d.stride[i] < 0

(* A kernel leaves no element of its outputs as it found it, and computes  *)
(* none twice: what an earlier inference left in the memory of a tensor,   *)
(* or another tensor that shared it, is not read as a result.              *)
EveryElementWritten ==
  stage = "executed" /\ WeightsFit(layer) /\ ~EmptySlice(layer) =>
    \A o \in DOMAIN layer.outs :
      LET of == {w \in writes : w.out = o}
      IN /\ Offsets(layer.outs[o].shape) \subseteq {w.at : w \in of}
         /\ Cardinality(of) = Cardinality({w.at : w \in of})

(* The elements of the inputs a write is computed from; the indices of a   *)
(* gather, the constants and the mark of an empty window are not.          *)
Sources(l, w) ==
  {s \in w.from : s[1] = "in1" \/ (s[1] = "in2" /\ l.kind # "gather")}

(* A kernel that moves data puts every element where the layer's           *)
(* definition has it, in either data layout; a pooling, a convolution and  *)
(* a mean read all of the input that is under their window and nothing     *)
(* else.                                                                   *)
RightElementsRead ==
  stage = "executed" => \A w \in writes :
    LET at == IndexAt(layer.outs[w.out].shape, w.at)
    IN /\ layer.kind \in Moves => Sources(layer, w) = MovedFrom(layer, w.out, at)
       /\ layer.kind \in Reduces /\ WeightsFit(layer) => Sources(layer, w) = ReducedFrom(layer, at)
=============================================================================
