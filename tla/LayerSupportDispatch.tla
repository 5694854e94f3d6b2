------------------------- MODULE LayerSupportDispatch -------------------------
(* IWorkloadFactory::IsLayerSupported: what a backend is asked of a layer,  *)
(* with the data type Optimize gives it in place of the tensors' own, and   *)
(* what the accelerated backends (NeonLayerSupport, ClLayerSupport) answer. *)
EXTENDS RefLayerSupport

None == "none"  \* no data type: the tensors' own count

OverrideDataType(info, type) == IF type = None THEN info ELSE [info EXCEPT !.type = type]

(* The type of a bias, where there is one: any other type is a failed      *)
(* assertion.                                                              *)
GetBiasTypeFromWeightsType(type) ==
  CASE type \in {None, "f16", "f32"} -> type [] OTHER -> "i32"

BiasAsserts(l, type) ==
  /\ l.kind \in {"convolution2d", "depthwiseConvolution2d", "fullyConnected"} /\ l.d.bias
  /\ type \notin {None, "f16", "f32", "u8"}

FullyConnectedAsserts(l) ==
  l.kind = "fullyConnected" /\ ~l.d.bias /\ l.ins[1].type \notin {"f16", "f32", "u8"}

DispatchAsserts(l, type) == BiasAsserts(l, type) \/ FullyConnectedAsserts(l)

OverrideAll(infos, type) == [i \in DOMAIN infos |-> OverrideDataType(infos[i], type)]

(* The layers whose tensors are shown as they are.                         *)
ShownAsTheyAre == {"convertFp16ToFp32", "convertFp32ToFp16", "detectionPostProcess", "quantize"}

ShownOutputs(l, type) ==
  CASE l.kind = "dequantize" -> OverrideAll(l.outs, "f32")
    [] l.kind = "greater" -> OverrideAll(l.outs, "bool")
    [] l.kind = "merger" -> l.outs
    [] OTHER -> OverrideAll(l.outs, type)

ShownConstants(l, type) ==
  [t \in DOMAIN l.consts |->
     OverrideDataType(l.consts[t], IF t = "bias" THEN GetBiasTypeFromWeightsType(type) ELSE type)]

Shown(l, type) ==
  IF l.kind \in ShownAsTheyAre THEN l
  ELSE [l EXCEPT !.ins = OverrideAll(l.ins, type), !.outs = ShownOutputs(l, type),
                 !.consts = ShownConstants(l, type)]

----------------------------------------------------------------------------
(* The accelerated backends.  What the library they are built on says of a *)
(* layer is not this program's: acl is its answer, and it never accepts a  *)
(* type it does not have, nor one other than the floats for these kinds.   *)
AclFloatsOnly ==
  {"batchNormalization", "floor", "l2Normalization", "normalization", "lstm", "division",
   "convertFp16ToFp32", "convertFp32ToFp16"}

AclValidates(l, acl) ==
  /\ acl
  /\ \A info \in ToSet(l.ins) \cup ToSet(l.outs) :
       info.type \in {"f16", "f32", "bool"} \cup (IF l.kind \in AclFloatsOnly THEN {} ELSE {"u8"})
  /\ \A info \in ToSet(l.ins) : info.type # "bool"

FloatOrUint8 == {"f16", "f32", "u8"}

NeonForwards ==
  {"activation", "addition", "batchNormalization", "convolution2d", "depthwiseConvolution2d",
   "fullyConnected", "greater", "l2Normalization", "maximum", "mean", "minimum", "multiplication",
   "normalization", "pad", "permute", "pooling2d", "resizeBilinear", "softmax", "subtraction"}

IsTypeSpaceMatch(a, b) == a.type = b.type

(* Along the batches the parts are sub-tensors of the whole.               *)
AccelIsMergerSupported(l, acl) ==
  LET inner == Len(l.d.origins[1]) - l.d.axis
  IN /\ l.d.axis <= Len(l.d.origins[1])
     /\ \/ inner < 3 /\ AclValidates(l, acl)
        \/ inner = 3 /\ \A v \in DOMAIN l.ins : IsTypeSpaceMatch(l.outs[1], l.ins[v])

ComputeSplitAxis(l) ==
  {i \in DOMAIN l.ins[1].shape : \E v \in DOMAIN l.outs : l.outs[v].shape[i] # l.ins[1].shape[i]}

AccelIsSplitterSupported(l, acl) ==
  IF Rank(l.ins[1]) > 2 /\ ComputeSplitAxis(l) = {Rank(l.ins[1])} THEN AclValidates(l, acl)
  ELSE \A v \in DOMAIN l.outs : IsTypeSpaceMatch(l.ins[1], l.outs[v])

NeonIsLayerSupported(l, acl) ==
  CASE l.kind \in NeonForwards -> AclValidates(l, acl)
    [] l.kind = "constant" -> l.outs[1].type \in FloatOrUint8
    [] l.kind = "input" -> l.outs[1].type \in FloatOrUint8
    [] l.kind = "output" -> l.ins[1].type \notin {"i32", "s16"}
    [] l.kind = "reshape" -> l.ins[1].type \in FloatOrUint8
    [] l.kind = "floor" -> l.ins[1].type = "f32" /\ l.outs[1].type = "f32"
    [] l.kind \in {"memCopy", "convertFp16ToFp32", "convertFp32ToFp16"} -> TRUE
    [] l.kind = "merger" -> AccelIsMergerSupported(l, acl)
    [] l.kind = "splitter" -> AccelIsSplitterSupported(l, acl)
    [] OTHER -> DefaultLayerSupport(l)

ClForwards ==
  (NeonForwards \ {"resizeBilinear"})
    \cup {"batchToSpaceNd", "convertFp16ToFp32", "convertFp32ToFp16", "division", "lstm",
          "spaceToBatchNd", "stridedSlice"}

ClIsLayerSupported(l, acl) ==
  CASE l.kind \in ClForwards -> AclValidates(l, acl)
    [] l.kind = "constant" -> l.outs[1].type \in {"f16", "f32"}
    [] l.kind = "input" -> l.outs[1].type \in FloatOrUint8
    [] l.kind = "output" -> l.ins[1].type \notin {"i32", "s16"}
    [] l.kind = "resizeBilinear" -> l.ins[1].type \in {"f16", "f32"}
    [] l.kind = "floor" -> l.ins[1].type = "f32" /\ l.outs[1].type = "f32"
    [] l.kind \in {"memCopy", "reshape"} -> TRUE
    [] l.kind = "merger" -> AccelIsMergerSupported(l, acl)
    [] l.kind = "splitter" -> AccelIsSplitterSupported(l, acl)
    [] OTHER -> DefaultLayerSupport(l)

IsLayerSupported(backend, l, type, acl) ==
  CASE backend = "CpuRef" -> RefIsLayerSupported(Shown(l, type))
    [] backend = "CpuAcc" -> NeonIsLayerSupported(Shown(l, type), acl)
    [] backend = "GpuAcc" -> ClIsLayerSupported(Shown(l, type), acl)
=============================================================================
