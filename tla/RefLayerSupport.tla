--------------------------- MODULE RefLayerSupport ---------------------------
(* RefLayerSupport.cpp: the layers the reference backend says it runs.     *)
EXTENDS Tensors

TypeAnyOf(infos, types) == \A info \in infos : info.type \in types

TypesAreEqual(infos) == Cardinality({info.type : info \in infos}) = 1

IsSupportedForAnyType(info) == info.type \in {"f32", "u8", "s16"}  \* mutant: a branch for QuantisedSymm16

(* Supported for Float32 and for QuantisedAsymm8; the generic test has no  *)
(* branch for QuantisedSymm16.                                             *)
IsSupportedForDataTypeRef(info) == info.type \in {"f32", "u8"}
SupportedForFloat32(info) == info.type = "f32"

QuantizedOrFloat == {"f32", "u8", "s16"}

(* Every tensor has the same one of the three types.                       *)
OneType(infos) == TypeAnyOf(infos, QuantizedOrFloat) /\ TypesAreEqual(infos)

ShapesAreSameTotalSize(a, b) == NumElements(a) = NumElements(b)

(* A shape of a smaller rank is taken to begin with ones.                  *)
ShapesAreBroadcastCompatible(first, second, out) ==
  \A i \in DOMAIN out.shape : \A input \in {first, second} :
    LET j == i - (Rank(out) - Rank(input)) IN j >= 1 => input.shape[j] \in {1, out.shape[i]}

IsElementwiseSupported(l) ==
  /\ OneType({l.ins[1], l.ins[2], l.outs[1]})
  /\ ShapesAreBroadcastCompatible(l.ins[1], l.ins[2], l.outs[1])

IsAdditionSupported(l) == IsElementwiseSupported(l)
IsDivisionSupported(l) == IsElementwiseSupported(l)
IsMaximumSupported(l) == IsElementwiseSupported(l)
IsMinimumSupported(l) == IsElementwiseSupported(l)
IsMultiplicationSupported(l) == IsElementwiseSupported(l)
IsSubtractionSupported(l) == IsElementwiseSupported(l)

(* Every ActivationFunction the library has is on the list.                *)
IsActivationSupported(l) ==
  OneType({l.ins[1], l.outs[1]}) /\ Rank(l.ins[1]) = Rank(l.outs[1])

IsConstantSupported(l) == TypeAnyOf({l.outs[1]}, QuantizedOrFloat \cup {"i32"})

IsConvertFp16ToFp32Supported(l) == l.ins[1].type = "f16" /\ l.outs[1].type = "f32"
IsConvertFp32ToFp16Supported(l) == l.ins[1].type = "f32" /\ l.outs[1].type = "f16"

IsConvolution2dSupported(l) ==
  /\ OneType({l.ins[1], l.outs[1], l.consts.weight})
  /\ l.d.bias => TypeAnyOf({l.consts.bias}, {"f32", "i32"} \cup {"f16"})

IsMergerSupported(l) == OneType(ToSet(l.ins) \cup {l.outs[1]})

(* A std::array of two types with one initialiser: the other element is    *)
(* zero, which is the enumerator Float16.                                  *)
Float32AndZero == {"f32", "f16"}

IsDequantizeSupported(l) ==
  /\ TypeAnyOf({l.ins[1]}, {"u8", "s16"}) /\ TypeAnyOf({l.outs[1]}, Float32AndZero)
  /\ ShapesAreSameTotalSize(l.ins[1], l.outs[1])

IsQuantizeSupported(l) ==
  /\ TypeAnyOf({l.ins[1]}, Float32AndZero) /\ TypeAnyOf({l.outs[1]}, {"u8", "s16"})
  /\ ShapesAreSameTotalSize(l.ins[1], l.outs[1])

IsLstmSupported(l) ==
  l.ins[1].type \in {"f32", "s16"} /\ TypesAreEqual(ToSet(l.ins) \cup ToSet(l.outs))

IsMemCopySupported(l) == TypeAnyOf({l.ins[1]}, {"f16", "f32", "u8", "bool"})
IsOutputSupported(l) == TypeAnyOf({l.ins[1]}, {"f16", "f32", "u8", "bool"})
IsInputSupported(l) == IsSupportedForDataTypeRef(l.outs[1])

IsBatchNormalizationSupported(l) == IsSupportedForDataTypeRef(l.ins[1])
IsBatchToSpaceNdSupported(l) ==
  IsSupportedForDataTypeRef(l.ins[1]) /\ IsSupportedForDataTypeRef(l.outs[1])
IsDebugSupported(l) == IsSupportedForDataTypeRef(l.ins[1])
IsDepthwiseConvolutionSupported(l) == IsSupportedForDataTypeRef(l.ins[1])
IsDetectionPostProcessSupported(l) == IsSupportedForDataTypeRef(l.ins[1])
IsEqualSupported(l) == IsSupportedForDataTypeRef(l.ins[1])
IsFullyConnectedSupported(l) == IsSupportedForDataTypeRef(l.ins[1])
IsGatherSupported(l) == IsSupportedForDataTypeRef(l.ins[1])
IsGreaterSupported(l) == IsSupportedForDataTypeRef(l.ins[1])
IsMeanSupported(l) == IsSupportedForDataTypeRef(l.ins[1])
IsPadSupported(l) == IsSupportedForDataTypeRef(l.ins[1])
IsPermuteSupported(l) == IsSupportedForDataTypeRef(l.ins[1])
IsPooling2dSupported(l) == IsSupportedForDataTypeRef(l.ins[1])
IsReshapeSupported(l) == IsSupportedForDataTypeRef(l.ins[1])
IsResizeBilinearSupported(l) == IsSupportedForDataTypeRef(l.ins[1])
IsSoftmaxSupported(l) == IsSupportedForDataTypeRef(l.ins[1])
IsSpaceToBatchNdSupported(l) == IsSupportedForDataTypeRef(l.ins[1])
IsSplitterSupported(l) == IsSupportedForDataTypeRef(l.ins[1])
IsStridedSliceSupported(l) == IsSupportedForDataTypeRef(l.ins[1])

IsFloorSupported(l) == SupportedForFloat32(l.ins[1])
IsL2NormalizationSupported(l) == SupportedForFloat32(l.ins[1])
IsNormalizationSupported(l) == SupportedForFloat32(l.ins[1])
IsRsqrtSupported(l) == SupportedForFloat32(l.ins[1])

(* What a backend has no function for is answered by LayerSupportBase, for *)
(* every kind of layer: no.                                                *)
DefaultLayerSupport(l) == FALSE

RefIsLayerSupported(l) ==
  CASE l.kind = "activation" -> IsActivationSupported(l)
    [] l.kind = "addition" -> IsAdditionSupported(l)
    [] l.kind = "batchNormalization" -> IsBatchNormalizationSupported(l)
    [] l.kind = "batchToSpaceNd" -> IsBatchToSpaceNdSupported(l)
    [] l.kind = "constant" -> IsConstantSupported(l)
    [] l.kind = "convertFp16ToFp32" -> IsConvertFp16ToFp32Supported(l)
    [] l.kind = "convertFp32ToFp16" -> IsConvertFp32ToFp16Supported(l)
    [] l.kind = "convolution2d" -> IsConvolution2dSupported(l)
    [] l.kind = "debug" -> IsDebugSupported(l)
    [] l.kind = "depthwiseConvolution2d" -> IsDepthwiseConvolutionSupported(l)
    [] l.kind = "dequantize" -> IsDequantizeSupported(l)
    [] l.kind = "detectionPostProcess" -> IsDetectionPostProcessSupported(l)
    [] l.kind = "division" -> IsDivisionSupported(l)
    [] l.kind = "equal" -> IsEqualSupported(l)
    [] l.kind = "floor" -> IsFloorSupported(l)
    [] l.kind = "fullyConnected" -> IsFullyConnectedSupported(l)
    [] l.kind = "gather" -> IsGatherSupported(l)
    [] l.kind = "greater" -> IsGreaterSupported(l)
    [] l.kind = "input" -> IsInputSupported(l)
    [] l.kind = "l2Normalization" -> IsL2NormalizationSupported(l)
    [] l.kind = "lstm" -> IsLstmSupported(l)
    [] l.kind = "maximum" -> IsMaximumSupported(l)
    [] l.kind = "mean" -> IsMeanSupported(l)
    [] l.kind = "memCopy" -> IsMemCopySupported(l)
    [] l.kind = "merger" -> IsMergerSupported(l)
    [] l.kind = "minimum" -> IsMinimumSupported(l)
    [] l.kind = "multiplication" -> IsMultiplicationSupported(l)
    [] l.kind = "normalization" -> IsNormalizationSupported(l)
    [] l.kind = "output" -> IsOutputSupported(l)
    [] l.kind = "pad" -> IsPadSupported(l)
    [] l.kind = "permute" -> IsPermuteSupported(l)
    [] l.kind = "pooling2d" -> IsPooling2dSupported(l)
    [] l.kind = "quantize" -> IsQuantizeSupported(l)
    [] l.kind = "reshape" -> IsReshapeSupported(l)
    [] l.kind = "resizeBilinear" -> IsResizeBilinearSupported(l)
    [] l.kind = "rsqrt" -> IsRsqrtSupported(l)
    [] l.kind = "softmax" -> IsSoftmaxSupported(l)
    [] l.kind = "spaceToBatchNd" -> IsSpaceToBatchNdSupported(l)
    [] l.kind = "splitter" -> IsSplitterSupported(l)
    [] l.kind = "stridedSlice" -> IsStridedSliceSupported(l)
    [] l.kind = "subtraction" -> IsSubtractionSupported(l)
    [] OTHER -> DefaultLayerSupport(l)
=============================================================================
