--------------------------- MODULE WorkloadFactories ---------------------------
(* The workload factories of the three backends: whether they make a        *)
(* workload of a layer ("made"), have none for its types ("null"), throw    *)
(* from the Validate of its queue descriptor ("thrown"), or fail an         *)
(* assertion on its types ("aborted").                                      *)
EXTENDS WorkloadData

(* The type a factory goes by.                                             *)
KeyType(l) == IF l.ins # <<>> THEN l.ins[1].type ELSE l.outs[1].type

Types(infos) == {info.type : info \in ToSet(infos)}

(* What a factory does not override, IWorkloadFactory makes nothing of.    *)
NotMade == "null"

(* MakeWorkloadHelper: a workload for these types and none for the others; *)
(* the switch over the types does not know QuantisedSymm16.                *)
MakeWorkloadHelper(l, types) ==
  CASE KeyType(l) \in types -> "made" [] KeyType(l) = "s16" -> "aborted" [] OTHER -> "null"

(* IsFloat16: one of the tensors is.                                       *)
IsFloat16(l) == "f16" \in Types(l.ins) \cup Types(l.outs)

NullForFloat16(l) == IF IsFloat16(l) THEN "null" ELSE "made"

RefFloat32AndUint8 ==
  {"softmax", "splitter", "fullyConnected", "pooling2d", "batchNormalization", "resizeBilinear",
   "reshape", "spaceToBatchNd", "mean", "pad", "batchToSpaceNd", "stridedSlice", "debug", "gather",
   "detectionPostProcess"}

RefFloat32Only == {"normalization", "l2Normalization", "floor", "rsqrt"}

RefNotForFloat16 ==
  {"activation", "addition", "multiplication", "division", "subtraction", "merger"}

RefAnyType ==
  {"convolution2d", "depthwiseConvolution2d", "memCopy", "constant", "lstm", "convertFp16ToFp32",
   "convertFp32ToFp16", "maximum", "minimum", "equal", "greater", "quantize", "dequantize"}

RefCreate(l) ==
  CASE l.kind \in RefFloat32AndUint8 -> MakeWorkloadHelper(l, {"f32", "u8"})
    [] l.kind \in RefFloat32Only -> MakeWorkloadHelper(l, {"f32"})
    [] l.kind = "permute" -> MakeWorkloadHelper(l, {"f16", "f32", "u8"})
    [] l.kind \in RefNotForFloat16 -> NullForFloat16(l)
    [] l.kind \in RefAnyType -> "made"
    [] OTHER -> NotMade

FloatOr8 == {"f16", "f32", "u8"}

NeonAnyType ==
  {"activation", "splitter", "permute", "pooling2d", "convolution2d", "depthwiseConvolution2d",
   "addition", "multiplication", "subtraction", "batchNormalization", "resizeBilinear", "merger",
   "constant", "reshape", "convertFp16ToFp32", "convertFp32ToFp16", "maximum", "mean", "pad", "minimum"}

NeonFloatAndUint8 == {"softmax", "fullyConnected", "memCopy", "greater"}

NeonFloatOnly == {"normalization", "l2Normalization", "floor", "lstm"}

NeonCreate(l) ==
  CASE l.kind \in NeonAnyType -> "made"
    [] l.kind \in NeonFloatAndUint8 -> MakeWorkloadHelper(l, FloatOr8)
    [] l.kind \in NeonFloatOnly -> MakeWorkloadHelper(l, {"f16", "f32"})
    [] OTHER -> NotMade

ClAnyType ==
  (NeonAnyType \ {"batchNormalization", "resizeBilinear"})
    \cup {"spaceToBatchNd", "batchToSpaceNd", "stridedSlice"}

ClFloatOnly == NeonFloatOnly \cup {"batchNormalization", "resizeBilinear", "division"}

ClCreate(l) ==
  CASE l.kind \in ClAnyType -> "made"
    [] l.kind \in NeonFloatAndUint8 -> MakeWorkloadHelper(l, FloatOr8)
    [] l.kind \in ClFloatOnly -> MakeWorkloadHelper(l, {"f16", "f32"})
    [] OTHER -> NotMade

----------------------------------------------------------------------------
(* The types a workload class asserts of its tensors.                      *)

(* TypedWorkload: all the tensors have one type, which the class has.      *)
OneTypeOf(l, types) ==
  \A info \in ToSet(l.ins) \cup ToSet(l.outs) : info.type = KeyType(l) /\ KeyType(l) \in types

(* MultiTypedWorkload.                                                     *)
TypedInOut(l, in, out) == Types(l.ins) = {in} /\ Types(l.outs) = {out}

(* FirstInputTypedWorkload.                                                *)
FirstInputTyped(l) == Types(l.outs) = {KeyType(l)}

ConvertersTyped(l) ==
  CASE l.kind = "convertFp16ToFp32" -> TypedInOut(l, "f16", "f32")
    [] l.kind = "convertFp32ToFp16" -> TypedInOut(l, "f32", "f16")
    [] OTHER -> TRUE

RefTyped(l) ==
  CASE l.kind \in (RefFloat32AndUint8 \ {"gather", "detectionPostProcess"}) \cup RefFloat32Only \cup {"permute"} ->
         OneTypeOf(l, {KeyType(l)})
    [] l.kind = "gather" -> FirstInputTyped(l)
    [] l.kind = "detectionPostProcess" -> Types(l.outs) = {"f32"}
    [] OTHER -> ConvertersTyped(l)

(* A comparison of halves is made by the class for Float32.                *)
AccelTyped(l, floatOnly) ==
  CASE l.kind \in floatOnly -> OneTypeOf(l, {"f16", "f32"})
    [] l.kind = "softmax" -> OneTypeOf(l, FloatOr8)
    [] l.kind = "greater" -> TypedInOut(l, IF KeyType(l) = "f16" THEN "f32" ELSE KeyType(l), "bool")
    [] OTHER -> ConvertersTyped(l)

----------------------------------------------------------------------------
(* The constructor of a workload: Validate first, then its types.          *)

Validate(l) ==
  CASE l.kind = "activation" -> ValidateActivation(l)
    [] l.kind = "addition" -> ValidateAddition(l)
    [] l.kind = "batchNormalization" -> ValidateBatchNormalization(l)
    [] l.kind = "constant" -> ValidateConstant(l)
    [] l.kind = "convertFp16ToFp32" -> ValidateConvertFp16ToFp32(l)
    [] l.kind = "convertFp32ToFp16" -> ValidateConvertFp32ToFp16(l)
    [] l.kind = "convolution2d" -> ValidateConvolution2d(l)
    [] l.kind = "depthwiseConvolution2d" -> ValidateDepthwiseConvolution2d(l)
    [] l.kind = "dequantize" -> ValidateDequantize(l)
    [] l.kind = "detectionPostProcess" -> ValidateDetectionPostProcess(l)
    [] l.kind = "division" -> ValidateDivision(l)
    [] l.kind = "equal" -> ValidateEqual(l)
    [] l.kind = "floor" -> ValidateFloor(l)
    [] l.kind = "fullyConnected" -> ValidateFullyConnected(l)
    [] l.kind = "gather" -> ValidateGather(l)
    [] l.kind = "greater" -> ValidateGreater(l)
    [] l.kind = "l2Normalization" -> ValidateL2Normalization(l)
    [] l.kind = "lstm" -> ValidateLstm(l)
    [] l.kind = "maximum" -> ValidateMaximum(l)
    [] l.kind = "mean" -> ValidateMean(l)
    [] l.kind = "memCopy" -> ValidateMemCopy(l)
    [] l.kind = "merger" -> ValidateMerger(l)
    [] l.kind = "minimum" -> ValidateMinimum(l)
    [] l.kind = "multiplication" -> ValidateMultiplication(l)
    [] l.kind = "normalization" -> ValidateNormalization(l)
    [] l.kind = "pad" -> ValidatePad(l)
    [] l.kind = "permute" -> ValidatePermute(l)
    [] l.kind = "pooling2d" -> ValidatePooling2d(l)
    [] l.kind = "quantize" -> ValidateQuantize(l)
    [] l.kind = "reshape" -> ValidateReshape(l)
    [] l.kind = "resizeBilinear" -> ValidateResizeBilinear(l)
    [] l.kind = "rsqrt" -> ValidateRsqrt(l)
    [] l.kind = "softmax" -> ValidateSoftmax(l)
    [] l.kind = "spaceToBatchNd" -> ValidateSpaceToBatchNd(l)
    [] l.kind = "splitter" -> ValidateSplitter(l)
    [] l.kind = "stridedSlice" -> ValidateStridedSlice(l)
    [] l.kind = "subtraction" -> ValidateSubtraction(l)
    [] l.kind = "batchToSpaceNd" -> ValidateBatchToSpaceNd(l)
    [] l.kind = "debug" -> ValidateDebug(l)

Construct(l, created, typed) ==
  CASE created # "made" -> created
    [] created = "made" /\ ~Validate(l) -> "thrown"
    [] created = "made" /\ Validate(l) -> IF typed THEN "made" ELSE "aborted"

CreateWorkload(backend, l) ==
  CASE backend = "CpuRef" -> Construct(l, RefCreate(l), RefTyped(l))
    [] backend = "CpuAcc" -> Construct(l, NeonCreate(l), AccelTyped(l, NeonFloatOnly))
    [] backend = "GpuAcc" -> Construct(l, ClCreate(l), AccelTyped(l, ClFloatOnly))
=============================================================================
