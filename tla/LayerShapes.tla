----------------------------- MODULE LayerShapes -----------------------------
(* InferOutputShapes and ValidateTensorShapesFromInputs of the layers      *)
(* (src/armnn/layers): the shapes a layer says its outputs have.  A        *)
(* BOOST_ASSERT that does not hold, and an exception, both refuse the      *)
(* layer: the result is Refused.                                           *)
EXTENDS Tensors

Refused == << <<>> >>  \* no layer has a scalar output

In(l, i) == l.ins[i].shape

When(condition, shapes) == IF condition THEN shapes ELSE Refused

InferSame(l) == [i \in DOMAIN l.ins |-> In(l, i)]

InferElementwise(l) ==
  When(/\ Rank(l.ins[1]) = Rank(l.ins[2])
       /\ \A i \in DOMAIN In(l, 1) : In(l, 1)[i] = In(l, 2)[i] \/ 1 \in {In(l, 1)[i], In(l, 2)[i]},
       <<[i \in DOMAIN In(l, 1) |-> Max({In(l, 1)[i], In(l, 2)[i]})]>>)

(* The start of a slice along an axis, and its stop.                       *)
GetStartForAxis(d, shape, i) ==
  LET start == IF i \in d.beginMask THEN IF d.stride[i] > 0 THEN 0 ELSE shape[i] - 1
               ELSE IF d.begin[i] < 0 THEN d.begin[i] + shape[i] ELSE d.begin[i]
  IN Max({0, Min({start, shape[i] - 1})})

GetStopForAxis(d, shape, i) ==
  LET stop == IF i \in d.endMask THEN IF d.stride[i] > 0 THEN shape[i] ELSE -1
              ELSE IF d.end[i] < 0 THEN d.end[i] + shape[i] ELSE d.end[i]
  IN CASE i \in d.shrinkAxisMask -> GetStartForAxis(d, shape, i) + 1
       [] i \notin d.shrinkAxisMask /\ d.stride[i] > 0 -> Max({0, Min({stop, shape[i]})})
       [] OTHER -> Max({-1, Min({stop, shape[i] - 1})})

InferStridedSlice(l) ==
  LET size(i) ==
        LET span == GetStopForAxis(l.d, In(l, 1), i) - GetStartForAxis(l.d, In(l, 1), i)
        IN IF l.d.stride[i] > 0 THEN (span + l.d.stride[i] - 1) \div l.d.stride[i]
           ELSE (-span - l.d.stride[i] - 1) \div (-l.d.stride[i])
      kept == SelectSeq([i \in DOMAIN In(l, 1) |-> i], LAMBDA i : i \notin l.d.shrinkAxisMask)
  IN <<[k \in DOMAIN kept |-> Max({0, size(kept[k])})]>>

InferBatchToSpaceNd(l) ==
  LET block == l.d.block
      cropped(i, b) == In(l, 1)[i] * block[b] - l.d.crops[b][1] - l.d.crops[b][2]
      height == cropped(HeightIndex(l.d.layout), 1)
      width == cropped(WidthIndex(l.d.layout), 2)
  IN When(In(l, 1)[1] % Product(block) = 0 /\ height >= 0 /\ width >= 0,
          <<InLayout(l.d.layout, In(l, 1)[1] \div Product(block),
                     In(l, 1)[ChannelsIndex(l.d.layout)], height, width)>>)

InferSpaceToBatchNd(l) ==
  LET padded(i, b) == (In(l, 1)[i] + l.d.pads[b][1] + l.d.pads[b][2]) \div l.d.block[b]
  IN <<InLayout(l.d.layout, In(l, 1)[1] * Product(l.d.block), In(l, 1)[ChannelsIndex(l.d.layout)],
                padded(HeightIndex(l.d.layout), 1), padded(WidthIndex(l.d.layout), 2))>>

InferMean(l) ==
  LET rank == Rank(l.ins[1])
      kept == SelectSeq([i \in 1 .. rank |-> i], LAMBDA i : i \notin l.d.axis)
  IN CASE l.d.keepDims ->
            <<[i \in 1 .. rank |-> IF l.d.axis = {} \/ i \in l.d.axis THEN 1 ELSE In(l, 1)[i]]>>
       [] ~l.d.keepDims /\ l.d.axis = {} -> << <<1>> >>
       [] OTHER -> When(Cardinality(l.d.axis) < rank, <<[k \in DOMAIN kept |-> In(l, 1)[kept[k]]]>>)

(* CalcSize: Ceiling or Floor of the windows that fit, less one that would *)
(* start behind the input.  A window larger than the padded input would    *)
(* wrap around to a size no tensor has.                                    *)
PooledSize(length, low, high, pool, stride, rounding) ==
  LET read == length + low + high - pool
      size == (IF rounding = "ceiling" THEN (read + stride - 1) \div stride ELSE read \div stride) + 1
  IN IF (size - 1) * stride >= length + low THEN size - 1 ELSE size

WindowFits(l, i, window, dim) ==
  window <= In(l, 1)[i] + l.d.pads[dim][1] + l.d.pads[dim][2]

InferPooling2d(l) ==
  LET h == HeightIndex(l.d.layout)
      w == WidthIndex(l.d.layout)
      size(i, dim) ==
        IF l.d.stride = <<0, 0>> THEN 1
        ELSE PooledSize(In(l, 1)[i], l.d.pads[dim][1], l.d.pads[dim][2],
                        l.d.pool[dim], l.d.stride[dim], l.d.rounding)
      fits == WindowFits(l, h, l.d.pool[1], 1) /\ WindowFits(l, w, l.d.pool[2], 2)
  IN When(/\ Rank(l.ins[1]) = 4
          /\ l.d.stride = <<0, 0>> \/ (0 \notin ToSet(l.d.stride) /\ fits),
          <<InLayout(l.d.layout, In(l, 1)[1], In(l, 1)[ChannelsIndex(l.d.layout)], size(h, 1), size(w, 2))>>)

(* How often a window of the filter fits; again none does if it is larger. *)
Windows(l, i, dim, extent) ==
  1 + (In(l, 1)[i] + l.d.pads[dim][1] + l.d.pads[dim][2] - extent) \div l.d.stride[dim]

(* The dilation of a convolution does not count.                           *)
InferConvolution2d(l) ==
  LET h == HeightIndex(l.d.layout)
      w == WidthIndex(l.d.layout)
      filter == l.consts.weight.shape
  IN When(/\ Rank(l.ins[1]) = 4 /\ Len(filter) >= w
          /\ WindowFits(l, h, filter[h], 1) /\ WindowFits(l, w, filter[w], 2),
          <<InLayout(l.d.layout, In(l, 1)[1], filter[1],
                     Windows(l, h, 1, filter[h]), Windows(l, w, 2, filter[w]))>>)

DilatedExtent(l, dim) ==
  l.consts.weight.shape[2 + dim] + (l.d.dilation[dim] - 1) * (l.consts.weight.shape[2 + dim] - 1)

InferDepthwiseConvolution2d(l) ==
  LET h == HeightIndex(l.d.layout)
      w == WidthIndex(l.d.layout)
  IN When(/\ Rank(l.ins[1]) = 4 /\ Len(l.consts.weight.shape) = 4
          /\ WindowFits(l, h, DilatedExtent(l, 1), 1) /\ WindowFits(l, w, DilatedExtent(l, 2), 2),
          <<InLayout(l.d.layout, In(l, 1)[1],
                     In(l, 1)[ChannelsIndex(l.d.layout)] * l.consts.weight.shape[1],
                     Windows(l, h, 1, DilatedExtent(l, 1)), Windows(l, w, 2, DilatedExtent(l, 2)))>>)

InferFullyConnected(l) ==
  LET dimIdx == IF l.d.transpose THEN 1 ELSE 2
  IN When(Len(l.consts.weight.shape) >= dimIdx, << <<In(l, 1)[1], l.consts.weight.shape[dimIdx]>> >>)

InferPermute(l) ==
  << [j \in DOMAIN In(l, 1) |-> In(l, 1)[CHOOSE i \in DOMAIN l.d.mappings : l.d.mappings[i] = j]] >>

InferReshape(l) == <<l.d.target>>

InferResizeBilinear(l) ==
  <<InLayout(l.d.layout, In(l, 1)[1], In(l, 1)[ChannelsIndex(l.d.layout)], l.d.target[1], l.d.target[2])>>

InferGather(l) == <<In(l, 2) \o Tail(In(l, 1))>>

InferSplitter(l) == l.d.sizes

(* No pair of views overlaps and there are no gaps between them.  The      *)
(* lower extents start at zero and so are always zero.                     *)
ViewsOverlap(l, a, b) ==
  \A i \in DOMAIN In(l, a) :
    /\ l.d.origins[b][i] < l.d.origins[a][i] + In(l, a)[i]
    /\ l.d.origins[a][i] < l.d.origins[b][i] + In(l, b)[i]

ExtentMax(l) ==
  [i \in DOMAIN l.d.origins[1] |-> Max({l.d.origins[v][i] + In(l, v)[i] : v \in DOMAIN l.ins})]

InferAnyViews(l) == <<ExtentMax(l)>>  \* mutant

InferMerger(l) ==
  When(/\ Len(l.d.origins) = Len(l.ins)
       /\ SameLengths({In(l, v) : v \in DOMAIN l.ins} \cup {l.d.origins[1]})
       /\ \A a \in DOMAIN l.ins : \A b \in 1 .. a - 1 : ~ViewsOverlap(l, a, b)
       /\ FoldLeftDomain(LAMBDA sum, v : sum + NumElements(l.ins[v]), 0, l.ins)
            = Product(ExtentMax(l)),
       <<ExtentMax(l)>>)

InferConstant(l) == <<l.consts.output.shape>>

InferDetectionPostProcess(l) ==
  << <<1, l.d.detections, 4>>, <<1, l.d.detections>>, <<1, l.d.detections>>, <<1>> >>

InferLstm(l) ==
  LET batch == In(l, 1)[1]
      outputSize == In(l, 2)[2]
      units == In(l, 3)[2]
  IN << <<batch, units * (IF l.d.cifg THEN 3 ELSE 4)>>, <<batch, outputSize>>, <<batch, units>>,
        <<batch, outputSize>> >>

InferMerge(l) == When(In(l, 1) = In(l, 2), <<In(l, 1)>>)

----------------------------------------------------------------------------

InferOutputShapes(l) ==
  CASE l.kind = "stridedSlice" -> InferStridedSlice(l)
    [] l.kind = "batchToSpaceNd" -> InferBatchToSpaceNd(l)
    [] l.kind = "spaceToBatchNd" -> InferSpaceToBatchNd(l)
    [] l.kind = "mean" -> InferMean(l)
    [] l.kind = "pooling2d" -> InferPooling2d(l)
    [] l.kind = "convolution2d" -> InferConvolution2d(l)
    [] l.kind = "depthwiseConvolution2d" -> InferDepthwiseConvolution2d(l)
    [] l.kind = "fullyConnected" -> InferFullyConnected(l)
    [] l.kind = "permute" -> InferPermute(l)
    [] l.kind = "reshape" -> InferReshape(l)
    [] l.kind = "resizeBilinear" -> InferResizeBilinear(l)
    [] l.kind = "gather" -> InferGather(l)
    [] l.kind = "splitter" -> InferSplitter(l)
    [] l.kind = "merger" -> InferMerger(l)
    [] l.kind = "constant" -> InferConstant(l)
    [] l.kind = "detectionPostProcess" -> InferDetectionPostProcess(l)
    [] l.kind = "lstm" -> InferLstm(l)
    [] l.kind = "merge" -> InferMerge(l)
    [] l.kind \in {"addition", "subtraction", "multiplication", "division", "maximum",
                   "minimum", "equal", "greater"} -> InferElementwise(l)
    [] OTHER -> InferSame(l)

(* A padding may give its output any shape; everything else has the shapes *)
(* that follow from its inputs.                                            *)
ValidateTensorShapesFromInputs(l) ==
  l.kind = "pad" \/ [i \in DOMAIN l.outs |-> l.outs[i].shape] = InferOutputShapes(l)
=============================================================================
