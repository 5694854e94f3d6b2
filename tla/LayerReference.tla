---------------------------- MODULE LayerReference ----------------------------
(* What the layers promise of their data, said of the tensors' indices and  *)
(* not of the kernels' loops: where every element of an output comes from.  *)
(* A source is <<tensor, offset>>.                                          *)
EXTENDS Tensors

Indices(shape) == {IndexAt(shape, at) : at \in Offsets(shape)}

From(tensor, info, index) == <<tensor, OffsetOf(info.shape, index)>>

(* An input with a dimension of size one is the same all along it.         *)
Clipped(info, index) == [i \in DOMAIN index |-> IF info.shape[i] = 1 THEN 0 ELSE index[i]]

BroadcastSource(l, index) ==
  {From("in1", l.ins[1], Clipped(l.ins[1], index)), From("in2", l.ins[2], Clipped(l.ins[2], index))}

PermuteSource(l, index) == {From("in1", l.ins[1], [i \in DOMAIN index |-> index[l.d.mappings[i]]])}

Inside(shape, index) == \A i \in DOMAIN shape : index[i] >= 0 /\ index[i] < shape[i]

PadSource(l, index) ==
  LET before == [i \in DOMAIN index |-> index[i] - l.d.pads[i][1]]
  IN IF Inside(l.ins[1].shape, before) THEN {From("in1", l.ins[1], before)} ELSE {}

(* The position a slice selects at its k-th step along an axis.            *)
Selected(l, i, k) ==
  LET length == l.ins[1].shape[i]
      first == CASE i \in l.d.beginMask -> IF l.d.stride[i] > 0 THEN 0 ELSE length - 1
                 [] OTHER -> l.d.begin[i] % length
  IN first + k * l.d.stride[i]

StridedSliceSource(l, index) ==
  LET kept(i) == i - Cardinality({j \in l.d.shrinkAxisMask : j < i})
      step(i) == IF i \in l.d.shrinkAxisMask THEN 0 ELSE index[kept(i)]
  IN {From("in1", l.ins[1], [i \in DOMAIN l.ins[1].shape |-> Selected(l, i, step(i))])}

(* Both ways between batches and space, from the point of view of a pixel  *)
(* of the spread image: its batch, its row and its column in the blocks.   *)
InBlocks(l, n, h, w, batches, offset) ==
  LET y == h + offset[1][1]
      x == w + offset[2][1]
      blockOf == (y % l.d.block[1]) * l.d.block[2] + (x % l.d.block[2])
  IN <<blockOf * batches + n, y \div l.d.block[1], x \div l.d.block[2]>>

Blocked(l, index, batches, offset) ==
  LET layout == l.d.layout
      b == InBlocks(l, index[1], index[HeightIndex(layout)], index[WidthIndex(layout)], batches, offset)
  IN InLayout(layout, b[1], index[ChannelsIndex(layout)], b[2], b[3])

BatchToSpaceNdSource(l, index) ==
  {From("in1", l.ins[1], Blocked(l, index, l.outs[1].shape[1], l.d.crops))}

SpaceToBatchNdSource(l, index) ==
  {From("in1", l.ins[1], p) :
     p \in {q \in Indices(l.ins[1].shape) : Blocked(l, q, l.ins[1].shape[1], l.d.pads) = index}}

GatherSource(l, index) ==
  {From("in1", l.ins[1], <<l.d.indices[index[1] + 1]>> \o Tail(index))}

Shifted(index, origin) == [i \in DOMAIN index |-> index[i] - origin[i]]

MergerSource(l, index) ==
  {From(IF v = 1 THEN "in1" ELSE "in2", l.ins[v], Shifted(index, l.d.origins[v])) :
     v \in {u \in DOMAIN l.ins : Inside(l.ins[u].shape, Shifted(index, l.d.origins[u]))}}

SplitterSource(l, out, index) ==
  {From("in1", l.ins[1], [i \in DOMAIN index |-> index[i] + l.d.origins[out][i]])}

Moves ==
  {"addition", "subtraction", "multiplication", "division", "maximum", "minimum", "equal", "greater",
   "permute", "pad", "stridedSlice", "batchToSpaceNd", "spaceToBatchNd", "gather", "merger", "splitter"}

MovedFrom(l, out, index) ==
  CASE l.kind = "permute" -> PermuteSource(l, index)
    [] l.kind = "pad" -> PadSource(l, index)
    [] l.kind = "stridedSlice" -> StridedSliceSource(l, index)
    [] l.kind = "batchToSpaceNd" -> BatchToSpaceNdSource(l, index)
    [] l.kind = "spaceToBatchNd" -> SpaceToBatchNdSource(l, index)
    [] l.kind = "gather" -> GatherSource(l, index)
    [] l.kind = "merger" -> MergerSource(l, index)
    [] l.kind = "splitter" -> SplitterSource(l, out, index)
    [] OTHER -> BroadcastSource(l, index)

----------------------------------------------------------------------------
(* The pixels of the input under the window of an output's pixel.          *)

(* A position of the input is under a window of size taps, at the place    *)
(* the stride and the padding give it, that are dilation apart.            *)
UnderWindow(l, dim, size, dilation, out, in) ==
  LET tap == in + l.d.pads[dim][1] - out * l.d.stride[dim]
  IN tap \in 0 .. (size - 1) * dilation /\ tap % dilation = 0

(* A depthwise convolution reads one channel for every so many outputs.    *)
ChannelIsRead(l, out, in) ==
  CASE l.kind = "pooling2d" -> in = out
    [] l.kind = "depthwiseConvolution2d" -> in = out \div l.consts.weight.shape[1]
    [] OTHER -> TRUE

WindowSize(l) ==
  CASE l.kind = "pooling2d" -> l.d.pool
    [] l.kind = "depthwiseConvolution2d" -> SubSeq(l.consts.weight.shape, 3, 4)
    [] OTHER -> <<l.consts.weight.shape[HeightIndex(l.d.layout)], l.consts.weight.shape[WidthIndex(l.d.layout)]>>

Dilation(l) == IF l.kind = "pooling2d" THEN <<1, 1>> ELSE l.d.dilation

WindowSource(l, index) ==
  LET h == HeightIndex(l.d.layout)
      w == WidthIndex(l.d.layout)
      c == ChannelsIndex(l.d.layout)
  IN {From("in1", l.ins[1], p) :
        p \in {q \in Indices(l.ins[1].shape) :
                 /\ q[1] = index[1] /\ ChannelIsRead(l, index[c], q[c])
                 /\ UnderWindow(l, 1, WindowSize(l)[1], Dilation(l)[1], index[h], q[h])
                 /\ UnderWindow(l, 2, WindowSize(l)[2], Dilation(l)[2], index[w], q[w])}}

(* Everything along the axes a mean is taken over.                         *)
MeanSource(l, index) ==
  LET axis == IF l.d.axis = {} THEN DOMAIN l.ins[1].shape ELSE l.d.axis
      place(i) == IF l.d.keepDims THEN i ELSE i - Cardinality({j \in axis : j < i})
  IN {From("in1", l.ins[1], p) :
        p \in {q \in Indices(l.ins[1].shape) : \A i \in DOMAIN q \ axis : q[i] = index[place(i)]}}

Reduces == {"pooling2d", "convolution2d", "depthwiseConvolution2d", "mean"}

ReducedFrom(l, index) == IF l.kind = "mean" THEN MeanSource(l, index) ELSE WindowSource(l, index)
=============================================================================
