------------------------------- MODULE Tensors -------------------------------
(* Tensors and layers as the checks on the way to a workload see them: a   *)
(* TensorInfo is [type, shape]; a layer has the infos of its input and     *)
(* output slots, its constant tensors by name, and its descriptor d.       *)
(* Quantization scales and offsets are left out.                           *)
EXTENDS Integers, FiniteSets, SequencesExt, FiniteSetsExt, Functions

DataTypes == {"f16", "f32", "u8", "s16", "i32", "bool"}

Product(dims) == FoldLeft(LAMBDA a, b : a * b, 1, dims)
NumElements(info) == Product(info.shape)
Rank(info) == Len(info.shape)

SameShape(a, b) == a.shape = b.shape
SameType(a, b) == a.type = b.type

(* DataLayoutIndexed.                                                      *)
ChannelsIndex(layout) == IF layout = "NHWC" THEN 4 ELSE 2
HeightIndex(layout) == IF layout = "NHWC" THEN 2 ELSE 3
WidthIndex(layout) == IF layout = "NHWC" THEN 3 ELSE 4

(* A shape of four dimensions in a layout.                                 *)
InLayout(layout, n, c, h, w) ==
  IF layout = "NHWC" THEN <<n, h, w, c>> ELSE <<n, c, h, w>>

SameLengths(seqs) == Cardinality({Len(s) : s \in seqs}) = 1

Has(l, tensor) == tensor \in DOMAIN l.consts

(* The offset of an element in the row-major memory of a tensor, and the   *)
(* indices an offset stands for; both count from zero.                     *)
OffsetOf(shape, index) ==
  FoldLeftDomain(LAMBDA sum, i : sum * shape[i] + index[i], 0, shape)

Strides(shape) == [i \in DOMAIN shape |-> Product(SubSeq(shape, i + 1, Len(shape)))]

IndexAt(shape, offset) ==
  [i \in DOMAIN shape |-> (offset \div Strides(shape)[i]) % shape[i]]

Offsets(shape) == 0 .. Product(shape) - 1
=============================================================================
