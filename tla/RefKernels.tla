------------------------------ MODULE RefKernels ------------------------------
(* The kernels of the reference backend (reference/workloads), as what they *)
(* move: a kernel is the set of the elements it writes, each with the       *)
(* elements it is computed from.  The arithmetic on the values is left out; *)
(* every offset is computed the way the kernel computes it.                 *)
EXTENDS LayerShapes

UpTo(n) == 0 .. n - 1

In1(at) == <<"in1", at>>
In2(at) == <<"in2", at>>

Write(out, at, from) == [out |-> out, at |-> at, from |-> from]

Move(to, at) == Write(1, to, {In1(at)})

(* The dimensions of an image of four dimensions, and its pixels.          *)
Image(info, layout) ==
  [n |-> info.shape[1], c |-> info.shape[ChannelsIndex(layout)],
   h |-> info.shape[HeightIndex(layout)], w |-> info.shape[WidthIndex(layout)]]

Pixels(image) == UpTo(image.n) \X UpTo(image.c) \X UpTo(image.h) \X UpTo(image.w)

(* TensorBufferArrayView::Get, and the offset functions the kernels have   *)
(* of their own.                                                           *)
Offset(image, layout, n, c, h, w) ==
  IF layout = "NHWC" THEN ((n * image.h + h) * image.w + w) * image.c + c
  ELSE ((n * image.c + c) * image.h + h) * image.w + w

----------------------------------------------------------------------------
(* Kernels that go over every element once.                                *)

Activation(l) == {Move(i, i) : i \in Offsets(l.ins[1].shape)}
Floor(l) == {Move(i, i) : i \in Offsets(l.ins[1].shape)}
Rsqrt(l) == {Move(i, i) : i \in Offsets(l.ins[1].shape)}
Debug(l) == {Move(i, i) : i \in Offsets(l.ins[1].shape)}
Quantize(l) == {Move(i, i) : i \in Offsets(l.ins[1].shape)}
Dequantize(l) == {Move(i, i) : i \in Offsets(l.ins[1].shape)}
Reshape(l) == {Move(i, i) : i \in Offsets(l.ins[1].shape)}  \* memcpy
Constant(l) == {Write(1, i, {<<"output", i>>}) : i \in Offsets(l.outs[1].shape)}

(* BroadcastLoop: an input does not move along a dimension of size one.    *)
Stride(shape, j) == IF shape[j] > 1 THEN Product(SubSeq(shape, j + 1, Len(shape))) ELSE 0

Along(index, strides) == FoldLeftDomain(LAMBDA sum, j : sum + index[j] * strides[j], 0, index)

BroadcastLoop(l) ==
  LET shape == l.outs[1].shape
      stride(info) == [j \in DOMAIN shape |-> Stride(info.shape, j)]
      first == stride(l.ins[1])
      second == stride(l.ins[2])
  IN {LET index == IndexAt(shape, i)
      IN Write(1, i, {In1(Along(index, first)), In2(Along(index, second))}) : i \in Offsets(shape)}

----------------------------------------------------------------------------
(* Kernels that move elements.                                             *)

(* An output row or column is unsigned: what would be negative is outside. *)
BatchToSpaceNd(l) ==
  LET in == Image(l.ins[1], l.d.layout)
      out == Image(l.outs[1], l.d.layout)
      outH(n, h) == h * l.d.block[1] + (n \div out.n) \div l.d.block[2] - l.d.crops[1][1]
      outW(n, w) == w * l.d.block[2] + ((n \div out.n) % l.d.block[2]) - l.d.crops[2][1]
  IN {Move(Offset(out, l.d.layout, p[1] % out.n, p[2], outH(p[1], p[3]), outW(p[1], p[4])),
           Offset(in, l.d.layout, p[1], p[2], p[3], p[4])) :
        p \in {q \in Pixels(in) : outH(q[1], q[3]) \in UpTo(out.h) /\ outW(q[1], q[4]) \in UpTo(out.w)}}

SpaceToBatchNd(l) ==
  LET in == Image(l.ins[1], l.d.layout)
      out == Image(l.outs[1], l.d.layout)
      block == l.d.block
      inH(n, h) == h * block[1] + (n \div in.n) \div block[2] - l.d.pads[1][1]
      inW(n, w) == w * block[2] + ((n \div in.n) % block[2]) - l.d.pads[2][1]
  IN {Write(1, Offset(out, l.d.layout, p[1], p[2], p[3], p[4]),
            IF inH(p[1], p[3]) \in UpTo(in.h) /\ inW(p[1], p[4]) \in UpTo(in.w)
            THEN {In1(Offset(in, l.d.layout, p[1] % in.n, p[2], inH(p[1], p[3]), inW(p[1], p[4])))}
            ELSE {}) :
        p \in UpTo(out.n) \X UpTo(in.c) \X UpTo(out.h) \X UpTo(out.w)}

(* PadParams and ExtendShape are left out: the dimensions they put in      *)
(* front have one element, which the begin and end masks select.           *)
Positions(start, stop, stride) ==
  LET count == IF stride > 0 THEN (stop - start + stride - 1) \div stride
               ELSE (start - stop - stride - 1) \div (-stride)
  IN [k \in 1 .. Max({0, count}) |-> start + (k - 1) * stride]

StridedSlice(l) ==
  LET shape == l.ins[1].shape
      read == [i \in DOMAIN shape |->
                 Positions(GetStartForAxis(l.d, shape, i), GetStopForAxis(l.d, shape, i), l.d.stride[i])]
      counts == [i \in DOMAIN shape |-> Len(read[i])]
  IN {LET index == IndexAt(counts, k)
      IN Move(k, OffsetOf(shape, [i \in DOMAIN shape |-> read[i][index[i] + 1]])) : k \in Offsets(counts)}

PadUnzeroed(l) ==  \* mutant: the padding is left as it was
  LET in == l.ins[1].shape
  IN {Move(OffsetOf(l.outs[1].shape, [i \in DOMAIN in |-> IndexAt(in, at)[i] + l.d.pads[i][1]]), at) :
        at \in Offsets(in)}

(* The output is zero but for the input at its padded place.               *)
Pad(l) ==
  LET in == l.ins[1].shape
      place(at) == OffsetOf(l.outs[1].shape,
                            [i \in DOMAIN in |-> IndexAt(in, at)[i] + l.d.pads[i][1]])
      moved == {Move(place(at), at) : at \in Offsets(in)}
  IN moved \cup {Write(1, to, {}) : to \in Offsets(l.outs[1].shape) \ {w.at : w \in moved}}

Gather(l) ==
  LET paramsProduct == Product(Tail(l.ins[1].shape))
  IN {Write(1, i * paramsProduct + j, {In1(l.d.indices[i + 1] * paramsProduct + j), In2(i)}) :
        i \in Offsets(l.ins[2].shape), j \in UpTo(paramsProduct)}

GatherAsserts(l) ==
  /\ \A i \in DOMAIN l.d.indices : l.d.indices[i] \in UpTo(l.ins[1].shape[1])
  /\ NumElements(l.ins[2]) * Product(Tail(l.ins[1].shape)) = NumElements(l.outs[1])

InsideView(index, origin, shape) ==
  \A i \in DOMAIN index : origin[i] <= index[i] /\ index[i] < origin[i] + shape[i]

InView(index, origin, shape) == OffsetOf(shape, [i \in DOMAIN index |-> index[i] - origin[i]])

(* An element of the output comes from the first view it is inside of, if  *)
(* it is inside of any.                                                    *)
Merger(l) ==
  LET views(index) == {v \in DOMAIN l.d.origins : InsideView(index, l.d.origins[v], l.ins[v].shape)}
      found == {i \in Offsets(l.outs[1].shape) : views(IndexAt(l.outs[1].shape, i)) # {}}
  IN {LET index == IndexAt(l.outs[1].shape, i)
          v == Min(views(index))
      IN Write(1, i, {<<IF v = 1 THEN "in1" ELSE "in2", InView(index, l.d.origins[v], l.ins[v].shape)>>}) :
        i \in found}

Splitter(l) ==
  UNION {LET shape == l.outs[v].shape
             inside == {i \in Offsets(l.ins[1].shape) :
                          InsideView(IndexAt(l.ins[1].shape, i), l.d.origins[v], shape)}
         IN {Write(v, InView(IndexAt(l.ins[1].shape, i), l.d.origins[v], shape), {In1(i)}) : i \in inside} :
           v \in DOMAIN l.d.origins}

(* PermuteLoop: dimension i of the source is dimension mappings[i] of the  *)
(* output, and the strides of the source follow from the output's shape.   *)
PermuteLoop(shape, mappings) ==
  LET stride == [d \in DOMAIN shape |->
                   LET i == CHOOSE j \in DOMAIN mappings : mappings[j] = d
                   IN FoldLeft(LAMBDA a, j : a * shape[mappings[j]], 1,
                               [k \in 1 .. Len(shape) - i |-> i + k])]
  IN {Move(i, Along(IndexAt(shape, i), stride)) : i \in Offsets(shape)}

PermuteBackwards(l) ==  \* mutant: the mapping taken the other way round
  PermuteLoop(l.outs[1].shape,
              [i \in DOMAIN l.d.mappings |-> CHOOSE j \in DOMAIN l.d.mappings : l.d.mappings[j] = i])

Permute(l) == PermuteLoop(l.outs[1].shape, l.d.mappings)

----------------------------------------------------------------------------
(* Kernels that compute an element from several.                           *)

ReducedOutputOffset(shape, index, axis) ==
  FoldLeftDomain(LAMBDA sum, i : IF i \in axis THEN sum ELSE sum * shape[i] + index[i], 0, shape)

Mean(l) ==
  LET in == l.ins[1].shape
      resolved == IF l.d.axis = {} THEN DOMAIN in ELSE l.d.axis
      target == [at \in Offsets(in) |-> ReducedOutputOffset(in, IndexAt(in, at), resolved)]
  IN {Write(1, to, {In1(at) : at \in {a \in Offsets(in) : target[a] = to}}) :
        to \in Offsets(l.outs[1].shape) \cup ToSet([i \in 1 .. NumElements(l.ins[1]) |-> target[i - 1]])}

(* A window that is taken to cover padding only starts its result at zero  *)
(* and not at the identity of the pooling: "zero" is among its sources.    *)
OnPaddingOnly(start, end, maxRange, padding) == end <= 0 \/ start > maxRange - padding

ClampRangeShort(start, end, maxRange) == Max({start, 0}) .. Min({end, maxRange - 1}) - 1  \* mutant

ClampRange(start, end, maxRange) == Max({start, 0}) .. Min({end, maxRange}) - 1

Pooling2d(l) ==
  LET in == Image(l.ins[1], l.d.layout)
      out == Image(l.outs[1], l.d.layout)
      size == <<in.h, in.w>>
      start(o, d) == o * l.d.stride[d] - l.d.pads[d][1]
      end(o, d) == Min({start(o, d) + l.d.pool[d], size[d] + l.d.pads[d][2]})
      padding(o, d) == OnPaddingOnly(start(o, d), end(o, d), size[d], l.d.pads[d][2])
      window(o, d) == ClampRange(start(o, d), end(o, d), size[d])
  IN {Write(1, Offset(out, l.d.layout, p[1], p[2], p[3], p[4]),
            {In1(Offset(in, l.d.layout, p[1], p[2], y, x)) : y \in window(p[3], 1), x \in window(p[4], 2)}
              \cup (IF padding(p[3], 1) \/ padding(p[4], 2) THEN {<<"zero", 0>>} ELSE {})) :
        p \in Pixels(out)}

(* Convolve.  A filter tap over the padding reads the filter but no input. *)
Convolve(l, depthwise) ==
  LET in == Image(l.ins[1], l.d.layout)
      out == Image(l.outs[1], l.d.layout)
      filter == IF depthwise THEN Image(l.consts.weight, "NCHW") ELSE Image(l.consts.weight, l.d.layout)
      filterLayout == IF depthwise THEN "NCHW" ELSE l.d.layout
      read == [in EXCEPT !.c = filter.c]
      inputs(c) == IF depthwise THEN {c \div filter.n} ELSE UpTo(filter.c)
      multiplier(c) == IF depthwise THEN c % filter.n ELSE c
      y(p, f) == p[3] * l.d.stride[1] + f[1] * l.d.dilation[1] - l.d.pads[1][1]
      x(p, f) == p[4] * l.d.stride[2] + f[2] * l.d.dilation[2] - l.d.pads[2][1]
      taps(p) == inputs(p[2]) \X UpTo(filter.h) \X UpTo(filter.w)
      inside(p, t) == y(p, Tail(t)) \in UpTo(in.h) /\ x(p, Tail(t)) \in UpTo(in.w)
      outputs == IF depthwise THEN filter.c * filter.n ELSE filter.n
  IN {Write(1, Offset(out, l.d.layout, p[1], p[2], p[3], p[4]),
            {<<"weight", Offset(filter, filterLayout, multiplier(p[2]), t[1], t[2], t[3])>> : t \in taps(p)}
              \cup {In1(Offset(read, l.d.layout, p[1], t[1], y(p, Tail(t)), x(p, Tail(t)))) :
                      t \in {u \in taps(p) : inside(p, u)}}
              \cup (IF l.d.bias THEN {<<"bias", p[2]>>} ELSE {})) :
        p \in UpTo(out.n) \X UpTo(outputs) \X UpTo(out.h) \X UpTo(out.w)}

FullyConnected(l) ==
  LET N == l.outs[1].shape[2]
      K == Product(Tail(l.ins[1].shape))
  IN {Write(1, n * N + o,
            {In1(n * K + i) : i \in UpTo(K)}
              \cup {<<"weight", IF l.d.transpose THEN o * K + i ELSE i * N + o>> : i \in UpTo(K)}
              \cup (IF l.d.bias THEN {<<"bias", o>>} ELSE {})) :
        n \in UpTo(l.ins[1].shape[1]), o \in UpTo(N)}

(* The first two dimensions only, whatever the rank.                       *)
Softmax(l) ==
  LET channels == l.ins[1].shape[2]
  IN {Write(1, n * channels + c, {In1(n * channels + i) : i \in UpTo(channels)}) :
        n \in UpTo(l.ins[1].shape[1]), c \in UpTo(channels)}

BatchNormImpl(l) ==
  LET image == Image(l.ins[1], l.d.layout)
  IN {LET at == Offset(image, l.d.layout, p[1], p[2], p[3], p[4])
      IN Write(1, at, {In1(at)} \cup {<<t, p[2]>> : t \in {"mean", "variance", "beta", "gamma"}}) :
        p \in Pixels(image)}

L2Normalization(l) ==
  LET image == Image(l.ins[1], l.d.layout)
  IN {Write(1, Offset(image, l.d.layout, p[1], p[2], p[3], p[4]),
            {In1(Offset(image, l.d.layout, p[1], c, p[3], p[4])) : c \in UpTo(image.c)}) : p \in Pixels(image)}

Around(i, radius, size) == (i - radius .. i + radius) \cap UpTo(size)

(* The rows and columns of an image in NCHW, also when the layout is not.  *)
NormalizeWithin(l) ==
  LET image == Image(l.ins[1], "NCHW")
      radius == l.d.normSize \div 2
  IN {Write(1, Offset(image, "NCHW", p[1], p[2], p[3], p[4]),
            {In1(Offset(image, "NCHW", p[1], p[2], j, i)) :
               j \in Around(p[3], radius, image.h), i \in Around(p[4], radius, image.w)}) : p \in Pixels(image)}

NormalizeAcross(l) ==
  LET image == Image(l.ins[1], l.d.layout)
  IN {Write(1, Offset(image, l.d.layout, p[1], p[2], p[3], p[4]),
            {In1(Offset(image, l.d.layout, p[1], k, p[3], p[4])) :
               k \in Around(p[2], l.d.normSize \div 2, image.c)}) : p \in Pixels(image)}

Normalization(l) == IF l.d.across THEN NormalizeAcross(l) ELSE NormalizeWithin(l)

TexelsUnclamped(o, in, out) == {(o * in) \div out, (o * in) \div out + 1}  \* mutant

(* The texels at and after the projection of an output pixel.              *)
Texels(o, in, out) == {(o * in) \div out, Min({(o * in) \div out + 1, in - 1})}

ResizeBilinear(l) ==
  LET in == Image(l.ins[1], l.d.layout)
      out == Image(l.outs[1], l.d.layout)
  IN {Write(1, Offset(out, l.d.layout, p[1], p[2], p[3], p[4]),
            {In1(Offset(in, l.d.layout, p[1], p[2], y, x)) :
               y \in Texels(p[3], in.h, out.h), x \in Texels(p[4], in.w, out.w)}) :
        p \in UpTo(in.n) \X UpTo(in.c) \X UpTo(out.h) \X UpTo(out.w)}
=============================================================================
