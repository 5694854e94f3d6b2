--------------------------- MODULE ImportedNetwork ---------------------------
(* The network an importer builds through INetwork: a sequence of layers,  *)
(* each with the slots its inputs are connected to.  A slot is a layer's   *)
(* number and the number of its output, both from one.  While one node of  *)
(* a model is parsed the layers it adds are numbered -1, -2, ... and the   *)
(* result of a parsing function is their sequence; the last one has the    *)
(* node's outputs.                                                         *)
EXTENDS LayerShapes

(* Instead of layers: a ParseException (or a failed assertion), which the  *)
(* parsers catch; or an exception of another class, which they do not.     *)
Thrown == <<>>
Escaped == << <<>> >>

(* A parser's state st, with a call that has thrown.                       *)
Failed(st) == [st EXCEPT !.thrown = TRUE]
Uncaught(st) == [st EXCEPT !.thrown = TRUE, !.escaped = TRUE]

(* TensorShape's constructors throw an InvalidArgumentException.           *)
MaxNumOfTensorDimensions == 4
IsTensorShape(shape) == Len(shape) \in 1 .. MaxNumOfTensorDimensions

Escapes(layers) ==
  layers = Escaped \/ \E k \in DOMAIN layers : \E o \in DOMAIN layers[k].outs : ~IsTensorShape(layers[k].outs[o].shape)

(* Its operator [] does as well: layers that need a dimension of a tensor. *)
IfRank(info, dimension, layers) == IF Rank(info) < dimension THEN Escaped ELSE layers

Info(type, shape) == [type |-> type, shape |-> shape]
NoInfo == Info("none", <<>>)
NoSlot == <<0, 0>>

Reshaped(info, shape) == [info EXCEPT !.shape = shape]

Layer(kind, d, consts, from, outs) ==
  [kind |-> kind, d |-> d, consts |-> consts, from |-> from, outs |-> outs]

NoDescriptor == [none |-> 0]
NoConsts == <<>>

New(k) == <<-k, 1>>

(* A constant tensor: its info and its values.                             *)
Tensor(type, shape, values) == [type |-> type, shape |-> shape, values |-> values]
ConstInfo(c) == Info(c.type, c.shape)

(* The network with the layers of a node added and connected.              *)
Placed(net, node, layers) ==
  LET slot(s) == IF s[1] < 0 THEN <<Len(net) - s[1], s[2]>> ELSE s
  IN net \o [k \in DOMAIN layers |->
               [kind |-> layers[k].kind, d |-> layers[k].d, consts |-> layers[k].consts,
                outs |-> layers[k].outs, node |-> node,
                from |-> [i \in DOMAIN layers[k].from |-> slot(layers[k].from[i])]]]

IsSlot(net, s) == s[1] \in DOMAIN net /\ s[2] \in DOMAIN net[s[1]].outs
SlotInfo(net, s) == net[s[1]].outs[s[2]]

(* Where the slots of tensors are not known before the end, <<0, t>> is    *)
(* that of tensor t until the layer that produces it is connected.         *)
Consumer(t) == <<0, t>>

Connected(net, producers) ==
  LET slot(s) == IF s[1] = 0 /\ s[2] \in DOMAIN producers THEN producers[s[2]] ELSE s
  IN [k \in DOMAIN net |-> [net[k] EXCEPT !.from = [i \in DOMAIN @ |-> slot(@[i])]]]

(* A layer of the network as the checks of Optimize see it.                *)
Described(net, k) ==
  [kind |-> net[k].kind, d |-> net[k].d, consts |-> net[k].consts, outs |-> net[k].outs,
   ins |-> [i \in DOMAIN net[k].from |-> SlotInfo(net, net[k].from[i])]]

----------------------------------------------------------------------------

(* armnnUtils::Permuted.                                                   *)
Permuted(shape, mappings) ==
  [j \in DOMAIN shape |-> shape[CHOOSE i \in DOMAIN shape : mappings[i] + 1 = j]]

PermutedInfo(info, mappings) == Reshaped(info, Permuted(info.shape, mappings))

ElementwiseMax(a, b) == [i \in DOMAIN a |-> Max({a[i], b[i]})]

EvenPadding(size, kernel, stride, same) ==  \* mutant
  LET read == ((size + stride - 1) \div stride - 1) * stride + kernel
  IN IF same /\ read > size THEN <<(read - size) \div 2, (read - size) \div 2>> ELSE <<0, 0>>

(* The padding that keeps the size of an input divided by the stride; one  *)
(* element more behind than in front if it is odd.                         *)
CalcPadding(size, kernel, stride, same) ==
  LET read == ((size + stride - 1) \div stride - 1) * stride + kernel
      missing == IF same /\ read > size THEN read - size ELSE 0
  IN <<missing \div 2, missing - missing \div 2>>

CeilDiv(a, b) == (a + b - 1) \div b

(* A shape with the dimension given as -1 stretched to the elements left,  *)
(* if there is one; Thrown if there are two.                              *)
Stretched(elements, target) ==
  LET stretch == {i \in DOMAIN target : target[i] = -1}
      others == FoldLeft(LAMBDA a, b : a * b, -1, target)
  IN CASE stretch = {} -> target
       [] Cardinality(stretch) = 1 -> [i \in DOMAIN target |-> IF i \in stretch THEN elements \div others ELSE target[i]]
       [] OTHER -> Thrown

(* CalculateReducedOutputTensoInfo.                                        *)
CalculateReducedOutput(shape, axes, keepDims) ==
  IF keepDims THEN [i \in DOMAIN shape |-> IF i \in axes THEN 1 ELSE shape[i]]
  ELSE <<FoldLeftDomain(LAMBDA size, i : IF i \in axes THEN size ELSE size * shape[i], 1, shape)>>

(* ProcessConcatInputTensorInfo of all views: where each begins.           *)
ConcatOrigins(infos, axis) ==
  [v \in DOMAIN infos |->
     [i \in DOMAIN infos[1].shape |->
        IF i = axis THEN FoldLeft(LAMBDA sum, info : sum + info.shape[axis], 0, SubSeq(infos, 1, v - 1)) ELSE 0]]

ConcatSize(infos, axis) == FoldLeft(LAMBDA sum, info : sum + info.shape[axis], 0, infos)
=============================================================================
