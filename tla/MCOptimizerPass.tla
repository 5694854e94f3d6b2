-------------------------- MODULE MCOptimizerPass --------------------------
(* Small instances of OptimizerPass for TLC: tensors of four elements, two *)
(* rotations of the dimensions that are each other's inverse.              *)
EXTENDS OptimizerPass

PermsValue == {<<2, 3, 1>>, <<3, 1, 2>>}
ShapesValue == {<<1, 2, 2>>}
=============================================================================
