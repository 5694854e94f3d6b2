------------------------ MODULE MCBackendAssignment ------------------------
(* Small instances of BackendAssignment for TLC: two accelerated backends  *)
(* and the reference one.  The first accelerated one has everything but    *)
(* additions in Float16; the second has Float32 only, and no permute.  The *)
(* reference backend has no inputs in Float16 (RefLayerSupport.cpp).       *)
EXTENDS BackendAssignment

All == {"conv", "addition", "permute", "constant"}
Conversions == Converters \X {"any"}
Ends == {"input", "output"} \X Types
BackendsValue == {"GpuAcc", "CpuAcc", CpuRef}

Reference(pairs) == (Ends \ {<<"input", "f16">>}) \cup Conversions \cup pairs

SupportsValue ==
  {[b \in BackendsValue |->
      CASE b = "GpuAcc" -> Ends \cup ((All \X Types) \ {<<"addition", "f16">>})
        [] b = "CpuAcc" -> Ends \cup ({"conv", "addition"} \X {"f32"}) \cup Conversions
        [] OTHER -> Reference(All \X Types)],
   [b \in BackendsValue |->
      CASE b = "GpuAcc" -> Ends \cup ({"conv"} \X Types) \cup Conversions
        [] b = "CpuAcc" -> Ends \cup (All \X {"f32"}) \cup Conversions
        [] OTHER -> Reference(All \X {"f32"})]}

PreferencesValue == {<<"GpuAcc", "CpuAcc">>, <<"GpuAcc", "CpuAcc", CpuRef>>, <<"CpuAcc", "GpuAcc">>, <<CpuRef, "GpuAcc">>}
DevicesValue == {BackendsValue, {"CpuAcc", CpuRef}}
=============================================================================
