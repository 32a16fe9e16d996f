----------------------------- MODULE MCKernels -----------------------------
(***************************************************************************)
(* The kernels on small shapes with ragged edges: tails of odd length, M, N *)
(* and K that are no multiples of the tile, more elements than threads.     *)
(***************************************************************************)
EXTENDS ThreadBlock, Kernels

Cuda == "lower-to-cuda"
Hip  == "lower-to-hip"

Mm(from, kernel, M, N, K) ==
  [from |-> from, kernel |-> kernel, M |-> M, N |-> N, K |-> K]
Row(from, kernel, cols, has_weight) ==
  [from |-> from, kernel |-> kernel, rows |-> 1, cols |-> cols, has_weight |-> has_weight]
Map(from, kernel, n) == [from |-> from, kernel |-> kernel, n |-> n]

MCShapes ==
  "mm_c"   :> Mm(Cuda, "matmul", 3, 2, 3)
  @@ "mm_h"   :> Mm(Hip, "matmul", 1, 3, 2)
  @@ "rmm_c"  :> Mm(Cuda, "fused_rmsnorm_matmul", 3, 1, 3)
  @@ "rmm_h"  :> Mm(Hip, "fused_rmsnorm_matmul", 1, 2, 4)
  @@ "mbg_c"  :> Mm(Cuda, "fused_matmul_bias_gelu", 2, 3, 3)
  @@ "mbg_h"  :> Mm(Hip, "fused_matmul_bias_gelu", 1, 1, 3)
  @@ "int8"   :> Mm("hand", "matmul_int8", 2, 3, 3)
  @@ "wmma"   :> Mm("hand", "matmul_wmma", 3, 3, 5)
  @@ "mma"    :> Mm("hand", "matmul_mma", 3, 3, 5)
  @@ "rms_c"  :> Row(Cuda, "rmsnorm", 17, TRUE)
  @@ "rms_h"  :> Row(Hip, "rmsnorm", 4, FALSE)
  @@ "sm_c"   :> Row(Cuda, "softmax", 9, FALSE)
  @@ "sm_h"   :> Row(Hip, "softmax", 3, FALSE)
  @@ "gelu_c" :> Map(Cuda, "gelu", 35)
  @@ "gelu_h" :> Map(Hip, "gelu", 8)
  @@ "silu_c" :> Map(Cuda, "silu", 1)
  @@ "silu_h" :> Map(Hip, "silu", 17)
  @@ "kv"     :> [from |-> "hand", kernel |-> "kv_cache_update",
                  BH |-> 2, cache |-> 1, new |-> 2, D |-> 2]

\* The values of the constants.
MCShapeTable == MCShapes
MCLaunch     == KernelLaunch

(***************************************************************************)
(* The launch computes the reference: no stored element differs from what   *)
(* the CPU reference computes for it, and when the launch has ended every   *)
(* element has been stored.  Over all orders of blocks, threads and warps.  *)
(***************************************************************************)
ComputesReference ==
  /\ DOMAIN output = DOMAIN Golden[job]
  /\ \A c \in DOMAIN output : output[c] \in {Undef, Golden[job][c]}
  /\ Finished => \A c \in DOMAIN output : output[c] # Undef
=============================================================================
