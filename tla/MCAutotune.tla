----------------------------- MODULE MCAutotune -----------------------------
(***************************************************************************)
(* The instance of run autotune: two sweeps out of seven, on both sides of *)
(* the gate's regimes, and calls of every driver with                      *)
(* operands that fit and operands that do not.  cuda_run and its kin read  *)
(* the second dimension of B without looking at its rank, so only the CPU  *)
(* references are given a B of rank 1.                                     *)
(***************************************************************************)
EXTENDS Autotune

Args(paths, axis, weight, As, Bs, Cs) ==
    {[paths |-> paths, opts |-> TRUE, axis |-> axis, weight |-> weight,
      A |-> a, B |-> b, C |-> c] : a \in As, b \in Bs, c \in Cs}

Cmds(progs, ops, as) == {[prog |-> p, op |-> o, args |-> a] : p \in progs, o \in ops, a \in as}

Gpu == {"cuda_run", "hip_run"}
Cpu == {"cpu_ref"}
Vec == {<<2, 3>>}
Left == {<<2, 3>>, <<3>>, <<2, 0>>}
Right == {<<3, 2>>, <<2, 3>>}
Four == {<<1, 2, 1, 2>>, <<1, 2, 2, 2>>}

MCCalls ==
    Cmds(Gpu \cup Cpu, {"rmsnorm"},
         Args(2, -1, FALSE, Left, {<<>>}, {<<>>}) \cup Args(2, -1, TRUE, Vec, {<<>>}, {<<3>>, <<2>>}))
    \cup Cmds(Gpu \cup Cpu, {"gelu"}, Args(2, -1, FALSE, Vec, {<<>>}, {<<>>}))
    \cup Cmds(Cpu, {"silu"}, Args(2, -1, FALSE, Vec, {<<>>}, {<<>>}))
    \cup Cmds(Gpu \cup Cpu, {"softmax"},
              Args(2, 1, FALSE, Vec, {<<>>}, {<<>>}) \cup Args(2, -2, FALSE, Vec, {<<>>}, {<<>>}))
    \cup Cmds(Gpu \cup Cpu, {"matmul", "fused_rmsnorm_matmul"},
              Args(3, -1, FALSE, Left, Right, {<<>>}))
    \cup Cmds(Cpu, {"matmul"}, Args(3, -1, FALSE, Vec, {<<3>>}, {<<>>}))
    \cup Cmds(Cpu, {"rmsnorm", "gelu", "softmax"}, Args(2, -1, FALSE, {<<>>}, {<<>>}, {<<>>}))
    \cup Cmds({"attention"}, {"append"}, Args(3, -1, FALSE, {<<>>, <<1, 2, 2>>}, {<<1, 2, 2>>}, {<<>>}))
    \cup Cmds(Gpu \cup Cpu, {"fused_matmul_bias_gelu"},
              Args(4, -1, FALSE, Vec, Right, {<<2>>, <<3>>}))
    \cup Cmds({"wmma_run", "mma_run"}, {"wmma", "mma", "scalar"},
              Args(3, -1, FALSE, Vec, Right, {<<>>}))
    \cup Cmds({"matmul_quant"}, {"fp8sim"}, Args(3, -1, FALSE, Vec, Right, {<<>>}))
    \cup Cmds({"int8_run", "matmul_quant"}, {"int8", "int4"},
              Args(4, -1, FALSE, Vec, Right, {<<2>>, <<3>>}))
    \cup Cmds({"attention"}, {"append"}, Args(3, -1, FALSE, Four, Four, {<<>>}))
    \cup Cmds({"attention"}, {"prefill", "decode"}, Args(4, -1, FALSE, Four, Four, Four))
    \cup Cmds(Gpu \cup Cpu, {"dev", "neg", "conv", "gelu"}, Args(0, -1, FALSE, Vec, {<<>>}, {<<>>}))

Small == [m |-> 2, n |-> 2, k |-> 128, dtype |-> "bf16"]
Large == [m |-> 2, n |-> 2, k |-> 256, dtype |-> "bf16"]

Sweep(op, shape, variants, inject, iters, rebuild) ==
    [op |-> op, shape |-> shape, backend |-> "hip", arch |-> "gfx1101", variants |-> variants,
     inject |-> inject, iters |-> iters, rebuild |-> rebuild, ceiling |-> <<>>]

MCSweeps ==
    {Sweep("matmul", Small, 2, TRUE, 1, FALSE),
     Sweep("matmul", Large, 2, FALSE, 2, TRUE),
     Sweep("fused_matmul_bias_gelu", Small, 1, TRUE, 2, FALSE),
     [Sweep("fused_rmsnorm_matmul", Small, 1, FALSE, 1, FALSE) EXCEPT
         !.backend = "cuda", !.arch = "sm_89", !.ceiling = <<"strict">>],
     Sweep("matmul", Small, 0, TRUE, 1, FALSE),
     Sweep("matmul", Small, 1, FALSE, 0, FALSE),
     Sweep("matmul", Small, -1, FALSE, 1, FALSE)}

MCDevices ==
    {[backend |-> "hip", reports |-> <<"gfx1101", "sramecc+", "xnack-">>],
     [backend |-> "hip", reports |-> <<"none">>],
     [backend |-> "cuda", reports |-> <<8, 9>>]}
=============================================================================
