------------------------------ MODULE Kernels ------------------------------
(***************************************************************************)
(* The kernels of src/kernels/generated as programs of ThreadBlock, their   *)
(* launch_* entries, and the CPU references of src/kernels/cpu they must    *)
(* agree with.  `s` is the shape of a launch, `b` a block index, `t` the    *)
(* linear thread index (ty * kBlockN + tx).                                 *)
(***************************************************************************)
EXTENDS KernelOps

CONSTANTS kBlock,          \* kBlockM = kBlockN = kBlockK of the tiled matmuls (16)
          kBlockThreads,   \* threads of the row reductions and element maps (256)
          kMaxBlocks,      \* cap on the grid of the element maps (65535)
          Shapes           \* launch name -> [kernel, its dimensions]

\* A row of the 2-d block lies in one warp, warps are full, and the partials of
\* a block fit the warp that finishes the reduction.
ASSUME GeometryAssumption ==
  /\ PK_WARP_SIZE % kBlock = 0
  /\ kBlockThreads % PK_WARP_SIZE = 0
  /\ kBlockThreads \div PK_WARP_SIZE <= PK_WARP_SIZE

----------------------------------------------------------------------------
(* Reductions over the warps of a block.                                    *)
kNumWarps == kBlockThreads \div PK_WARP_SIZE

\* The warps' partials meet in shared memory and warp 0 finishes: the result is
\* in its lanes.
block_reduce(fn, identity, t) ==
  LET lane == t % PK_WARP_SIZE
      warp == t \div PK_WARP_SIZE
  IN warp_reduce(fn, PK_WARP_SIZE)
     \o If(lane = 0, Put("save", <<"partial", warp>> :> fn))
     \o pk_syncthreads
     \o (IF t < kNumWarps THEN Reg("load", {<<"partial", lane>>}, "v")
                          ELSE Reg("let", {}, identity))
     \o If(warp = 0, warp_reduce(fn, PK_WARP_SIZE))

block_reduce_sum(t) == block_reduce("sum", Zero, t)
block_reduce_max(t) == block_reduce("max", MaxOf({}), t)

\* Thread 0 publishes what the block reduced; everybody reads it.
Publish(cell, fn, into, t) ==
  If(t = 0, Put("save", cell :> fn)) \o pk_syncthreads \o Reg("load", {cell}, into)

RowSmem == {<<"partial", w>> : w \in Below(kNumWarps)}
             \cup {<<"s_max", 0>>, <<"s_sum", 0>>, <<"s_rms", 0>>}
----------------------------------------------------------------------------
(* One block per row.                                                       *)

\* Mutant of Pairs: every thread handles the odd tail.
Pairs_TailByAll(n, t, stride) ==
  UNION {{i, i + 1} : i \in Loop(2 * t, n - (n % 2), 2 * stride)}
    \cup (IF n % 2 = 1 THEN {n - 1} ELSE {})

\* The elements thread t handles: pairs of the even bulk, and the odd tail for
\* the first thread alone.
Pairs(n, t, stride) ==
  UNION {{i, i + 1} : i \in Loop(2 * t, n - (n % 2), 2 * stride)}
    \cup (IF n % 2 = 1 /\ t = 0 THEN {n - 1} ELSE {})

rmsnorm_kernel(s, b, t) ==
  LET x(i)  == At("X", s.cols, b, i)
      mine  == Pairs(s.cols, t, kBlockThreads)
      y(i)  == IF s.has_weight THEN [f |-> "scaled_norm", x |-> x(i), w |-> At("W", s.cols, 0, i)]
               ELSE [f |-> "norm", x |-> x(i)]
  IN Reg("let", {}, Total([i \in mine |-> Mul(x(i), x(i))]))
     \o block_reduce_sum(t)
     \o Publish(<<"s_rms", 0>>, "rms", "rms", t)
     \o Store([c \in {b} \X mine |-> y(c[2])])

launch_rmsnorm(s) ==
  PK_LAUNCH(Below(s.rows), kBlockThreads, PK_WARP_SIZE, RowSmem,
            Below(s.rows) \X Below(s.cols), LAMBDA b, t : rmsnorm_kernel(s, b, t))

softmax_kernel(s, b, t) ==
  LET x(i) == At("X", s.cols, b, i)
      mine == Loop(t, s.cols, kBlockThreads)
  IN Reg("let", {}, MaxOf({x(i) : i \in mine}))
     \o block_reduce_max(t)
     \o Publish(<<"s_max", 0>>, "max", "m", t)
     \o Reg("exps", {}, {x(i) : i \in mine})
     \o block_reduce_sum(t)
     \o Publish(<<"s_sum", 0>>, "sum", "v", t)
     \o Store([c \in {b} \X mine |-> [f |-> "softmax", x |-> x(c[2])]])

launch_softmax(s) ==
  PK_LAUNCH(Below(s.rows), kBlockThreads, PK_WARP_SIZE, RowSmem,
            Below(s.rows) \X Below(s.cols), LAMBDA b, t : softmax_kernel(s, b, t))
----------------------------------------------------------------------------
(* Element maps: a flat grid-stride loop.                                   *)
MapBlocks(n) ==
  LET blocks == CeilDiv(n \div 2, kBlockThreads)
  IN IF blocks < 1 THEN 1 ELSE IF blocks > kMaxBlocks THEN kMaxBlocks ELSE blocks

gelu_kernel(s, b, t) ==
  Store([c \in {0} \X Pairs(s.n, b * kBlockThreads + t, MapBlocks(s.n) * kBlockThreads) |->
           [f |-> "value", x |-> pk_float2bf16(gelu_one(At("X", s.n, 0, c[2])))]])

launch_gelu(s) ==
  PK_LAUNCH(Below(MapBlocks(s.n)), kBlockThreads, PK_WARP_SIZE, {}, {0} \X Below(s.n),
            LAMBDA b, t : gelu_kernel(s, b, t))

silu_kernel(s, b, t) ==
  Store([c \in {0} \X Pairs(s.n, b * kBlockThreads + t, MapBlocks(s.n) * kBlockThreads) |->
           [f |-> "value", x |-> pk_float2bf16(silu_one(At("X", s.n, 0, c[2])))]])

launch_silu(s) ==
  PK_LAUNCH(Below(MapBlocks(s.n)), kBlockThreads, PK_WARP_SIZE, {}, {0} \X Below(s.n),
            LAMBDA b, t : silu_kernel(s, b, t))

\* KV-cache append: the flat index is taken apart into (bh, seq, d).
kv_cache_update_kernel(s, b, t) ==
  LET gid  == b * kBlockThreads + t
      S    == s.cache + s.new
      d    == gid % s.D
      seq  == (gid \div s.D) % S
      bh   == (gid \div s.D) \div S
      from == IF seq < s.cache THEN Num(<<"cache", 0, bh * s.cache * s.D + seq * s.D + d>>)
              ELSE Num(<<"new", 0, bh * s.new * s.D + (seq - s.cache) * s.D + d>>)
  IN If(gid < s.BH * S * s.D, Store(<<0, gid>> :> [f |-> "value", x |-> from]))

launch_kv_cache_update(s) ==
  LET total == s.BH * (s.cache + s.new) * s.D
  IN PK_LAUNCH(Below(CeilDiv(total, kBlockThreads)), kBlockThreads, PK_WARP_SIZE, {},
               {0} \X Below(total), LAMBDA b, t : kv_cache_update_kernel(s, b, t))
----------------------------------------------------------------------------
(* Tiled matmul: stage a kBlock-wide slice of A and B, meet, accumulate,    *)
(* meet.  The fused and the quantized kernels stage, multiply or store      *)
(* differently.                                                             *)
Grid2(M, N, tile) == Below(CeilDiv(N, tile)) \X Below(CeilDiv(M, tile))
Tiles(width) == {"As", "Bs", "Cs"} \X Below(width) \X Below(width)
ElemOr0(inside, x, width, r, c) == IF inside THEN At(x, width, r, c) ELSE Zero
KTiles(s, width, body(_)) == FlattenSeq([k \in 1..CeilDiv(s.K, width) |-> body(k - 1)])

tx(t) == t % kBlock
ty(t) == t \div kBlock
row(b, t) == b[2] * kBlock + ty(t)
col(b, t) == b[1] * kBlock + tx(t)

StageA(s, b, t, k) ==
  LET aCol == k * kBlock + tx(t)
  IN <<"As", ty(t), tx(t)>> :> ElemOr0(row(b, t) < s.M /\ aCol < s.K, "A", s.K, row(b, t), aCol)

StageB(s, b, t, k) ==
  LET bRow == k * kBlock + ty(t)
  IN <<"Bs", ty(t), tx(t)>> :> ElemOr0(bRow < s.K /\ col(b, t) < s.N, "B", s.N, bRow, col(b, t))

Products(t) == {<<<<"As", ty(t), kk>>, <<"Bs", kk, tx(t)>>>> : kk \in Below(kBlock)}
Touched(pairs) == {p[1] : p \in pairs} \cup {p[2] : p \in pairs}
Accumulate(t) == Reg("mac", Touched(Products(t)), Products(t))

StoreC(s, b, t, how) ==
  If(row(b, t) < s.M /\ col(b, t) < s.N, Store(<<row(b, t), col(b, t)>> :> how))

Launch2(s, prog(_, _)) ==
  PK_LAUNCH(Grid2(s.M, s.N, kBlock), kBlock * kBlock, PK_WARP_SIZE, Tiles(kBlock),
            Below(s.M) \X Below(s.N), prog)

\* Mutant of matmul_kernel: the barrier after the accumulation is missing.
matmul_kernel_OneBarrier(s, b, t) ==
  KTiles(s, kBlock, LAMBDA k :
     Put("put", StageA(s, b, t, k) @@ StageB(s, b, t, k))
     \o pk_syncthreads \o Accumulate(t))
  \o StoreC(s, b, t, [f |-> "acc"])

\* Mutant of matmul_kernel: threads outside C return before the first barrier.
matmul_kernel_EarlyReturn(s, b, t) ==
  If(row(b, t) < s.M /\ col(b, t) < s.N,
     KTiles(s, kBlock, LAMBDA k :
        Put("put", StageA(s, b, t, k) @@ StageB(s, b, t, k))
        \o pk_syncthreads \o Accumulate(t) \o pk_syncthreads)
     \o StoreC(s, b, t, [f |-> "acc"]))

matmul_kernel(s, b, t) ==
  KTiles(s, kBlock, LAMBDA k :
     Put("put", StageA(s, b, t, k) @@ StageB(s, b, t, k))
     \o pk_syncthreads \o Accumulate(t) \o pk_syncthreads)
  \o StoreC(s, b, t, [f |-> "acc"])

launch_matmul(s) == Launch2(s, LAMBDA b, t : matmul_kernel(s, b, t))

\* Prologue: the row's rms over the lanes of the row; A is staged normalized and
\* rounded to bf16.
fused_rmsnorm_matmul_kernel(s, b, t) ==
  LET x(k) == At("A", s.K, row(b, t), k)
      mine == IF row(b, t) < s.M THEN Loop(tx(t), s.K, kBlock) ELSE {}
  IN Reg("let", {}, Total([k \in mine |-> Mul(x(k), x(k))]))
     \o warp_reduce("sum", kBlock)
     \o Reg("rms", {}, {})
     \o KTiles(s, kBlock, LAMBDA k :
          Put("norm", StageA(s, b, t, k)) \o Put("put", StageB(s, b, t, k))
          \o pk_syncthreads \o Accumulate(t) \o pk_syncthreads)
     \o StoreC(s, b, t, [f |-> "acc"])

launch_fused_rmsnorm_matmul(s) == Launch2(s, LAMBDA b, t : fused_rmsnorm_matmul_kernel(s, b, t))

\* Epilogue: round, add the column's bias, round, gelu, round.
fused_matmul_bias_gelu_kernel(s, b, t) ==
  KTiles(s, kBlock, LAMBDA k :
     Put("put", StageA(s, b, t, k) @@ StageB(s, b, t, k))
     \o pk_syncthreads \o Accumulate(t) \o pk_syncthreads)
  \o StoreC(s, b, t, [f |-> "bias_gelu", bias |-> At("bias", s.N, 0, col(b, t))])

launch_fused_matmul_bias_gelu(s) ==
  Launch2(s, LAMBDA b, t : fused_matmul_bias_gelu_kernel(s, b, t))

\* int8 weights: dequantized by the column's scale as they are multiplied.
matmul_int8_kernel(s, b, t) ==
  LET scale == ElemOr0(col(b, t) < s.N, "scale", s.N, 0, col(b, t))
  IN KTiles(s, kBlock, LAMBDA k :
        Put("put", StageA(s, b, t, k) @@ StageB(s, b, t, k))
        \o pk_syncthreads
        \o Reg("macs", Touched(Products(t)), [pairs |-> Products(t), scale |-> scale])
        \o pk_syncthreads)
     \o StoreC(s, b, t, [f |-> "acc"])

launch_matmul_int8(s) == Launch2(s, LAMBDA b, t : matmul_int8_kernel(s, b, t))
----------------------------------------------------------------------------
(* Tensor-core matmuls: one wave of 2 * kTile lanes per kTile x kTile tile. *)
kLanes == 2 * kTile

\* The cells idx = lane, lane + 32, ... of a tile, each with its value.
TileShare(x, lane, val(_, _)) ==
  [c \in {<<x, i \div kTile, i % kTile>> : i \in Loop(lane, kTile * kTile, kLanes)} |->
     val(c[2], c[3])]

LaunchTiles(s, prog(_, _)) ==
  PK_LAUNCH(Grid2(s.M, s.N, kTile), kLanes, kLanes, Tiles(kTile), Below(s.M) \X Below(s.N), prog)

\* Mutant of AccRow: a half-wave owns consecutive rows.
AccRow_Halves(e, t) == e + (kTile \div 2) * (t \div kTile)

\* AMD WMMA: element e of a lane's accumulator belongs to this row of the tile.
AccRow(e, t) == 2 * e + t \div kTile

\* The lanes stage both tiles, build their fragments and issue one WMMA.
matmul_wmma_kernel(s, b, t) ==
  LET m0  == b[2] * kTile
      n0  == b[1] * kTile
      l15 == t % kTile
      A(k, r, c) == ElemOr0(m0 + r < s.M /\ k * kTile + c < s.K, "A", s.K, m0 + r, k * kTile + c)
      B(k, r, c) == ElemOr0(k * kTile + r < s.K /\ n0 + c < s.N, "B", s.N, k * kTile + r, n0 + c)
      frag == [k \in Below(kTile) |-> <<<<"As", l15, k>>, <<"Bs", k, l15>>>>]
      mine == {e \in Below(kTile \div 2) : m0 + AccRow(e, t) < s.M /\ n0 + l15 < s.N}
  IN Reg("fill", {}, Below(kTile \div 2))
     \o KTiles(s, kTile, LAMBDA k :
          Put("put", TileShare("As", t, LAMBDA r, c : A(k, r, c))
                       @@ TileShare("Bs", t, LAMBDA r, c : B(k, r, c)))
          \o pk_syncthreads
          \o Reg("frag", Touched(Range(frag)), frag) \o pk_shfl_xor_sync("wmma", 1)
          \o pk_syncthreads)
     \o Store([q \in {<<m0 + AccRow(e, t), n0 + l15>> : e \in mine} |->
                 [f |-> "elem", e |-> CHOOSE e \in mine : m0 + AccRow(e, t) = q[1]]])

launch_matmul_wmma(s) == LaunchTiles(s, LAMBDA b, t : matmul_wmma_kernel(s, b, t))

\* CUDA MMA: B is staged transposed for its col_major fragment; the accumulator
\* passes through the shared tile Cs, stored row-major.
MmaTerms(e) == {<<<<"As", e[1], k>>, <<"Bs", e[2], k>>>> : k \in Below(kTile)}
StoreLayout(r, c) == <<r, c>>

matmul_mma_kernel(s, b, t) ==
  LET m0 == b[2] * kTile
      n0 == b[1] * kTile
      A(k, r, c) == ElemOr0(m0 + r < s.M /\ k * kTile + c < s.K, "A", s.K, m0 + r, k * kTile + c)
      B(k, r, c) == ElemOr0(k * kTile + c < s.K /\ n0 + r < s.N, "B", s.N, k * kTile + c, n0 + r)
      elems == Below(kTile) \X Below(kTile)
      terms == [e \in elems |-> MmaTerms(e)]
      share == TileShare("Cs", t, StoreLayout)
      mine  == {c \in DOMAIN share : m0 + c[2] < s.M /\ n0 + c[3] < s.N}
  IN Reg("fill", {}, elems)
     \o KTiles(s, kTile, LAMBDA k :
          Put("put", TileShare("As", t, LAMBDA r, c : A(k, r, c))
                       @@ TileShare("Bs", t, LAMBDA r, c : B(k, r, c)))
          \o pk_syncthreads
          \o Reg("mma", Touched(UNION Range(terms)), terms)
          \o pk_syncthreads)
     \o Put("tile", share) \o pk_syncthreads
     \o Instr("store", mine, {}, {<<m0 + c[2], n0 + c[3]>> : c \in mine},
              [q \in {<<m0 + c[2], n0 + c[3]>> : c \in mine} |->
                 [f |-> "cell", c |-> <<"Cs", q[1] - m0, q[2] - n0>>]])

launch_matmul_mma(s) == LaunchTiles(s, LAMBDA b, t : matmul_mma_kernel(s, b, t))
----------------------------------------------------------------------------
(* The CPU references: whole tensors, functions of <<row, column>>.         *)
Tensor(x, rows, cols) == [p \in Below(rows) \X Below(cols) |-> At(x, cols, p[1], p[2])]

launch_matmul_cpu(a, b, M, N, K) ==
  [p \in Below(M) \X Below(N) |->
     pk_float2bf16(Total([k \in Below(K) |-> Mul(a[p[1], k], b[k, p[2]])]))]

launch_rmsnorm_cpu(x, w, rows, cols, weighted) ==
  [p \in Below(rows) \X Below(cols) |->
     LET rms == rms_of(Total([i \in Below(cols) |-> Mul(x[p[1], i], x[p[1], i])]))
         y   == Div(x[p], rms)
     IN pk_float2bf16(IF weighted THEN Mul(y, w[0, p[2]]) ELSE y)]

launch_gelu_cpu(x) == [p \in DOMAIN x |-> pk_float2bf16(gelu_one(x[p]))]
launch_silu_cpu(x) == [p \in DOMAIN x |-> pk_float2bf16(silu_one(x[p]))]

launch_softmax_cpu(x, rows, cols) ==
  [p \in Below(rows) \X Below(cols) |->
     LET row_max == MaxOf({x[p[1], i] : i \in Below(cols)})
         total   == Total([i \in Below(cols) |-> Fn("exp", <<x[p[1], i], row_max>>)])
     IN pk_float2bf16(Mul(Fn("exp", <<x[p], row_max>>), Fn("inv", <<total>>)))]

\* The fused references run the primitives one after the other.
launch_fused_rmsnorm_matmul_cpu(x, w, M, N, K) ==
  launch_matmul_cpu(launch_rmsnorm_cpu(x, x, M, K, FALSE), w, M, N, K)

launch_fused_matmul_bias_gelu_cpu(a, b, bias, M, N, K) ==
  LET mm == launch_matmul_cpu(a, b, M, N, K)
  IN launch_gelu_cpu([p \in DOMAIN mm |-> pk_float2bf16(mm[p] (+) bias[0, p[2]])])

run_int8(a, wq, scale, M, N, K) ==
  [p \in Below(M) \X Below(N) |->
     pk_float2bf16(Total([k \in Below(K) |->
        Mul(a[p[1], k], Mul(wq[k, p[2]], scale[0, p[2]]))]))]

run_append(s) ==
  [p \in {0} \X Below(s.BH * (s.cache + s.new) * s.D) |->
     LET S == s.cache + s.new
         bh == p[2] \div (S * s.D)
         o  == p[2] % (S * s.D)
     IN IF o < s.cache * s.D THEN Num(<<"cache", 0, bh * s.cache * s.D + o>>)
        ELSE Num(<<"new", 0, bh * s.new * s.D + o - s.cache * s.D>>)]
----------------------------------------------------------------------------
(* The lowering passes print the source of a kernel; what the source means   *)
(* is the launch it defines.  The emitters of the two passes are separate    *)
(* copies of each other (src/lib/Passes/LowerToCuda.cpp, LowerToHip.cpp).    *)
emitRmsNormCuda(s)             == launch_rmsnorm(s)
emitGeluCuda(s)                == launch_gelu(s)
emitSiluCuda(s)                == launch_silu(s)
emitMatMulCuda(s)              == launch_matmul(s)
emitSoftmaxCuda(s)             == launch_softmax(s)
emitFusedRmsnormMatmulCuda(s)  == launch_fused_rmsnorm_matmul(s)
emitFusedMatmulBiasGeluCuda(s) == launch_fused_matmul_bias_gelu(s)
emitRmsNormHip(s)              == launch_rmsnorm(s)
emitGeluHip(s)                 == launch_gelu(s)
emitSiluHip(s)                 == launch_silu(s)
emitMatMulHip(s)               == launch_matmul(s)
emitSoftmaxHip(s)              == launch_softmax(s)
emitFusedRmsnormMatmulHip(s)   == launch_fused_rmsnorm_matmul(s)
emitFusedMatmulBiasGeluHip(s)  == launch_fused_matmul_bias_gelu(s)

\* The source a launch was built from: emitted by a pass, or written by hand.
LaunchFor(s) ==
  CASE s.from = "lower-to-cuda" ->
         (CASE s.kernel = "rmsnorm" -> emitRmsNormCuda(s)
            [] s.kernel = "gelu"    -> emitGeluCuda(s)
            [] s.kernel = "silu"    -> emitSiluCuda(s)
            [] s.kernel = "matmul"  -> emitMatMulCuda(s)
            [] s.kernel = "softmax" -> emitSoftmaxCuda(s)
            [] s.kernel = "fused_rmsnorm_matmul"   -> emitFusedRmsnormMatmulCuda(s)
            [] s.kernel = "fused_matmul_bias_gelu" -> emitFusedMatmulBiasGeluCuda(s))
    [] s.from = "lower-to-hip" ->
         (CASE s.kernel = "rmsnorm" -> emitRmsNormHip(s)
            [] s.kernel = "gelu"    -> emitGeluHip(s)
            [] s.kernel = "silu"    -> emitSiluHip(s)
            [] s.kernel = "matmul"  -> emitMatMulHip(s)
            [] s.kernel = "softmax" -> emitSoftmaxHip(s)
            [] s.kernel = "fused_rmsnorm_matmul"   -> emitFusedRmsnormMatmulHip(s)
            [] s.kernel = "fused_matmul_bias_gelu" -> emitFusedMatmulBiasGeluHip(s))
    [] s.from = "hand" ->
         (CASE s.kernel = "matmul_int8" -> launch_matmul_int8(s)
            [] s.kernel = "matmul_wmma" -> launch_matmul_wmma(s)
            [] s.kernel = "matmul_mma"  -> launch_matmul_mma(s)
            [] s.kernel = "kv_cache_update" -> launch_kv_cache_update(s))

\* The reference a launch is compared with.
GoldenFor(s) ==
  CASE s.kernel \in {"matmul", "matmul_wmma", "matmul_mma"} ->
         launch_matmul_cpu(Tensor("A", s.M, s.K), Tensor("B", s.K, s.N), s.M, s.N, s.K)
    [] s.kernel = "fused_rmsnorm_matmul" ->
         launch_fused_rmsnorm_matmul_cpu(Tensor("A", s.M, s.K), Tensor("B", s.K, s.N), s.M, s.N, s.K)
    [] s.kernel = "fused_matmul_bias_gelu" ->
         launch_fused_matmul_bias_gelu_cpu(Tensor("A", s.M, s.K), Tensor("B", s.K, s.N),
                                           Tensor("bias", 1, s.N), s.M, s.N, s.K)
    [] s.kernel = "matmul_int8" ->
         run_int8(Tensor("A", s.M, s.K), Tensor("B", s.K, s.N), Tensor("scale", 1, s.N), s.M, s.N, s.K)
    [] s.kernel = "rmsnorm" ->
         launch_rmsnorm_cpu(Tensor("X", s.rows, s.cols), Tensor("W", 1, s.cols),
                            s.rows, s.cols, s.has_weight)
    [] s.kernel = "softmax" -> launch_softmax_cpu(Tensor("X", s.rows, s.cols), s.rows, s.cols)
    [] s.kernel = "gelu" -> launch_gelu_cpu(Tensor("X", 1, s.n))
    [] s.kernel = "silu" -> launch_silu_cpu(Tensor("X", 1, s.n))
    [] s.kernel = "kv_cache_update" -> run_append(s)

KernelLaunch == Table([l \in DOMAIN Shapes |-> LaunchFor(Shapes[l])])
Golden       == Table([l \in DOMAIN Shapes |-> Table(GoldenFor(Shapes[l]))])
=============================================================================
