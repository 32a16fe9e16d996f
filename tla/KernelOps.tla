----------------------------- MODULE KernelOps -----------------------------
(***************************************************************************)
(* The instructions the kernels of src/kernels/generated are written in     *)
(* here, and what they compute.                                             *)
(*                                                                          *)
(* Values are symbolic.  A number is a bag of terms, read as their fp32 sum *)
(* (the order of a summation is abstracted away: kernels and references     *)
(* agree up to the rounding of the sum); a term is <<f, arguments>> or an   *)
(* input element <<tensor, row, column>>, and 0.0f is the empty bag.  A     *)
(* running maximum is a term over the set of the numbers seen, {} standing  *)
(* for -FLT_MAX.                                                            *)
(* Rounding to bf16 is a term of its own, so a result tells where it was    *)
(* rounded.  Threads are numbered linearly (ty * kBlockN + tx).             *)
(***************************************************************************)
EXTENDS Integers, Sequences, FiniteSets, Bags, TLC, Functions, SequencesExt

CONSTANTS kTile,           \* tile of the tensor-core matmuls (16)
          PK_WARP_SIZE     \* lanes of a warp (32)

Below(n)      == 0..(n - 1)
CeilDiv(a, b) == (a + b - 1) \div b
Loop(i, bound, step) == {k \in i..(bound - 1) : (k - i) % step = 0}

Zero          == EmptyBag
Num(term)     == SetToBag({term})
Fn(f, args)   == Num(<<f, args>>)
Total(f)      == FoldFunction(LAMBDA a, b : a (+) b, Zero, f)
MaxOf(set)      == Fn("max", <<set>>)
Seen(m)       == (CHOOSE term \in DOMAIN m : TRUE)[2][1]
fmaxf(a, b)   == MaxOf(Seen(a) \cup Seen(b))
Mul(a, b)     == IF Zero \in {a, b} THEN Zero ELSE Fn("mul", <<a, b>>)
Div(a, b)     == IF a = Zero THEN Zero ELSE Fn("div", <<a, b>>)

\* The same function, as a table.
Table(f) == f @@ <<>>

\* x[r][c] of a tensor with `width` columns, addressed by its flat index.
At(x, width, r, c) ==
  LET i == r * width + c IN Num(<<x, i \div width, i % width>>)

pk_float2bf16(a) == IF a = Zero THEN Zero ELSE Fn("bf16", <<a>>)
gelu_one(x)      == Fn("gelu", <<x>>)
silu_one(x)      == Fn("silu", <<x>>)
rms_of(ss)       == Fn("rms", <<ss>>)
----------------------------------------------------------------------------
(* Instructions and launches.                                               *)
Instr(op, reads, writes, stores, arg) ==
  <<[op |-> op, reads |-> reads, writes |-> writes, stores |-> stores, arg |-> arg]>>

Reg(op, reads, arg) == Instr(op, reads, {}, {}, arg)    \* into a register
Put(op, f)          == Instr(op, {}, DOMAIN f, {}, f)   \* into shared cells
Store(f)            == Instr("store", {}, {}, DOMAIN f, f)
If(cond, code)      == IF cond THEN code ELSE <<>>

pk_syncthreads == Instr("sync", {}, {}, {}, "barrier")

pk_shfl_xor_sync(fn, offset) ==
  Instr("shfl", {}, {}, {}, [fn |-> fn, offset |-> offset])

Offsets(width) ==
  LET n == CHOOSE k \in 0..width : 2^k = width
  IN [k \in 1..n |-> 2^(n - k)]

warp_reduce(fn, width) ==
  FlattenSeq([k \in DOMAIN Offsets(width) |-> pk_shfl_xor_sync(fn, Offsets(width)[k])])

\* A grid of blocks of n threads, of which every `warp` in a row are a warp.
PK_LAUNCH(grid, n, warp, smem, out, prog(_, _)) ==
  [grid |-> grid, threads |-> Below(n),
   warps |-> {{t \in Below(n) : t \div warp = w} : w \in Below(CeilDiv(n, warp))},
   smem |-> smem, out |-> out,
   prog |-> Table([b \in grid |-> Table([t \in Below(n) |-> prog(b, t)])])]
----------------------------------------------------------------------------
(* What the instructions compute.                                           *)
KernelReg0 == [v |-> Zero, acc |-> Zero, m |-> Zero, rms |-> Zero, frag |-> <<>>, tile |-> <<>>]

\* One lane's tensor-core product: the wave supplies row r of A, the lane holds
\* its column of B (matmul_wmma.cu: lane l holds A-row and B-column l mod kTile).
WmmaTile(r, t) ==
  [e \in DOMAIN r[t].tile |->
     LET row == 2 * e + t \div kTile
     IN r[t].tile[e] (+) Total([k \in Below(kTile) |-> Mul(r[row].frag[1][k], r[t].frag[2][k])])]

Xor(l, offset) == IF (l \div offset) % 2 = 0 THEN l + offset ELSE l - offset

\* The lanes of a warp exchange registers: a butterfly step, or the wave's MMA.
KernelShuffle(i, r) ==
  [t \in DOMAIN r |->
     LET other == r[Xor(t, i.arg.offset)].v
     IN CASE i.arg.fn = "sum"  -> [r[t] EXCEPT !.v = @ (+) other]
          [] i.arg.fn = "max"  -> [r[t] EXCEPT !.v = fmaxf(@, other)]
          [] i.arg.fn = "wmma" -> [r[t] EXCEPT !.tile = WmmaTile(r, t)]]

TheCell(i) == CHOOSE c \in i.reads : TRUE

\* What a thread's registers become.
Regs(i, r, s) ==
  CASE i.op = "let"  -> [r EXCEPT !.v = i.arg]
    [] i.op = "exps" -> [r EXCEPT !.v = SetToBag({<<"exp", <<x, r.m>>>> : x \in i.arg})]
    [] i.op = "rms"  -> [r EXCEPT !.rms = rms_of(r.v)]
    [] i.op = "load" -> [r EXCEPT ![i.arg] = s[TheCell(i)]]
    [] i.op = "mac"  -> [r EXCEPT !.acc = @ (+) Total([p \in i.arg |-> Mul(s[p[1]], s[p[2]])])]
    [] i.op = "macs" -> [r EXCEPT !.acc = @ (+) Total([p \in i.arg.pairs |->
                                             Mul(s[p[1]], Mul(s[p[2]], i.arg.scale))])]
    [] i.op = "fill" -> [r EXCEPT !.tile = [e \in i.arg |-> Zero]]
    [] i.op = "frag" -> [r EXCEPT !.frag = <<[k \in DOMAIN i.arg |-> s[i.arg[k][1]]],
                                          [k \in DOMAIN i.arg |-> s[i.arg[k][2]]]>>]
    [] i.op = "mma"  -> [r EXCEPT !.tile = [e \in DOMAIN @ |-> @[e] (+)
                           Total([p \in i.arg[e] |-> Mul(s[p[1]], s[p[2]])])]]
    [] OTHER -> r

\* What a thread stores for one output element.
Stored(how, r, s) ==
  CASE how.f = "acc"  -> pk_float2bf16(r.acc)
    [] how.f = "bias_gelu" ->
         pk_float2bf16(gelu_one(pk_float2bf16(pk_float2bf16(r.acc) (+) how.bias)))
    [] how.f = "norm" -> pk_float2bf16(Div(how.x, r.rms))
    [] how.f = "scaled_norm" -> pk_float2bf16(Mul(Div(how.x, r.rms), how.w))
    [] how.f = "softmax" ->
         pk_float2bf16(Mul(Fn("exp", <<how.x, r.m>>), Fn("inv", <<r.v>>)))
    [] how.f = "elem" -> pk_float2bf16(r.tile[how.e])
    [] how.f = "cell" -> pk_float2bf16(s[how.c])
    [] how.f = "value" -> how.x

\* What it leaves in the cells it writes.
Mem(i, r, s) ==
  CASE i.op = "put"   -> i.arg
    [] i.op = "norm"  -> [c \in i.writes |-> pk_float2bf16(Div(i.arg[c], r.rms))]
    [] i.op = "save"  -> [c \in i.writes |-> IF i.arg[c] = "rms" THEN rms_of(r.v) ELSE r.v]
    [] i.op = "tile"  -> [c \in i.writes |-> r.tile[i.arg[c]]]
    [] i.op = "store" -> [c \in i.stores |-> Stored(i.arg[c], r, s)]
    [] OTHER -> <<>>

KernelExec(i, r, s) == [reg |-> Regs(i, r, s), mem |-> Mem(i, r, s)]
=============================================================================
