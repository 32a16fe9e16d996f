----------------------------- MODULE Attention -----------------------------
(***************************************************************************)
(* attention_prefill_kernel (src/kernels/generated/attention_prefill.cu):   *)
(* flash attention with an online softmax, one block per query row, one     *)
(* thread per head dimension.  The scores of a tile of keys are published   *)
(* in shared memory and turned into softmax weights in place, by every      *)
(* thread.  Numbers are those of KernelOps; MaxOf({}) stands for -FLT_MAX.  *)
(***************************************************************************)
EXTENDS KernelOps

CONSTANTS kKeyTile,        \* keys per tile (32)
          AttentionShapes  \* launch name -> [S_q, S_kv, D, BH, causal]

NegInf == MaxOf({})
One    == Num(<<"one">>)

\* expf(x - m), where both may be -FLT_MAX.
expf(x, m) == CASE x = NegInf /\ m = NegInf -> One
                [] x = NegInf /\ m # NegInf -> Zero
                [] OTHER -> Fn("exp", <<x, m>>)

\* fmaxf(m, x) for a running maximum m and a number x.
maxWith(m, x) == IF x = NegInf THEN m ELSE MaxOf(Seen(m) \cup {x})

Score(jj) == <<"smem_score", jj>>
Warp(w)   == <<"smem_warp", w>>

\* The warps' partials meet in warp_buf, warp 0 finishes, and thread 0 leaves the
\* sum in warp_buf[0] for everybody.
block_reduce_sum_broadcast(t, nwarps) ==
  warp_reduce("sum", PK_WARP_SIZE)
  \o If(t % PK_WARP_SIZE = 0, Instr("save", {}, {Warp(t \div PK_WARP_SIZE)}, {}, {}))
  \o pk_syncthreads
  \o (IF t < nwarps THEN Reg("load", {Warp(t)}, {}) ELSE Reg("contrib", {}, Zero))
  \o If(t \div PK_WARP_SIZE = 0, warp_reduce("sum", PK_WARP_SIZE))
  \o If(t = 0, Instr("save", {}, {Warp(0)}, {}, {}))
  \o pk_syncthreads
  \o Reg("load", {Warp(0)}, {})

Each(n, body(_)) == FlattenSeq([k \in 1..n |-> body(k - 1)])

\* One tile of keys: the scores, one reduction each; the tile's maximum; the
\* weights, in place; the weighted sum of the values.
KeyTile(s, b, t, t0, nwarps) ==
  LET active  == t < s.D
      i       == b[1]
      limit   == IF s.causal THEN s.S_kv - s.S_q + i ELSE s.S_kv - 1
      tileLen == IF s.S_kv - t0 < kKeyTile THEN s.S_kv - t0 ELSE kKeyTile
      K(j)    == Mul(Num(<<"Q", b, t>>), Num(<<"K", b[2], j, t>>))
      V(j)    == IF active THEN Num(<<"V", b[2], j, t>>) ELSE Zero
  IN Each(tileLen, LAMBDA jj :
        Reg("contrib", {}, IF active /\ t0 + jj <= limit THEN K(t0 + jj) ELSE Zero)
        \o block_reduce_sum_broadcast(t, nwarps)
        \o If(t = 0, Instr("score", {}, {Score(jj)}, {}, t0 + jj <= limit)))
     \o pk_syncthreads
     \o Each(tileLen, LAMBDA jj : Reg("tile_max", {Score(jj)}, {}))
     \o Reg("m_new", {}, {})
     \o Each(tileLen, LAMBDA jj :
           Reg("weigh", {Score(jj)}, {}) \o Instr("place", {}, {Score(jj)}, {}, {}))
     \o Reg("carry", {}, {})
     \o Each(tileLen, LAMBDA jj : Reg("pv", {Score(jj)}, V(t0 + jj)))
     \o Reg("m", {}, {})
     \o Instr("sync", {}, {}, {}, "tile_end")

attention_prefill_kernel(s, b, t, nwarps) ==
  Each(CeilDiv(s.S_kv, kKeyTile), LAMBDA n : KeyTile(s, b, t, n * kKeyTile, nwarps))
  \o If(t < s.D, Instr("store", {}, {}, {<<b[2], b[1], t>>}, {}))

\* D is rounded up to whole warps; one block per query row and head.
launch_attention_prefill(s) ==
  LET nwarps == CeilDiv(s.D, PK_WARP_SIZE)
  IN PK_LAUNCH(Below(s.S_q) \X Below(s.BH), nwarps * PK_WARP_SIZE, PK_WARP_SIZE,
               {Score(jj) : jj \in Below(kKeyTile)} \cup {Warp(w) : w \in Below(nwarps)},
               Below(s.BH) \X Below(s.S_q) \X Below(s.D),
               LAMBDA b, t : attention_prefill_kernel(s, b, t, nwarps))
----------------------------------------------------------------------------
AttentionReg0 ==
  [v |-> Zero, m |-> NegInf, l |-> Zero, o |-> Zero,
   tile_max |-> NegInf, m_new |-> NegInf, correction |-> Zero, tile_sum |-> Zero, w |-> Zero]

\* What a thread's registers become; c is the one cell it reads.
AttentionRegs(i, r, c) ==
  CASE i.op = "contrib"  -> [r EXCEPT !.v = i.arg, !.tile_max = NegInf]
    [] i.op = "load"     -> [r EXCEPT !.v = c]
    [] i.op = "tile_max" -> [r EXCEPT !.tile_max = maxWith(@, c)]
    [] i.op = "m_new"    ->
         LET m_new == fmaxf(r.m, r.tile_max)
         IN [r EXCEPT !.m_new = m_new, !.tile_sum = Zero,
                      !.correction = IF r.m = NegInf THEN Zero ELSE expf(r.m, m_new)]
    [] i.op = "weigh"    -> [r EXCEPT !.w = expf(c, r.m_new)]
    [] i.op = "place"    -> [r EXCEPT !.tile_sum = @ (+) r.w]
    [] i.op = "carry"    -> [r EXCEPT !.l = Mul(@, r.correction) (+) r.tile_sum,
                                      !.o = Mul(@, r.correction)]
    [] i.op = "pv"       -> [r EXCEPT !.o = @ (+) Mul(c, i.arg)]
    [] i.op = "m"        -> [r EXCEPT !.m = r.m_new]
    [] OTHER -> r

\* What it leaves in the cell it writes.
AttentionMem(i, r) ==
  CASE i.op = "save"  -> r.v
    [] i.op = "score" -> IF i.arg THEN Fn("scaled", <<r.v>>) ELSE NegInf
    [] i.op = "place" -> r.w
    [] i.op = "store" -> pk_float2bf16(IF r.l = Zero THEN Zero ELSE Div(r.o, r.l))
    [] OTHER -> Zero

AttentionExec(i, r, s) ==
  [reg |-> AttentionRegs(i, r, IF i.reads = {} THEN Zero ELSE s[TheCell(i)]),
   mem |-> [c \in i.writes \cup i.stores |-> AttentionMem(i, r)]]

AttentionLaunch ==
  Table([a \in DOMAIN AttentionShapes |-> launch_attention_prefill(AttentionShapes[a])])
=============================================================================
