---------------------------- MODULE MCAttention ----------------------------
(***************************************************************************)
(* One query row over two keys, a tile each, and three head dimensions on    *)
(* two warps of two lanes, so that one lane is padding.                      *)
(***************************************************************************)
EXTENDS ThreadBlock, Attention

MCShapes ==
  "prefill" :> [S_q |-> 1, S_kv |-> 2, D |-> 3, BH |-> 1, causal |-> TRUE]

\* The values of the constants.
MCShapeTable == MCShapes
MCLaunch     == AttentionLaunch

\* Thread t has finished a tile of keys and waits for the others.
AtTileEnd(t) == AtOp(t, "sync") /\ Ins(t).arg = "tile_end"

(***************************************************************************)
(* src/kernels/generated/attention_prefill.cu:124-125: "tile_max / tile_sum *)
(* are derived from shared (identical in every lane), so m/l stay           *)
(* consistent across the block."                                            *)
(***************************************************************************)
SoftmaxStateAgrees ==
  \A t, u \in Threads :
     AtTileEnd(t) /\ AtTileEnd(u) => reg[t].m = reg[u].m /\ reg[t].l = reg[u].l
=============================================================================
