------------------------------ MODULE MCPasses ------------------------------
(***************************************************************************)
(* Functions of a few ops under several command lines: chains that two      *)
(* fusions compete for, intermediates with a second use, constants,         *)
(* KV-cache updates above and below their attention, declared types that    *)
(* inference corrects or rejects, tiles over the shared-memory budget.      *)
(***************************************************************************)
EXTENDS Passes

F(args, ops, ret, results) ==
  [args |-> args, inputs |-> args, ops |-> ops, ret |-> ret, results |-> results]

M   == Ranked(<<32, 32>>, "bf16")
Big == Ranked(<<128, 128>>, "f32")
Dyn == Ranked(<<Dynamic, 32>>, "bf16")
V   == Ranked(<<32>>, "bf16")
A(n) == <<0, n>>
R(n) == <<n, 1>>
C(id, t, splat, v) == Op(id, "constant", <<>>, <<t>>, "value" :> [splat |-> splat, v |-> <<v>>])
U(id, kind, args, t) == Op(id, kind, args, <<t>>, <<>>)

\* rmsnorm -> matmul -> bias -> gelu, and a residual add.
Mlp == F(<<M, M, V>>,
  <<Op(1, "rmsnorm", <<A(1)>>, <<M>>, "epsilon" :> 5), U(2, "matmul", <<R(1), A(2)>>, M),
    U(3, "bias", <<R(2), A(3)>>, M), U(4, "gelu", <<R(3)>>, M), U(5, "add", <<R(4), A(1)>>, M)>>,
  <<R(5)>>, <<M>>)

\* The normalized input is used twice; a product of two shared operands.
Shared == F(<<Big, Big>>,
  <<U(1, "rmsnorm", <<A(1)>>, Big), U(2, "matmul", <<R(1), A(2)>>, Big),
    U(3, "add", <<R(2), R(1)>>, Big), U(4, "softmax", <<R(3)>>, Big)>>,
  <<R(4), R(2)>>, <<Big, Big>>)

\* add -> rmsnorm -> matmul: two fusions want the rmsnorm.
Contended == F(<<Dyn, Dyn, M, Ranked(<<32, 8>>, "bf16")>>,
  <<U(1, "add", <<A(1), A(2)>>, Dyn), Op(2, "rmsnorm", <<R(1)>>, <<Dyn>>, "epsilon" :> 5),
    U(3, "matmul", <<R(2), A(3)>>, Dyn), U(4, "matmul", <<A(3), A(4)>>, Ranked(<<32, 8>>, "bf16"))>>,
  <<R(3), R(4)>>, <<Dyn, Ranked(<<32, 8>>, "bf16")>>)

\* Constants: zeros on both sides, gelu and silu of constants, softmax of a splat
\* and of another constant, and an integer constant that is not folded.
Constants == F(<<M>>,
  <<C(1, M, TRUE, "zero"), C(2, M, TRUE, "c"), C(3, M, FALSE, "d"), U(4, "silu", <<R(1)>>, M),
    U(5, "add", <<R(4), A(1)>>, M), U(6, "gelu", <<R(3)>>, M), U(7, "add", <<R(5), R(6)>>, M),
    U(8, "softmax", <<R(2)>>, M), U(9, "add", <<R(7), R(8)>>, M), U(10, "softmax", <<R(3)>>, M)>>,
  <<R(9), R(10)>>, <<M, M>>)

Integers8 == F(<<Unranked("i8")>>,
  <<C(1, Ranked(<<4>>, "i8"), TRUE, "c"), U(2, "gelu", <<R(1)>>, Unranked("i8")),
    U(3, "add", <<A(1), R(2)>>, Unranked("i8"))>>,
  <<R(3)>>, <<Unranked("i8")>>)

\* Explicit axes: a softmax of a splat that is not square, and of a masked sum.
W == Ranked(<<2, 4>>, "f32")
Axes == F(<<W>>,
  <<C(1, W, TRUE, "c"), Op(2, "softmax", <<R(1)>>, <<W>>, "axis" :> 0), U(3, "add", <<R(2), A(1)>>, W),
    Op(4, "softmax", <<R(3)>>, <<W>>, "axis" :> 0)>>,
  <<R(4)>>, <<W>>)

\* A silu that declares another type than its operand's, a zero.
Mistyped == F(<<W>>,
  <<C(1, W, TRUE, "zero"), U(2, "silu", <<R(1)>>, M), C(3, M, TRUE, "zero"),
    U(4, "add", <<R(2), R(3)>>, M), U(5, "rmsnorm", <<R(4)>>, M)>>,
  <<R(5)>>, <<M>>)

\* The operands of an add have two types.
BadAdd == F(<<M, V>>, <<U(1, "add", <<A(1), A(2)>>, M)>>, <<R(1)>>, <<M>>)

\* The updated cache is used after the attention, or between the two.
Q4 == Ranked(<<1, 2, 4, 8>>, "bf16")
KvAbove == F(<<Q4, Q4, Q4, Q4>>,
  <<U(1, "kv_cache_update", <<A(2), A(3), A(4)>>, Q4), U(2, "attention", <<A(1), A(3), A(4)>>, Q4),
    U(3, "rope", <<R(1), A(1), A(1)>>, Q4)>>, <<R(2), R(3)>>, <<Q4, Q4>>)
KvBetween == F(<<Q4, Q4, Q4, Q4>>,
  <<U(1, "kv_cache_update", <<A(2), A(3), A(4)>>, Q4), U(2, "rope", <<R(1), A(1), A(1)>>, Q4),
    U(3, "attention", <<A(1), A(3), A(4)>>, Q4)>>, <<R(3), R(2)>>, <<Q4, Q4>>)
Qkv == F(<<Ranked(<<1, 4, 16>>, "bf16"), Ranked(<<16, 48>>, "bf16"), Q4>>,
  <<Op(1, "qkv_projection", <<A(1), A(2)>>, <<Q4, Q4, Q4>>, "num_heads" :> 2),
    U(2, "attention", <<<<1, 1>>, <<1, 2>>, <<1, 3>>>>, Q4),
    U(3, "kv_cache_update", <<A(3), <<1, 2>>, <<1, 3>>>>, Q4)>>,
  <<R(2), R(3)>>, <<Q4, Q4>>)

\* Masked softmax, where the declared type of the sum is corrected by inference.
Masked == F(<<M, M>>,
  <<U(1, "add", <<A(1), A(2)>>, Big), U(2, "softmax", <<R(1)>>, M), U(3, "gelu", <<A(2)>>, M)>>,
  <<R(2)>>, <<M>>)

\* K differs; the function's declared result does not follow from its operands;
\* the entry block does not match the signature; an unranked matmul.
BadK == F(<<M, Ranked(<<16, 32>>, "bf16")>>, <<U(1, "matmul", <<A(1), A(2)>>, M)>>, <<R(1)>>, <<M>>)
BadResult == F(<<M, Ranked(<<32, 8>>, "bf16")>>, <<U(1, "matmul", <<A(1), A(2)>>, M)>>, <<R(1)>>, <<M>>)
BadEntry == [BadK EXCEPT !.inputs[1] = V]
BadRank  == F(<<V, M>>, <<U(1, "matmul", <<A(1), A(2)>>, M)>>, <<R(1)>>, <<M>>)
BadHeads == [Qkv EXCEPT !.ops[1].attrs = "num_heads" :> 3]

MCPrograms == {Mlp, Shared, Contended, Constants, Integers8, KvAbove, KvBetween, Qkv, Masked,
               Axes, Mistyped, BadAdd, BadK, BadResult, BadEntry, BadRank, BadHeads}

AllFusions == <<"fuse-rmsnorm-matmul", "fuse-matmul-bias-gelu", "fuse-residual-rmsnorm",
                "fuse-softmax-mask">>
Annotate   == <<"infer-tile-layout", "plan-memory">>

MCCommandLines ==
  {<<"infer-shapes", "canonicalize">> \o AllFusions \o <<"fuse-kv-append-attention">> \o Annotate
      \o <<"lower-to-cuda", "emit-kernel-report">>,
   <<"infer-shapes">> \o AllFusions \o Annotate \o <<"emit-kernel-report", "lower-to-hip">>,
   <<"infer-shapes">> \o Reverse(AllFusions) \o <<"lower-to-hip">> \o Annotate,
   <<"canonicalize", "fuse-kv-append-attention", "infer-shapes", "lower-to-cuda",
     "fuse-rmsnorm-matmul", "lower-to-hip">> \o Annotate,
   <<"plan-memory">> \o Annotate \o <<"fuse-residual-rmsnorm", "canonicalize",
     "emit-kernel-report", "infer-shapes">>}
=============================================================================
