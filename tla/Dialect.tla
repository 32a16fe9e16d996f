------------------------------ MODULE Dialect ------------------------------
(***************************************************************************)
(* A function of the PolyKernel dialect: its block arguments, its ops in    *)
(* order, the values it returns, and the two declared signatures.  An op is *)
(* [id, kind, args, types, attrs]; a value is <<0, n>>, the n-th block      *)
(* argument, or <<id, n>>, the n-th result of op id.  Shape rules and       *)
(* verifiers are those of src/include/PolyKernel/IR/PolyKernelOps.cpp;      *)
(* diagnostics are left out.                                                *)
(***************************************************************************)
EXTENDS Integers, Sequences, FiniteSets, TLC, SequencesExt

Dynamic == -1     \* ShapedType::kDynamic

Ranked(shape, elt) == [ranked |-> TRUE, shape |-> shape, elt |-> elt]
Unranked(elt)      == [ranked |-> FALSE, shape |-> <<>>, elt |-> elt]
Rank(t)            == Len(t.shape)
Back(s)            == s[Len(s)]

Op(id, kind, args, types, attrs) ==
  [id |-> id, kind |-> kind, args |-> args, types |-> types, attrs |-> attrs]
IsOp(o) == o = Op(o.id, o.kind, o.args, o.types, o.attrs)

IsFunction(f) ==
  /\ f = [args |-> f.args, inputs |-> f.inputs, ops |-> f.ops, ret |-> f.ret, results |-> f.results]
  /\ Len(f.ops) \in Nat /\ DOMAIN f.ops = 1..Len(f.ops)
  /\ \A i \in DOMAIN f.ops : IsOp(f.ops[i])

ConstZero == <<"zero">>     \* a constant's elements, all of them zero

\* Operands and results of an op, as the dialect declares them.
operandCount(kind) ==
  CASE kind = "constant" -> 0
    [] kind \in {"rmsnorm", "gelu", "silu", "softmax"} -> 1
    [] kind \in {"add", "matmul", "bias", "qkv_projection", "fused_rmsnorm_matmul",
                 "fused_residual_rmsnorm", "fused_softmax_mask"} -> 2
    [] kind \in {"rope", "attention", "kv_cache_update", "fused_matmul_bias_gelu"} -> 3
    [] kind = "fused_kv_append_attention" -> 4

resultCount(kind) ==
  CASE kind = "qkv_projection" -> 3
    [] kind = "fused_kv_append_attention" -> 2
    [] OTHER -> 1

Kinds == {"constant", "rmsnorm", "gelu", "silu", "softmax", "add", "matmul", "bias", "rope",
          "attention", "kv_cache_update", "qkv_projection", "fused_rmsnorm_matmul",
          "fused_matmul_bias_gelu", "fused_residual_rmsnorm", "fused_softmax_mask",
          "fused_kv_append_attention"}

\* What a parsed module is built of: values with one definition, ops with the
\* operands and results of their kind, constants that hold a dense value.
WellFormedOp(o) ==
  /\ o.id \in Nat \ {0} /\ o.kind \in Kinds
  /\ o.args \in Seq(Nat \X Nat) /\ Len(o.args) = operandCount(o.kind)
  /\ o.types = [n \in 1..resultCount(o.kind) |-> o.types[n]]
  /\ o.kind = "constant" =>
       /\ "value" \in DOMAIN o.attrs
       /\ o.attrs["value"] = [splat |-> o.attrs["value"].splat, v |-> o.attrs["value"].v]
       /\ o.attrs["value"].v = ConstZero => o.attrs["value"].splat = TRUE
       /\ o.types[1].shape \in Seq(Int)

WellFormed(f) ==
  /\ \A i, j \in DOMAIN f.ops : f.ops[i].id = f.ops[j].id => i = j
  /\ \A o \in Range(f.ops) : WellFormedOp(o)
  /\ f.ret \in Seq(Nat \X Nat)

\* The attributes in a, and those of b that a does not set.
Joined(a, b) == [n \in DOMAIN a \cup DOMAIN b |-> IF n \in DOMAIN a THEN a[n] ELSE b[n]]

Attr(o, name, fallback) == IF name \in DOMAIN o.attrs THEN o.attrs[name] ELSE fallback

(* Use-def chains. *)
Block == Op(0, "block_argument", <<>>, <<>>, <<>>)
Def(f, v) == IF v[1] = 0 THEN Block ELSE CHOOSE o \in Range(f.ops) : o.id = v[1]
TypeOf(f, v) == IF v[1] = 0 THEN f.args[v[2]] ELSE Def(f, v).types[v[2]]
OperandTypes(f, o) == [n \in DOMAIN o.args |-> TypeOf(f, o.args[n])]

Uses(f, v) ==
  (UNION {{<<o.id, n>> : n \in {k \in DOMAIN o.args : o.args[k] = v}} : o \in Range(f.ops)})
    \cup {<<0, n>> : n \in {k \in DOMAIN f.ret : f.ret[k] = v}}
hasNUses(f, v, n) == Cardinality(Uses(f, v)) = n
----------------------------------------------------------------------------
(* Verifiers.                                                               *)

\* Every operand is defined above its use (the IR's own dominance check).
Dominates(f) ==
  LET defined(v, i) == v[1] = 0 \/ \E j \in 1..(i - 1) :
                          f.ops[j].id = v[1] /\ v[2] \in DOMAIN f.ops[j].types
  IN /\ \A i \in DOMAIN f.ops : \A v \in Range(f.ops[i].args) : defined(v, i)
     /\ \A v \in Range(f.ret) : defined(v, Len(f.ops) + 1)

FuncOp_verify(f) == f.args = f.inputs

ReturnOp_verify(f) ==
  /\ Len(f.ret) = Len(f.results)
  /\ \A n \in DOMAIN f.ret : TypeOf(f, f.ret[n]) = f.results[n]

\* matmul's a and b; attention's query, key and value.
RankedMatrices(types) == \A n \in DOMAIN types : types[n].ranked /\ Rank(types[n]) >= 2

\* add's SameTypeOperands.
AddOp_verify(f) ==
  \A o \in Range(f.ops) : o.kind = "add" => TypeOf(f, o.args[1]) = TypeOf(f, o.args[2])

MatMulOp_verify(f)    == \A o \in Range(f.ops) : o.kind = "matmul" => RankedMatrices(OperandTypes(f, o))
AttentionOp_verify(f) == \A o \in Range(f.ops) : o.kind = "attention" => RankedMatrices(OperandTypes(f, o))

verify(f) ==
  /\ Dominates(f)
  /\ FuncOp_verify(f) /\ ReturnOp_verify(f)
  /\ AddOp_verify(f) /\ MatMulOp_verify(f) /\ AttentionOp_verify(f)
----------------------------------------------------------------------------
(* Shape inference: the sequence of result types, or failure.               *)
Failure   == [ok |-> FALSE, types |-> <<>>]
Infer(ts) == [ok |-> TRUE, types |-> ts]

inferMatmulResultType(a, b) ==
  IF \/ Rank(a) < 2 \/ Rank(b) < 2
     \/ Back(a.shape) # b.shape[Rank(b) - 1]
     \/ a.elt # b.elt
  THEN Failure
  ELSE Infer(<<[a EXCEPT !.shape[Rank(a)] = Back(b.shape)]>>)

\* The last dimension of a bias must be that of what it is added to.
BiasMismatch(bias, t) ==
  bias.ranked /\ Rank(bias) >= 1 /\ Rank(t) >= 1 /\ Back(bias.shape) # Back(t.shape)

inferSame(T) == Infer(<<T[1]>>)

inferAdd(T) == IF T[1].ranked /\ T[2].ranked /\ T[1] # T[2] THEN Failure ELSE Infer(<<T[1]>>)

inferFusedResidual(T) ==
  IF T[1].ranked /\ T[2].ranked /\ T[1] # T[2] THEN Failure ELSE Infer(<<T[1]>>)

inferMatMul(T) ==
  IF T[1].ranked /\ T[2].ranked THEN inferMatmulResultType(T[1], T[2]) ELSE Failure

inferFusedRmsnormMatmul(T) ==
  IF T[1].ranked /\ T[2].ranked THEN inferMatmulResultType(T[1], T[2]) ELSE Failure

inferFusedMatMulBiasGelu(T) ==
  LET mm == inferMatMul(T)
  IN IF ~mm.ok \/ BiasMismatch(T[3], mm.types[1]) THEN Failure ELSE mm

inferBias(T) == IF ~T[1].ranked \/ BiasMismatch(T[2], T[1]) THEN Failure ELSE Infer(<<T[1]>>)

inferAttention(T)  == Infer(<<T[1]>>)
inferKVCache(T)    == Infer(<<T[1]>>)
inferFusedKV(T)    == Infer(<<T[1], T[2]>>)

\* input [.., seq, hidden] and weight [hidden, 3 * hidden] give three tensors
\* [.., heads, seq, hidden / heads].
inferQKV(T, heads) ==
  LET in     == T[1]
      hidden == Back(in.shape)
      wrong  == \/ ~in.ranked \/ ~T[2].ranked
                \/ Rank(in) < 2
                \/ heads <= 0
                \/ hidden % heads # 0
                \/ /\ Rank(T[2]) >= 2
                   /\ \/ T[2].shape[Rank(T[2]) - 1] # hidden
                      \/ Back(T[2].shape) # 3 * hidden
      qkv    == [in EXCEPT !.shape = SubSeq(@, 1, Len(@) - 2)
                                       \o <<heads, @[Len(@) - 1], hidden \div heads>>]
  IN IF wrong THEN Failure ELSE Infer(<<qkv, qkv, qkv>>)

\* Each op's adaptor form, behind one interface.
inferReturnTypes(o, T) ==
  CASE o.kind \in {"rmsnorm", "gelu", "silu", "softmax", "rope", "fused_softmax_mask"} -> inferSame(T)
    [] o.kind = "add"                    -> inferAdd(T)
    [] o.kind = "fused_residual_rmsnorm" -> inferFusedResidual(T)
    [] o.kind = "matmul"                 -> inferMatMul(T)
    [] o.kind = "fused_rmsnorm_matmul"   -> inferFusedRmsnormMatmul(T)
    [] o.kind = "fused_matmul_bias_gelu" -> inferFusedMatMulBiasGelu(T)
    [] o.kind = "bias"                   -> inferBias(T)
    [] o.kind = "attention"              -> inferAttention(T)
    [] o.kind = "kv_cache_update"        -> inferKVCache(T)
    [] o.kind = "fused_kv_append_attention" -> inferFusedKV(T)
    [] o.kind = "qkv_projection"         -> inferQKV(T, Attr(o, "num_heads", 0))
    [] OTHER                             -> Infer(o.types)     \* not an InferTypeOpInterface
----------------------------------------------------------------------------
(* What a function computes: a term per value, [kind, number, operands], or  *)
(* the constant itself with its shape.  A fused op means the ops it is named *)
(* after; adding zero, and the elementwise functions and the softmax of a    *)
(* constant, are evaluated.                                                  *)
Const(value, t)    == <<"const", IF value.splat THEN 1 ELSE 0, value.v, t.shape>>
Mapped(fn, v)      == IF v = ConstZero THEN v ELSE <<fn, v>>      \* gelu(0) = silu(0) = 0
Uniform(n)         == [splat |-> TRUE, v |-> <<"uniform", ToString(n)>>]

IsConst(x)         == x[1] = "const"
IsZero(x)          == IsConst(x) /\ x[3] = ConstZero
Elementwise(fn, x) == IF IsConst(x) THEN <<"const", x[2], Mapped(fn, x[3]), x[4]>>
                      ELSE <<fn, 0, <<x>>>>
Sum(x, y) ==
  CASE IsZero(x) -> y
    [] ~IsZero(x) /\ IsZero(y) -> x
    [] OTHER -> <<"add", 0, <<x, y>>>>
RmsNorm(x, eps)         == <<"rmsnorm", eps, <<x>>>>
MatMul(x, y)            == <<"matmul", 0, <<x, y>>>>
Bias(x, y)              == <<"bias", 0, <<x, y>>>>
Attention(q, k, v)      == <<"attention", 0, <<q, k, v>>>>
KVCacheUpdate(c, k, v)  == <<"kv_cache_update", 0, <<c, k, v>>>>

\* The axis a softmax normalizes over: the last one unless it says otherwise.
LastAxis     == -1
AxisOf(o, t) == Attr(o, "axis", Rank(t) - 1)

\* A splat constant becomes a uniform one along an axis that it has.
Softmax(x, axis) ==
  LET n == IF axis = LastAxis THEN Len(x[4]) ELSE axis + 1
  IN IF IsConst(x) /\ x[2] = 1 /\ n \in 1..Len(x[4])
     THEN <<"const", 1, Uniform(x[4][n]).v, x[4]>>
     ELSE <<"softmax", axis, <<x>>>>

\* The results of op o when its operands are X.
Results(o, X) ==
  LET eps == Attr(o, "epsilon", 0)
  IN CASE o.kind = "constant"  -> <<Const(o.attrs["value"], o.types[1])>>
       [] o.kind \in {"gelu", "silu"} -> <<Elementwise(o.kind, X[1])>>
       [] o.kind = "add"       -> <<Sum(X[1], X[2])>>
       [] o.kind = "rmsnorm"   -> <<RmsNorm(X[1], eps)>>
       [] o.kind = "matmul"    -> <<MatMul(X[1], X[2])>>
       [] o.kind = "bias"      -> <<Bias(X[1], X[2])>>
       [] o.kind = "softmax"   -> <<Softmax(X[1], Attr(o, "axis", LastAxis))>>
       [] o.kind = "attention" -> <<Attention(X[1], X[2], X[3])>>
       [] o.kind = "kv_cache_update"        -> <<KVCacheUpdate(X[1], X[2], X[3])>>
       [] o.kind = "fused_rmsnorm_matmul"   -> <<MatMul(RmsNorm(X[1], eps), X[2])>>
       [] o.kind = "fused_matmul_bias_gelu" ->
            <<Elementwise("gelu", Bias(MatMul(X[1], X[2]), X[3]))>>
       [] o.kind = "fused_residual_rmsnorm" -> <<RmsNorm(Sum(X[1], X[2]), eps)>>
       [] o.kind = "fused_softmax_mask"     -> <<Softmax(Sum(X[1], X[2]), LastAxis)>>
       [] o.kind = "fused_kv_append_attention" ->
            <<Attention(X[1], X[3], X[4]), KVCacheUpdate(X[2], X[3], X[4])>>
       [] OTHER -> [n \in DOMAIN o.types |-> <<o.kind, n, X>>]

\* The terms of values, when op id has the results M[id].
Value(M, v)   == IF v[1] = 0 THEN <<"arg", v[2], <<>>>> ELSE M[v[1]][v[2]]
Values(M, vs) == [n \in DOMAIN vs |-> Value(M, vs[n])]

Ids(f) == {o.id : o \in Range(f.ops)}

\* The terms of the values a function returns.
Meaning(f) ==
  LET terms[id \in Ids(f)] == LET o == Def(f, <<id, 1>>) IN Results(o, Values(terms, o.args))
  IN Values(terms, f.ret)
=============================================================================
