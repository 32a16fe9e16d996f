---------------------------- MODULE PassesProofs ----------------------------
(***************************************************************************)
(* Proofs about Passes, for any functions and any command lines.            *)
(*                                                                          *)
(* A report names no kernel without a source: a lowering writes a file for  *)
(* every kind of op present, no pass after the transformations changes the  *)
(* kinds of the ops, and a file that is not written whole fails the command.*)
(*                                                                          *)
(* The function keeps its meaning.  A model of a function gives every op    *)
(* the results that it has by its operands; every pattern, the erasing of   *)
(* dead ops and every annotation turn a model of the function before into   *)
(* one of the function after, with the same returned values (Keeps); and a  *)
(* verified function has one model only, its evaluation from the top.       *)
(*                                                                          *)
(* The fusions account for the traffic they remove.  Each trades a tensor   *)
(* for a record of the same type, once and for all: no fused op is absorbed *)
(* by another fusion, and a fusion leaves every other op a reader, so that  *)
(* no tensor dies unrecorded.                                               *)
(***************************************************************************)
EXTENDS Passes, DataLemmas

\* The kinds of op in a function.
OpKinds(f) == {f.ops[i].kind : i \in DOMAIN f.ops}

LEMMA OpsAreOps ==
  ASSUME NEW id, NEW kind, NEW args, NEW types, NEW attrs
  PROVE  /\ IsOp(Op(id, kind, args, types, attrs))
         /\ Op(id, kind, args, types, attrs).kind = kind
BY DEF IsOp, Op

\* New attributes or types leave an op an op of its kind.
LEMMA AnnotatedOp ==
  ASSUME NEW o, IsOp(o), NEW x
  PROVE  /\ IsOp([o EXCEPT !.attrs = x]) /\ [o EXCEPT !.attrs = x].kind = o.kind
         /\ IsOp([o EXCEPT !.types = x]) /\ [o EXCEPT !.types = x].kind = o.kind
         /\ IsOp([o EXCEPT !.args = x])
BY DEF IsOp, Op

\* So a walk that annotates an op leaves a function with the same kinds of op.
LEMMA AnnotatedFunction ==
  ASSUME NEW f, IsFunction(f), NEW n \in DOMAIN f.ops,
         NEW o, IsOp(o), o.kind = f.ops[n].kind
  PROVE  /\ IsFunction([f EXCEPT !.ops[n] = o])
         /\ OpKinds([f EXCEPT !.ops[n] = o]) = OpKinds(f)
<1> DEFINE g == [f EXCEPT !.ops[n] = o]
<1>1. g = [args |-> g.args, inputs |-> g.inputs, ops |-> g.ops, ret |-> g.ret, results |-> g.results]
      /\ g.ops = [f.ops EXCEPT ![n] = o]
  BY DEF IsFunction
<1> HIDE DEF g
<1>2. /\ DOMAIN g.ops = DOMAIN f.ops
      /\ \A i \in DOMAIN f.ops : g.ops[i] = IF i = n THEN o ELSE f.ops[i]
  BY <1>1
<1>3. Len(g.ops) = Len(f.ops)
  BY <1>1, <1>2 DEF IsFunction
<1>4. IsFunction(g)
  BY <1>1, <1>2, <1>3 DEF IsFunction
<1>5. \A i \in DOMAIN f.ops : g.ops[i].kind = f.ops[i].kind
  BY <1>2
<1>6. OpKinds(g) = OpKinds(f)
  BY <1>2, <1>5 DEF OpKinds
<1> QED BY <1>4, <1>6 DEF g

----------------------------------------------------------------------------
(* Rewriting yields functions. *)

\* What is left of a function when ops are dropped is a function.
LEMMA WithoutIsFunction ==
  ASSUME NEW f, IsFunction(f), NEW ids
  PROVE  IsFunction(Without(f, ids))
<1> DEFINE kept == {i \in DOMAIN f.ops : f.ops[i].id \notin ids}
           s == Subsequence(f.ops, kept)
           g == Without(f, ids)
<1>1. g = [args |-> g.args, inputs |-> g.inputs, ops |-> g.ops, ret |-> g.ret, results |-> g.results]
      /\ g.ops = s
  BY DEF IsFunction, Without
<1>2. Len(f.ops) \in Nat /\ kept \in SUBSET (1..Len(f.ops))
  BY DEF IsFunction
<1>3. \A i \in kept : IsOp(f.ops[i])
  BY DEF IsFunction
<1> HIDE DEF g, kept, s
<1>4. PICK m \in Nat : /\ s = [k \in 1..m |-> s[k]]
                       /\ \E h \in [1..m -> kept] :
                             /\ \A k \in 1..m : s[k] = f.ops[h[k]]
                             /\ \A j, k \in 1..m : h[j] = h[k] => j = k
  <2>1. PICK n : n \in Nat /\ kept \in SUBSET (1..n)
    BY <1>2
  <2>2. PICK q : q = f.ops
    OBVIOUS
  <2>3. s = Subsequence(q, kept)
    BY <2>2 DEF s
  <2>4. IsSelection(s, q, kept)
    BY <2>1, <2>3, SubsequenceKeeps
  <2> QED BY <2>2, <2>4 DEF IsSelection
<1>5. \A k \in 1..m : IsOp(s[k])
  BY <1>3, <1>4
<1>6. DOMAIN s = 1..m /\ Len(s) = m
  <2> DEFINE S == {s[k] : k \in 1..m}
  <2>1. s \in Seq(S)
    BY <1>4
  <2> QED BY <1>4, <2>1
<1>7. IsFunction(g)
  BY <1>1, <1>5, <1>6 DEF IsFunction
<1> QED BY <1>7 DEF g

\* A map over the ops, and other values returned, leave a function.
LEMMA MappedIsFunction ==
  ASSUME NEW f, IsFunction(f), NEW h, DOMAIN h = DOMAIN f.ops,
         h = [i \in DOMAIN f.ops |-> h[i]], \A i \in DOMAIN f.ops : IsOp(h[i]), NEW r
  PROVE  IsFunction([f EXCEPT !.ops = h]) /\ IsFunction([f EXCEPT !.ops = h, !.ret = r])
<1> DEFINE n == Len(f.ops)
           S == {h[k] : k \in 1..n}
<1>1. n \in Nat /\ DOMAIN f.ops = 1..n
  BY DEF IsFunction
<1>2. h \in Seq(S)
  BY <1>1
<1>3. Len(h) = n
  BY <1>1, <1>2
<1> HIDE DEF n
<1>4. ASSUME NEW g, g.ops = h,
             g = [args |-> g.args, inputs |-> g.inputs, ops |-> g.ops, ret |-> g.ret,
                  results |-> g.results]
      PROVE  IsFunction(g)
  BY <1>1, <1>3, <1>4 DEF IsFunction
<1>5. ASSUME NEW g, g = [f EXCEPT !.ops = h] \/ g = [f EXCEPT !.ops = h, !.ret = r]
      PROVE  /\ g.ops = h
             /\ g = [args |-> g.args, inputs |-> g.inputs, ops |-> g.ops, ret |-> g.ret,
                     results |-> g.results]
  BY <1>5 DEF IsFunction
<1> QED BY <1>4, <1>5

\* Another op in the place of one of the same id.
LEMMA PutIsFunction ==
  ASSUME NEW f, IsFunction(f), NEW o, IsOp(o)
  PROVE  IsFunction(Put(f, o))
<1> DEFINE h == [i \in DOMAIN f.ops |-> IF f.ops[i].id = o.id THEN o ELSE f.ops[i]]
<1>1. /\ DOMAIN h = DOMAIN f.ops /\ h = [i \in DOMAIN f.ops |-> h[i]]
      /\ \A i \in DOMAIN f.ops : IsOp(h[i])
  BY DEF IsFunction
<1>2. Put(f, o) = [f EXCEPT !.ops = h]
  BY DEF Put
<1> HIDE DEF h
<1>3. IsFunction([f EXCEPT !.ops = h])
  BY <1>1, MappedIsFunction
<1> QED BY <1>2, <1>3

LEMMA ReplaceAllUsesIsFunction ==
  ASSUME NEW f, IsFunction(f), NEW from, NEW to
  PROVE  IsFunction(ReplaceAllUsesWith(f, from, to))
<1> DEFINE sub(s) == Substituted(s, from, to)
           h == [i \in DOMAIN f.ops |-> [f.ops[i] EXCEPT !.args = sub(f.ops[i].args)]]
<1>1. /\ DOMAIN h = DOMAIN f.ops /\ h = [i \in DOMAIN f.ops |-> h[i]]
      /\ \A i \in DOMAIN f.ops : IsOp(h[i])
  BY AnnotatedOp DEF IsFunction
<1>2. ReplaceAllUsesWith(f, from, to) = [f EXCEPT !.ops = h, !.ret = sub(f.ret)]
  BY DEF ReplaceAllUsesWith
<1> HIDE DEF h, sub
<1>3. PICK r : r = sub(f.ret)
  OBVIOUS
<1>4. IsFunction([f EXCEPT !.ops = h, !.ret = r])
  BY <1>1, MappedIsFunction
<1> QED BY <1>2, <1>3, <1>4

LEMMA ReplaceOpIsFunction ==
  ASSUME NEW f, IsFunction(f), NEW o, NEW kind, NEW args, NEW attrs, NEW dead
  PROVE  IsFunction(ReplaceOp(f, o, kind, args, attrs, dead))
<1> DEFINE new == Op(o.id, kind, args, o.types, attrs)
           g == Put(f, new)
<1>1. IsOp(new)
  BY OpsAreOps
<1>2. ReplaceOp(f, o, kind, args, attrs, dead) = Without(g, dead)
  BY DEF ReplaceOp
<1> HIDE DEF new
<1>3. IsFunction(g)
  BY <1>1, PutIsFunction
<1> HIDE DEF g
<1> QED BY <1>2, <1>3, WithoutIsFunction

LEMMA KvFusionIsFunction ==
  ASSUME NEW f, IsFunction(f), NEW o, NEW g \in FuseKvAppendAttentionPattern(f, o)
  PROVE  IsFunction(g)
<1> DEFINE new(u) == Op(o.id, "fused_kv_append_attention", <<o.args[1], u.args[1], o.args[2], o.args[3]>>,
                        <<TypeOf(f, o.args[1]), TypeOf(f, u.args[1])>>,
                        FusedFrom("kv_append_attention", u.types \o o.types))
           put(u) == Put(f, new(u))
<1>1. PICK u : g = Without(ReplaceAllUsesWith(put(u), Result(u), <<o.id, 2>>), {u.id})
  BY DEF FuseKvAppendAttentionPattern
<1>2. IsFunction(put(u))
  <2>1. IsOp(new(u))
    BY OpsAreOps
  <2> HIDE DEF new
  <2> QED BY <2>1, PutIsFunction
<1> HIDE DEF put
<1>3. IsFunction(ReplaceAllUsesWith(put(u), Result(u), <<o.id, 2>>))
  BY <1>2, ReplaceAllUsesIsFunction
<1> QED BY <1>1, <1>3, WithoutIsFunction

LEMMA CanonicalIsFunction ==
  ASSUME NEW f, IsFunction(f), NEW o,
         NEW g \in AddZeroElimination(f, o) \cup GeluConstantFold(f, o)
                     \cup SiluConstantFold(f, o) \cup SoftmaxSplatFold(f, o)
  PROVE  IsFunction(g)
<1>0. ASSUME NEW in, NEW value
      PROVE  IsFunction(ReplaceWithConstant(f, o, in, value))
  <2>1. PICK new : /\ IsOp(new)
                   /\ ReplaceWithConstant(f, o, in, value) = Put(f, new)
    BY OpsAreOps DEF ReplaceWithConstant
  <2> QED BY <2>1, PutIsFunction
<1>1. ASSUME NEW fn, g \in ConstantFold(f, o, fn)
      PROVE  IsFunction(g)
  BY <1>0, <1>1 DEF ConstantFold
<1>2. CASE g \in AddZeroElimination(f, o)
  <2>1. PICK to : g = Without(ReplaceAllUsesWith(f, Result(o), to), {o.id})
    BY <1>2 DEF AddZeroElimination
  <2>2. IsFunction(ReplaceAllUsesWith(f, Result(o), to))
    BY ReplaceAllUsesIsFunction
  <2> QED BY <2>1, <2>2, WithoutIsFunction
<1>3. CASE g \in GeluConstantFold(f, o)
  BY <1>1, <1>3 DEF GeluConstantFold
<1>4. CASE g \in SiluConstantFold(f, o)
  BY <1>1, <1>4 DEF SiluConstantFold
<1>5. CASE g \in SoftmaxSplatFold(f, o)
  BY <1>0, <1>5 DEF SoftmaxSplatFold
<1> QED BY <1>2, <1>3, <1>4, <1>5

\* Every pattern of every pass rewrites a function to a function.
LEMMA RewritesAreFunctions ==
  ASSUME NEW f, IsFunction(f), NEW o, NEW pass \in Greedy, NEW g \in Rewrites(pass, f, o)
  PROVE  IsFunction(g)
<1>1. CASE pass = "fuse-rmsnorm-matmul"
  <2>1. g \in FuseRmsnormMatmulPattern(f, o)
    BY <1>1, Zenon DEF Rewrites
  <2> QED BY <2>1, ReplaceOpIsFunction DEF FuseRmsnormMatmulPattern
<1>2. CASE pass = "fuse-matmul-bias-gelu"
  <2>1. g \in FuseMatmulBiasGeluPattern(f, o)
    BY <1>2, Zenon DEF Rewrites
  <2> QED BY <2>1, ReplaceOpIsFunction DEF FuseMatmulBiasGeluPattern
<1>3. CASE pass = "fuse-residual-rmsnorm"
  <2>1. g \in FuseResidualRmsnormPattern(f, o)
    BY <1>3, Zenon DEF Rewrites
  <2> QED BY <2>1, ReplaceOpIsFunction DEF FuseResidualRmsnormPattern
<1>4. CASE pass = "fuse-softmax-mask"
  <2>1. g \in FuseSoftmaxMaskPattern(f, o)
    BY <1>4, Zenon DEF Rewrites
  <2> QED BY <2>1, ReplaceOpIsFunction DEF FuseSoftmaxMaskPattern
<1>5. CASE pass = "fuse-kv-append-attention"
  <2>1. g \in FuseKvAppendAttentionPattern(f, o)
    BY <1>5, Zenon DEF Rewrites
  <2> QED BY <2>1, KvFusionIsFunction
<1>6. CASE pass = "canonicalize"
  <2>1. g \in AddZeroElimination(f, o) \cup GeluConstantFold(f, o)
                \cup SiluConstantFold(f, o) \cup SoftmaxSplatFold(f, o)
    BY <1>6, Zenon DEF Rewrites
  <2> QED BY <2>1, CanonicalIsFunction
<1> QED BY <1>1, <1>2, <1>3, <1>4, <1>5, <1>6 DEF Greedy, Fusions

----------------------------------------------------------------------------
(* The files and the report. *)

Lowerings == {"lower-to-cuda", "lower-to-hip"}

\* Nothing is rewritten from position n of the command line on.
Settled(n) == \A m \in DOMAIN cmd : cmd[m] \in Greedy => m < n

Shaped ==
  /\ IsFunction(ir)
  /\ Len(cmd) \in Nat /\ DOMAIN cmd = 1..Len(cmd)
  /\ at \in Nat \ {0} /\ pos \in Nat \ {0}
  /\ phase = "run" => at <= Len(cmd)
  /\ phase = "done" => at > Len(cmd)
  /\ DOMAIN files = Range(Emitters)
  /\ IsSeq(kernels)

\* The emitters up to n have written the files of the ops that are there.
WrittenUpTo(n) ==
  \A j \in DOMAIN Emitters :
     j <= n /\ Emitters[j] \in OpKinds(ir) => files[Emitters[j]] \in Lowerings

\* A lowering has dealt with the emitters it has passed,
Lowering == phase = "run" /\ cmd[at] \in Lowerings => WrittenUpTo(pos - 1)

\* and one that has ended, with no rewriting after it, with all of them.
Lowered ==
  phase # "failed" =>
     \A n \in DOMAIN cmd :
        cmd[n] \in Lowerings /\ n < at /\ Settled(n) => WrittenUpTo(Len(Emitters))

\* A running report, and one that has been written with no rewriting after it,
\* name kinds of op that are there.
Collected ==
  phase = "run" /\ cmd[at] = "emit-kernel-report" =>
     \A i \in DOMAIN kernels : kernels[i].kernel \in OpKinds(ir) \cap Tiled

Reported ==
  \A i \in DOMAIN manifest.kernels : \E n \in DOMAIN cmd :
     /\ cmd[n] = "emit-kernel-report" /\ n < at
     /\ Settled(n) => manifest.kernels[i].kernel \in OpKinds(ir) \cap Tiled

SourcesInv == Shaped /\ Lowering /\ Lowered /\ Collected /\ Reported

\* The kernels of the report have an emitter.
LEMMA EmittersCover ==
  /\ Len(Emitters) = 7 /\ DOMAIN Emitters = 1..7
  /\ \A k \in Tiled : \E j \in 1..7 : Emitters[j] = k
  /\ \A j \in 1..7 : Emitters[j] \in Range(Emitters)
BY DEF Emitters, Tiled, Range

\* A step that keeps the kinds of op and moves no further in the command line.
LEMMA StandingInv ==
  ASSUME SourcesInv, IsFunction(ir'), OpKinds(ir)' = OpKinds(ir),
         UNCHANGED <<cmd, at, kernels, manifest, files>>,
         \/ phase' \in {phase, "failed"} /\ UNCHANGED pos
         \/ phase' = phase /\ pos' = pos + 1 /\ cmd[at] \notin Lowerings
         \/ phase' = "idle" /\ phase = "parse" /\ UNCHANGED pos
         \/ phase' = "done" /\ phase = "idle" /\ at > Len(cmd) /\ UNCHANGED pos
  PROVE  SourcesInv'
<1>1. Shaped'
  BY DEF SourcesInv, Shaped
<1>2. \A n : WrittenUpTo(n)' <=> WrittenUpTo(n)
  BY DEF WrittenUpTo
<1>3. \A n : Settled(n)' <=> Settled(n)
  BY DEF Settled
<1>4. Lowering'
  BY <1>2 DEF SourcesInv, Lowering
<1>5. Lowered'
  BY <1>2, <1>3 DEF SourcesInv, Lowered
<1>6. Collected'
  BY DEF SourcesInv, Collected
<1>7. Reported'
  BY <1>3 DEF SourcesInv, Reported
<1> QED BY <1>1, <1>4, <1>5, <1>6, <1>7 DEF SourcesInv

LEMMA StartInv ==
  ASSUME SourcesInv, StartPass
  PROVE  SourcesInv'
<1>1. Shaped'
  BY EmptyIsSeq DEF SourcesInv, Shaped, StartPass
<1>2. \A n : WrittenUpTo(n)' <=> WrittenUpTo(n)
  BY DEF WrittenUpTo, StartPass
<1>3. \A n : Settled(n)' <=> Settled(n)
  BY DEF Settled, StartPass
<1>4. Lowering'
  <2>1. \A j \in DOMAIN Emitters : ~(j <= pos' - 1)
    BY EmittersCover DEF StartPass
  <2> QED BY <2>1 DEF Lowering, WrittenUpTo
<1>5. Lowered'
  BY <1>2, <1>3 DEF SourcesInv, Lowered, StartPass
<1>6. Collected'
  BY EmptyIsSeq DEF Collected, StartPass
<1>7. Reported'
  BY <1>3 DEF SourcesInv, Reported, StartPass
<1> QED BY <1>1, <1>4, <1>5, <1>6, <1>7 DEF SourcesInv

\* A pass ends: a lowering when its emitters are through, the report when the
\* file holds what was collected.
LEMMA EndInv ==
  ASSUME SourcesInv, phase = "run", EndPass, UNCHANGED files,
         cmd[at] \in Lowerings => pos > Len(Emitters),
         \/ UNCHANGED manifest
         \/ cmd[at] = "emit-kernel-report" /\ manifest' = renderManifest(kernels)
  PROVE  SourcesInv'
<1>0. /\ UNCHANGED <<ir, cmd, pos, kernels>> /\ at' = at + 1 /\ phase' \in {"idle", "failed"}
      /\ at \in DOMAIN cmd /\ at \in Nat /\ \A n \in DOMAIN cmd : n \in Nat
  BY DEF EndPass, SourcesInv, Shaped
<1>1. Shaped'
  BY <1>0 DEF SourcesInv, Shaped
<1>2. \A n : WrittenUpTo(n)' <=> WrittenUpTo(n)
  BY <1>0 DEF WrittenUpTo
<1>3. \A n : Settled(n)' <=> Settled(n)
  BY <1>0 DEF Settled
<1>4. Lowering'
  BY <1>0 DEF Lowering
<1>5. Lowered'
  <2> SUFFICES ASSUME NEW n \in DOMAIN cmd, cmd[n] \in Lowerings, n < at + 1, Settled(n)
               PROVE  WrittenUpTo(Len(Emitters))
    BY <1>0, <1>2, <1>3 DEF Lowered
  <2>1. CASE n < at
    BY <2>1 DEF SourcesInv, Lowered
  <2>2. CASE n = at
    <3>1. WrittenUpTo(pos - 1) /\ pos > 7 /\ pos \in Nat
      BY <2>2, EmittersCover DEF SourcesInv, Lowering, Shaped
    <3>2. \A j \in DOMAIN Emitters : j <= pos - 1
      BY <3>1, EmittersCover
    <3> QED BY <3>1, <3>2 DEF WrittenUpTo
  <2>3. n \in Nat
    BY <1>0
  <2> QED BY <1>0, <2>1, <2>2, <2>3
<1>6. Collected'
  BY <1>0 DEF Collected
<1>7. Reported'
  <2>1. CASE UNCHANGED manifest
    <3> SUFFICES ASSUME NEW i \in DOMAIN manifest.kernels
                 PROVE  \E n \in DOMAIN cmd :
                          /\ cmd[n] = "emit-kernel-report" /\ n < at + 1
                          /\ Settled(n) => manifest.kernels[i].kernel \in OpKinds(ir) \cap Tiled
      BY <1>0, <1>3, <2>1 DEF Reported
    <3>1. PICK n \in DOMAIN cmd :
             /\ cmd[n] = "emit-kernel-report" /\ n < at
             /\ Settled(n) => manifest.kernels[i].kernel \in OpKinds(ir) \cap Tiled
      BY DEF SourcesInv, Reported
    <3>2. n < at + 1
      BY <1>0, <3>1
    <3> QED BY <3>1, <3>2
  <2>2. CASE cmd[at] = "emit-kernel-report" /\ manifest' = renderManifest(kernels)
    <3>1. manifest'.kernels = kernels
      BY <2>2 DEF renderManifest
    <3>2. \A i \in DOMAIN kernels : kernels[i].kernel \in OpKinds(ir) \cap Tiled
      BY <2>2 DEF SourcesInv, Collected
    <3>3. cmd[at] = "emit-kernel-report" /\ at < at + 1
      BY <1>0, <2>2
    <3>4. PICK n \in DOMAIN cmd : cmd[n] = "emit-kernel-report" /\ n < at + 1
      BY <1>0, <3>3
    <3> QED BY <1>0, <3>1, <3>2, <3>4 DEF Reported
  <2> QED BY <2>1, <2>2
<1> QED BY <1>1, <1>4, <1>5, <1>6, <1>7 DEF SourcesInv

\* A rewriting pass has only passes behind it that are not settled.
LEMMA RewriteInv ==
  ASSUME SourcesInv, phase = "run", cmd[at] \in Greedy, IsFunction(ir'),
         UNCHANGED <<cmd, at, phase, pos, kernels, manifest, files>>
  PROVE  SourcesInv'
<1>0. at \in DOMAIN cmd /\ at \in Nat /\ \A n \in DOMAIN cmd : n \in Nat
  BY DEF SourcesInv, Shaped
<1>1. Shaped'
  BY DEF SourcesInv, Shaped
<1>2. \A n \in DOMAIN cmd : n < at => ~Settled(n)
  BY <1>0 DEF Settled
<1>3. \A n : Settled(n)' <=> Settled(n)
  BY DEF Settled
<1>4. Lowering' /\ Collected'
  BY DEF Lowering, Collected, Lowerings, Greedy, Fusions
<1>5. Lowered'
  BY <1>2, <1>3 DEF Lowered
<1>6. Reported'
  BY <1>2, <1>3 DEF SourcesInv, Reported
<1> QED BY <1>1, <1>4, <1>5, <1>6 DEF SourcesInv

\* A walk is at an op of the function.
LEMMA HereIsOp ==
  ASSUME SourcesInv, Walking
  PROVE  /\ pos \in DOMAIN ir.ops /\ IsOp(Here)
         /\ Here.kind = ir.ops[pos].kind /\ Here.kind \in OpKinds(ir)
BY DEF SourcesInv, Shaped, IsFunction, Walking, Here, OpKinds

\* The walks that annotate.
LEMMA WalkInv ==
  ASSUME SourcesInv, InferShapes \/ InferTileLayout \/ PlanMemory
  PROVE  SourcesInv'
<1>0. Walking /\ phase = "run" /\ UNCHANGED <<cmd, at, kernels, manifest, files>>
  BY DEF InferShapes, InferTileLayout, PlanMemory, Running
<1>1. pos \in DOMAIN ir.ops /\ IsOp(Here) /\ Here = ir.ops[pos]
  BY <1>0, HereIsOp DEF Here
<1>2. IsFunction(ir)
  BY DEF SourcesInv, Shaped
<1>3. cmd[at] \notin Lowerings
  BY DEF InferShapes, InferTileLayout, PlanMemory, Running, Lowerings
<1>4. CASE InferShapes
  <2>1. CASE UNCHANGED ir /\ phase' = "failed" /\ UNCHANGED pos
    BY <1>0, <1>2, <2>1, StandingInv
  <2>2. CASE ~(UNCHANGED ir /\ phase' = "failed" /\ UNCHANGED pos)
    <3>1. PICK t : ir' = [ir EXCEPT !.ops[pos].types = t] /\ pos' = pos + 1 /\ phase' = phase
      BY <1>4, <2>2 DEF InferShapes
    <3>2. PICK o : o = [Here EXCEPT !.types = t]
      OBVIOUS
    <3>3. IsOp(o) /\ o.kind = ir.ops[pos].kind
      BY <1>1, <3>2, AnnotatedOp
    <3>4. ir' = [ir EXCEPT !.ops[pos] = o]
      BY <1>1, <3>1, <3>2
    <3>5. IsFunction(ir') /\ OpKinds(ir') = OpKinds(ir)
      BY <1>1, <1>2, <3>3, <3>4, AnnotatedFunction
    <3> QED BY <1>0, <1>3, <3>1, <3>5, StandingInv
  <2> QED BY <2>1, <2>2
<1>5. CASE InferTileLayout \/ PlanMemory
  <2>1. /\ ir' = [ir EXCEPT !.ops[pos] = InferTile(ir, Here)]
           \/ ir' = [ir EXCEPT !.ops[pos] = Plan(ir, Here)]
        /\ pos' = pos + 1 /\ phase' = phase
    BY <1>5 DEF InferTileLayout, PlanMemory
  <2>2. \E x : InferTile(ir, Here) \in {Here, [Here EXCEPT !.attrs = x]}
    BY DEF InferTile
  <2>3. \E x : Plan(ir, Here) \in {Here, [Here EXCEPT !.attrs = x]}
    BY DEF Plan
  <2>4. PICK o : /\ ir' = [ir EXCEPT !.ops[pos] = o]
                 /\ \E x : o \in {Here, [Here EXCEPT !.attrs = x]}
    BY <2>1, <2>2, <2>3
  <2>5. IsOp(o) /\ o.kind = ir.ops[pos].kind
    <3>1. PICK x : o = Here \/ o = [Here EXCEPT !.attrs = x]
      BY <2>4
    <3>2. IsOp([Here EXCEPT !.attrs = x]) /\ [Here EXCEPT !.attrs = x].kind = Here.kind
      BY <1>1, AnnotatedOp
    <3> QED BY <1>1, <3>1, <3>2
  <2>6. IsFunction(ir') /\ OpKinds(ir') = OpKinds(ir)
    BY <1>1, <1>2, <2>4, <2>5, AnnotatedFunction
  <2> QED BY <1>0, <1>3, <2>1, <2>6, StandingInv
<1> QED BY <1>4, <1>5

\* The report collects the kind of the op it is at.
LEMMA ReportInv ==
  ASSUME SourcesInv, EmitKernelReport
  PROVE  SourcesInv'
<1>0. /\ Walking /\ phase = "run" /\ cmd[at] = "emit-kernel-report" /\ pos' = pos + 1
      /\ UNCHANGED <<cmd, at, phase, manifest, files>>
  BY DEF EmitKernelReport, Running
<1>1. /\ pos \in DOMAIN ir.ops /\ IsOp(Here) /\ Here = ir.ops[pos]
      /\ Here.kind \in OpKinds(ir)
  BY <1>0, HereIsOp DEF Here
<1>2. IsFunction(ir) /\ IsSeq(kernels)
  BY DEF SourcesInv, Shaped
<1>3. \/ UNCHANGED <<ir, kernels>>
      \/ \E k, x : /\ ir' = [ir EXCEPT !.ops[pos].attrs = x]
                   /\ kernels' = kernels \o <<k>>
                   /\ k.kernel = Here.kind /\ Here.kind \in Tiled
  <2>1. CASE Skeleton(ir, Here) = <<>>
    <3>1. kernels \o <<>> = kernels
      BY <1>2 DEF IsSeq
    <3> QED BY <2>1, <3>1 DEF EmitKernelReport
  <2>2. CASE Skeleton(ir, Here) # <<>>
    <3>1. Here.kind \in Tiled /\ \E m, d, b, t, x, y :
             Skeleton(ir, Here) = <<[kernel |-> m, dims |-> d, bytes |-> b, tile |-> t,
                                      smem |-> x, fused_from |-> y]>> /\ m = Here.kind
      BY <2>2 DEF Skeleton, kernelName
    <3>2. PICK k : Skeleton(ir, Here) = <<k>> /\ k.kernel = Here.kind
      BY <3>1
    <3> QED BY <2>2, <3>1, <3>2 DEF EmitKernelReport
  <2> QED BY <2>1, <2>2
<1>4. /\ IsFunction(ir') /\ OpKinds(ir') = OpKinds(ir)
      /\ IsSeq(kernels')
      /\ \A i \in DOMAIN kernels' : kernels'[i].kernel \in OpKinds(ir) \cap Tiled
  <2>1. \A i \in DOMAIN kernels : kernels[i].kernel \in OpKinds(ir) \cap Tiled
    BY <1>0 DEF SourcesInv, Collected
  <2>2. CASE UNCHANGED <<ir, kernels>>
    BY <1>2, <2>1, <2>2
  <2>3. CASE ~UNCHANGED <<ir, kernels>>
    <3>1. PICK k, x : /\ ir' = [ir EXCEPT !.ops[pos].attrs = x]
                      /\ kernels' = kernels \o <<k>>
                      /\ k.kernel = Here.kind /\ Here.kind \in Tiled
      BY <1>3, <2>3
    <3>2. PICK o : o = [Here EXCEPT !.attrs = x]
      OBVIOUS
    <3>3. IsOp(o) /\ o.kind = ir.ops[pos].kind
      BY <1>1, <3>2, AnnotatedOp
    <3>4. ir' = [ir EXCEPT !.ops[pos] = o]
      BY <1>1, <3>1, <3>2
    <3>5. IsFunction(ir') /\ OpKinds(ir') = OpKinds(ir)
      BY <1>1, <1>2, <3>3, <3>4, AnnotatedFunction
    <3>6. kernels' = Append(kernels, k)
      BY <1>2, <3>1 DEF IsSeq
    <3>7. /\ IsSeq(kernels') /\ DOMAIN kernels' = 1..(Len(kernels) + 1)
          /\ DOMAIN kernels = 1..Len(kernels) /\ Len(kernels) \in Nat
          /\ kernels'[Len(kernels) + 1] = k
          /\ \A i \in 1..Len(kernels) : kernels'[i] = kernels[i]
      BY <1>2, <3>6, AppendIsSeq
    <3>8. \A i \in DOMAIN kernels' : kernels'[i].kernel \in OpKinds(ir) \cap Tiled
      BY <1>1, <2>1, <3>1, <3>7
    <3> QED BY <3>5, <3>7, <3>8
  <2> QED BY <2>2, <2>3
<1>5. Shaped'
  BY <1>0, <1>4 DEF SourcesInv, Shaped
<1>6. \A n : WrittenUpTo(n)' <=> WrittenUpTo(n)
  BY <1>0, <1>4 DEF WrittenUpTo
<1>7. \A n : Settled(n)' <=> Settled(n)
  BY <1>0 DEF Settled
<1>8. Lowering' /\ Lowered'
  BY <1>0, <1>6, <1>7 DEF SourcesInv, Lowering, Lowered, Lowerings
<1>9. Collected' /\ Reported'
  BY <1>0, <1>4, <1>7 DEF SourcesInv, Collected, Reported
<1> QED BY <1>5, <1>8, <1>9 DEF SourcesInv

\* A lowering writes the file of the emitter it is at, if there is an op for it.
LEMMA EmitInv ==
  ASSUME SourcesInv, NEW pass \in Lowerings, NEW outcome, Emit(pass, outcome)
  PROVE  SourcesInv'
<1>0. /\ phase = "run" /\ cmd[at] = pass /\ pos \in 1..7 /\ pos \in DOMAIN Emitters
      /\ pos' = pos + 1 /\ UNCHANGED <<ir, cmd, at, kernels, manifest>>
      /\ phase' \in {phase, "failed"}
  BY EmittersCover DEF Emit, Running, SourcesInv, Shaped
<1>1. Emitters[pos] \in {o.kind : o \in Range(ir.ops)} <=> Emitters[pos] \in OpKinds(ir)
  BY DEF OpKinds, Range
<1>2. DOMAIN files' = DOMAIN files
  BY DEF Emit
<1>3. Shaped'
  BY <1>0, <1>2 DEF SourcesInv, Shaped
<1>4. ASSUME phase' # "failed"
      PROVE  /\ Emitters[pos] \in OpKinds(ir) => files'[Emitters[pos]] \in Lowerings
             /\ \A k \in DOMAIN files : files[k] \in Lowerings => files'[k] \in Lowerings
  <2>1. Emitters[pos] \in DOMAIN files
    BY <1>0, EmittersCover DEF SourcesInv, Shaped
  <2> QED BY <1>0, <1>1, <1>4, <2>1 DEF Emit
<1>5. ASSUME phase' # "failed", NEW n, WrittenUpTo(n)
      PROVE  WrittenUpTo(n)'
  BY <1>0, <1>4, <1>5, EmittersCover DEF WrittenUpTo, SourcesInv, Shaped
<1>6. \A n : Settled(n)' <=> Settled(n)
  BY <1>0 DEF Settled
<1>7. Lowering'
  <2>1. PICK n, p : n = pos - 1 /\ p = pos
    OBVIOUS
  <2> SUFFICES ASSUME phase' = "run"
               PROVE  WrittenUpTo(p)'
    <3>1. pos' - 1 = p
      BY <1>0, <2>1
    <3> QED BY <1>0, <3>1 DEF Lowering, WrittenUpTo
  <2>2. WrittenUpTo(n)'
    BY <1>0, <1>5, <2>1 DEF SourcesInv, Lowering
  <2>3. ASSUME NEW j \in DOMAIN Emitters, j <= p, Emitters[j] \in OpKinds(ir)
        PROVE  files'[Emitters[j]] \in Lowerings
    <3>1. j = pos \/ j <= n
      BY <1>0, <2>1, <2>3, EmittersCover
    <3> QED BY <1>0, <1>4, <2>2, <2>3, <3>1 DEF WrittenUpTo
  <2> QED BY <1>0, <2>3 DEF WrittenUpTo
<1>8. Lowered'
  <2>1. PICK n : n = Len(Emitters)
    OBVIOUS
  <2> QED BY <1>0, <1>5, <1>6, <2>1 DEF SourcesInv, Lowered
<1>9. Collected' /\ Reported'
  BY <1>0, <1>6 DEF SourcesInv, Collected, Reported, Lowerings
<1> QED BY <1>3, <1>7, <1>8, <1>9 DEF SourcesInv

\* The report's file: written, not opened or cut short.
LEMMA ManifestInv ==
  ASSUME SourcesInv, NEW outcome, WriteManifest(outcome)
  PROVE  SourcesInv'
<1>0. phase = "run" /\ cmd[at] = "emit-kernel-report" /\ UNCHANGED files
  BY DEF WriteManifest, Running
<1>1. CASE manifest' = renderManifest(kernels) /\ EndPass
  BY <1>0, <1>1, EndInv DEF Lowerings
<1>2. CASE /\ phase' = "failed" /\ UNCHANGED <<source, typed, ir, cmd, at, pos, kernels>>
           /\ manifest' = manifest \/ manifest' = [state |-> "torn", kernels |-> <<>>]
  <2>1. Shaped' /\ Lowering' /\ Lowered' /\ Collected'
    BY <1>0, <1>2 DEF SourcesInv, Shaped, Lowering, Lowered, Collected
  <2>2. \A n : Settled(n)' <=> Settled(n)
    BY <1>2 DEF Settled
  <2>3. CASE manifest' = manifest
    BY <1>2, <2>1, <2>2, <2>3 DEF SourcesInv, Reported
  <2>4. CASE manifest' = [state |-> "torn", kernels |-> <<>>]
    <3>1. DOMAIN manifest'.kernels = {}
      BY <2>4, EmptyIsSeq
    <3> QED BY <2>1, <3>1 DEF SourcesInv, Reported
  <2> QED BY <1>2, <2>3, <2>4
<1> QED BY <1>1, <1>2 DEF WriteManifest

LEMMA StepSourcesInv ==
  ASSUME SourcesInv, [Next]_vars
  PROVE  SourcesInv'
<1>0. IsFunction(ir)
  BY DEF SourcesInv, Shaped
<1>1. CASE Parse
  <2>1. /\ UNCHANGED <<ir, cmd, at, pos, kernels, manifest, files>>
        /\ phase = "parse" /\ phase' \in {"idle", "failed"}
    BY <1>1 DEF Parse
  <2> QED BY <1>0, <2>1, StandingInv
<1>2. CASE StartPass
  BY <1>2, StartInv
<1>3. CASE Finish
  <2>1. /\ UNCHANGED <<ir, cmd, at, pos, kernels, manifest, files>>
        /\ phase = "idle" /\ phase' = "done" /\ at > Len(cmd)
    BY <1>3 DEF Finish
  <2> QED BY <1>0, <2>1, StandingInv
<1>4. CASE InferShapes \/ InferTileLayout \/ PlanMemory
  BY <1>4, WalkInv
<1>5. CASE EmitKernelReport
  BY <1>5, ReportInv
<1>6. CASE WalkEnds
  <2>1. /\ phase = "run" /\ EndPass /\ UNCHANGED <<manifest, files>>
        /\ cmd[at] \notin Lowerings
    BY <1>6 DEF WalkEnds, Lowerings
  <2> QED BY <2>1, EndInv
<1>7. CASE \E w \in Outcomes : WriteManifest(w)
  BY <1>7, ManifestInv
<1>8. CASE \E o \in Candidates(ir) : Rewrite(o)
  <2>1. PICK o : Rewrite(o)
    BY <1>8
  <2>2. /\ phase = "run" /\ cmd[at] \in Greedy /\ ir' \in Rewrites(cmd[at], ir, o)
        /\ UNCHANGED <<cmd, at, phase, pos, kernels, manifest, files>>
    BY <2>1 DEF Rewrite
  <2>3. IsFunction(ir')
    BY <1>0, <2>2, RewritesAreFunctions
  <2> QED BY <2>2, <2>3, RewriteInv
<1>9. CASE \E o \in DeadOps(ir) : EraseDead(o)
  <2>1. PICK o : EraseDead(o)
    BY <1>9
  <2>2. /\ phase = "run" /\ cmd[at] \in Greedy /\ ir' = Without(ir, {o.id})
        /\ UNCHANGED <<cmd, at, phase, pos, kernels, manifest, files>>
    BY <2>1 DEF EraseDead
  <2>3. IsFunction(ir')
    BY <1>0, <2>2, WithoutIsFunction
  <2> QED BY <2>2, <2>3, RewriteInv
<1>10. CASE GreedyEnds
  <2>1. /\ phase = "run" /\ EndPass /\ UNCHANGED <<manifest, files>>
        /\ cmd[at] \notin Lowerings
    BY <1>10 DEF GreedyEnds, Lowerings, Greedy, Fusions
  <2> QED BY <2>1, EndInv
<1>11. CASE \E w \in Outcomes : EmitCuda(w) \/ EmitHip(w)
  BY <1>11, EmitInv DEF EmitCuda, EmitHip, Lowerings
<1>12. CASE LowerEnds
  <2>1. phase = "run" /\ EndPass /\ UNCHANGED <<manifest, files>> /\ pos > Len(Emitters)
    BY <1>12 DEF LowerEnds
  <2> QED BY <2>1, EndInv
<1>13. CASE UNCHANGED vars
  <2>1. UNCHANGED <<ir, cmd, at, phase, pos, kernels, manifest, files>>
    BY <1>13 DEF vars
  <2> QED BY <1>0, <2>1, StandingInv
<1> QED BY <1>1, <1>2, <1>3, <1>4, <1>5, <1>6, <1>7, <1>8, <1>9, <1>10, <1>11, <1>12, <1>13
        DEF Next, Work, Exited

\* What the files and the report say of the function holds at every state.
THEOREM SpecSourcesInv == Spec => []SourcesInv
<1>1. Init => SourcesInv
  <2> SUFFICES ASSUME Init PROVE SourcesInv
    OBVIOUS
  <2>1. Shaped
    <3>1. IsFunction(ir) /\ Len(cmd) \in Nat /\ DOMAIN cmd = 1..Len(cmd)
      BY PassesAssumption DEF Init
    <3> QED BY <3>1, EmptyIsSeq DEF Init, Shaped
  <2>2. Lowering /\ Collected
    BY DEF Init, Lowering, Collected
  <2>3. Lowered
    <3>1. \A n \in DOMAIN cmd : ~(n < at)
      BY <2>1 DEF Shaped, Init
    <3> QED BY <3>1 DEF Lowered
  <2>4. Reported
    <3>1. DOMAIN manifest.kernels = {}
      BY EmptyIsSeq DEF Init
    <3> QED BY <3>1 DEF Reported
  <2> QED BY <2>1, <2>2, <2>3, <2>4 DEF SourcesInv
<1>2. SourcesInv /\ [Next]_vars => SourcesInv'
  BY StepSourcesInv
<1> QED BY <1>1, <1>2, PTL DEF Spec

\* Every kernel that the report of a command that succeeded names has its
\* source: for all functions, and all command lines in which the lowering and
\* the report come after the transformations.
THEOREM ReportsHaveSources == Spec => []ReportedKernelsHaveSources
<1>1. SourcesInv => ReportedKernelsHaveSources
  <2> SUFFICES ASSUME SourcesInv, phase = "done",
                      TransformsBefore("emit-kernel-report"),
                      NEW q \in Lowerings, Index(q) # {}, TransformsBefore(q),
                      NEW k \in Range(manifest.kernels)
               PROVE  files[k.kernel] \in Lowerings
    BY DEF ReportedKernelsHaveSources, Lowerings
  <2>1. \A p \in {q, "emit-kernel-report"} : \A n \in DOMAIN cmd : cmd[n] = p => Settled(n)
    BY DEF TransformsBefore, Before, Index, Settled
  <2>2. k.kernel \in OpKinds(ir) \cap Tiled
    <3>1. PICK i \in DOMAIN manifest.kernels : k = manifest.kernels[i]
      BY DEF Range
    <3> QED BY <2>1, <3>1 DEF SourcesInv, Reported
  <2>3. PICK n \in DOMAIN cmd : cmd[n] = q
    BY DEF Index
  <2>4. n < at
    BY DEF SourcesInv, Shaped
  <2>5. WrittenUpTo(Len(Emitters))
    BY <2>1, <2>3, <2>4 DEF SourcesInv, Lowered
  <2>6. PICK j \in 1..7 : Emitters[j] = k.kernel
    BY <2>2, EmittersCover
  <2> QED BY <2>2, <2>5, <2>6, EmittersCover DEF WrittenUpTo
<1> QED BY <1>1, SpecSourcesInv, PTL

----------------------------------------------------------------------------
(* What a function means.  Ops are taken as a set: where an op stands does   *)
(* not matter to what it computes, only to the verifier.                     *)

\* A value is a block argument or a result of one of the ops.
Defined(O, v) == v[1] = 0 \/ \E o \in O : o.id = v[1] /\ v[2] \in DOMAIN o.types

Closed(f) ==
  /\ \A o \in Range(f.ops) : \A n \in DOMAIN o.args : Defined(Range(f.ops), o.args[n])
  /\ \A n \in DOMAIN f.ret : Defined(Range(f.ops), f.ret[n])

Sound(f) == IsFunction(f) /\ WellFormed(f) /\ Closed(f)

\* M gives every op the results that it has by its operands,
Models(f, M) == \A o \in Range(f.ops) : M[o.id] = Results(o, Values(M, o.args))

\* and no add of two different zeros.
ZerosAgree(f, M) ==
  \A o \in Range(f.ops) : o.kind = "add" =>
     (IsZero(Value(M, o.args[1])) /\ IsZero(Value(M, o.args[2]))
        => Value(M, o.args[1]) = Value(M, o.args[2]))

\* What a rewrite must do: whatever f returns, g returns.
Keeps(f, g) ==
  \A M : Models(f, M) /\ ZerosAgree(f, M) =>
     \E N : /\ Models(g, N) /\ ZerosAgree(g, N)
            /\ Values(N, g.ret) = Values(M, f.ret)

\* An id is that of one op.
LEMMA OneOpPerId ==
  ASSUME NEW f, WellFormed(f), NEW o \in Range(f.ops), NEW p \in Range(f.ops), o.id = p.id
  PROVE  o = p
BY DEF WellFormed, Range

\* Function g has the ops O and returns ret.
HasOps(g, O, ret) == Range(g.ops) = O /\ g.ret = ret /\ WellFormed(g)

LEMMA WithoutOps ==
  ASSUME NEW f, IsFunction(f), WellFormed(f), NEW ids
  PROVE  HasOps(Without(f, ids), {o \in Range(f.ops) : o.id \notin ids}, f.ret)
<1>1. PICK q, n, kept, s : /\ q = f.ops /\ n = Len(f.ops)
                           /\ kept = {i \in DOMAIN f.ops : f.ops[i].id \notin ids}
                           /\ s = Subsequence(q, kept)
  OBVIOUS
<1>2. PICK g : g = Without(f, ids)
  OBVIOUS
<1>3. g.ops = s /\ g.ret = f.ret
  BY <1>1, <1>2 DEF IsFunction, Without
<1>4. n \in Nat /\ kept \in SUBSET (1..n) /\ DOMAIN q = 1..n
  BY <1>1 DEF IsFunction
<1>4a. \A i \in kept : i \in Nat
  BY <1>4
<1>5. IsInOrder(s, q, kept)
  BY <1>1, <1>4, SubsequenceInOrder
<1>6. PICK m \in Nat : /\ s = [k \in 1..m |-> s[k]]
                       /\ \E h \in [1..m -> kept] :
                             /\ \A k \in 1..m : s[k] = q[h[k]]
                             /\ \A j, k \in 1..m : j < k => h[j] < h[k]
                             /\ \A i \in kept : \E k \in 1..m : h[k] = i
  BY <1>5 DEF IsInOrder
<1>7. PICK h \in [1..m -> kept] :
         /\ \A k \in 1..m : s[k] = q[h[k]]
         /\ \A j, k \in 1..m : j < k => h[j] < h[k]
         /\ \A i \in kept : \E k \in 1..m : h[k] = i
  BY <1>6
<1>8. DOMAIN s = 1..m
  BY <1>6
<1>8a. \A k \in 1..m : h[k] \in DOMAIN f.ops /\ s[k] = f.ops[h[k]] /\ s[k].id \notin ids
  BY <1>1, <1>7
<1>9. Range(s) = {o \in Range(f.ops) : o.id \notin ids}
  <2>2. ASSUME NEW i \in DOMAIN f.ops, f.ops[i].id \notin ids
        PROVE  \E k \in 1..m : s[k] = f.ops[i]
    <3>1. i \in kept
      BY <1>1, <2>2
    <3>2. PICK k \in 1..m : h[k] = i
      BY <1>7, <3>1
    <3> QED BY <1>1, <1>7, <3>2
  <2>3. PICK R : R = Range(f.ops)
    OBVIOUS
  <2>4. \A i \in DOMAIN f.ops : f.ops[i] \in R
    BY <2>3 DEF Range
  <2>5. ASSUME NEW o \in Range(s)
        PROVE  o \in R /\ o.id \notin ids
    <3>1. PICK k \in 1..m : s[k] = o
      BY <1>8 DEF Range
    <3> QED BY <1>8a, <2>4, <3>1
  <2>6. ASSUME NEW o \in R, o.id \notin ids
        PROVE  o \in Range(s)
    <3>1. PICK i \in DOMAIN f.ops : f.ops[i] = o
      BY <2>3 DEF Range
    <3>2. PICK k \in 1..m : s[k] = o
      BY <2>2, <2>6, <3>1
    <3> QED BY <1>8, <3>2 DEF Range
  <2> QED BY <2>3, <2>5, <2>6
<1>10. ASSUME NEW i \in DOMAIN s, NEW j \in DOMAIN s, s[i].id = s[j].id
       PROVE  i = j
  <2>1. h[i] = h[j]
    BY <1>8, <1>8a, <1>10 DEF WellFormed
  <2>2. h[i] \in Nat /\ h[j] \in Nat
    <3>1. i \in 1..m /\ j \in 1..m
      BY <1>8
    <3>2. h[i] \in kept /\ h[j] \in kept
      BY <1>7, <3>1
    <3> QED BY <1>4a, <3>2
  <2>3. i \in Nat /\ j \in Nat /\ i \in 1..m /\ j \in 1..m
    BY <1>8
  <2> QED BY <1>7, <2>1, <2>2, <2>3
<1>11. \A o \in Range(s) : WellFormedOp(o)
  BY <1>9 DEF WellFormed
<1>12. WellFormed(g)
  BY <1>3, <1>10, <1>11 DEF WellFormed
<1> QED BY <1>2, <1>3, <1>9, <1>12 DEF HasOps

\* An op in the place of the one of the same id.
Swapped(g, f, o, new) ==
  /\ g.ret = f.ret /\ DOMAIN g.ops = DOMAIN f.ops
  /\ \A i \in DOMAIN f.ops : g.ops[i] = IF f.ops[i].id = o.id THEN new ELSE f.ops[i]

OthersAnd(f, o, new) == {p \in Range(f.ops) : p.id # o.id} \cup {new}

LEMMA SwappedOps ==
  ASSUME NEW f, WellFormed(f),
         NEW o \in Range(f.ops), NEW new, new.id = o.id, WellFormedOp(new),
         NEW g, Swapped(g, f, o, new)
  PROVE  HasOps(g, OthersAnd(f, o, new), f.ret)
<1>1. /\ g.ret = f.ret /\ DOMAIN g.ops = DOMAIN f.ops
      /\ \A i \in DOMAIN f.ops : g.ops[i] = IF f.ops[i].id = o.id THEN new ELSE f.ops[i]
  BY DEF Swapped
<1>2. \A i \in DOMAIN f.ops : g.ops[i].id = f.ops[i].id
  BY <1>1
<1>3. PICK at0 \in DOMAIN f.ops : f.ops[at0] = o
  BY DEF Range
<1>4. g.ops[at0] = new
  BY <1>1, <1>3
<1>5. Range(g.ops) = OthersAnd(f, o, new)
  BY <1>1, <1>3, <1>4 DEF Range, OthersAnd
<1>6. \A p \in Range(g.ops) : WellFormedOp(p)
  BY <1>5 DEF WellFormed, OthersAnd
<1>7. WellFormed(g)
  BY <1>1, <1>2, <1>6 DEF WellFormed
<1> QED BY <1>1, <1>5, <1>7 DEF HasOps

LEMMA PutOps ==
  ASSUME NEW f, IsFunction(f), WellFormed(f),
         NEW o \in Range(f.ops), NEW new, new.id = o.id, WellFormedOp(new)
  PROVE  HasOps(Put(f, new), OthersAnd(f, o, new), f.ret)
<1>1. Swapped(Put(f, new), f, o, new)
  BY DEF IsFunction, Put, Swapped
<1> QED BY <1>1, SwappedOps

\* A walk puts an op in the place of the one it is at.
LEMMA WalkedOps ==
  ASSUME NEW f, IsFunction(f), WellFormed(f),
         NEW n \in DOMAIN f.ops, NEW new, new.id = f.ops[n].id, WellFormedOp(new)
  PROVE  HasOps([f EXCEPT !.ops[n] = new], OthersAnd(f, f.ops[n], new), f.ret)
<1> DEFINE g == [f EXCEPT !.ops[n] = new]
<1>1. /\ g.ret = f.ret /\ DOMAIN g.ops = DOMAIN f.ops
      /\ \A i \in DOMAIN f.ops : g.ops[i] = IF i = n THEN new ELSE f.ops[i]
  BY DEF IsFunction
<1> HIDE DEF g
<1>2. PICK o : o = f.ops[n] /\ o \in Range(f.ops)
  BY DEF Range
<1>3. \A i \in DOMAIN f.ops : f.ops[i].id = o.id <=> i = n
  BY <1>2 DEF WellFormed
<1>4. Swapped(g, f, o, new)
  BY <1>1, <1>3 DEF Swapped
<1>5. HasOps(g, OthersAnd(f, o, new), f.ret)
  BY <1>2, <1>4, SwappedOps
<1> QED BY <1>2, <1>5 DEF g

\* One value in the place of another, everywhere.
Renamed(o, from, to) == [o EXCEPT !.args = Substituted(o.args, from, to)]

LEMMA SubstitutedValues ==
  ASSUME NEW s \in Seq(Nat \X Nat), NEW from, NEW to \in Nat \X Nat,
         NEW t, t = Substituted(s, from, to)
  PROVE  /\ t \in Seq(Nat \X Nat) /\ Len(t) = Len(s) /\ DOMAIN t = DOMAIN s
         /\ \A n \in DOMAIN s : t[n] = IF s[n] = from THEN to ELSE s[n]
<1>1. PICK m \in Nat : m = Len(s) /\ DOMAIN s = 1..m
  OBVIOUS
<1>2. t = [n \in 1..m |-> IF s[n] = from THEN to ELSE s[n]]
  BY <1>1 DEF Substituted
<1>3. t \in [1..m -> Nat \X Nat]
  BY <1>1, <1>2
<1>4. t \in Seq(Nat \X Nat) /\ Len(t) = m
  BY <1>3
<1> QED BY <1>1, <1>2, <1>4

LEMMA RenamedOp ==
  ASSUME NEW o, IsOp(o), WellFormedOp(o), NEW from, NEW to \in Nat \X Nat
  PROVE  /\ WellFormedOp(Renamed(o, from, to))
         /\ Renamed(o, from, to) = Op(o.id, o.kind, Substituted(o.args, from, to), o.types, o.attrs)
<1> DEFINE p == Renamed(o, from, to)
<1>1. p = Op(o.id, o.kind, Substituted(o.args, from, to), o.types, o.attrs)
  BY DEF IsOp, Op, Renamed
<1>2. /\ p.id = o.id /\ p.kind = o.kind /\ p.types = o.types /\ p.attrs = o.attrs
      /\ p.args = Substituted(o.args, from, to)
  BY <1>1 DEF Op
<1>3. p.args \in Seq(Nat \X Nat) /\ Len(p.args) = Len(o.args)
  BY <1>2, SubstitutedValues DEF WellFormedOp
<1> HIDE DEF p
<1>4. WellFormedOp(p)
  BY <1>2, <1>3 DEF WellFormedOp
<1> QED BY <1>1, <1>4 DEF p

LEMMA RenamedOps ==
  ASSUME NEW f, IsFunction(f), WellFormed(f), NEW from, NEW to \in Nat \X Nat
  PROVE  HasOps(ReplaceAllUsesWith(f, from, to),
                {Renamed(o, from, to) : o \in Range(f.ops)}, Substituted(f.ret, from, to))
<1> DEFINE g == ReplaceAllUsesWith(f, from, to)
<1>1. /\ g.ret = Substituted(f.ret, from, to) /\ DOMAIN g.ops = DOMAIN f.ops
      /\ \A i \in DOMAIN f.ops : g.ops[i] = Renamed(f.ops[i], from, to)
  BY DEF IsFunction, ReplaceAllUsesWith, Renamed
<1> HIDE DEF g
<1>2. ASSUME NEW i \in DOMAIN f.ops
      PROVE  g.ops[i].id = f.ops[i].id /\ WellFormedOp(g.ops[i])
  <2>1. IsOp(f.ops[i]) /\ WellFormedOp(f.ops[i])
    BY DEF IsFunction, WellFormed, Range
  <2>2. PICK p : p = Renamed(f.ops[i], from, to)
    OBVIOUS
  <2>3. p.id = f.ops[i].id /\ WellFormedOp(p)
    BY <2>1, <2>2, RenamedOp DEF Op
  <2> QED BY <1>1, <2>2, <2>3
<1>3. Range(g.ops) = {Renamed(o, from, to) : o \in Range(f.ops)}
  BY <1>1 DEF Range
<1>4. \A p \in Range(g.ops) : WellFormedOp(p)
  BY <1>1, <1>2 DEF Range
<1>5. g.ret \in Seq(Nat \X Nat)
  BY <1>1, SubstitutedValues DEF WellFormed
<1>6. WellFormed(g)
  BY <1>1, <1>2, <1>4, <1>5 DEF WellFormed
<1> QED BY <1>1, <1>3, <1>6 DEF g, HasOps

----------------------------------------------------------------------------
(* Use-def chains. *)

\* An operand that is not a block argument is a result of the op that defines it.
LEMMA DefIsOp ==
  ASSUME NEW f, Sound(f), NEW o \in Range(f.ops), NEW n \in DOMAIN o.args,
         NEW d, d = Def(f, o.args[n]), d.kind # "block_argument"
  PROVE  /\ d \in Range(f.ops) /\ o.args[n][1] = d.id /\ d.id # 0
         /\ o.args[n][2] \in DOMAIN d.types
         /\ o.args[n] = <<d.id, o.args[n][2]>>
         /\ resultCount(d.kind) = 1 => o.args[n] = Result(d)
<1> DEFINE v == o.args[n]
<1>1. v \in Nat \X Nat
  <2>1. o.args \in Seq(Nat \X Nat)
    BY DEF Sound, WellFormed, WellFormedOp
  <2> QED BY <2>1
<1>2. v[1] # 0
  BY DEF Def, Block, Op
<1>3. PICK p \in Range(f.ops) : p.id = v[1] /\ v[2] \in DOMAIN p.types
  BY <1>2 DEF Sound, Closed, Defined
<1>4. d = CHOOSE q \in Range(f.ops) : q.id = v[1]
  BY <1>2 DEF Def
<1>5. d \in Range(f.ops) /\ d.id = v[1]
  BY <1>3, <1>4
<1>6. d = p
  BY <1>3, <1>5, OneOpPerId DEF Sound
<1>7. v[2] \in 1..resultCount(d.kind)
  BY <1>3, <1>5, <1>6 DEF Sound, WellFormed, WellFormedOp
<1>8. v = <<v[1], v[2]>>
  BY <1>1
<1>9. resultCount(d.kind) = 1 => v[2] = 1
  BY <1>7
<1> QED BY <1>2, <1>3, <1>5, <1>6, <1>8, <1>9 DEF Result

\* The image of a finite set is finite.
LEMMA ImageIsFinite ==
  ASSUME NEW S, IsFiniteSet(S), NEW h, S = DOMAIN h
  PROVE  IsFiniteSet({h[x] : x \in S})
<1> DEFINE T == {h[x] : x \in S}
           g == [x \in S |-> h[x]]
<1>1. g \in Surjection(S, T)
  BY DEF Surjection
<1> QED BY <1>1, FS_Surjection

\* The uses of v among the operands of an op, or the returned values.
UsedAs(id, s, v) == {<<id, n>> : n \in {k \in DOMAIN s : s[k] = v}}

LEMMA UsesAre ==
  ASSUME NEW f, NEW v, NEW all, all = {UsedAs(o.id, o.args, v) : o \in Range(f.ops)}
  PROVE  Uses(f, v) = (UNION all) \cup UsedAs(0, f.ret, v)
BY Zenon DEF Uses, UsedAs

LEMMA UsesAreFinite ==
  ASSUME NEW f, Sound(f), NEW v
  PROVE  IsFiniteSet(Uses(f, v))
<1>1. ASSUME NEW s \in Seq(Nat \X Nat), NEW i
      PROVE  IsFiniteSet(UsedAs(i, s, v))
  <2>1. PICK m \in Nat : DOMAIN s = 1..m
    OBVIOUS
  <2>2. IsFiniteSet(1..m)
    BY FS_Interval
  <2>3. PICK S : S = {k \in DOMAIN s : s[k] = v} /\ IsFiniteSet(S)
    BY <2>1, <2>2, FS_Subset
  <2>4. PICK h : h = [n \in S |-> <<i, n>>]
    OBVIOUS
  <2>4a. S = DOMAIN h
    BY <2>4
  <2>5. PICK T : T = {h[n] : n \in S}
    OBVIOUS
  <2>6. IsFiniteSet(T)
    BY <2>3, <2>4a, <2>5, ImageIsFinite
  <2>7. UsedAs(i, s, v) = T
    BY <2>3, <2>4, <2>5 DEF UsedAs
  <2> QED BY <2>6, <2>7
<1>2. \A o \in Range(f.ops) : IsFiniteSet(UsedAs(o.id, o.args, v))
  BY <1>1 DEF Sound, WellFormed, WellFormedOp
<1>3. IsFiniteSet(UsedAs(0, f.ret, v))
  BY <1>1 DEF Sound, WellFormed
<1>4. PICK m \in Nat : DOMAIN f.ops = 1..m
  BY DEF Sound, IsFunction
<1>5. PICK h : h = [i \in 1..m |-> UsedAs(f.ops[i].id, f.ops[i].args, v)]
  OBVIOUS
<1>6. PICK all : all = {h[i] : i \in 1..m}
  OBVIOUS
<1>7. IsFiniteSet(1..m)
  BY <1>4, FS_Interval
<1>8. IsFiniteSet(all)
  BY <1>5, <1>6, <1>7, ImageIsFinite
<1>9. all = {UsedAs(o.id, o.args, v) : o \in Range(f.ops)}
  BY <1>4, <1>5, <1>6 DEF Range
<1>10. \A T \in all : IsFiniteSet(T)
  BY <1>2, <1>9
<1>11. IsFiniteSet(UNION all)
  BY <1>8, <1>10, FS_UNION
<1>12. IsFiniteSet((UNION all) \cup UsedAs(0, f.ret, v))
  BY <1>3, <1>11, FS_Union
<1>13. Uses(f, v) = (UNION all) \cup UsedAs(0, f.ret, v)
  BY <1>9, UsesAre
<1> QED BY <1>12, <1>13

LEMMA UsesHas ==
  ASSUME NEW f, NEW v
  PROVE  /\ \A p \in Range(f.ops) : \A k \in DOMAIN p.args : p.args[k] = v => <<p.id, k>> \in Uses(f, v)
         /\ \A k \in DOMAIN f.ret : f.ret[k] = v => <<0, k>> \in Uses(f, v)
<1>1. \A s, i : \A k \in DOMAIN s : s[k] = v => <<i, k>> \in UsedAs(i, s, v)
  BY DEF UsedAs
<1>2. ASSUME NEW p \in Range(f.ops), NEW k \in DOMAIN p.args, p.args[k] = v
      PROVE  <<p.id, k>> \in Uses(f, v)
  <2>1. PICK T : T = UsedAs(p.id, p.args, v)
    OBVIOUS
  <2>2. <<p.id, k>> \in T
    BY <1>1, <1>2, <2>1
  <2>3. PICK all : all = {UsedAs(o.id, o.args, v) : o \in Range(f.ops)}
    OBVIOUS
  <2>4. <<p.id, k>> \in UNION all
    BY <2>1, <2>2, <2>3
  <2> QED BY <2>3, <2>4, UsesAre
<1>3. ASSUME NEW k \in DOMAIN f.ret, f.ret[k] = v
      PROVE  <<0, k>> \in Uses(f, v)
  <2>1. <<0, k>> \in UsedAs(0, f.ret, v)
    BY <1>1, <1>3
  <2>2. PICK all : all = {UsedAs(o.id, o.args, v) : o \in Range(f.ops)}
    OBVIOUS
  <2> QED BY <2>1, <2>2, UsesAre
<1> QED BY <1>2, <1>3

\* The only use of v is operand n of o.
OnlyUse(f, v, o, n) ==
  /\ \A p \in Range(f.ops) : \A k \in DOMAIN p.args : p.args[k] = v => p = o /\ k = n
  /\ \A k \in DOMAIN f.ret : f.ret[k] # v

LEMMA OneUse ==
  ASSUME NEW f, Sound(f), NEW v, hasNUses(f, v, 1),
         NEW o \in Range(f.ops), NEW n \in DOMAIN o.args, o.args[n] = v
  PROVE  OnlyUse(f, v, o, n)
<1>1. PICK u : Uses(f, v) = {u}
  BY UsesAreFinite, FS_Singleton DEF hasNUses
<1>2. <<o.id, n>> \in Uses(f, v)
  BY UsesHas
<1>3. ASSUME NEW p \in Range(f.ops), NEW k \in DOMAIN p.args, p.args[k] = v
      PROVE  p = o /\ k = n
  <2>1. <<p.id, k>> \in Uses(f, v)
    BY <1>3, UsesHas
  <2>2. p.id = o.id /\ k = n
    BY <1>1, <1>2, <2>1
  <2> QED BY <2>2, OneOpPerId DEF Sound
<1>4. ASSUME NEW k \in DOMAIN f.ret, f.ret[k] = v
      PROVE  FALSE
  <2>1. <<0, k>> \in Uses(f, v)
    BY <1>4, UsesHas
  <2>2. o.id = 0
    BY <1>1, <1>2, <2>1
  <2> QED BY <2>2 DEF Sound, WellFormed, WellFormedOp
<1> QED BY <1>3, <1>4 DEF OnlyUse

NoUse(f, v) ==
  /\ \A p \in Range(f.ops) : \A k \in DOMAIN p.args : p.args[k] # v
  /\ \A k \in DOMAIN f.ret : f.ret[k] # v

LEMMA NoUses ==
  ASSUME NEW f, Sound(f), NEW v, hasNUses(f, v, 0)
  PROVE  NoUse(f, v)
<1>1. Uses(f, v) = {}
  BY UsesAreFinite, FS_EmptySet DEF hasNUses
<1> QED BY <1>1, UsesHas DEF NoUse
----------------------------------------------------------------------------
(* What a rewrite keeps. *)

NoAxis(f) == \A o \in Range(f.ops) : o.kind = "softmax" => "axis" \notin DOMAIN o.attrs

Kept(f, g) == WellFormed(g) /\ Closed(g) /\ Keeps(f, g) /\ (NoAxis(f) => NoAxis(g))

\* An add or a softmax stays as it is.
Alike(o, new) ==
  new.kind \in {"add", "softmax"} => new.kind = o.kind /\ new.args = o.args /\ new.attrs = o.attrs

\* No value that stays is a result of a dead op.
Unread(f, o, new, dead) ==
  /\ o.id \notin dead
  /\ \A p \in Range(f.ops) :
        p.id \notin dead /\ p.id # o.id => \A n \in DOMAIN p.args : p.args[n][1] \notin dead
  /\ \A n \in DOMAIN f.ret : f.ret[n][1] \notin dead
  /\ \A n \in DOMAIN new.args : new.args[n][1] \notin dead /\ Defined(Range(f.ops), new.args[n])

\* What o and the dead ops read, of other ops, the new op reads.
Rereads(f, o, new, dead) ==
  \A p \in Range(f.ops) : p.id \in dead \cup {o.id} =>
     \A n \in DOMAIN p.args : p.args[n][1] \in dead \/ \E k \in DOMAIN new.args : new.args[k] = p.args[n]

\* The new op computes what the old one did.
SameResults(f, o, new) == \A M : Models(f, M) => M[o.id] = Results(new, Values(M, new.args))

LEMMA ReplacedClosed ==
  ASSUME NEW f, Sound(f), NEW o \in Range(f.ops),
         NEW new, new.id = o.id, DOMAIN new.types = DOMAIN o.types,
         NEW dead, Unread(f, o, new, dead),
         NEW g, HasOps(g, {p \in OthersAnd(f, o, new) : p.id \notin dead}, f.ret)
  PROVE  WellFormed(g) /\ Closed(g)
<1> DEFINE Q == Range(g.ops)
<1>1. /\ g.ret = f.ret /\ WellFormed(g)
      /\ \A p \in Q : p = new \/ (p \in Range(f.ops) /\ p.id # o.id /\ p.id \notin dead)
      /\ \A p \in Range(f.ops) : p.id # o.id /\ p.id \notin dead => p \in Q
      /\ new \in Q
  BY DEF HasOps, OthersAnd, Unread
<1> HIDE DEF Q
<1>2. ASSUME NEW v, Defined(Range(f.ops), v), v[1] \notin dead
      PROVE  Defined(Q, v)
  <2>1. CASE v[1] = 0
    BY <2>1 DEF Defined
  <2>2. CASE v[1] # 0
    <3>1. PICK p \in Range(f.ops) : p.id = v[1] /\ v[2] \in DOMAIN p.types
      BY <1>2, <2>2 DEF Defined
    <3>2. CASE p.id = o.id
      <4>1. p = o
        BY <3>2, OneOpPerId DEF Sound
      <4> QED BY <1>1, <3>1, <4>1 DEF Defined
    <3>3. CASE p.id # o.id
      BY <1>1, <1>2, <3>1, <3>3 DEF Defined
    <3> QED BY <3>2, <3>3
  <2> QED BY <2>1, <2>2
<1>3. Closed(g)
  <2>1. ASSUME NEW p \in Q, NEW n \in DOMAIN p.args
        PROVE  Defined(Q, p.args[n])
    <3>1. CASE p = new
      BY <1>2, <3>1 DEF Unread
    <3>2. CASE p \in Range(f.ops) /\ p.id # o.id /\ p.id \notin dead
      BY <1>2, <3>2 DEF Unread, Sound, Closed
    <3> QED BY <1>1, <3>1, <3>2
  <2>2. \A n \in DOMAIN g.ret : Defined(Q, g.ret[n])
    BY <1>1, <1>2 DEF Unread, Sound, Closed
  <2> QED BY <2>1, <2>2 DEF Closed, Q
<1> QED BY <1>1, <1>3

LEMMA ReplacedKept ==
  ASSUME NEW f, Sound(f), NEW o \in Range(f.ops),
         NEW new, new.id = o.id, DOMAIN new.types = DOMAIN o.types, Alike(o, new),
         NEW dead, Unread(f, o, new, dead), SameResults(f, o, new),
         NEW g, HasOps(g, {p \in OthersAnd(f, o, new) : p.id \notin dead}, f.ret)
  PROVE  Kept(f, g)
<1> DEFINE Q == Range(g.ops)
<1>1. /\ g.ret = f.ret /\ WellFormed(g)
      /\ \A p \in Q : p = new \/ (p \in Range(f.ops) /\ p.id # o.id /\ p.id \notin dead)
      /\ \A p \in Range(f.ops) : p.id # o.id /\ p.id \notin dead => p \in Q
      /\ new \in Q
  BY DEF HasOps, OthersAnd, Unread
<1> HIDE DEF Q
<1>3. WellFormed(g) /\ Closed(g)
  BY ReplacedClosed
<1>4. ASSUME NEW M, Models(f, M), ZerosAgree(f, M)
      PROVE  Models(g, M) /\ ZerosAgree(g, M) /\ Values(M, g.ret) = Values(M, f.ret)
  <2>1. Models(g, M)
    <3>1. ASSUME NEW p \in Q
          PROVE  M[p.id] = Results(p, Values(M, p.args))
      BY <1>1, <1>4 DEF Models, SameResults
    <3> QED BY <3>1 DEF Models, Q
  <2>2. ZerosAgree(g, M)
    <3>1. ASSUME NEW p \in Q, p.kind = "add"
          PROVE  \E q \in Range(f.ops) : q.kind = "add" /\ q.args = p.args
      BY <1>1, <3>1 DEF Alike
    <3> QED BY <1>4, <3>1 DEF ZerosAgree, Q
  <2> QED BY <1>1, <2>1, <2>2
<1>5. Keeps(f, g)
  BY <1>4 DEF Keeps
<1>6. NoAxis(f) => NoAxis(g)
  <2>1. ASSUME NEW p \in Q, p.kind = "softmax"
        PROVE  \E q \in Range(f.ops) : q.kind = "softmax" /\ q.attrs = p.attrs
    BY <1>1, <2>1 DEF Alike
  <2> QED BY <2>1 DEF NoAxis, Q
<1> QED BY <1>1, <1>3, <1>5, <1>6 DEF Kept

LEMMA ReplaceOpOps ==
  ASSUME NEW f, Sound(f), NEW o \in Range(f.ops),
         NEW kind, NEW args, NEW attrs, NEW new, new = Op(o.id, kind, args, o.types, attrs),
         WellFormedOp(new), NEW dead
  PROVE  HasOps(ReplaceOp(f, o, kind, args, attrs, dead),
                {p \in OthersAnd(f, o, new) : p.id \notin dead}, f.ret)
<1>1. IsOp(new) /\ new.id = o.id
  BY OpsAreOps DEF Op
<1>2. PICK h : h = Put(f, new)
  OBVIOUS
<1>3. IsFunction(h)
  BY <1>1, <1>2, PutIsFunction DEF Sound
<1>4. HasOps(h, OthersAnd(f, o, new), f.ret)
  BY <1>1, <1>2, PutOps DEF Sound
<1>5. PICK g : g = Without(h, dead)
  OBVIOUS
<1>6. HasOps(g, {p \in Range(h.ops) : p.id \notin dead}, h.ret)
  BY <1>3, <1>4, <1>5, WithoutOps DEF HasOps
<1>7. g = ReplaceOp(f, o, kind, args, attrs, dead)
  BY <1>2, <1>5, Zenon DEF ReplaceOp
<1>8. Range(h.ops) = OthersAnd(f, o, new) /\ h.ret = f.ret
  BY <1>4 DEF HasOps
<1>9. HasOps(g, {p \in OthersAnd(f, o, new) : p.id \notin dead}, f.ret)
  BY <1>6, <1>8
<1> QED BY <1>7, <1>9

\* An op of one result gives way to another one.
LEMMA ReplacingOp ==
  ASSUME NEW f, Sound(f), NEW o \in Range(f.ops), resultCount(o.kind) = 1,
         NEW kind \in Kinds \ {"constant"}, resultCount(kind) = 1,
         NEW args \in Seq(Nat \X Nat), Len(args) = operandCount(kind),
         NEW attrs, NEW new, new = Op(o.id, kind, args, o.types, attrs)
  PROVE  WellFormedOp(new)
<1>1. /\ new.id = o.id /\ new.kind = kind /\ new.args = args /\ new.types = o.types
      /\ new.attrs = attrs
  BY DEF Op
<1>2. /\ o.id \in Nat \ {0} /\ o.types = [n \in 1..1 |-> o.types[n]]
  BY DEF Sound, WellFormed, WellFormedOp
<1> QED BY <1>1, <1>2 DEF WellFormedOp

LEMMA ReplaceOpKept ==
  ASSUME NEW f, Sound(f), NEW o \in Range(f.ops), resultCount(o.kind) = 1,
         NEW kind \in Kinds \ {"add", "softmax", "constant"}, resultCount(kind) = 1,
         NEW args \in Seq(Nat \X Nat), Len(args) = operandCount(kind),
         NEW attrs, NEW dead,
         NEW new, new = Op(o.id, kind, args, o.types, attrs),
         Unread(f, o, new, dead), SameResults(f, o, new)
  PROVE  Kept(f, ReplaceOp(f, o, kind, args, attrs, dead))
<1>1. new.id = o.id /\ new.kind = kind /\ new.types = o.types
  BY DEF Op
<1>2. Alike(o, new)
  BY <1>1 DEF Alike
<1>3. PICK g : g = ReplaceOp(f, o, kind, args, attrs, dead)
  OBVIOUS
<1>4. WellFormedOp(new)
  BY ReplacingOp
<1>5. HasOps(g, {p \in OthersAnd(f, o, new) : p.id \notin dead}, f.ret)
  BY <1>3, <1>4, ReplaceOpOps
<1>6. Kept(f, g)
  BY <1>1, <1>2, <1>5, ReplacedKept
<1> QED BY <1>3, <1>6

\* Op d has no results but operand n of o.
ReadBy(f, d, o, n) ==
  /\ \A p \in Range(f.ops) : \A k \in DOMAIN p.args : p.args[k][1] = d.id => p = o /\ k = n
  /\ \A k \in DOMAIN f.ret : f.ret[k][1] # d.id

Produces(f, d, o, n) == d \in Range(f.ops) /\ o.args[n] = Result(d) /\ ReadBy(f, d, o, n)

LEMMA Producer ==
  ASSUME NEW f, Sound(f), NEW o \in Range(f.ops), NEW n \in DOMAIN o.args,
         NEW d, d = Def(f, o.args[n]), d.kind # "block_argument", resultCount(d.kind) = 1,
         hasNUses(f, Result(d), 1)
  PROVE  Produces(f, d, o, n)
<1>1. d \in Range(f.ops) /\ o.args[n] = Result(d)
  BY DefIsOp
<1>2. OnlyUse(f, Result(d), o, n)
  BY <1>1, OneUse
<1>3. ASSUME NEW v \in Nat \X Nat, Defined(Range(f.ops), v), v[1] = d.id
      PROVE  v = Result(d)
  <2>1. d.id # 0 /\ DOMAIN d.types = 1..1
    BY <1>1 DEF Sound, WellFormed, WellFormedOp
  <2>2. PICK p \in Range(f.ops) : p.id = v[1] /\ v[2] \in DOMAIN p.types
    BY <1>3, <2>1 DEF Defined
  <2>3. p = d
    BY <1>1, <1>3, <2>2, OneOpPerId DEF Sound
  <2> QED BY <1>3, <2>1, <2>2, <2>3 DEF Result
<1>4. ASSUME NEW p \in Range(f.ops), NEW k \in DOMAIN p.args, p.args[k][1] = d.id
      PROVE  p = o /\ k = n
  <2>1. p.args \in Seq(Nat \X Nat)
    BY DEF Sound, WellFormed, WellFormedOp
  <2>2. p.args[k] \in Nat \X Nat /\ Defined(Range(f.ops), p.args[k])
    BY <2>1 DEF Sound, Closed
  <2> QED BY <1>2, <1>3, <1>4, <2>2 DEF OnlyUse
<1>5. ASSUME NEW k \in DOMAIN f.ret, f.ret[k][1] = d.id
      PROVE  FALSE
  <2>1. f.ret \in Seq(Nat \X Nat)
    BY DEF Sound, WellFormed
  <2>2. f.ret[k] \in Nat \X Nat /\ Defined(Range(f.ops), f.ret[k])
    BY <2>1 DEF Sound, Closed
  <2> QED BY <1>2, <1>3, <1>5, <2>2 DEF OnlyUse
<1> QED BY <1>1, <1>4, <1>5 DEF Produces, ReadBy

\* What o has for that operand is what d computes.
LEMMA ProducedValue ==
  ASSUME NEW f, NEW M, Models(f, M), Sound(f), NEW o \in Range(f.ops), NEW n \in DOMAIN o.args,
         NEW d \in Range(f.ops), o.args[n] = Result(d)
  PROVE  Values(M, o.args)[n] = Results(d, Values(M, d.args))[1]
<1>1. Values(M, o.args)[n] = Value(M, Result(d))
  BY DEF Values
<1>2. d.id # 0
  BY DEF Sound, WellFormed, WellFormedOp
<1>3. Value(M, Result(d)) = M[d.id][1]
  BY <1>2 DEF Value, Result
<1> QED BY <1>1, <1>3 DEF Models
----------------------------------------------------------------------------
(* The fusions. *)

LEMMA ResultsOf ==
  ASSUME NEW o, NEW X
  PROVE  /\ o.kind = "constant" => Results(o, X) = <<Const(o.attrs["value"], o.types[1])>>
         /\ o.kind \in {"gelu", "silu"} => Results(o, X) = <<Elementwise(o.kind, X[1])>>
         /\ o.kind = "add" => Results(o, X) = <<Sum(X[1], X[2])>>
         /\ o.kind = "rmsnorm" => Results(o, X) = <<RmsNorm(X[1], Attr(o, "epsilon", 0))>>
         /\ o.kind = "matmul" => Results(o, X) = <<MatMul(X[1], X[2])>>
         /\ o.kind = "bias" => Results(o, X) = <<Bias(X[1], X[2])>>
         /\ o.kind = "softmax" => Results(o, X) = <<Softmax(X[1], Attr(o, "axis", LastAxis))>>
         /\ o.kind = "attention" => Results(o, X) = <<Attention(X[1], X[2], X[3])>>
         /\ o.kind = "kv_cache_update" => Results(o, X) = <<KVCacheUpdate(X[1], X[2], X[3])>>
         /\ o.kind = "fused_rmsnorm_matmul" =>
              Results(o, X) = <<MatMul(RmsNorm(X[1], Attr(o, "epsilon", 0)), X[2])>>
         /\ o.kind = "fused_matmul_bias_gelu" =>
              Results(o, X) = <<Elementwise("gelu", Bias(MatMul(X[1], X[2]), X[3]))>>
         /\ o.kind = "fused_residual_rmsnorm" =>
              Results(o, X) = <<RmsNorm(Sum(X[1], X[2]), Attr(o, "epsilon", 0))>>
         /\ o.kind = "fused_softmax_mask" => Results(o, X) = <<Softmax(Sum(X[1], X[2]), LastAxis)>>
         /\ o.kind = "fused_kv_append_attention" =>
              Results(o, X) = <<Attention(X[1], X[3], X[4]), KVCacheUpdate(X[2], X[3], X[4])>>
BY Zenon DEF Results

LEMMA CarriedEpsilon ==
  ASSUME NEW d, NEW name, NEW types, NEW o, o.attrs = Joined(CarryEpsilon(d), FusedFrom(name, types))
  PROVE  Attr(o, "epsilon", 0) = Attr(d, "epsilon", 0)
<1>1. "epsilon" \notin DOMAIN FusedFrom(name, types)
  BY DEF FusedFrom
<1> QED BY <1>1 DEF CarryEpsilon, Attr, Joined

\* Shape of an op by its kind.
LEMMA OperandsOf ==
  ASSUME NEW f, Sound(f), NEW o \in Range(f.ops)
  PROVE  /\ o.args \in Seq(Nat \X Nat) /\ Len(o.args) = operandCount(o.kind)
         /\ DOMAIN o.args = 1..operandCount(o.kind)
         /\ \A n \in DOMAIN o.args : o.args[n] \in Nat \X Nat /\ Defined(Range(f.ops), o.args[n])
<1>1. /\ o.args \in Seq(Nat \X Nat) /\ Len(o.args) = operandCount(o.kind)
  BY DEF Sound, WellFormed, WellFormedOp
<1>2. DOMAIN o.args = 1..Len(o.args)
  BY <1>1
<1>3. \A n \in DOMAIN o.args : o.args[n] \in Nat \X Nat
  BY <1>1
<1>4. \A n \in DOMAIN o.args : Defined(Range(f.ops), o.args[n])
  BY DEF Sound, Closed
<1> QED BY <1>1, <1>2, <1>3, <1>4

LEMMA Counts ==
  /\ operandCount("constant") = 0
  /\ \A k \in {"rmsnorm", "gelu", "silu", "softmax"} : operandCount(k) = 1
  /\ \A k \in {"add", "matmul", "bias", "fused_rmsnorm_matmul", "fused_residual_rmsnorm",
               "fused_softmax_mask"} : operandCount(k) = 2
  /\ \A k \in {"attention", "kv_cache_update", "fused_matmul_bias_gelu"} : operandCount(k) = 3
  /\ operandCount("fused_kv_append_attention") = 4
  /\ resultCount("fused_kv_append_attention") = 2
  /\ \A k : k # "qkv_projection" /\ k # "fused_kv_append_attention" => resultCount(k) = 1
BY DEF operandCount, resultCount

LEMMA RmsnormMatmulReads ==
  ASSUME NEW f, Sound(f), NEW o \in Range(f.ops), o.kind = "matmul",
         NEW rms, rms = Def(f, o.args[1]), rms.kind = "rmsnorm", hasNUses(f, Result(rms), 1),
         NEW new, new.args = <<rms.args[1], o.args[2]>>
  PROVE  /\ Produces(f, rms, o, 1) /\ DOMAIN o.args = 1..2 /\ DOMAIN rms.args = 1..1
         /\ new.args \in Seq(Nat \X Nat) /\ Len(new.args) = 2
         /\ Unread(f, o, new, {rms.id}) /\ Rereads(f, o, new, {rms.id})
<1>1. DOMAIN o.args = 1..2 /\ 1 \in DOMAIN o.args /\ 2 \in DOMAIN o.args
  <2>1. operandCount(o.kind) = 2
    BY Counts
  <2>2. DOMAIN o.args = 1..operandCount(o.kind)
    BY OperandsOf
  <2> QED BY <2>1, <2>2
<1>2. Produces(f, rms, o, 1)
  BY <1>1, Producer, Counts
<1>3. rms \in Range(f.ops) /\ o.args[1] = Result(rms) /\ ReadBy(f, rms, o, 1)
  BY <1>2 DEF Produces
<1>4. DOMAIN rms.args = 1..1 /\ 1 \in DOMAIN rms.args
  <2>1. operandCount(rms.kind) = 1
    BY Counts
  <2>2. DOMAIN rms.args = 1..operandCount(rms.kind)
    BY <1>3, OperandsOf
  <2> QED BY <2>1, <2>2
<1>5. /\ rms.args[1] \in Nat \X Nat /\ o.args[2] \in Nat \X Nat
      /\ Defined(Range(f.ops), rms.args[1]) /\ Defined(Range(f.ops), o.args[2])
  BY <1>1, <1>3, <1>4, OperandsOf
<1>6. rms # o /\ rms.id # o.id
  BY <1>3, OneOpPerId DEF Sound
<1>7. DOMAIN new.args = 1..2 /\ new.args[1] = rms.args[1] /\ new.args[2] = o.args[2]
  OBVIOUS
<1>8. Unread(f, o, new, {rms.id})
  <2>1. rms.args[1][1] # rms.id /\ o.args[2][1] # rms.id
    BY <1>1, <1>3, <1>4, <1>6 DEF ReadBy
  <2>2. \A n \in DOMAIN new.args :
           new.args[n][1] \notin {rms.id} /\ Defined(Range(f.ops), new.args[n])
    BY <1>5, <1>7, <2>1
  <2> QED BY <1>3, <1>6, <2>2 DEF Unread, ReadBy
<1>9. Rereads(f, o, new, {rms.id})
  <2>1. \A p \in Range(f.ops) : p.id \in {rms.id} \cup {o.id} => p = rms \/ p = o
    BY <1>3, OneOpPerId DEF Sound
  <2>2. o.args[1][1] = rms.id
    BY <1>3 DEF Result
  <2> QED BY <1>1, <1>4, <1>7, <2>1, <2>2 DEF Rereads
<1>10. new.args \in Seq(Nat \X Nat) /\ Len(new.args) = 2
  BY <1>5
<1> QED BY <1>1, <1>2, <1>4, <1>8, <1>9, <1>10

LEMMA RmsnormMatmulKept ==
  ASSUME NEW f, Sound(f), NEW o \in Range(f.ops), NEW g \in FuseRmsnormMatmulPattern(f, o)
  PROVE  Kept(f, g)
<1>1. PICK rms : rms = Def(f, o.args[1])
  OBVIOUS
<1>2. PICK attrs : attrs = Joined(CarryEpsilon(rms), FusedFrom("rmsnorm_matmul", rms.types))
  OBVIOUS
<1>3. PICK args : args = <<rms.args[1], o.args[2]>>
  OBVIOUS
<1>4. PICK new : new = Op(o.id, "fused_rmsnorm_matmul", args, o.types, attrs)
  OBVIOUS
<1>5. /\ o.kind = "matmul" /\ rms.kind = "rmsnorm" /\ hasNUses(f, Result(rms), 1)
      /\ g = ReplaceOp(f, o, "fused_rmsnorm_matmul", args, attrs, {rms.id})
  BY <1>1, <1>2, <1>3 DEF FuseRmsnormMatmulPattern
<1>6. new.args = args
  BY <1>4 DEF Op
<1>7. /\ Produces(f, rms, o, 1) /\ DOMAIN o.args = 1..2 /\ DOMAIN rms.args = 1..1
      /\ args \in Seq(Nat \X Nat) /\ Len(args) = 2
      /\ Unread(f, o, new, {rms.id})
  <2>1. new.args = <<rms.args[1], o.args[2]>>
    BY <1>3, <1>6
  <2>2. /\ Produces(f, rms, o, 1) /\ DOMAIN o.args = 1..2 /\ DOMAIN rms.args = 1..1
        /\ new.args \in Seq(Nat \X Nat) /\ Len(new.args) = 2
        /\ Unread(f, o, new, {rms.id})
    BY <1>1, <1>5, <2>1, RmsnormMatmulReads
  <2> QED BY <1>6, <2>2
<1>8. SameResults(f, o, new)
  <2> SUFFICES ASSUME NEW M, Models(f, M)
               PROVE  M[o.id] = Results(new, Values(M, new.args))
    BY DEF SameResults
  <2>1. PICK X : X = Values(M, o.args)
    OBVIOUS
  <2>2. PICK Y : Y = Values(M, rms.args)
    OBVIOUS
  <2>3. PICK Z : Z = Values(M, new.args)
    OBVIOUS
  <2>4. M[o.id] = <<MatMul(X[1], X[2])>>
    BY <1>5, <2>1, ResultsOf DEF Models
  <2>5. X[1] = Results(rms, Y)[1]
    BY <1>7, <2>1, <2>2, ProducedValue DEF Produces
  <2>6. X[1] = RmsNorm(Y[1], Attr(rms, "epsilon", 0))
    BY <1>5, <2>5, ResultsOf
  <2>7. Z[1] = Y[1] /\ Z[2] = X[2]
    BY <1>3, <1>6, <1>7, <2>1, <2>2, <2>3 DEF Values
  <2>8. new.kind = "fused_rmsnorm_matmul" /\ new.attrs = attrs
    BY <1>4 DEF Op
  <2>9. Attr(new, "epsilon", 0) = Attr(rms, "epsilon", 0)
    BY <1>2, <2>8, CarriedEpsilon
  <2>10. Results(new, Z) = <<MatMul(RmsNorm(Z[1], Attr(new, "epsilon", 0)), Z[2])>>
    BY <2>8, ResultsOf
  <2> QED BY <2>3, <2>4, <2>6, <2>7, <2>9, <2>10
<1>9. Kept(f, ReplaceOp(f, o, "fused_rmsnorm_matmul", args, attrs, {rms.id}))
  BY <1>4, <1>5, <1>7, <1>8, ReplaceOpKept, Counts DEF Kinds
<1> QED BY <1>5, <1>9

\* Of the operands of an add, new computes what o does of their sum.
Absorbs(new, o) == \A X, Y : X[1] = Sum(Y[1], Y[2]) => Results(o, X) = Results(new, Y)

\* An op of the sum that an add computes, for no one else, takes the add's operands.
LEMMA AbsorbedReads ==
  ASSUME NEW f, Sound(f), NEW o \in Range(f.ops), DOMAIN o.args = 1..1, o.kind # "add",
         NEW add, add = Def(f, o.args[1]), add.kind = "add", hasNUses(f, Result(add), 1),
         NEW new, new.args = add.args
  PROVE  /\ Produces(f, add, o, 1) /\ add.args \in Seq(Nat \X Nat) /\ Len(add.args) = 2
         /\ Unread(f, o, new, {add.id}) /\ Rereads(f, o, new, {add.id})
<1>1. 1 \in DOMAIN o.args
  OBVIOUS
<1>2. Produces(f, add, o, 1)
  BY <1>1, Producer, Counts
<1>3. add \in Range(f.ops) /\ o.args[1] = Result(add) /\ ReadBy(f, add, o, 1)
  BY <1>2 DEF Produces
<1>4. add # o /\ add.id # o.id
  BY <1>3, OneOpPerId DEF Sound
<1>5. Unread(f, o, new, {add.id})
  <2>1. \A n \in DOMAIN new.args :
           new.args[n][1] \notin {add.id} /\ Defined(Range(f.ops), new.args[n])
    BY <1>3, <1>4, OperandsOf DEF ReadBy
  <2> QED BY <1>3, <1>4, <2>1 DEF Unread, ReadBy
<1>6. Rereads(f, o, new, {add.id})
  <2>1. \A p \in Range(f.ops) : p.id \in {add.id} \cup {o.id} => p = add \/ p = o
    BY <1>3, OneOpPerId DEF Sound
  <2>2. o.args[1][1] = add.id
    BY <1>3 DEF Result
  <2> QED BY <2>1, <2>2 DEF Rereads
<1>7. operandCount(add.kind) = 2
  BY Counts
<1>8. add.args \in Seq(Nat \X Nat) /\ Len(add.args) = 2
  BY <1>3, <1>7, OperandsOf
<1> QED BY <1>2, <1>5, <1>6, <1>8

LEMMA AbsorbedKept ==
  ASSUME NEW f, Sound(f), NEW o \in Range(f.ops), DOMAIN o.args = 1..1, resultCount(o.kind) = 1,
         NEW add, add = Def(f, o.args[1]), add.kind = "add", o.kind # "add",
         hasNUses(f, Result(add), 1),
         NEW kind \in {"fused_residual_rmsnorm", "fused_softmax_mask"}, NEW attrs,
         NEW new, new = Op(o.id, kind, add.args, o.types, attrs),
         Absorbs(new, o)
  PROVE  Kept(f, ReplaceOp(f, o, kind, add.args, attrs, {add.id}))
<1>1. new.args = add.args
  BY DEF Op
<1>2. /\ Produces(f, add, o, 1) /\ add.args \in Seq(Nat \X Nat) /\ Len(add.args) = 2
      /\ Unread(f, o, new, {add.id})
  BY <1>1, AbsorbedReads
<1>3. SameResults(f, o, new)
  <2> SUFFICES ASSUME NEW M, Models(f, M)
               PROVE  M[o.id] = Results(new, Values(M, new.args))
    BY DEF SameResults
  <2>1. PICK X : X = Values(M, o.args)
    OBVIOUS
  <2>2. PICK Y : Y = Values(M, add.args)
    OBVIOUS
  <2>3. X[1] = Results(add, Y)[1]
    <3>1. 1 \in DOMAIN o.args /\ add \in Range(f.ops) /\ o.args[1] = Result(add)
      BY <1>2 DEF Produces
    <3>2. Values(M, o.args)[1] = Results(add, Values(M, add.args))[1]
      BY <3>1, ProducedValue
    <3> QED BY <2>1, <2>2, <3>2, Zenon
  <2>4. X[1] = Sum(Y[1], Y[2])
    BY <2>3, ResultsOf
  <2>5. M[o.id] = Results(o, X)
    BY <2>1 DEF Models
  <2> QED BY <1>1, <2>2, <2>4, <2>5 DEF Absorbs
<1>4. operandCount(kind) = 2 /\ resultCount(kind) = 1
  BY Counts
<1> QED BY <1>2, <1>3, <1>4, ReplaceOpKept DEF Kinds

LEMMA ResidualRmsnormKept ==
  ASSUME NEW f, Sound(f), NEW o \in Range(f.ops), NEW g \in FuseResidualRmsnormPattern(f, o)
  PROVE  Kept(f, g)
<1>1. PICK add : add = Def(f, o.args[1])
  OBVIOUS
<1>2. PICK attrs : attrs = Joined(CarryEpsilon(o), FusedFrom("residual_rmsnorm", add.types))
  OBVIOUS
<1>3. PICK new : new = Op(o.id, "fused_residual_rmsnorm", add.args, o.types, attrs)
  OBVIOUS
<1>4. /\ o.kind = "rmsnorm" /\ add.kind = "add" /\ hasNUses(f, Result(add), 1)
      /\ g = ReplaceOp(f, o, "fused_residual_rmsnorm", add.args, attrs, {add.id})
  BY <1>1, <1>2 DEF FuseResidualRmsnormPattern
<1>5. DOMAIN o.args = 1..1 /\ resultCount(o.kind) = 1
  <2>1. operandCount(o.kind) = 1
    BY <1>4, Counts
  <2>2. DOMAIN o.args = 1..operandCount(o.kind)
    BY OperandsOf
  <2>3. resultCount(o.kind) = 1
    BY <1>4, Counts
  <2> QED BY <2>1, <2>2, <2>3
<1>6. new.kind = "fused_residual_rmsnorm" /\ Attr(new, "epsilon", 0) = Attr(o, "epsilon", 0)
  <2>1. new.kind = "fused_residual_rmsnorm" /\ new.attrs = attrs
    BY <1>3 DEF Op
  <2> QED BY <1>2, <2>1, CarriedEpsilon
<1>7. Absorbs(new, o)
  BY <1>4, <1>6, ResultsOf DEF Absorbs
<1>8. Kept(f, ReplaceOp(f, o, "fused_residual_rmsnorm", add.args, attrs, {add.id}))
  BY <1>1, <1>3, <1>4, <1>5, <1>7, AbsorbedKept
<1> QED BY <1>4, <1>8

\* The masked softmax is along the last axis: no other one is carried.
LEMMA SoftmaxMaskKept ==
  ASSUME NEW f, Sound(f), NoAxis(f), NEW o \in Range(f.ops), NEW g \in FuseSoftmaxMaskPattern(f, o)
  PROVE  Kept(f, g)
<1>1. PICK add : add = Def(f, o.args[1])
  OBVIOUS
<1>2. PICK attrs : attrs = FusedFrom("softmax_mask", add.types)
  OBVIOUS
<1>3. PICK new : new = Op(o.id, "fused_softmax_mask", add.args, o.types, attrs)
  OBVIOUS
<1>4. /\ o.kind = "softmax" /\ add.kind = "add" /\ hasNUses(f, Result(add), 1)
      /\ g = ReplaceOp(f, o, "fused_softmax_mask", add.args, attrs, {add.id})
  BY <1>1, <1>2 DEF FuseSoftmaxMaskPattern
<1>5. DOMAIN o.args = 1..1 /\ resultCount(o.kind) = 1
  <2>1. operandCount(o.kind) = 1
    BY <1>4, Counts
  <2>2. DOMAIN o.args = 1..operandCount(o.kind)
    BY OperandsOf
  <2>3. resultCount(o.kind) = 1
    BY <1>4, Counts
  <2> QED BY <2>1, <2>2, <2>3
<1>6. new.kind = "fused_softmax_mask" /\ Attr(o, "axis", LastAxis) = LastAxis
  BY <1>3, <1>4 DEF Op, NoAxis, Attr
<1>7. Absorbs(new, o)
  BY <1>4, <1>6, ResultsOf DEF Absorbs
<1>8. Kept(f, ReplaceOp(f, o, "fused_softmax_mask", add.args, attrs, {add.id}))
  BY <1>1, <1>3, <1>4, <1>5, <1>7, AbsorbedKept
<1> QED BY <1>4, <1>8

LEMMA TripleOf ==
  ASSUME NEW S, NEW a \in S, NEW b \in S, NEW c \in S, NEW s, s = <<a, b, c>>
  PROVE  /\ s \in Seq(S) /\ Len(s) = 3 /\ DOMAIN s = 1..3
         /\ s[1] = a /\ s[2] = b /\ s[3] = c /\ \A n \in DOMAIN s : s[n] \in S
OBVIOUS

\* A gelu of a bias of a matmul, each read once, gives way to a new op.
BiasedMatmul(f, o, bias, mm, new, dead) ==
  /\ dead = {bias.id, mm.id} /\ new.args = <<mm.args[1], mm.args[2], bias.args[2]>>
  /\ bias = Def(f, o.args[1]) /\ mm = Def(f, bias.args[1])
  /\ o.kind = "gelu" /\ bias.kind = "bias" /\ mm.kind = "matmul"
  /\ hasNUses(f, Result(mm), 1) /\ hasNUses(f, Result(bias), 1)

LEMMA MatmulBiasGeluReads ==
  ASSUME NEW f, Sound(f), NEW o \in Range(f.ops), NEW bias, NEW mm, NEW new, NEW dead,
         BiasedMatmul(f, o, bias, mm, new, dead)
  PROVE  /\ Produces(f, bias, o, 1) /\ Produces(f, mm, bias, 1)
         /\ DOMAIN o.args = 1..1 /\ DOMAIN bias.args = 1..2 /\ DOMAIN mm.args = 1..2
         /\ new.args \in Seq(Nat \X Nat) /\ Len(new.args) = 3
         /\ Unread(f, o, new, dead) /\ Rereads(f, o, new, dead)
<1>0. /\ dead = {bias.id, mm.id} /\ new.args = <<mm.args[1], mm.args[2], bias.args[2]>>
      /\ bias = Def(f, o.args[1]) /\ mm = Def(f, bias.args[1])
      /\ o.kind = "gelu" /\ bias.kind = "bias" /\ mm.kind = "matmul"
      /\ hasNUses(f, Result(mm), 1) /\ hasNUses(f, Result(bias), 1)
  BY DEF BiasedMatmul
<1>1. DOMAIN o.args = 1..1 /\ 1 \in DOMAIN o.args
  <2>1. operandCount(o.kind) = 1
    BY <1>0, Counts
  <2>2. DOMAIN o.args = 1..operandCount(o.kind)
    BY OperandsOf
  <2> QED BY <2>1, <2>2
<1>2. Produces(f, bias, o, 1)
  BY <1>0, <1>1, Producer, Counts
<1>3. bias \in Range(f.ops) /\ o.args[1] = Result(bias) /\ ReadBy(f, bias, o, 1)
  BY <1>2 DEF Produces
<1>4. DOMAIN bias.args = 1..2 /\ 1 \in DOMAIN bias.args /\ 2 \in DOMAIN bias.args
  <2>1. operandCount(bias.kind) = 2
    BY <1>0, Counts
  <2>2. DOMAIN bias.args = 1..operandCount(bias.kind)
    BY <1>3, OperandsOf
  <2> QED BY <2>1, <2>2
<1>5. Produces(f, mm, bias, 1)
  BY <1>0, <1>3, <1>4, Producer, Counts
<1>6. mm \in Range(f.ops) /\ bias.args[1] = Result(mm) /\ ReadBy(f, mm, bias, 1)
  BY <1>5 DEF Produces
<1>7. DOMAIN mm.args = 1..2 /\ 1 \in DOMAIN mm.args /\ 2 \in DOMAIN mm.args
  <2>1. operandCount(mm.kind) = 2
    BY <1>0, Counts
  <2>2. DOMAIN mm.args = 1..operandCount(mm.kind)
    BY <1>6, OperandsOf
  <2> QED BY <2>1, <2>2
<1>8. /\ mm.args[1] \in Nat \X Nat /\ Defined(Range(f.ops), mm.args[1])
      /\ mm.args[2] \in Nat \X Nat /\ Defined(Range(f.ops), mm.args[2])
      /\ bias.args[2] \in Nat \X Nat /\ Defined(Range(f.ops), bias.args[2])
  BY <1>3, <1>4, <1>6, <1>7, OperandsOf
<1>9. bias # o /\ mm # o /\ mm # bias /\ bias.id # o.id /\ mm.id # o.id
  BY <1>0, <1>3, <1>6, OneOpPerId DEF Sound
<1>10. /\ new.args \in Seq(Nat \X Nat) /\ Len(new.args) = 3 /\ DOMAIN new.args = 1..3
       /\ new.args[1] = mm.args[1] /\ new.args[2] = mm.args[2] /\ new.args[3] = bias.args[2]
  <2>1. PICK a, b, c : a = mm.args[1] /\ b = mm.args[2] /\ c = bias.args[2]
    OBVIOUS
  <2>2. PICK s : s = new.args
    OBVIOUS
  <2>3. PICK S : S = Nat \X Nat
    OBVIOUS
  <2>4. s = <<a, b, c>> /\ a \in S /\ b \in S /\ c \in S
    BY <1>0, <1>8, <2>1, <2>2, <2>3
  <2>5. /\ s \in Seq(S) /\ Len(s) = 3 /\ DOMAIN s = 1..3 /\ s[1] = a /\ s[2] = b /\ s[3] = c
    BY <2>4, TripleOf
  <2> QED BY <2>1, <2>2, <2>3, <2>5
<1>11. Unread(f, o, new, dead)
  <2>0. \A p \in Range(f.ops) : p.id = bias.id => p = bias
    BY <1>3, OneOpPerId DEF Sound
  <2>1. \A p \in Range(f.ops) : \A n \in DOMAIN p.args :
           /\ p.args[n][1] = bias.id => p = o /\ n = 1
           /\ p.args[n][1] = mm.id => p = bias /\ n = 1
    BY <1>3, <1>6 DEF ReadBy
  <2>2. mm.args[1][1] \notin {bias.id, mm.id} /\ mm.args[2][1] \notin {bias.id, mm.id}
    BY <1>6, <1>7, <1>9, <2>1
  <2>2a. bias.args[2][1] \notin {bias.id, mm.id}
    BY <1>3, <1>4, <1>9, <2>1
  <2>3. \A n \in DOMAIN new.args :
           new.args[n][1] \notin {bias.id, mm.id} /\ Defined(Range(f.ops), new.args[n])
    <3>1. PICK S : S = {v \in Nat \X Nat : v[1] \notin {bias.id, mm.id} /\ Defined(Range(f.ops), v)}
      OBVIOUS
    <3>2. mm.args[1] \in S /\ mm.args[2] \in S /\ bias.args[2] \in S
      BY <1>8, <2>2, <2>2a, <3>1
    <3>3. \A n \in DOMAIN new.args : new.args[n] \in S
      <4>1. ASSUME NEW n \in 1..3
            PROVE  n = 1 \/ n = 2 \/ n = 3
        OBVIOUS
      <4>2. new.args[1] \in S /\ new.args[2] \in S /\ new.args[3] \in S
        BY <1>10, <3>2
      <4> QED BY <1>10, <4>1, <4>2
    <3> QED BY <3>1, <3>3
  <2>4. \A p \in Range(f.ops) : p.id \notin {bias.id, mm.id} /\ p.id # o.id =>
           \A n \in DOMAIN p.args : p.args[n][1] \notin {bias.id, mm.id}
    BY <2>1
  <2>5. \A n \in DOMAIN f.ret : f.ret[n][1] \notin {bias.id, mm.id}
    BY <1>3, <1>6 DEF ReadBy
  <2> QED BY <1>0, <1>9, <2>3, <2>4, <2>5 DEF Unread
<1>12. Rereads(f, o, new, dead)
  <2>1. \A p \in Range(f.ops) : p.id \in {bias.id, mm.id} \cup {o.id} => p = bias \/ p = mm \/ p = o
    BY <1>3, <1>6, OneOpPerId DEF Sound
  <2>2. Result(bias)[1] = bias.id /\ Result(mm)[1] = mm.id
    BY DEF Result
  <2>3. o.args[1][1] = bias.id /\ bias.args[1][1] = mm.id
    BY <1>3, <1>6, <2>2
  <2>4. PICK d, K, r : d = {bias.id, mm.id} /\ K = DOMAIN new.args /\ r = new.args
    OBVIOUS
  <2>5. /\ 1 \in K /\ 2 \in K /\ 3 \in K
        /\ r[1] = mm.args[1] /\ r[2] = mm.args[2] /\ r[3] = bias.args[2]
    BY <1>10, <2>4
  <2>6. \A n \in DOMAIN o.args : o.args[n][1] \in d
    BY <1>1, <2>3, <2>4
  <2>7. \A n \in DOMAIN mm.args : \E k \in K : r[k] = mm.args[n]
    <3>1. \A n \in DOMAIN mm.args : n = 1 \/ n = 2
      BY <1>7
    <3> QED BY <2>5, <3>1
  <2>8. \A n \in DOMAIN bias.args : bias.args[n][1] \in d \/ \E k \in K : r[k] = bias.args[n]
    <3>1. \A n \in DOMAIN bias.args : n = 1 \/ n = 2
      BY <1>4
    <3>2. bias.args[1][1] \in d
      BY <2>3, <2>4
    <3> QED BY <2>5, <3>1, <3>2
  <2>9. ASSUME NEW p \in Range(f.ops), p.id \in {bias.id, mm.id} \cup {o.id}, NEW n \in DOMAIN p.args
        PROVE  p.args[n][1] \in d \/ \E k \in K : r[k] = p.args[n]
    BY <2>1, <2>6, <2>7, <2>8, <2>9
  <2> QED BY <1>0, <2>4, <2>9 DEF Rereads
<1> QED BY <1>1, <1>2, <1>4, <1>5, <1>7, <1>10, <1>11, <1>12

LEMMA MatmulBiasGeluKept ==
  ASSUME NEW f, Sound(f), NEW o \in Range(f.ops), NEW g \in FuseMatmulBiasGeluPattern(f, o)
  PROVE  Kept(f, g)
<1>1. PICK bias : bias = Def(f, o.args[1])
  OBVIOUS
<1>2. PICK mm : mm = Def(f, bias.args[1])
  OBVIOUS
<1>3. PICK attrs : attrs = FusedFrom("matmul_bias_gelu", mm.types \o bias.types)
  OBVIOUS
<1>4. PICK args : args = <<mm.args[1], mm.args[2], bias.args[2]>>
  OBVIOUS
<1>5. PICK new : new = Op(o.id, "fused_matmul_bias_gelu", args, o.types, attrs)
  OBVIOUS
<1>6. /\ o.kind = "gelu" /\ bias.kind = "bias" /\ mm.kind = "matmul"
      /\ hasNUses(f, Result(mm), 1) /\ hasNUses(f, Result(bias), 1)
      /\ g = ReplaceOp(f, o, "fused_matmul_bias_gelu", args, attrs, {bias.id, mm.id})
  BY <1>1, <1>2, <1>3, <1>4 DEF FuseMatmulBiasGeluPattern
<1>7. new.args = args /\ new.kind = "fused_matmul_bias_gelu"
  BY <1>5 DEF Op
<1>8. /\ Produces(f, bias, o, 1) /\ Produces(f, mm, bias, 1)
      /\ DOMAIN o.args = 1..1 /\ DOMAIN bias.args = 1..2 /\ DOMAIN mm.args = 1..2
      /\ args \in Seq(Nat \X Nat) /\ Len(args) = 3
      /\ Unread(f, o, new, {bias.id, mm.id})
  <2>1. BiasedMatmul(f, o, bias, mm, new, {bias.id, mm.id})
    BY <1>1, <1>2, <1>4, <1>6, <1>7 DEF BiasedMatmul
  <2>2. /\ Produces(f, bias, o, 1) /\ Produces(f, mm, bias, 1)
        /\ DOMAIN o.args = 1..1 /\ DOMAIN bias.args = 1..2 /\ DOMAIN mm.args = 1..2
        /\ new.args \in Seq(Nat \X Nat) /\ Len(new.args) = 3
        /\ Unread(f, o, new, {bias.id, mm.id})
    BY <2>1, MatmulBiasGeluReads
  <2> QED BY <1>7, <2>2
<1>9. SameResults(f, o, new)
  <2> SUFFICES ASSUME NEW M, Models(f, M)
               PROVE  M[o.id] = Results(new, Values(M, new.args))
    BY DEF SameResults
  <2>1. PICK X : X = Values(M, o.args)
    OBVIOUS
  <2>2. PICK Y : Y = Values(M, bias.args)
    OBVIOUS
  <2>3. PICK W : W = Values(M, mm.args)
    OBVIOUS
  <2>4. PICK Z : Z = Values(M, new.args)
    OBVIOUS
  <2>5. M[o.id] = <<Elementwise("gelu", X[1])>>
    BY <1>6, <2>1, ResultsOf DEF Models
  <2>6. X[1] = Results(bias, Y)[1]
    BY <1>8, <2>1, <2>2, ProducedValue DEF Produces
  <2>7. X[1] = Bias(Y[1], Y[2])
    BY <1>6, <2>6, ResultsOf
  <2>8. Y[1] = Results(mm, W)[1]
    BY <1>8, <2>2, <2>3, ProducedValue DEF Produces
  <2>9. Y[1] = MatMul(W[1], W[2])
    BY <1>6, <2>8, ResultsOf
  <2>10. Z[1] = W[1] /\ Z[2] = W[2] /\ Z[3] = Y[2]
    BY <1>4, <1>7, <1>8, <2>2, <2>3, <2>4 DEF Values
  <2>11. Results(new, Z) = <<Elementwise("gelu", Bias(MatMul(Z[1], Z[2]), Z[3]))>>
    BY <1>7, ResultsOf
  <2> QED BY <2>4, <2>5, <2>7, <2>9, <2>10, <2>11
<1>10. Kept(f, ReplaceOp(f, o, "fused_matmul_bias_gelu", args, attrs, {bias.id, mm.id}))
  BY <1>5, <1>6, <1>8, <1>9, ReplaceOpKept, Counts DEF Kinds
<1> QED BY <1>6, <1>10

----------------------------------------------------------------------------
(* Rewrites that rename a value: the KV append and the adds of zero. *)

LEMMA ResultsSame ==
  ASSUME NEW o, NEW p, o.kind = p.kind, o.attrs = p.attrs, o.types = p.types, NEW X
  PROVE  Results(o, X) = Results(p, X)
BY DEF Results, Attr

\* What is left when a value is renamed and then op gone dropped.
RenamedOthers(O, from, to, gone) == {Renamed(p, from, to) : p \in {q \in O : q.id # gone}}

LEMMA RenamedWithout ==
  ASSUME NEW h, IsFunction(h), WellFormed(h), NEW from, NEW to \in Nat \X Nat, NEW gone
  PROVE  HasOps(Without(ReplaceAllUsesWith(h, from, to), {gone}),
                RenamedOthers(Range(h.ops), from, to, gone), Substituted(h.ret, from, to))
<1>1. PICK k : k = ReplaceAllUsesWith(h, from, to)
  OBVIOUS
<1>2. IsFunction(k)
  BY <1>1, ReplaceAllUsesIsFunction
<1>3. HasOps(k, {Renamed(o, from, to) : o \in Range(h.ops)}, Substituted(h.ret, from, to))
  BY <1>1, RenamedOps
<1>4. PICK g : g = Without(k, {gone})
  OBVIOUS
<1>5. HasOps(g, {o \in Range(k.ops) : o.id \notin {gone}}, k.ret)
  BY <1>2, <1>3, <1>4, WithoutOps DEF HasOps
<1>6. \A o \in Range(h.ops) : Renamed(o, from, to).id = o.id
  <2>1. ASSUME NEW o \in Range(h.ops)
        PROVE  Renamed(o, from, to).id = o.id
    <3>1. IsOp(o) /\ WellFormedOp(o)
      BY DEF IsFunction, WellFormed, Range
    <3>2. PICK p : p = Renamed(o, from, to)
      OBVIOUS
    <3>3. p = Op(o.id, o.kind, Substituted(o.args, from, to), o.types, o.attrs)
      BY <3>1, <3>2, RenamedOp
    <3> QED BY <3>2, <3>3 DEF Op
  <2> QED BY <2>1
<1>7. {o \in Range(k.ops) : o.id \notin {gone}} = RenamedOthers(Range(h.ops), from, to, gone)
  BY <1>3, <1>6 DEF HasOps, RenamedOthers
<1>8. HasOps(g, RenamedOthers(Range(h.ops), from, to, gone), Substituted(h.ret, from, to))
  BY <1>3, <1>5, <1>7 DEF HasOps
<1> QED BY <1>1, <1>4, <1>8

\* Sequence t, or op q, is s, or p, with `to` for `from`.
Replaces(t, s, from, to) ==
  DOMAIN t = DOMAIN s /\ \A n \in DOMAIN s : t[n] = IF s[n] = from THEN to ELSE s[n]

IsRenaming(q, p, from, to) ==
  /\ q.id = p.id /\ q.kind = p.kind /\ q.types = p.types /\ q.attrs = p.attrs
  /\ Replaces(q.args, p.args, from, to)

LEMMA SubstitutedReplaces ==
  ASSUME NEW s \in Seq(Nat \X Nat), NEW from, NEW to \in Nat \X Nat
  PROVE  Replaces(Substituted(s, from, to), s, from, to)
<1>1. PICK t : t = Substituted(s, from, to)
  OBVIOUS
<1>2. Replaces(t, s, from, to)
  BY <1>1, SubstitutedValues DEF Replaces
<1> QED BY <1>1, <1>2

LEMMA RenamedIsRenaming ==
  ASSUME NEW p, IsOp(p), WellFormedOp(p), NEW from, NEW to \in Nat \X Nat
  PROVE  IsRenaming(Renamed(p, from, to), p, from, to)
<1>1. PICK q : q = Renamed(p, from, to)
  OBVIOUS
<1>2. /\ q.id = p.id /\ q.kind = p.kind /\ q.types = p.types /\ q.attrs = p.attrs
      /\ q.args = Substituted(p.args, from, to)
  BY <1>1, RenamedOp DEF Op
<1>3. p.args \in Seq(Nat \X Nat)
  BY DEF WellFormedOp
<1>4. Replaces(q.args, p.args, from, to)
  BY <1>2, <1>3, SubstitutedReplaces
<1> QED BY <1>1, <1>2, <1>4 DEF IsRenaming

\* The renamed value has in N the term that it had in M.
Agrees(N, M, v, from, to) == Value(N, IF v = from THEN to ELSE v) = Value(M, v)

LEMMA RenamedValues ==
  ASSUME NEW s \in Seq(Nat \X Nat), NEW from, NEW to \in Nat \X Nat, NEW M, NEW N,
         \A n \in DOMAIN s : Agrees(N, M, s[n], from, to)
  PROVE  Values(N, Substituted(s, from, to)) = Values(M, s)
<1>1. PICK t : t = Substituted(s, from, to)
  OBVIOUS
<1>2. DOMAIN t = DOMAIN s /\ \A n \in DOMAIN s : t[n] = IF s[n] = from THEN to ELSE s[n]
  BY <1>1, SubstitutedValues
<1>3. \A n \in DOMAIN s : Value(N, t[n]) = Value(M, s[n])
  BY <1>2 DEF Agrees
<1>4. Values(N, t) = Values(M, s)
  BY <1>2, <1>3 DEF Values
<1> QED BY <1>1, <1>4

SameValues(N, t, M, s) == Values(N, t) = Values(M, s)

LEMMA RenamedSameValues ==
  ASSUME NEW s \in Seq(Nat \X Nat), NEW from, NEW to \in Nat \X Nat, NEW M, NEW N,
         \A n \in DOMAIN s : Agrees(N, M, s[n], from, to)
  PROVE  SameValues(N, Substituted(s, from, to), M, s)
BY RenamedValues DEF SameValues

\* An op of the renamed function computes with N what it computed with M.
LEMMA RenamedResults ==
  ASSUME NEW p, IsOp(p), WellFormedOp(p), NEW from, NEW to \in Nat \X Nat, NEW M, NEW N,
         \A n \in DOMAIN p.args : Agrees(N, M, p.args[n], from, to),
         NEW q, q = Renamed(p, from, to)
  PROVE  Results(q, Values(N, q.args)) = Results(p, Values(M, p.args))
<1>1. /\ q.id = p.id /\ q.kind = p.kind /\ q.types = p.types /\ q.attrs = p.attrs
      /\ q.args = Substituted(p.args, from, to)
  BY RenamedOp DEF Op
<1>2. p.args \in Seq(Nat \X Nat)
  BY DEF WellFormedOp
<1>3. Values(N, q.args) = Values(M, p.args)
  BY <1>1, <1>2, RenamedValues
<1> QED BY <1>1, <1>3, ResultsSame

\* The attention o and the update u of its key and value become one op of two
\* results, which u's result is renamed to the second of.
LEMMA KvMerged ==
  ASSUME NEW f, Sound(f), NEW o \in Range(f.ops), o.kind = "attention",
         NEW u \in Range(f.ops), u.kind = "kv_cache_update",
         u.args[2] = o.args[2], u.args[3] = o.args[3],
         NEW new, IsOp(new), WellFormedOp(new), new.id = o.id,
         new.kind = "fused_kv_append_attention", DOMAIN new.types = 1..2,
         new.args = <<o.args[1], u.args[1], o.args[2], o.args[3]>>,
         NEW to, to = <<o.id, 2>>,
         NEW g, HasOps(g, RenamedOthers(OthersAnd(f, o, new), Result(u), to, u.id),
                       Substituted(f.ret, Result(u), to))
  PROVE  Kept(f, g)
<1>a. PICK from : from = Result(u)
  OBVIOUS
<1> DEFINE sub(v) == IF v = from THEN to ELSE v
<1>b. PICK Q : Q = Range(g.ops)
  OBVIOUS
<1>c. PICK O : O = Range(f.ops)
  OBVIOUS
<1>d. resultCount(o.kind) = 1 /\ resultCount(u.kind) = 1
  BY Counts
<1>e. operandCount(o.kind) = 3 /\ operandCount(u.kind) = 3
  BY Counts
<1>1. /\ o.id \in Nat \ {0} /\ u.id \in Nat \ {0}
      /\ DOMAIN o.types = 1..1 /\ DOMAIN u.types = 1..1
  BY <1>d DEF Sound, WellFormed, WellFormedOp
<1>2. u # o /\ u.id # o.id
  BY OneOpPerId DEF Sound
<1>3. to \in Nat \X Nat /\ from = <<u.id, 1>>
  BY <1>1, <1>a DEF Result
<1>4. /\ \A q \in Q : \E p : /\ q = Renamed(p, from, to)
                             /\ p = new \/ (p \in O /\ p.id # o.id /\ p.id # u.id)
      /\ \A p \in O : p.id # o.id /\ p.id # u.id => Renamed(p, from, to) \in Q
      /\ Renamed(new, from, to) \in Q
  BY <1>2, <1>a, <1>b, <1>c DEF HasOps, RenamedOthers, OthersAnd
<1>5. g.ret = Substituted(f.ret, from, to) /\ WellFormed(g)
  BY <1>a DEF HasOps
<1>6. \A p \in O : IsOp(p) /\ WellFormedOp(p)
  BY <1>c DEF Sound, WellFormed, IsFunction, Range
<1>7. DOMAIN o.args = 1..3 /\ DOMAIN u.args = 1..3 /\ DOMAIN new.args = 1..4
  <2>1. DOMAIN o.args = 1..operandCount(o.kind) /\ DOMAIN u.args = 1..operandCount(u.kind)
    BY OperandsOf
  <2> QED BY <1>e, <2>1
<1>8. \A n \in DOMAIN new.args : new.args[n] \in Nat \X Nat /\ Defined(O, new.args[n])
  <2>1. /\ \A n \in 1..3 : o.args[n] \in Nat \X Nat /\ Defined(O, o.args[n])
        /\ \A n \in 1..3 : u.args[n] \in Nat \X Nat /\ Defined(O, u.args[n])
    BY <1>c, <1>7, OperandsOf
  <2> QED BY <1>7, <2>1
<1>9. \A p \in O \cup {new} : \A n \in DOMAIN p.args :
         p.args[n] \in Nat \X Nat /\ Defined(O, p.args[n])
  BY <1>8, <1>c, OperandsOf
<1>10. f.ret \in Seq(Nat \X Nat) /\ \A n \in DOMAIN f.ret : f.ret[n] \in Nat \X Nat /\ Defined(O, f.ret[n])
  <2>1. f.ret \in Seq(Nat \X Nat)
    BY DEF Sound, WellFormed
  <2> QED BY <1>c, <2>1 DEF Sound, Closed
<1>11. ASSUME NEW v \in Nat \X Nat, Defined(O, v), v[1] # 0
       PROVE  \/ v[1] = o.id /\ v[2] = 1
              \/ v = from
              \/ \E p \in O : p.id = v[1] /\ v[2] \in DOMAIN p.types /\ p.id # o.id /\ p.id # u.id
  <2>1. PICK p \in O : p.id = v[1] /\ v[2] \in DOMAIN p.types
    BY <1>11 DEF Defined
  <2>2. p.id = o.id => p = o
    BY <1>c, OneOpPerId DEF Sound
  <2>3. p.id = u.id => p = u
    BY <1>c, OneOpPerId DEF Sound
  <2>4. p.id = o.id => v[2] = 1
    BY <1>1, <2>1, <2>2
  <2>5. p.id = u.id => v = from
    <3>1. p.id = u.id => v[1] = u.id /\ v[2] = 1
      BY <1>1, <2>1, <2>3
    <3> QED BY <1>3, <3>1
  <2> QED BY <2>1, <2>4, <2>5
<1>12. ASSUME NEW p, p = new \/ p \in O
       PROVE  IsRenaming(Renamed(p, from, to), p, from, to)
  BY <1>3, <1>6, <1>12, RenamedIsRenaming
<1>13. ASSUME NEW v \in Nat \X Nat, Defined(O, v)
       PROVE  Defined(Q, sub(v))
  <2>1. Renamed(new, from, to).id = o.id /\ DOMAIN Renamed(new, from, to).types = 1..2
    BY <1>12 DEF IsRenaming
  <2>2. CASE v[1] = 0
    BY <1>1, <1>3, <2>2 DEF Defined
  <2>3. CASE v = from
    BY <1>4, <2>1, <2>3 DEF Defined
  <2>4. CASE v[1] = o.id /\ v[2] = 1 /\ v # from
    BY <1>4, <2>1, <2>4 DEF Defined
  <2>5. CASE v # from /\ \E p \in O : p.id = v[1] /\ v[2] \in DOMAIN p.types /\ p.id # o.id /\ p.id # u.id
    BY <1>4, <1>12, <2>5 DEF Defined, IsRenaming
  <2> QED BY <1>11, <1>13, <2>2, <2>3, <2>4, <2>5
<1>14. Closed(g)
  <2>1. ASSUME NEW q \in Q, NEW n \in DOMAIN q.args
        PROVE  Defined(Q, q.args[n])
    <3>1. PICK p : q = Renamed(p, from, to) /\ (p = new \/ p \in O)
      BY <1>4
    <3>2. n \in DOMAIN p.args /\ q.args[n] = sub(p.args[n])
      BY <1>12, <3>1 DEF IsRenaming, Replaces
    <3> QED BY <1>9, <1>13, <3>1, <3>2
  <2>2. \A n \in DOMAIN g.ret : Defined(Q, g.ret[n])
    <3>1. Replaces(g.ret, f.ret, from, to)
      BY <1>3, <1>5, <1>10, SubstitutedReplaces
    <3> QED BY <1>10, <1>13, <3>1 DEF Replaces
  <2> QED BY <1>b, <2>1, <2>2 DEF Closed
<1>15. NoAxis(f) => NoAxis(g)
  <2>1. ASSUME NEW q \in Q, q.kind = "softmax"
        PROVE  \E p \in O : p.kind = "softmax" /\ p.attrs = q.attrs
    BY <1>4, <1>12, <2>1 DEF IsRenaming
  <2> QED BY <1>b, <1>c, <2>1 DEF NoAxis
<1>16. ASSUME NEW M, Models(f, M), ZerosAgree(f, M)
       PROVE  \E N : Models(g, N) /\ ZerosAgree(g, N) /\ Values(N, g.ret) = Values(M, f.ret)
  <2>1. PICK N : N = [i \in Ids(f) |-> IF i = o.id THEN <<M[o.id][1], M[u.id][1]>> ELSE M[i]]
    OBVIOUS
  <2>2. /\ N[o.id] = <<M[o.id][1], M[u.id][1]>>
        /\ \A p \in O : p.id # o.id => N[p.id] = M[p.id]
    BY <1>c, <2>1 DEF Ids
  <2>3. ASSUME NEW v \in Nat \X Nat, Defined(O, v)
        PROVE  Value(N, sub(v)) = Value(M, v)
    <3>1. CASE v[1] = 0
      BY <1>1, <1>3, <3>1 DEF Value
    <3>2. CASE v = from
      BY <1>1, <1>3, <2>2, <3>2 DEF Value
    <3>3. CASE v[1] = o.id /\ v[2] = 1 /\ v # from
      BY <1>1, <2>2, <3>3 DEF Value
    <3>4. CASE v # from /\ \E p \in O : p.id = v[1] /\ v[2] \in DOMAIN p.types /\ p.id # o.id /\ p.id # u.id
      BY <2>2, <3>4 DEF Value
    <3> QED BY <1>11, <2>3, <3>1, <3>2, <3>3, <3>4
  <2>4. \A v \in Nat \X Nat : Defined(O, v) => Agrees(N, M, v, from, to)
    BY <2>3 DEF Agrees
  <2>5. Values(N, g.ret) = Values(M, f.ret)
    <3>1. \A n \in DOMAIN f.ret : Agrees(N, M, f.ret[n], from, to)
      BY <1>10, <2>4
    <3>2. PICK s : s = f.ret
      OBVIOUS
    <3>3. SameValues(N, Substituted(s, from, to), M, s)
      <4>1. s \in Seq(Nat \X Nat) /\ to \in Nat \X Nat
        BY <1>3, <1>10, <3>2
      <4>2. \A n \in DOMAIN s : Agrees(N, M, s[n], from, to)
        BY <3>1, <3>2
      <4> QED BY <4>1, <4>2, RenamedSameValues
    <3> QED BY <1>5, <3>2, <3>3 DEF SameValues
  <2>6. ASSUME NEW p, p = new \/ p \in O, NEW q, q = Renamed(p, from, to)
        PROVE  Results(q, Values(N, q.args)) = Results(p, Values(M, p.args))
    <3>1. IsOp(p) /\ WellFormedOp(p)
      BY <1>6, <2>6
    <3>2. \A n \in DOMAIN p.args : Agrees(N, M, p.args[n], from, to)
      BY <1>9, <2>4, <2>6
    <3> QED BY <1>3, <2>6, <3>1, <3>2, RenamedResults
  <2>7. N[o.id] = Results(new, Values(M, new.args))
    <3>1. PICK X : X = Values(M, o.args)
      OBVIOUS
    <3>2. PICK Y : Y = Values(M, u.args)
      OBVIOUS
    <3>3. PICK Z : Z = Values(M, new.args)
      OBVIOUS
    <3>4. M[o.id] = <<Attention(X[1], X[2], X[3])>> /\ M[u.id] = <<KVCacheUpdate(Y[1], Y[2], Y[3])>>
      BY <1>16, <3>1, <3>2, ResultsOf DEF Models
    <3>5. Z[1] = X[1] /\ Z[2] = Y[1] /\ Z[3] = X[2] /\ Z[4] = X[3] /\ Y[2] = X[2] /\ Y[3] = X[3]
      BY <1>7, <3>1, <3>2, <3>3 DEF Values
    <3>6. Results(new, Z) = <<Attention(Z[1], Z[3], Z[4]), KVCacheUpdate(Z[2], Z[3], Z[4])>>
      BY ResultsOf
    <3> QED BY <2>2, <3>3, <3>4, <3>5, <3>6
  <2>8. Models(g, N)
    <3>1. ASSUME NEW q \in Q
          PROVE  N[q.id] = Results(q, Values(N, q.args))
      <4>1. PICK p : q = Renamed(p, from, to) /\ (p = new \/ (p \in O /\ p.id # o.id /\ p.id # u.id))
        BY <1>4
      <4>2. q.id = p.id /\ Results(q, Values(N, q.args)) = Results(p, Values(M, p.args))
        BY <1>12, <2>6, <4>1 DEF IsRenaming
      <4>3. CASE p = new
        BY <2>7, <4>2, <4>3
      <4>4. CASE p \in O /\ p.id # o.id
        BY <1>16, <1>c, <2>2, <4>2, <4>4 DEF Models
      <4> QED BY <4>1, <4>3, <4>4
    <3> QED BY <1>b, <3>1 DEF Models
  <2>9. ZerosAgree(g, N)
    <3>1. ASSUME NEW q \in Q, q.kind = "add"
          PROVE  \E p \in O : /\ p.kind = "add"
                              /\ Value(N, q.args[1]) = Value(M, p.args[1])
                              /\ Value(N, q.args[2]) = Value(M, p.args[2])
      <4>1. PICK p : q = Renamed(p, from, to) /\ (p = new \/ p \in O)
        BY <1>4
      <4>2. p \in O /\ p.kind = "add"
        BY <1>12, <3>1, <4>1 DEF IsRenaming
      <4>3. 1 \in DOMAIN p.args /\ 2 \in DOMAIN p.args
        <5>1. DOMAIN p.args = 1..operandCount(p.kind)
          BY <1>c, <4>2, OperandsOf
        <5>2. operandCount(p.kind) = 2
          BY <4>2, Counts
        <5> QED BY <5>1, <5>2
      <4>4. q.args[1] = sub(p.args[1]) /\ q.args[2] = sub(p.args[2])
        BY <1>12, <4>1, <4>3 DEF IsRenaming, Replaces
      <4> QED BY <1>9, <2>3, <4>2, <4>3, <4>4
    <3> QED BY <1>16, <1>b, <1>c, <3>1 DEF ZerosAgree
  <2> QED BY <2>5, <2>8, <2>9
<1>17. Keeps(f, g)
  BY <1>16 DEF Keeps
<1> QED BY <1>5, <1>14, <1>15, <1>17 DEF Kept

LEMMA KvAppendKept ==
  ASSUME NEW f, Sound(f), NEW o \in Range(f.ops), NEW g \in FuseKvAppendAttentionPattern(f, o)
  PROVE  Kept(f, g)
<1> DEFINE new(u) == Op(o.id, "fused_kv_append_attention",
                        <<o.args[1], u.args[1], o.args[2], o.args[3]>>,
                        <<TypeOf(f, o.args[1]), TypeOf(f, u.args[1])>>,
                        FusedFrom("kv_append_attention", u.types \o o.types))
<1>1. o.kind = "attention"
  BY DEF FuseKvAppendAttentionPattern
<1>2. PICK u \in Range(f.ops) :
        /\ u.kind = "kv_cache_update" /\ u.args[2] = o.args[2] /\ u.args[3] = o.args[3]
        /\ g = Without(ReplaceAllUsesWith(Put(f, new(u)), Result(u), <<o.id, 2>>), {u.id})
  BY DEF FuseKvAppendAttentionPattern
<1>3. PICK nw : nw = new(u)
  OBVIOUS
<1>4. /\ IsOp(nw) /\ nw.id = o.id /\ nw.kind = "fused_kv_append_attention"
      /\ DOMAIN nw.types = 1..2
      /\ nw.args = <<o.args[1], u.args[1], o.args[2], o.args[3]>>
  BY <1>3, OpsAreOps DEF Op
<1>5. g = Without(ReplaceAllUsesWith(Put(f, nw), Result(u), <<o.id, 2>>), {u.id})
  BY <1>2, <1>3
<1> HIDE DEF new
<1>6. o.id \in Nat \ {0}
  BY DEF Sound, WellFormed, WellFormedOp
<1>7. operandCount(o.kind) = 3 /\ operandCount(u.kind) = 3
  BY <1>1, <1>2, Counts
<1>8. DOMAIN o.args = 1..3 /\ DOMAIN u.args = 1..3
  <2>1. DOMAIN o.args = 1..operandCount(o.kind) /\ DOMAIN u.args = 1..operandCount(u.kind)
    BY OperandsOf
  <2> QED BY <1>7, <2>1
<1>9. /\ o.args[1] \in Nat \X Nat /\ u.args[1] \in Nat \X Nat
      /\ o.args[2] \in Nat \X Nat /\ o.args[3] \in Nat \X Nat
  BY <1>8, OperandsOf
<1>10. WellFormedOp(nw)
  <2>1. nw.args \in Seq(Nat \X Nat) /\ Len(nw.args) = 4
    BY <1>4, <1>9
  <2>1a. nw.types = [n \in 1..2 |-> nw.types[n]]
    <3>1. \E s, t : nw.types = <<s, t>>
      BY <1>3 DEF Op, new
    <3> QED BY <3>1
  <2>2. operandCount(nw.kind) = 4 /\ resultCount(nw.kind) = 2
    BY <1>4, Counts
  <2> QED BY <1>4, <1>6, <2>1, <2>1a, <2>2 DEF WellFormedOp, Kinds
<1>11. PICK h : h = Put(f, nw)
  OBVIOUS
<1>12. IsFunction(h)
  BY <1>4, <1>11, PutIsFunction DEF Sound
<1>13. HasOps(h, OthersAnd(f, o, nw), f.ret)
  BY <1>4, <1>10, <1>11, PutOps DEF Sound
<1>14. PICK to \in Nat \X Nat : to = <<o.id, 2>>
  BY <1>6
<1>15. WellFormed(h) /\ Range(h.ops) = OthersAnd(f, o, nw) /\ h.ret = f.ret
  BY <1>13 DEF HasOps
<1>16. HasOps(g, RenamedOthers(Range(h.ops), Result(u), to, u.id), Substituted(h.ret, Result(u), to))
  BY <1>5, <1>11, <1>12, <1>14, <1>15, RenamedWithout
<1>17. HasOps(g, RenamedOthers(OthersAnd(f, o, nw), Result(u), to, u.id), Substituted(f.ret, Result(u), to))
  BY <1>15, <1>16
<1> QED BY <1>1, <1>2, <1>4, <1>10, <1>14, <1>17, KvMerged

----------------------------------------------------------------------------
(* Canonicalization. *)

\* The ops can be numbered so that each has a larger number than its operands:
\* no value is computed from itself.
OrderedBy(f, rho) == \A o \in Range(f.ops) : \A n \in DOMAIN o.args : rho[o.args[n][1]] < rho[o.id]
Ordered(f) == \E rho \in [Nat -> Nat] : OrderedBy(f, rho)

LEMMA DenseZeroTerm ==
  ASSUME NEW f, NEW M, Models(f, M), Sound(f), NEW o \in Range(f.ops), NEW n \in DOMAIN o.args,
         isDenseZero(Def(f, o.args[n]))
  PROVE  IsZero(Value(M, o.args[n]))
<1>1. PICK d : d = Def(f, o.args[n])
  OBVIOUS
<1>2. d.kind = "constant" /\ d.attrs["value"].v = ConstZero
  BY <1>1 DEF isDenseZero
<1>3. resultCount(d.kind) = 1
  BY <1>2, Counts
<1>4. d \in Range(f.ops) /\ o.args[n] = Result(d)
  BY <1>1, <1>2, <1>3, DefIsOp
<1>5. PICK Y : Y = Values(M, d.args)
  OBVIOUS
<1>6. Values(M, o.args)[n] = Results(d, Y)[1]
  BY <1>4, <1>5, ProducedValue
<1>7. Value(M, o.args[n]) = Const(d.attrs["value"], d.types[1])
  BY <1>2, <1>6, ResultsOf DEF Values
<1> QED BY <1>2, <1>7 DEF Const, IsZero, IsConst

\* An add of zero gives way to its other operand, where it is used.
LEMMA AddZeroMerged ==
  ASSUME NEW f, Sound(f), NEW rho \in [Nat -> Nat], OrderedBy(f, rho),
         NEW o \in Range(f.ops), resultCount(o.kind) = 1,
         NEW m \in DOMAIN o.args, NEW from, from = Result(o), NEW to, to = o.args[m],
         \A M : Models(f, M) /\ ZerosAgree(f, M) => Value(M, to) = Value(M, from),
         NEW g, HasOps(g, RenamedOthers(Range(f.ops), from, to, o.id), Substituted(f.ret, from, to))
  PROVE  Kept(f, g) /\ OrderedBy(g, rho)
<1>b. PICK Q : Q = Range(g.ops)
  OBVIOUS
<1>c. PICK O : O = Range(f.ops)
  OBVIOUS
<1> DEFINE sub(v) == IF v = from THEN to ELSE v
<1>1. o.id \in Nat \ {0} /\ DOMAIN o.types = 1..1 /\ from = <<o.id, 1>>
  BY DEF Sound, WellFormed, WellFormedOp, Result
<1>2. to \in Nat \X Nat /\ Defined(O, to)
  BY <1>c, OperandsOf
<1>3. /\ \A q \in Q : \E p \in O : q = Renamed(p, from, to) /\ p.id # o.id
      /\ \A p \in O : p.id # o.id => Renamed(p, from, to) \in Q
  BY <1>b, <1>c DEF HasOps, RenamedOthers
<1>4. g.ret = Substituted(f.ret, from, to) /\ WellFormed(g)
  BY DEF HasOps
<1>5. \A p \in O : IsOp(p) /\ WellFormedOp(p)
  BY <1>c DEF Sound, WellFormed, IsFunction, Range
<1>6. \A p \in O : \A n \in DOMAIN p.args : p.args[n] \in Nat \X Nat /\ Defined(O, p.args[n])
  BY <1>c, OperandsOf
<1>7. f.ret \in Seq(Nat \X Nat) /\ \A n \in DOMAIN f.ret : f.ret[n] \in Nat \X Nat /\ Defined(O, f.ret[n])
  <2>1. f.ret \in Seq(Nat \X Nat)
    BY DEF Sound, WellFormed
  <2> QED BY <1>c, <2>1 DEF Sound, Closed
<1>8. \A p \in O : IsRenaming(Renamed(p, from, to), p, from, to)
  BY <1>2, <1>5, RenamedIsRenaming
<1>9. rho[to[1]] < rho[o.id] /\ to[1] # o.id
  <2>1. rho[to[1]] < rho[o.id]
    BY DEF OrderedBy
  <2>2. rho[o.id] \in Nat
    BY <1>1
  <2> QED BY <2>1, <2>2
<1>10. ASSUME NEW v \in Nat \X Nat, Defined(O, v), v[1] # 0, v # from
       PROVE  \E p \in O : p.id = v[1] /\ v[2] \in DOMAIN p.types /\ p.id # o.id
  <2>1. PICK p \in O : p.id = v[1] /\ v[2] \in DOMAIN p.types
    BY <1>10 DEF Defined
  <2>2. p.id # o.id
    <3>1. SUFFICES ASSUME p.id = o.id PROVE FALSE
      OBVIOUS
    <3>2. p = o
      BY <1>c, <3>1, OneOpPerId DEF Sound
    <3>3. v[1] = o.id /\ v[2] = 1
      BY <1>1, <2>1, <3>1, <3>2
    <3> QED BY <1>1, <1>10, <3>3
  <2> QED BY <2>1, <2>2
<1>11. ASSUME NEW v \in Nat \X Nat, Defined(O, v), v[1] # o.id
       PROVE  Defined(Q, v)
  <2>1. CASE v[1] = 0
    BY <2>1 DEF Defined
  <2>2. CASE v[1] # 0
    <3>1. v # from
      BY <1>1, <1>11
    <3>2. PICK p \in O : p.id = v[1] /\ v[2] \in DOMAIN p.types /\ p.id # o.id
      BY <1>10, <1>11, <2>2, <3>1
    <3> QED BY <1>3, <1>8, <3>2 DEF Defined, IsRenaming
  <2> QED BY <2>1, <2>2
<1>12. ASSUME NEW v \in Nat \X Nat, Defined(O, v)
       PROVE  Defined(Q, sub(v))
  <2>1. CASE v = from
    BY <1>2, <1>9, <1>11, <2>1
  <2>2. CASE v # from
    <3>1. v[1] # o.id
      BY <1>1, <1>10, <1>12, <2>2
    <3> QED BY <1>11, <1>12, <2>2, <3>1
  <2> QED BY <2>1, <2>2
<1>13. Closed(g)
  <2>1. ASSUME NEW q \in Q, NEW n \in DOMAIN q.args
        PROVE  Defined(Q, q.args[n])
    <3>1. PICK p \in O : q = Renamed(p, from, to)
      BY <1>3
    <3>2. n \in DOMAIN p.args /\ q.args[n] = sub(p.args[n])
      BY <1>8, <3>1 DEF IsRenaming, Replaces
    <3> QED BY <1>6, <1>12, <3>1, <3>2
  <2>2. \A n \in DOMAIN g.ret : Defined(Q, g.ret[n])
    <3>1. Replaces(g.ret, f.ret, from, to)
      BY <1>2, <1>4, <1>7, SubstitutedReplaces
    <3> QED BY <1>7, <1>12, <3>1 DEF Replaces
  <2> QED BY <1>b, <2>1, <2>2 DEF Closed
<1>14. NoAxis(f) => NoAxis(g)
  <2>1. ASSUME NEW q \in Q, q.kind = "softmax"
        PROVE  \E p \in O : p.kind = "softmax" /\ p.attrs = q.attrs
    BY <1>3, <1>8, <2>1 DEF IsRenaming
  <2> QED BY <1>b, <1>c, <2>1 DEF NoAxis
<1>15. OrderedBy(g, rho)
  <2>1. ASSUME NEW q \in Q, NEW n \in DOMAIN q.args
        PROVE  rho[q.args[n][1]] < rho[q.id]
    <3>1. PICK p \in O : q = Renamed(p, from, to)
      BY <1>3
    <3>2. n \in DOMAIN p.args /\ q.args[n] = sub(p.args[n]) /\ q.id = p.id
      BY <1>8, <3>1 DEF IsRenaming, Replaces
    <3>3. rho[p.args[n][1]] < rho[p.id]
      BY <1>c, <3>2 DEF OrderedBy
    <3>4. p.id \in Nat /\ p.args[n] \in Nat \X Nat
      BY <1>5, <1>6, <3>2 DEF WellFormedOp
    <3>5. rho[p.id] \in Nat /\ rho[o.id] \in Nat /\ rho[to[1]] \in Nat
      BY <1>1, <1>2, <3>4
    <3>6. CASE p.args[n] = from
      BY <1>1, <1>9, <3>2, <3>3, <3>5, <3>6
    <3>7. CASE p.args[n] # from
      BY <3>2, <3>3, <3>7
    <3> QED BY <3>6, <3>7
  <2> QED BY <1>b, <2>1 DEF OrderedBy
<1>16. ASSUME NEW M, Models(f, M), ZerosAgree(f, M)
       PROVE  Models(g, M) /\ ZerosAgree(g, M) /\ Values(M, g.ret) = Values(M, f.ret)
  <2>1. \A v : Value(M, sub(v)) = Value(M, v)
    BY <1>16
  <2>2. \A v : Agrees(M, M, v, from, to)
    BY <2>1 DEF Agrees
  <2>3. Values(M, g.ret) = Values(M, f.ret)
    <3>1. SameValues(M, Substituted(f.ret, from, to), M, f.ret)
      BY <1>2, <1>7, <2>2, RenamedSameValues
    <3> QED BY <1>4, <3>1 DEF SameValues
  <2>4. ASSUME NEW q \in Q
        PROVE  M[q.id] = Results(q, Values(M, q.args))
    <3>1. PICK p \in O : q = Renamed(p, from, to)
      BY <1>3
    <3>2. Results(q, Values(M, q.args)) = Results(p, Values(M, p.args))
      BY <1>2, <1>5, <2>2, <3>1, RenamedResults
    <3>3. q.id = p.id
      BY <1>8, <3>1 DEF IsRenaming
    <3> QED BY <1>16, <1>c, <3>2, <3>3 DEF Models
  <2>5. ZerosAgree(g, M)
    <3>1. ASSUME NEW q \in Q, q.kind = "add"
          PROVE  \E p \in O : /\ p.kind = "add"
                              /\ Value(M, q.args[1]) = Value(M, p.args[1])
                              /\ Value(M, q.args[2]) = Value(M, p.args[2])
      <4>1. PICK p \in O : q = Renamed(p, from, to)
        BY <1>3
      <4>2. p.kind = "add"
        BY <1>8, <3>1, <4>1 DEF IsRenaming
      <4>3. 1 \in DOMAIN p.args /\ 2 \in DOMAIN p.args
        <5>1. DOMAIN p.args = 1..operandCount(p.kind)
          BY <1>c, OperandsOf
        <5>2. operandCount(p.kind) = 2
          BY <4>2, Counts
        <5> QED BY <5>1, <5>2
      <4>4. q.args[1] = sub(p.args[1]) /\ q.args[2] = sub(p.args[2])
        BY <1>8, <4>1, <4>3 DEF IsRenaming, Replaces
      <4> QED BY <2>1, <4>2, <4>4
    <3> QED BY <1>16, <1>b, <1>c, <3>1 DEF ZerosAgree
  <2> QED BY <1>b, <2>3, <2>4, <2>5 DEF Models
<1>17. Keeps(f, g)
  BY <1>16 DEF Keeps
<1> QED BY <1>4, <1>13, <1>14, <1>15, <1>17 DEF Kept

LEMMA AddZeroKept ==
  ASSUME NEW f, Sound(f), Ordered(f), NEW o \in Range(f.ops), NEW g \in AddZeroElimination(f, o)
  PROVE  Kept(f, g) /\ Ordered(g)
<1>1. PICK m : m = IF isDenseZero(Def(f, o.args[1])) THEN 2 ELSE 1
  OBVIOUS
<1>2. PICK to : to = o.args[m]
  OBVIOUS
<1>3. PICK from : from = Result(o)
  OBVIOUS
<1>4. /\ o.kind = "add" /\ (isDenseZero(Def(f, o.args[1])) \/ isDenseZero(Def(f, o.args[2])))
      /\ g = Without(ReplaceAllUsesWith(f, from, to), {o.id})
  BY <1>1, <1>2, <1>3 DEF AddZeroElimination
<1>5. operandCount(o.kind) = 2 /\ resultCount(o.kind) = 1
  BY <1>4, Counts
<1>6. DOMAIN o.args = 1..2 /\ m \in DOMAIN o.args
  BY <1>1, <1>5, OperandsOf
<1>7. to \in Nat \X Nat
  BY <1>2, <1>6, OperandsOf
<1>8. HasOps(g, RenamedOthers(Range(f.ops), from, to, o.id), Substituted(f.ret, from, to))
  BY <1>4, <1>7, RenamedWithout DEF Sound
<1>9. PICK rho \in [Nat -> Nat] : OrderedBy(f, rho)
  BY DEF Ordered
<1>10. ASSUME NEW M, Models(f, M), ZerosAgree(f, M)
       PROVE  Value(M, to) = Value(M, from)
  <2>1. PICK X : X = Values(M, o.args)
    OBVIOUS
  <2>2. X[1] = Value(M, o.args[1]) /\ X[2] = Value(M, o.args[2])
    BY <1>6, <2>1 DEF Values
  <2>3. o.id # 0
    BY DEF Sound, WellFormed, WellFormedOp
  <2>4. Value(M, from) = Sum(X[1], X[2])
    <3>1. M[o.id] = <<Sum(X[1], X[2])>>
      BY <1>4, <1>10, <2>1, ResultsOf DEF Models
    <3> QED BY <1>3, <2>3, <3>1 DEF Value, Result
  <2>5. CASE isDenseZero(Def(f, o.args[1]))
    <3>1. IsZero(X[1])
      BY <1>6, <1>10, <2>2, <2>5, DenseZeroTerm
    <3>2. Sum(X[1], X[2]) = X[2]
      BY <3>1 DEF Sum
    <3> QED BY <1>1, <1>2, <2>2, <2>4, <2>5, <3>2
  <2>6. CASE ~isDenseZero(Def(f, o.args[1]))
    <3>1. IsZero(X[2])
      BY <1>4, <1>6, <1>10, <2>2, <2>6, DenseZeroTerm
    <3>2. IsZero(X[1]) => X[1] = X[2]
      BY <1>4, <1>10, <2>2, <3>1 DEF ZerosAgree
    <3>3. Sum(X[1], X[2]) = X[1]
      BY <3>1, <3>2 DEF Sum
    <3> QED BY <1>1, <1>2, <2>2, <2>4, <2>6, <3>3
  <2> QED BY <2>5, <2>6
<1>11. Kept(f, g) /\ OrderedBy(g, rho)
  BY <1>2, <1>3, <1>5, <1>6, <1>8, <1>9, <1>10, AddZeroMerged
<1> QED BY <1>11 DEF Ordered

\* The value of a constant, and the shape it has.
IsDense(value) ==
  /\ value = [splat |-> value.splat, v |-> value.v]
  /\ value.v = ConstZero => value.splat = TRUE

LEMMA ConstantOp ==
  ASSUME NEW f, Sound(f), NEW o \in Range(f.ops), o.kind = "constant"
  PROVE  /\ "value" \in DOMAIN o.attrs /\ IsDense(o.attrs["value"])
         /\ o.types = [n \in 1..1 |-> o.types[n]] /\ o.types[1].shape \in Seq(Int)
<1>1. WellFormedOp(o)
  BY DEF Sound, WellFormed
<1>2. resultCount(o.kind) = 1
  BY Counts
<1> QED BY <1>1, <1>2 DEF WellFormedOp, IsDense

\* An op that computes from constant `in` a constant of its type becomes one.
LEMMA ReplaceWithConstantKept ==
  ASSUME NEW f, Sound(f), Ordered(f), NEW o \in Range(f.ops), resultCount(o.kind) = 1,
         NEW in \in Range(f.ops), in.kind = "constant", NEW value, IsDense(value),
         \A M : Models(f, M) => M[o.id] = <<Const(value, in.types[1])>>
  PROVE  Kept(f, ReplaceWithConstant(f, o, in, value)) /\ Ordered(ReplaceWithConstant(f, o, in, value))
<1>1. PICK new : new = Op(o.id, "constant", <<>>, in.types, [value |-> value])
  OBVIOUS
<1>2. /\ IsOp(new) /\ new.id = o.id /\ new.kind = "constant" /\ new.args = <<>>
      /\ new.types = in.types /\ DOMAIN new.attrs = {"value"} /\ new.attrs["value"] = value
  BY <1>1, OpsAreOps DEF Op
<1>3. /\ o.id \in Nat \ {0} /\ DOMAIN o.types = 1..1
  BY DEF Sound, WellFormed, WellFormedOp
<1>4. in.types = [n \in 1..1 |-> in.types[n]] /\ in.types[1].shape \in Seq(Int)
  BY ConstantOp
<1>5. WellFormedOp(new)
  <2>1. new.args \in Seq(Nat \X Nat) /\ Len(new.args) = 0 /\ DOMAIN new.args = {}
    BY <1>2
  <2>2. operandCount(new.kind) = 0 /\ resultCount(new.kind) = 1
    BY <1>2, Counts
  <2> QED BY <1>2, <1>3, <1>4, <2>1, <2>2 DEF WellFormedOp, Kinds, IsDense
<1>6. PICK g : g = ReplaceWithConstant(f, o, in, value)
  OBVIOUS
<1>7. g = Put(f, new)
  BY <1>1, <1>6 DEF ReplaceWithConstant
<1>8. HasOps(g, OthersAnd(f, o, new), f.ret)
  BY <1>2, <1>5, <1>7, PutOps DEF Sound
<1>8a. PICK dead : dead = {}
  OBVIOUS
<1>9. HasOps(g, {p \in OthersAnd(f, o, new) : p.id \notin dead}, f.ret)
  <2>1. {p \in OthersAnd(f, o, new) : p.id \notin dead} = OthersAnd(f, o, new)
    BY <1>8a
  <2> QED BY <1>8, <2>1
<1>10. DOMAIN new.args = {}
  BY <1>2
<1>11. Unread(f, o, new, dead)
  BY <1>8a, <1>10 DEF Unread
<1>12. SameResults(f, o, new)
  <2>1. \A X : Results(new, X) = <<Const(value, in.types[1])>>
    BY <1>2, ResultsOf
  <2> QED BY <2>1 DEF SameResults
<1>13. Alike(o, new)
  BY <1>2 DEF Alike
<1>14a. DOMAIN new.types = DOMAIN o.types
  BY <1>2, <1>3, <1>4
<1>14. Kept(f, g)
  BY <1>2, <1>14a, <1>9, <1>11, <1>12, <1>13, ReplacedKept
<1>15. Ordered(g)
  <2>1. PICK rho \in [Nat -> Nat] : OrderedBy(f, rho)
    BY DEF Ordered
  <2>2. \A p \in Range(g.ops) : p \in Range(f.ops) \/ DOMAIN p.args = {}
    BY <1>8, <1>10 DEF HasOps, OthersAnd
  <2>3. OrderedBy(g, rho)
    BY <2>1, <2>2 DEF OrderedBy
  <2> QED BY <2>3 DEF Ordered
<1> QED BY <1>6, <1>14, <1>15

LEMMA ConstantOperand ==
  ASSUME NEW f, Sound(f), NEW o \in Range(f.ops), operandCount(o.kind) = 1,
         NEW in, in = Def(f, o.args[1]), in.kind = "constant"
  PROVE  /\ in \in Range(f.ops)
         /\ \A M : Models(f, M) => Values(M, o.args)[1] = Const(in.attrs["value"], in.types[1])
<1>1. DOMAIN o.args = 1..1 /\ 1 \in DOMAIN o.args
  BY OperandsOf
<1>2. resultCount(in.kind) = 1
  BY Counts
<1>3. in \in Range(f.ops) /\ o.args[1] = Result(in)
  BY <1>1, <1>2, DefIsOp
<1>4. ASSUME NEW M, Models(f, M)
      PROVE  Values(M, o.args)[1] = Const(in.attrs["value"], in.types[1])
  <2>1. PICK Y : Y = Values(M, in.args)
    OBVIOUS
  <2>2. Values(M, o.args)[1] = Results(in, Y)[1]
    <3>1. 1 \in DOMAIN o.args /\ in \in Range(f.ops) /\ o.args[1] = Result(in)
      BY <1>1, <1>3, Zenon
    <3>2. Values(M, o.args)[1] = Results(in, Values(M, in.args))[1]
      BY <1>4, <3>1, ProducedValue
    <3> QED BY <2>1, <3>2, Zenon
  <2> QED BY <2>2, ResultsOf
<1> QED BY <1>3, <1>4

LEMMA ConstantFoldKept ==
  ASSUME NEW f, Sound(f), Ordered(f), NEW o \in Range(f.ops),
         NEW fn \in {"gelu", "silu"}, NEW g \in ConstantFold(f, o, fn)
  PROVE  Kept(f, g) /\ Ordered(g)
<1>1. PICK in : in = Def(f, o.args[1])
  OBVIOUS
<1>2. o.kind = fn /\ in.kind = "constant" /\ \E v \in mapConstantElements(in, fn) : g = ReplaceWithConstant(f, o, in, v)
  BY <1>1 DEF ConstantFold
<1>3. PICK old : old = in.attrs["value"]
  OBVIOUS
<1>4. PICK value : value = [old EXCEPT !.v = Mapped(fn, old.v)]
  OBVIOUS
<1>5. g = ReplaceWithConstant(f, o, in, value)
  BY <1>2, <1>3, <1>4 DEF mapConstantElements
<1>6. operandCount(o.kind) = 1 /\ resultCount(o.kind) = 1
  BY <1>2, Counts
<1>7. /\ in \in Range(f.ops)
      /\ \A M : Models(f, M) => Values(M, o.args)[1] = Const(in.attrs["value"], in.types[1])
  BY <1>1, <1>2, <1>6, ConstantOperand
<1>8. IsDense(old)
  BY <1>2, <1>3, <1>7, ConstantOp
<1>9. value = [splat |-> old.splat, v |-> Mapped(fn, old.v)]
  BY <1>4, <1>8 DEF IsDense
<1>10. value.splat = old.splat /\ value.v = Mapped(fn, old.v)
  BY <1>9
<1>11. Mapped(fn, old.v) = ConstZero => old.v = ConstZero
  BY DEF Mapped, ConstZero
<1>12. IsDense(value)
  BY <1>8, <1>9, <1>10, <1>11 DEF IsDense
<1>13. ASSUME NEW M, Models(f, M)
       PROVE  M[o.id] = <<Const(value, in.types[1])>>
  <2>1. PICK X : X = Values(M, o.args)
    OBVIOUS
  <2>2. M[o.id] = <<Elementwise(fn, X[1])>>
    BY <1>2, <1>13, <2>1, ResultsOf DEF Models
  <2>3. X[1] = Const(old, in.types[1])
    BY <1>3, <1>7, <1>13, <2>1
  <2>4. Elementwise(fn, X[1]) = Const(value, in.types[1])
    BY <1>10, <2>3 DEF Elementwise, Const, IsConst
  <2> QED BY <2>2, <2>4
<1> QED BY <1>2, <1>5, <1>6, <1>7, <1>12, <1>13, ReplaceWithConstantKept

LEMMA SoftmaxSplatKept ==
  ASSUME NEW f, Sound(f), Ordered(f), NEW o \in Range(f.ops), NEW g \in SoftmaxSplatFold(f, o)
  PROVE  Kept(f, g) /\ Ordered(g)
<1>1. PICK in : in = Def(f, o.args[1])
  OBVIOUS
<1>2. PICK t : t = in.types[1]
  OBVIOUS
<1>3. PICK axis : axis = AxisOf(o, t)
  OBVIOUS
<1>4. PICK value : value = Uniform(t.shape[axis + 1])
  OBVIOUS
<1>5. /\ o.kind = "softmax" /\ in.kind = "constant" /\ in.attrs["value"].splat
      /\ Rank(t) > 0 /\ axis \in 0..(Rank(t) - 1)
      /\ g = ReplaceWithConstant(f, o, in, value)
  BY <1>1, <1>2, <1>3, <1>4 DEF SoftmaxSplatFold
<1>6. operandCount(o.kind) = 1 /\ resultCount(o.kind) = 1
  BY <1>5, Counts
<1>7. /\ in \in Range(f.ops)
      /\ \A M : Models(f, M) => Values(M, o.args)[1] = Const(in.attrs["value"], in.types[1])
  BY <1>1, <1>5, <1>6, ConstantOperand
<1>8. t.shape \in Seq(Int) /\ Rank(t) \in Nat /\ Rank(t) = Len(t.shape)
  <2>1. in.types[1].shape \in Seq(Int)
    BY <1>5, <1>7, ConstantOp
  <2> QED BY <1>2, <2>1 DEF Rank
<1>9. value.splat = TRUE /\ IsDense(value) /\ value = [splat |-> TRUE, v |-> value.v]
  BY <1>4 DEF Uniform, IsDense, ConstZero
<1>10. ASSUME NEW M, Models(f, M)
       PROVE  M[o.id] = <<Const(value, in.types[1])>>
  <2>1. PICK X : X = Values(M, o.args)
    OBVIOUS
  <2>2. M[o.id] = <<Softmax(X[1], Attr(o, "axis", LastAxis))>>
    BY <1>5, <1>10, <2>1, ResultsOf DEF Models
  <2>3. PICK x : x = X[1]
    OBVIOUS
  <2>4. x = Const(in.attrs["value"], t)
    BY <1>2, <1>7, <1>10, <2>1, <2>3
  <2>5. IsConst(x) /\ x[2] = 1 /\ x[4] = t.shape
    BY <1>5, <2>4 DEF Const, IsConst
  <2>6. PICK a : a = Attr(o, "axis", LastAxis)
    OBVIOUS
  <2>7. PICK n : n = IF a = LastAxis THEN Len(x[4]) ELSE a + 1
    OBVIOUS
  <2>8. n = axis + 1
    <3>1. CASE "axis" \in DOMAIN o.attrs
      <4>1. a = axis
        BY <1>3, <2>6, <3>1 DEF AxisOf, Attr
      <4>2. a \in Int /\ a >= 0
        BY <1>5, <1>8, <4>1
      <4> QED BY <2>7, <4>1, <4>2 DEF LastAxis
    <3>2. CASE "axis" \notin DOMAIN o.attrs
      <4>1. a = LastAxis /\ axis = Rank(t) - 1
        BY <1>3, <2>6, <3>2 DEF AxisOf, Attr
      <4> QED BY <1>8, <2>5, <2>7, <4>1
    <3> QED BY <3>1, <3>2
  <2>9. n \in 1..Len(x[4])
    BY <1>5, <1>8, <2>5, <2>8
  <2>10. Softmax(x, a) = <<"const", 1, Uniform(x[4][n]).v, x[4]>>
    BY <2>5, <2>7, <2>9 DEF Softmax
  <2>11. Softmax(x, a) = Const(value, t)
    BY <1>4, <1>9, <2>5, <2>8, <2>10 DEF Const
  <2> QED BY <1>2, <2>2, <2>3, <2>6, <2>11
<1> QED BY <1>5, <1>6, <1>7, <1>9, <1>10, ReplaceWithConstantKept

----------------------------------------------------------------------------
(* Dead ops, and the walks. *)

LEMMA ErasedKept ==
  ASSUME NEW f, Sound(f), NEW o \in DeadOps(f), NEW g, g = Without(f, {o.id})
  PROVE  Kept(f, g) /\ (Ordered(f) => Ordered(g))
<1>1. HasOps(g, {p \in Range(f.ops) : p.id \notin {o.id}}, f.ret)
  BY WithoutOps DEF Sound
<1>2. PICK O : O = Range(f.ops)
  OBVIOUS
<1>3. PICK Q : Q = Range(g.ops)
  OBVIOUS
<1>4. /\ g.ret = f.ret /\ WellFormed(g)
      /\ \A p : p \in Q <=> p \in O /\ p.id # o.id
  BY <1>1, <1>2, <1>3 DEF HasOps
<1>5. o \in O /\ \A n \in DOMAIN o.types : NoUse(f, <<o.id, n>>)
  BY <1>2, NoUses DEF DeadOps
<1>6. ASSUME NEW v \in Nat \X Nat, Defined(O, v), \A n \in DOMAIN o.types : v # <<o.id, n>>
      PROVE  Defined(Q, v)
  <2>1. CASE v[1] = 0
    BY <2>1 DEF Defined
  <2>2. CASE v[1] # 0
    <3>1. PICK p \in O : p.id = v[1] /\ v[2] \in DOMAIN p.types
      BY <1>6, <2>2 DEF Defined
    <3>2. p.id # o.id
      <4>1. SUFFICES ASSUME p.id = o.id PROVE FALSE
        OBVIOUS
      <4>2. p = o
        BY <1>2, <1>5, <4>1, OneOpPerId DEF Sound
      <4>3. v = <<o.id, v[2]>>
        <5>1. v[1] = o.id
          BY <3>1, <4>1
        <5> QED BY <5>1
      <4> QED BY <1>6, <3>1, <4>2, <4>3
    <3> QED BY <1>4, <3>1, <3>2 DEF Defined
  <2> QED BY <2>1, <2>2
<1>7. Closed(g)
  <2>1. ASSUME NEW p \in Q, NEW n \in DOMAIN p.args
        PROVE  Defined(Q, p.args[n])
    <3>1. p.args[n] \in Nat \X Nat /\ Defined(O, p.args[n])
      BY <1>2, <1>4, OperandsOf
    <3>2. \A k \in DOMAIN o.types : p.args[n] # <<o.id, k>>
      BY <1>2, <1>4, <1>5 DEF NoUse
    <3> QED BY <1>6, <3>1, <3>2
  <2>2. ASSUME NEW n \in DOMAIN f.ret
        PROVE  Defined(Q, f.ret[n])
    <3>1. f.ret \in Seq(Nat \X Nat)
      BY DEF Sound, WellFormed
    <3>2. f.ret[n] \in Nat \X Nat /\ Defined(O, f.ret[n])
      BY <1>2, <3>1 DEF Sound, Closed
    <3>3. \A k \in DOMAIN o.types : f.ret[n] # <<o.id, k>>
      BY <1>5 DEF NoUse
    <3> QED BY <1>6, <3>2, <3>3
  <2> QED BY <1>3, <1>4, <2>1, <2>2 DEF Closed
<1>8. Keeps(f, g)
  BY <1>2, <1>3, <1>4 DEF Keeps, Models, ZerosAgree
<1>9. NoAxis(f) => NoAxis(g)
  BY <1>2, <1>3, <1>4 DEF NoAxis
<1>10. Ordered(f) => Ordered(g)
  BY <1>2, <1>3, <1>4 DEF Ordered, OrderedBy
<1> QED BY <1>4, <1>7, <1>8, <1>9, <1>10 DEF Kept

\* An op that is annotated computes what it did.
LEMMA AnnotatedKept ==
  ASSUME NEW f, Sound(f), NEW n \in DOMAIN f.ops, NEW o, o = f.ops[n],
         NEW new, new.id = o.id, new.kind = o.kind, new.args = o.args,
         WellFormedOp(new), Alike(o, new), \A X : Results(new, X) = Results(o, X),
         NEW g, g = [f EXCEPT !.ops[n] = new]
  PROVE  Kept(f, g)
<1>1. o \in Range(f.ops)
  BY DEF Range
<1>2. HasOps(g, OthersAnd(f, o, new), f.ret)
  BY WalkedOps DEF Sound
<1>3. PICK dead : dead = {}
  OBVIOUS
<1>4. HasOps(g, {p \in OthersAnd(f, o, new) : p.id \notin dead}, f.ret)
  <2>1. {p \in OthersAnd(f, o, new) : p.id \notin dead} = OthersAnd(f, o, new)
    BY <1>3
  <2> QED BY <1>2, <2>1
<1>5. Unread(f, o, new, dead)
  BY <1>1, <1>3, OperandsOf DEF Unread
<1>6. SameResults(f, o, new)
  BY <1>1 DEF SameResults, Models
<1>7. DOMAIN new.types = DOMAIN o.types
  BY <1>1 DEF Sound, WellFormed, WellFormedOp
<1> QED BY <1>1, <1>4, <1>5, <1>6, <1>7, ReplacedKept

\* What is inferred for an op is a type for each of its results; a constant's
\* is left as it is.
LEMMA InferredTypes ==
  ASSUME NEW o, WellFormedOp(o), NEW T, NEW r, r = inferReturnTypes(o, T), r.ok
  PROVE  /\ r.types = [n \in 1..resultCount(o.kind) |-> r.types[n]]
         /\ o.kind = "constant" => r.types = o.types
<1>1. ASSUME NEW ts, r = Infer(ts)
      PROVE  r.types = ts
  BY <1>1 DEF Infer
<1>2. ~Failure.ok
  BY DEF Failure
<1>3. CASE o.kind \in {"rmsnorm", "gelu", "silu", "softmax", "rope", "fused_softmax_mask",
                      "attention", "kv_cache_update"}
  <2>1. r = Infer(<<T[1]>>)
    BY <1>3 DEF inferReturnTypes, inferSame, inferAttention, inferKVCache
  <2>2. r.types = <<T[1]>>
    BY <1>1, <2>1
  <2>3. resultCount(o.kind) = 1 /\ o.kind # "constant"
    BY <1>3, Counts
  <2> QED BY <2>2, <2>3
<1>4. CASE o.kind \in {"add", "fused_residual_rmsnorm", "bias"}
  <2>1. r = Infer(<<T[1]>>)
    BY <1>2, <1>4 DEF inferReturnTypes, inferAdd, inferFusedResidual, inferBias
  <2>2. r.types = <<T[1]>>
    BY <1>1, <2>1
  <2>3. resultCount(o.kind) = 1 /\ o.kind # "constant"
    BY <1>4, Counts
  <2> QED BY <2>2, <2>3
<1>5. CASE o.kind \in {"matmul", "fused_rmsnorm_matmul", "fused_matmul_bias_gelu"}
  <2>1. r = inferMatmulResultType(T[1], T[2])
    BY <1>2, <1>5 DEF inferReturnTypes, inferMatMul, inferFusedRmsnormMatmul, inferFusedMatMulBiasGelu
  <2>2. \E t : r = Infer(<<t>>)
    BY <1>2, <2>1 DEF inferMatmulResultType
  <2>3. PICK t : r.types = <<t>>
    BY <1>1, <2>2
  <2>4. resultCount(o.kind) = 1 /\ o.kind # "constant"
    BY <1>5, Counts
  <2> QED BY <2>3, <2>4
<1>6. CASE o.kind = "fused_kv_append_attention"
  <2>1. r = Infer(<<T[1], T[2]>>)
    BY <1>6 DEF inferReturnTypes, inferFusedKV
  <2>2. r.types = <<T[1], T[2]>>
    BY <1>1, <2>1
  <2>3. resultCount(o.kind) = 2 /\ o.kind # "constant"
    BY <1>6, Counts
  <2> QED BY <2>2, <2>3
<1>7. CASE o.kind = "qkv_projection"
  <2>1. r = inferQKV(T, Attr(o, "num_heads", 0))
    BY <1>7 DEF inferReturnTypes
  <2>2. \E t : r = Infer(<<t, t, t>>)
    BY <1>2, <2>1 DEF inferQKV
  <2>3. PICK t : r.types = <<t, t, t>>
    BY <1>1, <2>2
  <2>4. resultCount(o.kind) = 3 /\ o.kind # "constant"
    BY <1>7 DEF resultCount
  <2> QED BY <2>3, <2>4
<1>8. CASE o.kind = "constant"
  <2>1. r = Infer(o.types)
    BY <1>8 DEF inferReturnTypes
  <2> QED BY <1>1, <2>1 DEF WellFormedOp
<1> QED BY <1>3, <1>4, <1>5, <1>6, <1>7, <1>8 DEF WellFormedOp, Kinds

LEMMA ResultsByTypes ==
  ASSUME NEW o, NEW p, o.kind = p.kind, o.attrs = p.attrs, DOMAIN o.types = DOMAIN p.types,
         o.kind = "constant" => o.types = p.types, NEW X
  PROVE  Results(o, X) = Results(p, X)
BY DEF Results, Attr

LEMMA RetypedKept ==
  ASSUME NEW f, Sound(f), NEW n \in DOMAIN f.ops, NEW T,
         NEW r, r = inferReturnTypes(f.ops[n], T), r.ok,
         NEW g, g = [f EXCEPT !.ops[n].types = r.types]
  PROVE  Kept(f, g)
<1>1. PICK o : o = f.ops[n]
  OBVIOUS
<1>2. PICK new : new = [o EXCEPT !.types = r.types]
  OBVIOUS
<1>3. IsOp(o) /\ WellFormedOp(o)
  BY <1>1 DEF Sound, WellFormed, IsFunction, Range
<1>4. /\ new.id = o.id /\ new.kind = o.kind /\ new.args = o.args /\ new.attrs = o.attrs
      /\ new.types = r.types
  BY <1>2, <1>3 DEF IsOp, Op
<1>5. r.types = [k \in 1..resultCount(o.kind) |-> r.types[k]] /\ (o.kind = "constant" => r.types = o.types)
  BY <1>1, <1>3, InferredTypes
<1>6. WellFormedOp(new)
  BY <1>3, <1>4, <1>5 DEF WellFormedOp
<1>7. Alike(o, new)
  BY <1>4 DEF Alike
<1>8. DOMAIN new.types = DOMAIN o.types
  BY <1>3, <1>4, <1>5 DEF WellFormedOp
<1>9. \A X : Results(new, X) = Results(o, X)
  BY <1>4, <1>5, <1>8, ResultsByTypes
<1>10. g = [f EXCEPT !.ops[n] = new]
  BY <1>1, <1>2 DEF Sound, IsFunction
<1> QED BY <1>1, <1>4, <1>6, <1>7, <1>9, <1>10, AnnotatedKept

LEMMA AttributesKept ==
  ASSUME NEW f, Sound(f), NEW n \in DOMAIN f.ops, NEW o, o = f.ops[n], o.kind \in Tiled,
         NEW extra, "epsilon" \notin DOMAIN extra,
         NEW new, new.id = o.id, new.kind = o.kind, new.args = o.args, new.types = o.types,
         new.attrs = Joined(extra, o.attrs),
         NEW g, g = [f EXCEPT !.ops[n] = new]
  PROVE  Kept(f, g)
<1>1. IsOp(o) /\ WellFormedOp(o)
  BY DEF Sound, WellFormed, IsFunction, Range
<1>2. new.kind = o.kind
  OBVIOUS
<1>3. WellFormedOp(new)
  BY <1>1, <1>2 DEF WellFormedOp, Tiled
<1>4. Alike(o, new)
  BY <1>2 DEF Alike, Tiled
<1>5. Attr(new, "epsilon", 0) = Attr(o, "epsilon", 0)
  BY <1>2 DEF Attr, Joined
<1>6. ASSUME NEW X
      PROVE  Results(new, X) = Results(o, X)
  <2>1. CASE o.kind = "matmul"
    BY <1>2, <2>1, ResultsOf
  <2>2. CASE o.kind = "fused_rmsnorm_matmul"
    BY <1>2, <1>5, <2>2, ResultsOf
  <2>3. CASE o.kind = "fused_matmul_bias_gelu"
    BY <1>2, <2>3, ResultsOf
  <2> QED BY <2>1, <2>2, <2>3 DEF Tiled
<1> QED BY <1>2, <1>3, <1>4, <1>6, AnnotatedKept

LEMMA RewritesKept ==
  ASSUME NEW f, Sound(f), NEW pass \in Greedy, NEW o \in Range(f.ops), NEW g \in Rewrites(pass, f, o),
         pass = "fuse-softmax-mask" => NoAxis(f), pass = "canonicalize" => Ordered(f)
  PROVE  Kept(f, g) /\ (pass = "canonicalize" => Ordered(g))
<1>1. CASE pass = "fuse-rmsnorm-matmul"
  <2>1. g \in FuseRmsnormMatmulPattern(f, o)
    BY <1>1, Zenon DEF Rewrites
  <2> QED BY <1>1, <2>1, RmsnormMatmulKept
<1>2. CASE pass = "fuse-matmul-bias-gelu"
  <2>1. g \in FuseMatmulBiasGeluPattern(f, o)
    BY <1>2, Zenon DEF Rewrites
  <2> QED BY <1>2, <2>1, MatmulBiasGeluKept
<1>3. CASE pass = "fuse-residual-rmsnorm"
  <2>1. g \in FuseResidualRmsnormPattern(f, o)
    BY <1>3, Zenon DEF Rewrites
  <2> QED BY <1>3, <2>1, ResidualRmsnormKept
<1>4. CASE pass = "fuse-softmax-mask"
  <2>1. g \in FuseSoftmaxMaskPattern(f, o)
    BY <1>4, Zenon DEF Rewrites
  <2> QED BY <1>4, <2>1, SoftmaxMaskKept
<1>5. CASE pass = "fuse-kv-append-attention"
  <2>1. g \in FuseKvAppendAttentionPattern(f, o)
    BY <1>5, Zenon DEF Rewrites
  <2> QED BY <1>5, <2>1, KvAppendKept
<1>6. CASE pass = "canonicalize"
  <2>1. g \in AddZeroElimination(f, o) \cup GeluConstantFold(f, o)
                \cup SiluConstantFold(f, o) \cup SoftmaxSplatFold(f, o)
    BY <1>6, Zenon DEF Rewrites
  <2>2. CASE g \in AddZeroElimination(f, o)
    BY <1>6, <2>2, AddZeroKept
  <2>3. CASE g \in GeluConstantFold(f, o)
    BY <1>6, <2>3, ConstantFoldKept DEF GeluConstantFold
  <2>4. CASE g \in SiluConstantFold(f, o)
    BY <1>6, <2>4, ConstantFoldKept DEF SiluConstantFold
  <2>5. CASE g \in SoftmaxSplatFold(f, o)
    BY <1>6, <2>5, SoftmaxSplatKept
  <2> QED BY <2>1, <2>2, <2>3, <2>4, <2>5
<1> QED BY <1>1, <1>2, <1>3, <1>4, <1>5, <1>6 DEF Greedy, Fusions

----------------------------------------------------------------------------
(* Dominance: a verified function has one meaning. *)

LEMMA SmallestOf ==
  ASSUME NEW n \in Nat, NEW S \in SUBSET (1..n), S # {}
  PROVE  \E t \in S : \A u \in S : t <= u
<1>1. PICK R : R = {n + 1 - t : t \in S}
  OBVIOUS
<1>2. \A t \in S : t \in 1..n /\ n + 1 - t \in 1..n /\ n + 1 - t \in R
  BY <1>1
<1>3. R \in SUBSET (1..n) /\ R # {}
  BY <1>1, <1>2
<1>4. PICK r \in R : \A u \in R : u <= r
  BY <1>3, LargestUpTo
<1>5. PICK t \in S : r = n + 1 - t
  BY <1>1
<1>6. \A u \in S : t <= u
  BY <1>2, <1>4, <1>5
<1> QED BY <1>6

\* Op i finds what v is at an op above it.
DefinedAbove(f, v, i) ==
  v[1] = 0 \/ \E j \in DOMAIN f.ops : j < i /\ f.ops[j].id = v[1] /\ v[2] \in DOMAIN f.ops[j].types

LEMMA DominatesMeans ==
  ASSUME NEW f, IsFunction(f), Dominates(f)
  PROVE  /\ \A i \in DOMAIN f.ops : \A n \in DOMAIN f.ops[i].args : DefinedAbove(f, f.ops[i].args[n], i)
         /\ \A n \in DOMAIN f.ret : DefinedAbove(f, f.ret[n], Len(f.ops) + 1)
<1>1. PICK m \in Nat : m = Len(f.ops) /\ DOMAIN f.ops = 1..m
  BY DEF IsFunction
<1> DEFINE defined(v, i) == v[1] = 0 \/ \E j \in 1..(i - 1) :
                              f.ops[j].id = v[1] /\ v[2] \in DOMAIN f.ops[j].types
<1>2. /\ \A i \in DOMAIN f.ops : \A v \in Range(f.ops[i].args) : defined(v, i)
      /\ \A v \in Range(f.ret) : defined(v, m + 1)
  BY <1>1 DEF Dominates
<1>3. ASSUME NEW v, NEW i \in 1..(m + 1), defined(v, i)
      PROVE  DefinedAbove(f, v, i)
  <2>1. CASE v[1] = 0
    BY <2>1 DEF DefinedAbove
  <2>2. CASE \E j \in 1..(i - 1) : f.ops[j].id = v[1] /\ v[2] \in DOMAIN f.ops[j].types
    <3>1. PICK j \in 1..(i - 1) : f.ops[j].id = v[1] /\ v[2] \in DOMAIN f.ops[j].types
      BY <2>2
    <3>2. j \in DOMAIN f.ops /\ j < i
      BY <1>1
    <3> QED BY <3>1, <3>2 DEF DefinedAbove
  <2> QED BY <1>3, <2>1, <2>2
<1> HIDE DEF defined
<1>4. \A i \in DOMAIN f.ops : \A n \in DOMAIN f.ops[i].args : DefinedAbove(f, f.ops[i].args[n], i)
  <2>1. \A i \in DOMAIN f.ops : i \in 1..(m + 1)
    BY <1>1
  <2> QED BY <1>2, <1>3, <2>1 DEF Range
<1>5. \A n \in DOMAIN f.ret : DefinedAbove(f, f.ret[n], m + 1)
  BY <1>2, <1>3 DEF Range
<1> QED BY <1>1, <1>4, <1>5

LEMMA DominatesClosed ==
  ASSUME NEW f, IsFunction(f), WellFormed(f), Dominates(f)
  PROVE  Closed(f) /\ Ordered(f)
<1>1. PICK m \in Nat : DOMAIN f.ops = 1..m
  BY DEF IsFunction
<1>2. \A v, i : DefinedAbove(f, v, i) => Defined(Range(f.ops), v)
  BY DEF DefinedAbove, Defined, Range
<1>3. Closed(f)
  <2>1. \A o \in Range(f.ops) : \A n \in DOMAIN o.args : Defined(Range(f.ops), o.args[n])
    BY <1>2, DominatesMeans DEF Range
  <2>2. \A n \in DOMAIN f.ret : Defined(Range(f.ops), f.ret[n])
    BY <1>2, DominatesMeans
  <2> QED BY <2>1, <2>2 DEF Closed
<1>4. PICK rho : rho = [k \in Nat |-> IF \E i \in 1..m : f.ops[i].id = k
                                   THEN CHOOSE i \in 1..m : f.ops[i].id = k ELSE 0]
  OBVIOUS
<1>5. rho \in [Nat -> Nat]
  <2>1. ASSUME NEW k \in Nat
        PROVE  rho[k] \in Nat
    <3>1. CASE \E i \in 1..m : f.ops[i].id = k
      <4>1. rho[k] = CHOOSE i \in 1..m : f.ops[i].id = k
        BY <1>4, <3>1
      <4>2. rho[k] \in 1..m
        BY <3>1, <4>1
      <4> QED BY <4>2
    <3>2. CASE ~\E i \in 1..m : f.ops[i].id = k
      BY <1>4, <3>2
    <3> QED BY <3>1, <3>2
  <2> QED BY <1>4, <2>1
<1>6. \A i \in 1..m : f.ops[i].id \in Nat \ {0} /\ f.ops[i].args \in Seq(Nat \X Nat)
  BY <1>1 DEF WellFormed, WellFormedOp, Range
<1>7. ASSUME NEW i \in 1..m
      PROVE  rho[f.ops[i].id] = i
  <2>1. PICK k \in Nat : k = f.ops[i].id
    BY <1>6
  <2>2. rho[k] = CHOOSE j \in 1..m : f.ops[j].id = k
    BY <1>4, <2>1
  <2>3. rho[k] \in 1..m /\ f.ops[rho[k]].id = k
    BY <2>1, <2>2
  <2> QED BY <1>1, <2>1, <2>3 DEF WellFormed
<1>8. rho[0] = 0
  BY <1>4, <1>6
<1>9. OrderedBy(f, rho)
  <2>1. ASSUME NEW i \in 1..m, NEW n \in DOMAIN f.ops[i].args
        PROVE  rho[f.ops[i].args[n][1]] < rho[f.ops[i].id]
    <3>1. PICK v : v = f.ops[i].args[n]
      OBVIOUS
    <3>2. DefinedAbove(f, v, i)
      BY <1>1, <3>1, DominatesMeans
    <3>3. CASE v[1] = 0
      BY <1>7, <1>8, <3>1, <3>3
    <3>4. CASE \E j \in DOMAIN f.ops : j < i /\ f.ops[j].id = v[1]
      <4>1. PICK j \in DOMAIN f.ops : j < i /\ f.ops[j].id = v[1]
        BY <3>4
      <4>2. rho[v[1]] = j
        BY <1>1, <1>7, <4>1
      <4> QED BY <1>7, <3>1, <4>1, <4>2
    <3> QED BY <3>2, <3>3, <3>4 DEF DefinedAbove
  <2> QED BY <1>1, <2>1 DEF OrderedBy, Range
<1> QED BY <1>3, <1>5, <1>9 DEF Ordered

\* What the ops above op i compute decides what it does.
LEMMA AboveDecides ==
  ASSUME NEW f, IsFunction(f), Dominates(f), NEW M, NEW N,
         NEW i \in DOMAIN f.ops,
         \A j \in DOMAIN f.ops : j < i => M[f.ops[j].id] = N[f.ops[j].id]
  PROVE  Values(M, f.ops[i].args) = Values(N, f.ops[i].args)
<1>1. PICK s : s = f.ops[i].args
  OBVIOUS
<1>2. ASSUME NEW n \in DOMAIN s
      PROVE  Value(M, s[n]) = Value(N, s[n])
  <2>1. DefinedAbove(f, s[n], i)
    BY <1>1, DominatesMeans
  <2> QED BY <2>1 DEF DefinedAbove, Value
<1>3. Values(M, s) = Values(N, s)
  BY <1>2 DEF Values
<1> QED BY <1>1, <1>3

LEMMA ModelsAgree ==
  ASSUME NEW f, IsFunction(f), Dominates(f), NEW M, Models(f, M), NEW N, Models(f, N)
  PROVE  \A i \in DOMAIN f.ops : M[f.ops[i].id] = N[f.ops[i].id]
<1>1. PICK m \in Nat : DOMAIN f.ops = 1..m
  BY DEF IsFunction
<1>2. PICK bad : bad = {i \in 1..m : M[f.ops[i].id] # N[f.ops[i].id]}
  OBVIOUS
<1>3. SUFFICES ASSUME bad # {} PROVE FALSE
  BY <1>1, <1>2
<1>4. PICK i \in bad : \A j \in bad : i <= j
  BY <1>2, <1>3, SmallestOf
<1>5. i \in DOMAIN f.ops /\ M[f.ops[i].id] # N[f.ops[i].id]
  BY <1>1, <1>2
<1>6. ASSUME NEW j \in DOMAIN f.ops, j < i
      PROVE  M[f.ops[j].id] = N[f.ops[j].id]
  BY <1>1, <1>2, <1>4, <1>5, <1>6
<1>7. Values(M, f.ops[i].args) = Values(N, f.ops[i].args)
  BY <1>5, <1>6, AboveDecides
<1>8. \A X : Models(f, X) => X[f.ops[i].id] = Results(f.ops[i], Values(X, f.ops[i].args))
  BY <1>5 DEF Models, Range
<1> QED BY <1>5, <1>7, <1>8

\* The recursive definition of Meaning, as an equation.
Solves(f, T) == T = [i \in Ids(f) |-> Results(Def(f, <<i, 1>>), Values(T, Def(f, <<i, 1>>).args))]
Terms(f) ==
  CHOOSE T : T = [i \in Ids(f) |-> Results(Def(f, <<i, 1>>), Values(T, Def(f, <<i, 1>>).args))]

LEMMA MeaningTerms ==
  ASSUME NEW f
  PROVE  Meaning(f) = Values(Terms(f), f.ret)
BY Zenon DEF Meaning, Terms

LEMMA TermsSolve ==
  ASSUME NEW f, NEW T, Solves(f, T)
  PROVE  Solves(f, Terms(f))
BY Zenon DEF Solves, Terms

LEMMA DefOfId ==
  ASSUME NEW f, WellFormed(f), NEW o \in Range(f.ops), NEW n
  PROVE  Def(f, <<o.id, n>>) = o /\ o.id \in Ids(f)
<1>1. o.id # 0
  BY DEF WellFormed, WellFormedOp
<1>2. PICK d : d = CHOOSE p \in Range(f.ops) : p.id = o.id
  OBVIOUS
<1>3. d \in Range(f.ops) /\ d.id = o.id
  BY <1>2
<1>4. d = o
  BY <1>3, OneOpPerId
<1> QED BY <1>1, <1>2, <1>4 DEF Def, Ids

\* A verified function returns the values that any model of it gives.
LEMMA MeaningIs ==
  ASSUME NEW f, Sound(f), Dominates(f), NEW M, Models(f, M)
  PROVE  Meaning(f) = Values(M, f.ret)
<1>1. ASSUME NEW T, Solves(f, T)
      PROVE  Models(f, T)
  <2>1. ASSUME NEW o \in Range(f.ops)
        PROVE  T[o.id] = Results(o, Values(T, o.args))
    <3>1. Def(f, <<o.id, 1>>) = o /\ o.id \in Ids(f)
      BY DefOfId DEF Sound
    <3>2. T[o.id] = Results(Def(f, <<o.id, 1>>), Values(T, Def(f, <<o.id, 1>>).args))
      BY <1>1, <3>1 DEF Solves
    <3> QED BY <3>1, <3>2
  <2> QED BY <2>1 DEF Models
<1>2. PICK T : T = [i \in Ids(f) |-> M[i]]
  OBVIOUS
<1>3. Solves(f, T)
  <2>1. ASSUME NEW i \in Ids(f)
        PROVE  M[i] = Results(Def(f, <<i, 1>>), Values(T, Def(f, <<i, 1>>).args))
    <3>1. PICK o \in Range(f.ops) : o.id = i
      BY DEF Ids
    <3>2. Def(f, <<i, 1>>) = o
      BY <3>1, DefOfId DEF Sound
    <3>3. Values(T, o.args) = Values(M, o.args)
      <4>1. ASSUME NEW n \in DOMAIN o.args
            PROVE  Value(T, o.args[n]) = Value(M, o.args[n])
        <5>1. Defined(Range(f.ops), o.args[n])
          BY DEF Sound, Closed
        <5> QED BY <1>2, <5>1 DEF Defined, Value, Ids
      <4> QED BY <4>1 DEF Values
    <3> QED BY <3>1, <3>2, <3>3 DEF Models
  <2>2. T = [i \in Ids(f) |-> Results(Def(f, <<i, 1>>), Values(T, Def(f, <<i, 1>>).args))]
    BY <1>2, <2>1
  <2> QED BY <2>2 DEF Solves
<1>4. PICK N : N = Terms(f)
  OBVIOUS
<1>5. Models(f, N)
  BY <1>1, <1>3, <1>4, TermsSolve
<1>6. \A i \in DOMAIN f.ops : M[f.ops[i].id] = N[f.ops[i].id]
  BY <1>5, ModelsAgree DEF Sound
<1>7. ASSUME NEW n \in DOMAIN f.ret
      PROVE  Value(N, f.ret[n]) = Value(M, f.ret[n])
  <2>1. Defined(Range(f.ops), f.ret[n])
    BY DEF Sound, Closed
  <2> QED BY <1>6, <2>1 DEF Defined, Value, Range
<1>8. Values(N, f.ret) = Values(M, f.ret)
  BY <1>7 DEF Values
<1> QED BY <1>4, <1>8, MeaningTerms

\* M models the ops down to op n.
ModelsUpTo(f, M, n) ==
  \A i \in DOMAIN f.ops : i <= n => M[f.ops[i].id] = Results(f.ops[i], Values(M, f.ops[i].args))

LEMMA OneMoreOp ==
  ASSUME NEW f, IsFunction(f), WellFormed(f), Dominates(f), NEW M,
         NEW i \in DOMAIN f.ops, ModelsUpTo(f, M, i - 1)
  PROVE  \E N : ModelsUpTo(f, N, i)
<1>1. PICK m \in Nat : DOMAIN f.ops = 1..m
  BY DEF IsFunction
<1>2. PICK N : N = [k \in Ids(f) |-> IF k = f.ops[i].id THEN Results(f.ops[i], Values(M, f.ops[i].args))
                                     ELSE M[k]]
  OBVIOUS
<1>3. \A j \in DOMAIN f.ops : f.ops[j].id \in Ids(f) /\ (f.ops[j].id = f.ops[i].id => j = i)
  BY DEF Ids, Range, WellFormed
<1>4. \A j \in DOMAIN f.ops : j < i => N[f.ops[j].id] = M[f.ops[j].id]
  BY <1>1, <1>2, <1>3
<1>5. ASSUME NEW j \in DOMAIN f.ops, j <= i
      PROVE  N[f.ops[j].id] = Results(f.ops[j], Values(N, f.ops[j].args))
  <2>1. \A k \in DOMAIN f.ops : k < j => N[f.ops[k].id] = M[f.ops[k].id]
    BY <1>1, <1>4, <1>5
  <2>2. Values(N, f.ops[j].args) = Values(M, f.ops[j].args)
    BY <2>1, AboveDecides
  <2>3. CASE j = i
    BY <1>2, <1>3, <2>2, <2>3
  <2>4. CASE j # i
    <3>1. j < i /\ j <= i - 1
      BY <1>1, <1>5, <2>4
    <3>2. M[f.ops[j].id] = Results(f.ops[j], Values(M, f.ops[j].args))
      BY <3>1 DEF ModelsUpTo
    <3> QED BY <1>4, <2>2, <3>1, <3>2
  <2> QED BY <2>3, <2>4
<1> QED BY <1>5 DEF ModelsUpTo

\* A verified function has a model: its ops can be evaluated from the top.
LEMMA ModelExists ==
  ASSUME NEW f, IsFunction(f), WellFormed(f), Dominates(f)
  PROVE  \E M : Models(f, M)
<1>1. PICK m \in Nat : DOMAIN f.ops = 1..m
  BY DEF IsFunction
<1>2. PICK S : S = {n \in 1..(m + 1) : \E M : ModelsUpTo(f, M, n - 1)}
  OBVIOUS
<1>3. 1 \in S
  <2>1. ModelsUpTo(f, <<>>, 1 - 1)
    BY <1>1 DEF ModelsUpTo
  <2>2. 1 \in 1..(m + 1)
    OBVIOUS
  <2> QED BY <1>2, <2>1, <2>2
<1>4. PICK r \in S : \A u \in S : u <= r
  <2>1. S \subseteq 1..(m + 1)
    BY <1>2, Zenon
  <2>2. S \in SUBSET (1..(m + 1)) /\ S # {} /\ m + 1 \in Nat
    BY <1>3, <2>1
  <2> QED BY <2>2, LargestUpTo
<1>5. r \in 1..(m + 1)
  BY <1>2
<1>6. PICK M : ModelsUpTo(f, M, r - 1)
  BY <1>2, <1>4
<1>7. r = m + 1
  <2>1. SUFFICES ASSUME r # m + 1 PROVE FALSE
    OBVIOUS
  <2>2. r \in DOMAIN f.ops /\ r + 1 \in 1..(m + 1)
    BY <1>1, <1>5, <2>1
  <2>3. PICK N : ModelsUpTo(f, N, r)
    BY <1>6, <2>2, OneMoreOp
  <2>4. ModelsUpTo(f, N, (r + 1) - 1)
    <3>1. (r + 1) - 1 = r
      BY <1>5
    <3> QED BY <2>3, <3>1
  <2>5. r + 1 \in S
    BY <1>2, <2>2, <2>4
  <2> QED BY <1>4, <1>5, <2>5
<1>8. \A i \in DOMAIN f.ops : i <= r - 1
  BY <1>1, <1>7
<1>9. Models(f, M)
  BY <1>6, <1>8 DEF ModelsUpTo, Models, Range
<1> QED BY <1>9

\* Zeros come from constants, and have the shape of their type.
ZeroOf(t) == <<"const", 1, ConstZero, t.shape>>
HasZero(f) == \E c \in Range(f.ops) : isDenseZero(c)
ZeroIs(f, M, v) == IsZero(Value(M, v)) => HasZero(f) /\ Value(M, v) = ZeroOf(TypeOf(f, v))

LEMMA ZeroElementwise ==
  ASSUME NEW fn \in {"gelu", "silu"}, NEW x, IsZero(Elementwise(fn, x))
  PROVE  IsZero(x) /\ Elementwise(fn, x) = <<"const", x[2], ConstZero, x[4]>>
<1>1. IsConst(x)
  BY DEF IsZero, Elementwise, IsConst
<1>2. Elementwise(fn, x) = <<"const", x[2], Mapped(fn, x[3]), x[4]>>
  BY <1>1 DEF Elementwise
<1>3. Mapped(fn, x[3]) = ConstZero
  BY <1>2 DEF IsZero
<1>4. x[3] = ConstZero
  <2>1. \A v : <<fn, v>> # <<"zero">>
    OBVIOUS
  <2> QED BY <1>3, <2>1 DEF Mapped, ConstZero
<1> QED BY <1>1, <1>2, <1>3, <1>4 DEF IsZero

LEMMA ZeroSum ==
  ASSUME NEW x, NEW y, IsZero(Sum(x, y))
  PROVE  IsZero(x) /\ IsZero(y) /\ Sum(x, y) = y
<1>1. CASE IsZero(x)
  BY <1>1 DEF Sum
<1>2. CASE ~IsZero(x) /\ IsZero(y)
  BY <1>2 DEF Sum
<1>3. CASE ~IsZero(x) /\ ~IsZero(y)
  <2>1. Sum(x, y) = <<"add", 0, <<x, y>>>>
    BY <1>3 DEF Sum
  <2> QED BY <2>1 DEF IsZero, IsConst
<1> QED BY <1>1, <1>2, <1>3

LEMMA ZeroSoftmax ==
  ASSUME NEW x, NEW axis
  PROVE  ~IsZero(Softmax(x, axis))
<1>1. PICK t, u : \/ Softmax(x, axis) = <<"const", 1, <<"uniform", t>>, u>>
                  \/ Softmax(x, axis) = <<"softmax", t, u>>
  BY DEF Softmax, Uniform
<1>2. <<"uniform", t>> # <<"zero">>
  OBVIOUS
<1> QED BY <1>1, <1>2 DEF IsZero, IsConst, ConstZero

LEMMA ZeroResult ==
  ASSUME NEW f, Sound(f), AddOp_verify(f), ZerosTyped(f), NEW M,
         NEW o \in Range(f.ops), M[o.id] = Results(o, Values(M, o.args)),
         \A n \in DOMAIN o.args : ZeroIs(f, M, o.args[n]),
         NEW n \in DOMAIN o.types
  PROVE  ZeroIs(f, M, <<o.id, n>>)
<1>1. o.id # 0 /\ o.kind \in Kinds /\ DOMAIN o.types = 1..resultCount(o.kind)
  BY DEF Sound, WellFormed, WellFormedOp
<1>2. PICK X : X = Values(M, o.args)
  OBVIOUS
<1>3. Value(M, <<o.id, n>>) = Results(o, X)[n]
  BY <1>1, <1>2 DEF Value
<1>4. TypeOf(f, <<o.id, n>>) = o.types[n]
  BY <1>1, DefOfId DEF TypeOf, Sound
<1>5. PICK x : x = Results(o, X)[n]
  OBVIOUS
<1>6. SUFFICES ASSUME IsZero(x)
               PROVE  HasZero(f) /\ x = ZeroOf(o.types[n])
  BY <1>3, <1>4, <1>5 DEF ZeroIs
<1>7. \A k \in DOMAIN o.args : X[k] = Value(M, o.args[k])
  BY <1>2 DEF Values
<1>8. \A k \in DOMAIN o.args : IsZero(X[k]) => HasZero(f) /\ X[k] = ZeroOf(TypeOf(f, o.args[k]))
  BY <1>7 DEF ZeroIs
<1>9. HasZero(f) /\ o.kind \in {"gelu", "silu", "add"} => o.types[1] = TypeOf(f, o.args[1])
  BY DEF HasZero, ZerosTyped
<1>10. o.kind \notin {"qkv_projection", "fused_kv_append_attention"} => n = 1
  <2>1. o.kind \notin {"qkv_projection", "fused_kv_append_attention"} => resultCount(o.kind) = 1
    BY Counts
  <2> QED BY <1>1, <2>1
<1>11. CASE o.kind = "constant"
  <2>1. x = Const(o.attrs["value"], o.types[1])
    BY <1>5, <1>10, <1>11, ResultsOf
  <2>2. IsDense(o.attrs["value"])
    BY <1>11, ConstantOp
  <2>3. o.attrs["value"].v = ConstZero
    BY <1>6, <2>1 DEF IsZero, Const
  <2>4. HasZero(f)
    BY <1>11, <2>3 DEF HasZero, isDenseZero
  <2> QED BY <1>10, <1>11, <2>1, <2>2, <2>3, <2>4 DEF Const, ZeroOf, IsDense
<1>12. CASE o.kind \in {"gelu", "silu"}
  <2>1. x = Elementwise(o.kind, X[1])
    BY <1>5, <1>10, <1>12, ResultsOf
  <2>2. IsZero(X[1]) /\ x = <<"const", X[1][2], ConstZero, X[1][4]>>
    BY <1>6, <1>12, <2>1, ZeroElementwise
  <2>3. operandCount(o.kind) = 1
    BY <1>12, Counts
  <2>4. 1 \in DOMAIN o.args
    BY <2>3, OperandsOf
  <2> QED BY <1>8, <1>9, <1>10, <1>12, <2>2, <2>4 DEF ZeroOf
<1>13. CASE o.kind = "add"
  <2>1. x = Sum(X[1], X[2])
    BY <1>5, <1>10, <1>13, ResultsOf
  <2>2. IsZero(X[1]) /\ IsZero(X[2]) /\ x = X[2]
    BY <1>6, <2>1, ZeroSum
  <2>3. operandCount(o.kind) = 2
    BY <1>13, Counts
  <2>4. 1 \in DOMAIN o.args /\ 2 \in DOMAIN o.args
    BY <2>3, OperandsOf
  <2>5. TypeOf(f, o.args[1]) = TypeOf(f, o.args[2])
    BY <1>13 DEF AddOp_verify
  <2> QED BY <1>8, <1>9, <1>10, <1>13, <2>2, <2>4, <2>5
<1>14. CASE o.kind \in {"softmax", "fused_softmax_mask"}
  <2>1. \E y, a : x = Softmax(y, a)
    BY <1>5, <1>10, <1>14, ResultsOf
  <2> QED BY <1>6, <2>1, ZeroSoftmax
<1>15. CASE o.kind \in {"rmsnorm", "matmul", "bias", "attention", "kv_cache_update",
                       "fused_rmsnorm_matmul", "fused_residual_rmsnorm"}
  <2>1. \/ \E y, z : x \in {RmsNorm(y, z), MatMul(y, z), Bias(y, z)}
        \/ \E q, k, v : x \in {Attention(q, k, v), KVCacheUpdate(q, k, v)}
    BY <1>5, <1>10, <1>15, ResultsOf
  <2> QED BY <1>6, <2>1
          DEF IsZero, IsConst, RmsNorm, MatMul, Bias, Attention, KVCacheUpdate
<1>16. CASE o.kind = "fused_matmul_bias_gelu"
  <2>1. x = Elementwise("gelu", Bias(MatMul(X[1], X[2]), X[3]))
    BY <1>5, <1>10, <1>16, ResultsOf
  <2>2. ~IsZero(Bias(MatMul(X[1], X[2]), X[3]))
    BY DEF Bias, IsZero, IsConst
  <2> QED BY <1>6, <2>1, <2>2, ZeroElementwise
<1>17. CASE o.kind = "fused_kv_append_attention"
  <2>1. Results(o, X) = <<Attention(X[1], X[3], X[4]), KVCacheUpdate(X[2], X[3], X[4])>>
    BY <1>17, ResultsOf
  <2>2. n \in {1, 2}
    BY <1>1, <1>17, Counts
  <2>3. \E k \in {"attention", "kv_cache_update"} : \E y, z : x = <<k, y, z>>
    BY <1>5, <2>1, <2>2 DEF Attention, KVCacheUpdate
  <2> QED BY <1>6, <2>3 DEF IsZero, IsConst
<1>18. CASE o.kind \in {"rope", "qkv_projection"}
  <2>1. Results(o, X) = [k \in DOMAIN o.types |-> <<o.kind, k, X>>]
    BY <1>18, Zenon DEF Results
  <2>2. x = <<o.kind, n, X>>
    BY <1>5, <2>1
  <2> QED BY <1>6, <1>18, <2>2 DEF IsZero, IsConst
<1> QED BY <1>1, <1>11, <1>12, <1>13, <1>14, <1>15, <1>16, <1>17, <1>18 DEF Kinds

\* In a verified function whose zeros are typed, no add has two different zeros.
LEMMA ZeroTerms ==
  ASSUME NEW f, Sound(f), Dominates(f), AddOp_verify(f), ZerosTyped(f), NEW M, Models(f, M)
  PROVE  ZerosAgree(f, M)
<1>1. PICK m \in Nat : DOMAIN f.ops = 1..m
  BY DEF Sound, IsFunction
<1>2. PICK bad : bad = {i \in 1..m : \E n \in DOMAIN f.ops[i].types : ~ZeroIs(f, M, <<f.ops[i].id, n>>)}
  OBVIOUS
<1>3. ASSUME NEW v \in Nat \X Nat, v[1] = 0
      PROVE  ZeroIs(f, M, v)
  BY <1>3 DEF ZeroIs, IsZero, IsConst, Value
<1>4. bad = {}
  <2>1. SUFFICES ASSUME bad # {} PROVE FALSE
    OBVIOUS
  <2>2. bad \subseteq 1..m
    BY <1>2, Zenon
  <2>3. PICK i \in bad : \A j \in bad : i <= j
    BY <2>1, <2>2, SmallestOf
  <2>4. PICK o \in Range(f.ops) : o = f.ops[i] /\ i \in DOMAIN f.ops
    BY <1>1, <2>2 DEF Range
  <2>5. ASSUME NEW k \in DOMAIN o.args
        PROVE  ZeroIs(f, M, o.args[k])
    <3>1. PICK v : v = o.args[k]
      OBVIOUS
    <3>2. v \in Nat \X Nat
      BY <3>1, OperandsOf
    <3>3. DefinedAbove(f, v, i)
      BY <2>4, <3>1, DominatesMeans DEF Sound
    <3>4. CASE v[1] = 0
      BY <1>3, <3>1, <3>2, <3>4
    <3>5. CASE \E j \in DOMAIN f.ops : j < i /\ f.ops[j].id = v[1] /\ v[2] \in DOMAIN f.ops[j].types
      <4>1. PICK j \in DOMAIN f.ops : j < i /\ f.ops[j].id = v[1] /\ v[2] \in DOMAIN f.ops[j].types
        BY <3>5
      <4>2. j \notin bad
        BY <1>1, <2>3, <2>2, <4>1
      <4>3. \A n \in DOMAIN f.ops[j].types : ZeroIs(f, M, <<f.ops[j].id, n>>)
        BY <1>1, <1>2, <4>2
      <4>4. v = <<f.ops[j].id, v[2]>>
        BY <3>2, <4>1
      <4> QED BY <3>1, <4>1, <4>3, <4>4
    <3> QED BY <3>3, <3>4, <3>5 DEF DefinedAbove
  <2>6. M[o.id] = Results(o, Values(M, o.args))
    BY DEF Models
  <2>7. \A n \in DOMAIN o.types : ZeroIs(f, M, <<o.id, n>>)
    BY <2>5, <2>6, ZeroResult
  <2> QED BY <1>2, <2>3, <2>4, <2>7
<1>5. ASSUME NEW o \in Range(f.ops), NEW k \in DOMAIN o.args
      PROVE  ZeroIs(f, M, o.args[k])
  <2>1. PICK v : v = o.args[k]
    OBVIOUS
  <2>2. v \in Nat \X Nat /\ Defined(Range(f.ops), v)
    BY <2>1, OperandsOf
  <2>3. CASE v[1] = 0
    BY <1>3, <2>1, <2>2, <2>3
  <2>4. CASE v[1] # 0
    <3>1. PICK p \in Range(f.ops) : p.id = v[1] /\ v[2] \in DOMAIN p.types
      BY <2>2, <2>4 DEF Defined
    <3>2. \A n \in DOMAIN p.types : ZeroIs(f, M, <<p.id, n>>)
      BY <1>1, <1>2, <1>4, <3>1 DEF Range
    <3>3. v = <<p.id, v[2]>>
      BY <2>2, <3>1
    <3> QED BY <2>1, <3>1, <3>2, <3>3
  <2> QED BY <2>3, <2>4
<1>6. ASSUME NEW o \in Range(f.ops), o.kind = "add",
             IsZero(Value(M, o.args[1])), IsZero(Value(M, o.args[2]))
      PROVE  Value(M, o.args[1]) = Value(M, o.args[2])
  <2>1. operandCount(o.kind) = 2
    BY <1>6, Counts
  <2>2. 1 \in DOMAIN o.args /\ 2 \in DOMAIN o.args
    BY <2>1, OperandsOf
  <2>3. TypeOf(f, o.args[1]) = TypeOf(f, o.args[2])
    BY <1>6 DEF AddOp_verify
  <2> QED BY <1>5, <1>6, <2>2, <2>3 DEF ZeroIs
<1> QED BY <1>6 DEF ZerosAgree

----------------------------------------------------------------------------
(* The command line keeps the meaning of the function. *)

Live == phase \notin {"parse", "failed"}

\* The function can be evaluated, and returns what the source returns.
Faithful ==
  \E M : Models(ir, M) /\ ZerosAgree(ir, M) /\ Values(M, ir.ret) = Meaning(source)

\* Between passes every operand is defined above its use; while a pass runs it
\* is defined somewhere, and canonicalization never makes a cycle.
WholeIR ==
  /\ WellFormed(ir)
  /\ NoAxis(source) => NoAxis(ir)
  /\ phase = "parse" => ir = source
  /\ phase \in {"idle", "done"} => Dominates(ir)
  /\ Running("canonicalize") => Ordered(ir)
  /\ Live => Closed(ir) /\ Faithful

MeaningInv == AxesKept /\ ZerosTyped(source) => WholeIR

\* A verified function is evaluated from its first op to its last.
LEMMA ParsedIsFaithful ==
  ASSUME IsFunction(ir), WellFormed(ir), ir = source, ZerosTyped(source), verify(ir)
  PROVE  Closed(ir) /\ Faithful
<1>1. Dominates(ir) /\ AddOp_verify(ir)
  BY DEF verify
<1>2. Sound(ir)
  BY <1>1, DominatesClosed DEF Sound
<1>3. PICK M : Models(ir, M)
  BY <1>1, ModelExists
<1>4. ZerosAgree(ir, M)
  BY <1>1, <1>2, <1>3, ZeroTerms
<1>5. Meaning(ir) = Values(M, ir.ret)
  BY <1>1, <1>2, <1>3, MeaningIs
<1> QED BY <1>2, <1>3, <1>4, <1>5 DEF Sound, Faithful

LEMMA SameConditions ==
  ASSUME UNCHANGED <<source, cmd>>
  PROVE  (AxesKept' <=> AxesKept) /\ (ZerosTyped(source)' <=> ZerosTyped(source))
BY DEF AxesKept

\* A step of a pass that rewrites or annotates.
LEMMA KeptStep ==
  ASSUME WholeIR, phase = "run", UNCHANGED <<source, cmd, at, phase>>, Kept(ir, ir'),
         Running("canonicalize") => Ordered(ir')
  PROVE  WholeIR'
<1>1. /\ WellFormed(ir') /\ Closed(ir') /\ Keeps(ir, ir') /\ (NoAxis(ir) => NoAxis(ir'))
  BY DEF Kept
<1>2. Faithful
  BY DEF WholeIR, Live
<1>3. Faithful'
  <2>1. PICK M : Models(ir, M) /\ ZerosAgree(ir, M) /\ Values(M, ir.ret) = Meaning(source)
    BY <1>2 DEF Faithful
  <2>2. PICK N : Models(ir', N) /\ ZerosAgree(ir', N) /\ Values(N, ir'.ret) = Values(M, ir.ret)
    BY <1>1, <2>1 DEF Keeps
  <2> QED BY <2>1, <2>2 DEF Faithful
<1> QED BY <1>1, <1>3 DEF WholeIR, Live, Running

\* A step that leaves the function alone.
LEMMA StandingStep ==
  ASSUME WholeIR, UNCHANGED <<source, ir, cmd>>,
         phase' = "failed" \/ (phase' = phase /\ UNCHANGED at)
  PROVE  WholeIR'
<1>1. UNCHANGED Faithful
  BY DEF Faithful
<1> QED BY <1>1 DEF WholeIR, Live, Running

\* The verifier has the last word on every pass.
LEMMA EndStep ==
  ASSUME WholeIR, phase = "run", EndPass
  PROVE  WholeIR'
<1>1. UNCHANGED <<source, ir, cmd>> /\ phase' = IF verify(ir) THEN "idle" ELSE "failed"
  BY DEF EndPass
<1>2. CASE ~verify(ir)
  BY <1>1, <1>2, StandingStep
<1>3. CASE verify(ir)
  <2>1. Dominates(ir)
    BY <1>3 DEF verify
  <2>2. UNCHANGED Faithful
    BY <1>1 DEF Faithful
  <2> QED BY <1>1, <1>3, <2>1, <2>2 DEF WholeIR, Live, Running
<1> QED BY <1>2, <1>3

\* What an op becomes when a walk annotates it: only a tiled op changes.
Annotates(new, o) ==
  \/ new = o
  \/ /\ o.kind \in Tiled
     /\ \E extra : /\ "epsilon" \notin DOMAIN extra /\ "eliminated" \notin DOMAIN extra
                   /\ new = [o EXCEPT !.attrs = Joined(extra, o.attrs)]

LEMMA AnnotationIs ==
  ASSUME SourcesInv, InferTileLayout \/ PlanMemory \/ EmitKernelReport
  PROVE  /\ phase' = phase /\ pos \in DOMAIN ir.ops
         /\ \/ UNCHANGED ir
            \/ \E new : Annotates(new, ir.ops[pos]) /\ ir' = [ir EXCEPT !.ops[pos] = new]
<1>1. Walking /\ phase' = phase
  BY DEF InferTileLayout, PlanMemory, EmitKernelReport
<1>2. pos \in DOMAIN ir.ops /\ IsOp(Here) /\ Here = ir.ops[pos]
  BY <1>1, HereIsOp DEF Here
<1>3. PICK o : o = Here /\ IsOp(o) /\ o = ir.ops[pos]
  BY <1>2
<1>4. CASE UNCHANGED ir
  BY <1>1, <1>2, <1>4
<1>5. CASE InferTileLayout
  <2>1. ir' = [ir EXCEPT !.ops[pos] = InferTile(ir, o)]
    BY <1>3, <1>5 DEF InferTileLayout
  <2>2. CASE InferTile(ir, o) = o
    BY <1>1, <1>2, <1>3, <2>1, <2>2 DEF Annotates
  <2>3. CASE InferTile(ir, o) # o
    <3>1. o.kind \in Tiled /\ \E m, n, k, l :
            InferTile(ir, o) = [o EXCEPT !.attrs = Joined([tile_m |-> m, tile_n |-> n, tile_k |-> k,
                                                           layout |-> l], @)]
      BY <2>3 DEF InferTile
    <3>2. PICK extra : /\ "epsilon" \notin DOMAIN extra /\ "eliminated" \notin DOMAIN extra
                       /\ InferTile(ir, o) = [o EXCEPT !.attrs = Joined(extra, o.attrs)]
      BY <1>3, <3>1
    <3>3. Annotates(InferTile(ir, o), o)
      BY <3>1, <3>2 DEF Annotates
    <3> QED BY <1>1, <1>2, <1>3, <2>1, <3>3
  <2> QED BY <2>2, <2>3
<1>6. CASE PlanMemory
  <2>1. ir' = [ir EXCEPT !.ops[pos] = Plan(ir, o)]
    BY <1>3, <1>6 DEF PlanMemory
  <2>2. CASE Plan(ir, o) = o
    BY <1>1, <1>2, <1>3, <2>1, <2>2 DEF Annotates
  <2>3. CASE Plan(ir, o) # o
    <3>1. o.kind \in Tiled /\ \E m, n, q :
            /\ q \in {[smem_over_budget |-> TRUE], <<>>}
            /\ Plan(ir, o) = [o EXCEPT !.attrs = Joined([smem_bytes |-> m, workspace_bytes |-> n],
                                                        Joined(q, @))]
      BY <2>3 DEF Plan
    <3>2. PICK m, n, q :
            /\ q \in {[smem_over_budget |-> TRUE], <<>>}
            /\ Plan(ir, o) = [o EXCEPT !.attrs = Joined([smem_bytes |-> m, workspace_bytes |-> n],
                                                        Joined(q, @))]
      BY <3>1
    <3>3. PICK e : e = [smem_bytes |-> m, workspace_bytes |-> n]
      OBVIOUS
    <3>4. PICK extra : extra = Joined(e, q)
      OBVIOUS
    <3>5. /\ "epsilon" \notin DOMAIN e /\ "epsilon" \notin DOMAIN q
          /\ "eliminated" \notin DOMAIN e /\ "eliminated" \notin DOMAIN q
      BY <3>2, <3>3
    <3>6. "epsilon" \notin DOMAIN extra /\ "eliminated" \notin DOMAIN extra
      BY <3>4, <3>5 DEF Joined
    <3>7. Joined(e, Joined(q, o.attrs)) = Joined(extra, o.attrs)
      BY <3>4 DEF Joined
    <3>8. Plan(ir, o) = [o EXCEPT !.attrs = Joined(extra, o.attrs)]
      BY <1>3, <3>2, <3>3, <3>7
    <3>9. Annotates(Plan(ir, o), o)
      BY <3>1, <3>6, <3>8 DEF Annotates
    <3> QED BY <1>1, <1>2, <1>3, <2>1, <3>9
  <2> QED BY <2>2, <2>3
<1>7. CASE EmitKernelReport /\ ~UNCHANGED ir
  <2>1. PICK s : s = Skeleton(ir, o)
    OBVIOUS
  <2>2. s # <<>> /\ ir' = [ir EXCEPT !.ops[pos].attrs = Joined([report_kernel |-> s[1].kernel], @)]
    BY <1>3, <1>7, <2>1 DEF EmitKernelReport
  <2>3. o.kind \in Tiled
    BY <2>1, <2>2 DEF Skeleton
  <2>4. PICK extra : extra = [report_kernel |-> s[1].kernel]
    OBVIOUS
  <2>5. "epsilon" \notin DOMAIN extra /\ "eliminated" \notin DOMAIN extra
    BY <2>4
  <2>6. ir' = [ir EXCEPT !.ops[pos] = [o EXCEPT !.attrs = Joined(extra, o.attrs)]]
    BY <1>3, <2>2, <2>4 DEF SourcesInv, Shaped, IsFunction
  <2>7. Annotates([o EXCEPT !.attrs = Joined(extra, o.attrs)], o)
    BY <2>3, <2>5 DEF Annotates
  <2> QED BY <1>1, <1>2, <1>3, <2>6, <2>7
<1> QED BY <1>4, <1>5, <1>6, <1>7

LEMMA AnnotatesKept ==
  ASSUME NEW f, Sound(f), NEW n \in DOMAIN f.ops, NEW o, o = f.ops[n], NEW new, Annotates(new, o),
         NEW g, g = [f EXCEPT !.ops[n] = new]
  PROVE  Kept(f, g)
<1>1. IsOp(o) /\ WellFormedOp(o)
  BY DEF Sound, WellFormed, IsFunction, Range
<1>2. CASE new = o
  <2>1. WellFormedOp(o) /\ Alike(o, o)
    BY <1>1 DEF Alike
  <2> QED BY <1>2, <2>1, AnnotatedKept
<1>3. CASE new # o
  <2>1. PICK extra : /\ o.kind \in Tiled /\ "epsilon" \notin DOMAIN extra
                     /\ new = [o EXCEPT !.attrs = Joined(extra, o.attrs)]
    BY <1>3 DEF Annotates
  <2>2. /\ new.id = o.id /\ new.kind = o.kind /\ new.args = o.args /\ new.types = o.types
        /\ new.attrs = Joined(extra, o.attrs)
    BY <1>1, <2>1 DEF IsOp, Op
  <2> QED BY <2>1, <2>2, AttributesKept
<1> QED BY <1>2, <1>3

\* A walk that infers types, and is at an op it can infer them for.
LEMMA InferenceIs ==
  ASSUME SourcesInv, InferShapes, ~UNCHANGED ir
  PROVE  /\ phase' = phase /\ pos \in DOMAIN ir.ops
         /\ \E T, r : /\ r = inferReturnTypes(ir.ops[pos], T) /\ r.ok
                      /\ ir' = [ir EXCEPT !.ops[pos].types = r.types]
<1>1. Walking
  BY DEF InferShapes
<1>2. pos \in DOMAIN ir.ops /\ Here = ir.ops[pos]
  BY <1>1, HereIsOp DEF Here
<1>3. PICK T : T = OperandTypes(ir, Here)
  OBVIOUS
<1>4. PICK r : r = inferReturnTypes(ir.ops[pos], T)
  OBVIOUS
<1>5. r.ok /\ ir' = [ir EXCEPT !.ops[pos].types = r.types] /\ phase' = phase
  BY <1>2, <1>3, <1>4 DEF InferShapes
<1> QED BY <1>2, <1>4, <1>5

LEMMA WalkStep ==
  ASSUME SourcesInv, WholeIR, InferShapes \/ InferTileLayout \/ PlanMemory \/ EmitKernelReport
  PROVE  WholeIR'
<1>1. /\ phase = "run" /\ ~Running("canonicalize") /\ UNCHANGED <<source, cmd, at>>
  BY DEF InferShapes, InferTileLayout, PlanMemory, EmitKernelReport, Running
<1>2. PICK f, g : f = ir /\ g = ir'
  OBVIOUS
<1>3. Sound(f)
  BY <1>1, <1>2 DEF SourcesInv, Shaped, WholeIR, Live, Sound
<1>4. CASE UNCHANGED ir
  <2>1. phase' \in {phase, "failed"}
    BY DEF InferShapes, InferTileLayout, PlanMemory, EmitKernelReport
  <2> QED BY <1>1, <1>4, <2>1, StandingStep
<1>5. CASE InferShapes /\ ~UNCHANGED ir
  <2>1. Kept(f, g) /\ phase' = phase
    BY <1>2, <1>3, <1>5, InferenceIs, RetypedKept
  <2> QED BY <1>1, <1>2, <2>1, KeptStep
<1>6. CASE (InferTileLayout \/ PlanMemory \/ EmitKernelReport) /\ ~UNCHANGED ir
  <2>1. Kept(f, g) /\ phase' = phase
    BY <1>2, <1>3, <1>6, AnnotationIs, AnnotatesKept
  <2> QED BY <1>1, <1>2, <2>1, KeptStep
<1> QED BY <1>4, <1>5, <1>6

\* The patterns: the fusion of a masked softmax only where no axis is lost.
LEMMA RewriteStep ==
  ASSUME SourcesInv, AxesKept, WholeIR, NEW o \in Candidates(ir), Rewrite(o)
  PROVE  WholeIR'
<1>1. /\ phase = "run" /\ cmd[at] \in Greedy /\ ir' \in Rewrites(cmd[at], ir, o)
      /\ UNCHANGED <<source, cmd, at, phase>>
  BY DEF Rewrite
<1>2. PICK f, g, pass : f = ir /\ g = ir' /\ pass = cmd[at]
  OBVIOUS
<1>3. Sound(f) /\ o \in Range(f.ops)
  BY <1>1, <1>2 DEF SourcesInv, Shaped, WholeIR, Live, Sound, Candidates
<1>4. ASSUME pass = "fuse-softmax-mask"
      PROVE  NoAxis(f)
  <2>1. at \in DOMAIN cmd
    BY <1>1 DEF SourcesInv, Shaped
  <2>2. "fuse-softmax-mask" \in Range(cmd)
    BY <1>2, <1>4, <2>1 DEF Range
  <2>3. NoAxis(source)
    BY <2>2 DEF AxesKept, NoAxis
  <2> QED BY <1>2, <2>3 DEF WholeIR
<1>5. pass = "canonicalize" => Ordered(f)
  BY <1>1, <1>2 DEF WholeIR, Running
<1>6. Kept(f, g) /\ (pass = "canonicalize" => Ordered(g))
  BY <1>1, <1>2, <1>3, <1>4, <1>5, RewritesKept
<1> QED BY <1>1, <1>2, <1>6, KeptStep DEF Running

LEMMA EraseStep ==
  ASSUME SourcesInv, WholeIR, NEW o \in DeadOps(ir), EraseDead(o)
  PROVE  WholeIR'
<1>1. /\ phase = "run" /\ ir' = Without(ir, {o.id})
      /\ UNCHANGED <<source, cmd, at, phase>>
  BY DEF EraseDead
<1>2. PICK f, g : f = ir /\ g = ir'
  OBVIOUS
<1>3. Sound(f)
  BY <1>1, <1>2 DEF SourcesInv, Shaped, WholeIR, Live, Sound
<1>4. Kept(f, g) /\ (Ordered(f) => Ordered(g))
  BY <1>1, <1>2, <1>3, ErasedKept
<1>5. Running("canonicalize") => Ordered(f)
  BY <1>2 DEF WholeIR
<1> QED BY <1>1, <1>2, <1>4, <1>5, KeptStep

LEMMA StepMeaningInv ==
  ASSUME SourcesInv, MeaningInv, [Next]_vars
  PROVE  MeaningInv'
<1>1. UNCHANGED <<source, cmd>>
  BY DEF Next, Work, Exited, vars, Parse, StartPass, Finish, InferShapes, InferTileLayout, PlanMemory,
         EmitKernelReport, WalkEnds, WriteManifest, Rewrite, EraseDead, GreedyEnds, EmitCuda, EmitHip,
         Emit, LowerEnds, EndPass
<1>2. SUFFICES ASSUME AxesKept, ZerosTyped(source)
               PROVE  WholeIR'
  BY <1>1, SameConditions DEF MeaningInv
<1>3. WholeIR /\ IsFunction(ir)
  BY <1>2 DEF MeaningInv, SourcesInv, Shaped
<1>4. CASE Parse
  <2>1. /\ phase = "parse" /\ UNCHANGED <<source, ir, cmd, at>>
        /\ phase' = IF verify(ir) THEN "idle" ELSE "failed"
    BY <1>4 DEF Parse
  <2>2. CASE ~verify(ir)
    BY <1>3, <2>1, <2>2, StandingStep
  <2>3. CASE verify(ir)
    <3>1. Closed(ir) /\ Faithful /\ Dominates(ir)
      BY <1>2, <1>3, <2>1, <2>3, ParsedIsFaithful DEF WholeIR, verify
    <3>2. UNCHANGED Faithful
      BY <2>1 DEF Faithful
    <3> QED BY <1>3, <2>1, <2>3, <3>1, <3>2 DEF WholeIR, Live, Running
  <2> QED BY <2>2, <2>3
<1>5. CASE StartPass
  <2>1. /\ phase = "idle" /\ phase' = "run" /\ UNCHANGED <<source, ir, cmd, at>>
    BY <1>5 DEF StartPass
  <2>2. Dominates(ir) /\ WellFormed(ir)
    BY <1>3, <2>1 DEF WholeIR
  <2>3. Ordered(ir)
    BY <1>3, <2>2, DominatesClosed
  <2>4. UNCHANGED Faithful
    BY <2>1 DEF Faithful
  <2> QED BY <1>3, <2>1, <2>3, <2>4 DEF WholeIR, Live, Running
<1>6. CASE Finish
  <2>1. /\ phase = "idle" /\ phase' = "done" /\ UNCHANGED <<source, ir, cmd, at>>
    BY <1>6 DEF Finish
  <2>2. UNCHANGED Faithful
    BY <2>1 DEF Faithful
  <2> QED BY <1>3, <2>1, <2>2 DEF WholeIR, Live, Running
<1>7. CASE InferShapes \/ InferTileLayout \/ PlanMemory \/ EmitKernelReport
  BY <1>3, <1>7, WalkStep
<1>8. CASE WalkEnds \/ GreedyEnds \/ LowerEnds
  <2>1. phase = "run" /\ EndPass
    BY <1>8 DEF WalkEnds, GreedyEnds, LowerEnds
  <2> QED BY <1>3, <2>1, EndStep
<1>9. CASE \E w \in Outcomes : WriteManifest(w)
  <2>1. /\ phase = "run"
        /\ EndPass \/ (phase' = "failed" /\ UNCHANGED <<source, ir, cmd>>)
    BY <1>9 DEF WriteManifest, Running
  <2> QED BY <1>3, <2>1, EndStep, StandingStep
<1>10. CASE \E o \in Candidates(ir) : Rewrite(o)
  BY <1>2, <1>3, <1>10, RewriteStep
<1>11. CASE \E o \in DeadOps(ir) : EraseDead(o)
  BY <1>3, <1>11, EraseStep
<1>12. CASE \E w \in Outcomes : EmitCuda(w) \/ EmitHip(w)
  <2>1. UNCHANGED <<source, ir, cmd, at>> /\ phase' \in {phase, "failed"}
    BY <1>12 DEF EmitCuda, EmitHip, Emit
  <2> QED BY <1>3, <2>1, StandingStep
<1>13. CASE UNCHANGED vars
  BY <1>3, <1>13, StandingStep DEF vars
<1> QED BY <1>4, <1>5, <1>6, <1>7, <1>8, <1>9, <1>10, <1>11, <1>12, <1>13 DEF Next, Work, Exited

\* Whatever the passes on the command line are, and in whatever order their
\* patterns are applied, the function returns what the parsed one returns: at
\* every state between passes, for all functions that are well formed.
THEOREM MeaningIsKept == Spec => []MeaningKept
<1>1. Init => MeaningInv
  <2> SUFFICES ASSUME Init PROVE WholeIR
    BY DEF MeaningInv
  <2> QED BY PassesAssumption DEF Init, WholeIR, Live, Running
<1>2. SourcesInv /\ MeaningInv /\ [Next]_vars => MeaningInv'
  BY StepMeaningInv
<1>3. SourcesInv /\ MeaningInv => MeaningKept
  <2> SUFFICES ASSUME SourcesInv, MeaningInv, phase \in {"idle", "done"},
                      AxesKept, ZerosTyped(source)
               PROVE  Meaning(ir) = Meaning(source)
    BY DEF MeaningKept
  <2>1. Dominates(ir) /\ Sound(ir) /\ Faithful
    BY DEF SourcesInv, Shaped, MeaningInv, WholeIR, Live, Sound
  <2>2. PICK M : Models(ir, M) /\ Values(M, ir.ret) = Meaning(source)
    BY <2>1 DEF Faithful
  <2> QED BY <2>1, <2>2, MeaningIs
<1> QED BY <1>1, <1>2, <1>3, SpecSourcesInv, PTL DEF Spec

----------------------------------------------------------------------------
(* The tensors there are, and the records of those that are gone. *)

Records(f) == Tensors(f) \cup Eliminated(f)

\* The tensors of one op, and those it records as eliminated.
TensorsOf(o) == {<<o.id, n, o.types[n]>> : n \in DOMAIN o.types}
RecordOf(o)  == {<<-o.id, n, o.attrs["eliminated"][n]>> : n \in DOMAIN o.attrs["eliminated"]}

LEMMA RecordsAre ==
  ASSUME NEW f, NEW x
  PROVE  /\ x \in Tensors(f) <=> \E o \in Range(f.ops) : x \in TensorsOf(o)
         /\ x \in Eliminated(f) <=>
              \E o \in Range(f.ops) : "eliminated" \in DOMAIN o.attrs /\ x \in RecordOf(o)
<1>1. PICK S : S = {TensorsOf(o) : o \in Range(f.ops)}
  OBVIOUS
<1>2. Tensors(f) = UNION S
  BY <1>1, Zenon DEF Tensors, TensorsOf
<1>3. PICK R : R = {RecordOf(o) : o \in {p \in Range(f.ops) : "eliminated" \in DOMAIN p.attrs}}
  OBVIOUS
<1>4. Eliminated(f) = UNION R
  BY <1>3, Zenon DEF Eliminated, RecordOf
<1>5. x \in UNION S <=> \E o \in Range(f.ops) : x \in TensorsOf(o)
  BY <1>1
<1>6. x \in UNION R <=> \E o \in Range(f.ops) : "eliminated" \in DOMAIN o.attrs /\ x \in RecordOf(o)
  BY <1>3
<1> QED BY <1>2, <1>4, <1>5, <1>6

\* What is counted: one more of a type, and one less.
LEMMA CountedSwap ==
  ASSUME NEW S, IsFiniteSet(S), NEW x \in S, NEW y, y \notin S, y[3] = x[3],
         NEW T, T = (S \ {x}) \cup {y}
  PROVE  IsFiniteSet(T) /\ Counted(T) = Counted(S)
<1>1. IsFiniteSet(T)
  <2>1. IsFiniteSet(S \ {x})
    BY FS_RemoveElement
  <2> QED BY <2>1, FS_AddElement
<1>2. {e[3] : e \in T} = {e[3] : e \in S}
  OBVIOUS
<1>3. ASSUME NEW t
      PROVE  Cardinality({e \in T : e[3] = t}) = Cardinality({e \in S : e[3] = t})
  <2>1. PICK A : A = {e \in S : e[3] = t}
    OBVIOUS
  <2>2. PICK B : B = {e \in T : e[3] = t}
    OBVIOUS
  <2>3. IsFiniteSet(A)
    BY <2>1, FS_Subset
  <2>4. Cardinality(A) \in Nat
    BY <2>3, FS_CardinalityType
  <2>5. CASE x[3] = t
    <3>1. B = (A \ {x}) \cup {y} /\ x \in A /\ y \notin A
      BY <2>1, <2>2, <2>5
    <3>2. PICK C : C = A \ {x}
      OBVIOUS
    <3>3. IsFiniteSet(C) /\ Cardinality(C) = Cardinality(A) - 1
      BY <2>3, <3>1, <3>2, FS_RemoveElement
    <3>4. Cardinality(C \cup {y}) = Cardinality(C) + 1
      BY <3>1, <3>2, <3>3, FS_AddElement
    <3>5. Cardinality(B) = Cardinality(A)
      BY <2>4, <3>1, <3>2, <3>3, <3>4
    <3> QED BY <2>1, <2>2, <3>5, Zenon
  <2>6. CASE x[3] # t
    <3>1. A = B
      BY <2>1, <2>2, <2>6
    <3>2. Cardinality(A) = Cardinality(B)
      BY <3>1
    <3> QED BY <2>1, <2>2, <3>2, Zenon
  <2> QED BY <2>5, <2>6
<1>4. PICK D : D = {e[3] : e \in S}
  OBVIOUS
<1>5. PICK m : m = [t \in D |-> Cardinality({e \in S : e[3] = t})]
  OBVIOUS
<1>6. m = [t \in D |-> Cardinality({e \in T : e[3] = t})]
  BY <1>3, <1>5
<1>7. Counted(S) = m
  BY <1>4, <1>5, Zenon DEF Counted
<1>8. Counted(T) = m
  <2>1. {e[3] : e \in T} = D
    BY <1>2, <1>4
  <2> QED BY <1>6, <2>1, Zenon DEF Counted
<1> QED BY <1>1, <1>7, <1>8

\* A tensor and a record of one say which op they are of.
LEMMA RecordIds ==
  ASSUME NEW o
  PROVE  /\ \A x \in TensorsOf(o) : x[1] = o.id
         /\ \A x \in RecordOf(o) : x[1] = -o.id
BY DEF TensorsOf, RecordOf

LEMMA RecordsDiffer ==
  ASSUME NEW f, Sound(f), NEW o \in Range(f.ops), NEW p \in Range(f.ops), NEW x
  PROVE  /\ x \in TensorsOf(o) /\ x \in TensorsOf(p) => o = p
         /\ x \in RecordOf(o) /\ x \in RecordOf(p) => o = p
         /\ ~(x \in TensorsOf(o) /\ x \in RecordOf(p))
<1>1. o.id \in Nat \ {0} /\ p.id \in Nat \ {0}
  BY DEF Sound, WellFormed, WellFormedOp
<1>2. /\ x \in TensorsOf(o) => x[1] = o.id
      /\ x \in TensorsOf(p) => x[1] = p.id
      /\ x \in RecordOf(o) => x[1] = -o.id
      /\ x \in RecordOf(p) => x[1] = -p.id
  BY RecordIds
<1>3. o.id = p.id => o = p
  BY OneOpPerId DEF Sound
<1> QED BY <1>1, <1>2, <1>3

\* An op that nothing was recorded for gives way to one with a record, and
\* others of which the same is true go.
Absorbing(f, o, new, dead, g) ==
  /\ "eliminated" \notin DOMAIN o.attrs /\ o.id \notin dead
  /\ new.id = o.id /\ new.types = o.types /\ "eliminated" \in DOMAIN new.attrs
  /\ \A p \in Range(f.ops) : p.id \in dead => "eliminated" \notin DOMAIN p.attrs
  /\ Range(g.ops) = {p \in OthersAnd(f, o, new) : p.id \notin dead}

LEMMA FusedRecords ==
  ASSUME NEW f, Sound(f), NEW o \in Range(f.ops), NEW new, NEW dead, NEW g,
         Absorbing(f, o, new, dead, g), NEW x
  PROVE  /\ x \in Records(g) <=>
              \/ /\ x \in Records(f)
                 /\ \A p \in Range(f.ops) : p.id \in dead => x \notin TensorsOf(p)
              \/ x \in RecordOf(new)
         /\ x \in RecordOf(new) => x \notin Records(f)
<1>0. /\ "eliminated" \notin DOMAIN o.attrs /\ o.id \notin dead
      /\ new.id = o.id /\ new.types = o.types /\ "eliminated" \in DOMAIN new.attrs
      /\ \A p \in Range(f.ops) : p.id \in dead => "eliminated" \notin DOMAIN p.attrs
      /\ Range(g.ops) = {p \in OthersAnd(f, o, new) : p.id \notin dead}
  BY DEF Absorbing
<1>1. \A p : p \in Range(g.ops) <=>
               p = new \/ (p \in Range(f.ops) /\ p.id # o.id /\ p.id \notin dead)
  BY <1>0 DEF OthersAnd
<1>2. TensorsOf(new) = TensorsOf(o)
  BY <1>0 DEF TensorsOf
<1>3. \A p \in Range(f.ops) : p.id = o.id => p = o
  BY OneOpPerId DEF Sound
<1>4. ASSUME x \in Tensors(g)
      PROVE  x \in Tensors(f) /\ \A p \in Range(f.ops) : p.id \in dead => x \notin TensorsOf(p)
  <2>1. PICK q \in Range(g.ops) : x \in TensorsOf(q)
    BY <1>4, RecordsAre
  <2>2. PICK r \in Range(f.ops) : x \in TensorsOf(r) /\ r.id \notin dead
    BY <1>0, <1>1, <1>2, <2>1
  <2>3. x \in Tensors(f)
    BY <2>2, RecordsAre
  <2>4. \A p \in Range(f.ops) : x \in TensorsOf(p) => p = r
    BY <2>2, RecordsDiffer
  <2> QED BY <2>2, <2>3, <2>4
<1>5. ASSUME x \in Eliminated(g), x \notin RecordOf(new)
      PROVE  x \in Eliminated(f) /\ \A p \in Range(f.ops) : p.id \in dead => x \notin TensorsOf(p)
  <2>1. PICK q \in Range(g.ops) : "eliminated" \in DOMAIN q.attrs /\ x \in RecordOf(q)
    BY <1>5, RecordsAre
  <2>2. q \in Range(f.ops)
    BY <1>1, <1>5, <2>1
  <2>3. x \in Eliminated(f)
    BY <2>1, <2>2, RecordsAre
  <2>4. \A p \in Range(f.ops) : x \notin TensorsOf(p)
    BY <2>1, <2>2, RecordsDiffer
  <2> QED BY <2>3, <2>4
<1>6. ASSUME x \in Tensors(f), \A p \in Range(f.ops) : p.id \in dead => x \notin TensorsOf(p)
      PROVE  x \in Tensors(g)
  <2>1. PICK q \in Range(f.ops) : x \in TensorsOf(q)
    BY <1>6, RecordsAre
  <2>2. q.id \notin dead
    BY <1>6, <2>1
  <2>3. \E p \in Range(g.ops) : x \in TensorsOf(p)
    BY <1>1, <1>2, <1>3, <2>1, <2>2
  <2> QED BY <2>3, RecordsAre
<1>7. ASSUME x \in Eliminated(f)
      PROVE  x \in Eliminated(g)
  <2>1. PICK q \in Range(f.ops) : "eliminated" \in DOMAIN q.attrs /\ x \in RecordOf(q)
    BY <1>7, RecordsAre
  <2>2. q \in Range(g.ops)
    BY <1>0, <1>1, <1>3, <2>1
  <2> QED BY <2>1, <2>2, RecordsAre
<1>8. ASSUME x \in RecordOf(new)
      PROVE  x \in Eliminated(g)
  <2>1. new \in Range(g.ops)
    BY <1>1
  <2> QED BY <1>0, <1>8, <2>1, RecordsAre
<1>9. ASSUME x \in RecordOf(new)
      PROVE  x \notin Records(f)
  <2>1. x[1] = -o.id
    BY <1>0, <1>9, RecordIds
  <2>2. o.id \in Nat \ {0}
    BY DEF Sound, WellFormed, WellFormedOp
  <2>3. ASSUME x \in Tensors(f)
        PROVE  FALSE
    <3>1. PICK q \in Range(f.ops) : x \in TensorsOf(q)
      BY <2>3, RecordsAre
    <3>2. x[1] = q.id /\ q.id \in Nat
      BY <3>1, RecordIds DEF Sound, WellFormed, WellFormedOp
    <3> QED BY <2>1, <2>2, <3>2
  <2>4. ASSUME x \in Eliminated(f)
        PROVE  FALSE
    <3>1. PICK q \in Range(f.ops) : "eliminated" \in DOMAIN q.attrs /\ x \in RecordOf(q)
      BY <2>4, RecordsAre
    <3>2. x[1] = -q.id /\ q.id \in Nat
      BY <3>1, RecordIds DEF Sound, WellFormed, WellFormedOp
    <3>3. q = o
      BY <1>3, <2>1, <2>2, <3>2
    <3> QED BY <1>0, <3>1, <3>3
  <2> QED BY <2>3, <2>4 DEF Records
<1> QED BY <1>4, <1>5, <1>6, <1>7, <1>8, <1>9 DEF Records

LEMMA OneFused ==
  ASSUME NEW f, Sound(f), NEW o \in Range(f.ops), "eliminated" \notin DOMAIN o.attrs,
         NEW d \in Range(f.ops), d.id # o.id, "eliminated" \notin DOMAIN d.attrs, resultCount(d.kind) = 1,
         NEW new, new.id = o.id, new.types = o.types,
         "eliminated" \in DOMAIN new.attrs, new.attrs["eliminated"] = d.types,
         NEW g, Range(g.ops) = {p \in OthersAnd(f, o, new) : p.id \notin {d.id}},
         IsFiniteSet(Records(f))
  PROVE  IsFiniteSet(Records(g)) /\ Counted(Records(g)) = Counted(Records(f))
<1>1. \A p \in Range(f.ops) : p.id \in {d.id} => p = d
  BY OneOpPerId DEF Sound
<1>2. DOMAIN d.types = {1}
  <2>1. d.types = [n \in 1..1 |-> d.types[n]]
    BY DEF Sound, WellFormed, WellFormedOp
  <2> QED BY <2>1
<1>3. PICK t : t = d.types[1]
  OBVIOUS
<1>4. PICK x, y : x = <<d.id, 1, t>> /\ y = <<-o.id, 1, t>>
  OBVIOUS
<1>5. TensorsOf(d) = {x}
  BY <1>2, <1>3, <1>4 DEF TensorsOf
<1>6. RecordOf(new) = {y}
  BY <1>2, <1>3, <1>4 DEF RecordOf
<1>7. x \in Records(f)
  <2>1. x \in Tensors(f)
    BY <1>5, RecordsAre
  <2> QED BY <2>1 DEF Records
<1>8. PICK S, T : S = Records(f) /\ T = Records(g)
  OBVIOUS
<1>9. ASSUME NEW z
      PROVE  /\ z \in T <=> (z \in S /\ z # x) \/ z = y
             /\ y \notin S
  <2>1. PICK dead : dead = {d.id}
    OBVIOUS
  <2>2. Absorbing(f, o, new, dead, g)
    BY <1>1, <2>1 DEF Absorbing
  <2>3. \A w : /\ w \in T <=> \/ /\ w \in S
                               /\ \A p \in Range(f.ops) : p.id \in dead => w \notin TensorsOf(p)
                            \/ w \in RecordOf(new)
               /\ w \in RecordOf(new) => w \notin S
    BY <1>8, <2>2, FusedRecords
  <2>4. \A w : (\A p \in Range(f.ops) : p.id \in dead => w \notin TensorsOf(p)) <=> w # x
    BY <1>1, <1>5, <2>1
  <2> QED BY <1>6, <2>3, <2>4
<1>10. T = (S \ {x}) \cup {y}
  BY <1>9
<1>11. IsFiniteSet(S) /\ x \in S /\ y \notin S /\ y[3] = x[3]
  BY <1>4, <1>7, <1>8, <1>9
<1>12. IsFiniteSet(T) /\ Counted(T) = Counted(S)
  BY <1>10, <1>11, CountedSwap
<1> QED BY <1>8, <1>12

\* An op gives way to one that records the types of two others, which go.
AbsorbingTwo(f, o, d, e, new, dead, g) ==
  /\ "eliminated" \notin DOMAIN o.attrs
  /\ d.id # o.id /\ "eliminated" \notin DOMAIN d.attrs /\ resultCount(d.kind) = 1
  /\ e.id # o.id /\ "eliminated" \notin DOMAIN e.attrs /\ resultCount(e.kind) = 1
  /\ d.id # e.id /\ dead = {e.id, d.id}
  /\ new.id = o.id /\ new.types = o.types
  /\ "eliminated" \in DOMAIN new.attrs /\ new.attrs["eliminated"] = d.types \o e.types
  /\ Range(g.ops) = {p \in OthersAnd(f, o, new) : p.id \notin dead}

LEMMA TwoFused ==
  ASSUME NEW f, Sound(f), NEW o \in Range(f.ops), NEW d \in Range(f.ops), NEW e \in Range(f.ops),
         NEW new, NEW dead, NEW g, AbsorbingTwo(f, o, d, e, new, dead, g),
         IsFiniteSet(Records(f))
  PROVE  IsFiniteSet(Records(g)) /\ Counted(Records(g)) = Counted(Records(f))
<1>0. /\ "eliminated" \notin DOMAIN o.attrs
      /\ d.id # o.id /\ "eliminated" \notin DOMAIN d.attrs /\ resultCount(d.kind) = 1
      /\ e.id # o.id /\ "eliminated" \notin DOMAIN e.attrs /\ resultCount(e.kind) = 1
      /\ d.id # e.id /\ dead = {e.id, d.id}
      /\ new.id = o.id /\ new.types = o.types
      /\ "eliminated" \in DOMAIN new.attrs /\ new.attrs["eliminated"] = d.types \o e.types
      /\ Range(g.ops) = {p \in OthersAnd(f, o, new) : p.id \notin dead}
  BY DEF AbsorbingTwo
<1>1. \A p \in Range(f.ops) : p.id \in dead <=> p = d \/ p = e
  BY <1>0, OneOpPerId DEF Sound
<1>2. IsList(d.types, 1) /\ IsList(e.types, 1)
  BY <1>0 DEF Sound, WellFormed, WellFormedOp, IsList
<1>3. PICK t, u : t = d.types[1] /\ u = e.types[1]
  OBVIOUS
<1>4. d.types \o e.types = <<t, u>>
  <2>1. PICK c : c = <<t, u>>
    OBVIOUS
  <2>2. IsList(c, 2) /\ c[1] = t /\ c[2] = u
    BY <2>1 DEF IsList
  <2>3. PICK a, b : a = d.types /\ b = e.types
    OBVIOUS
  <2>4. IsList(a, 1) /\ IsList(b, 1) /\ IsList(c, 1 + 1)
    BY <1>2, <2>2, <2>3
  <2>5. (\A i \in 1..1 : a[i] = c[i]) /\ (\A i \in 1..1 : b[i] = c[1 + i])
    BY <1>3, <2>2, <2>3
  <2>6. a \o b = c
    BY <2>4, <2>5, JoinIs
  <2> QED BY <2>1, <2>3, <2>6
<1>5. PICK x, y : x = <<d.id, 1, t>> /\ y = <<-o.id, 1, t>>
  OBVIOUS
<1>6. PICK v, w : v = <<e.id, 1, u>> /\ w = <<-o.id, 2, u>>
  OBVIOUS
<1>7. TensorsOf(d) = {x} /\ TensorsOf(e) = {v}
  <2>1. DOMAIN d.types = {1} /\ DOMAIN e.types = {1}
    BY <1>2 DEF IsList
  <2> QED BY <1>3, <1>5, <1>6, <2>1 DEF TensorsOf
<1>8. RecordOf(new) = {y, w}
  <2>1. PICK c : c = <<t, u>>
    OBVIOUS
  <2>2. new.attrs["eliminated"] = c
    BY <1>0, <1>4, <2>1
  <2>3. DOMAIN c = {1, 2} /\ c[1] = t /\ c[2] = u
    BY <2>1
  <2>4. RecordOf(new) = {<<-o.id, n, c[n]>> : n \in DOMAIN c}
    <3>1. new.id = o.id
      BY <1>0
    <3> QED BY <2>2, <3>1 DEF RecordOf
  <2> QED BY <1>5, <1>6, <2>3, <2>4
<1>9. x \in Records(f) /\ v \in Records(f)
  <2>1. x \in Tensors(f) /\ v \in Tensors(f)
    BY <1>7, RecordsAre
  <2> QED BY <2>1 DEF Records
<1>10. PICK S, T : S = Records(f) /\ T = Records(g)
  OBVIOUS
<1>11. /\ \A z : z \in T <=> (z \in S /\ z # x /\ z # v) \/ z = y \/ z = w
       /\ y \notin S /\ w \notin S
  <2>1. Absorbing(f, o, new, dead, g)
    BY <1>0, <1>1 DEF Absorbing
  <2>2. ASSUME NEW z
        PROVE  /\ z \in Records(g) <=>
                    \/ /\ z \in Records(f)
                       /\ \A p \in Range(f.ops) : p.id \in dead => z \notin TensorsOf(p)
                    \/ z \in RecordOf(new)
               /\ z \in RecordOf(new) => z \notin Records(f)
    BY <2>1, FusedRecords
  <2>3. \A z : (\A p \in Range(f.ops) : p.id \in dead => z \notin TensorsOf(p)) <=> z # x /\ z # v
    BY <1>1, <1>7
  <2> QED BY <1>8, <1>10, <2>2, <2>3
<1>12. PICK U : U = (S \ {x}) \cup {y}
  OBVIOUS
<1>13. IsFiniteSet(U) /\ Counted(U) = Counted(S)
  <2>1. IsFiniteSet(S) /\ x \in S /\ y \notin S /\ y[3] = x[3]
    BY <1>5, <1>9, <1>10, <1>11
  <2> QED BY <1>12, <2>1, CountedSwap
<1>14. IsFiniteSet(T) /\ Counted(T) = Counted(U)
  <2>1. x # v /\ y # w
    BY <1>0, <1>5, <1>6
  <2>2. v \in U /\ w \notin U
    BY <1>9, <1>10, <1>11, <1>12, <2>1
  <2>3. T = (U \ {v}) \cup {w}
    <3>1. y # v /\ x # y
      BY <1>9, <1>10, <1>11
    <3> QED BY <1>11, <1>12, <2>1, <3>1
  <2>4. w[3] = v[3]
    BY <1>6
  <2> QED BY <1>13, <2>2, <2>3, <2>4, CountedSwap
<1> QED BY <1>10, <1>13, <1>14

----------------------------------------------------------------------------
(* Every op is read. *)

AllRead(f) == \A o \in Range(f.ops) : \E n \in DOMAIN o.types : ~NoUse(f, <<o.id, n>>)

LEMMA NoDeadOps ==
  ASSUME NEW f, Sound(f)
  PROVE  DeadOps(f) = {} <=> AllRead(f)
<1>1. ASSUME NEW v, NoUse(f, v)
      PROVE  hasNUses(f, v, 0)
  <2>1. UsedAs(0, f.ret, v) = {}
    BY <1>1 DEF NoUse, UsedAs
  <2>2. \A o \in Range(f.ops) : UsedAs(o.id, o.args, v) = {}
    BY <1>1 DEF NoUse, UsedAs
  <2>3. PICK all : all = {UsedAs(o.id, o.args, v) : o \in Range(f.ops)}
    OBVIOUS
  <2>4. \A T \in all : T = {}
    BY <2>2, <2>3
  <2>5. Uses(f, v) = (UNION all) \cup UsedAs(0, f.ret, v)
    BY <2>3, UsesAre
  <2>6. Uses(f, v) = {}
    BY <2>1, <2>4, <2>5
  <2> QED BY <2>6, FS_EmptySet DEF hasNUses
<1>2. ASSUME NEW v
      PROVE  hasNUses(f, v, 0) <=> NoUse(f, v)
  BY <1>1, NoUses
<1>3. \A o \in Range(f.ops) : o \in DeadOps(f) <=> \A n \in DOMAIN o.types : NoUse(f, <<o.id, n>>)
  BY <1>2 DEF DeadOps
<1>4. DeadOps(f) \in SUBSET Range(f.ops)
  BY DEF DeadOps
<1> QED BY <1>3, <1>4 DEF AllRead

LEMMA FusedAllRead ==
  ASSUME NEW f, Sound(f), AllRead(f), NEW o \in Range(f.ops),
         NEW new, new.id = o.id, new.types = o.types,
         NEW dead, Unread(f, o, new, dead), Rereads(f, o, new, dead),
         NEW g, HasOps(g, {p \in OthersAnd(f, o, new) : p.id \notin dead}, f.ret)
  PROVE  AllRead(g)
<1>1. /\ g.ret = f.ret /\ o.id \notin dead
      /\ \A p : p \in Range(g.ops) <=>
           p = new \/ (p \in Range(f.ops) /\ p.id # o.id /\ p.id \notin dead)
  BY DEF HasOps, OthersAnd, Unread
<1>2. ASSUME NEW v, v[1] \notin dead, ~NoUse(f, v)
      PROVE  ~NoUse(g, v)
  <2>1. CASE \E k \in DOMAIN f.ret : f.ret[k] = v
    BY <1>1, <2>1 DEF NoUse
  <2>2. CASE \E p \in Range(f.ops) : \E k \in DOMAIN p.args : p.args[k] = v
    <3>1. PICK p \in Range(f.ops) : \E k \in DOMAIN p.args : p.args[k] = v
      BY <2>2
    <3>2. PICK k \in DOMAIN p.args : p.args[k] = v
      BY <3>1
    <3>3. CASE p.id \in dead \cup {o.id}
      <4>1. \E n \in DOMAIN new.args : new.args[n] = v
        BY <1>2, <3>2, <3>3 DEF Rereads
      <4> QED BY <1>1, <4>1 DEF NoUse
    <3>4. CASE p.id \notin dead \cup {o.id}
      BY <1>1, <3>2, <3>4 DEF NoUse
    <3> QED BY <3>3, <3>4
  <2> QED BY <1>2, <2>1, <2>2 DEF NoUse
<1>3. ASSUME NEW p \in Range(g.ops)
      PROVE  \E n \in DOMAIN p.types : ~NoUse(g, <<p.id, n>>)
  <2>1. PICK q \in Range(f.ops) : q.id = p.id /\ q.types = p.types /\ q.id \notin dead
    BY <1>1
  <2>2. PICK n \in DOMAIN q.types : ~NoUse(f, <<q.id, n>>)
    BY DEF AllRead
  <2>3. PICK v : v = <<q.id, n>>
    OBVIOUS
  <2>4. v[1] \notin dead /\ ~NoUse(f, v)
    BY <2>1, <2>2, <2>3
  <2>5. ~NoUse(g, v)
    BY <1>2, <2>4
  <2> QED BY <2>1, <2>3, <2>5
<1> QED BY <1>3 DEF AllRead

----------------------------------------------------------------------------
(* The fusions account for what they eliminate. *)

\* No op that a fusion could absorb has a record of its own: only fused ops do.
Absorbable == {"matmul", "rmsnorm", "gelu", "softmax", "add", "bias"}
Unrecorded(f) == \A o \in Range(f.ops) : o.kind \in Absorbable => "eliminated" \notin DOMAIN o.attrs

Accounts(f, g) ==
  AllRead(f) /\ IsFiniteSet(Records(f)) =>
     AllRead(g) /\ IsFiniteSet(Records(g)) /\ Counted(Records(g)) = Counted(Records(f))

Carried(f, g) == WellFormed(g) /\ Closed(g) /\ Unrecorded(g) /\ Accounts(f, g)

\* What is left when o has given way to new and the dead ops are gone.
Leaves(f, o, new, dead, g) ==
  /\ new.id = o.id /\ new.types = o.types /\ "eliminated" \in DOMAIN new.attrs
  /\ o.kind \in Absorbable /\ new.kind \notin Absorbable
  /\ Unread(f, o, new, dead) /\ Rereads(f, o, new, dead)
  /\ HasOps(g, {p \in OthersAnd(f, o, new) : p.id \notin dead}, f.ret)

LEMMA FusionLeaves ==
  ASSUME NEW f, Sound(f), NEW o \in Range(f.ops), o.kind \in Absorbable,
         NEW kind \in Kinds \ (Absorbable \cup {"constant"}), resultCount(kind) = 1,
         NEW args \in Seq(Nat \X Nat), Len(args) = operandCount(kind),
         NEW attrs, "eliminated" \in DOMAIN attrs, NEW dead,
         NEW new, new = Op(o.id, kind, args, o.types, attrs),
         Unread(f, o, new, dead), Rereads(f, o, new, dead),
         NEW g, g = ReplaceOp(f, o, kind, args, attrs, dead)
  PROVE  Leaves(f, o, new, dead, g)
<1>1. new.id = o.id /\ new.kind = kind /\ new.types = o.types /\ new.attrs = attrs
  BY DEF Op
<1>2. resultCount(o.kind) = 1
  BY Counts DEF Absorbable
<1>3. WellFormedOp(new)
  BY <1>2, ReplacingOp
<1>4. HasOps(g, {p \in OthersAnd(f, o, new) : p.id \notin dead}, f.ret)
  BY <1>3, ReplaceOpOps
<1> QED BY <1>1, <1>4 DEF Leaves

LEMMA LeavesCarried ==
  ASSUME NEW f, Sound(f), Unrecorded(f), NEW o \in Range(f.ops), NEW new, NEW dead, NEW g,
         Leaves(f, o, new, dead, g)
  PROVE  /\ WellFormed(g) /\ Closed(g) /\ Unrecorded(g) /\ (AllRead(f) => AllRead(g))
         /\ Range(g.ops) = {p \in OthersAnd(f, o, new) : p.id \notin dead}
         /\ "eliminated" \notin DOMAIN o.attrs
<1>1. /\ new.id = o.id /\ new.types = o.types /\ o.kind \in Absorbable /\ new.kind \notin Absorbable
      /\ Unread(f, o, new, dead) /\ Rereads(f, o, new, dead)
      /\ HasOps(g, {p \in OthersAnd(f, o, new) : p.id \notin dead}, f.ret)
  BY DEF Leaves
<1>2. WellFormed(g) /\ Closed(g)
  BY <1>1, ReplacedClosed
<1>3. AllRead(f) => AllRead(g)
  BY <1>1, FusedAllRead
<1>4. Range(g.ops) = {p \in OthersAnd(f, o, new) : p.id \notin dead}
  BY <1>1 DEF HasOps
<1>5. Unrecorded(g)
  BY <1>1, <1>4 DEF Unrecorded, OthersAnd
<1> QED BY <1>1, <1>2, <1>3, <1>4, <1>5 DEF Unrecorded

LEMMA OneCarried ==
  ASSUME NEW f, Sound(f), Unrecorded(f), NEW o \in Range(f.ops),
         NEW d \in Range(f.ops), d.kind \in Absorbable,
         NEW new, new.attrs["eliminated"] = d.types, NEW g, Leaves(f, o, new, {d.id}, g)
  PROVE  Carried(f, g)
<1>1. /\ WellFormed(g) /\ Closed(g) /\ Unrecorded(g) /\ (AllRead(f) => AllRead(g))
      /\ Range(g.ops) = {p \in OthersAnd(f, o, new) : p.id \notin {d.id}}
      /\ "eliminated" \notin DOMAIN o.attrs
  BY LeavesCarried
<1>2. /\ new.id = o.id /\ new.types = o.types /\ "eliminated" \in DOMAIN new.attrs
      /\ o.id \notin {d.id}
  BY DEF Leaves, Unread
<1>3. resultCount(d.kind) = 1
  BY Counts DEF Absorbable
<1>4. "eliminated" \notin DOMAIN d.attrs
  BY DEF Unrecorded
<1>5. IsFiniteSet(Records(f)) => IsFiniteSet(Records(g)) /\ Counted(Records(g)) = Counted(Records(f))
  BY <1>1, <1>2, <1>3, <1>4, OneFused
<1> QED BY <1>1, <1>5 DEF Carried, Accounts

\* The types of the ops a fusion absorbs are recorded, whatever else is carried.
LEMMA RecordedTypes ==
  ASSUME NEW d, NEW name, NEW types, NEW attrs, attrs = Joined(CarryEpsilon(d), FusedFrom(name, types))
  PROVE  "eliminated" \in DOMAIN attrs /\ attrs["eliminated"] = types
<1>1. PICK a, b : a = CarryEpsilon(d) /\ b = FusedFrom(name, types)
  OBVIOUS
<1>2. "eliminated" \notin DOMAIN a
  BY <1>1 DEF CarryEpsilon
<1>3. "eliminated" \in DOMAIN b /\ b["eliminated"] = types
  BY <1>1 DEF FusedFrom
<1>4. attrs = Joined(a, b)
  BY <1>1
<1> QED BY <1>2, <1>3, <1>4 DEF Joined

LEMMA RmsnormMatmulCarried ==
  ASSUME NEW f, Sound(f), Unrecorded(f), NEW o \in Range(f.ops), NEW g \in FuseRmsnormMatmulPattern(f, o)
  PROVE  Carried(f, g)
<1>1. PICK rms : rms = Def(f, o.args[1])
  OBVIOUS
<1>2. PICK attrs : attrs = Joined(CarryEpsilon(rms), FusedFrom("rmsnorm_matmul", rms.types))
  OBVIOUS
<1>3. PICK args : args = <<rms.args[1], o.args[2]>>
  OBVIOUS
<1>4. PICK new : new = Op(o.id, "fused_rmsnorm_matmul", args, o.types, attrs)
  OBVIOUS
<1>5. /\ o.kind = "matmul" /\ rms.kind = "rmsnorm" /\ hasNUses(f, Result(rms), 1)
      /\ g = ReplaceOp(f, o, "fused_rmsnorm_matmul", args, attrs, {rms.id})
  BY <1>1, <1>2, <1>3 DEF FuseRmsnormMatmulPattern
<1>6. new.args = args /\ new.attrs = attrs
  BY <1>4 DEF Op
<1>7. /\ rms \in Range(f.ops) /\ args \in Seq(Nat \X Nat) /\ Len(args) = 2
      /\ Unread(f, o, new, {rms.id}) /\ Rereads(f, o, new, {rms.id})
  <2>1. new.args = <<rms.args[1], o.args[2]>>
    BY <1>3, <1>6
  <2>2. /\ Produces(f, rms, o, 1) /\ new.args \in Seq(Nat \X Nat) /\ Len(new.args) = 2
        /\ Unread(f, o, new, {rms.id}) /\ Rereads(f, o, new, {rms.id})
    BY <1>1, <1>5, <2>1, RmsnormMatmulReads
  <2> QED BY <1>6, <2>2 DEF Produces
<1>8. "eliminated" \in DOMAIN attrs /\ attrs["eliminated"] = rms.types
  BY <1>2, RecordedTypes
<1>9. operandCount("fused_rmsnorm_matmul") = 2 /\ resultCount("fused_rmsnorm_matmul") = 1
  BY Counts
<1>10. "fused_rmsnorm_matmul" \in Kinds \ (Absorbable \cup {"constant"}) /\ o.kind \in Absorbable
  BY <1>5 DEF Kinds, Absorbable
<1>11. Leaves(f, o, new, {rms.id}, g)
  BY <1>4, <1>5, <1>7, <1>8, <1>9, <1>10, FusionLeaves
<1>12. rms.kind \in Absorbable
  BY <1>5 DEF Absorbable
<1> QED BY <1>6, <1>7, <1>8, <1>11, <1>12, OneCarried

LEMMA AbsorbedCarried ==
  ASSUME NEW f, Sound(f), Unrecorded(f), NEW o \in Range(f.ops), o.kind \in {"rmsnorm", "softmax"},
         NEW add, add = Def(f, o.args[1]), add.kind = "add", hasNUses(f, Result(add), 1),
         NEW kind \in {"fused_residual_rmsnorm", "fused_softmax_mask"},
         NEW attrs, "eliminated" \in DOMAIN attrs, attrs["eliminated"] = add.types,
         NEW g, g = ReplaceOp(f, o, kind, add.args, attrs, {add.id})
  PROVE  Carried(f, g)
<1>1. PICK new : new = Op(o.id, kind, add.args, o.types, attrs)
  OBVIOUS
<1>2. new.args = add.args /\ new.attrs = attrs
  BY <1>1 DEF Op
<1>3. DOMAIN o.args = 1..1
  <2>1. operandCount(o.kind) = 1
    BY Counts
  <2>2. DOMAIN o.args = 1..operandCount(o.kind)
    BY OperandsOf
  <2> QED BY <2>1, <2>2
<1>4. /\ add \in Range(f.ops) /\ add.args \in Seq(Nat \X Nat) /\ Len(add.args) = 2
      /\ Unread(f, o, new, {add.id}) /\ Rereads(f, o, new, {add.id})
  BY <1>2, <1>3, AbsorbedReads DEF Produces
<1>5. operandCount(kind) = 2 /\ resultCount(kind) = 1
  BY Counts
<1>6. kind \in Kinds \ (Absorbable \cup {"constant"}) /\ o.kind \in Absorbable /\ add.kind \in Absorbable
  BY DEF Kinds, Absorbable
<1>7. Leaves(f, o, new, {add.id}, g)
  BY <1>1, <1>4, <1>5, <1>6, FusionLeaves
<1> QED BY <1>2, <1>4, <1>6, <1>7, OneCarried

LEMMA ResidualRmsnormCarried ==
  ASSUME NEW f, Sound(f), Unrecorded(f), NEW o \in Range(f.ops), NEW g \in FuseResidualRmsnormPattern(f, o)
  PROVE  Carried(f, g)
<1>1. PICK add : add = Def(f, o.args[1])
  OBVIOUS
<1>2. PICK attrs : attrs = Joined(CarryEpsilon(o), FusedFrom("residual_rmsnorm", add.types))
  OBVIOUS
<1>3. /\ o.kind = "rmsnorm" /\ add.kind = "add" /\ hasNUses(f, Result(add), 1)
      /\ g = ReplaceOp(f, o, "fused_residual_rmsnorm", add.args, attrs, {add.id})
  BY <1>1, <1>2 DEF FuseResidualRmsnormPattern
<1>4. "eliminated" \in DOMAIN attrs /\ attrs["eliminated"] = add.types
  BY <1>2, RecordedTypes
<1> QED BY <1>1, <1>3, <1>4, AbsorbedCarried

LEMMA SoftmaxMaskCarried ==
  ASSUME NEW f, Sound(f), Unrecorded(f), NEW o \in Range(f.ops), NEW g \in FuseSoftmaxMaskPattern(f, o)
  PROVE  Carried(f, g)
<1>1. PICK add : add = Def(f, o.args[1])
  OBVIOUS
<1>2. PICK attrs : attrs = FusedFrom("softmax_mask", add.types)
  OBVIOUS
<1>3. /\ o.kind = "softmax" /\ add.kind = "add" /\ hasNUses(f, Result(add), 1)
      /\ g = ReplaceOp(f, o, "fused_softmax_mask", add.args, attrs, {add.id})
  BY <1>1, <1>2 DEF FuseSoftmaxMaskPattern
<1>4. "eliminated" \in DOMAIN attrs /\ attrs["eliminated"] = add.types
  BY <1>2 DEF FusedFrom
<1> QED BY <1>1, <1>3, <1>4, AbsorbedCarried

LEMMA MatmulBiasGeluCarried ==
  ASSUME NEW f, Sound(f), Unrecorded(f), NEW o \in Range(f.ops), NEW g \in FuseMatmulBiasGeluPattern(f, o)
  PROVE  Carried(f, g)
<1>1. PICK bias : bias = Def(f, o.args[1])
  OBVIOUS
<1>2. PICK mm : mm = Def(f, bias.args[1])
  OBVIOUS
<1>3. PICK attrs : attrs = FusedFrom("matmul_bias_gelu", mm.types \o bias.types)
  OBVIOUS
<1>4. PICK args : args = <<mm.args[1], mm.args[2], bias.args[2]>>
  OBVIOUS
<1>5. PICK new : new = Op(o.id, "fused_matmul_bias_gelu", args, o.types, attrs)
  OBVIOUS
<1>6. PICK dead : dead = {bias.id, mm.id}
  OBVIOUS
<1>7. /\ o.kind = "gelu" /\ bias.kind = "bias" /\ mm.kind = "matmul"
      /\ hasNUses(f, Result(mm), 1) /\ hasNUses(f, Result(bias), 1)
      /\ g = ReplaceOp(f, o, "fused_matmul_bias_gelu", args, attrs, dead)
  BY <1>1, <1>2, <1>3, <1>4, <1>6 DEF FuseMatmulBiasGeluPattern
<1>8. new.args = args /\ new.attrs = attrs
  BY <1>5 DEF Op
<1>9. /\ bias \in Range(f.ops) /\ mm \in Range(f.ops)
      /\ args \in Seq(Nat \X Nat) /\ Len(args) = 3
      /\ Unread(f, o, new, dead) /\ Rereads(f, o, new, dead)
  <2>1. BiasedMatmul(f, o, bias, mm, new, dead)
    BY <1>1, <1>2, <1>4, <1>6, <1>7, <1>8 DEF BiasedMatmul
  <2>2. /\ Produces(f, bias, o, 1) /\ Produces(f, mm, bias, 1)
        /\ new.args \in Seq(Nat \X Nat) /\ Len(new.args) = 3
        /\ Unread(f, o, new, dead) /\ Rereads(f, o, new, dead)
    BY <2>1, MatmulBiasGeluReads
  <2> QED BY <1>8, <2>2 DEF Produces
<1>10. "eliminated" \in DOMAIN attrs /\ attrs["eliminated"] = mm.types \o bias.types
  BY <1>3 DEF FusedFrom
<1>11. operandCount("fused_matmul_bias_gelu") = 3 /\ resultCount("fused_matmul_bias_gelu") = 1
  BY Counts
<1>12. "fused_matmul_bias_gelu" \in Kinds \ (Absorbable \cup {"constant"})
  BY DEF Kinds, Absorbable
<1>13. o.kind \in Absorbable /\ bias.kind \in Absorbable /\ mm.kind \in Absorbable
  BY <1>7 DEF Absorbable
<1>14. Leaves(f, o, new, dead, g)
  BY <1>5, <1>7, <1>9, <1>10, <1>11, <1>12, <1>13, FusionLeaves
<1>15. /\ WellFormed(g) /\ Closed(g) /\ Unrecorded(g) /\ (AllRead(f) => AllRead(g))
       /\ Range(g.ops) = {p \in OthersAnd(f, o, new) : p.id \notin dead}
       /\ "eliminated" \notin DOMAIN o.attrs
  BY <1>14, LeavesCarried
<1>16. ASSUME IsFiniteSet(Records(f))
       PROVE  IsFiniteSet(Records(g)) /\ Counted(Records(g)) = Counted(Records(f))
  <2>1. /\ new.id = o.id /\ new.types = o.types /\ "eliminated" \in DOMAIN new.attrs
        /\ new.attrs["eliminated"] = mm.types \o bias.types
    BY <1>8, <1>10, <1>14 DEF Leaves
  <2>2. mm.id # o.id /\ bias.id # o.id
    BY <1>6, <1>9 DEF Unread
  <2>3. mm.id # bias.id
    <3>1. mm # bias
      BY <1>7
    <3> QED BY <1>9, <3>1, OneOpPerId DEF Sound
  <2>4. resultCount(mm.kind) = 1 /\ resultCount(bias.kind) = 1
    BY <1>7, Counts
  <2>5. "eliminated" \notin DOMAIN mm.attrs /\ "eliminated" \notin DOMAIN bias.attrs
    BY <1>9, <1>13 DEF Unrecorded
  <2>6. AbsorbingTwo(f, o, mm, bias, new, dead, g)
    BY <1>6, <1>15, <2>1, <2>2, <2>3, <2>4, <2>5 DEF AbsorbingTwo
  <2> QED BY <1>9, <1>16, <2>6, TwoFused
<1> QED BY <1>15, <1>16 DEF Carried, Accounts

----------------------------------------------------------------------------
(* The walks leave the tensors and their records alone. *)

\* An op and what it is annotated to differ in attributes that record nothing.
SameRecords(o, new) ==
  /\ new.id = o.id /\ new.kind = o.kind /\ new.args = o.args /\ new.types = o.types
  /\ "eliminated" \in DOMAIN new.attrs <=> "eliminated" \in DOMAIN o.attrs
  /\ "eliminated" \in DOMAIN o.attrs => new.attrs["eliminated"] = o.attrs["eliminated"]

LEMMA AnnotatesRecords ==
  ASSUME NEW o, IsOp(o), NEW new, Annotates(new, o)
  PROVE  SameRecords(o, new)
<1>1. CASE new = o
  BY <1>1 DEF SameRecords
<1>2. CASE new # o
  <2>1. PICK extra : "eliminated" \notin DOMAIN extra /\ new = [o EXCEPT !.attrs = Joined(extra, o.attrs)]
    BY <1>2 DEF Annotates
  <2>2. /\ new.id = o.id /\ new.kind = o.kind /\ new.args = o.args /\ new.types = o.types
        /\ new.attrs = Joined(extra, o.attrs)
    BY <2>1 DEF IsOp, Op
  <2>3. PICK a, b : a = o.attrs /\ b = new.attrs
    OBVIOUS
  <2>4. /\ "eliminated" \in DOMAIN b <=> "eliminated" \in DOMAIN a
        /\ "eliminated" \in DOMAIN a => b["eliminated"] = a["eliminated"]
    BY <2>1, <2>2, <2>3 DEF Joined
  <2> QED BY <2>2, <2>3, <2>4 DEF SameRecords
<1> QED BY <1>1, <1>2

LEMMA SameRecordsKept ==
  ASSUME NEW f, Sound(f), NEW o \in Range(f.ops), NEW new, SameRecords(o, new),
         NEW g, HasOps(g, OthersAnd(f, o, new), f.ret)
  PROVE  /\ Records(g) = Records(f) /\ (AllRead(f) => AllRead(g))
         /\ Unrecorded(f) => Unrecorded(g)
<1>1. /\ g.ret = f.ret
      /\ \A p : p \in Range(g.ops) <=> p = new \/ (p \in Range(f.ops) /\ p.id # o.id)
  BY DEF HasOps, OthersAnd
<1>2. /\ new.id = o.id /\ new.kind = o.kind /\ new.args = o.args /\ new.types = o.types
      /\ "eliminated" \in DOMAIN new.attrs <=> "eliminated" \in DOMAIN o.attrs
      /\ "eliminated" \in DOMAIN o.attrs => new.attrs["eliminated"] = o.attrs["eliminated"]
  BY DEF SameRecords
<1>3. \A p \in Range(f.ops) : p.id = o.id => p = o
  BY OneOpPerId DEF Sound
<1>4. TensorsOf(new) = TensorsOf(o)
  BY <1>2 DEF TensorsOf
<1>5. "eliminated" \in DOMAIN o.attrs => RecordOf(new) = RecordOf(o)
  BY <1>2 DEF RecordOf
<1>6. ASSUME NEW x
      PROVE  x \in Records(g) <=> x \in Records(f)
  <2>1. (\E p \in Range(g.ops) : x \in TensorsOf(p)) <=> (\E p \in Range(f.ops) : x \in TensorsOf(p))
    BY <1>1, <1>3, <1>4
  <2>2. (\E p \in Range(g.ops) : "eliminated" \in DOMAIN p.attrs /\ x \in RecordOf(p))
          <=> (\E p \in Range(f.ops) : "eliminated" \in DOMAIN p.attrs /\ x \in RecordOf(p))
    BY <1>1, <1>2, <1>3, <1>5
  <2>3. x \in Tensors(g) <=> x \in Tensors(f)
    BY <2>1, RecordsAre
  <2>4. x \in Eliminated(g) <=> x \in Eliminated(f)
    BY <2>2, RecordsAre
  <2> QED BY <2>3, <2>4 DEF Records
<1>7. ASSUME NEW v
      PROVE  NoUse(g, v) => NoUse(f, v)
  BY <1>1, <1>2, <1>3 DEF NoUse
<1>8. AllRead(f) => AllRead(g)
  BY <1>1, <1>2, <1>7 DEF AllRead
<1>9. Unrecorded(f) => Unrecorded(g)
  BY <1>1, <1>2 DEF Unrecorded
<1>10. PICK S, T : S = Records(f) /\ T = Records(g)
  OBVIOUS
<1>11. S = T
  BY <1>6, <1>10
<1> QED BY <1>8, <1>9, <1>10, <1>11

LEMMA AnnotatesCarried ==
  ASSUME NEW f, Sound(f), Unrecorded(f), NEW n \in DOMAIN f.ops, NEW new, Annotates(new, f.ops[n]),
         NEW g, g = [f EXCEPT !.ops[n] = new]
  PROVE  Carried(f, g)
<1>1. PICK o : o = f.ops[n]
  OBVIOUS
<1>2. o \in Range(f.ops) /\ IsOp(o) /\ Annotates(new, o)
  BY <1>1 DEF Sound, IsFunction, Range
<1>3. SameRecords(o, new)
  BY <1>2, AnnotatesRecords
<1>4. WellFormed(g) /\ Closed(g)
  BY <1>1, <1>2, AnnotatesKept DEF Kept
<1>5. HasOps(g, OthersAnd(f, o, new), f.ret)
  <2>1. new.id = o.id
    BY <1>3 DEF SameRecords
  <2>2. WellFormedOp(new)
    <3>1. DOMAIN g.ops = DOMAIN f.ops /\ g.ops[n] = new
      BY DEF Sound, IsFunction
    <3>2. new \in Range(g.ops)
      BY <3>1 DEF Range
    <3> QED BY <1>4, <3>2 DEF WellFormed
  <2> QED BY <1>1, <2>1, <2>2, WalkedOps DEF Sound
<1>6. /\ Records(g) = Records(f) /\ (AllRead(f) => AllRead(g))
      /\ Unrecorded(f) => Unrecorded(g)
  BY <1>2, <1>3, <1>5, SameRecordsKept
<1> QED BY <1>4, <1>6 DEF Carried, Accounts

LEMMA RetypedUnfused ==
  ASSUME NEW f, Sound(f), Unfused(f), NEW n \in DOMAIN f.ops, NEW types,
         NEW g, g = [f EXCEPT !.ops[n].types = types]
  PROVE  Unfused(g)
<1>1. \A i \in DOMAIN f.ops : IsOp(f.ops[i]) /\ "eliminated" \notin DOMAIN f.ops[i].attrs
  BY DEF Sound, IsFunction, Unfused, Range
<1>2. DOMAIN g.ops = DOMAIN f.ops /\ \A i \in DOMAIN f.ops : g.ops[i].attrs = f.ops[i].attrs
  BY <1>1 DEF Sound, IsFunction, IsOp, Op
<1> QED BY <1>1, <1>2 DEF Unfused, Range

\* A function that nothing was fused in materializes finitely many tensors.
LEMMA UnfusedRecords ==
  ASSUME NEW f, Sound(f), Unfused(f)
  PROVE  /\ Unrecorded(f) /\ Records(f) = Tensors(f) /\ IsFiniteSet(Tensors(f))
<1>1. Unrecorded(f)
  BY DEF Unfused, Unrecorded
<1>2. PICK S, T, E : S = Records(f) /\ T = Tensors(f) /\ E = Eliminated(f)
  OBVIOUS
<1>3. \A x : x \notin E
  BY <1>2, RecordsAre DEF Unfused
<1>4. S = T
  BY <1>2, <1>3 DEF Records
<1>5. ASSUME NEW o \in Range(f.ops)
      PROVE  IsFiniteSet(TensorsOf(o))
  <2>1. PICK m \in Nat : DOMAIN o.types = 1..m
    <3>1. resultCount(o.kind) \in Nat
      BY DEF resultCount
    <3>2. o.types = [k \in 1..resultCount(o.kind) |-> o.types[k]]
      BY DEF Sound, WellFormed, WellFormedOp
    <3> QED BY <3>1, <3>2
  <2>2. IsFiniteSet(1..m)
    BY FS_Interval
  <2>3. PICK h : h = [k \in 1..m |-> <<o.id, k, o.types[k]>>]
    OBVIOUS
  <2>4. PICK R : R = {h[k] : k \in 1..m}
    OBVIOUS
  <2>5. IsFiniteSet(R)
    <3>1. PICK I : I = 1..m
      OBVIOUS
    <3>2. IsFiniteSet(I) /\ I = DOMAIN h
      BY <2>2, <2>3, <3>1
    <3>3. IsFiniteSet({h[x] : x \in I})
      BY <3>2, ImageIsFinite
    <3> QED BY <2>4, <3>1, <3>3
  <2>6. TensorsOf(o) = R
    BY <2>1, <2>3, <2>4 DEF TensorsOf
  <2> QED BY <2>5, <2>6
<1>6. PICK m \in Nat : DOMAIN f.ops = 1..m
  BY DEF Sound, IsFunction
<1>7. PICK h : h = [i \in 1..m |-> TensorsOf(f.ops[i])]
  OBVIOUS
<1>8. PICK all : all = {h[i] : i \in 1..m}
  OBVIOUS
<1>9. IsFiniteSet(1..m)
  BY <1>6, FS_Interval
<1>10. IsFiniteSet(all)
  BY <1>7, <1>8, <1>9, ImageIsFinite
<1>11. all = {TensorsOf(o) : o \in Range(f.ops)}
  BY <1>6, <1>7, <1>8 DEF Range
<1>12. \A R \in all : IsFiniteSet(R)
  BY <1>5, <1>11
<1>13. IsFiniteSet(UNION all)
  BY <1>10, <1>12, FS_UNION
<1>14. T = UNION all
  BY <1>2, <1>11, Zenon DEF Tensors, TensorsOf
<1> QED BY <1>1, <1>2, <1>4, <1>13, <1>14

----------------------------------------------------------------------------
(* The command line accounts for the traffic it removes. *)

\* What TrafficAccounted asks of the command line and of the parsed function.
Watched ==
  /\ Unfused(source) /\ Index("infer-shapes") = {1}
  /\ Index("canonicalize") = {} /\ Index("fuse-kv-append-attention") = {}

\* Nothing is fused until the types are inferred; from then on, the tensors and
\* the records are those of the typed function, at every step of every pass.
Balanced ==
  /\ WellFormed(ir)
  /\ phase = "parse" => ir = source /\ at = 1
  /\ Live => Closed(ir)
  /\ at = 1 => Unfused(ir)
  /\ Live /\ at > 1 =>
       /\ Unrecorded(ir)
       /\ DeadOps(typed) = {} =>
            AllRead(ir) /\ IsFiniteSet(Records(ir)) /\ Counted(Records(ir)) = Counted(Tensors(typed))

TrafficInv == Watched => Balanced

\* The types are inferred by the first pass and by no other one.
LEMMA PassesWatched ==
  ASSUME SourcesInv, Watched, phase = "run"
  PROVE  /\ at = 1 <=> cmd[at] = "infer-shapes"
         /\ at # 1 => at > 1
         /\ cmd[at] \notin {"canonicalize", "fuse-kv-append-attention"}
<1>1. at \in DOMAIN cmd /\ at \in Nat \ {0}
  BY DEF SourcesInv, Shaped
<1>2. \A pass : at \in Index(pass) <=> cmd[at] = pass
  BY <1>1 DEF Index
<1> QED BY <1>1, <1>2 DEF Watched

LEMMA SameWatched ==
  ASSUME UNCHANGED <<source, cmd>>
  PROVE  Watched' <=> Watched
BY DEF Watched, Index

\* A step that leaves the function alone.
LEMMA StandingBalanced ==
  ASSUME Balanced, UNCHANGED <<source, typed, ir, at>>, Live' => Live, phase' = "parse" => phase = "parse"
  PROVE  Balanced'
BY DEF Balanced

\* A step of a pass after the first one.
LEMMA CarriedBalanced ==
  ASSUME Balanced, phase = "run", at > 1, at # 1, UNCHANGED <<source, typed, at, phase>>, Carried(ir, ir')
  PROVE  Balanced'
<1>1. WellFormed(ir') /\ Closed(ir') /\ Unrecorded(ir') /\ Accounts(ir, ir')
  BY DEF Carried
<1>2. Live
  BY DEF Live
<1>3. ASSUME DeadOps(typed) = {}
      PROVE  /\ AllRead(ir') /\ IsFiniteSet(Records(ir'))
             /\ Counted(Records(ir')) = Counted(Tensors(typed))
  BY <1>1, <1>2, <1>3 DEF Balanced, Accounts
<1> QED BY <1>1, <1>3 DEF Balanced

LEMMA ParsedBalanced ==
  ASSUME SourcesInv, Balanced, Parse
  PROVE  Balanced'
<1>1. /\ phase = "parse" /\ UNCHANGED <<source, typed, ir, cmd, at>>
      /\ phase' = IF verify(ir) THEN "idle" ELSE "failed"
  BY DEF Parse
<1>2. at = 1
  BY <1>1 DEF Balanced
<1>3. verify(ir) => Closed(ir)
  BY DominatesClosed DEF SourcesInv, Shaped, Balanced, verify
<1> QED BY <1>1, <1>2, <1>3 DEF Balanced, Live

\* The verifier has the last word, and the typed function is there after the
\* first pass.
LEMMA EndBalanced ==
  ASSUME SourcesInv, Watched, Balanced, phase = "run", EndPass
  PROVE  Balanced'
<1>1. /\ UNCHANGED <<source, ir, cmd>> /\ phase' \in {"idle", "failed"} /\ at' = at + 1
      /\ typed' = IF cmd[at] = "infer-shapes" THEN ir ELSE typed
  BY DEF EndPass
<1>2. Sound(ir)
  BY DEF SourcesInv, Shaped, Balanced, Live, Sound
<1>3. at \in Nat \ {0} /\ at' # 1
  BY <1>1 DEF SourcesInv, Shaped
<1>4. /\ Unrecorded(ir)
      /\ DeadOps(typed') = {} =>
           AllRead(ir) /\ IsFiniteSet(Records(ir)) /\ Counted(Records(ir)) = Counted(Tensors(typed'))
  <2>1. CASE at = 1
    <3>1. typed' = ir
      BY <1>1, <2>1, PassesWatched
    <3>2. Unfused(ir)
      BY <2>1 DEF Balanced
    <3>3. Unrecorded(ir) /\ Records(ir) = Tensors(ir) /\ IsFiniteSet(Tensors(ir))
      BY <1>2, <3>2, UnfusedRecords
    <3>4. DeadOps(ir) = {} => AllRead(ir)
      BY <1>2, NoDeadOps
    <3> QED BY <3>1, <3>3, <3>4
  <2>2. CASE at # 1
    <3>1. typed' = typed /\ at > 1
      BY <1>1, <2>2, PassesWatched
    <3> QED BY <3>1 DEF Balanced, Live
  <2> QED BY <2>1, <2>2
<1>5. Closed(ir) /\ WellFormed(ir)
  BY <1>2 DEF Sound
<1>6. phase' # "parse"
  BY <1>1
<1> QED BY <1>1, <1>3, <1>4, <1>5, <1>6 DEF Balanced

LEMMA WalkBalanced ==
  ASSUME SourcesInv, Watched, Balanced, InferShapes \/ InferTileLayout \/ PlanMemory \/ EmitKernelReport
  PROVE  Balanced'
<1>1. /\ phase = "run" /\ UNCHANGED <<source, typed, cmd, at>> /\ phase' \in {phase, "failed"}
  BY DEF InferShapes, InferTileLayout, PlanMemory, EmitKernelReport, Running
<1>2. PICK f, g : f = ir /\ g = ir'
  OBVIOUS
<1>3. Sound(f)
  BY <1>1, <1>2 DEF SourcesInv, Shaped, Balanced, Live, Sound
<1>4. CASE UNCHANGED ir
  <2>1. Live /\ phase' # "parse"
    BY <1>1 DEF Live
  <2> QED BY <1>1, <1>4, <2>1, StandingBalanced
<1>5. CASE InferShapes /\ ~UNCHANGED ir
  <2>1. at = 1
    BY <1>1, <1>5, PassesWatched DEF InferShapes, Running
  <2>2. phase' = phase /\ pos \in DOMAIN f.ops
    BY <1>2, <1>5, InferenceIs
  <2>3. PICK T, r : /\ r = inferReturnTypes(f.ops[pos], T) /\ r.ok
                    /\ g = [f EXCEPT !.ops[pos].types = r.types]
    BY <1>2, <1>5, InferenceIs
  <2>4. WellFormed(g) /\ Closed(g)
    BY <1>3, <2>2, <2>3, RetypedKept DEF Kept
  <2>5. Unfused(f)
    BY <1>2, <2>1 DEF Balanced
  <2>6. Unfused(g)
    BY <1>3, <2>2, <2>3, <2>5, RetypedUnfused
  <2> QED BY <1>1, <1>2, <2>1, <2>2, <2>4, <2>6 DEF Balanced
<1>6. CASE (InferTileLayout \/ PlanMemory \/ EmitKernelReport) /\ ~UNCHANGED ir
  <2>1. cmd[at] # "infer-shapes"
    BY <1>6 DEF InferTileLayout, PlanMemory, EmitKernelReport, Running
  <2>2. at # 1 /\ at > 1
    BY <1>1, <2>1, PassesWatched
  <2>3. Unrecorded(f)
    BY <1>1, <1>2, <2>2 DEF Balanced, Live
  <2>4. phase' = phase /\ pos \in DOMAIN f.ops
    BY <1>2, <1>6, AnnotationIs
  <2>5. PICK new : Annotates(new, f.ops[pos]) /\ g = [f EXCEPT !.ops[pos] = new]
    BY <1>2, <1>6, AnnotationIs
  <2>6. Carried(f, g)
    BY <1>3, <2>3, <2>4, <2>5, AnnotatesCarried
  <2> QED BY <1>1, <1>2, <2>2, <2>4, <2>6, CarriedBalanced
<1> QED BY <1>4, <1>5, <1>6

LEMMA RewriteBalanced ==
  ASSUME SourcesInv, Watched, Balanced, NEW o \in Candidates(ir), Rewrite(o)
  PROVE  Balanced'
<1>1. /\ phase = "run" /\ cmd[at] \in Greedy /\ ir' \in Rewrites(cmd[at], ir, o)
      /\ UNCHANGED <<source, typed, cmd, at, phase>>
  BY DEF Rewrite
<1>2. PICK f, g, pass : f = ir /\ g = ir' /\ pass = cmd[at]
  OBVIOUS
<1>3. Sound(f) /\ o \in Range(f.ops)
  BY <1>1, <1>2 DEF SourcesInv, Shaped, Balanced, Live, Sound, Candidates
<1>4. /\ at # 1 /\ at > 1
      /\ pass \in {"fuse-rmsnorm-matmul", "fuse-matmul-bias-gelu", "fuse-residual-rmsnorm",
                   "fuse-softmax-mask"}
  <2>1. "infer-shapes" \notin Greedy
    BY DEF Greedy, Fusions
  <2> QED BY <1>1, <1>2, <2>1, PassesWatched DEF Greedy, Fusions
<1>5. Unrecorded(f)
  BY <1>1, <1>2, <1>4 DEF Balanced, Live
<1>6. g \in Rewrites(pass, f, o)
  BY <1>1, <1>2
<1>7. CASE pass = "fuse-rmsnorm-matmul"
  <2>1. g \in FuseRmsnormMatmulPattern(f, o)
    BY <1>6, <1>7, Zenon DEF Rewrites
  <2>2. Carried(f, g)
    BY <1>3, <1>5, <2>1, RmsnormMatmulCarried
  <2> QED BY <1>1, <1>2, <1>4, <2>2, CarriedBalanced
<1>8. CASE pass = "fuse-matmul-bias-gelu"
  <2>1. g \in FuseMatmulBiasGeluPattern(f, o)
    BY <1>6, <1>8, Zenon DEF Rewrites
  <2>2. Carried(f, g)
    BY <1>3, <1>5, <2>1, MatmulBiasGeluCarried
  <2> QED BY <1>1, <1>2, <1>4, <2>2, CarriedBalanced
<1>9. CASE pass = "fuse-residual-rmsnorm"
  <2>1. g \in FuseResidualRmsnormPattern(f, o)
    BY <1>6, <1>9, Zenon DEF Rewrites
  <2>2. Carried(f, g)
    BY <1>3, <1>5, <2>1, ResidualRmsnormCarried
  <2> QED BY <1>1, <1>2, <1>4, <2>2, CarriedBalanced
<1>10. CASE pass = "fuse-softmax-mask"
  <2>1. g \in FuseSoftmaxMaskPattern(f, o)
    BY <1>6, <1>10, Zenon DEF Rewrites
  <2>2. Carried(f, g)
    BY <1>3, <1>5, <2>1, SoftmaxMaskCarried
  <2> QED BY <1>1, <1>2, <1>4, <2>2, CarriedBalanced
<1> QED BY <1>4, <1>7, <1>8, <1>9, <1>10

\* No op dies: a fusion leaves every op that stays a reader.
LEMMA EraseBalanced ==
  ASSUME SourcesInv, Watched, Balanced, NEW o \in DeadOps(ir), EraseDead(o)
  PROVE  Balanced'
<1>1. /\ phase = "run" /\ cmd[at] \in Greedy /\ ir' = Without(ir, {o.id})
      /\ UNCHANGED <<source, typed, cmd, at, phase>>
  BY DEF EraseDead
<1>2. PICK f, g : f = ir /\ g = ir'
  OBVIOUS
<1>3. Sound(f)
  BY <1>1, <1>2 DEF SourcesInv, Shaped, Balanced, Live, Sound
<1>4. at # 1 /\ at > 1
  <2>1. "infer-shapes" \notin Greedy
    BY DEF Greedy, Fusions
  <2> QED BY <1>1, <2>1, PassesWatched
<1>5. Unrecorded(f) /\ o \in DeadOps(f) /\ g = Without(f, {o.id})
  BY <1>1, <1>2, <1>4 DEF Balanced, Live
<1>6. WellFormed(g) /\ Closed(g)
  BY <1>3, <1>5, ErasedKept DEF Kept
<1>7. Unrecorded(g)
  <2>1. HasOps(g, {p \in Range(f.ops) : p.id \notin {o.id}}, f.ret)
    BY <1>3, <1>5, WithoutOps DEF Sound
  <2> QED BY <1>5, <2>1 DEF HasOps, Unrecorded
<1>8. ~AllRead(f)
  BY <1>3, <1>5, NoDeadOps
<1>9. Carried(f, g)
  BY <1>6, <1>7, <1>8 DEF Carried, Accounts
<1> QED BY <1>1, <1>2, <1>4, <1>9, CarriedBalanced

LEMMA StepTrafficInv ==
  ASSUME SourcesInv, TrafficInv, [Next]_vars
  PROVE  TrafficInv'
<1>1. UNCHANGED <<source, cmd>>
  BY DEF Next, Work, Exited, vars, Parse, StartPass, Finish, InferShapes, InferTileLayout, PlanMemory,
         EmitKernelReport, WalkEnds, WriteManifest, Rewrite, EraseDead, GreedyEnds, EmitCuda, EmitHip,
         Emit, LowerEnds, EndPass
<1>2. SUFFICES ASSUME Watched
               PROVE  Balanced'
  BY <1>1, SameWatched DEF TrafficInv
<1>3. Balanced
  BY <1>2 DEF TrafficInv
<1>4. CASE Parse
  BY <1>3, <1>4, ParsedBalanced
<1>5. CASE StartPass \/ Finish
  <2>1. /\ phase = "idle" /\ phase' \in {"run", "done"} /\ UNCHANGED <<source, typed, ir, at>>
    BY <1>5 DEF StartPass, Finish
  <2> QED BY <1>3, <2>1, StandingBalanced DEF Live
<1>6. CASE InferShapes \/ InferTileLayout \/ PlanMemory \/ EmitKernelReport
  BY <1>2, <1>3, <1>6, WalkBalanced
<1>7. CASE WalkEnds \/ GreedyEnds \/ LowerEnds
  <2>1. phase = "run" /\ EndPass
    BY <1>7 DEF WalkEnds, GreedyEnds, LowerEnds
  <2> QED BY <1>2, <1>3, <2>1, EndBalanced
<1>8. CASE \E w \in Outcomes : WriteManifest(w)
  <2>1. /\ phase = "run"
        /\ EndPass \/ (phase' = "failed" /\ UNCHANGED <<source, typed, ir, at>>)
    BY <1>8 DEF WriteManifest, Running
  <2> QED BY <1>2, <1>3, <2>1, EndBalanced, StandingBalanced DEF Live
<1>9. CASE \E o \in Candidates(ir) : Rewrite(o)
  BY <1>2, <1>3, <1>9, RewriteBalanced
<1>10. CASE \E o \in DeadOps(ir) : EraseDead(o)
  BY <1>2, <1>3, <1>10, EraseBalanced
<1>11. CASE \E w \in Outcomes : EmitCuda(w) \/ EmitHip(w)
  <2>1. UNCHANGED <<source, typed, ir, at>> /\ phase' \in {phase, "failed"}
    BY <1>11 DEF EmitCuda, EmitHip, Emit
  <2> QED BY <1>3, <2>1, StandingBalanced DEF Live
<1>12. CASE UNCHANGED vars
  BY <1>3, <1>12, StandingBalanced DEF vars, Live
<1> QED BY <1>4, <1>5, <1>6, <1>7, <1>8, <1>9, <1>10, <1>11, <1>12 DEF Next, Work, Exited

\* The fusions account for every intermediate they remove: whatever the function
\* (with no dead ops, and not fused before) and the passes after --infer-shapes
\* (but for --canonicalize, which records nothing, and the KV append fusion, whose
\* records are of results that the fused op still has), the tensors that were
\* there when the types were inferred are, type by type, those still there and
\* those in the eliminated_type attributes, between any two passes and at the end.
THEOREM TrafficIsAccounted == Spec => []TrafficAccounted
<1>1. Init => TrafficInv
  <2> SUFFICES ASSUME Init, Watched PROVE Balanced
    BY DEF TrafficInv
  <2> QED BY PassesAssumption DEF Init, Balanced, Live, Watched
<1>2. SourcesInv /\ TrafficInv /\ [Next]_vars => TrafficInv'
  BY StepTrafficInv
<1>3. TrafficInv => TrafficAccounted
  <2> SUFFICES ASSUME TrafficInv, phase \in {"idle", "done"}, Unfused(source),
                      Index("infer-shapes") = {1}, at > 1, DeadOps(typed) = {},
                      Index("canonicalize") = {}, Index("fuse-kv-append-attention") = {}
               PROVE  Counted(Tensors(typed)) = Counted(Tensors(ir) \cup Eliminated(ir))
    BY DEF TrafficAccounted
  <2>1. Balanced /\ Live
    BY DEF TrafficInv, Watched, Live
  <2>2. Counted(Records(ir)) = Counted(Tensors(typed))
    BY <2>1 DEF Balanced
  <2> QED BY <2>2 DEF Records
<1> QED BY <1>1, <1>2, <1>3, SpecSourcesInv, PTL DEF Spec
=============================================================================
