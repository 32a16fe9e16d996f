------------------------------- MODULE Passes -------------------------------
(***************************************************************************)
(* polykernel-opt: a command line of passes over one function, with the     *)
(* verifier after each, and the files the last passes write.  A pass that   *)
(* walks the function visits one op per step; a pass that runs patterns     *)
(* greedily applies them, and drops dead ops, in any order until nothing    *)
(* applies (the order is the rewrite driver's, which is external).          *)
(*                                                                          *)
(* An op that replaces another keeps its id, so that its uses stay.         *)
(***************************************************************************)
EXTENDS Dialect, Selection

CONSTANTS Programs,        \* functions to compile
          CommandLines,    \* sequences of pass names
          kSmemLimitBytes  \* (163 * 1024)

ASSUME PassesAssumption ==
  /\ \A f \in Programs : IsFunction(f) /\ WellFormed(f)
  /\ \A c \in CommandLines : Len(c) \in Nat /\ DOMAIN c = 1..Len(c)

VARIABLES source,   \* the function as it was parsed
          typed,    \* the function as --infer-shapes left it
          ir,       \* the function
          cmd,      \* the command line
          at,       \* index of the running, or next, pass
          phase,    \* "parse", "idle", "run", "done", "failed"
          pos,      \* the op, or the file, a walking pass is at
          kernels,  \* skeletons EmitKernelReport has collected
          manifest, \* kernel_report.json: [state, kernels]
          files     \* kernel name -> "none", "torn" or the pass that wrote it

vars == <<source, typed, ir, cmd, at, phase, pos, kernels, manifest, files>>

\* The kernels the lowerings have an emitter for, in the order of their dispatch.
Emitters == <<"rmsnorm", "gelu", "silu", "matmul", "softmax",
              "fused_rmsnorm_matmul", "fused_matmul_bias_gelu">>

Tiled == {"matmul", "fused_rmsnorm_matmul", "fused_matmul_bias_gelu"}

Running(pass) == phase = "run" /\ cmd[at] = pass
----------------------------------------------------------------------------
(* Rewriting.  A pattern yields the set of functions it can rewrite to: none *)
(* when it does not match.                                                  *)
Without(f, ids) ==
  [f EXCEPT !.ops = Subsequence(@, {i \in DOMAIN @ : @[i].id \notin ids})]

Substituted(s, from, to) == [n \in DOMAIN s |-> IF s[n] = from THEN to ELSE s[n]]

ReplaceAllUsesWith(f, from, to) ==
  [f EXCEPT !.ops = [i \in DOMAIN f.ops |-> [f.ops[i] EXCEPT !.args = Substituted(@, from, to)]],
            !.ret = Substituted(@, from, to)]

\* An op gives way to another one of the same results; the ops `dead` go.
Put(f, o) == [f EXCEPT !.ops = [i \in DOMAIN @ |-> IF @[i].id = o.id THEN o ELSE @[i]]]

ReplaceOp(f, o, kind, args, attrs, dead) ==
  Without(Put(f, Op(o.id, kind, args, o.types, attrs)), dead)

Result(o) == <<o.id, 1>>

\* The optional epsilon is carried over.
CarryEpsilon(o) == IF "epsilon" \in DOMAIN o.attrs THEN [epsilon |-> o.attrs["epsilon"]] ELSE <<>>
FusedFrom(name, eliminated) == [fused_from |-> name, eliminated |-> eliminated]

\* Mutant of FuseRmsnormMatmulPattern: the operands are swapped.
FuseRmsnormMatmulPattern_Swapped(f, o) ==
  LET rms == Def(f, o.args[1])
  IN IF o.kind = "matmul" /\ rms.kind = "rmsnorm" /\ hasNUses(f, Result(rms), 1)
     THEN {ReplaceOp(f, o, "fused_rmsnorm_matmul", <<o.args[2], rms.args[1]>>,
                     Joined(CarryEpsilon(rms), FusedFrom("rmsnorm_matmul", rms.types)), {rms.id})}
     ELSE {}

FuseRmsnormMatmulPattern(f, o) ==
  LET rms == Def(f, o.args[1])
  IN IF o.kind = "matmul" /\ rms.kind = "rmsnorm" /\ hasNUses(f, Result(rms), 1)
     THEN {ReplaceOp(f, o, "fused_rmsnorm_matmul", <<rms.args[1], o.args[2]>>,
                     Joined(CarryEpsilon(rms), FusedFrom("rmsnorm_matmul", rms.types)), {rms.id})}
     ELSE {}

\* Mutant of FuseMatmulBiasGeluPattern: only one eliminated type is recorded.
FuseMatmulBiasGeluPattern_OneType(f, o) ==
  LET bias == Def(f, o.args[1])
      mm   == Def(f, bias.args[1])
  IN IF /\ o.kind = "gelu" /\ bias.kind = "bias" /\ mm.kind = "matmul"
        /\ hasNUses(f, Result(mm), 1) /\ hasNUses(f, Result(bias), 1)
     THEN {ReplaceOp(f, o, "fused_matmul_bias_gelu", <<mm.args[1], mm.args[2], bias.args[2]>>,
                     FusedFrom("matmul_bias_gelu", mm.types), {bias.id, mm.id})}
     ELSE {}

FuseMatmulBiasGeluPattern(f, o) ==
  LET bias == Def(f, o.args[1])
      mm   == Def(f, bias.args[1])
  IN IF /\ o.kind = "gelu" /\ bias.kind = "bias" /\ mm.kind = "matmul"
        /\ hasNUses(f, Result(mm), 1) /\ hasNUses(f, Result(bias), 1)
     THEN {ReplaceOp(f, o, "fused_matmul_bias_gelu", <<mm.args[1], mm.args[2], bias.args[2]>>,
                     FusedFrom("matmul_bias_gelu", mm.types \o bias.types), {bias.id, mm.id})}
     ELSE {}

FuseResidualRmsnormPattern(f, o) ==
  LET add == Def(f, o.args[1])
  IN IF o.kind = "rmsnorm" /\ add.kind = "add" /\ hasNUses(f, Result(add), 1)
     THEN {ReplaceOp(f, o, "fused_residual_rmsnorm", add.args,
                     Joined(CarryEpsilon(o), FusedFrom("residual_rmsnorm", add.types)), {add.id})}
     ELSE {}

\* The softmax's axis is not carried.
FuseSoftmaxMaskPattern(f, o) ==
  LET add == Def(f, o.args[1])
  IN IF o.kind = "softmax" /\ add.kind = "add" /\ hasNUses(f, Result(add), 1)
     THEN {ReplaceOp(f, o, "fused_softmax_mask", add.args,
                     FusedFrom("softmax_mask", add.types), {add.id})}
     ELSE {}

\* The fused op stands where the attention stood; the update goes, wherever it was.
FuseKvAppendAttentionPattern(f, o) ==
  LET key     == o.args[2]
      value   == o.args[3]
      updates == {u \in Range(f.ops) : /\ u.kind = "kv_cache_update"
                                       /\ u.args[2] = key /\ u.args[3] = value}
      Fuse(u) ==
        LET new == Op(o.id, "fused_kv_append_attention", <<o.args[1], u.args[1], key, value>>,
                      <<TypeOf(f, o.args[1]), TypeOf(f, u.args[1])>>,
                      FusedFrom("kv_append_attention", u.types \o o.types))
        IN Without(ReplaceAllUsesWith(Put(f, new), Result(u), <<o.id, 2>>), {u.id})
  IN IF o.kind = "attention" /\ hasNUses(f, key, 2) /\ hasNUses(f, value, 2)
     THEN {Fuse(u) : u \in updates} ELSE {}
----------------------------------------------------------------------------
(* --canonicalize *)
isFloat(t) == t.elt \in {"bf16", "f32"}

isDenseZero(o) == o.kind = "constant" /\ o.attrs["value"].v = ConstZero

\* Mutant of AddZeroElimination: the zero is moved to the other side.
AddZeroElimination_Reorders(f, o) ==
  IF o.kind = "add" /\ (isDenseZero(Def(f, o.args[1])) \/ isDenseZero(Def(f, o.args[2])))
  THEN {ReplaceOp(f, o, "add", <<o.args[2], o.args[1]>>, <<>>, {})}
  ELSE {}

AddZeroElimination(f, o) ==
  IF o.kind = "add" /\ (isDenseZero(Def(f, o.args[1])) \/ isDenseZero(Def(f, o.args[2])))
  THEN {Without(ReplaceAllUsesWith(f, Result(o),
                  IF isDenseZero(Def(f, o.args[1])) THEN o.args[2] ELSE o.args[1]), {o.id})}
  ELSE {}

\* The constant has the type of the one it is computed from.
ReplaceWithConstant(f, o, in, value) ==
  Put(f, Op(o.id, "constant", <<>>, in.types, [value |-> value]))

\* A constant mapped element by element; no value for an integer constant.
mapConstantElements(o, fn) ==
  IF isFloat(o.types[1]) THEN {[o.attrs["value"] EXCEPT !.v = Mapped(fn, @)]} ELSE {}

ConstantFold(f, o, fn) ==
  LET in == Def(f, o.args[1])
  IN IF o.kind = fn /\ in.kind = "constant"
     THEN {ReplaceWithConstant(f, o, in, v) : v \in mapConstantElements(in, fn)}
     ELSE {}

GeluConstantFold(f, o) == ConstantFold(f, o, "gelu")
SiluConstantFold(f, o) == ConstantFold(f, o, "silu")

SoftmaxSplatFold(f, o) ==
  LET in == Def(f, o.args[1])
      t  == in.types[1]
      n  == t.shape[AxisOf(o, t) + 1]
  IN IF /\ o.kind = "softmax" /\ in.kind = "constant" /\ in.attrs["value"].splat
        /\ Rank(t) > 0 /\ isFloat(t)
        /\ AxisOf(o, t) \in 0..(Rank(t) - 1) /\ n > 0
     THEN {ReplaceWithConstant(f, o, in, Uniform(n))}
     ELSE {}

Rewrites(pass, f, o) ==
  CASE pass = "fuse-rmsnorm-matmul"      -> FuseRmsnormMatmulPattern(f, o)
    [] pass = "fuse-matmul-bias-gelu"    -> FuseMatmulBiasGeluPattern(f, o)
    [] pass = "fuse-residual-rmsnorm"    -> FuseResidualRmsnormPattern(f, o)
    [] pass = "fuse-softmax-mask"        -> FuseSoftmaxMaskPattern(f, o)
    [] pass = "fuse-kv-append-attention" -> FuseKvAppendAttentionPattern(f, o)
    [] pass = "canonicalize" -> AddZeroElimination(f, o) \cup GeluConstantFold(f, o)
                                  \cup SiluConstantFold(f, o) \cup SoftmaxSplatFold(f, o)

Fusions == {"fuse-rmsnorm-matmul", "fuse-matmul-bias-gelu", "fuse-residual-rmsnorm",
            "fuse-softmax-mask", "fuse-kv-append-attention"}
Greedy  == Fusions \cup {"canonicalize"}

\* Patterns match on ops with operands; a constant is no root of any.
Candidates(f) == {o \in Range(f.ops) : o.args # <<>>}

DeadOps(f) == {o \in Range(f.ops) : \A n \in DOMAIN o.types : hasNUses(f, <<o.id, n>>, 0)}
----------------------------------------------------------------------------
(* The passes that annotate: the op a walk is at, with its new attributes.  *)
isStatic(t) == t.ranked /\ Dynamic \notin Range(t.shape)
Product(s)  == FoldLeft(LAMBDA a, b : a * b, 1, s)
elementBytes(t) == CASE t.elt = "bf16" -> 2 [] t.elt = "f32" -> 4 [] t.elt = "i8" -> 1

extractMatmulDims(a, b) == [m |-> Product(Front(a.shape)), n |-> Back(b.shape), k |-> Back(a.shape)]

\* Mutant of chooseTile: the smallest candidate is used for smaller dimensions too.
chooseTile_NoClamp(dim) ==
  LET fits == {c \in {128, 64, 32, 16} : c <= dim}
  IN IF fits = {} THEN 16 ELSE CHOOSE c \in fits : \A d \in fits : d <= c

chooseTile(dim) ==
  LET fits == {c \in {128, 64, 32, 16} : c <= dim}
  IN IF fits = {} THEN dim ELSE CHOOSE c \in fits : \A d \in fits : d <= c

InferTile(f, o) ==
  LET a == TypeOf(f, o.args[1])
      b == TypeOf(f, o.args[2])
      d == extractMatmulDims(a, b)
  IN IF o.kind \in Tiled /\ isStatic(a) /\ isStatic(b) /\ Rank(a) >= 2 /\ Rank(b) >= 1
     THEN [o EXCEPT !.attrs = Joined([tile_m |-> chooseTile(d.m), tile_n |-> chooseTile(d.n),
                                         tile_k |-> chooseTile(d.k), layout |-> "row_major"], @)]
     ELSE o

kFallbackTile   == 16
kPipelineStages == 2

Tile(o, name) == Attr(o, name, kFallbackTile)

SmemBytes(o, bytes) ==
  (Tile(o, "tile_m") * Tile(o, "tile_k") + Tile(o, "tile_k") * Tile(o, "tile_n"))
     * bytes * kPipelineStages

\* The flag is set when the budget is exceeded and never taken back.
Plan(f, o) ==
  LET a    == TypeOf(f, o.args[1])
      b    == TypeOf(f, o.args[2])
      r    == o.types[1]
      smem == SmemBytes(o, elementBytes(a))
      work == IF "fused_from" \in DOMAIN o.attrs THEN 0 ELSE Product(r.shape) * elementBytes(r)
  IN IF o.kind \in Tiled /\ isStatic(a) /\ isStatic(b) /\ isStatic(r)
     THEN [o EXCEPT !.attrs = Joined([smem_bytes |-> smem, workspace_bytes |-> work],
                                         Joined(IF smem > kSmemLimitBytes THEN [smem_over_budget |-> TRUE]
                                                ELSE <<>>, @))]
     ELSE o

kernelName(o) == o.kind

\* One kernel of the report: none for an op without a static matmul shape.
Skeleton(f, o) ==
  LET a == TypeOf(f, o.args[1])
      b == TypeOf(f, o.args[2])
  IN IF o.kind \in Tiled /\ isStatic(a) /\ isStatic(b)
     THEN <<[kernel |-> kernelName(o), dims |-> extractMatmulDims(a, b), bytes |-> elementBytes(a),
             tile |-> [m |-> Tile(o, "tile_m"), n |-> Tile(o, "tile_n"), k |-> Tile(o, "tile_k")],
             smem |-> Attr(o, "smem_bytes", 0), fused_from |-> Attr(o, "fused_from", "")]>>
     ELSE <<>>
----------------------------------------------------------------------------
Init ==
  /\ source \in Programs
  /\ cmd \in CommandLines
  /\ ir = source /\ typed = source
  /\ at = 1 /\ phase = "parse" /\ pos = 1
  /\ kernels = <<>> /\ manifest = [state |-> "none", kernels |-> <<>>]
  /\ files = [k \in Range(Emitters) |-> "none"]

\* The parsed module is verified before the first pass.
Parse ==
  /\ phase = "parse"
  /\ phase' = IF verify(ir) THEN "idle" ELSE "failed"
  /\ UNCHANGED <<source, typed, ir, cmd, at, pos, kernels, manifest, files>>

StartPass ==
  /\ phase = "idle" /\ at <= Len(cmd)
  /\ phase' = "run" /\ pos' = 1 /\ kernels' = <<>>
  /\ UNCHANGED <<source, typed, ir, cmd, at, manifest, files>>

\* The pass has done its work; the module is verified.
EndPass ==
  /\ phase' = IF verify(ir) THEN "idle" ELSE "failed"
  /\ at' = at + 1
  /\ typed' = IF cmd[at] = "infer-shapes" THEN ir ELSE typed
  /\ UNCHANGED <<source, ir, cmd, pos, kernels>>

Walking == pos <= Len(ir.ops)
Here    == ir.ops[pos]

\* --infer-shapes: a failure stops the walk, with the ops above refined already.
InferShapes ==
  LET r == inferReturnTypes(Here, OperandTypes(ir, Here))
  IN /\ Running("infer-shapes") /\ Walking
     /\ UNCHANGED <<source, typed, cmd, at, kernels, manifest, files>>
     /\ IF r.ok /\ Len(r.types) = Len(Here.types)
        THEN ir' = [ir EXCEPT !.ops[pos].types = r.types] /\ pos' = pos + 1 /\ phase' = phase
        ELSE phase' = "failed" /\ UNCHANGED <<ir, pos>>

InferTileLayout ==
  /\ Running("infer-tile-layout") /\ Walking
  /\ ir' = [ir EXCEPT !.ops[pos] = InferTile(ir, Here)]
  /\ pos' = pos + 1
  /\ UNCHANGED <<source, typed, cmd, at, phase, kernels, manifest, files>>

PlanMemory ==
  /\ Running("plan-memory") /\ Walking
  /\ ir' = [ir EXCEPT !.ops[pos] = Plan(ir, Here)]
  /\ pos' = pos + 1
  /\ UNCHANGED <<source, typed, cmd, at, phase, kernels, manifest, files>>

EmitKernelReport ==
  LET s == Skeleton(ir, Here)
  IN /\ Running("emit-kernel-report") /\ Walking
     /\ kernels' = kernels \o s
     /\ ir' = IF s = <<>> THEN ir
              ELSE [ir EXCEPT !.ops[pos].attrs = Joined([report_kernel |-> s[1].kernel], @)]
     /\ pos' = pos + 1
     /\ UNCHANGED <<source, typed, cmd, at, phase, manifest, files>>

WalkEnds ==
  /\ phase = "run" /\ cmd[at] \in {"infer-shapes", "infer-tile-layout", "plan-memory"}
  /\ ~Walking
  /\ EndPass
  /\ UNCHANGED <<manifest, files>>

\* kernel_report.json: written whole; not opened; or cut short, which ends the
\* process.
renderManifest(ks) == [state |-> "whole", kernels |-> ks]

WriteManifest(outcome) ==
  /\ Running("emit-kernel-report") /\ ~Walking
  /\ \/ outcome = "ok" /\ manifest' = renderManifest(kernels) /\ EndPass
     \/ /\ outcome # "ok" /\ phase' = "failed"
        /\ manifest' = IF outcome = "short" THEN [state |-> "torn", kernels |-> <<>>] ELSE manifest
        /\ UNCHANGED <<source, typed, ir, cmd, at, pos, kernels>>
  /\ UNCHANGED files

Rewrite(o) ==
  /\ phase = "run" /\ cmd[at] \in Greedy
  /\ ir' \in Rewrites(cmd[at], ir, o)
  /\ UNCHANGED <<source, typed, cmd, at, phase, pos, kernels, manifest, files>>

EraseDead(o) ==
  /\ phase = "run" /\ cmd[at] \in Greedy
  /\ ir' = Without(ir, {o.id})
  /\ UNCHANGED <<source, typed, cmd, at, phase, pos, kernels, manifest, files>>

GreedyEnds ==
  /\ phase = "run" /\ cmd[at] \in Greedy
  /\ DeadOps(ir) = {}
  /\ \A o \in Candidates(ir) : Rewrites(cmd[at], ir, o) = {}
  /\ EndPass
  /\ UNCHANGED <<manifest, files>>

\* Mutant of EmitCuda: the pass goes on after a file it could not open.
EmitCuda_GoesOn(outcome) ==
  /\ Running("lower-to-cuda") /\ pos <= Len(Emitters)
  /\ pos' = pos + 1
  /\ files' = IF Emitters[pos] \notin {o.kind : o \in Range(ir.ops)} \/ outcome = "refused" THEN files
              ELSE [files EXCEPT ![Emitters[pos]] = IF outcome = "ok" THEN "lower-to-cuda" ELSE "torn"]
  /\ phase' = IF outcome = "short" /\ Emitters[pos] \in {o.kind : o \in Range(ir.ops)}
              THEN "failed" ELSE phase
  /\ UNCHANGED <<source, typed, ir, cmd, at, kernels, manifest>>

\* A lowering writes one file per kind of op present, in the order of Emitters;
\* the first that fails ends the pass and leaves the files before it.
Emit(pass, outcome) ==
  LET name    == Emitters[pos]
      present == name \in {o.kind : o \in Range(ir.ops)}
  IN /\ Running(pass) /\ pos <= Len(Emitters)
     /\ pos' = pos + 1
     /\ \/ ~present /\ outcome = "ok" /\ UNCHANGED <<files, phase>>
        \/ /\ present /\ outcome = "ok"
           /\ files' = [files EXCEPT ![name] = pass] /\ phase' = phase
        \/ present /\ outcome = "refused" /\ phase' = "failed" /\ files' = files
        \/ present /\ outcome = "short" /\ phase' = "failed" /\ files' = [files EXCEPT ![name] = "torn"]
     /\ UNCHANGED <<source, typed, ir, cmd, at, kernels, manifest>>

EmitCuda(outcome) == Emit("lower-to-cuda", outcome)
EmitHip(outcome)  == Emit("lower-to-hip", outcome)

LowerEnds ==
  /\ phase = "run" /\ cmd[at] \in {"lower-to-cuda", "lower-to-hip"} /\ pos > Len(Emitters)
  /\ EndPass
  /\ UNCHANGED <<manifest, files>>

Finish ==
  /\ phase = "idle" /\ at > Len(cmd)
  /\ phase' = "done"
  /\ UNCHANGED <<source, typed, ir, cmd, at, pos, kernels, manifest, files>>

Exited == phase \in {"done", "failed"} /\ UNCHANGED vars

Outcomes == {"ok", "refused", "short"}

Work ==
  \/ Parse \/ StartPass \/ Finish
  \/ InferShapes \/ InferTileLayout \/ PlanMemory \/ EmitKernelReport \/ WalkEnds
  \/ \E w \in Outcomes : WriteManifest(w)
  \/ \E o \in Candidates(ir) : Rewrite(o)
  \/ \E o \in DeadOps(ir) : EraseDead(o)
  \/ GreedyEnds
  \/ \E w \in Outcomes : EmitCuda(w)
  \/ \E w \in Outcomes : EmitHip(w)
  \/ LowerEnds

Next == Work \/ Exited

\* The process runs until it exits.
Spec == Init /\ [][Next]_vars /\ WF_vars(Work)
----------------------------------------------------------------------------
Index(pass)      == {n \in DOMAIN cmd : cmd[n] = pass}
Before(p, q)     == \A m \in Index(p), n \in Index(q) : m < n
TransformsBefore(q) == \A p \in Greedy : Before(p, q)

\* No explicit axis is lost: a masked softmax has none (the fusion does not
\* carry it, src/lib/Passes/FuseSoftmaxMask.cpp:104).
AxesKept ==
  "fuse-softmax-mask" \in Range(cmd) =>
     \A o \in Range(source.ops) : o.kind = "softmax" => "axis" \notin DOMAIN o.attrs

\* Which of two zeros an add is replaced by does not matter: the ops that map or
\* add zeros declare the types of their operands, as the custom form makes them.
ZerosTyped(f) ==
  (\E c \in Range(f.ops) : isDenseZero(c)) =>
     \A o \in Range(f.ops) :
        o.kind \in {"gelu", "silu", "add"} => o.types[1] = TypeOf(f, o.args[1])

(***************************************************************************)
(* The compiler keeps the program's meaning: between passes, whatever they  *)
(* were and in whatever order the driver applied their patterns, the        *)
(* returned values are the ones the parsed function returns.  Where a       *)
(* rewrite cannot keep it (the fused KV append moved below a use of the     *)
(* updated cache, src/lib/Passes/FuseKvAppendAttention.cpp:110), the        *)
(* pipeline fails instead of going on.                                      *)
(***************************************************************************)
MeaningKept ==
  phase \in {"idle", "done"} /\ AxesKept /\ ZerosTyped(source) => Meaning(ir) = Meaning(source)

\* The tensors a function materializes, and those recorded as eliminated.
Tensors(f) == UNION {{<<o.id, n, o.types[n]>> : n \in DOMAIN o.types} : o \in Range(f.ops)}
Eliminated(f) ==
  UNION {{<<-o.id, n, o.attrs["eliminated"][n]>> : n \in DOMAIN o.attrs["eliminated"]} :
           o \in {p \in Range(f.ops) : "eliminated" \in DOMAIN p.attrs}}
Counted(S) == [t \in {e[3] : e \in S} |-> Cardinality({e \in S : e[3] = t})]

\* No fusion has been at work on the function before.
Unfused(f) == \A o \in Range(f.ops) : "eliminated" \notin DOMAIN o.attrs

(***************************************************************************)
(* Traffic accounting (the eliminated_type attributes of the four fusions   *)
(* that remove an intermediate): the tensors that the typed function        *)
(* materialized are the ones it materializes now and the ones recorded as   *)
(* eliminated, each as often as before, if the function has no dead ops.    *)
(***************************************************************************)
TrafficAccounted ==
  /\ phase \in {"idle", "done"} /\ Unfused(source)
  /\ Index("infer-shapes") = {1} /\ at > 1 /\ DeadOps(typed) = {}
  /\ Index("canonicalize") = {} /\ Index("fuse-kv-append-attention") = {}
  => Counted(Tensors(typed)) = Counted(Tensors(ir) \cup Eliminated(ir))

(***************************************************************************)
(* Every kernel the report names has its source (kernelName "matches the    *)
(* emitted .cu basenames", EmitKernelReport.cpp:95): when the command line  *)
(* succeeded with a lowering and the report after the last transformation,  *)
(* the file of each reported kernel is there and whole, although files may  *)
(* fail to open or be cut short at any point.                               *)
(***************************************************************************)
ReportedKernelsHaveSources ==
  /\ phase = "done"
  /\ Index("emit-kernel-report") # {} /\ TransformsBefore("emit-kernel-report")
  /\ \/ Index("lower-to-cuda") # {} /\ TransformsBefore("lower-to-cuda")
     \/ Index("lower-to-hip") # {} /\ TransformsBefore("lower-to-hip")
  => \A k \in Range(manifest.kernels) : files[k.kernel] \in {"lower-to-cuda", "lower-to-hip"}

(***************************************************************************)
(* The report is consistent across the three passes it draws on, in the     *)
(* documented order: a tile never exceeds the problem it tiles, the shared  *)
(* memory is that of the tile reported beside it, and an op over the budget *)
(* is flagged (InferTileLayout.cpp:39, PlanMemory.cpp:186-205).             *)
(***************************************************************************)
ReportConsistent ==
  /\ phase = "done"
  /\ \A p \in {"infer-shapes", "infer-tile-layout", "plan-memory", "emit-kernel-report"} :
        Cardinality(Index(p)) = 1
  /\ TransformsBefore("infer-tile-layout") /\ Before("infer-shapes", "infer-tile-layout")
  /\ Before("infer-tile-layout", "plan-memory") /\ Before("plan-memory", "emit-kernel-report")
  => /\ \A s \in Range(manifest.kernels) :
          /\ s.tile.m <= s.dims.m /\ s.tile.n <= s.dims.n /\ s.tile.k <= s.dims.k
          /\ s.smem = 2 * s.bytes * (s.tile.m * s.tile.k + s.tile.k * s.tile.n)
     /\ \A o \in Range(ir.ops) : "smem_bytes" \in DOMAIN o.attrs =>
          ("smem_over_budget" \in DOMAIN o.attrs <=> o.attrs["smem_bytes"] > kSmemLimitBytes)

(***************************************************************************)
(* The command line ends: no pattern undoes another one's work for ever.    *)
(***************************************************************************)
PipelineEnds == <>(phase \in {"done", "failed"})
=============================================================================
