------------------------------- MODULE Driver -------------------------------
(***************************************************************************)
(* The programs that run one kernel on .npy files: cuda_run and hip_run,   *)
(* the drivers inside matmul_wmma.cu, matmul_mma.cu and matmul_int8.cu,    *)
(* and the CPU references (cpu_ref_*, attention, matmul_quant).            *)
(*                                                                         *)
(* They have one shape: parse the command line, read the inputs, compare   *)
(* their dimensions, upload, launch, synchronize, download and write.      *)
(* What differs is a plan: when the command line is refused (usage), which *)
(* inputs are read, whether the row length is divided by, when dimensions  *)
(* are refused, how many elements of each operand the kernel indexes, how  *)
(* many it writes, and the shape under which they are saved.               *)
(*                                                                         *)
(* A command line is [paths, opts, axis, weight, A, B, C]: the number of   *)
(* positional arguments, whether the options after them parse, the value   *)
(* of --axis, whether --weight is given, and the shapes of the inputs.     *)
(* The content of an output file is the kind of result in it.              *)
(***************************************************************************)
EXTENDS Integers, Sequences, SequencesExt

VARIABLES
    proc,  \* the running program, or None
    out    \* the output file: "missing", "torn", or the kind of its content

None == [pc |-> "none"]

-----------------------------------------------------------------------------
(* Shapes. *)

size(s) == FoldLeft(LAMBDA x, y : x * y, 1, s)
dim(s, axis) == IF axis <= Len(s) THEN s[axis] ELSE -1

\* A scalar has no last dimension: reading it is undefined, and only the
\* drivers that look for one first are given scalars.
back(s) == IF s = <<>> THEN 0 ELSE Last(s)
Rows(s) == IF back(s) = 0 THEN 0 ELSE size(s) \div back(s)

\* A's leading dimensions and N.
matmul_out_shape(a, n) == Append(Front(a), n)

\* The elements an M x N x K product indexes.
MatMulNeeds(a) == [A |-> Rows(a.A) * back(a.A), B |-> back(a.A) * dim(a.B, 2), C |-> 0]

-----------------------------------------------------------------------------
(* The plans of cuda_run. *)

run_rmsnorm(a) ==
    [usage |-> a.paths # 2 \/ ~a.opts,
     inputs |-> IF a.weight THEN {"A", "C"} ELSE {"A"},
     divides |-> TRUE, refuse |-> FALSE,
     needs |-> [A |-> Rows(a.A) * back(a.A), B |-> 0,
                C |-> IF a.weight THEN back(a.A) ELSE 0],
     writes |-> size(a.A), shape |-> a.A]

run_gelu(a) ==
    [usage |-> a.paths # 2 \/ ~a.opts, inputs |-> {"A"},
     divides |-> FALSE, refuse |-> FALSE,
     needs |-> [A |-> size(a.A), B |-> 0, C |-> 0],
     writes |-> size(a.A), shape |-> a.A]

\* Mutant: the contraction dimensions are not compared.
run_matmul_Unchecked(a) ==
    [usage |-> a.paths # 3 \/ ~a.opts, inputs |-> {"A", "B"},
     divides |-> TRUE, refuse |-> FALSE, needs |-> MatMulNeeds(a),
     writes |-> Rows(a.A) * dim(a.B, 2), shape |-> matmul_out_shape(a.A, dim(a.B, 2))]

run_matmul(a) ==
    [usage |-> a.paths # 3 \/ ~a.opts, inputs |-> {"A", "B"},
     divides |-> TRUE, refuse |-> dim(a.B, 1) # back(a.A), needs |-> MatMulNeeds(a),
     writes |-> Rows(a.A) * dim(a.B, 2), shape |-> matmul_out_shape(a.A, dim(a.B, 2))]

\* The axis is compared before the rows are counted.
run_softmax(a) ==
    LET lastAxis == a.axis \in {-1, Len(a.A) - 1}
    IN  [usage |-> a.paths # 2 \/ ~a.opts, inputs |-> {"A"},
         divides |-> lastAxis, refuse |-> ~lastAxis,
         needs |-> [A |-> Rows(a.A) * back(a.A), B |-> 0, C |-> 0],
         writes |-> size(a.A), shape |-> a.A]

run_fused_rmsnorm_matmul(a) == run_matmul(a)

run_fused_matmul_bias_gelu(a) ==
    [run_matmul(a) EXCEPT
        !.usage = a.paths # 4 \/ ~a.opts,
        !.inputs = @ \cup {"C"},
        !.refuse = @ \/ size(a.C) # dim(a.B, 2),
        !.needs.C = dim(a.B, 2)]


\* main of cuda_run: the plan of an op.  An unknown op is refused.
Unknown(a) ==
    [usage |-> TRUE, inputs |-> {}, divides |-> FALSE, refuse |-> FALSE,
     needs |-> [A |-> 0, B |-> 0, C |-> 0], writes |-> 0, shape |-> <<>>]

cuda_run(op, a) ==
    CASE op = "rmsnorm" -> run_rmsnorm(a)
      [] op = "gelu" -> run_gelu(a)
      [] op = "matmul" -> run_matmul(a)
      [] op = "softmax" -> run_softmax(a)
      [] op = "fused_rmsnorm_matmul" -> run_fused_rmsnorm_matmul(a)
      [] op = "fused_matmul_bias_gelu" -> run_fused_matmul_bias_gelu(a)
      [] OTHER -> Unknown(a)

(* hip_run has the same plans over the checked Hip* calls. *)

hip_run_rmsnorm(a) == run_rmsnorm(a)
hip_run_gelu(a) == run_gelu(a)
hip_run_matmul(a) == run_matmul(a)
hip_run_softmax(a) == run_softmax(a)
hip_run_fused_rmsnorm_matmul(a) == run_fused_rmsnorm_matmul(a)
hip_run_fused_matmul_bias_gelu(a) == run_fused_matmul_bias_gelu(a)

hip_run(op, a) ==
    CASE op = "rmsnorm" -> hip_run_rmsnorm(a)
      [] op = "gelu" -> hip_run_gelu(a)
      [] op = "matmul" -> hip_run_matmul(a)
      [] op = "softmax" -> hip_run_softmax(a)
      [] op = "fused_rmsnorm_matmul" -> hip_run_fused_rmsnorm_matmul(a)
      [] op = "fused_matmul_bias_gelu" -> hip_run_fused_matmul_bias_gelu(a)
      [] OTHER -> Unknown(a)

(* The drivers inside the tensor-core kernels.  They look at the mode only  *)
(* when they launch, and an unknown one ends them with exit code 2 there.   *)

wmma_run(a) == run_matmul(a)
mma_run(a) == run_matmul(a)

KnownMode(c) ==
    /\ c.prog = "wmma_run" => c.op \in {"wmma", "wmma_bad", "scalar"}
    /\ c.prog = "mma_run" => c.op \in {"mma", "mma_bad", "scalar"}

\* bf16 A, int8 weights B and one fp32 scale per column in C.
int8_run(mode, a) ==
    IF mode # "int8" THEN Unknown(a)
    ELSE [run_matmul(a) EXCEPT
             !.usage = a.paths # 4 \/ ~a.opts,
             !.inputs = @ \cup {"C"},
             !.refuse = @ \/ dim(a.C, 1) # dim(a.B, 2),
             !.needs.C = dim(a.B, 2)]

-----------------------------------------------------------------------------
(* The CPU references check ranks and the weight's length as well. *)

cpu_ref_rmsnorm(a) ==
    [run_rmsnorm(a) EXCEPT !.refuse = a.A = <<>> \/ (a.weight /\ size(a.C) # back(a.A)),
                           !.divides = a.A # <<>>]
cpu_ref_gelu(a) == run_gelu(a)
cpu_ref_silu(a) == run_gelu(a)

\* A negative axis counts from the end.
cpu_ref_softmax(a) ==
    LET resolved == IF a.axis < 0 THEN a.axis + Len(a.A) ELSE a.axis
        lastAxis == a.A # <<>> /\ resolved = Len(a.A) - 1
    IN  [run_softmax(a) EXCEPT !.refuse = ~lastAxis, !.divides = lastAxis]

BadRanks(a) == Len(a.A) < 2 \/ Len(a.B) # 2

cpu_ref_matmul(a) ==
    [run_matmul(a) EXCEPT !.refuse = @ \/ BadRanks(a), !.divides = ~BadRanks(a)]

cpu_ref_fused_rmsnorm_matmul(a) == cpu_ref_matmul(a)

cpu_ref_fused_matmul_bias_gelu(a) ==
    [run_fused_matmul_bias_gelu(a) EXCEPT !.refuse = @ \/ BadRanks(a),
                                          !.divides = ~BadRanks(a)]

cpu_ref(op, a) ==
    CASE op = "rmsnorm" -> cpu_ref_rmsnorm(a)
      [] op = "gelu" -> cpu_ref_gelu(a)
      [] op = "silu" -> cpu_ref_silu(a)
      [] op = "softmax" -> cpu_ref_softmax(a)
      [] op = "matmul" -> cpu_ref_matmul(a)
      [] op = "fused_rmsnorm_matmul" -> cpu_ref_fused_rmsnorm_matmul(a)
      [] op = "fused_matmul_bias_gelu" -> cpu_ref_fused_matmul_bias_gelu(a)
      [] OTHER -> Unknown(a)

\* attention append: A is the cache and B the new rows, [B, H, S, D] both.  A
\* dimension that is missing compares as -1; an output, or a row of scores, with
\* a negative number of elements cannot be allocated.
run_append(a) ==
    LET bh == dim(a.A, 1) * dim(a.A, 2)
        total == dim(a.A, 3) + dim(a.B, 3)
    IN  [usage |-> a.paths # 3 \/ ~a.opts, inputs |-> {"A", "B"}, divides |-> FALSE,
         refuse |-> \/ dim(a.A, 1) < 0
                    \/ \E x \in {1, 2, 4} : dim(a.A, x) # dim(a.B, x)
                    \/ bh * total * dim(a.A, 4) < 0,
         needs |-> [A |-> bh * dim(a.A, 3) * dim(a.A, 4),
                    B |-> bh * dim(a.B, 3) * dim(a.A, 4), C |-> 0],
         writes |-> bh * total * dim(a.A, 4),
         shape |-> <<dim(a.A, 1), dim(a.A, 2), total, dim(a.A, 4)>>]

\* attention prefill: Q, K and V; the query may be shorter than the keys.
run_prefill(a) ==
    LET bh == dim(a.A, 1) * dim(a.A, 2)
        kv == bh * dim(a.B, 3) * dim(a.A, 4)
    IN  [usage |-> a.paths # 4 \/ ~a.opts, inputs |-> {"A", "B", "C"}, divides |-> FALSE,
         refuse |-> \/ dim(a.A, 1) < 0
                    \/ \E x \in {1, 2, 4} : dim(a.A, x) # dim(a.B, x) \/ dim(a.A, x) # dim(a.C, x)
                    \/ dim(a.B, 3) # dim(a.C, 3)
                    \/ bh * dim(a.A, 3) * dim(a.A, 4) < 0 \/ dim(a.B, 3) < 0,
         needs |-> [A |-> bh * dim(a.A, 3) * dim(a.A, 4), B |-> kv, C |-> kv],
         writes |-> bh * dim(a.A, 3) * dim(a.A, 4), shape |-> a.A]

attention(sub, a) ==
    CASE sub = "prefill" -> run_prefill(a)
      [] sub = "append" -> run_append(a)
      [] OTHER -> Unknown(a)

run_int8(a) == int8_run("int8", a)
run_fp8sim(a) == run_matmul(a)

matmul_quant(mode, a) ==
    CASE mode = "int8" -> run_int8(a)
      [] mode = "fp8sim" -> run_fp8sim(a)
      [] OTHER -> Unknown(a)

\* The plan of a command line [prog, op, args].
Plan(c) ==
    CASE c.prog = "cuda_run" -> cuda_run(c.op, c.args)
      [] c.prog = "hip_run" -> hip_run(c.op, c.args)
      [] c.prog = "wmma_run" -> wmma_run(c.args)
      [] c.prog = "mma_run" -> mma_run(c.args)
      [] c.prog = "int8_run" -> int8_run(c.op, c.args)
      [] c.prog = "attention" -> attention(c.op, c.args)
      [] c.prog = "matmul_quant" -> matmul_quant(c.op, c.args)
      [] OTHER -> cpu_ref(c.op, c.args)

OnCpu(c) == c.prog \in {"cpu_ref", "attention", "matmul_quant"}

-----------------------------------------------------------------------------
(* The process.  It is [pc, cmd, plan, kernel, buffer, exit]: kernel is the *)
(* kind of result its kernel computes and buffer what its output buffer     *)
(* holds.  Device memory is not initialized.                                *)

Start(c, p, k) == [pc |-> "parse", cmd |-> c, plan |-> p, kernel |-> k,
                   buffer |-> "garbage", exit |-> -1]

At(where) == proc.pc = where
Goto(where) == proc' = [proc EXCEPT !.pc = where]
Exit(code) == proc' = [proc EXCEPT !.pc = "exit", !.exit = code]

\* A checked call: a failure ends the process with EXIT_FAILURE.
CK_(next) == Goto(next) \/ Exit(1)
PK_HIP_CHECK(next) == Goto(next) \/ Exit(1)
Checked(next) == IF proc.cmd.prog \in {"cuda_run", "mma_run"}
                 THEN CK_(next) ELSE PK_HIP_CHECK(next)

\* The device probes: no device ends dev with 1; neg sees its launch refused
\* (or its allocation fail) and ends with 1 to say so, and with 2 if it does not.
run_dev == Exit(0) \/ Exit(1)
run_neg == Exit(1) \/ Exit(2)

\* Only cuda_run has dev and only it and hip_run have neg: to any other program
\* these are ops like any it does not know.
Probes(c) == \/ c.prog = "cuda_run" /\ c.op \in {"dev", "neg"}
             \/ c.prog = "hip_run" /\ c.op = "neg"

Parse ==
    /\ At("parse")
    /\ \/ Probes(proc.cmd) /\ proc.cmd.op = "dev" /\ run_dev
       \/ Probes(proc.cmd) /\ proc.cmd.op = "neg" /\ run_neg
       \/ ~Probes(proc.cmd) /\ proc.plan.usage /\ Exit(2)
       \/ ~Probes(proc.cmd) /\ ~proc.plan.usage /\ Goto("read")
    /\ UNCHANGED out

\* A file that is missing, is no .npy, or has another element type is an error.
read_npy_bf16 ==
    /\ At("read")
    /\ Goto("check") \/ Exit(1)
    /\ UNCHANGED out

\* Dividing by a row length of zero ends the process with a signal.
Check ==
    /\ At("check")
    /\ LET p == proc.plan
       IN  IF p.divides /\ back(proc.cmd.args.A) = 0 THEN Exit(128)
           ELSE IF p.refuse THEN Exit(1)
           ELSE Goto(IF OnCpu(proc.cmd) THEN "compute" ELSE "upload")
    /\ UNCHANGED out

upload == At("upload") /\ Checked("launch") /\ UNCHANGED out

\* PK_CHECK prints a refused launch and goes on; reading the error clears it,
\* so the synchronization that follows does not see it.
PK_CHECK ==
    /\ At("launch")
    /\ \/ ~KnownMode(proc.cmd) /\ Exit(2)
       \/ /\ KnownMode(proc.cmd)
          /\ \/ proc' = [proc EXCEPT !.pc = "sync", !.buffer = proc.kernel]
             \/ Goto("sync")
    /\ UNCHANGED out

Sync == At("sync") /\ Checked("write") /\ UNCHANGED out

\* A CPU reference computes in place of upload, launch and synchronization.
Compute ==
    /\ At("compute")
    /\ proc' = [proc EXCEPT !.pc = "write", !.buffer = proc.kernel]
    /\ UNCHANGED out

\* The copy back and the opening of the file may fail; opening truncates it.
download_write ==
    /\ At("write")
    /\ \/ Exit(1) /\ UNCHANGED out
       \/ Goto("writing") /\ out' = "torn"

write_npy_bf16 ==
    /\ At("writing")
    /\ \/ Exit(0) /\ out' = proc.buffer
       \/ Exit(1) /\ UNCHANGED out

DriverStep ==
    \/ Parse \/ read_npy_bf16 \/ Check \/ upload \/ PK_CHECK \/ Sync
    \/ Compute \/ download_write \/ write_npy_bf16

-----------------------------------------------------------------------------
(* Properties. *)

\* The operands of a call have the ranks its kernel is written for.  The
\* cpu_ref programs compare ranks themselves; the others read the dimensions
\* they need, of a B with two, of an attention operand with four.
Ranked(c, p) ==
    LET a == c.args
    IN  CASE c.prog = "cpu_ref" -> TRUE
          [] c.prog = "attention" -> \A x \in p.inputs : Len(a[x]) = 4
          [] OTHER ->
                /\ Len(a.A) > 0
                /\ "B" \in p.inputs => Len(a.B) = 2
                /\ c.op = "int8" => Len(a.C) = 1

\* What the kernel indexes of every operand is what was uploaded of it, and as
\* many elements are copied back as were computed, whatever the dimensions in
\* the files: a driver's comparisons leave no kernel to run past a buffer.
\* (cuda_run and hip_run take any --weight for rmsnorm without comparing its
\* length, which the CPU reference does; those calls are excepted.)
OperandsFit ==
    (/\ proc.pc \in {"launch", "compute"} /\ Ranked(proc.cmd, proc.plan)
     /\ ~(proc.cmd.op = "rmsnorm" /\ ~OnCpu(proc.cmd) /\ proc.cmd.args.weight)) =>
        /\ \A x \in proc.plan.inputs : proc.plan.needs[x] = size(proc.cmd.args[x])
        /\ size(proc.plan.shape) = proc.plan.writes
=============================================================================
