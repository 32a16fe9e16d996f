------------------------------ MODULE Autotune ------------------------------
(***************************************************************************)
(* The autotuner from end to end: polykernel-bench (bench.py) building the *)
(* bench driver, probing the device, racing configurations behind the      *)
(* correctness gate and writing the tuning cache; the driver's run, time,  *)
(* enumerate and write-cache modes (Benchmark.cpp); and a server that      *)
(* loads the file and serves requests from it (Runtime.cpp).  Beside the   *)
(* sweep, a harness calls the other drivers of module Driver.              *)
(*                                                                         *)
(* What a kernel computes is a kind: "golden", "scaled" (only the relative *)
(* error is off), "offset" (only the correlation is right), "flat" (a      *)
(* constant, at worst with the right cosine) or "garbage" (memory no       *)
(* kernel wrote).  One sweep runs at a time.                               *)
(***************************************************************************)
EXTENDS ConfigSpace, TuningCache, Driver, TLC

CONSTANTS
    Calls,      \* command lines [prog, op, args] of the harness
    Sweeps,     \* command lines of polykernel-bench, see below
    Kinds,      \* what the kernels in the source tree may compute
    Times,      \* the time of one launch, in units of 1e-6 ms
    Devices,    \* what a server's device reports, see Detect
    Launchers,  \* the ops a server has registered a launcher for
    MaxSweeps,  \* bound: the sweeps started
    MaxRaced    \* bound: the variants of a race that is followed

\* A sweep's arguments: [op, shape, backend, arch, variants, inject, iters,
\* rebuild, ceiling], ceiling being <<>> when --rel-ceiling is not given.  A
\* --shape with a negative size ends bench.py where it makes the inputs.

ASSUME SweepAssumption ==
    /\ MaxSweeps \in Nat /\ MaxRaced \in Nat /\ Times \subseteq Int
    /\ \A s \in Sweeps :
          /\ s.iters \in Nat /\ s.variants \in Int
          /\ s.shape \in [m : Nat, n : Nat, k : Nat, dtype : STRING]

\* The dimensions in the header of an .npy file are written in digits.
ASSUME CallAssumption ==
    \A c \in Calls : c.prog # "bench" /\ {c.args.A, c.args.B, c.args.C} \subseteq Seq(Nat)

VARIABLES
    src,     \* what the kernels in the source tree compute
    driver,  \* per backend, the bench driver: "missing", "torn" or what its kernels compute
    sweep,   \* the sweep: where it is, its arguments, variants, outcomes and winner
    file,    \* the tuning cache: [state, doc]
    tuned,   \* history: what the sweeps selected, <<gpu, op, shape, config>>
    db,      \* the server's entries, by <<gpu, op, shape>>
    served   \* the entry last handed to a launcher, if any

bench == <<src, driver, sweep, file, tuned>>
server == <<db, served>>
vars == <<proc, out, src, driver, sweep, file, tuned, db, served>>

-----------------------------------------------------------------------------
(* The gate. *)

\* The metrics of an output against the golden reference: whether cosine and
\* pcc reach their thresholds, and the maximal relative error.
Metrics(kind) ==
    [cosine |-> kind \in {"golden", "scaled", "flat"},
     pcc |-> kind \in {"golden", "scaled", "offset"},
     max_rel_err |-> CASE kind = "golden" -> "small" [] kind = "garbage" -> "nan"
                       [] OTHER -> "large"]

\* The strict ceiling only for small K and an op that is not fused.
rel_ceiling(s) ==
    IF s.ceiling # <<>> THEN s.ceiling[1]
    ELSE IF s.shape.k < 256 /\ s.op = "matmul" THEN "strict" ELSE "inf"

\* Mutant: the correlation is not compared.
PassesCorrectnessGate_NoPcc(c, ceiling) ==
    /\ c.cosine
    /\ c.max_rel_err = "small" \/ (c.max_rel_err = "large" /\ ceiling = "inf")

\* A metric that is not a number fails its comparison.
PassesCorrectnessGate(c, ceiling) ==
    /\ c.cosine /\ c.pcc
    /\ c.max_rel_err = "small" \/ (c.max_rel_err = "large" /\ ceiling = "inf")

\* The loop over the results: the first of the fastest validated ones, or 0.
SelectBestValidated(results) ==
    LET faster(best, i) ==
            IF results[i].validated /\ results[i].time_ms # <<>>
               /\ (best = 0 \/ results[i].time_ms[1] < results[best].time_ms[1])
            THEN i ELSE best
    IN  FoldLeft(faster, 0, [i \in 1..Len(results) |-> i])

\* The upper median of the times, as printed with five decimals: the one that
\* is at position size / 2 when they are sorted.
MedianPrinted(times) ==
    LET half == Len(times) \div 2
        below(t) == Cardinality({i \in DOMAIN times : times[i] < t})
        upto(t) == Cardinality({i \in DOMAIN times : times[i] <= t})
    IN  {(t + 5) \div 10 : t \in {times[i] : i \in {j \in DOMAIN times :
                                   below(times[j]) <= half /\ half < upto(times[j])}}}

-----------------------------------------------------------------------------
(* polykernel-bench. *)

NoSweep == [pc |-> "idle", n |-> 0, args |-> <<>>, configs |-> <<>>, variants |-> <<>>,
            outcomes |-> <<>>, corr |-> <<>>, best |-> 0]

AtSweep(where) == sweep.pc = where
args == sweep.args[1]

\* The sweep ends, by an exception, SystemExit or a return.
EndSweep == sweep' = [NoSweep EXCEPT !.n = sweep.n]

StartSweep(s) ==
    /\ AtSweep("idle") /\ proc = None /\ sweep.n < MaxSweeps
    /\ sweep' = [NoSweep EXCEPT !.pc = "build", !.n = sweep.n + 1, !.args = <<s>>]
    /\ UNCHANGED <<proc, out, src, driver, file, tuned, server>>

\* A driver that exists is used as it is; a build may fail, and one that is
\* interrupted may leave a file that is not a program.
build_driver ==
    /\ AtSweep("build")
    /\ LET b == args.backend
       IN  \/ /\ driver[b] # "missing" /\ ~args.rebuild
              /\ sweep' = [sweep EXCEPT !.pc = "probe"] /\ UNCHANGED driver
           \/ /\ driver[b] = "missing" \/ args.rebuild
              /\ \/ driver' = [driver EXCEPT ![b] = src]
                    /\ sweep' = [sweep EXCEPT !.pc = "probe"]
                 \/ driver' \in {driver, [driver EXCEPT ![b] = "torn"]} /\ EndSweep
    /\ UNCHANGED <<proc, out, src, file, tuned, server>>

\* No device, or no program to ask, ends the sweep as SKIPPED.
probe_device ==
    /\ AtSweep("probe")
    /\ \/ driver[args.backend] # "torn" /\ sweep' = [sweep EXCEPT !.pc = "enumerate"]
       \/ EndSweep
    /\ UNCHANGED <<proc, out, src, driver, file, tuned, server>>

\* The limit is compared as an unsigned number: a negative one takes them all.
run_enumerate(limit) ==
    LET n == IF limit < 0 \/ limit > Len(Enumerate) THEN Len(Enumerate) ELSE limit
    IN  SubSeq(Enumerate, 1, n)

\* Every configuration is realized by the one kernel of the op; the broken
\* variant borrows the first configuration, which must be there.
enumerate_configs ==
    /\ AtSweep("enumerate")
    /\ LET configs == run_enumerate(args.variants)
           default == [i \in DOMAIN configs |-> [impl |-> "default", config |-> configs[i]]]
       IN  IF args.inject /\ configs = <<>> THEN EndSweep
           ELSE sweep' = [sweep EXCEPT
                  !.pc = IF Len(configs) > MaxRaced THEN "long" ELSE "run",
                  !.configs = configs,
                  !.variants = IF ~args.inject THEN default
                               ELSE Append(default, [impl |-> "broken", config |-> configs[1]])]
    /\ UNCHANGED <<proc, out, src, driver, file, tuned, server>>

\* A race longer than MaxRaced is not followed.
LongRace ==
    /\ AtSweep("long") /\ EndSweep
    /\ UNCHANGED <<proc, out, src, driver, file, tuned, server>>

raced == Len(sweep.outcomes) + 1
variant == sweep.variants[raced]

\* The inputs of an op, with dimensions that agree.
make_inputs(s) ==
    [paths |-> IF s.op = "fused_matmul_bias_gelu" THEN 3 ELSE 2, opts |-> TRUE,
     axis |-> -1, weight |-> FALSE, A |-> <<s.shape.m, s.shape.k>>,
     B |-> <<s.shape.k, s.shape.n>>, C |-> <<s.shape.n>>]

\* The bench driver compares no dimensions.
setup_op(op, a) ==
    IF op = "fused_matmul_bias_gelu"
    THEN [run_fused_matmul_bias_gelu(a) EXCEPT !.usage = a.paths # 3, !.refuse = FALSE]
    ELSE [run_matmul(a) EXCEPT !.usage = a.paths # 2, !.refuse = FALSE]

\* The broken kernels fill their output with a constant.
broken_fill == "flat"
Realizes(v) == IF v.impl = "broken" THEN broken_fill ELSE driver[args.backend]

run_run ==
    /\ AtSweep("run") /\ proc = None /\ raced <= Len(sweep.variants)
    /\ LET a == make_inputs(args)
       IN  proc' = Start([prog |-> "bench", op |-> args.op, args |-> a],
                         setup_op(args.op, a), Realizes(variant))
    /\ UNCHANGED <<out, bench, server>>

\* The driver has ended: any exit code but 0 ends the sweep.
RunEnded ==
    /\ AtSweep("run") /\ proc.pc = "exit"
    /\ proc' = None
    /\ IF proc.exit = 0 THEN sweep' = [sweep EXCEPT !.pc = "compare"] ELSE EndSweep
    /\ UNCHANGED <<out, src, driver, file, tuned, server>>

\* The output is loaded and compared with the golden reference.
Compare ==
    /\ AtSweep("compare")
    /\ IF out \in {"missing", "torn"} THEN EndSweep
       ELSE sweep' = [sweep EXCEPT !.pc = "time", !.corr = <<Metrics(out)>>]
    /\ UNCHANGED <<proc, out, src, driver, file, tuned, server>>

Outcome(o) ==
    sweep' = [sweep EXCEPT !.pc = "run", !.corr = <<>>, !.outcomes = Append(@, o)]

\* The time mode: the gate comes first, with exit code 3.  Then the inputs are
\* uploaded again, the kernel warmed up and timed; a checked call may fail, and
\* with no iteration there is no first time to print.
run_time ==
    /\ AtSweep("time")
    /\ LET c == sweep.corr[1]
           o(validated, t) == [variant |-> variant, ran |-> Realizes(variant), corr |-> c,
                               validated |-> validated, time_ms |-> t]
       IN  IF ~PassesCorrectnessGate(c, rel_ceiling(args)) THEN Outcome(o(FALSE, <<>>))
           ELSE \/ EndSweep
                \/ \E ts \in [1..args.iters -> Times] : \E t \in MedianPrinted(ts) :
                      Outcome(o(TRUE, <<t>>))
    /\ UNCHANGED <<proc, out, src, driver, file, tuned, server>>

\* Mutant: the last of the variants tied for the smallest median is taken.
FastestValidated_Last(outcomes) ==
    LET valid == {i \in DOMAIN outcomes : outcomes[i].validated}
        t(i) == outcomes[i].time_ms[1]
    IN  {i \in valid : \A j \in valid : t(i) < t(j) \/ (t(i) = t(j) /\ j <= i)}

\* min(validated, key=median): the one that is the first of the smallest.
FastestValidated(outcomes) ==
    LET valid == {i \in DOMAIN outcomes : outcomes[i].validated}
        t(i) == outcomes[i].time_ms[1]
    IN  {i \in valid : \A j \in valid : t(i) < t(j) \/ (t(i) = t(j) /\ i <= j)}

\* When no variant passed the gate nothing is written.
SelectBest ==
    /\ AtSweep("run") /\ proc = None /\ raced > Len(sweep.variants)
    /\ IF \E i \in DOMAIN sweep.outcomes : sweep.outcomes[i].validated
       THEN \E b \in FastestValidated(sweep.outcomes) :
                /\ sweep' = [sweep EXCEPT !.pc = "open", !.best = b]
                /\ tuned' = tuned \cup {<<args.arch, args.op, args.shape,
                                          sweep.outcomes[b].variant.config>>}
       ELSE EndSweep /\ UNCHANGED tuned
    /\ UNCHANGED <<proc, out, src, driver, file, server>>

\* The entry of the winner: its gpu is the --arch of the command line.
write_cache ==
    LET o == sweep.outcomes[sweep.best]
    IN  [gpu |-> args.arch, op |-> args.op, shape |-> args.shape,
         best |-> o.variant.config, scored_by |-> "measure", time_ms |-> o.time_ms,
         validated |-> TRUE, correctness |-> o.corr]

\* write-cache truncates the file, or cannot open it and ends the sweep.
run_write_cache_open ==
    /\ AtSweep("open")
    /\ \/ file' = [state |-> "torn", doc |-> <<>>]
          /\ sweep' = [sweep EXCEPT !.pc = "write"]
       \/ EndSweep /\ UNCHANGED file
    /\ UNCHANGED <<proc, out, src, driver, tuned, server>>

\* The one entry replaces what the file held; a short write is not noticed.
run_write_cache ==
    /\ AtSweep("write")
    /\ file' \in {file, [state |-> "whole", doc |-> SerializeTuningCache(<<write_cache>>)]}
    /\ EndSweep
    /\ UNCHANGED <<proc, out, src, driver, tuned, server>>

-----------------------------------------------------------------------------
(* What can go wrong from outside. *)

\* A kernel may never end.
Hang ==
    /\ sweep.pc = "run" /\ At("sync")
    /\ Goto("hung")
    /\ UNCHANGED <<out, bench, server>>

\* Mutant: a driver is waited for without a timeout.
Timeout_Forgotten == FALSE /\ UNCHANGED vars

\* subprocess.run kills a driver that exceeds its timeout and raises.
Timeout ==
    /\ proc.pc = "hung"
    /\ proc' = None /\ EndSweep
    /\ UNCHANGED <<out, src, driver, file, tuned, server>>

\* The user interrupts the sweep at any point; files stay as they are.
Interrupt ==
    /\ ~AtSweep("idle")
    /\ proc' = None /\ EndSweep
    /\ UNCHANGED <<out, src, driver, file, tuned, server>>

\* The kernels are edited between two sweeps.
Edit(k) ==
    /\ AtSweep("idle") /\ proc = None /\ sweep.n = 1 /\ src # k
    /\ src' = k
    /\ UNCHANGED <<proc, out, driver, sweep, file, tuned, server>>

\* Another writer drops a field of the document or leaves it null, once the
\* last sweep is over.
Spoiled(obj) ==
    {[f \in DOMAIN obj \ {key} |-> obj[f]] : key \in DOMAIN obj}
        \cup {[obj EXCEPT ![key] = <<"null", 0>>] : key \in DOMAIN obj}

SpoiledEntry(e) ==
    Spoiled(e) \cup UNION {{[e EXCEPT ![part] = <<"obj", x>>] : x \in Spoiled(e[part][2])} :
                              part \in {"shape", "best", "correctness"}}

Damage ==
    /\ AtSweep("idle") /\ sweep.n = MaxSweeps /\ file.state = "whole"
    /\ LET root == file.doc[2]
           entry == root.entries[2][1][2]
       IN  \E d \in Spoiled(root) \cup {[root EXCEPT !.entries = <<"arr", <<<<"obj", x>>>>>>] :
                                           x \in SpoiledEntry(entry)} :
              file' = [state |-> "damaged", doc |-> <<"obj", d>>]
    /\ UNCHANGED <<proc, out, src, driver, sweep, tuned, server>>

-----------------------------------------------------------------------------
(* The server. *)

\* The leading token of the reported name, if it is gfx and a digit ...
ParseGcnArchName(tokens) ==
    IF tokens # <<>> /\ tokens[1] \in {"gfx1101", "gfx942"} THEN tokens[1] ELSE ""

\* ... and "sm_", the major and the minor version.
SmArchFromComputeCapability(cc) ==
    CASE cc = <<8, 9>> -> "sm_89" [] cc = <<9, 0>> -> "sm_90"

\* A device is [backend, reports], what its properties say.  When they cannot
\* be read the request fails, as for a device without an entry.
Detect(d) ==
    IF d.backend = "hip" THEN ParseGcnArchName(d.reports)
    ELSE SmArchFromComputeCapability(d.reports)

\* A document that does not parse, or has an entry without a gpu, leaves the
\* entries alone; otherwise the last of equal keys replaces all of them.
LoadTuningCache ==
    /\ file.state \in {"whole", "damaged"}
    /\ \E es \in ParseTuningCache(file.doc) :
          LET key(i) == <<es[i].gpu, es[i].op, es[i].shape>>
          IN  /\ \A i \in DOMAIN es : es[i].gpu # ""
              /\ db' = [k \in {key(i) : i \in DOMAIN es} |->
                           es[CHOOSE i \in DOMAIN es :
                                 key(i) = k /\ \A j \in DOMAIN es : key(j) = k => j <= i]]
    /\ UNCHANGED <<proc, out, bench, served>>

\* Detect and select: what may be served for a request on a device.
Resolve(d, op, shape) ==
    {db[k] : k \in {x \in DOMAIN db : x = <<Detect(d), op, shape>> /\ db[x].validated}}

Run(d, op, shape) ==
    /\ op \in Launchers
    /\ \E e \in Resolve(d, op, shape) : served' = <<e>>
    /\ UNCHANGED <<proc, out, bench, db>>

-----------------------------------------------------------------------------
(* The harness and the specification. *)

\* The harness calls a driver on its own files, before any sweep.
Invoke(c) ==
    /\ AtSweep("idle") /\ proc = None /\ sweep.n = 0
    /\ proc' = Start(c, Plan(c), "golden")
    /\ UNCHANGED <<out, bench, server>>

\* Its output file is not the sweep's.
Reap ==
    /\ AtSweep("idle") /\ proc.pc = "exit"
    /\ proc' = None /\ out' = "missing"
    /\ UNCHANGED <<bench, server>>

Init ==
    /\ proc = None /\ out = "missing"
    /\ src \in Kinds /\ driver = [b \in {"hip", "cuda"} |-> "missing"]
    /\ sweep = NoSweep /\ file = [state |-> "missing", doc |-> <<>>]
    /\ tuned = {} /\ db = <<>> /\ served = <<>>

Drive == DriverStep /\ UNCHANGED <<bench, server>>

SweepStep ==
    \/ build_driver \/ probe_device \/ enumerate_configs \/ LongRace
    \/ run_run \/ RunEnded \/ Compare \/ run_time \/ SelectBest
    \/ run_write_cache_open \/ run_write_cache \/ Timeout

Next ==
    \/ SweepStep \/ Drive \/ Reap \/ Hang \/ Interrupt \/ Damage \/ LoadTuningCache
    \/ \E s \in Sweeps : StartSweep(s)
    \/ \E k \in Kinds : Edit(k)
    \/ \E c \in Calls : Invoke(c)
    \/ \E d \in Devices, s \in Sweeps : Run(d, s.op, s.shape)

Spec == Init /\ [][Next]_vars /\ WF_vars(SweepStep) /\ WF_vars(Drive)

-----------------------------------------------------------------------------
(* Properties. *)

\* What the gate may let pass: in the strict regime only a right kernel, in the
\* others (bench.py: large K or a fused nonlinearity) a scaled one as well.
Acceptable(s) == IF rel_ceiling(s) = "strict" THEN {"golden"} ELSE {"golden", "scaled"}

\* "a variant's time is recorded ONLY if it FIRST passes the golden correctness
\* gate" (bench.py): a variant with a time has a kernel whose results are right,
\* the injected broken one included, whatever an earlier run left in out.npy,
\* however its launch, its copy or its file failed.
GateSound ==
    \A i \in DOMAIN sweep.outcomes :
        LET o == sweep.outcomes[i]
        IN  /\ o.validated <=> o.time_ms # <<>>
            /\ o.validated => o.ran \in Acceptable(args)

\* The winner that bench.py takes is the one SelectBestValidated would: its
\* minimum over the printed medians resolves ties as the C++ loop does.
RecordsBest ==
    sweep.best # 0 => sweep.best = SelectBestValidated(sweep.outcomes)

\* What a server hands to a launcher was selected by a sweep for that gpu, op
\* and shape, although the file it was read from may have been truncated by an
\* interrupted or short write, or have lost fields to another writer.
ServedWasTuned ==
    \A i \in DOMAIN served :
        LET e == served[i]
        IN  e.validated /\ <<e.gpu, e.op, e.shape, e.best>> \in tuned

\* A race has no configuration twice, and each of them fits a thread and the SM,
\* counted without the rounding of the estimate the pruning rules go by.
RacedConfigsFit ==
    LET cs == sweep.configs
    IN  /\ \A i \in DOMAIN cs : Fits(cs[i])
        /\ \A i, j \in DOMAIN cs : cs[i] = cs[j] => i = j

\* A sweep that is started ends, also when a kernel never does.
SweepEnds == ~AtSweep("idle") ~> AtSweep("idle")
=============================================================================
