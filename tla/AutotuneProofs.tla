--------------------------- MODULE AutotuneProofs ---------------------------
(***************************************************************************)
(* Proofs about Autotune, for any sweeps, calls, kernels, times and        *)
(* devices: a time is only recorded for a kernel whose results are right,  *)
(* what a server serves was selected by a sweep, and no driver launches a  *)
(* kernel on operands that do not fit it.                                  *)
(***************************************************************************)
EXTENDS Autotune, DataLemmas

-----------------------------------------------------------------------------
(* The gate. *)

\* Whatever a kernel left in the output, the gate lets it pass only if it is
\* acceptable in the sweep's regime.
LEMMA GateAccepts ==
    ASSUME NEW kind, NEW s, PassesCorrectnessGate(Metrics(kind), rel_ceiling(s))
    PROVE  kind \in Acceptable(s)
BY DEF PassesCorrectnessGate, Metrics, Acceptable

IsSweep(r) ==
    r = [pc |-> r.pc, n |-> r.n, args |-> r.args, configs |-> r.configs,
         variants |-> r.variants, outcomes |-> r.outcomes, corr |-> r.corr, best |-> r.best]

IsProc(p) ==
    p = [pc |-> p.pc, cmd |-> p.cmd, plan |-> p.plan, kernel |-> p.kernel,
         buffer |-> p.buffer, exit |-> p.exit]

\* No driver outlives its step of the sweep.
WellFormed ==
    /\ IsSweep(sweep) /\ IsSeq(sweep.outcomes)
    /\ proc = None \/ IsProc(proc)
    /\ sweep.pc \notin {"idle", "run"} => proc = None

\* The driver that runs is that of the variant raced, and what it leaves when
\* it ends well is what its kernel computed, or the memory it was given.
RunsVariant ==
    sweep.pc = "run" /\ proc # None =>
        /\ proc.kernel = Realizes(variant) /\ proc.cmd.prog = "bench"
        /\ proc.buffer \in {proc.kernel, "garbage"}
        /\ proc.pc = "exit" /\ proc.exit = 0 => out \in {proc.kernel, "garbage"}

\* The output compared, and then the metrics, are of the variant raced.
Measured ==
    /\ sweep.pc = "compare" => out \in {Realizes(variant), "garbage"}
    /\ sweep.pc = "time" =>
          \E k \in {Realizes(variant), "garbage"} : sweep.corr = <<Metrics(k)>>

GateInv == WellFormed /\ RunsVariant /\ Measured /\ GateSound

\* A step of the sweep that is not about the variant raced.
LEMMA ElsewhereGateInv ==
    ASSUME GateInv, IsSweep(sweep'),
           sweep'.pc \notin {"compare", "time"},
           sweep'.outcomes = <<>> \/ UNCHANGED <<sweep.outcomes, sweep.args>>,
           proc' \in {None, proc}, sweep'.pc # "idle" => proc' = None
    PROVE  GateInv'
<1>1. IsSeq(sweep.outcomes)' /\ GateSound'
  <2>1. CASE sweep'.outcomes = <<>>
    BY <2>1, EmptyIsSeq DEF GateSound
  <2>2. CASE UNCHANGED <<sweep.outcomes, sweep.args>>
    <3>1. IsSeq(sweep.outcomes)'
      BY <2>2 DEF GateInv, WellFormed, IsSeq
    <3>2. GateSound'
      BY <2>2 DEF GateInv, GateSound, Acceptable, rel_ceiling, args
    <3> QED BY <3>1, <3>2
  <2> QED BY <2>1, <2>2
<1>2. (proc = None \/ IsProc(proc))'
  BY DEF GateInv, WellFormed, IsProc
<1>3. WellFormed'
  BY <1>1, <1>2 DEF WellFormed
<1>4. RunsVariant' /\ Measured'
  BY DEF RunsVariant, Measured
<1> QED BY <1>1, <1>3, <1>4 DEF GateInv

\* The sweep ends.
LEMMA EndGateInv ==
    ASSUME GateInv, EndSweep, proc' \in {None, proc}
    PROVE  GateInv'
<1>1. sweep' = [pc |-> "idle", n |-> sweep.n, args |-> <<>>, configs |-> <<>>,
                variants |-> <<>>, outcomes |-> <<>>, corr |-> <<>>, best |-> 0]
  BY DEF EndSweep, NoSweep
<1>2. IsSweep(sweep') /\ sweep'.pc = "idle" /\ sweep'.outcomes = <<>>
  BY <1>1 DEF IsSweep
<1> QED BY <1>2, ElsewhereGateInv

\* A step that leaves the sweep, the driver processes and their output alone.
LEMMA UnrelatedGateInv ==
    ASSUME GateInv, UNCHANGED <<sweep, proc, out, driver>>
    PROVE  GateInv'
<1>1. WellFormed'
  BY DEF GateInv, WellFormed, IsSweep, IsSeq, IsProc
<1>2. (variant)' = variant /\ (args)' = args
  BY DEF variant, raced, args
<1>3. Realizes(variant)' = Realizes(variant)
  BY <1>2 DEF Realizes
<1>4. RunsVariant' /\ Measured'
  BY <1>3 DEF GateInv, RunsVariant, Measured
<1>5. GateSound'
  BY DEF GateInv, GateSound, Acceptable, rel_ceiling, args
<1> QED BY <1>1, <1>4, <1>5 DEF GateInv

\* A driver changes neither what it runs nor, once it has exited well, the file
\* it wrote.
LEMMA DriverMoves ==
    ASSUME IsProc(proc), DriverStep
    PROVE  /\ IsProc(proc') /\ proc' # None
           /\ proc'.kernel = proc.kernel /\ proc'.cmd = proc.cmd
           /\ proc'.buffer \in {proc.buffer, proc.kernel}
           /\ proc.cmd.prog = "bench" /\ proc'.pc = "exit" /\ proc'.exit = 0
                 => out' = proc'.buffer
<1> DEFINE Moves == /\ IsProc(proc') /\ proc' # None
                    /\ proc'.kernel = proc.kernel /\ proc'.cmd = proc.cmd
                    /\ proc'.buffer \in {proc.buffer, proc.kernel}
           Ran(where) == proc' = [proc EXCEPT !.pc = where, !.buffer = proc.kernel]
<1>1. ASSUME NEW where, where \notin {"none", "exit"}, Goto(where)
      PROVE  Moves /\ proc'.pc # "exit"
  <2>1. proc' = [pc |-> where, cmd |-> proc.cmd, plan |-> proc.plan, kernel |-> proc.kernel,
                 buffer |-> proc.buffer, exit |-> proc.exit]
    BY <1>1 DEF Goto, IsProc
  <2> QED BY <1>1, <2>1 DEF IsProc, None
<1>2. ASSUME NEW code, Exit(code)
      PROVE  Moves /\ proc'.exit = code /\ proc'.buffer = proc.buffer
  <2>1. proc' = [pc |-> "exit", cmd |-> proc.cmd, plan |-> proc.plan, kernel |-> proc.kernel,
                 buffer |-> proc.buffer, exit |-> code]
    BY <1>2 DEF Exit, IsProc
  <2> QED BY <2>1 DEF IsProc, None
<1>3. ASSUME NEW where, where \notin {"none", "exit"}, Ran(where)
      PROVE  Moves /\ proc'.pc # "exit"
  <2>1. proc' = [pc |-> where, cmd |-> proc.cmd, plan |-> proc.plan, kernel |-> proc.kernel,
                 buffer |-> proc.kernel, exit |-> proc.exit]
    BY <1>3 DEF IsProc
  <2> QED BY <1>3, <2>1 DEF IsProc, None
<1> DEFINE Goal == Moves /\ (proc.cmd.prog = "bench" /\ proc'.pc = "exit" /\ proc'.exit = 0
                                => out' = proc'.buffer)
<1> SUFFICES Goal
  OBVIOUS
<1> HIDE DEF Moves
<1>4. CASE Parse
  <2>1. CASE Probes(proc.cmd) /\ run_dev
    <3>1. proc.cmd.prog # "bench"
      BY <2>1 DEF Probes
    <3>2. CASE Exit(0)
      BY <1>2, <3>1, <3>2
    <3>3. CASE Exit(1)
      BY <1>2, <3>3
    <3> QED BY <2>1, <3>2, <3>3 DEF run_dev
  <2>2. CASE Exit(1)
    BY <1>2, <2>2
  <2>3. CASE Exit(2)
    BY <1>2, <2>3
  <2>4. CASE Goto("read")
    BY <1>1, <2>4
  <2> QED BY <1>4, <2>1, <2>2, <2>3, <2>4 DEF Parse, run_neg
<1>5. CASE read_npy_bf16
  BY <1>1, <1>2, <1>5 DEF read_npy_bf16
<1>6. CASE Check
  <2>1. Exit(128) \/ Exit(1) \/ Goto("compute") \/ Goto("upload")
    BY <1>6 DEF Check
  <2> QED BY <1>1, <1>2, <2>1
<1>7. CASE upload
  BY <1>1, <1>2, <1>7 DEF upload, Checked, CK_, PK_HIP_CHECK
<1>8. CASE PK_CHECK
  <2>1. Exit(2) \/ Ran("sync") \/ Goto("sync")
    BY <1>8 DEF PK_CHECK
  <2> HIDE DEF Ran
  <2> QED BY <1>1, <1>2, <1>3, <2>1
<1>9. CASE Sync
  BY <1>1, <1>2, <1>9 DEF Sync, Checked, CK_, PK_HIP_CHECK
<1>10. CASE Compute
  <2>1. Ran("write")
    BY <1>10 DEF Compute
  <2> HIDE DEF Ran
  <2> QED BY <1>3, <2>1
<1>11. CASE download_write
  BY <1>1, <1>2, <1>11 DEF download_write
<1>12. CASE write_npy_bf16
  BY <1>2, <1>12 DEF write_npy_bf16
<1> HIDE DEF Goal
<1> QED BY <1>4, <1>5, <1>6, <1>7, <1>8, <1>9, <1>10, <1>11, <1>12 DEF DriverStep

\* A step of a driver, of the sweep or of the harness.
LEMMA DriveGateInv ==
    ASSUME GateInv, Drive \/ Hang
    PROVE  GateInv'
<1>1. UNCHANGED <<sweep, driver>>
  BY DEF Drive, Hang, bench
<1>2. IsProc(proc)
  <2>1. proc # None
    BY DEF Drive, Hang, DriverStep, None, At, Parse, read_npy_bf16, Check, upload, PK_CHECK,
           Sync, Compute, download_write, write_npy_bf16
  <2> QED BY <2>1 DEF GateInv, WellFormed
<1>3. /\ IsProc(proc') /\ proc' # None
      /\ proc'.kernel = proc.kernel /\ proc'.cmd = proc.cmd
      /\ proc'.buffer \in {proc.buffer, proc.kernel}
      /\ proc.cmd.prog = "bench" /\ proc'.pc = "exit" /\ proc'.exit = 0
            => out' = proc'.buffer
  <2>1. CASE Drive
    BY <1>2, <2>1, DriverMoves DEF Drive
  <2>2. CASE Hang
    <3>1. proc' = [pc |-> "hung", cmd |-> proc.cmd, plan |-> proc.plan, kernel |-> proc.kernel,
                   buffer |-> proc.buffer, exit |-> proc.exit]
      BY <1>2, <2>2 DEF Hang, Goto, IsProc
    <3> QED BY <3>1 DEF IsProc, None
  <2> QED BY <2>1, <2>2
<1>4. sweep.pc \in {"idle", "run"}
  BY <1>2 DEF GateInv, WellFormed, IsProc, None
<1>5. WellFormed'
  BY <1>1, <1>3, <1>4 DEF GateInv, WellFormed, IsSweep, IsSeq
<1>6. Realizes(variant)' = Realizes(variant)
  BY <1>1 DEF Realizes, variant, raced, args
<1>7. RunsVariant'
  <2>1. CASE sweep.pc = "run"
    <3>1. /\ proc.kernel = Realizes(variant) /\ proc.cmd.prog = "bench"
          /\ proc.buffer \in {proc.kernel, "garbage"}
      BY <1>2, <2>1 DEF GateInv, RunsVariant, IsProc, None
    <3>2. /\ proc'.kernel = Realizes(variant)' /\ proc'.cmd.prog = "bench"
          /\ proc'.buffer \in {proc'.kernel, "garbage"}
          /\ proc'.pc = "exit" /\ proc'.exit = 0 => out' \in {proc'.kernel, "garbage"}
      BY <1>3, <1>6, <3>1
    <3> QED BY <3>2 DEF RunsVariant
  <2>2. CASE sweep.pc # "run"
    BY <1>1, <2>2 DEF RunsVariant
  <2> QED BY <2>1, <2>2
<1>8. Measured'
  BY <1>1, <1>4 DEF Measured
<1>9. GateSound'
  BY <1>1 DEF GateInv, GateSound, Acceptable, rel_ceiling, args
<1> QED BY <1>5, <1>7, <1>8, <1>9 DEF GateInv

\* The harness starts and reaps its drivers while no sweep runs.
LEMMA HarnessGateInv ==
    ASSUME GateInv, Reap \/ \E c \in Calls : Invoke(c)
    PROVE  GateInv'
<1>1. sweep.pc = "idle" /\ UNCHANGED <<sweep, driver>>
  BY DEF Reap, Invoke, AtSweep, bench
<1>2. (proc = None \/ IsProc(proc))'
  BY DEF Reap, Invoke, Start, IsProc
<1>3. WellFormed'
  BY <1>1, <1>2 DEF GateInv, WellFormed, IsSweep, IsSeq
<1>4. GateSound'
  BY <1>1 DEF GateInv, GateSound, Acceptable, rel_ceiling, args
<1> QED BY <1>1, <1>3, <1>4 DEF GateInv, RunsVariant, Measured

\* The driver of the next variant starts on memory nobody wrote.
LEMMA RunGateInv ==
    ASSUME GateInv, run_run
    PROVE  GateInv'
<1>1. sweep.pc = "run" /\ UNCHANGED <<sweep, driver>>
  BY DEF run_run, AtSweep, bench
<1>2. PICK c, p : c.prog = "bench" /\ proc' = Start(c, p, Realizes(variant))
  BY DEF run_run
<1>3. Realizes(variant)' = Realizes(variant)
  BY <1>1 DEF Realizes, variant, raced, args
<1>4. WellFormed'
  BY <1>1, <1>2 DEF GateInv, WellFormed, IsSweep, IsSeq, Start, IsProc
<1>5. RunsVariant'
  BY <1>2, <1>3 DEF RunsVariant, Start
<1>6. GateSound'
  BY <1>1 DEF GateInv, GateSound, Acceptable, rel_ceiling, args
<1> QED BY <1>1, <1>4, <1>5, <1>6 DEF GateInv, Measured

\* Its output is taken only after it ended well ...
LEMMA RunEndedGateInv ==
    ASSUME GateInv, RunEnded
    PROVE  GateInv'
<1>1. sweep.pc = "run" /\ proc.pc = "exit" /\ proc # None /\ proc' = None
      /\ UNCHANGED <<out, driver>>
  BY DEF RunEnded, AtSweep, None
<1>2. CASE proc.exit # 0
  BY <1>1, <1>2, EndGateInv DEF RunEnded
<1>3. CASE proc.exit = 0
  <2>1. sweep' = [pc |-> "compare", n |-> sweep.n, args |-> sweep.args,
                  configs |-> sweep.configs, variants |-> sweep.variants,
                  outcomes |-> sweep.outcomes, corr |-> sweep.corr, best |-> sweep.best]
    BY <1>3 DEF RunEnded, GateInv, WellFormed, IsSweep
  <2>2. out \in {Realizes(variant), "garbage"}
    BY <1>1, <1>3 DEF GateInv, RunsVariant
  <2>3. Realizes(variant)' = Realizes(variant)
    BY <1>1, <2>1 DEF Realizes, variant, raced, args
  <2>4. WellFormed'
    BY <1>1, <2>1 DEF GateInv, WellFormed, IsSweep, IsSeq
  <2>5. GateSound'
    BY <2>1 DEF GateInv, GateSound, Acceptable, rel_ceiling, args
  <2>6. RunsVariant' /\ Measured'
    BY <1>1, <2>1, <2>2, <2>3 DEF RunsVariant, Measured
  <2> QED BY <2>4, <2>5, <2>6 DEF GateInv
<1> QED BY <1>2, <1>3

\* ... and compared ...
LEMMA CompareGateInv ==
    ASSUME GateInv, Compare
    PROVE  GateInv'
<1>1. sweep.pc = "compare" /\ UNCHANGED <<proc, driver>> /\ proc = None
  BY DEF Compare, AtSweep, GateInv, WellFormed
<1>2. CASE out \in {"missing", "torn"}
  BY <1>1, <1>2, EndGateInv DEF Compare
<1>3. CASE out \notin {"missing", "torn"}
  <2>1. sweep' = [pc |-> "time", n |-> sweep.n, args |-> sweep.args,
                  configs |-> sweep.configs, variants |-> sweep.variants,
                  outcomes |-> sweep.outcomes, corr |-> <<Metrics(out)>>, best |-> sweep.best]
    BY <1>3 DEF Compare, GateInv, WellFormed, IsSweep
  <2>2. out \in {Realizes(variant), "garbage"}
    BY <1>1 DEF GateInv, Measured
  <2>3. Realizes(variant)' = Realizes(variant)
    BY <1>1, <2>1 DEF Realizes, variant, raced, args
  <2>4. WellFormed'
    BY <1>1, <2>1 DEF GateInv, WellFormed, IsSweep, IsSeq
  <2>5. GateSound'
    BY <2>1 DEF GateInv, GateSound, Acceptable, rel_ceiling, args
  <2>6. \E k \in {Realizes(variant)', "garbage"} : sweep'.corr = <<Metrics(k)>>
    BY <2>1, <2>2, <2>3
  <2>7. RunsVariant' /\ Measured'
    BY <1>1, <2>1, <2>6 DEF RunsVariant, Measured
  <2> QED BY <2>4, <2>5, <2>7 DEF GateInv
<1> QED BY <1>2, <1>3

\* ... and a time is recorded only behind the gate.
LEMMA TimeGateInv ==
    ASSUME GateInv, run_time
    PROVE  GateInv'
<1>1. sweep.pc = "time" /\ UNCHANGED <<proc, driver>> /\ proc = None
  BY DEF run_time, AtSweep, GateInv, WellFormed
<1>2. CASE EndSweep
  BY <1>1, <1>2, EndGateInv
<1>3. CASE ~EndSweep
  <2>1. PICK o : /\ Outcome(o)
                 /\ o.ran = Realizes(variant)
                 /\ o.validated <=> o.time_ms # <<>>
                 /\ o.validated => PassesCorrectnessGate(sweep.corr[1], rel_ceiling(args))
    <3> DEFINE rec(validated, t) ==
                 [variant |-> variant, ran |-> Realizes(variant), corr |-> sweep.corr[1],
                  validated |-> validated, time_ms |-> t]
    <3>1. CASE ~PassesCorrectnessGate(sweep.corr[1], rel_ceiling(args))
      <4>1. Outcome(rec(FALSE, <<>>))
        BY <1>3, <3>1 DEF run_time
      <4> QED BY <4>1
    <3>2. CASE PassesCorrectnessGate(sweep.corr[1], rel_ceiling(args))
      <4>1. PICK t : Outcome(rec(TRUE, <<t>>))
        BY <1>3, <3>2 DEF run_time
      <4>2. <<t>> # <<>>
        OBVIOUS
      <4> QED BY <3>2, <4>1, <4>2
    <3> QED BY <3>1, <3>2
  <2>2. sweep' = [pc |-> "run", n |-> sweep.n, args |-> sweep.args,
                  configs |-> sweep.configs, variants |-> sweep.variants,
                  outcomes |-> Append(sweep.outcomes, o), corr |-> <<>>, best |-> sweep.best]
    BY <2>1 DEF Outcome, GateInv, WellFormed, IsSweep
  <2>3. PICK k \in {Realizes(variant), "garbage"} : sweep.corr = <<Metrics(k)>>
    BY <1>1 DEF GateInv, Measured
  <2>4. o.validated => o.ran \in Acceptable(args)
    <3>1. o.validated => k \in Acceptable(args)
      BY <2>1, <2>3, GateAccepts
    <3>2. "garbage" \notin Acceptable(args)
      BY DEF Acceptable
    <3> QED BY <2>1, <2>3, <3>1, <3>2
  <2>5. PICK q, L : q = sweep.outcomes /\ L = Len(q) /\ IsSeq(q)
    BY DEF GateInv, WellFormed
  <2>6. /\ IsSeq(Append(q, o)) /\ L \in Nat /\ DOMAIN q = 1..L
        /\ DOMAIN Append(q, o) = 1..(L + 1)
        /\ Append(q, o)[L + 1] = o /\ \A i \in 1..L : Append(q, o)[i] = q[i]
    BY <2>5, AppendIsSeq
  <2>7. sweep'.outcomes = Append(q, o) /\ Acceptable(args)' = Acceptable(args)
    BY <2>2, <2>5 DEF Acceptable, rel_ceiling, args
  <2>8. ASSUME NEW i \in 1..(L + 1)
        PROVE  /\ Append(q, o)[i].validated <=> Append(q, o)[i].time_ms # <<>>
               /\ Append(q, o)[i].validated => Append(q, o)[i].ran \in Acceptable(args)
    <3>1. CASE i = L + 1
      BY <2>1, <2>4, <2>6, <3>1
    <3>2. CASE i \in 1..L
      BY <2>5, <2>6, <3>2 DEF GateInv, GateSound
    <3> QED BY <2>6, <3>1, <3>2
  <2>9. GateSound'
    BY <2>6, <2>7, <2>8 DEF GateSound
  <2>10. WellFormed'
    BY <1>1, <2>2, <2>6, <2>7 DEF GateInv, WellFormed, IsSweep
  <2> QED BY <1>1, <2>2, <2>9, <2>10 DEF GateInv, RunsVariant, Measured
<1> QED BY <1>2, <1>3

\* The other steps of a sweep.
LEMMA SweepGateInv ==
    ASSUME GateInv,
           \/ build_driver \/ probe_device \/ enumerate_configs \/ LongRace \/ SelectBest
           \/ run_write_cache_open \/ run_write_cache \/ Timeout \/ Interrupt
           \/ \E s \in Sweeps : StartSweep(s)
    PROVE  GateInv'
<1>1. CASE EndSweep
  <2>1. proc' \in {None, proc}
    BY DEF build_driver, probe_device, enumerate_configs, LongRace, SelectBest, StartSweep,
           run_write_cache_open, run_write_cache, Timeout, Interrupt
  <2> QED BY <1>1, <2>1, EndGateInv
<1>2. CASE ~EndSweep
  <2>0. PICK where \in {"build", "probe", "enumerate", "long", "run", "open", "write"} :
        \E n, a, cs, vs, os, b :
          /\ sweep' = [pc |-> where, n |-> n, args |-> a, configs |-> cs, variants |-> vs,
                       outcomes |-> os, corr |-> sweep'.corr, best |-> b]
          /\ os = <<>> \/ (os = sweep.outcomes /\ a = sweep.args)
    <3>1. CASE \E s \in Sweeps : StartSweep(s)
      BY <3>1 DEF StartSweep, NoSweep
    <3>2. CASE build_driver
      BY <1>2, <3>2 DEF build_driver, GateInv, WellFormed, IsSweep
    <3>3. CASE probe_device
      BY <1>2, <3>3 DEF probe_device, GateInv, WellFormed, IsSweep
    <3>4. CASE enumerate_configs
      BY <1>2, <3>4 DEF enumerate_configs, GateInv, WellFormed, IsSweep
    <3>5. CASE SelectBest
      BY <1>2, <3>5 DEF SelectBest, GateInv, WellFormed, IsSweep
    <3>6. CASE run_write_cache_open
      BY <1>2, <3>6 DEF run_write_cache_open, GateInv, WellFormed, IsSweep
    <3>7. CASE LongRace \/ run_write_cache \/ Timeout \/ Interrupt
      BY <1>2, <3>7 DEF LongRace, run_write_cache, Timeout, Interrupt
    <3> QED BY <3>1, <3>2, <3>3, <3>4, <3>5, <3>6, <3>7
  <2>1. PICK n, a, cs, vs, os, b :
          /\ sweep' = [pc |-> where, n |-> n, args |-> a, configs |-> cs, variants |-> vs,
                       outcomes |-> os, corr |-> sweep'.corr, best |-> b]
          /\ os = <<>> \/ (os = sweep.outcomes /\ a = sweep.args)
    BY <2>0
  <2>2. proc' = None
    BY <1>2 DEF build_driver, probe_device, enumerate_configs, LongRace, SelectBest, StartSweep,
           run_write_cache_open, run_write_cache, Timeout, Interrupt, AtSweep, GateInv, WellFormed
  <2>3. IsSweep(sweep') /\ sweep'.pc = where
        /\ (sweep'.outcomes = <<>> \/ UNCHANGED <<sweep.outcomes, sweep.args>>)
    BY <2>1 DEF IsSweep
  <2> QED BY <2>1, <2>2, <2>3, ElsewhereGateInv
<1> QED BY <1>1, <1>2

THEOREM SpecGateInv == Spec => []GateInv
<1>1. Init => GateInv
  BY EmptyIsSeq DEF Init, GateInv, WellFormed, RunsVariant, Measured, GateSound, NoSweep, IsSweep
<1>2. GateInv /\ [Next]_vars => GateInv'
  <2> SUFFICES ASSUME GateInv, [Next]_vars PROVE GateInv'
    OBVIOUS
  <2>1. CASE UNCHANGED <<sweep, proc, out, driver>>
    BY <2>1, UnrelatedGateInv
  <2>2. CASE UNCHANGED vars \/ (\E k \in Kinds : Edit(k)) \/ Damage \/ LoadTuningCache
             \/ \E d \in Devices, s \in Sweeps : Run(d, s.op, s.shape)
    BY <2>1, <2>2 DEF vars, Edit, Damage, LoadTuningCache, Run, bench
  <2>3. CASE run_run
    BY <2>3, RunGateInv
  <2>4. CASE RunEnded
    BY <2>4, RunEndedGateInv
  <2>5. CASE Compare
    BY <2>5, CompareGateInv
  <2>6. CASE run_time
    BY <2>6, TimeGateInv
  <2>7. CASE Drive \/ Hang
    BY <2>7, DriveGateInv
  <2>8. CASE Reap \/ \E c \in Calls : Invoke(c)
    BY <2>8, HarnessGateInv
  <2>9. CASE \/ build_driver \/ probe_device \/ enumerate_configs \/ LongRace \/ SelectBest
             \/ run_write_cache_open \/ run_write_cache \/ Timeout \/ Interrupt
             \/ \E s \in Sweeps : StartSweep(s)
    BY <2>9, SweepGateInv
  <2> QED BY <2>2, <2>3, <2>4, <2>5, <2>6, <2>7, <2>8, <2>9 DEF Next, SweepStep
<1> QED BY <1>1, <1>2, PTL DEF Spec

\* A time is recorded only for a variant whose kernel is acceptable in the
\* regime of its sweep, for any kernels, sweeps and calls of drivers, wherever
\* a driver fails, hangs or is interrupted.
THEOREM TimesOnlyBehindGate == Spec => []GateSound
<1>1. GateInv => GateSound
  BY DEF GateInv
<1> QED BY <1>1, SpecGateInv, PTL

-----------------------------------------------------------------------------
(* The winner. *)

\* A set of positions that is not empty has a last one.
LEMMA LastPosition ==
    ASSUME NEW n \in Nat, NEW S \in SUBSET (1..n), S # {}
    PROVE  Max(S) \in S /\ \A y \in S : Max(S) >= y
<1> DEFINE T == {n - x : x \in S}
           R == {ss \in Nat \X Nat : ss[1] < ss[2]}
<1>1. IsWellFoundedOn(R, Nat)
  BY NatLessThanWellFounded, Zenon DEF OpToRel
<1>2. T \in SUBSET Nat /\ T # {}
  <2>1. PICK x \in S : TRUE
    OBVIOUS
  <2>2. n - x \in T
    OBVIOUS
  <2>3. \A y \in S : n - y \in Nat
    OBVIOUS
  <2> QED BY <2>2, <2>3
<1>3. PICK d \in T : \A e \in T : ~(<<e, d>> \in R)
  <2> HIDE DEF T, R
  <2> QED BY <1>1, <1>2, WFMin
<1>4. PICK x \in S : d = n - x
  OBVIOUS
<1>5. ASSUME NEW y \in S PROVE x >= y
  <2>1. n - y \in T /\ x \in Nat /\ y \in Nat
    OBVIOUS
  <2>2. n - y < d => <<n - y, d>> \in R
    BY <1>2, <2>1
  <2> HIDE DEF R, T
  <2> QED BY <1>2, <1>3, <1>4, <2>1, <2>2
<1> QED BY <1>5 DEF Max

Validated(q, i) == q[i].validated
TimeOf(q, i) == q[i].time_ms[1]

\* Of the positions in s, best is the first of the fastest validated ones.
BestOf(q, s, best) ==
    /\ best \in s \cup {0}
    /\ best = 0 => \A i \in s : ~Validated(q, i)
    /\ best # 0 =>
          /\ Validated(q, best)
          /\ \A j \in s : Validated(q, j) =>
                \/ TimeOf(q, best) < TimeOf(q, j)
                \/ TimeOf(q, best) = TimeOf(q, j) /\ best <= j

\* SelectBestValidated's loop keeps the best of what it has seen.
Faster(q, best, i) ==
    IF q[i].validated /\ q[i].time_ms # <<>>
       /\ (best = 0 \/ q[i].time_ms[1] < q[best].time_ms[1])
    THEN i ELSE best

HasTimes(q) ==
    \A i \in DOMAIN q : q[i].validated => q[i].time_ms # <<>> /\ q[i].time_ms[1] \in Int

LEMMA FasterKeepsBest ==
    ASSUME NEW q, NEW n \in Nat, DOMAIN q = 1..n, HasTimes(q),
           NEW s \in SUBSET (1..n), NEW m \in s, \A y \in s : m >= y,
           NEW best, BestOf(q, s \ {m}, best)
    PROVE  BestOf(q, s, Faster(q, best, m))
<1>1. \A i \in 1..n : Validated(q, i) => q[i].time_ms # <<>> /\ TimeOf(q, i) \in Int
  BY DEF HasTimes, Validated, TimeOf
<1>2. m \in 1..n /\ (best # 0 => best \in 1..n) /\ 0 \notin 1..n
  BY DEF BestOf
<1>3. CASE Validated(q, m) /\ (best = 0 \/ TimeOf(q, m) < TimeOf(q, best))
  <2>1. Faster(q, best, m) = m
    BY <1>1, <1>2, <1>3 DEF Faster, Validated, TimeOf
  <2>2. ASSUME NEW j \in s, Validated(q, j), j # m
        PROVE  TimeOf(q, m) < TimeOf(q, j)
    <3>1. best # 0 /\ (TimeOf(q, best) < TimeOf(q, j) \/ TimeOf(q, best) = TimeOf(q, j))
      BY <2>2 DEF BestOf
    <3>2. TimeOf(q, m) \in Int /\ TimeOf(q, best) \in Int /\ TimeOf(q, j) \in Int
      BY <1>1, <1>2, <1>3, <2>2, <3>1 DEF BestOf
    <3> QED BY <1>3, <3>1, <3>2
  <2>3. m # 0 /\ m <= m
    BY <1>2
  <2> QED BY <1>3, <2>1, <2>2, <2>3 DEF BestOf
<1>4. CASE ~(Validated(q, m) /\ (best = 0 \/ TimeOf(q, m) < TimeOf(q, best)))
  <2>1. Faster(q, best, m) = best
    BY <1>4 DEF Faster, Validated, TimeOf
  <2>2. CASE best = 0
    BY <1>4, <2>1, <2>2 DEF BestOf
  <2>3. CASE best # 0
    <3>1. Validated(q, best) /\ TimeOf(q, best) \in Int /\ best \in s /\ best <= m
      BY <1>1, <1>2, <2>3 DEF BestOf
    <3>2. Validated(q, m) => TimeOf(q, best) < TimeOf(q, m) \/ TimeOf(q, best) = TimeOf(q, m)
      BY <1>1, <1>2, <1>4, <3>1
    <3> QED BY <2>1, <2>3, <3>1, <3>2 DEF BestOf
  <2> QED BY <2>2, <2>3
<1> QED BY <1>3, <1>4

\* Python's minimum and the C++ loop choose the same.
LEMMA SelectsFirstFastest ==
    ASSUME NEW q, IsSeq(q), HasTimes(q), NEW b \in FastestValidated(q)
    PROVE  SelectBestValidated(q) = b
<1>1. PICK n \in Nat : n = Len(q) /\ DOMAIN q = 1..n
  BY AppendIsSeq
<1> DEFINE S == 1..n
           idx == [i \in 1..n |-> i]
           body(h, s) == IF s = {} THEN 0 ELSE Faster(q, h[s \ {Max(s)}], Max(s))
           Iter(h) == h = [s \in SUBSET S |-> body(h, s)]
           pick == [s \in SUBSET S |-> Max(s)]
           step == [xv \in S \X (0..n) |-> Faster(q, xv[2], xv[1])]
           h == CHOOSE f : Iter(f)
<1>2. SelectBestValidated(q) = h[S]
  <2>1. DOMAIN idx = S /\ Len(q) = n
    BY <1>1
  <2>2. h = CHOOSE f : f = [s \in SUBSET S |->
                 IF s = {} THEN 0 ELSE Faster(q, f[s \ {Max(s)}], idx[Max(s)])]
    <3>1. \A s \in SUBSET S : s # {} => idx[Max(s)] = Max(s)
      BY LastPosition
    <3>2. ASSUME NEW f
          PROVE  [s \in SUBSET S |-> body(f, s)] =
                 [s \in SUBSET S |->
                     IF s = {} THEN 0 ELSE Faster(q, f[s \ {Max(s)}], idx[Max(s)])]
      BY <3>1
    <3> QED BY <3>2
  <2>3. SelectBestValidated(q) =
           (CHOOSE f : f = [s \in SUBSET (DOMAIN idx) |->
                 IF s = {} THEN 0 ELSE Faster(q, f[s \ {Max(s)}], idx[Max(s)])])[DOMAIN idx]
    BY <2>1 DEF SelectBestValidated, FoldLeft, MapThenFoldSet, Faster
  <2> QED BY <2>1, <2>2, <2>3
<1>3. IsFiniteSet(S) /\ Picks(S, pick)
  <2>1. IsFiniteSet(S)
    <3>1. 1 \in Int /\ n \in Int
      OBVIOUS
    <3> QED BY <3>1, FS_Interval
  <2>2. \A s \in SUBSET S : s # {} => Max(s) \in s
    BY LastPosition
  <2>3. \A s \in SUBSET S : pick[s] = Max(s)
    OBVIOUS
  <2> HIDE DEF pick, S
  <2> QED BY <2>1, <2>2, <2>3 DEF Picks
<1>4. 0 \in 0..n /\ step \in [S \X (0..n) -> 0..n]
  BY DEF Faster
<1>5. PICK f \in [SUBSET S -> 0..n] : IsFold(S, pick, 0, step, f)
  <2> HIDE DEF S, pick, step
  <2> QED BY <1>3, <1>4, FoldExists
<1>6. Iter(f)
  <2>1. ASSUME NEW s \in SUBSET S
        PROVE  f[s] = body(f, s)
    <3>1. CASE s = {}
      BY <1>5, <3>1 DEF IsFold
    <3>2. CASE s # {}
      <4>1. Max(s) \in S /\ s \ {Max(s)} \in SUBSET S /\ pick[s] = Max(s)
        BY <3>2, LastPosition
      <4>2. f[s] = step[<<Max(s), f[s \ {Max(s)}]>>]
        <5> HIDE DEF S, step, pick
        <5> QED BY <1>5, <3>2, <4>1 DEF IsFold
      <4> QED BY <3>2, <4>1, <4>2
    <3> QED BY <3>1, <3>2
  <2>2. f = [s \in SUBSET S |-> f[s]]
    BY <1>5
  <2> HIDE DEF S
  <2> QED BY <2>1, <2>2
<1>7. Iter(h)
  BY <1>6
<1> HIDE DEF h
<1>8. \A s \in SUBSET S : h[s] = body(h, s)
  BY <1>7
<1> DEFINE good == [s \in SUBSET S |-> IF BestOf(q, s, h[s]) THEN 1 ELSE 0]
           One == {1}
<1>9. \A s \in SUBSET S : good[s] \in One
  <2>1. good[{}] \in One
    <3>1. h[{}] = 0
      BY <1>8
    <3> QED BY <3>1 DEF BestOf
  <2>2. ASSUME NEW s \in SUBSET S, s # {}, good[s \ {pick[s]}] \in One
        PROVE  good[s] \in One
    <3>1. Max(s) \in s /\ (\A y \in s : Max(s) >= y) /\ pick[s] = Max(s)
      BY <2>2, LastPosition
    <3>2. s \ {Max(s)} \in SUBSET S
      OBVIOUS
    <3>3. BestOf(q, s \ {Max(s)}, h[s \ {Max(s)}])
      BY <2>2, <3>1, <3>2
    <3>4. BestOf(q, s, Faster(q, h[s \ {Max(s)}], Max(s)))
      BY <1>1, <3>1, <3>3, FasterKeepsBest
    <3>5. h[s] = Faster(q, h[s \ {Max(s)}], Max(s))
      BY <1>8, <2>2
    <3> QED BY <3>4, <3>5
  <2> HIDE DEF good, pick, S, One
  <2> QED BY <1>3, <2>1, <2>2, FoldStays
<1>10. BestOf(q, S, h[S])
  <2>1. S \in SUBSET S /\ good[S] = 1
    BY <1>9
  <2> QED BY <2>1
<1>11. /\ b \in S /\ Validated(q, b)
       /\ \A j \in S : Validated(q, j) =>
              \/ TimeOf(q, b) < TimeOf(q, j)
              \/ TimeOf(q, b) = TimeOf(q, j) /\ b <= j
  BY <1>1 DEF FastestValidated, Validated, TimeOf
<1>12. PICK v : v = h[S]
  OBVIOUS
<1>13. v \in S /\ Validated(q, v)
  BY <1>10, <1>11, <1>12 DEF BestOf
<1>14. TimeOf(q, b) \in Int /\ TimeOf(q, v) \in Int
  BY <1>1, <1>11, <1>13 DEF HasTimes, Validated, TimeOf
<1>15. TimeOf(q, v) < TimeOf(q, b) \/ (TimeOf(q, v) = TimeOf(q, b) /\ v <= b)
  BY <1>10, <1>11, <1>12, <1>13 DEF BestOf
<1>16. TimeOf(q, b) < TimeOf(q, v) \/ (TimeOf(q, b) = TimeOf(q, v) /\ b <= v)
  BY <1>11, <1>13
<1>17. v = b
  BY <1>11, <1>13, <1>14, <1>15, <1>16
<1> QED BY <1>2, <1>12, <1>17

\* From its selection to the end of the sweep the winner is the first of the
\* fastest; before that there is none.
WinnerInv ==
    /\ HasTimes(sweep.outcomes)
    /\ IF sweep.pc \in {"open", "write"} THEN sweep.best \in FastestValidated(sweep.outcomes)
       ELSE sweep.best = 0

\* A time that is recorded is a printed median, which is a number.
LEMMA RecordWinnerInv ==
    ASSUME GateInv, WinnerInv, run_time, ~EndSweep
    PROVE  WinnerInv'
<1>1. PICK o : /\ Outcome(o)
               /\ o.validated => o.time_ms # <<>> /\ o.time_ms[1] \in Int
  <2> DEFINE rec(validated, t) ==
               [variant |-> variant, ran |-> Realizes(variant), corr |-> sweep.corr[1],
                validated |-> validated, time_ms |-> t]
  <2>1. CASE ~PassesCorrectnessGate(sweep.corr[1], rel_ceiling(args))
    <3>1. Outcome(rec(FALSE, <<>>))
      BY <2>1 DEF run_time
    <3> QED BY <3>1
  <2>2. CASE PassesCorrectnessGate(sweep.corr[1], rel_ceiling(args))
    <3>1. PICK ts \in [1..args.iters -> Times] :
             \E t \in MedianPrinted(ts) : Outcome(rec(TRUE, <<t>>))
      BY <2>2 DEF run_time
    <3>2. PICK t \in MedianPrinted(ts) : Outcome(rec(TRUE, <<t>>))
      BY <3>1
    <3>3. t \in Int
      <4>1. PICK i \in DOMAIN ts : t = (ts[i] + 5) \div 10
        BY DEF MedianPrinted
      <4>2. ts[i] \in Int
        BY <4>1, SweepAssumption
      <4> QED BY <4>1, <4>2
    <3> QED BY <3>2, <3>3
  <2> QED BY <2>1, <2>2
<1>2. sweep' = [pc |-> "run", n |-> sweep.n, args |-> sweep.args,
                configs |-> sweep.configs, variants |-> sweep.variants,
                outcomes |-> Append(sweep.outcomes, o), corr |-> <<>>, best |-> sweep.best]
  BY <1>1 DEF Outcome, GateInv, WellFormed, IsSweep
<1>3. sweep.best = 0
  BY DEF WinnerInv, run_time, AtSweep
<1>4. PICK q : q = sweep.outcomes /\ IsSeq(q)
  BY DEF GateInv, WellFormed
<1>5. HasTimes(Append(q, o))
  <2>1. /\ Len(q) \in Nat /\ DOMAIN q = 1..Len(q)
        /\ DOMAIN Append(q, o) = 1..(Len(q) + 1)
        /\ Append(q, o)[Len(q) + 1] = o
        /\ \A i \in 1..Len(q) : Append(q, o)[i] = q[i]
    BY <1>4, AppendIsSeq
  <2>2. \A i \in 1..Len(q) : q[i].validated => q[i].time_ms # <<>> /\ q[i].time_ms[1] \in Int
    BY <1>4, <2>1 DEF WinnerInv, HasTimes
  <2>3. ASSUME NEW i \in 1..(Len(q) + 1)
        PROVE  i = Len(q) + 1 \/ i \in 1..Len(q)
    BY <2>1
  <2>4. ASSUME NEW i \in 1..(Len(q) + 1), Append(q, o)[i].validated
        PROVE  Append(q, o)[i].time_ms # <<>> /\ Append(q, o)[i].time_ms[1] \in Int
    BY <1>1, <2>1, <2>2, <2>3, <2>4
  <2> QED BY <2>1, <2>4 DEF HasTimes
<1>6. WinnerInv' <=> HasTimes(sweep'.outcomes) /\
         IF sweep'.pc \in {"open", "write"} THEN sweep'.best \in FastestValidated(sweep'.outcomes)
         ELSE sweep'.best = 0
  BY DEF WinnerInv, HasTimes, FastestValidated
<1> QED BY <1>2, <1>3, <1>4, <1>5, <1>6

LEMMA NextWinnerInv ==
    ASSUME GateInv, WinnerInv, [Next]_vars
    PROVE  WinnerInv'
<1>0. WinnerInv' <=> HasTimes(sweep'.outcomes) /\
         IF sweep'.pc \in {"open", "write"} THEN sweep'.best \in FastestValidated(sweep'.outcomes)
         ELSE sweep'.best = 0
  BY DEF WinnerInv, HasTimes, FastestValidated
<1>1. HasTimes(<<>>)
  BY EmptyIsSeq DEF HasTimes
<1>2. CASE EndSweep
  BY <1>0, <1>1, <1>2 DEF EndSweep, NoSweep
<1>3. CASE \E s \in Sweeps : StartSweep(s)
  BY <1>0, <1>1, <1>3 DEF StartSweep, NoSweep
<1>4. CASE (build_driver \/ probe_device \/ enumerate_configs \/ RunEnded \/ Compare) /\ ~EndSweep
  <2>1. /\ sweep'.outcomes = sweep.outcomes /\ sweep'.best = sweep.best
        /\ sweep'.pc \in {"probe", "enumerate", "long", "run", "compare", "time"}
    BY <1>4 DEF build_driver, probe_device, enumerate_configs, RunEnded, Compare,
                GateInv, WellFormed, IsSweep
  <2>2. sweep.pc \notin {"open", "write"}
    BY <1>4 DEF build_driver, probe_device, enumerate_configs, RunEnded, Compare, AtSweep
  <2> QED BY <1>0, <2>1, <2>2 DEF WinnerInv
<1>5. CASE run_time /\ ~EndSweep
  BY <1>5, RecordWinnerInv
<1>6. CASE SelectBest /\ ~EndSweep
  <2>1. PICK b \in FastestValidated(sweep.outcomes) :
            sweep' = [sweep EXCEPT !.pc = "open", !.best = b]
    BY <1>6 DEF SelectBest
  <2>2. sweep'.outcomes = sweep.outcomes /\ sweep'.best = b /\ sweep'.pc = "open"
    BY <2>1 DEF GateInv, WellFormed, IsSweep
  <2> QED BY <1>0, <2>2 DEF WinnerInv
<1>7. CASE run_write_cache_open /\ ~EndSweep
  <2>1. /\ sweep'.outcomes = sweep.outcomes /\ sweep'.best = sweep.best
        /\ sweep'.pc = "write" /\ sweep.pc = "open"
    BY <1>7 DEF run_write_cache_open, AtSweep, GateInv, WellFormed, IsSweep
  <2> QED BY <1>0, <2>1 DEF WinnerInv
<1>8. CASE UNCHANGED sweep
  BY <1>0, <1>8 DEF WinnerInv
<1> QED BY <1>2, <1>3, <1>4, <1>5, <1>6, <1>7, <1>8
        DEF Next, SweepStep, vars, LongRace, run_run, run_write_cache, Timeout,
            Drive, Reap, Hang, Interrupt, Damage, LoadTuningCache, Edit, Invoke, Run, bench

\* The winner of a sweep is, at every moment it is held, the one that
\* SelectBestValidated's loop chooses among the outcomes: bench.py's minimum
\* over the printed medians breaks ties as the loop does, for any number of
\* variants, times and iterations.
THEOREM BestIsRecorded == Spec => []RecordsBest
<1>1. Init => WinnerInv
  BY EmptyIsSeq DEF Init, NoSweep, WinnerInv, HasTimes
<1>2. GateInv /\ WinnerInv /\ [Next]_vars => WinnerInv'
  BY NextWinnerInv
<1>3. GateInv /\ WinnerInv => RecordsBest
  <2> SUFFICES ASSUME GateInv, WinnerInv, sweep.best # 0
      PROVE  sweep.best = SelectBestValidated(sweep.outcomes)
    BY DEF RecordsBest
  <2>1. sweep.best \in FastestValidated(sweep.outcomes)
    BY DEF WinnerInv
  <2>2. IsSeq(sweep.outcomes) /\ HasTimes(sweep.outcomes)
    BY DEF GateInv, WellFormed, WinnerInv
  <2> QED BY <2>1, <2>2, SelectsFirstFastest
<1> QED BY <1>1, <1>2, <1>3, SpecGateInv, PTL DEF Spec

-----------------------------------------------------------------------------
(* The search space. *)

\* Pruning keeps admissible configurations of the grid, at most once each.
LEMMA PruneKeeps ==
    ASSUME NEW q, NEW n \in Nat, DOMAIN q = 1..n
    PROVE  \E m \in Nat :
              /\ Prune(q) = [k \in 1..m |-> Prune(q)[k]]
              /\ \E h \in [1..m -> 1..n] :
                    /\ \A k \in 1..m : IsAdmissible(q[h[k]]) /\ Prune(q)[k] = q[h[k]]
                    /\ \A j, k \in 1..m : h[j] = h[k] => j = k
<1> DEFINE kept == {i \in 1..n : IsAdmissible(q[i])}
<1>1. kept \in SUBSET (1..n) /\ Prune(q) = Subsequence(q, kept)
  BY DEF Prune
<1>2. \A i \in kept : IsAdmissible(q[i])
  OBVIOUS
<1> HIDE DEF kept
<1>3. PICK m \in Nat : /\ Prune(q) = [k \in 1..m |-> Prune(q)[k]]
                       /\ \E h \in [1..m -> kept] :
                             /\ \A k \in 1..m : Prune(q)[k] = q[h[k]]
                             /\ \A j, k \in 1..m : h[j] = h[k] => j = k
  <2>1. IsSelection(Prune(q), q, kept)
    BY <1>1, SubsequenceKeeps
  <2> QED BY <2>1 DEF IsSelection
<1>4. PICK h \in [1..m -> kept] : /\ \A k \in 1..m : Prune(q)[k] = q[h[k]]
                                  /\ \A j, k \in 1..m : h[j] = h[k] => j = k
  BY <1>3
<1>5. h \in [1..m -> 1..n] /\ \A k \in 1..m : IsAdmissible(q[h[k]])
  BY <1>1, <1>2, <1>4
<1>6. \E e \in [1..m -> 1..n] :
         /\ \A k \in 1..m : IsAdmissible(q[e[k]]) /\ Prune(q)[k] = q[e[k]]
         /\ \A j, k \in 1..m : e[j] = e[k] => j = k
  BY <1>4, <1>5, Zenon
<1> QED BY <1>3, <1>6, Zenon

IsConfig(c) == c = <<c[1], c[2], c[3], c[4], c[5], c[6], c[7]>>

\* The grid is a sequence of tuples of seven fields.
LEMMA GridConfigs ==
    /\ \E n \in Nat : DOMAIN FullGrid = 1..n
    /\ \A i \in DOMAIN FullGrid : IsConfig(FullGrid[i])
<1>1. \E n \in Nat : DOMAIN FullGrid = 1..n
  <2>1. GridSize \in Nat
    BY DEF GridSize
  <2>2. DOMAIN FullGrid = 1..GridSize
    BY DEF FullGrid
  <2> QED BY <2>1, <2>2, Zenon
<1>2. \A a, b, c, d, e, f, g : IsConfig(<<a, b, c, d, e, f, g>>)
  BY DEF IsConfig
<1>3. ASSUME NEW i \in DOMAIN FullGrid
      PROVE  \E a, b, c, d, e, f, g : FullGrid[i] = <<a, b, c, d, e, f, g>>
  BY DEF FullGrid
<1> QED BY <1>1, <1>2, <1>3

\* The configurations handed to a sweep are tuples of seven fields.
LEMMA EnumerateConfigs ==
    ASSUME NEW limit \in Int
    PROVE  LET cs == run_enumerate(limit)
           IN  /\ \E n \in Nat : cs = [i \in 1..n |-> cs[i]]
               /\ IsSeq(cs)
               /\ \A i \in DOMAIN cs : IsConfig(cs[i])
<1>1. PICK N \in Nat : DOMAIN FullGrid = 1..N
  BY GridConfigs
<1>2. PICK m \in Nat : /\ Enumerate = [k \in 1..m |-> Enumerate[k]]
                       /\ \E h \in [1..m -> 1..N] : \A k \in 1..m : Enumerate[k] = FullGrid[h[k]]
  <2>1. PICK m \in Nat :
            /\ Prune(FullGrid) = [k \in 1..m |-> Prune(FullGrid)[k]]
            /\ \E h \in [1..m -> 1..N] :
                  /\ \A k \in 1..m : IsAdmissible(FullGrid[h[k]])
                                     /\ Prune(FullGrid)[k] = FullGrid[h[k]]
                  /\ \A j, k \in 1..m : h[j] = h[k] => j = k
    BY <1>1, PruneKeeps
  <2> QED BY <2>1 DEF Enumerate
<1>3. \A k \in 1..m : IsConfig(Enumerate[k])
  <2>1. PICK h \in [1..m -> 1..N] : \A k \in 1..m : Enumerate[k] = FullGrid[h[k]]
    BY <1>2
  <2> QED BY <1>1, <2>1, GridConfigs
<1> DEFINE S == {Enumerate[k] : k \in 1..m}
<1>4. Enumerate \in Seq(S) /\ Len(Enumerate) = m
  BY <1>2
<1>5. PICK n \in 0..m : run_enumerate(limit) = SubSeq(Enumerate, 1, n)
  <2> DEFINE n == IF limit < 0 \/ limit > Len(Enumerate) THEN Len(Enumerate) ELSE limit
  <2>1. n \in 0..m
    BY <1>4
  <2>2. run_enumerate(limit) = SubSeq(Enumerate, 1, n)
    BY DEF run_enumerate
  <2> QED BY <2>1, <2>2
<1> HIDE DEF S
<1>6. \A i \in 1..n : SubSeq(Enumerate, 1, n)[i] = Enumerate[i]
  BY <1>4
<1>7. SubSeq(Enumerate, 1, n) = [i \in 1..n |-> SubSeq(Enumerate, 1, n)[i]]
  BY <1>4
<1>8. PICK cs : cs = run_enumerate(limit)
  OBVIOUS
<1>9. n \in Nat /\ cs = [i \in 1..n |-> cs[i]] /\ \A i \in 1..n : cs[i] = Enumerate[i]
  BY <1>5, <1>6, <1>7, <1>8
<1>10. IsSeq(cs)
  <2>1. \A i \in 1..n : cs[i] \in {cs[j] : j \in DOMAIN cs}
    BY <1>9
  <2> QED BY <1>9, <2>1, SMTT(30) DEF IsSeq
<1>11. \A i \in DOMAIN cs : IsConfig(cs[i])
  BY <1>3, <1>9
<1> QED BY <1>8, <1>9, <1>10, <1>11

\* The fields of the grid's configurations.
OnGrid(c) ==
    /\ block_m(c) \in {16, 32, 64, 128} /\ block_n(c) \in {16, 32, 64, 128}
    /\ block_k(c) \in {32, 64, 128} /\ num_warps(c) \in {4, 8}
    /\ vector_width(c) \in {1, 2, 4, 8} /\ unroll(c) \in {1, 2, 4, 8}
    /\ shared_memory_stages(c) \in {2, 3, 4}

\* The grid's tables have no value twice.
LEMMA TablesDistinct ==
    /\ \A a, b \in 0..3 : kBlockM[1 + a] = kBlockM[1 + b] => a = b
    /\ \A a, b \in 0..3 : kBlockN[1 + a] = kBlockN[1 + b] => a = b
    /\ \A a, b \in 0..2 : kBlockK[1 + a] = kBlockK[1 + b] => a = b
    /\ \A a, b \in 0..1 : kNumWarps[1 + a] = kNumWarps[1 + b] => a = b
    /\ \A a, b \in 0..3 : kVectorWidth[1 + a] = kVectorWidth[1 + b] => a = b
    /\ \A a, b \in 0..3 : kUnroll[1 + a] = kUnroll[1 + b] => a = b
    /\ \A a, b \in 0..2 : kStages[1 + a] = kStages[1 + b] => a = b
<1>1. \A a, b \in 0..3 : kBlockM[1 + a] = kBlockM[1 + b] => a = b
  BY DEF kBlockM
<1>2. \A a, b \in 0..3 : kBlockN[1 + a] = kBlockN[1 + b] => a = b
  BY DEF kBlockN
<1>3. \A a, b \in 0..2 : kBlockK[1 + a] = kBlockK[1 + b] => a = b
  BY DEF kBlockK
<1>4. \A a, b \in 0..1 : kNumWarps[1 + a] = kNumWarps[1 + b] => a = b
  BY DEF kNumWarps
<1>5. \A a, b \in 0..3 : kVectorWidth[1 + a] = kVectorWidth[1 + b] => a = b
  BY DEF kVectorWidth
<1>6. \A a, b \in 0..3 : kUnroll[1 + a] = kUnroll[1 + b] => a = b
  BY DEF kUnroll
<1>7. \A a, b \in 0..2 : kStages[1 + a] = kStages[1 + b] => a = b
  BY DEF kStages
<1> QED BY <1>1, <1>2, <1>3, <1>4, <1>5, <1>6, <1>7

\* The positions of the fields in their tables determine that of the
\* configuration in the grid.
DigitsSum(a, b, c, d, e, f, g) ==
    1152 * a + 288 * b + 96 * c + 48 * d + 12 * e + 3 * f + g

DigitsOf(j, a, b, c, d, e, f, g) ==
    /\ j \div 1152 = a /\ (j \div 288) % 4 = b /\ (j \div 96) % 3 = c
    /\ (j \div 48) % 2 = d /\ (j \div 12) % 4 = e /\ (j \div 3) % 4 = f /\ j % 3 = g

AsDigits(j, a, b, c, d, e, f, g) ==
    /\ a \in 0..3 /\ b \in 0..3 /\ c \in 0..2 /\ d \in 0..1
    /\ e \in 0..3 /\ f \in 0..3 /\ g \in 0..2
    /\ DigitsOf(j, a, b, c, d, e, f, g)
    /\ j = DigitsSum(a, b, c, d, e, f, g)

LEMMA Digits ==
    ASSUME NEW j \in Nat, j < 4608
    PROVE  \E a, b, c, d, e, f, g : AsDigits(j, a, b, c, d, e, f, g)
<1>1. PICK p1 \in Nat, g \in 0..2 : j = 3 * p1 + g
  <2>1. j = 3 * (j \div 3) + (j % 3) /\ j \div 3 \in Nat /\ j % 3 \in 0..2
    OBVIOUS
  <2> QED BY <2>1
<1>2. PICK p2 \in Nat, f \in 0..3 : p1 = 4 * p2 + f
  <2>1. p1 = 4 * (p1 \div 4) + (p1 % 4) /\ p1 \div 4 \in Nat /\ p1 % 4 \in 0..3
    OBVIOUS
  <2> QED BY <2>1
<1>3. PICK p3 \in Nat, e \in 0..3 : p2 = 4 * p3 + e
  <2>1. p2 = 4 * (p2 \div 4) + (p2 % 4) /\ p2 \div 4 \in Nat /\ p2 % 4 \in 0..3
    OBVIOUS
  <2> QED BY <2>1
<1>4. PICK p4 \in Nat, d \in 0..1 : p3 = 2 * p4 + d
  <2>1. p3 = 2 * (p3 \div 2) + (p3 % 2) /\ p3 \div 2 \in Nat /\ p3 % 2 \in 0..1
    OBVIOUS
  <2> QED BY <2>1
<1>5. PICK p5 \in Nat, c \in 0..2 : p4 = 3 * p5 + c
  <2>1. p4 = 3 * (p4 \div 3) + (p4 % 3) /\ p4 \div 3 \in Nat /\ p4 % 3 \in 0..2
    OBVIOUS
  <2> QED BY <2>1
<1>6. PICK a \in Nat, b \in 0..3 : p5 = 4 * a + b
  <2>1. p5 = 4 * (p5 \div 4) + (p5 % 4) /\ p5 \div 4 \in Nat /\ p5 % 4 \in 0..3
    OBVIOUS
  <2> QED BY <2>1
<1>7. j = 1152 * a + 288 * b + 96 * c + 48 * d + 12 * e + 3 * f + g
  BY <1>1, <1>2, <1>3, <1>4, <1>5, <1>6
<1>8. a \in 0..3
  BY <1>7
<1>9. j \div 3 = p1 /\ j % 3 = g
  BY <1>1
<1>10. j \div 12 = p2
  <2>1. j = 12 * p2 + (3 * f + g) /\ 3 * f + g \in 0..11
    BY <1>1, <1>2
  <2> QED BY <2>1
<1>11. j \div 48 = p3
  <2>1. j = 48 * p3 + (12 * e + 3 * f + g) /\ 12 * e + 3 * f + g \in 0..47
    BY <1>1, <1>2, <1>3
  <2> QED BY <2>1
<1>12. j \div 96 = p4
  <2>1. j = 96 * p4 + (48 * d + 12 * e + 3 * f + g) /\ 48 * d + 12 * e + 3 * f + g \in 0..95
    BY <1>1, <1>2, <1>3, <1>4
  <2> QED BY <2>1
<1>13. j \div 288 = p5
  <2>1. PICK r \in 0..287 : j = 288 * p5 + r
    <3>1. j = 288 * p5 + (96 * c + 48 * d + 12 * e + 3 * f + g)
          /\ 96 * c + 48 * d + 12 * e + 3 * f + g \in 0..287
      BY <1>1, <1>2, <1>3, <1>4, <1>5
    <3> QED BY <3>1
  <2> QED BY <2>1
<1>14. j \div 1152 = a
  <2>1. PICK r \in 0..1151 : j = 1152 * a + r
    <3>1. PICK r : r = 288 * b + 96 * c + 48 * d + 12 * e + 3 * f + g
      OBVIOUS
    <3>2. r \in 0..1151
      BY <3>1
    <3>3. j = 1152 * a + r
      BY <1>7, <3>1
    <3> QED BY <3>2, <3>3
  <2> QED BY <2>1
<1>15. /\ p5 % 4 = b /\ p4 % 3 = c /\ p3 % 2 = d /\ p2 % 4 = e /\ p1 % 4 = f
  BY <1>2, <1>3, <1>4, <1>5, <1>6
<1>16. AsDigits(j, a, b, c, d, e, f, g)
  <2>1. DigitsOf(j, a, b, c, d, e, f, g)
    BY <1>9, <1>10, <1>11, <1>12, <1>13, <1>14, <1>15 DEF DigitsOf
  <2>2. j = DigitsSum(a, b, c, d, e, f, g)
    BY <1>7 DEF DigitsSum
  <2> QED BY <1>8, <2>1, <2>2 DEF AsDigits
<1> QED BY <1>16

\* The configuration of those fields.
Configured(a, b, c, d, e, f, g) ==
    <<kBlockM[1 + a], kBlockN[1 + b], kBlockK[1 + c], kNumWarps[1 + d],
      kVectorWidth[1 + e], kUnroll[1 + f], kStages[1 + g]>>

LEMMA GridByDigits ==
    /\ GridSize \in Nat
    /\ DOMAIN FullGrid = 1..GridSize
    /\ \A i \in 1..GridSize : \E a, b, c, d, e, f, g :
          AsDigits(i - 1, a, b, c, d, e, f, g) /\ FullGrid[i] = Configured(a, b, c, d, e, f, g)
<1>1. GridSize = 4608
  BY DEF GridSize
<1>2. \A i \in 1..GridSize : i - 1 \in Nat /\ i - 1 < 4608
  BY <1>1
<1>3. DOMAIN FullGrid = 1..GridSize
  BY DEF FullGrid
<1>4. ASSUME NEW i \in 1..GridSize
      PROVE  \E a, b, c, d, e, f, g :
                AsDigits(i - 1, a, b, c, d, e, f, g) /\ FullGrid[i] = Configured(a, b, c, d, e, f, g)
  <2>1. PICK a, b, c, d, e, f, g : AsDigits(i - 1, a, b, c, d, e, f, g)
    BY <1>2, Digits
  <2>2. FullGrid[i] = Configured(a, b, c, d, e, f, g)
    <3>1. PICK j : j = i - 1
      OBVIOUS
    <3>2. FullGrid[i] =
            <<kBlockM[1 + (j \div 1152)], kBlockN[1 + ((j \div 288) % 4)],
              kBlockK[1 + ((j \div 96) % 3)], kNumWarps[1 + ((j \div 48) % 2)],
              kVectorWidth[1 + ((j \div 12) % 4)], kUnroll[1 + ((j \div 3) % 4)],
              kStages[1 + (j % 3)]>>
      BY <3>1 DEF FullGrid
    <3>3. /\ j \div 1152 = a /\ (j \div 288) % 4 = b /\ (j \div 96) % 3 = c
          /\ (j \div 48) % 2 = d /\ (j \div 12) % 4 = e /\ (j \div 3) % 4 = f /\ j % 3 = g
      <4>1. DigitsOf(j, a, b, c, d, e, f, g)
        BY <2>1, <3>1 DEF AsDigits
      <4> QED BY <4>1 DEF DigitsOf
    <3> QED BY <3>2, <3>3 DEF Configured
  <2> QED BY <2>1, <2>2
<1>5. GridSize \in Nat
  BY <1>1
<1> QED BY <1>3, <1>4, <1>5, Zenon

\* The grid has no configuration twice.
LEMMA GridDistinct ==
    /\ \A i \in 1..GridSize : OnGrid(FullGrid[i])
    /\ \A i, j \in 1..GridSize : FullGrid[i] = FullGrid[j] => i = j
<1>1. ASSUME NEW j, NEW a, NEW b, NEW c, NEW d, NEW e, NEW f, NEW g,
             AsDigits(j, a, b, c, d, e, f, g)
      PROVE  OnGrid(Configured(a, b, c, d, e, f, g))
  <2>1. /\ a \in 0..3 /\ b \in 0..3 /\ c \in 0..2 /\ d \in 0..1
        /\ e \in 0..3 /\ f \in 0..3 /\ g \in 0..2
    BY <1>1 DEF AsDigits
  <2>2. kBlockM[1 + a] \in {16, 32, 64, 128} /\ kBlockN[1 + b] \in {16, 32, 64, 128}
    BY <2>1 DEF kBlockM, kBlockN
  <2>3. kBlockK[1 + c] \in {32, 64, 128} /\ kNumWarps[1 + d] \in {4, 8}
    BY <2>1 DEF kBlockK, kNumWarps
  <2>4. kVectorWidth[1 + e] \in {1, 2, 4, 8} /\ kUnroll[1 + f] \in {1, 2, 4, 8}
    BY <2>1 DEF kVectorWidth, kUnroll
  <2>5. kStages[1 + g] \in {2, 3, 4}
    BY <2>1 DEF kStages
  <2> QED BY <2>2, <2>3, <2>4, <2>5
          DEF OnGrid, Configured, block_m, block_n, block_k, num_warps, vector_width, unroll,
              shared_memory_stages
<1>2. \A i \in 1..GridSize : OnGrid(FullGrid[i])
  BY <1>1, GridByDigits
<1>3. ASSUME NEW i \in 1..GridSize, NEW j \in 1..GridSize, FullGrid[i] = FullGrid[j]
      PROVE  i = j
  <2>1. PICK a, b, c, d, e, f, g :
           AsDigits(i - 1, a, b, c, d, e, f, g) /\ FullGrid[i] = Configured(a, b, c, d, e, f, g)
    BY GridByDigits
  <2>2. PICK a2, b2, c2, d2, e2, f2, g2 :
           /\ AsDigits(j - 1, a2, b2, c2, d2, e2, f2, g2)
           /\ FullGrid[j] = Configured(a2, b2, c2, d2, e2, f2, g2)
    BY GridByDigits
  <2>3. Configured(a, b, c, d, e, f, g) = Configured(a2, b2, c2, d2, e2, f2, g2)
    BY <1>3, <2>1, <2>2
  <2>4. /\ kBlockM[1 + a] = kBlockM[1 + a2] /\ kBlockN[1 + b] = kBlockN[1 + b2]
        /\ kBlockK[1 + c] = kBlockK[1 + c2] /\ kNumWarps[1 + d] = kNumWarps[1 + d2]
        /\ kVectorWidth[1 + e] = kVectorWidth[1 + e2] /\ kUnroll[1 + f] = kUnroll[1 + f2]
        /\ kStages[1 + g] = kStages[1 + g2]
    BY <2>3 DEF Configured
  <2>5. /\ a \in 0..3 /\ b \in 0..3 /\ c \in 0..2 /\ d \in 0..1
        /\ e \in 0..3 /\ f \in 0..3 /\ g \in 0..2
    BY <2>1 DEF AsDigits
  <2>6. /\ a2 \in 0..3 /\ b2 \in 0..3 /\ c2 \in 0..2 /\ d2 \in 0..1
        /\ e2 \in 0..3 /\ f2 \in 0..3 /\ g2 \in 0..2
    BY <2>2 DEF AsDigits
  <2>7. a = a2 /\ b = b2 /\ c = c2 /\ d = d2 /\ e = e2 /\ f = f2 /\ g = g2
    BY <2>4, <2>5, <2>6, TablesDistinct
  <2>8. i - 1 = j - 1
    <3>1. PICK k, l : k = i - 1 /\ l = j - 1
      OBVIOUS
    <3>2. AsDigits(k, a, b, c, d, e, f, g) /\ AsDigits(l, a2, b2, c2, d2, e2, f2, g2)
      BY <2>1, <2>2, <3>1
    <3>3. k = DigitsSum(a, b, c, d, e, f, g)
      BY <3>2 DEF AsDigits
    <3>4. l = DigitsSum(a2, b2, c2, d2, e2, f2, g2)
      BY <3>2 DEF AsDigits
    <3>5. k = l
      BY <2>7, <3>3, <3>4, Zenon
    <3> QED BY <3>1, <3>5
  <2>9. i \in Int /\ j \in Int
    OBVIOUS
  <2> QED BY <2>8, <2>9
<1> QED BY <1>2, <1>3

\* On the grid the operands' elements divide among the threads, so that the
\* estimate of the registers is exact and what the rules admit fits.
LEMMA AdmissibleFits ==
    ASSUME NEW c, OnGrid(c), IsAdmissible(c)
    PROVE  Fits(c)
<1>1. PICK w \in Nat, y \in Nat : block_k(c) = 32 * w /\ block_m(c) + block_n(c) = 16 * y
  <2>1. \E w \in Nat : block_k(c) = 32 * w
    <3>1. 32 = 32 * 1 /\ 64 = 32 * 2 /\ 128 = 32 * 4
      OBVIOUS
    <3> QED BY <3>1 DEF OnGrid
  <2>2. \E a \in Nat : block_m(c) = 16 * a
    <3>1. 16 = 16 * 1 /\ 32 = 16 * 2 /\ 64 = 16 * 4 /\ 128 = 16 * 8
      OBVIOUS
    <3> QED BY <3>1 DEF OnGrid
  <2>3. \E b \in Nat : block_n(c) = 16 * b
    <3>1. 16 = 16 * 1 /\ 32 = 16 * 2 /\ 64 = 16 * 4 /\ 128 = 16 * 8
      OBVIOUS
    <3> QED BY <3>1 DEF OnGrid
  <2>4. PICK a \in Nat, b \in Nat : block_m(c) = 16 * a /\ block_n(c) = 16 * b
    BY <2>2, <2>3
  <2>5. block_m(c) + block_n(c) = 16 * (a + b) /\ a + b \in Nat
    BY <2>4
  <2> QED BY <2>1, <2>5
<1> DEFINE u == unroll(c)
           v == vector_width(c)
           T == Threads(c)
           tile == Tile(c)
           ops == OperandElems(c)
           m == tile \div T
<1>2. u \in Nat /\ v \in Nat /\ T \in {128, 256} /\ tile \in Nat
  <2>1. u \in Nat /\ v \in Nat /\ T \in {128, 256}
    BY DEF OnGrid, Threads
  <2>2. block_m(c) \in Nat /\ block_n(c) \in Nat
    BY DEF OnGrid
  <2>3. \A a, b \in Nat : a * b \in Nat
    OBVIOUS
  <2> QED BY <2>1, <2>2, <2>3 DEF Tile
<1>3. PICK z \in Nat : ops * u = 256 * z /\ ops \in Nat
  <2>1. w * y \in Nat /\ (w * y) * u \in Nat
    BY <1>1, <1>2
  <2>2. (32 * w) * (16 * y) = 512 * (w * y)
    BY <1>1
  <2>3. ops = 512 * (w * y)
    BY <1>1, <2>2 DEF OperandElems
  <2> HIDE DEF u, ops
  <2>4. (512 * (w * y)) * u = 256 * (2 * ((w * y) * u))
    <3>1. \A p \in Nat, q \in Nat : (512 * p) * q = 256 * (2 * (p * q))
      OBVIOUS
    <3> QED BY <1>2, <2>1, <3>1
  <2> QED BY <2>1, <2>3, <2>4
<1>4. tile = T * m /\ m \in Nat /\ m = v * u
  <2>1. tile % T = 0 /\ m = v * u
    BY DEF IsAdmissible
  <2> HIDE DEF tile, T
  <2>2. CASE T = 128
    BY <1>2, <2>1, <2>2
  <2>3. CASE T = 256
    BY <1>2, <2>1, <2>3
  <2> QED BY <1>2, <2>1, <2>2, <2>3
<1> DEFINE est == RegisterEstimate(c)
<1>5. est \in Int /\ est * T = (tile + ops) * u
  <2>1. est = ((tile * u) \div T) + ((ops * u) \div T)
    BY DEF RegisterEstimate
  <2> HIDE DEF est, u, v, T, tile, ops, m
  <2>2. m * u \in Nat
    BY <1>2, <1>4
  <2>3. (tile + ops) * u = tile * u + ops * u
    BY <1>2, <1>3
  <2>4. tile * u = T * (m * u)
    BY <1>2, <1>4
  <2>5. PICK x \in Nat : x = m * u
    BY <2>2
  <2>6. CASE T = 128
    <3>1. (128 * x) \div 128 = x /\ (256 * z) \div 128 = 2 * z
      OBVIOUS
    <3>2. est = x + 2 * z
      BY <1>3, <2>1, <2>4, <2>5, <2>6, <3>1
    <3>3. est * T = 128 * x + 256 * z
      BY <2>6, <3>2
    <3> QED BY <1>3, <2>3, <2>4, <2>5, <2>6, <3>2, <3>3
  <2>7. CASE T = 256
    <3>1. (256 * x) \div 256 = x /\ (256 * z) \div 256 = z
      OBVIOUS
    <3>2. est = x + z
      BY <1>3, <2>1, <2>4, <2>5, <2>7, <3>1
    <3>3. est * T = 256 * x + 256 * z
      BY <2>7, <3>2
    <3> QED BY <1>3, <2>3, <2>4, <2>5, <2>7, <3>2, <3>3
  <2> QED BY <1>2, <2>6, <2>7
<1>6. /\ est <= 128 /\ est * T * 2 <= 65536
      /\ SharedBytes(c) * ArchLimits.min_blocks_per_sm <= ArchLimits.smem_per_sm_bytes
  BY DEF IsAdmissible, ArchLimits
<1>7. T * v * u = tile
  <2> HIDE DEF u, v, T, tile, m
  <2>1. T \in Nat
    BY <1>2
  <2>2. T * v * u = T * (v * u)
    BY <1>2, <2>1
  <2> QED BY <1>4, <2>2
<1>8. est * T <= 128 * T
  <2> HIDE DEF est, T
  <2> QED BY <1>2, <1>5, <1>6
<1>9. ((tile + ops) * u) <= 128 * T /\ ((tile + ops) * u) * 2 <= 65536
  <2> HIDE DEF est, T, tile, ops, u
  <2> QED BY <1>5, <1>6, <1>8
<1> QED BY <1>6, <1>7, <1>9 DEF Fits, ArchLimits

\* What is handed to a race: admissible configurations of the grid, once each.
LEMMA EnumerateFits ==
    ASSUME NEW limit \in Int
    PROVE  LET cs == run_enumerate(limit)
           IN  /\ \A i \in DOMAIN cs : Fits(cs[i])
               /\ \A i, j \in DOMAIN cs : cs[i] = cs[j] => i = j
<1>0. PICK e : e = Enumerate /\ e = Prune(FullGrid)
  BY DEF Enumerate
<1>1. PICK n \in Nat : n = GridSize /\ DOMAIN FullGrid = 1..n
  BY GridByDigits
<1>2. PICK m \in Nat :
         /\ Prune(FullGrid) = [k \in 1..m |-> Prune(FullGrid)[k]]
         /\ \E h \in [1..m -> 1..n] :
               /\ \A k \in 1..m : IsAdmissible(FullGrid[h[k]])
                                  /\ Prune(FullGrid)[k] = FullGrid[h[k]]
               /\ \A j, k \in 1..m : h[j] = h[k] => j = k
  BY <1>1, PruneKeeps
<1>3. PICK h \in [1..m -> 1..n] :
          /\ \A k \in 1..m : IsAdmissible(FullGrid[h[k]]) /\ e[k] = FullGrid[h[k]]
          /\ \A j, k \in 1..m : h[j] = h[k] => j = k
  BY <1>0, <1>2
<1>4. \A k \in 1..m : h[k] \in 1..GridSize /\ Fits(e[k])
  BY <1>1, <1>3, GridDistinct, AdmissibleFits
<1>5. \A j, k \in 1..m : e[j] = e[k] => j = k
  BY <1>3, <1>4, GridDistinct
<1>6. e \in Seq({e[k] : k \in 1..m}) /\ Len(e) = m
  BY <1>0, <1>2
<1>7. PICK top \in 0..m : run_enumerate(limit) = SubSeq(e, 1, top)
  <2> DEFINE last == IF limit < 0 \/ limit > Len(e) THEN Len(e) ELSE limit
  <2>1. last \in 0..m
    BY <1>6
  <2> QED BY <1>0, <2>1 DEF run_enumerate
<1>8. PICK cs : cs = run_enumerate(limit)
  OBVIOUS
<1>9. DOMAIN cs = 1..top /\ \A i \in 1..top : cs[i] = e[i] /\ i \in 1..m
  BY <1>6, <1>7, <1>8
<1> QED BY <1>4, <1>5, <1>8, <1>9

-----------------------------------------------------------------------------
(* The tuning-cache document. *)

\* What a damaged object still yields under a key is what the whole one had.
LEMMA SpoiledGet ==
    ASSUME NEW orig, NEW obj \in {orig} \cup Spoiled(orig), NEW key,
           NEW kinds, "null" \notin kinds, NEW x \in Get(obj, key, kinds)
    PROVE  key \in DOMAIN orig /\ orig[key][1] \in kinds /\ x = orig[key][2]
<1>1. key \in DOMAIN obj /\ obj[key][1] \in kinds /\ x = obj[key][2]
  BY DEF Get
<1>2. CASE obj = orig
  BY <1>1, <1>2
<1>3. CASE \E k \in DOMAIN orig : obj = [f \in DOMAIN orig \ {k} |-> orig[f]]
  BY <1>1, <1>3
<1>4. CASE \E k \in DOMAIN orig : obj = [orig EXCEPT ![k] = <<"null", 0>>]
  <2>1. PICK k \in DOMAIN orig : obj = [orig EXCEPT ![k] = <<"null", 0>>]
    BY <1>4
  <2>2. CASE key = k
    <3>1. obj[key] = <<"null", 0>>
      BY <1>1, <2>1, <2>2
    <3> QED BY <1>1, <3>1
  <2>3. CASE key # k
    BY <1>1, <2>1, <2>3
  <2> QED BY <2>2, <2>3
<1> QED BY <1>2, <1>3, <1>4 DEF Spoiled

IsShape(s) == s = [m |-> s.m, n |-> s.n, k |-> s.k, dtype |-> s.dtype]

\* A damaged shape does not parse, or is the one that was written.
LEMMA ShapeRoundTrip ==
    ASSUME NEW s, IsShape(s), NEW obj \in {ShapeToJson(s)} \cup Spoiled(ShapeToJson(s)),
           NEW r \in ParseShape(obj)
    PROVE  r = s
<1>1. PICK orig : orig = ShapeToJson(s)
  OBVIOUS
<1>2. /\ orig["M"] = <<"int", s.m>> /\ orig["N"] = <<"int", s.n>>
      /\ orig["K"] = <<"int", s.k>> /\ orig["dtype"] = <<"str", s.dtype>>
  BY <1>1 DEF ShapeToJson
<1>3. PICK m \in GetInt(obj, "M"), n \in GetInt(obj, "N"), k \in GetInt(obj, "K"),
           d \in GetString(obj, "dtype") : r = [m |-> m, n |-> n, k |-> k, dtype |-> d]
  BY DEF ParseShape
<1>4. m = s.m /\ n = s.n /\ k = s.k /\ d = s.dtype
  <2>1. m = orig["M"][2] /\ n = orig["N"][2] /\ k = orig["K"][2] /\ d = orig["dtype"][2]
    BY <1>1, <1>3, SpoiledGet DEF GetInt, GetString
  <2> QED BY <1>2, <2>1
<1> QED BY <1>3, <1>4 DEF IsShape

\* A configuration is written under its seven names, each field under its own.
LEMMA ConfigFields ==
    ASSUME NEW c, NEW i \in 1..7
    PROVE  ConfigToJson(c)[ConfigKeys[i]] = <<"int", c[i]>>
<1>1. \A j \in 1..7 : ConfigKeys[j] = ConfigKeys[i] => j = i
  BY DEF ConfigKeys
<1>2. (CHOOSE j \in 1..7 : ConfigKeys[j] = ConfigKeys[i]) = i
  BY <1>1
<1> QED BY <1>2 DEF ConfigToJson

LEMMA ConfigRoundTrip ==
    ASSUME NEW c, IsConfig(c), NEW obj \in {ConfigToJson(c)} \cup Spoiled(ConfigToJson(c)),
           NEW r \in ParseConfig(obj)
    PROVE  r = c
<1>1. \A i \in 1..7 : \A x \in GetInt(obj, ConfigKeys[i]) : x = c[i]
  <2> SUFFICES ASSUME NEW i \in 1..7, NEW x \in GetInt(obj, ConfigKeys[i]) PROVE x = c[i]
    OBVIOUS
  <2>1. x = ConfigToJson(c)[ConfigKeys[i]][2]
    BY SpoiledGet DEF GetInt
  <2>2. ConfigToJson(c)[ConfigKeys[i]] = <<"int", c[i]>>
    BY ConfigFields
  <2>3. <<"int", c[i]>>[2] = c[i]
    OBVIOUS
  <2> QED BY <2>1, <2>2, <2>3
<1>2. PICK bm \in GetInt(obj, ConfigKeys[1]), bn \in GetInt(obj, ConfigKeys[2]),
           bk \in GetInt(obj, ConfigKeys[3]), nw \in GetInt(obj, ConfigKeys[4]),
           vw \in GetInt(obj, ConfigKeys[5]), un \in GetInt(obj, ConfigKeys[6]),
           st \in GetInt(obj, ConfigKeys[7]) : r = <<bm, bn, bk, nw, vw, un, st>>
  BY DEF ParseConfig
<1>3. bm = c[1] /\ bn = c[2] /\ bk = c[3] /\ nw = c[4] /\ vw = c[5] /\ un = c[6] /\ st = c[7]
  BY <1>1
<1> QED BY <1>2, <1>3 DEF IsConfig

\* A damaged entry does not parse, or keeps its key and its configuration.
LEMMA EntryRoundTrip ==
    ASSUME NEW e, IsShape(e.shape), IsConfig(e.best),
           NEW obj \in {EntryToJson(e)} \cup SpoiledEntry(EntryToJson(e)),
           NEW r \in ParseEntry(obj)
    PROVE  r.gpu = e.gpu /\ r.op = e.op /\ r.shape = e.shape /\ r.best = e.best
<1>1. PICK orig : orig = EntryToJson(e)
  OBVIOUS
<1>2. /\ orig["gpu"] = <<"str", e.gpu>> /\ orig["op"] = <<"str", e.op>>
      /\ orig["shape"] = <<"obj", ShapeToJson(e.shape)>>
      /\ orig["best"] = <<"obj", ConfigToJson(e.best)>>
      /\ DOMAIN orig = {"gpu", "op", "shape", "best", "scored_by", "time_ms", "validated",
                        "correctness"}
  BY <1>1 DEF EntryToJson
<1>3. /\ \A x \in GetString(obj, "gpu") : x = e.gpu
      /\ \A x \in GetString(obj, "op") : x = e.op
      /\ \A x \in GetObject(obj, "shape") :
            x \in {ShapeToJson(e.shape)} \cup Spoiled(ShapeToJson(e.shape))
      /\ \A x \in GetObject(obj, "best") :
            x \in {ConfigToJson(e.best)} \cup Spoiled(ConfigToJson(e.best))
  <2>1. CASE obj \in {orig} \cup Spoiled(orig)
    <3>1. \A key, kinds : "null" \notin kinds =>
             \A x \in Get(obj, key, kinds) : x = orig[key][2]
      BY <2>1, SpoiledGet
    <3>2. /\ \A x \in Get(obj, "gpu", {"str"}) : x = orig["gpu"][2]
          /\ \A x \in Get(obj, "op", {"str"}) : x = orig["op"][2]
          /\ \A x \in Get(obj, "shape", {"obj"}) : x = orig["shape"][2]
          /\ \A x \in Get(obj, "best", {"obj"}) : x = orig["best"][2]
      BY <3>1
    <3> QED BY <1>2, <3>2 DEF GetString, GetObject
  <2>2. CASE \E part \in {"shape", "best", "correctness"} : \E y :
                /\ y \in Spoiled(orig[part][2])
                /\ obj = [orig EXCEPT ![part] = <<"obj", y>>]
    <3>0. PICK part \in {"shape", "best", "correctness"} : \E y :
                /\ y \in Spoiled(orig[part][2])
                /\ obj = [orig EXCEPT ![part] = <<"obj", y>>]
      BY <2>2
    <3>1. PICK y :
                /\ y \in Spoiled(orig[part][2])
                /\ obj = [orig EXCEPT ![part] = <<"obj", y>>]
      BY <3>0
    <3>2. \A key \in DOMAIN orig : obj[key] = IF key = part THEN <<"obj", y>> ELSE orig[key]
      BY <3>1
    <3>3. \A key \in DOMAIN orig : \A kinds : \A x \in Get(obj, key, kinds) : x = obj[key][2]
      BY DEF Get
    <3>4. /\ \A x \in GetString(obj, "gpu") : x = e.gpu
          /\ \A x \in GetString(obj, "op") : x = e.op
      <4>1. obj["gpu"] = <<"str", e.gpu>> /\ obj["op"] = <<"str", e.op>>
        BY <1>2, <3>1, <3>2
      <4>2. /\ \A x \in GetString(obj, "gpu") : x = obj["gpu"][2]
            /\ \A x \in GetString(obj, "op") : x = obj["op"][2]
        BY <1>2, <3>3 DEF GetString
      <4> QED BY <4>1, <4>2
    <3>5. \A x \in GetObject(obj, "shape") :
             x \in {ShapeToJson(e.shape)} \cup Spoiled(ShapeToJson(e.shape))
      <4>1. \A x \in GetObject(obj, "shape") : x = obj["shape"][2]
        BY <1>2, <3>3 DEF GetObject
      <4>2. CASE part = "shape"
        <5>1. obj["shape"][2] = y /\ y \in Spoiled(ShapeToJson(e.shape))
          BY <1>2, <3>1, <3>2, <4>2
        <5> QED BY <4>1, <5>1
      <4>3. CASE part # "shape"
        BY <1>2, <3>2, <4>1, <4>3
      <4> QED BY <4>2, <4>3
    <3>6. \A x \in GetObject(obj, "best") :
             x \in {ConfigToJson(e.best)} \cup Spoiled(ConfigToJson(e.best))
      <4>1. \A x \in GetObject(obj, "best") : x = obj["best"][2]
        BY <1>2, <3>3 DEF GetObject
      <4>2. CASE part = "best"
        <5>1. obj["best"][2] = y /\ y \in Spoiled(ConfigToJson(e.best))
          BY <1>2, <3>1, <3>2, <4>2
        <5> QED BY <4>1, <5>1
      <4>3. CASE part # "best"
        BY <1>2, <3>2, <4>1, <4>3
      <4> QED BY <4>2, <4>3
    <3> QED BY <3>4, <3>5, <3>6
  <2> QED BY <1>1, <2>1, <2>2 DEF SpoiledEntry
<1>4. PICK g \in GetString(obj, "gpu"), o \in GetString(obj, "op"),
           s \in UNION {ParseShape(x) : x \in GetObject(obj, "shape")},
           b \in UNION {ParseConfig(x) : x \in GetObject(obj, "best")} :
              r.gpu = g /\ r.op = o /\ r.shape = s /\ r.best = b
  BY DEF ParseEntry
<1>5. s = e.shape
  BY <1>3, ShapeRoundTrip
<1>6. b = e.best
  BY <1>3, ConfigRoundTrip
<1> QED BY <1>3, <1>4, <1>5, <1>6

DamagedRoots(root, entry) ==
    Spoiled(root) \cup {[root EXCEPT !.entries = <<"arr", <<<<"obj", x>>>>>>] :
                            x \in SpoiledEntry(entry)}

\* A damaged cache file does not parse, or yields the one entry that was
\* written, with its key and its configuration.
LEMMA FileRoundTrip ==
    ASSUME NEW e, IsShape(e.shape), IsConfig(e.best),
           NEW root, SerializeTuningCache(<<e>>) = <<"obj", root>>,
           NEW d \in {root} \cup DamagedRoots(root, EntryToJson(e)),
           NEW es \in ParseTuningCache(<<"obj", d>>)
    PROVE  /\ DOMAIN es = {1}
           /\ es[1].gpu = e.gpu /\ es[1].op = e.op
           /\ es[1].shape = e.shape /\ es[1].best = e.best
<1>1. PICK E : E = EntryToJson(e)
  OBVIOUS
<1>2. PICK whole : /\ root = [version |-> <<"int", kTuningCacheVersion>>, entries |-> <<"arr", whole>>]
                   /\ whole = [i \in DOMAIN <<e>> |-> <<"obj", EntryToJson(<<e>>[i])>>]
  BY DEF SerializeTuningCache
<1>3. whole = [i \in {1} |-> <<"obj", E>>]
  <2>1. DOMAIN <<e>> = {1} /\ <<e>>[1] = e
    OBVIOUS
  <2> QED BY <1>1, <1>2, <2>1
<1>4. ASSUME NEW arr \in Get(d, "entries", {"arr"})
      PROVE  /\ DOMAIN arr = {1} /\ arr[1][1] = "obj"
             /\ arr[1][2] \in {E} \cup SpoiledEntry(E)
  <2>1. CASE d \in {root} \cup Spoiled(root)
    <3>1. arr = root["entries"][2]
      <4>1. PICK kinds : kinds = {"arr"}
        OBVIOUS
      <4>2. "null" \notin kinds /\ arr \in Get(d, "entries", kinds)
        BY <4>1
      <4> QED BY <2>1, <4>2, SpoiledGet
    <3>2. arr = whole
      BY <1>2, <3>1
    <3> QED BY <1>3, <3>2
  <2>2. CASE \E x \in SpoiledEntry(E) : d = [root EXCEPT !.entries = <<"arr", <<<<"obj", x>>>>>>]
    <3>1. PICK x \in SpoiledEntry(E) : d = [root EXCEPT !.entries = <<"arr", <<<<"obj", x>>>>>>]
      BY <2>2
    <3>2. d["entries"] = <<"arr", <<<<"obj", x>>>>>>
      BY <1>2, <3>1
    <3>3. arr = <<<<"obj", x>>>>
      BY <3>2 DEF Get
    <3> QED BY <3>3
  <2> QED BY <1>1, <2>1, <2>2 DEF DamagedRoots
<1>5. PICK arr \in Get(d, "entries", {"arr"}) : es \in ParseEntries(arr)
  BY DEF ParseTuningCache
<1>6. PICK y : arr[1] = <<"obj", y>> \/ (y = arr[1][2] /\ arr[1][1] = "obj")
  BY <1>4
<1>7. /\ DOMAIN es = {1} /\ es[1] \in ParseEntry(arr[1][2])
  <2>1. DOMAIN arr = {1} /\ arr[1][1] = "obj"
    BY <1>4
  <2>2. /\ ParseEntry(arr[1][2]) # {}
        /\ es = [i \in DOMAIN arr |->
                    CHOOSE r \in (IF arr[i][1] = "obj" THEN ParseEntry(arr[i][2]) ELSE {}) : TRUE]
    BY <1>5, <2>1 DEF ParseEntries
  <2>3. DOMAIN es = {1} /\ es[1] = CHOOSE r \in ParseEntry(arr[1][2]) : TRUE
    BY <2>1, <2>2
  <2> QED BY <2>2, <2>3
<1> QED BY <1>1, <1>4, <1>7, EntryRoundTrip

-----------------------------------------------------------------------------
(* What the server serves. *)

IsTuned(e) == <<e.gpu, e.op, e.shape, e.best>> \in tuned

\* The race of the sweep is over the variants of its configurations, and its
\* winner is one of them.
RaceTuned ==
    /\ sweep.pc # "idle" => args \in Sweeps
    /\ IsSeq(sweep.variants) /\ \A i \in DOMAIN sweep.variants : IsConfig(sweep.variants[i].config)
    /\ sweep.pc \in {"compare", "time"} \/ (sweep.pc = "run" /\ proc # None)
          => raced \in DOMAIN sweep.variants
    /\ \A i \in DOMAIN sweep.outcomes : IsConfig(sweep.outcomes[i].variant.config)
    /\ sweep.pc \in {"open", "write"} =>
          /\ sweep.best \in DOMAIN sweep.outcomes
          /\ <<args.arch, args.op, args.shape,
               sweep.outcomes[sweep.best].variant.config>> \in tuned

\* A whole file is the serialization of a tuned entry, and no damage makes
\* another one of it.
FileTuned ==
    /\ file.state = "whole" =>
          \E e : /\ IsShape(e.shape) /\ IsConfig(e.best) /\ IsTuned(e)
                 /\ file.doc = SerializeTuningCache(<<e>>)
    /\ file.state = "damaged" =>
          \A es \in ParseTuningCache(file.doc) : DOMAIN es = {1} /\ IsTuned(es[1])

ServerTuned ==
    /\ \A k \in DOMAIN db : IsTuned(db[k])
    /\ ServedWasTuned

TunedInv == RaceTuned /\ FileTuned /\ ServerTuned

\* A sweep over.
LEMMA EndRaceTuned ==
    ASSUME EndSweep
    PROVE  RaceTuned'
<1>1. sweep'.pc = "idle" /\ sweep'.variants = <<>> /\ sweep'.outcomes = <<>>
  BY DEF EndSweep, NoSweep
<1> QED BY <1>1, EmptyIsSeq DEF RaceTuned

\* A step that leaves the arguments, the variants and the outcomes alone.
LEMMA MoveRaceTuned ==
    ASSUME RaceTuned, tuned \subseteq tuned', sweep.pc # "idle",
           UNCHANGED <<sweep.args, sweep.variants, sweep.outcomes>>,
           sweep'.pc \in {"compare", "time"} \/ (sweep'.pc = "run" /\ proc' # None)
               => raced \in DOMAIN sweep.variants,
           sweep'.pc \in {"open", "write"} =>
               /\ sweep'.best \in DOMAIN sweep.outcomes
               /\ <<args.arch, args.op, args.shape,
                    sweep.outcomes[sweep'.best].variant.config>> \in tuned'
    PROVE  RaceTuned'
<1>1. args' = args /\ raced' = raced
  BY DEF args, raced
<1>2. IsSeq(sweep.variants)' /\ args \in Sweeps
  BY DEF RaceTuned, IsSeq
<1> QED BY <1>1, <1>2 DEF RaceTuned

\* A step that is not the sweep's.
LEMMA SameRaceTuned ==
    ASSUME RaceTuned, UNCHANGED <<sweep, tuned>>,
           sweep.pc = "run" /\ proc' # None => raced \in DOMAIN sweep.variants
    PROVE  RaceTuned'
<1>1. args' = args /\ raced' = raced
  BY DEF args, raced
<1>2. IsSeq(sweep.variants)'
  BY DEF RaceTuned, IsSeq
<1> QED BY <1>1, <1>2 DEF RaceTuned

\* The configurations that are enumerated become the variants of the race.
LEMMA EnumerateRaceTuned ==
    ASSUME GateInv, RaceTuned, enumerate_configs, ~EndSweep
    PROVE  RaceTuned'
<1>1. sweep.pc = "enumerate" /\ proc = None /\ proc' = None /\ args \in Sweeps
  BY DEF enumerate_configs, AtSweep, GateInv, WellFormed, RaceTuned
<1>2. PICK cs : cs = run_enumerate(args.variants)
  OBVIOUS
<1>3. /\ \E n \in Nat : cs = [i \in 1..n |-> cs[i]]
      /\ IsSeq(cs) /\ \A i \in DOMAIN cs : IsConfig(cs[i])
  <2>1. args.variants \in Int
    BY <1>1, SweepAssumption
  <2> QED BY <1>2, <2>1, EnumerateConfigs
<1>4. PICK default : default = [i \in DOMAIN cs |-> [impl |-> "default", config |-> cs[i]]]
  OBVIOUS
<1>5. IsSeq(default) /\ \A i \in DOMAIN default : IsConfig(default[i].config)
  <2>1. PICK n \in Nat : cs = [i \in 1..n |-> cs[i]]
    BY <1>3
  <2>2. DOMAIN default = 1..n /\ default = [i \in 1..n |-> default[i]]
    BY <1>4, <2>1
  <2>3. \A i \in 1..n : default[i] \in {default[j] : j \in DOMAIN default}
    BY <2>2
  <2>4. IsSeq(default)
    BY <2>2, <2>3 DEF IsSeq
  <2> QED BY <1>3, <1>4, <2>4
<1>5a. \E where \in {"long", "run"} : \E vs :
          /\ sweep' = [pc |-> where, n |-> sweep.n, args |-> sweep.args, configs |-> cs,
                       variants |-> vs, outcomes |-> sweep.outcomes, corr |-> sweep.corr,
                       best |-> sweep.best]
          /\ \/ vs = default
             \/ cs # <<>> /\ vs = Append(default, [impl |-> "broken", config |-> cs[1]])
  <2> DEFINE where == IF Len(cs) > MaxRaced THEN "long" ELSE "run"
             vs == IF ~args.inject THEN default
                   ELSE Append(default, [impl |-> "broken", config |-> cs[1]])
  <2>1. /\ ~(args.inject /\ cs = <<>>)
        /\ sweep' = [sweep EXCEPT !.pc = where, !.configs = cs, !.variants = vs]
    BY <1>2, <1>4 DEF enumerate_configs
  <2>2. where \in {"long", "run"}
    OBVIOUS
  <2>3. \/ vs = default
        \/ cs # <<>> /\ vs = Append(default, [impl |-> "broken", config |-> cs[1]])
    BY <2>1
  <2> HIDE DEF where, vs
  <2>4. sweep' = [pc |-> where, n |-> sweep.n, args |-> sweep.args, configs |-> cs,
                  variants |-> vs, outcomes |-> sweep.outcomes, corr |-> sweep.corr,
                  best |-> sweep.best]
    BY <2>1 DEF GateInv, WellFormed, IsSweep
  <2> QED BY <2>2, <2>3, <2>4
<1>5b. PICK where \in {"long", "run"} : \E vs :
          /\ sweep' = [pc |-> where, n |-> sweep.n, args |-> sweep.args, configs |-> cs,
                       variants |-> vs, outcomes |-> sweep.outcomes, corr |-> sweep.corr,
                       best |-> sweep.best]
          /\ \/ vs = default
             \/ cs # <<>> /\ vs = Append(default, [impl |-> "broken", config |-> cs[1]])
  BY <1>5a
<1>6. PICK vs :
          /\ sweep' = [pc |-> where, n |-> sweep.n, args |-> sweep.args, configs |-> cs,
                       variants |-> vs, outcomes |-> sweep.outcomes, corr |-> sweep.corr,
                       best |-> sweep.best]
          /\ \/ vs = default
             \/ cs # <<>> /\ vs = Append(default, [impl |-> "broken", config |-> cs[1]])
  BY <1>5b
<1>7. IsSeq(vs) /\ \A i \in DOMAIN vs : IsConfig(vs[i].config)
  <2>1. CASE vs = default
    BY <1>5, <2>1
  <2>2. CASE cs # <<>> /\ vs = Append(default, [impl |-> "broken", config |-> cs[1]])
    <3>1. 1 \in DOMAIN cs
      BY <1>3, <2>2
    <3>2. PICK v : v = [impl |-> "broken", config |-> cs[1]]
      OBVIOUS
    <3>3. vs = Append(default, v) /\ IsConfig(v.config)
      <4>1. v.config = cs[1] /\ IsConfig(cs[1])
        BY <1>3, <3>1, <3>2
      <4> QED BY <2>2, <3>2, <4>1
    <3>4. /\ IsSeq(vs) /\ Len(default) \in Nat /\ DOMAIN default = 1..Len(default)
          /\ DOMAIN vs = 1..(Len(default) + 1) /\ vs[Len(default) + 1] = v
          /\ \A i \in 1..Len(default) : vs[i] = default[i]
      BY <1>5, <3>3, AppendIsSeq
    <3>5. \A i \in 1..(Len(default) + 1) : i \in 1..Len(default) \/ i = Len(default) + 1
      BY <3>4
    <3> QED BY <1>5, <3>3, <3>4, <3>5
  <2> QED BY <1>6, <2>1, <2>2
<1>8. args' = args
  BY <1>6 DEF args
<1>9. \A i \in DOMAIN sweep'.outcomes : IsConfig(sweep'.outcomes[i].variant.config)
  BY <1>6 DEF RaceTuned
<1>10. IsSeq(sweep.variants)' /\ \A i \in DOMAIN sweep'.variants : IsConfig(sweep'.variants[i].config)
  BY <1>6, <1>7 DEF IsSeq
<1> QED BY <1>1, <1>6, <1>8, <1>9, <1>10 DEF RaceTuned

\* A race that is decided.
LEMMA SelectRaceTuned ==
    ASSUME GateInv, RaceTuned, SelectBest
    PROVE  RaceTuned' /\ tuned \subseteq tuned'
<1>1. CASE EndSweep /\ UNCHANGED tuned
  BY <1>1, EndRaceTuned
<1>2. CASE ~(EndSweep /\ UNCHANGED tuned)
  <2>1. PICK b \in FastestValidated(sweep.outcomes) :
            /\ sweep' = [sweep EXCEPT !.pc = "open", !.best = b]
            /\ tuned' = tuned \cup {<<args.arch, args.op, args.shape,
                                      sweep.outcomes[b].variant.config>>}
    BY <1>2 DEF SelectBest
  <2>2. b \in DOMAIN sweep.outcomes
    BY <2>1 DEF FastestValidated
  <2>3. /\ sweep'.pc = "open" /\ sweep'.best = b
        /\ UNCHANGED <<sweep.args, sweep.variants, sweep.outcomes>>
    BY <2>1 DEF GateInv, WellFormed, IsSweep
  <2>4. sweep.pc # "idle"
    BY DEF SelectBest, AtSweep
  <2>5. <<args.arch, args.op, args.shape, sweep.outcomes[b].variant.config>> \in tuned'
    BY <2>1
  <2> QED BY <2>1, <2>2, <2>3, <2>4, <2>5, MoveRaceTuned
<1> QED BY <1>1, <1>2

\* A race that goes on.
LEMMA RecordRaceTuned ==
    ASSUME GateInv, RaceTuned, run_time, ~EndSweep
    PROVE  RaceTuned'
<1>1. sweep.pc = "time" /\ proc = None /\ proc' = None /\ UNCHANGED tuned
  BY DEF run_time, AtSweep, GateInv, WellFormed
<1>2. PICK o : Outcome(o) /\ o.variant = variant
  <2> DEFINE rec(validated, t) ==
               [variant |-> variant, ran |-> Realizes(variant), corr |-> sweep.corr[1],
                validated |-> validated, time_ms |-> t]
  <2>1. \E v, t : Outcome(rec(v, t))
    BY DEF run_time
  <2> QED BY <2>1
<1>3. sweep' = [pc |-> "run", n |-> sweep.n, args |-> sweep.args,
                configs |-> sweep.configs, variants |-> sweep.variants,
                outcomes |-> Append(sweep.outcomes, o), corr |-> <<>>, best |-> sweep.best]
  BY <1>2 DEF Outcome, GateInv, WellFormed, IsSweep
<1>4. IsConfig(o.variant.config)
  BY <1>1, <1>2 DEF RaceTuned, variant
<1>5. PICK q, L : q = sweep.outcomes /\ L = Len(q) /\ IsSeq(q)
  BY DEF GateInv, WellFormed
<1>6. /\ L \in Nat /\ DOMAIN q = 1..L /\ DOMAIN Append(q, o) = 1..(L + 1)
      /\ Append(q, o)[L + 1] = o /\ \A i \in 1..L : Append(q, o)[i] = q[i]
  BY <1>5, AppendIsSeq
<1>7. \A i \in DOMAIN sweep'.outcomes : IsConfig(sweep'.outcomes[i].variant.config)
  <2>1. \A i \in 1..(L + 1) : i \in 1..L \/ i = L + 1
    BY <1>6
  <2>2. \A i \in 1..L : IsConfig(q[i].variant.config)
    BY <1>5, <1>6 DEF RaceTuned
  <2>3. sweep'.outcomes = Append(q, o)
    BY <1>3, <1>5
  <2> QED BY <1>4, <1>6, <2>1, <2>2, <2>3
<1>8. args' = args
  BY <1>3 DEF args
<1>9. IsSeq(sweep.variants)' /\ \A i \in DOMAIN sweep'.variants : IsConfig(sweep'.variants[i].config)
  BY <1>3 DEF RaceTuned, IsSeq
<1> QED BY <1>1, <1>3, <1>7, <1>8, <1>9 DEF RaceTuned

\* Every step keeps what is known of the race.
LEMMA NextRaceTuned ==
    ASSUME GateInv, RaceTuned, [Next]_vars
    PROVE  RaceTuned' /\ tuned \subseteq tuned'
<1>1. CASE SelectBest
  BY <1>1, SelectRaceTuned
<1>2. CASE ~SelectBest
  <2>1. UNCHANGED tuned
    BY <1>2 DEF Next, SweepStep, vars, build_driver, probe_device, enumerate_configs, LongRace,
       run_run, RunEnded, Compare, run_time, run_write_cache_open, run_write_cache, Timeout,
       Drive, Reap, Hang, Interrupt, Damage, LoadTuningCache, StartSweep, Edit, Invoke, Run, bench
  <2>2. CASE EndSweep
    BY <2>1, <2>2, EndRaceTuned
  <2>3. ASSUME NEW s \in Sweeps, StartSweep(s) PROVE RaceTuned'
    <3>1. sweep' = [pc |-> "build", n |-> sweep.n + 1, args |-> <<s>>, configs |-> <<>>,
                    variants |-> <<>>, outcomes |-> <<>>, corr |-> <<>>, best |-> 0]
      BY <2>3 DEF StartSweep, NoSweep
    <3>2. args' = s
      BY <3>1 DEF args
    <3> QED BY <3>1, <3>2, EmptyIsSeq DEF RaceTuned
  <2>4. CASE (build_driver \/ probe_device \/ RunEnded \/ Compare \/ run_write_cache_open) /\ ~EndSweep
    <3>0. PICK where \in {"probe", "enumerate", "compare", "time", "write"} : \E c :
             sweep' = [pc |-> where, n |-> sweep.n, args |-> sweep.args,
                       configs |-> sweep.configs, variants |-> sweep.variants,
                       outcomes |-> sweep.outcomes, corr |-> c, best |-> sweep.best]
      BY <2>4 DEF build_driver, probe_device, RunEnded, Compare, run_write_cache_open,
                  GateInv, WellFormed, IsSweep
    <3>1. PICK c :
             sweep' = [pc |-> where, n |-> sweep.n, args |-> sweep.args,
                       configs |-> sweep.configs, variants |-> sweep.variants,
                       outcomes |-> sweep.outcomes, corr |-> c, best |-> sweep.best]
      BY <3>0
    <3>2. sweep.pc # "idle"
      BY <2>4 DEF build_driver, probe_device, RunEnded, Compare, run_write_cache_open, AtSweep
    <3>3. where \in {"compare", "time"} => raced \in DOMAIN sweep.variants
      <4>1. CASE RunEnded
        BY <4>1 DEF RunEnded, AtSweep, None, RaceTuned
      <4>2. CASE Compare
        BY <4>2 DEF Compare, AtSweep, RaceTuned
      <4>3. CASE build_driver \/ probe_device \/ run_write_cache_open
        <5>1. sweep'.pc \in {"probe", "enumerate", "write"}
          BY <2>4, <4>3 DEF build_driver, probe_device, run_write_cache_open,
                            GateInv, WellFormed, IsSweep
        <5> QED BY <3>1, <5>1
      <4> QED BY <2>4, <4>1, <4>2, <4>3
    <3>4. where = "write" => sweep.pc = "open"
      <4>1. CASE run_write_cache_open
        BY <4>1 DEF run_write_cache_open, AtSweep
      <4>2. CASE build_driver \/ probe_device \/ RunEnded \/ Compare
        <5>1. sweep'.pc \in {"probe", "enumerate", "compare", "time"}
          BY <2>4, <4>2 DEF build_driver, probe_device, RunEnded, Compare,
                            GateInv, WellFormed, IsSweep
        <5> QED BY <3>1, <5>1
      <4> QED BY <2>4, <4>1, <4>2
    <3>5. where = "write" =>
             /\ sweep.best \in DOMAIN sweep.outcomes
             /\ <<args.arch, args.op, args.shape,
                  sweep.outcomes[sweep.best].variant.config>> \in tuned
      BY <3>4 DEF RaceTuned
    <3> QED BY <2>1, <3>1, <3>2, <3>3, <3>5, MoveRaceTuned
  <2>5. CASE enumerate_configs /\ ~EndSweep
    BY <2>1, <2>5, EnumerateRaceTuned
  <2>6. CASE run_time /\ ~EndSweep
    BY <2>1, <2>6, RecordRaceTuned
  <2>7. CASE UNCHANGED sweep
    <3>1. sweep.pc = "run" /\ proc' # None => raced \in DOMAIN sweep.variants
      <4>1. CASE proc # None
        BY <4>1 DEF RaceTuned
      <4>2. CASE proc = None /\ run_run
        <5>1. Len(sweep.outcomes) \in Nat /\ Len(sweep.variants) \in Nat
              /\ DOMAIN sweep.variants = 1..Len(sweep.variants)
          BY AppendIsSeq DEF GateInv, WellFormed, RaceTuned
        <5> QED BY <4>2, <5>1 DEF run_run, raced
      <4>3. CASE proc = None /\ ~run_run
        <5>1. ~DriverStep
          BY <4>3 DEF DriverStep, None, At, Parse, read_npy_bf16, Check, upload, PK_CHECK,
                      Sync, Compute, download_write, write_npy_bf16
        <5>2. sweep.pc = "run" => proc' = None
          BY <1>2, <2>7, <4>3, <5>1 DEF Next, SweepStep, vars, build_driver, probe_device,
             enumerate_configs, LongRace, RunEnded, Compare, run_time, run_write_cache_open,
             run_write_cache, Timeout, Drive, Reap, Hang, Interrupt, Damage, LoadTuningCache,
             StartSweep, Edit, Invoke, Run, AtSweep, bench, None, At
        <5> QED BY <5>2
      <4> QED BY <4>1, <4>2, <4>3
    <3> QED BY <2>1, <2>7, <3>1, SameRaceTuned
  <2>8. \/ EndSweep \/ (\E s \in Sweeps : StartSweep(s)) \/ UNCHANGED sweep
        \/ build_driver \/ probe_device \/ RunEnded \/ Compare \/ run_write_cache_open
        \/ enumerate_configs \/ run_time
    BY <1>2 DEF Next, SweepStep, vars, LongRace, run_run, run_write_cache, Timeout,
       Drive, Reap, Hang, Interrupt, Damage, LoadTuningCache, Edit, Invoke, Run, bench
  <2> QED BY <2>1, <2>2, <2>3, <2>4, <2>5, <2>6, <2>7, <2>8
<1> QED BY <1>1, <1>2

\* The cache file: what a sweep writes is tuned, and stays so when damaged.
LEMMA NextFileTuned ==
    ASSUME GateInv, RaceTuned, FileTuned, tuned \subseteq tuned', [Next]_vars
    PROVE  FileTuned'
<1>1. \A e : IsTuned(e) => IsTuned(e)'
  BY DEF IsTuned
<1>2. CASE UNCHANGED file
  BY <1>1, <1>2 DEF FileTuned
<1>3. CASE run_write_cache_open /\ ~UNCHANGED file
  <2>1. file'.state = "torn"
    BY <1>3 DEF run_write_cache_open
  <2> QED BY <2>1 DEF FileTuned
<1>4. CASE run_write_cache /\ ~UNCHANGED file
  <2>1. PICK e : e = write_cache
    OBVIOUS
  <2>2. file'.state = "whole" /\ file'.doc = SerializeTuningCache(<<e>>)
    BY <1>4, <2>1 DEF run_write_cache
  <2>3. sweep.pc = "write" /\ UNCHANGED tuned
    BY <1>4 DEF run_write_cache, AtSweep
  <2>4. /\ e.gpu = args.arch /\ e.op = args.op /\ e.shape = args.shape
        /\ e.best = sweep.outcomes[sweep.best].variant.config
    BY <2>1 DEF write_cache
  <2>5. IsShape(e.shape)
    <3>1. args.shape \in [m : Int, n : Int, k : Int, dtype : STRING]
      BY <2>3, SweepAssumption DEF RaceTuned
    <3> QED BY <2>4, <3>1 DEF IsShape
  <2>6. IsConfig(e.best) /\ IsTuned(e)
    BY <2>3, <2>4 DEF RaceTuned, IsTuned
  <2> QED BY <1>1, <2>2, <2>5, <2>6 DEF FileTuned
<1>5. CASE Damage
  <2>1. PICK e : /\ IsShape(e.shape) /\ IsConfig(e.best) /\ IsTuned(e)
                 /\ file.doc = SerializeTuningCache(<<e>>)
    BY <1>5 DEF Damage, FileTuned
  <2>2. PICK root : SerializeTuningCache(<<e>>) = <<"obj", root>> /\ root = file.doc[2]
    BY <2>1 DEF SerializeTuningCache
  <2>3. root.entries[2][1][2] = EntryToJson(e)
    <3>1. PICK whole : /\ root.entries = <<"arr", whole>>
                       /\ whole = [i \in DOMAIN <<e>> |-> <<"obj", EntryToJson(<<e>>[i])>>]
      BY <2>2 DEF SerializeTuningCache
    <3>2. 1 \in DOMAIN <<e>> /\ <<e>>[1] = e
      OBVIOUS
    <3>3. whole[1] = <<"obj", EntryToJson(e)>>
      BY <3>1, <3>2
    <3> QED BY <3>1, <3>3
  <2>4. PICK d \in DamagedRoots(root, EntryToJson(e)) :
            file' = [state |-> "damaged", doc |-> <<"obj", d>>]
    BY <1>5, <2>2, <2>3 DEF Damage, DamagedRoots
  <2>5. ASSUME NEW es \in ParseTuningCache(<<"obj", d>>)
        PROVE  DOMAIN es = {1} /\ IsTuned(es[1])
    BY <2>1, <2>2, <2>4, FileRoundTrip DEF IsTuned
  <2> QED BY <1>1, <2>4, <2>5 DEF FileTuned
<1> QED BY <1>2, <1>3, <1>4, <1>5 DEF Next, SweepStep, vars, build_driver, probe_device,
   enumerate_configs, LongRace, run_run, RunEnded, Compare, run_time, SelectBest, Timeout,
   Drive, Reap, Hang, Interrupt, LoadTuningCache, StartSweep, Edit, Invoke, Run, bench

\* The server: it takes its entries from the file, and serves those.
LEMMA NextServerTuned ==
    ASSUME FileTuned, ServerTuned, tuned \subseteq tuned', [Next]_vars
    PROVE  ServerTuned'
<1>1. \A e : IsTuned(e) => IsTuned(e)'
  BY DEF IsTuned
<1>2. CASE UNCHANGED server
  <2>1. ServedWasTuned'
    BY <1>2 DEF server, ServerTuned, ServedWasTuned
  <2> QED BY <1>1, <1>2, <2>1 DEF server, ServerTuned
<1>3. CASE LoadTuningCache
  <2>1. PICK es \in ParseTuningCache(file.doc) :
          LET key(i) == <<es[i].gpu, es[i].op, es[i].shape>>
          IN  db' = [k \in {key(i) : i \in DOMAIN es} |->
                        es[CHOOSE i \in DOMAIN es :
                              key(i) = k /\ \A j \in DOMAIN es : key(j) = k => j <= i]]
    BY <1>3 DEF LoadTuningCache
  <2>2. DOMAIN es = {1} /\ IsTuned(es[1])
    <3>1. CASE file.state = "damaged"
      BY <2>1, <3>1 DEF FileTuned
    <3>2. CASE file.state = "whole"
      <4>1. PICK e : /\ IsShape(e.shape) /\ IsConfig(e.best) /\ IsTuned(e)
                     /\ file.doc = SerializeTuningCache(<<e>>)
        BY <3>2 DEF FileTuned
      <4>2. PICK root : SerializeTuningCache(<<e>>) = <<"obj", root>>
        BY DEF SerializeTuningCache
      <4> QED BY <2>1, <4>1, <4>2, FileRoundTrip DEF IsTuned
    <3> QED BY <1>3, <3>1, <3>2 DEF LoadTuningCache
  <2>3. ASSUME NEW k \in DOMAIN db' PROVE db'[k] = es[1]
    <3> DEFINE key(i) == <<es[i].gpu, es[i].op, es[i].shape>>
    <3>1. key(1) = k
      BY <2>1, <2>2
    <3>2. db'[k] = es[CHOOSE i \in {1} : key(i) = k /\ \A j \in {1} : key(j) = k => j <= i]
      BY <2>1, <2>2
    <3>3. \A i \in {1} : i = 1
      OBVIOUS
    <3> HIDE DEF key
    <3>4. (CHOOSE i \in {1} : key(i) = k /\ \A j \in {1} : key(j) = k => j <= i) = 1
      BY <3>1, <3>3
    <3> QED BY <3>2, <3>4
  <2>4. ServedWasTuned'
    BY <1>3 DEF LoadTuningCache, bench, ServerTuned, ServedWasTuned
  <2> QED BY <1>1, <2>2, <2>3, <2>4 DEF ServerTuned
<1>4. ASSUME NEW d \in Devices, NEW op, NEW shape, Run(d, op, shape) PROVE ServerTuned'
  <2>1. PICK e \in Resolve(d, op, shape) : served' = <<e>>
    BY <1>4 DEF Run
  <2>2. IsTuned(e) /\ e.validated
    BY DEF Resolve, ServerTuned
  <2>3. UNCHANGED db
    BY <1>4 DEF Run
  <2>4. ServedWasTuned'
    BY <1>1, <2>1, <2>2 DEF ServedWasTuned, IsTuned
  <2> QED BY <1>1, <2>3, <2>4 DEF ServerTuned
<1> QED BY <1>2, <1>3, <1>4 DEF Next, SweepStep, vars, build_driver, probe_device,
   enumerate_configs, LongRace, run_run, RunEnded, Compare, run_time, SelectBest, Timeout,
   run_write_cache_open, run_write_cache, Drive, Reap, Hang, Interrupt, Damage, StartSweep,
   Edit, Invoke, bench, server

THEOREM SpecTunedInv == Spec => []TunedInv
<1>1. Init => TunedInv
  BY EmptyIsSeq DEF Init, TunedInv, RaceTuned, FileTuned, ServerTuned, ServedWasTuned, NoSweep
<1>2. GateInv /\ TunedInv /\ [Next]_vars => TunedInv'
  <2> SUFFICES ASSUME GateInv, TunedInv, [Next]_vars PROVE TunedInv'
    OBVIOUS
  <2>1. RaceTuned' /\ tuned \subseteq tuned'
    BY NextRaceTuned DEF TunedInv
  <2>2. FileTuned' /\ ServerTuned'
    BY <2>1, NextFileTuned, NextServerTuned DEF TunedInv
  <2> QED BY <2>1, <2>2 DEF TunedInv
<1> QED BY <1>1, <1>2, SpecGateInv, PTL DEF Spec

\* A server hands to a launcher only what a sweep selected for that gpu, op and
\* shape: no interruption, short write or damage of the file, no order of loads
\* and sweeps makes the decoder take another configuration from it.
THEOREM OnlyTunedIsServed == Spec => []ServedWasTuned
<1>1. TunedInv => ServedWasTuned
  BY DEF TunedInv, ServerTuned
<1> QED BY <1>1, SpecTunedInv, PTL

\* The configurations of a race are those handed to it, in every state of every
\* sweep: each fits the SM and none is raced twice, whatever the limit.
THEOREM RaceFits == Spec => []RacedConfigsFit
<1> DEFINE Fit(cs) == /\ \A i \in DOMAIN cs : Fits(cs[i])
                      /\ \A i, j \in DOMAIN cs : cs[i] = cs[j] => i = j
<1>1. Fit(<<>>)
  OBVIOUS
<1>2. Init => RacedConfigsFit
  BY <1>1 DEF Init, NoSweep, RacedConfigsFit
<1>3. GateInv /\ RaceTuned /\ RacedConfigsFit /\ [Next]_vars => RacedConfigsFit'
  <2> SUFFICES ASSUME GateInv, RaceTuned, RacedConfigsFit, [Next]_vars PROVE RacedConfigsFit'
    OBVIOUS
  <2>0. /\ RacedConfigsFit <=> Fit(sweep.configs)
        /\ RacedConfigsFit' <=> Fit(sweep'.configs)
    BY DEF RacedConfigsFit, Fits
  <2> HIDE DEF Fit
  <2>1. CASE EndSweep \/ \E s \in Sweeps : StartSweep(s)
    BY <1>1, <2>0, <2>1 DEF EndSweep, StartSweep, NoSweep
  <2>2. CASE enumerate_configs /\ ~EndSweep
    <3>1. args.variants \in Int
      BY <2>2, SweepAssumption DEF enumerate_configs, AtSweep, RaceTuned
    <3>2. sweep'.configs = run_enumerate(args.variants)
      BY <2>2 DEF enumerate_configs, GateInv, WellFormed, IsSweep
    <3>3. Fit(run_enumerate(args.variants))
      BY <3>1, EnumerateFits DEF Fit
    <3> QED BY <2>0, <3>2, <3>3
  <2>3. CASE (build_driver \/ probe_device \/ RunEnded \/ Compare \/ run_time \/ SelectBest
              \/ run_write_cache_open) /\ ~EndSweep
    <3>1. sweep'.configs = sweep.configs
      BY <2>3 DEF build_driver, probe_device, RunEnded, Compare, run_time, SelectBest, Outcome,
                  run_write_cache_open, GateInv, WellFormed, IsSweep
    <3> QED BY <2>0, <3>1
  <2>4. CASE UNCHANGED sweep
    BY <2>0, <2>4
  <2> QED BY <2>1, <2>2, <2>3, <2>4
          DEF Next, SweepStep, vars, LongRace, run_run, run_write_cache, Timeout,
              Drive, Reap, Hang, Interrupt, Damage, LoadTuningCache, Edit, Invoke, Run, bench
<1>4. TunedInv => RaceTuned
  BY DEF TunedInv
<1> QED BY <1>2, <1>3, <1>4, SpecGateInv, SpecTunedInv, PTL DEF Spec

-----------------------------------------------------------------------------
(* What the drivers index. *)


\* The number of elements of a shape, by its leading dimensions: what the loop
\* over the dimensions has multiplied when it has seen those in a subset.
Multiplied(s, h) ==
    h = [d \in SUBSET (1..Len(s)) |-> IF d = {} THEN 1 ELSE h[d \ {Max(d)}] * s[Max(d)]]

LEMMA SizeMultiplies ==
    ASSUME NEW s \in Seq(Nat)
    PROVE  \E h \in [SUBSET (1..Len(s)) -> Nat] : Multiplied(s, h) /\ size(s) = h[1..Len(s)]
<1> DEFINE S == 1..Len(s)
           pick == [d \in SUBSET S |-> Max(d)]
           step == [xv \in S \X Nat |-> xv[2] * s[xv[1]]]
           body(f, d) == IF d = {} THEN 1 ELSE f[d \ {Max(d)}] * s[Max(d)]
           h == CHOOSE f : Multiplied(s, f)
<1>1. Len(s) \in Nat /\ DOMAIN s = S /\ \A i \in S : s[i] \in Nat
  OBVIOUS
<1>2. size(s) = h[S]
  <2>1. size(s) = (CHOOSE f : f = [d \in SUBSET (DOMAIN s) |->
                      IF d = {} THEN 1 ELSE f[d \ {Max(d)}] * s[Max(d)]])[DOMAIN s]
    BY DEF size, FoldLeft, MapThenFoldSet
  <2> QED BY <1>1, <2>1 DEF Multiplied
<1>3. \A d \in SUBSET S : d # {} => Max(d) \in d
  BY <1>1, LastPosition
<1>4. IsFiniteSet(S) /\ Picks(S, pick)
  <2>1. IsFiniteSet(S)
    <3>1. 1 \in Int /\ Len(s) \in Int
      OBVIOUS
    <3> QED BY <3>1, FS_Interval
  <2>2. \A d \in SUBSET S : pick[d] = Max(d)
    OBVIOUS
  <2> HIDE DEF pick, S
  <2> QED BY <1>3, <2>1, <2>2 DEF Picks
<1>5. 1 \in Nat /\ step \in [S \X Nat -> Nat]
  BY <1>1
<1>6. PICK f \in [SUBSET S -> Nat] : IsFold(S, pick, 1, step, f)
  <2> HIDE DEF S, pick, step
  <2> QED BY <1>4, <1>5, FoldExists
<1>7. Multiplied(s, f)
  <2>1. ASSUME NEW d \in SUBSET S
        PROVE  f[d] = body(f, d)
    <3>1. CASE d = {}
      BY <1>6, <3>1 DEF IsFold
    <3>2. CASE d # {}
      <4>1. Max(d) \in S /\ d \ {Max(d)} \in SUBSET S /\ pick[d] = Max(d)
        BY <1>3, <3>2
      <4>2. f[d] = step[<<Max(d), f[d \ {Max(d)}]>>]
        <5> HIDE DEF S, step, pick
        <5> QED BY <1>6, <3>2, <4>1 DEF IsFold
      <4>3. f[d \ {Max(d)}] \in Nat
        BY <1>6, <4>1
      <4> QED BY <3>2, <4>1, <4>2, <4>3
    <3> QED BY <3>1, <3>2
  <2>2. f = [d \in SUBSET S |-> f[d]]
    BY <1>6
  <2> QED BY <2>1, <2>2 DEF Multiplied
<1>8. Multiplied(s, h)
  BY <1>7
<1> HIDE DEF h
<1>9. \A d \in SUBSET S : h[d] = body(h, d)
  BY <1>8 DEF Multiplied
<1>10. \A d \in SUBSET S : h[d] \in Nat
  <2>1. h[{}] \in Nat
    <3>1. {} \in SUBSET S /\ 1 \in Nat
      OBVIOUS
    <3>2. h[{}] = 1
      BY <1>9, <3>1
    <3> QED BY <3>1, <3>2
  <2>2. ASSUME NEW d \in SUBSET S, d # {}, h[d \ {pick[d]}] \in Nat
        PROVE  h[d] \in Nat
    <3>1. Max(d) \in S /\ pick[d] = Max(d)
      BY <1>3, <2>2
    <3>2. h[d] = h[d \ {Max(d)}] * s[Max(d)]
      BY <1>9, <2>2
    <3> QED BY <1>1, <2>2, <3>1, <3>2
  <2> HIDE DEF pick, S
  <2> QED BY <1>4, <2>1, <2>2, FoldStays
<1>11. h = [d \in SUBSET S |-> h[d]]
  BY <1>8 DEF Multiplied
<1>12. h \in [SUBSET S -> Nat]
  BY <1>10, <1>11
<1> QED BY <1>2, <1>8, <1>12

LEMMA SizeAppend ==
    ASSUME NEW s \in Seq(Nat), NEW n \in Nat
    PROVE  /\ size(<<>>) = 1 /\ size(s) \in Nat
           /\ Append(s, n) \in Seq(Nat) /\ size(Append(s, n)) = size(s) * n
<1>1. PICK m : m = Len(s)
  OBVIOUS
<1>2. PICK t : t = Append(s, n)
  OBVIOUS
<1>3. /\ m \in Nat /\ t \in Seq(Nat) /\ Len(t) = m + 1
      /\ t[m + 1] = n /\ \A i \in 1..m : t[i] = s[i]
  BY <1>1, <1>2
<1>4. PICK h \in [SUBSET (1..m) -> Nat] : Multiplied(s, h) /\ size(s) = h[1..m]
  BY <1>1, SizeMultiplies
<1>5. PICK g \in [SUBSET (1..m + 1) -> Nat] : Multiplied(t, g) /\ size(t) = g[1..m + 1]
  BY <1>3, SizeMultiplies
<1>6. \A d \in SUBSET (1..m) :
         h[d] = IF d = {} THEN 1 ELSE h[d \ {Max(d)}] * s[Max(d)]
  BY <1>1, <1>4 DEF Multiplied
<1>7. \A d \in SUBSET (1..m + 1) :
         g[d] = IF d = {} THEN 1 ELSE g[d \ {Max(d)}] * t[Max(d)]
  BY <1>3, <1>5 DEF Multiplied
<1> DEFINE S == 1..m
           pick == [d \in SUBSET S |-> Max(d)]
           same == [d \in SUBSET S |-> IF g[d] = h[d] THEN 1 ELSE 0]
           One == {1}
<1>8. \A d \in SUBSET S : d # {} => Max(d) \in d
  BY <1>3, LastPosition
<1>9. IsFiniteSet(S) /\ Picks(S, pick)
  <2>1. IsFiniteSet(S)
    <3>1. 1 \in Int /\ m \in Int
      BY <1>3
    <3> QED BY <3>1, FS_Interval
  <2>2. \A d \in SUBSET S : pick[d] = Max(d)
    OBVIOUS
  <2> HIDE DEF pick, S
  <2> QED BY <1>8, <2>1, <2>2 DEF Picks
<1>10. \A d \in SUBSET S : d \in SUBSET (1..m + 1)
  BY <1>3
<1>11. \A d \in SUBSET S : same[d] \in One
  <2>1. same[{}] \in One
    <3>1. g[{}] = 1 /\ h[{}] = 1 /\ {} \in SUBSET S
      BY <1>6, <1>7
    <3> QED BY <3>1
  <2>2. ASSUME NEW d \in SUBSET S, d # {}, same[d \ {pick[d]}] \in One
        PROVE  same[d] \in One
    <3>1. Max(d) \in S /\ pick[d] = Max(d) /\ d \ {Max(d)} \in SUBSET S
      BY <1>8, <2>2
    <3>2. g[d \ {Max(d)}] = h[d \ {Max(d)}]
      BY <2>2, <3>1
    <3>3. g[d] = g[d \ {Max(d)}] * t[Max(d)]
      BY <1>7, <1>10, <2>2
    <3>4. h[d] = h[d \ {Max(d)}] * s[Max(d)]
      BY <1>6, <2>2
    <3> QED BY <1>3, <3>1, <3>2, <3>3, <3>4
  <2> HIDE DEF pick, S, same, One
  <2> QED BY <1>9, <2>1, <2>2, FoldStays
<1>12. g[1..m] = h[1..m]
  <2>1. same[S] \in One
    BY <1>11
  <2> QED BY <2>1
<1>13. PICK p \in Nat : p = m + 1
  BY <1>3
<1>14. g[1..p] = g[1..m] * n
  <2>1. p \in 1..p /\ (1..p) \ {p} = 1..m
    BY <1>3, <1>13
  <2>2. Max(1..p) \in 1..p /\ Max(1..p) >= p
    <3>1. 1..p \in SUBSET (1..p) /\ 1..p # {}
      BY <2>1
    <3> QED BY <2>1, <3>1, LastPosition
  <2>3. Max(1..p) = p
    BY <1>13, <2>2
  <2>4. g[1..p] = g[(1..p) \ {Max(1..p)}] * t[Max(1..p)]
    BY <1>7, <1>13, <2>1
  <2> QED BY <1>3, <1>13, <2>1, <2>3, <2>4
<1>15. size(<<>>) = 1
  <2>1. <<>> \in Seq(Nat) /\ Len(<<>>) = 0 /\ 1..0 = {}
    OBVIOUS
  <2>2. PICK k \in [SUBSET (1..0) -> Nat] : Multiplied(<<>>, k) /\ size(<<>>) = k[1..0]
    BY <2>1, SizeMultiplies
  <2>3. k[{}] = 1
    BY <2>1, <2>2 DEF Multiplied
  <2> QED BY <2>1, <2>2, <2>3
<1>16. size(s) \in Nat
  BY <1>4
<1> QED BY <1>2, <1>3, <1>4, <1>5, <1>12, <1>13, <1>14, <1>15, <1>16

\* The sizes of the shapes that the kernels are written for.
LEMMA SizeOfOne == ASSUME NEW a \in Nat PROVE <<a>> \in Seq(Nat) /\ size(<<a>>) = a
<1>1. <<>> \in Seq(Nat) /\ <<a>> = Append(<<>>, a)
  OBVIOUS
<1>2. size(<<>>) = 1 /\ size(<<a>>) = size(<<>>) * a
  BY <1>1, SizeAppend
<1> QED BY <1>2

LEMMA SizeOfTwo ==
    ASSUME NEW a \in Nat, NEW b \in Nat
    PROVE  <<a, b>> \in Seq(Nat) /\ size(<<a, b>>) = a * b
<1>1. <<a>> \in Seq(Nat) /\ <<a, b>> = Append(<<a>>, b)
  OBVIOUS
<1>2. size(<<a, b>>) = size(<<a>>) * b
  BY <1>1, SizeAppend
<1> QED BY <1>2, SizeOfOne

LEMMA Dimensions == ASSUME NEW q \in Seq(Nat) PROVE \A i \in 1..Len(q) : q[i] \in Nat
OBVIOUS

LEMMA SizeOfFour ==
    ASSUME NEW q \in Seq(Nat), Len(q) = 4
    PROVE  size(q) = q[1] * q[2] * q[3] * q[4]
<1>0. \A i \in 1..4 : q[i] \in Nat
  BY Dimensions
<1>1. PICK a \in Nat : a = q[1]
  BY <1>0
<1>2. PICK b \in Nat : b = q[2]
  BY <1>0
<1>3. PICK c \in Nat : c = q[3]
  BY <1>0
<1>4. PICK d \in Nat : d = q[4]
  BY <1>0
<1>5. PICK three \in Seq(Nat) : three = Append(<<a, b>>, c) /\ size(three) = size(<<a, b>>) * c
  BY SizeOfTwo, SizeAppend
<1>6. q = Append(three, d)
  BY <1>1, <1>2, <1>3, <1>4, <1>5
<1>7. size(three) = (a * b) * c
  BY <1>5, SizeOfTwo
<1>8. size(q) = size(three) * d
  BY <1>6, SizeAppend
<1> QED BY <1>1, <1>2, <1>3, <1>4, <1>7, <1>8

\* A shape that is not a scalar's is its rows by the length of one.
LEMMA SizeOfRows ==
    ASSUME NEW s \in Seq(Nat), s # <<>>
    PROVE  /\ back(s) \in Nat /\ Front(s) \in Seq(Nat)
           /\ size(s) = size(Front(s)) * back(s)
           /\ back(s) # 0 => Rows(s) = size(Front(s))
<1>1. PICK m : m = Len(s)
  OBVIOUS
<1>2. m \in Nat /\ m # 0 /\ DOMAIN s = 1..m
  BY <1>1
<1>3. PICK k : k = s[m]
  OBVIOUS
<1>4. k \in Nat /\ back(s) = k
  BY <1>1, <1>2, <1>3 DEF back, Last
<1>5. PICK f : f = Front(s)
  OBVIOUS
<1>6. f = SubSeq(s, 1, m - 1)
  BY <1>1, <1>5 DEF Front
<1>7. f \in Seq(Nat) /\ Len(f) = m - 1 /\ \A i \in 1..m - 1 : f[i] = s[i]
  BY <1>1, <1>2, <1>6
<1>8. s = Append(f, k)
  BY <1>1, <1>2, <1>3, <1>7
<1>9. PICK r : r = size(f)
  OBVIOUS
<1>10. r \in Nat /\ size(s) = r * k
  BY <1>4, <1>7, <1>8, <1>9, SizeAppend
<1>11. k # 0 => Rows(s) = r
  <2>1. ASSUME k # 0
        PROVE  (r * k) \div k = r
    <3>1. k \in Nat \ {0} /\ 0 \in 0..k - 1
      BY <1>4, <2>1
    <3>2. (r * k + 0) \div k = r
      BY <1>10, <3>1, Quotient
    <3>3. r * k + 0 = r * k
      BY <1>4, <1>10
    <3> QED BY <3>2, <3>3
  <2> QED BY <1>4, <1>10, <2>1 DEF Rows
<1> QED BY <1>4, <1>5, <1>7, <1>9, <1>10, <1>11

\* A plan fits a call: OperandsFit of a process that runs it.
Fit(p, a) ==
    /\ \A x \in p.inputs : p.needs[x] = size(a[x])
    /\ size(p.shape) = p.writes

Shaped(a) == a.A \in Seq(Nat) /\ a.B \in Seq(Nat) /\ a.C \in Seq(Nat)

\* An op on the rows of A, with what it reads of C.
LEMMA RowsFit ==
    ASSUME NEW a, Shaped(a), a.A # <<>>, back(a.A) # 0, NEW p,
           p.inputs \subseteq {"A", "C"}, p.needs.A = Rows(a.A) * back(a.A),
           p.shape = a.A, p.writes = size(a.A),
           "C" \in p.inputs => p.needs.C = size(a.C)
    PROVE  Fit(p, a)
<1>1. Rows(a.A) * back(a.A) = size(a.A)
  BY SizeOfRows DEF Shaped
<1> QED BY <1>1 DEF Fit

\* A product of matrices whose contraction dimensions agree.
LEMMA ProductFits ==
    ASSUME NEW a, Shaped(a), a.A # <<>>, Len(a.B) = 2, back(a.A) # 0,
           dim(a.B, 1) = back(a.A), NEW p, p.inputs \subseteq {"A", "B", "C"},
           p.needs.A = MatMulNeeds(a).A, p.needs.B = MatMulNeeds(a).B,
           p.shape = matmul_out_shape(a.A, dim(a.B, 2)), p.writes = Rows(a.A) * dim(a.B, 2),
           "C" \in p.inputs => p.needs.C = size(a.C)
    PROVE  Fit(p, a)
<1>1. PICK k, n : k = a.B[1] /\ n = a.B[2]
  OBVIOUS
<1>2. k \in Nat /\ n \in Nat /\ dim(a.B, 1) = k /\ dim(a.B, 2) = n /\ a.B = <<k, n>>
  BY <1>1 DEF Shaped, dim
<1>3. size(a.B) = k * n
  <2>1. k \in Nat /\ n \in Nat
    BY <1>2
  <2>2. size(<<k, n>>) = k * n
    BY <2>1, SizeOfTwo
  <2> QED BY <1>2, <2>2
<1>4. back(a.A) = k /\ Rows(a.A) * k = size(a.A)
  BY <1>2, SizeOfRows DEF Shaped
<1>5. Front(a.A) \in Seq(Nat) /\ Rows(a.A) = size(Front(a.A))
  BY SizeOfRows DEF Shaped
<1>6. size(Append(Front(a.A), n)) = Rows(a.A) * n
  BY <1>2, <1>5, SizeAppend
<1>7. p.needs.A = size(a.A) /\ p.needs.B = size(a.B)
  BY <1>2, <1>3, <1>4 DEF MatMulNeeds
<1>8. size(p.shape) = p.writes
  BY <1>2, <1>6 DEF matmul_out_shape
<1> QED BY <1>7, <1>8 DEF Fit

\* What a call and its plan have to meet for the kernel to be launched.
Launched(p, a) == ~p.usage /\ ~p.refuse /\ ~(p.divides /\ back(a.A) = 0)

LEMMA MatmulPlan ==
    ASSUME NEW a, Shaped(a), a.A # <<>>, Len(a.B) = 2, Launched(run_matmul(a), a)
    PROVE  Fit(run_matmul(a), a)
<1>1. PICK p : p = run_matmul(a)
  OBVIOUS
<1>2. /\ p.inputs = {"A", "B"} /\ p.needs = MatMulNeeds(a) /\ p.divides
      /\ p.refuse <=> dim(a.B, 1) # back(a.A)
      /\ p.shape = matmul_out_shape(a.A, dim(a.B, 2)) /\ p.writes = Rows(a.A) * dim(a.B, 2)
  BY <1>1 DEF run_matmul
<1> QED BY <1>1, <1>2, ProductFits DEF Launched

LEMMA BiasPlan ==
    ASSUME NEW a, Shaped(a), a.A # <<>>, Len(a.B) = 2, NEW p,
           p = run_fused_matmul_bias_gelu(a), dim(a.B, 1) = back(a.A), back(a.A) # 0,
           size(a.C) = dim(a.B, 2)
    PROVE  Fit(p, a)
<1>1. /\ p.inputs = {"A", "B", "C"} /\ p.needs = [MatMulNeeds(a) EXCEPT !.C = dim(a.B, 2)]
      /\ p.shape = matmul_out_shape(a.A, dim(a.B, 2)) /\ p.writes = Rows(a.A) * dim(a.B, 2)
  BY DEF run_fused_matmul_bias_gelu, run_matmul
<1>2. /\ p.needs.A = MatMulNeeds(a).A /\ p.needs.B = MatMulNeeds(a).B
      /\ p.needs.C = size(a.C)
  BY <1>1 DEF MatMulNeeds
<1> QED BY <1>1, <1>2, ProductFits

\* The op on rows of the GPU drivers and of the references.
LEMMA RowPlans ==
    ASSUME NEW a, Shaped(a), NEW p, Launched(p, a), a.A # <<>>,
           \/ p = run_rmsnorm(a) /\ ~a.weight
           \/ p = cpu_ref_rmsnorm(a)
           \/ p = run_softmax(a) \/ p = cpu_ref_softmax(a)
    PROVE  Fit(p, a)
<1> DEFINE Reads(q) == /\ q.needs.A = Rows(a.A) * back(a.A) /\ q.shape = a.A
                       /\ q.writes = size(a.A) /\ q.inputs \subseteq {"A", "C"}
<1>1. PICK q : q = run_rmsnorm(a)
  OBVIOUS
<1>2. PICK r : r = run_softmax(a)
  OBVIOUS
<1>3. /\ Reads(q) /\ q.divides /\ q.inputs = (IF a.weight THEN {"A", "C"} ELSE {"A"})
      /\ a.weight => q.needs.C = back(a.A)
  BY <1>1 DEF run_rmsnorm
<1>4. Reads(r) /\ r.inputs = {"A"} /\ (r.divides <=> ~r.refuse)
  BY <1>2 DEF run_softmax
<1>5. CASE p = q /\ ~a.weight
  BY <1>3, <1>5, RowsFit DEF Launched
<1>6. CASE p = cpu_ref_rmsnorm(a)
  <2>1. /\ p.needs = q.needs /\ p.shape = q.shape /\ p.writes = q.writes
        /\ p.inputs = q.inputs /\ (p.divides <=> a.A # <<>>)
        /\ p.refuse <=> a.A = <<>> \/ (a.weight /\ size(a.C) # back(a.A))
    BY <1>1, <1>6 DEF cpu_ref_rmsnorm, run_rmsnorm
  <2>2. back(a.A) # 0 /\ (a.weight => p.needs.C = size(a.C))
    BY <1>3, <2>1 DEF Launched
  <2> QED BY <1>3, <2>1, <2>2, RowsFit
<1>7. CASE p = r
  BY <1>4, <1>7, RowsFit DEF Launched
<1>8. CASE p = cpu_ref_softmax(a)
  <2>1. /\ p.needs = r.needs /\ p.shape = r.shape /\ p.writes = r.writes
        /\ p.inputs = r.inputs /\ (p.divides <=> ~p.refuse)
    BY <1>2, <1>8 DEF cpu_ref_softmax, run_softmax
  <2> QED BY <1>4, <2>1, RowsFit DEF Launched
<1> QED BY <1>1, <1>2, <1>5, <1>6, <1>7, <1>8

LEMMA ElementPlan ==
    ASSUME NEW a
    PROVE  Fit(run_gelu(a), a)
<1>1. PICK p : p = run_gelu(a)
  OBVIOUS
<1>2. p.inputs = {"A"} /\ p.needs.A = size(a.A) /\ p.shape = a.A /\ p.writes = size(a.A)
  BY <1>1 DEF run_gelu
<1> QED BY <1>1, <1>2 DEF Fit

\* The products: of the GPU drivers, of the tensor-core kernels, and of the
\* references, which look at the ranks themselves.
LEMMA ProductPlans ==
    ASSUME NEW a, Shaped(a), NEW p, Launched(p, a), a.A # <<>>, Len(a.B) = 2,
           \/ p = run_matmul(a) \/ p = run_fused_matmul_bias_gelu(a)
           \/ p = int8_run("int8", a) /\ Len(a.C) = 1
    PROVE  Fit(p, a)
<1>1. CASE p = run_matmul(a)
  BY <1>1, MatmulPlan
<1>2. CASE p = run_fused_matmul_bias_gelu(a)
  <2>1. p.divides /\ (p.refuse <=> dim(a.B, 1) # back(a.A) \/ size(a.C) # dim(a.B, 2))
    BY <1>2 DEF run_fused_matmul_bias_gelu, run_matmul
  <2> QED BY <1>2, <2>1, BiasPlan DEF Launched
<1>3. CASE p = int8_run("int8", a) /\ Len(a.C) = 1
  <2>1. /\ p.inputs = {"A", "B", "C"} /\ p.needs = [MatMulNeeds(a) EXCEPT !.C = dim(a.B, 2)]
        /\ p.shape = matmul_out_shape(a.A, dim(a.B, 2)) /\ p.writes = Rows(a.A) * dim(a.B, 2)
        /\ p.divides /\ (p.refuse <=> dim(a.B, 1) # back(a.A) \/ dim(a.C, 1) # dim(a.B, 2))
    BY <1>3 DEF int8_run, run_matmul
  <2>2. PICK n : n = a.C[1]
    OBVIOUS
  <2>3. n \in Nat /\ dim(a.C, 1) = n /\ a.C = <<n>>
    BY <1>3, <2>2 DEF Shaped, dim
  <2>4. size(<<n>>) = n
    BY <2>3, SizeOfOne
  <2>5. /\ p.needs.A = MatMulNeeds(a).A /\ p.needs.B = MatMulNeeds(a).B
        /\ p.needs.C = size(a.C)
    BY <2>1, <2>3, <2>4 DEF MatMulNeeds, Launched
  <2>6. back(a.A) # 0 /\ dim(a.B, 1) = back(a.A)
    BY <2>1 DEF Launched
  <2> QED BY <2>1, <2>5, <2>6, ProductFits
<1> QED BY <1>1, <1>2, <1>3

LEMMA ReferencePlans ==
    ASSUME NEW a, Shaped(a), NEW op, NEW p, p = cpu_ref(op, a), Launched(p, a)
    PROVE  Fit(p, a)
<1>1. CASE op = "rmsnorm"
  <2>1. p = cpu_ref_rmsnorm(a)
    BY <1>1 DEF cpu_ref
  <2>2. a.A # <<>>
    BY <2>1 DEF Launched, cpu_ref_rmsnorm, run_rmsnorm
  <2> QED BY <2>1, <2>2, RowPlans
<1>2. CASE op = "softmax"
  <2>1. p = cpu_ref_softmax(a)
    BY <1>2 DEF cpu_ref
  <2>2. a.A # <<>>
    BY <2>1 DEF Launched, cpu_ref_softmax, run_softmax
  <2> QED BY <2>1, <2>2, RowPlans
<1>3. CASE op \in {"gelu", "silu"}
  <2>1. p = run_gelu(a)
    BY <1>3 DEF cpu_ref, cpu_ref_gelu, cpu_ref_silu
  <2> QED BY <2>1, ElementPlan
<1>4. CASE op \in {"matmul", "fused_rmsnorm_matmul"}
  <2>1. p = cpu_ref_matmul(a)
    BY <1>4 DEF cpu_ref, cpu_ref_fused_rmsnorm_matmul
  <2>2. PICK q : q = run_matmul(a)
    OBVIOUS
  <2>3. p = [q EXCEPT !.refuse = @ \/ BadRanks(a), !.divides = ~BadRanks(a)]
    BY <2>1, <2>2 DEF cpu_ref_matmul
  <2>4. /\ q.divides /\ p.needs = q.needs /\ p.inputs = q.inputs
        /\ p.shape = q.shape /\ p.writes = q.writes /\ p.usage = q.usage
        /\ (p.refuse <=> q.refuse \/ BadRanks(a)) /\ (p.divides <=> ~BadRanks(a))
    BY <2>2, <2>3 DEF run_matmul
  <2>5. Launched(q, a) /\ ~BadRanks(a)
    BY <2>4 DEF Launched
  <2>6. a.A # <<>> /\ Len(a.B) = 2
    BY <2>5 DEF BadRanks, Shaped
  <2>7. Fit(q, a)
    BY <2>2, <2>5, <2>6, ProductPlans
  <2> QED BY <2>4, <2>7 DEF Fit
<1>5. CASE op = "fused_matmul_bias_gelu"
  <2>1. p = cpu_ref_fused_matmul_bias_gelu(a)
    BY <1>5 DEF cpu_ref
  <2>2. PICK q : q = run_fused_matmul_bias_gelu(a)
    OBVIOUS
  <2>3. p = [q EXCEPT !.refuse = @ \/ BadRanks(a), !.divides = ~BadRanks(a)]
    BY <2>1, <2>2 DEF cpu_ref_fused_matmul_bias_gelu
  <2>3a. /\ q = [usage |-> q.usage, inputs |-> q.inputs, divides |-> q.divides,
                 refuse |-> q.refuse, needs |-> q.needs, writes |-> q.writes, shape |-> q.shape]
         /\ q.divides
    BY <2>2 DEF run_fused_matmul_bias_gelu, run_matmul
  <2>4. /\ q.divides /\ p.needs = q.needs /\ p.inputs = q.inputs
        /\ p.shape = q.shape /\ p.writes = q.writes /\ p.usage = q.usage
        /\ (p.refuse <=> q.refuse \/ BadRanks(a)) /\ (p.divides <=> ~BadRanks(a))
    BY <2>3, <2>3a
  <2>5. Launched(q, a) /\ ~BadRanks(a)
    BY <2>4 DEF Launched
  <2>6. a.A # <<>> /\ Len(a.B) = 2
    BY <2>5 DEF BadRanks, Shaped
  <2>7. Fit(q, a)
    BY <2>2, <2>5, <2>6, ProductPlans
  <2> QED BY <2>4, <2>7 DEF Fit
<1>6. CASE op \notin {"rmsnorm", "softmax", "gelu", "silu", "matmul",
                      "fused_rmsnorm_matmul", "fused_matmul_bias_gelu"}
  BY <1>6 DEF cpu_ref, Unknown, Launched
<1> QED BY <1>1, <1>2, <1>3, <1>4, <1>5, <1>6

LEMMA AttentionPlans ==
    ASSUME NEW a, Shaped(a), NEW op, NEW p, p = attention(op, a), Launched(p, a),
           \A x \in p.inputs : Len(a[x]) = 4
    PROVE  Fit(p, a)
<1>0. CASE op \notin {"append", "prefill"}
  BY <1>0 DEF attention, Unknown, Launched
<1> SUFFICES ASSUME op \in {"append", "prefill"} PROVE Fit(p, a)
  BY <1>0
<1>0a. p.inputs = IF op = "append" THEN {"A", "B"} ELSE {"A", "B", "C"}
  BY DEF attention, run_append, run_prefill
<1>0b. Len(a.A) = 4 /\ Len(a.B) = 4 /\ (op = "prefill" => Len(a.C) = 4)
  BY <1>0a
<1>1. PICK b \in Nat : b = a.A[1]
  BY <1>0b DEF Shaped
<1>2. PICK h \in Nat : h = a.A[2]
  BY <1>0b DEF Shaped
<1>3. PICK s \in Nat : s = a.A[3]
  BY <1>0b DEF Shaped
<1>4. PICK d \in Nat : d = a.A[4]
  BY <1>0b DEF Shaped
<1>5. PICK t \in Nat : t = a.B[3]
  BY <1>0b DEF Shaped
<1>6. dim(a.A, 1) = b /\ dim(a.A, 2) = h /\ dim(a.A, 3) = s /\ dim(a.A, 4) = d
  BY <1>0b, <1>1, <1>2, <1>3, <1>4 DEF dim
<1>7. /\ dim(a.B, 1) = a.B[1] /\ dim(a.B, 2) = a.B[2] /\ dim(a.B, 3) = t
      /\ dim(a.B, 4) = a.B[4]
  BY <1>0b, <1>5 DEF Shaped, dim
<1>8. size(a.A) = b * h * s * d
  BY <1>0b, <1>1, <1>2, <1>3, <1>4, SizeOfFour DEF Shaped
<1>9. a.B[1] = b /\ a.B[2] = h /\ a.B[4] = d => size(a.B) = b * h * t * d
  BY <1>0b, <1>5, SizeOfFour DEF Shaped
<1>10. CASE op = "append"
  <2>1. p = run_append(a)
    BY <1>10 DEF attention
  <2>2. PICK u \in Nat : u = s + t
    OBVIOUS
  <2>3. PICK new : new = <<b, h, u, d>>
    OBVIOUS
  <2>4. /\ p.inputs = {"A", "B"} /\ p.shape = new /\ p.writes = b * h * u * d
        /\ p.needs.A = b * h * s * d /\ p.needs.B = b * h * t * d
    BY <1>6, <1>7, <2>1, <2>2, <2>3 DEF run_append
  <2>5. \A x \in {1, 2, 4} : dim(a.A, x) = dim(a.B, x)
    BY <2>1 DEF Launched, run_append
  <2>6. size(a.B) = b * h * t * d
    BY <1>6, <1>7, <1>9, <2>5
  <2>7. size(new) = b * h * u * d
    <3>1. /\ new \in Seq(Nat) /\ Len(new) = 4
          /\ new[1] = b /\ new[2] = h /\ new[3] = u /\ new[4] = d
      BY <2>3
    <3> QED BY <3>1, SizeOfFour
  <2> QED BY <1>8, <2>4, <2>6, <2>7 DEF Fit
<1>11. CASE op = "prefill"
  <2>1. p = run_prefill(a)
    BY <1>11 DEF attention
  <2>2. /\ p.inputs = {"A", "B", "C"} /\ p.shape = a.A
        /\ p.writes = b * h * s * d
        /\ p.needs.A = b * h * s * d /\ p.needs.B = b * h * t * d
        /\ p.needs.C = b * h * t * d
    BY <1>6, <1>7, <2>1 DEF run_prefill
  <2>3. (\A x \in {1, 2, 4} : dim(a.A, x) = dim(a.B, x) /\ dim(a.A, x) = dim(a.C, x))
        /\ dim(a.B, 3) = dim(a.C, 3)
    BY <2>1 DEF Launched, run_prefill
  <2>4. size(a.B) = b * h * t * d
    BY <1>6, <1>7, <1>9, <2>3
  <2>5. size(a.C) = b * h * t * d
    <3>1. /\ dim(a.C, 1) = a.C[1] /\ dim(a.C, 2) = a.C[2] /\ dim(a.C, 3) = a.C[3]
          /\ dim(a.C, 4) = a.C[4]
      BY <1>0b, <1>11 DEF Shaped, dim
    <3>2. a.C[1] = b /\ a.C[2] = h /\ a.C[3] = t /\ a.C[4] = d
      BY <1>6, <1>7, <2>3, <3>1
    <3> QED BY <1>0b, <1>11, <3>2, SizeOfFour DEF Shaped
  <2> QED BY <1>8, <2>2, <2>4, <2>5 DEF Fit
<1> QED BY <1>10, <1>11

\* Every plan of a call with the ranks its kernel is written for.
LEMMA PlansFit ==
    ASSUME NEW c, Shaped(c.args), Ranked(c, Plan(c)),
           ~(c.op = "rmsnorm" /\ ~OnCpu(c) /\ c.args.weight), Launched(Plan(c), c.args)
    PROVE  Fit(Plan(c), c.args)
<1>1. PICK a : a = c.args
  OBVIOUS
<1>2. PICK p : p = Plan(c)
  OBVIOUS
<1>3. Shaped(a) /\ Launched(p, a)
  BY <1>1, <1>2
<1> SUFFICES Fit(p, a)
  BY <1>1, <1>2
<1>4. CASE c.prog = "attention"
  <2>1. p = attention(c.op, a)
    BY <1>1, <1>2, <1>4 DEF Plan
  <2>2. \A x \in p.inputs : Len(a[x]) = 4
    BY <1>1, <1>2, <1>4 DEF Ranked
  <2> QED BY <1>3, <2>1, <2>2, AttentionPlans
<1>5. CASE c.prog = "cpu_ref"
  <2>1. p = cpu_ref(c.op, a)
    BY <1>1, <1>2, <1>5 DEF Plan
  <2> QED BY <1>3, <2>1, ReferencePlans
<1>6. CASE c.prog \notin {"attention", "cpu_ref"}
  <2>1. /\ a.A # <<>> /\ ("B" \in p.inputs => Len(a.B) = 2)
        /\ (c.op = "int8" => Len(a.C) = 1)
    <3>1. Len(a.A) > 0 /\ ("B" \in p.inputs => Len(a.B) = 2) /\ (c.op = "int8" => Len(a.C) = 1)
      BY <1>1, <1>2, <1>6 DEF Ranked
    <3> QED BY <3>1
  <2>2. "B" \in run_matmul(a).inputs /\ "B" \in run_fused_matmul_bias_gelu(a).inputs
        /\ "B" \in int8_run("int8", a).inputs
    BY DEF run_matmul, run_fused_matmul_bias_gelu, int8_run
  <2>3. CASE \/ p = run_matmul(a) \/ p = run_fused_matmul_bias_gelu(a)
             \/ p = int8_run("int8", a) /\ c.op = "int8"
    BY <1>3, <2>1, <2>2, <2>3, ProductPlans
  <2>4. CASE \/ p = run_rmsnorm(a) /\ ~a.weight
             \/ p = run_softmax(a)
    BY <1>3, <2>1, <2>4, RowPlans
  <2>5. CASE p = run_gelu(a)
    BY <2>5, ElementPlan
  <2>6. CASE p = Unknown(a)
    BY <1>3, <2>6 DEF Launched, Unknown
  <2>7. CASE p = cpu_ref(c.op, a)
    BY <1>3, <2>7, ReferencePlans
  <2>8. CASE c.prog \in {"cuda_run", "hip_run"}
    <3>1. p = cuda_run(c.op, a)
      BY <1>1, <1>2, <2>8 DEF Plan, cuda_run, hip_run, hip_run_rmsnorm, hip_run_gelu,
         hip_run_matmul, hip_run_softmax, hip_run_fused_rmsnorm_matmul,
         hip_run_fused_matmul_bias_gelu
    <3>2. c.op = "rmsnorm" => ~a.weight
      BY <1>1, <2>8 DEF OnCpu
    <3>3. \/ p = run_matmul(a) \/ p = run_fused_matmul_bias_gelu(a)
          \/ p = run_rmsnorm(a) /\ ~a.weight
          \/ p = run_softmax(a) \/ p = run_gelu(a) \/ p = Unknown(a)
      BY <3>1, <3>2 DEF cuda_run, run_fused_rmsnorm_matmul
    <3> QED BY <2>3, <2>4, <2>5, <2>6, <3>3
  <2>9. CASE c.prog \in {"wmma_run", "mma_run", "int8_run", "matmul_quant"}
    <3>1. \/ p = run_matmul(a) \/ p = Unknown(a)
          \/ p = int8_run("int8", a) /\ c.op = "int8"
      <4>1. CASE c.prog \in {"wmma_run", "mma_run"}
        BY <1>1, <1>2, <4>1 DEF Plan, wmma_run, mma_run
      <4>2. CASE c.prog = "int8_run"
        <5>1. p = int8_run(c.op, a)
          BY <1>1, <1>2, <4>2 DEF Plan
        <5> QED BY <5>1 DEF int8_run
      <4>3. CASE c.prog = "matmul_quant"
        <5>1. p = matmul_quant(c.op, a)
          BY <1>1, <1>2, <4>3 DEF Plan
        <5> QED BY <5>1 DEF matmul_quant, run_int8, run_fp8sim
      <4> QED BY <2>9, <4>1, <4>2, <4>3
    <3> QED BY <2>3, <2>6, <3>1
  <2>10. CASE c.prog \notin {"cuda_run", "hip_run", "wmma_run", "mma_run", "int8_run",
                             "matmul_quant"}
    <3>1. p = cpu_ref(c.op, a)
      BY <1>1, <1>2, <1>6, <2>10 DEF Plan
    <3> QED BY <2>7, <3>1
  <2> QED BY <2>8, <2>9, <2>10
<1> QED BY <1>4, <1>5, <1>6

\* A running driver has the plan of its command line, and launches a kernel
\* only where the plan lets it.
Planned(c, p) ==
    \/ c \in Calls /\ p = Plan(c)
    \/ c.prog = "bench" /\ \E s \in Sweeps : c.args = make_inputs(s) /\ p = setup_op(c.op, c.args)

Allowed(where, c, p) ==
    /\ where \notin {"none", "parse", "exit"} => ~p.usage
    /\ where \in {"upload", "launch", "compute"} =>
          ~p.refuse /\ ~(p.divides /\ back(c.args.A) = 0)

FitInv ==
    proc # None => Planned(proc.cmd, proc.plan) /\ Allowed(proc.pc, proc.cmd, proc.plan)

\* The bench driver compares no dimensions: those of its inputs agree.
LEMMA BenchFits ==
    ASSUME NEW s \in Sweeps, NEW op, NEW a, a = make_inputs(s), NEW p, p = setup_op(op, a),
           ~(p.divides /\ back(a.A) = 0)
    PROVE  Fit(p, a)
<1>1. PICK m \in Nat : m = s.shape.m
  BY SweepAssumption
<1>2. PICK n \in Nat : n = s.shape.n
  BY SweepAssumption
<1>3. PICK k \in Nat : k = s.shape.k
  BY SweepAssumption
<1>4. a.A = <<m, k>> /\ a.B = <<k, n>> /\ a.C = <<n>>
  BY <1>1, <1>2, <1>3 DEF make_inputs
<1>5. /\ Shaped(a) /\ a.A # <<>> /\ Len(a.B) = 2 /\ back(a.A) = k
      /\ dim(a.B, 1) = k /\ dim(a.B, 2) = n
  BY <1>4 DEF Shaped, back, Last, dim
<1>6. size(a.C) = n
  BY <1>4, SizeOfOne
<1>7. CASE op = "fused_matmul_bias_gelu"
  <2>1. PICK q : q = run_fused_matmul_bias_gelu(a)
    OBVIOUS
  <2>2. /\ p.divides /\ p.needs = q.needs /\ p.inputs = q.inputs
        /\ p.shape = q.shape /\ p.writes = q.writes
    BY <1>7, <2>1 DEF setup_op, run_fused_matmul_bias_gelu, run_matmul
  <2>3. Fit(q, a)
    BY <1>5, <1>6, <2>1, <2>2, BiasPlan
  <2> QED BY <2>2, <2>3 DEF Fit
<1>8. CASE op # "fused_matmul_bias_gelu"
  <2>1. /\ p.divides /\ p.needs = MatMulNeeds(a) /\ p.inputs = {"A", "B"}
        /\ p.shape = matmul_out_shape(a.A, dim(a.B, 2)) /\ p.writes = Rows(a.A) * dim(a.B, 2)
    BY <1>8 DEF setup_op, run_matmul
  <2> QED BY <1>5, <2>1, ProductFits
<1> QED BY <1>7, <1>8

LEMMA FitInvFits == FitInv => OperandsFit
<1> SUFFICES ASSUME FitInv, proc.pc \in {"launch", "compute"},
                    Ranked(proc.cmd, proc.plan),
                    ~(proc.cmd.op = "rmsnorm" /\ ~OnCpu(proc.cmd) /\ proc.cmd.args.weight)
             PROVE  Fit(proc.plan, proc.cmd.args)
  BY DEF OperandsFit, Fit
<1>1. PICK c : c = proc.cmd
  OBVIOUS
<1>2. PICK p : p = proc.plan
  OBVIOUS
<1>3. Planned(c, p) /\ ~p.usage /\ ~p.refuse /\ ~(p.divides /\ back(c.args.A) = 0)
  <2>1. proc # None
    BY DEF None
  <2>2. Allowed(proc.pc, c, p) /\ Planned(c, p)
    BY <1>1, <1>2, <2>1 DEF FitInv
  <2> QED BY <2>2 DEF Allowed
<1>4. CASE c \in Calls /\ p = Plan(c)
  <2>1. Shaped(c.args)
    BY <1>4, CallAssumption DEF Shaped
  <2>2. Launched(p, c.args)
    BY <1>3 DEF Launched
  <2> QED BY <1>1, <1>2, <1>4, <2>1, <2>2, PlansFit
<1>5. CASE \E s \in Sweeps : c.args = make_inputs(s) /\ p = setup_op(c.op, c.args)
  <2>1. PICK s \in Sweeps : c.args = make_inputs(s) /\ p = setup_op(c.op, c.args)
    BY <1>5
  <2> QED BY <1>1, <1>2, <1>3, <2>1, BenchFits
<1> QED BY <1>3, <1>4, <1>5 DEF Planned

\* A step of a driver keeps its plan, and passes a check only if it holds.
LEMMA DriverFitInv ==
    ASSUME IsProc(proc), FitInv, proc # None, DriverStep
    PROVE  FitInv'
<1>1. PICK c : c = proc.cmd
  OBVIOUS
<1>2. PICK p : p = proc.plan
  OBVIOUS
<1>3. Planned(c, p) /\ Allowed(proc.pc, c, p)
  BY <1>1, <1>2 DEF FitInv
<1> DEFINE To(where) == /\ proc'.pc = where /\ proc'.cmd = c /\ proc'.plan = p
<1>4. ASSUME NEW where, proc' = [proc EXCEPT !.pc = where] \/
                        proc' = [proc EXCEPT !.pc = where, !.buffer = proc.kernel]
      PROVE  To(where)
  BY <1>1, <1>2, <1>4 DEF IsProc
<1>5. ASSUME NEW code, Exit(code)
      PROVE  To("exit")
  BY <1>1, <1>2, <1>5 DEF Exit, IsProc
<1>6. ASSUME NEW where, To(where), Allowed(where, c, p)
      PROVE  FitInv'
  BY <1>3, <1>6 DEF FitInv, Planned, Allowed
<1>7. ASSUME NEW where, To(where), where \in {"exit", "check", "launch", "sync", "write", "writing"},
             where # "exit" => ~p.usage,
             where = "launch" => ~p.refuse /\ ~(p.divides /\ back(c.args.A) = 0)
      PROVE  FitInv'
  BY <1>6, <1>7 DEF Allowed
<1>8. ASSUME NEW code, Exit(code)
      PROVE  FitInv'
  BY <1>5, <1>7, <1>8
<1>9. ASSUME NEW where, Goto(where)
      PROVE  To(where)
  BY <1>4, <1>9 DEF Goto
<1> HIDE DEF To
<1>10. CASE Parse
  <2>1. (\E code : Exit(code)) \/ (Goto("read") /\ ~p.usage)
    BY <1>2, <1>10 DEF Parse, run_dev, run_neg
  <2>2. CASE Goto("read") /\ ~p.usage
    BY <1>6, <1>9, <2>2 DEF Allowed
  <2> QED BY <1>8, <2>1, <2>2
<1>11. proc.pc \in {"read", "check", "upload", "launch", "sync", "compute", "write", "writing"}
          => ~p.usage
  BY <1>3 DEF Allowed
<1>12. CASE read_npy_bf16
  <2>1. proc.pc = "read" /\ (Goto("check") \/ Exit(1))
    BY <1>12 DEF read_npy_bf16, At
  <2> QED BY <1>7, <1>8, <1>9, <1>11, <2>1
<1>13. CASE Check
  <2>1. /\ proc.pc = "check"
        /\ \/ \E code : Exit(code)
           \/ /\ ~p.refuse /\ ~(p.divides /\ back(c.args.A) = 0)
              /\ Goto("compute") \/ Goto("upload")
    BY <1>1, <1>2, <1>13 DEF Check, At
  <2>2. ASSUME ~p.refuse, ~(p.divides /\ back(c.args.A) = 0), NEW where, Goto(where),
               where \in {"compute", "upload"}
        PROVE  FitInv'
    <3>1. Allowed(where, c, p)
      BY <1>11, <2>1, <2>2 DEF Allowed
    <3> QED BY <1>6, <1>9, <2>2, <3>1
  <2> QED BY <1>8, <2>1, <2>2
<1>14. CASE upload
  <2>1. proc.pc = "upload" /\ (Goto("launch") \/ Exit(1))
    BY <1>14 DEF upload, Checked, CK_, PK_HIP_CHECK, At
  <2>2. proc.pc = "upload" => ~p.refuse /\ ~(p.divides /\ back(c.args.A) = 0)
    BY <1>3 DEF Allowed
  <2> QED BY <1>7, <1>8, <1>9, <1>11, <2>1, <2>2
<1>15. CASE PK_CHECK
  <2>1. proc.pc = "launch" /\ (Exit(2) \/ To("sync"))
    BY <1>4, <1>9, <1>15 DEF PK_CHECK, At
  <2> QED BY <1>7, <1>8, <1>11, <2>1
<1>16. CASE Sync
  <2>1. proc.pc = "sync" /\ (Goto("write") \/ Exit(1))
    BY <1>16 DEF Sync, Checked, CK_, PK_HIP_CHECK, At
  <2> QED BY <1>7, <1>8, <1>9, <1>11, <2>1
<1>17. CASE Compute
  <2>1. proc.pc = "compute" /\ To("write")
    BY <1>4, <1>17 DEF Compute, At
  <2> QED BY <1>7, <1>11, <2>1
<1>18. CASE download_write
  <2>1. proc.pc = "write" /\ (Goto("writing") \/ Exit(1))
    BY <1>18 DEF download_write, At
  <2> QED BY <1>7, <1>8, <1>9, <1>11, <2>1
<1>19. CASE write_npy_bf16
  <2>1. Exit(0) \/ Exit(1)
    BY <1>19 DEF write_npy_bf16
  <2> QED BY <1>8, <2>1
<1> QED BY <1>10, <1>12, <1>13, <1>14, <1>15, <1>16, <1>17, <1>18, <1>19 DEF DriverStep

\* Every kernel a driver launches indexes what was uploaded for it and writes
\* what is copied back, for any calls and sweeps, whatever the dimensions of
\* their files, up to the ranks: the comparisons of each driver are enough.
THEOREM DriversFit == Spec => []OperandsFit
<1>1. Init => FitInv
  BY DEF Init, FitInv
<1>2. GateInv /\ TunedInv /\ FitInv /\ [Next]_vars => FitInv'
  <2> SUFFICES ASSUME GateInv, RaceTuned, FitInv, [Next]_vars PROVE FitInv'
    BY DEF TunedInv
  <2>1. CASE proc' = None
    BY <2>1 DEF FitInv
  <2>2. CASE UNCHANGED proc
    BY <2>2 DEF FitInv, Planned, Allowed
  <2>3. CASE Drive
    <3>1. proc # None
      BY <2>3 DEF Drive, DriverStep, None, At, Parse, read_npy_bf16, Check, upload, PK_CHECK,
                  Sync, Compute, download_write, write_npy_bf16
    <3> QED BY <2>3, <3>1, DriverFitInv DEF Drive, GateInv, WellFormed
  <2>4. CASE Hang
    <3>1. proc # None /\ proc.pc = "sync" /\ proc' = [proc EXCEPT !.pc = "hung"]
      BY <2>4 DEF Hang, At, Goto, None
    <3>2. proc'.pc = "hung" /\ proc'.cmd = proc.cmd /\ proc'.plan = proc.plan
      BY <3>1 DEF GateInv, WellFormed, IsProc
    <3>3. Planned(proc.cmd, proc.plan) /\ ~proc.plan.usage
      BY <3>1 DEF FitInv, Allowed
    <3> QED BY <3>2, <3>3 DEF FitInv, Planned, Allowed
  <2>5. CASE run_run
    <3>1. PICK cmd : cmd = [prog |-> "bench", op |-> args.op, args |-> make_inputs(args)]
      OBVIOUS
    <3>2. PICK plan : plan = setup_op(args.op, make_inputs(args))
      OBVIOUS
    <3>3. proc'.pc = "parse" /\ proc'.cmd = cmd /\ proc'.plan = plan
      BY <2>5, <3>1, <3>2 DEF run_run, Start
    <3>4. args \in Sweeps
      BY <2>5 DEF run_run, AtSweep, RaceTuned
    <3>5. Planned(cmd, plan)
      BY <3>1, <3>2, <3>4 DEF Planned
    <3> QED BY <3>3, <3>5 DEF FitInv, Planned, Allowed
  <2>6. CASE \E c \in Calls : Invoke(c)
    <3>1. PICK c \in Calls : Invoke(c)
      BY <2>6
    <3>2. proc'.pc = "parse" /\ proc'.cmd = c /\ proc'.plan = Plan(c)
      BY <3>1 DEF Invoke, Start
    <3> QED BY <3>2 DEF FitInv, Planned, Allowed
  <2>7. \/ proc' = None \/ UNCHANGED proc \/ Drive \/ Hang \/ run_run
        \/ \E c \in Calls : Invoke(c)
    BY DEF Next, SweepStep, vars, build_driver, probe_device, enumerate_configs, LongRace,
       RunEnded, Compare, run_time, SelectBest, run_write_cache_open, run_write_cache, Timeout,
       Reap, Interrupt, Damage, LoadTuningCache, StartSweep, Edit, Run, bench
  <2> QED BY <2>1, <2>2, <2>3, <2>4, <2>5, <2>6, <2>7
<1> QED BY <1>1, <1>2, SpecGateInv, SpecTunedInv, FitInvFits, PTL DEF Spec
=============================================================================
