# PolyKernel in TLA+

PolyKernel is an MLIR-based kernel compiler with generated GPU kernels, an
autotuner, a runtime that serves tuned kernels, and a cycle-level simulator of
a wafer-scale dataflow machine on which matrix products run as SUMMA
broadcasts. This directory holds TLA+ models of the simulator (fabric,
scheduler, SUMMA driver), of the kernels thread by thread, of the compiler's
passes, of the tuning pipeline and the programs that run kernels, and of the
persistent kernel cache. TLC checks the models on small instances and TLAPS
proves some of their properties for every instance.

    tlc -workers 2 -config MCFabric.cfg MCFabric      # one run
    tlapm GridLoopProofs.tla                          # one module of proofs

`PROJECT.json` lists the runs, the source lines behind every definition, a
mutation of the model for every checked property, the findings and the hazards.

## 1. Inventory

| component | state | operations | what is hard |
|---|---|---|---|
| Fabric: `Router`, `Grid` | per PE: input VC per color, output VC per direction and color, route per color; count of drops | `SetRoute`, `Inject`/`Tx`/`Fabin`, `PopInput`/`Fabout`, `Grid::Step` | merges, multicast and backpressure within one cycle; channels exactly full; independence of colors |
| Task scheduler: `Scheduler`, `TaskPicker`, `Task` | list of tasks, each with activated and blocked flags and bound colors | `AddTask`, `Activate`, `Block`, `Unblock`, `Step`, `RunToQuiescence` | operands and control calls in any order; tasks that share a color; loops that must end |
| SUMMA: `LowerToDataflow`, `Summa` | the plan; per PE the two panel buffers, counters, tokens, outbox, tile; the driver's cursor and step | `BuildPlan`, `ConfigureSummaRoutes`, `RunSumma` | when a panel is complete, when a step is over, reuse of buffers and colors |
| PE: CE and SRAM | two SRAM banks' bytes, ports used this cycle | fp16 conversion, FMAC, `Read`, `Write` | rounding, port limits |
| Metrics | none | closed forms for wavelets, hops, cycles, SRAM pressure | agreement with the simulation |
| Kernel cache: `KernelCache`, `AmdTuningDb` | tuning entries by (gpu, op, shape); binary records by formatted key; two files on disk | `Put`, `LoadTuningCache`, `Select`, `PutBinary`, `InvalidateStale`, `Persist`, `LoadPersisted` | crashes and failures within `Persist`, loads that overlap it, libraries changed on disk |
| Kernels: `kernels/generated`, `kernels/template` | per thread registers, per block shared memory, the output tensor | one `launch_*` per kernel | barriers and shuffles every thread must reach, reuse of shared tiles, ragged edges, lane layouts |
| CPU references and driver programs: `kernels/cpu`, `cuda_run`, `hip_run`, the drivers inside the tensor-core kernels | a process: inputs, device buffers, output file | parse, read, check, upload, launch, synchronize, download, write | operands that do not fit, launches that are refused without ending the process, torn outputs |
| Dialect and passes, `polykernel-opt` | the IR; emitted kernel files; the report | shape inference, canonicalization, five fusions, tile layout, memory plan, two lowerings, report | rewrites that must preserve meaning, in any order; attributes set by one pass and used by another; failing writes |
| Autotuner: `ConfigSpace`, `Benchmark`, `bench.py` | driver binary per backend, work files, cache file | build, probe, enumerate and prune, run, gate, time, select, write | gate before timing, stale and torn drivers, hung kernels, overwritten cache file |
| Tuning-cache JSON | none | `ParseTuningCache`, `SerializeTuningCache` | malformed and partial documents |
| Runtime: `Runtime`, `DeviceDetect`, `HipRuntime` | tuning entries, detected device | `Detect`, `Resolve`, `Run` | selection for the wrong device or from a damaged file |
| Modal service: `app.py` and its deploy scripts | engine per container | start, warm-up, request handlers | cold start, failed warm-up |
| Analysis, quantization, reports, benchmarks, scripts | none to speak of | numerics, text, I/O | outside a model checker's reach |

How they interact: `RunSumma` builds a plan, creates a `Grid` and one
`Scheduler` per PE that observes the PE's router, and then calls
`Grid::Inject`, `Grid::Step` and `RunToQuiescence` in a loop; task handlers
write the per-PE state and fill the outboxes the next cycle flushes. The
simulator is single-threaded. `polykernel-opt` runs the passes a command line
names over one module; the lowerings print kernels, which the driver programs
and the bench driver are linked with. `bench.py` builds the bench driver and
runs it as a subprocess once per variant and mode; what a variant computed
reaches the gate through `out.npy`, the time through the driver's output, and
the winner through the cache file. The kernel cache is filled by the tuner and read
by servers; processes meet only in the cache directory. `Runtime::Resolve` asks
the cache with the detected device's name; the Modal service has its own Python
counterpart of cache and runtime.

What makes each part correct: the fabric loses, duplicates and reorders nothing
and a full color stalls only itself; the scheduler pairs operands by arrival,
uses each wavelet once, forgets no ready task and comes to rest; SUMMA
accumulates exactly the right panels and ends; a kernel has no data race,
computes what the CPU reference computes and stores each element once, whatever
the schedule; the compiler keeps the meaning of a function and its report agrees
with what it emitted; the tuner times only kernels whose results are right and
records the fastest; the cache serves only validated
entries and survives crashes without loading half of anything.

## 2. Modules

| module | models | composes |
|---|---|---|
| `Fabric` | `Router.cpp` and `Grid.cpp`, a cycle as one action | |
| `GridLoop` | `Grid::Step` and `ApplyForwarding` as the loops they are, one wavelet per action | extends `Fabric` and `Selection`, implements `Fabric` |
| `GridLoopProofs` | theorems about `GridLoop` | uses `DataLemmas` |
| `SummaRoutes` | `ConfigureSummaRoutes` | extends `Fabric` |
| `Scheduler` | `Scheduler.cpp`, `Task.cpp`, `TaskPicker` | |
| `SchedulerProofs` | theorems about `Scheduler` | |
| `Summa` | `BuildPlan` and `RunSumma` | instantiates `Fabric` for the mesh |
| `SummaProofs` | theorems about `Summa` | uses `DataLemmas` |
| `KernelCache` | `KernelCache.cpp`, `AmdTuningDb.cpp` | |
| `KernelCacheProofs` | theorems about `KernelCache` | |
| `ThreadBlock` | a launch: blocks, threads, warps, barriers, shuffles | |
| `ThreadBlockProofs` | theorems about `ThreadBlock` | |
| `KernelOps` | symbolic numbers and the kernels' instructions | |
| `Kernels` | the kernels of `kernels/generated`, their CPU references, what the lowerings print | programs for `ThreadBlock`; extends `KernelOps` |
| `Attention` | `attention_prefill.cu` | programs for `ThreadBlock`; extends `KernelOps` |
| `Dialect` | `PolyKernelOps.cpp`: functions, verifiers, shape rules | |
| `Passes` | the twelve passes and `polykernel-opt` | extends `Dialect` and `Selection` |
| `PassesProofs` | theorems about `Passes` | uses `DataLemmas` |
| `Driver` | the programs that run one kernel on files | |
| `ConfigSpace` | `ConfigSpace.cpp` | extends `Selection` |
| `TuningCache` | `TuningCache.cpp` | |
| `Autotune` | `bench.py`, `Benchmark.cpp`, `Runtime.cpp`, `DeviceDetect.cpp` | extends `ConfigSpace`, `TuningCache` and `Driver` |
| `AutotuneProofs` | theorems about `Autotune` and `ConfigSpace` | uses `DataLemmas` |
| `Selection` | what is left of a sequence when elements are dropped | |
| `DataLemmas` | lemmas about sequences, selections, folds and sums over finite sets | |
| `MC*` | instances for TLC | |

### Fabric

`inVc`, `outVc`, `config` and `dropped` are `in_vc_`, `out_vc_`, `config_` with
`has_config_`, and `dropped_offgrid_`. A wavelet is the number of the injection
that made it, so copies made by a multicast share a number. `sent`, `got`,
`fell` and `born` are history: what was injected, what each CE read, which
wavelets fell off the mesh, how many copies were ever made. An injection on a
full channel, an invalid color, an empty direction set or a PE off the mesh is
refused by the code without effect, hence no action. The abstract action `Step`
states a whole cycle in closed form: forwarding moves the longest prefix all
the transmit channels take, and then each input VC takes, in the order of the
nested loops (`Rank`), as much as fits of what its neighbours hold.

### GridLoop

The variable `phase` is where `Grid::Step` is and `todo` the rest of the loop:
the (PE, color) pairs still to forward, then the snapshot `moves` with the
count left in each. `Forward`, `Deliver` and `DropOffGrid` move one wavelet;
`ForwardDone` and `NextMove` are the `break`s and loop ends. Since the program
has one thread, clients act only between cycles. `StepImplementsCycle` is the
refinement: with the fabric's variables mapped to their value at the start of
the cycle while the loops run, every behaviour is one of `Fabric`. TLC checks it
on a small mesh and `LoopsImplementCycle` proves it for all.

### SummaRoutes

The mesh with the routes `ConfigureSummaRoutes` installs. `RunSumma` itself does
not install them.

### Scheduler

One router's input VCs and the list of tasks. A task's handler is code of the
client; the only thing it can do to the scheduler that matters here is to block
its own task, so a task specification says whether it does (`once`). The
operands of every fire are kept as history (the code keeps the last). A task
may bind a color more than once; it then takes as many wavelets from it, in the
order of its bindings.
`RunToQuiescence` is a loop of `DrainStep` and `EndDrain`; the client's
operations and `Step` are called between drains. The n-th wavelet on a color is
the number n.

### Summa

The driver loop of `RunSumma`, with a program counter for its six parts: flush
the outboxes PE by PE, inject seeds until one is refused, step the grid, drain,
hand out tokens, compute, check. The mesh cycle is `Fabric`'s, instantiated
with no routes since the retransmission is done by tasks. The two calls of
`RunToQuiescence` run to their end one PE at a time; a PE's drain tasks consume
all their wavelets in the order of task priority, which is what repeated picks
do because nothing arrives in between. A panel element is its coordinates in A
or B, and a tile entry is the sequence of products added to it, so the model
distinguishes order and multiplicity but no rounding. `breakRendezvous`, the
hook the tests use to show that the rendezvous matters, is modelled too.

### KernelCache

Several processes, one of which may write (`Writers`); each has `db` and `bins`
in memory. A file is missing, torn (opened and truncated, or partly written) or
whole; no proper prefix of these JSON documents parses. `Persist` is four steps
that may fail after any of them, `LoadPersisted` two (it reads one file after
the other), and a process may crash anywhere. `so` is the content of the
libraries on disk, changed by `Build` at any time. `gated` (what was ever
entered as validated) and `saved` (what the last successful `Persist` wrote)
are history. Keys are formatted as sequences, joined by `FormatKey`; the
assumption `FormatKeyInjective` excludes names with a `/` in them.

### ThreadBlock, KernelOps, Kernels

The control flow of every kernel depends on thread index and shape only, so a
kernel is a sequence of instructions per thread, which the operator named after
it (`matmul_kernel`, ...) builds from the shape as the code's loops and
conditions do. `ThreadBlock` runs a launch: any block first, threads in any
order, `Shfl` for a whole warp, `Sync` for a whole block. An instruction names
the shared cells it reads and writes and the outputs it stores, and `NoRace` is
stated over those: two threads are never about to execute conflicting
instructions. Since shared memory is then only touched in an order the barriers
fix, the grain of the instructions does not matter.

A number is a bag of terms, read as their sum; products, `gelu`, `rms`, rounding
to bf16 and the like are uninterpreted. The model thus tells which elements
enter which result, how often, and where it is rounded, and ignores the order of
a sum, which the code's tolerances ignore too. `ComputesReference` compares with
the `launch_*_cpu` functions in the same terms. A tensor-core instruction is one
step of its warp, with the lane layout the epilogue assumes.

The lowerings print kernels. With the comments taken out, the text each of the
fourteen `emit*Cuda` and `emit*Hip` functions prints is token for token the file
`kernels/generated/<op>.cu`, which is why `emitMatMulCuda(s) == launch_matmul(s)`
and so on; each backend's copy is launched on a shape of its own.

### Attention

The online softmax of the prefill kernel, with the running maximum, sum and
weighted sum of each thread as registers. `NoRace` does not hold of it, hence
its own run.

### Dialect and Passes

A function is a list of ops with operands, types and attributes. A command line
is a sequence of passes; walking passes visit an op per step, pattern passes
apply any applicable rewrite or erase any dead op until nothing applies (the
order is the greedy driver's, so the model allows all; MLIR's cap on its
iterations, beyond which a pass fails, is left out), and the verifier runs
after each. Every write of a file may fail to open, or be cut short. `Meaning`
gives the returned values as terms over the arguments, with fused ops unfolded
to what they stand for, sums with zero reduced, and `gelu`, `silu` and `softmax`
of constants evaluated, which is what the folds of `Canonicalize` do.

`MeaningKept` excepts two things the code does not keep. A fused masked softmax
has no axis (`FuseSoftmaxMask.cpp:103`), so where that fusion runs no softmax of
the source may have one (`AxesKept`); and an add of two zeros is replaced by one
of them, whatever type the other has, so in a source that holds a zero the ops
that add or map zeros must declare their operand's type (`ZerosTyped`), as the
custom assembly form makes them. A type that is declared wrong is otherwise
allowed, and corrected or refused by inference.

### Driver

The programs that run one kernel have one shape; what differs is a plan (see
the module's header), one operator per program and op. A checked device call
succeeds or ends the process. A refused launch does not: `PK_CHECK` prints and
clears the error. Dividing by an empty row ends the process with a signal. The
shapes in a command line are those in the files, of any rank. The CPU references
compare ranks; the other programs read the dimensions their kernel has, and
`OperandsFit` asks for those ranks (`Ranked`). `attention`'s `dim` is -1 for a
dimension that is missing, which both operands may lack. The probes `dev` and
`neg` belong to the device drivers that have them (`Probes`); to any other program
they are ops it does not know, refused as such.

### ConfigSpace, TuningCache, Autotune

`ConfigSpace` has the real grid and the real limits. On this grid the rules
STRUCT, R2, R4 and R5 reject nothing that R1, R3, R6 and R7 do not. A JSON
document is a tree of tagged values and a decoder yields the set of what it
decodes, empty for an error. A sweep of `bench.py` is a sequence of actions with
the bench driver's `run` as a process of `Driver`; `enumerate`, `time` and
`write-cache` do nothing concurrent that matters and are one action each (two
for `write-cache`, which truncates before it writes). What a kernel computes is
a kind, and `Metrics` says which of cosine, relative error and correlation each
kind passes. Around the sweep: the kernels are edited, a kernel hangs, the user
interrupts, the cache file loses fields, a server loads it and serves requests,
and a harness calls the other driver programs.

## 3. Runs

| run | instance | states | checks |
|---|---|---|---|
| `fabric` | 3x2, 1 color, depth 2, 4 injections | 270,244 | `Conserved`, `InOrder` |
| `fabric_live` | 3x1, 2 colors, depth 1, 4 injections | 6,292 | `Delivered` |
| `grid_loop` | 3x2, 1 color, depth 2, 3 injections | 224,956 | `TypeOK`, `VcBounded`, `NothingVanishes`, `StepImplementsCycle`, `StepReturns` |
| `summa_routes` | 3x3, depth 4, 2 injections | violation | `TapsOnce` |
| `scheduler` | 2 colors, depth 2, 4 task specs, 3 arrivals per color | 143,186 | `TypeOK`, `OperandsPaired`, `ConsumedOnce`, `NoLostWakeup`, `DrainReturns` |
| `summa` | 3x3, depth 4, n in {3, 6}, k in 1..6, tileK in 0..4 | 11,725 | `BothPanelsThere`, `TilesAreProducts`, `NoDrops`, `StepsDoNotOverlap`, `Terminates` |
| `kernel_cache` | one tuner, one server, 2 gpus, 1 op, 4 edits | 700,633 | `TypeOK`, `SelectionWasGated`, `PersistedLoads`, `LoadsAllOrNothing`, `InvalidatesExactly` |
| `kernel_cache_backed` | the same | violation | `BinariesBacked` |
| `kernels` | 18 launches; tiles of 2 and 4, warps of 4, blocks of 8 threads, at most 2 blocks per map | 64,423 | `TypeOK`, `TextSound`, `NoRace`, `StoredOnce`, `ComputesReference`, `Finishes` |
| `attention` | one query row, two keys in tiles of one, three head dimensions on two warps of two | violation | `SoftmaxStateAgrees` |
| `passes` | 17 functions under 5 command lines | 2,455 | `MeaningKept`, `TrafficAccounted`, `ReportedKernelsHaveSources`, `ReportConsistent`, `PipelineEnds` |
| `autotune` | 2 sweeps out of 7 command lines, races of up to 3, 141 driver calls | 413,931 | `GateSound`, `RecordsBest`, `ServedWasTuned`, `OperandsFit`, `RacedConfigsFit`, `SweepEnds` |

Why the bounds are enough to be interesting. The 3x2 mesh has a PE where three
streams merge (from the west, from the north and from its own RAMP), a
multicast and two edges; with depth 2 three or four wavelets fill a channel and
stall its senders for several cycles. In `fabric_live` each channel holds one
wavelet, so the unread color fills its whole path. The scheduler sees operands
pile up to a full VC while a task is blocked, the sharing task registered
before, after or not at all, a task bound twice to one color, and a local task
with the id of the sharing task, before or after it. SUMMA's panels have 1
to 12 elements against channels of 4, one to six steps (so both ping-pong colors
are reused) and slab widths that do and do not divide k; its driver is
deterministic, so the states are those of 56 complete executions (the shapes
give 28 distinct plans, each run with and without the hook). Four
edits are enough for the tuner to record a binary, replace the database,
rebuild the library and put a new entry, with any number of persists, loads and
crashes between them; `InvalidationIsExact` (section 4) has no such bound.

The kernels' tile, warp and block sizes are the code's scaled down with their
ratios kept where they matter (`GeometryAssumption`: a row of the two-dimensional
block lies in one warp, warps are full, and one warp holds the partials of all).
Shapes have tails of odd length, rows and columns that are no multiples of the
tile, fewer elements than threads and more than one pass of the grid-stride
loops. Barriers and shuffles keep the number of interleavings small enough to
explore all of them. The functions of `passes` have intermediates with a second
use, chains two fusions compete for, constants, updates of the KV cache above
and below their attention, explicit axes, a zero of another type than its use,
types that inference corrects, and six errors. In
`autotune` the two sweeps give a stale driver its chance (edit between them, no
`--rebuild`), three distinct times of which two print alike give ties, and the
command lines include `--iters 0`, no variants, all variants (a race longer than
`MaxRaced` is not followed), the injected broken kernel and both regimes of the
gate. Calls of the harness come before the first sweep and damage to the file
after the last, which keeps the parts from multiplying.

`CHECK_DEADLOCK` is off for `autotune` only, where everything may be idle after
the last sweep. `Passes` and `ThreadBlock` stutter explicitly at their end, and
`Summa` has an explicit `Done` step for the state after `RunSumma` has
returned.

### Findings

* `summa_routes`: `Summa.h:109` describes the RAMP in the data colors' routes as
  a local tap. A RAMP hop puts the wavelet back into the input VC that
  forwarding drains, so it is multicast again in the next cycle and a CE gets
  several copies. `RunSumma` avoids these routes; a comment in it says they
  would race the tasks.
* `attention`: every thread computes the maximum of the tile's scores and then
  replaces the scores by weights, in place and without a barrier between. A
  thread of another warp that is still behind sees weights for scores. The
  comment at `attention_prefill.cu:124` says that the maximum and the sum are
  identical in every lane; the run ends with two threads at the end of a tile
  whose `m` or `l` differ.
* `kernel_cache_backed`: `KernelCache.h:112` says that a binary must back a
  present tuning entry. `LoadTuningCache` replaces the entries and keeps the
  binaries. `PersistedLoads` shows that this does no harm to persistence, since
  orphans are not written; but `InvalidateStale` counts them.

Seen while modelling and kept in the models as the code has them:
`TaskPicker.h:38` promises the lowest id, and `Pick` takes the task registered
first; `HipRuntime.cpp:9` expects a refused launch to surface at `HipSync`, but
`PK_CHECK` has read and cleared the error by then; `cuda_run` and `hip_run` do
not compare the length of `--weight`, nor the ranks of A and B before they read
A's last dimension and B's second; the `attention` program takes inputs of rank 2
or 3; a fused masked softmax loses its axis; `smem_over_budget` is never removed; two sweeps at once would
share `out.npy`; `Benchmark.h:82-91` speaks of a ceiling of 5e-2 on the relative
error for large K, which only its unit test uses: `bench.py:93-99` passes
infinity there and says so, and `GateSound` goes by what `bench.py` passes.

### Fairness

* `Fabric!FairSpec`: routes get configured, the driver keeps calling
  `Grid::Step`, and the designated readers keep reading, which is what
  `RunSumma` does once per cycle. Nothing is assumed of the other readers or
  of injections.
* `GridLoop`: weak fairness of the loop's next step; a single thread runs it and
  nothing in it blocks.
* `Scheduler`: weak fairness of the drain loop, and of calling it: `RunSumma`
  calls it twice per cycle.
* `Summa`: weak fairness of the driver's next step, one thread without blocking
  calls.
* `ThreadBlock`: weak fairness of the block as a whole: the device keeps running
  a block in which something can run. Nothing is assumed of a single thread.
* `Passes`: weak fairness of the compiler's next step, one thread.
* `Autotune`: weak fairness of the sweep's next step (the timeout of
  `subprocess.run` included) and of a driver process; a kernel that hangs is
  exempt, and nothing is assumed of users, servers or edits.

## 4. Proofs

A theorem holds for every value of the constants that satisfies the named
assumptions, the runs check the same formulas on small instances. Every
inductive invariant is a conjunction of named parts; each action has a lemma of
its own with a step per part it can disturb.

`GridLoopProofs`, for every mesh, finite set of color ids, depth, set of
injections and set of routes (`FabricAssumption`, `ColorsAreIds`):

* `TypeCorrect`: `LoopSpec => []TypeOK`;
* `VcsAreBounded`: `LoopSpec => []VcBounded`, also in the middle of a cycle;
* `FabricIsLossless`: `LoopSpec => []NothingVanishes`;
* `CopiesAreConserved`: `LoopSpec => []Conserved`;
* `LoopsImplementCycle`: `LoopSpec => StepImplementsCycle`;
* `StreamsStayInOrder`: `LoopSpec => []InOrder`, if `PathsDoNotRejoin`.

The first three are inductive together. Typing is needed for the sequence
facts; the bound is preserved because each push is guarded by a check of the
same channel; losslessness is preserved because each action that removes a
wavelet from a channel puts it in another one, in `got` or in `fell`. What a
pop and an append do to one channel, and what a pop does to all of them, are
lemmas (`PopVc`, `AppendVc`, `PopOutputVc`). `Conserved` adds the lengths of all
channels: `Balanced` writes it as one sum per kind of channel, and
`StepBalances` shows that an action changes exactly the terms it names. For
these four the loop's own variables need no invariant beyond the guard
`InBounds`, which is `Grid::At`'s assertion.

For the refinement they do. `Fabric!Step` says at once what a cycle amounts to:
which prefix of each VC is forwarded, and who gets the room in an input VC that
several links lead to. The loops find it one wavelet at a time, stopping at the
first refusal and visiting each VC once. `CycleInv` tells at every moment how the
VCs came from those the cycle began with (`start`):

* in the first phase, the first n wavelets of each input VC, for some n per VC,
  are gone from it and appended to the output VCs it transmits to
  (`Forwarded`); an input VC that is not left to visit is `Stalled`: no route,
  empty, or a full output VC;
* when the second phase begins, all are stalled (`AllForwarded`), and the
  snapshot lists the output VCs that hold anything, with their sizes, by
  increasing `Position`, the order of the loops;
* in the second phase, the first g wavelets of each output VC, for some g per
  VC, are gone from it (`Left`) and stand in the neighbour's input VC in the
  order of the links (`Arrived`); a link has sent only if the links of lower
  `Rank` had sent all (`InTurn`); an output VC that is not left to visit is
  `Through`: empty, or before a full input VC.

The prefixes alone would not do: that nothing movable is left behind, and that
the order of visits by `Position` is on each receiver the order of its links by
`Rank` (`LinksInOrder`), is what determines n and g. At the end of the cycle
`ForwardedCount` derives from `Stalled` that n is `Fabric`'s `FwdCount`, and
`SentInTurn` from `InTurn` and `Through` that g is its `Sent`; `EndStepIsStep`
puts them together with the counts of copies and drops.

`InOrder` looks at the input VC of one PE, but a wavelet can only be late there
if it was overtaken somewhere on the way. `PathsDoNotRejoin` says that the VCs
the wavelets of an injection can get to, by links and by any of the routes
clients configure, form a tree (`IsTree`). `InLine` then follows a stream down
its tree: each VC holds its wavelets of the stream in order, those the CE has
read from it before those still in it, and everything farther down the tree was
sent before everything above (`Descends`). Every action is a move from one VC to
VCs it feeds, a read, or an injection at the root (`Moves`, `TakesOne`,
`SendsOne`), and for these three the lemmas about `InLine` speak of no state at
all. The hypothesis is one on the clients' routes, not on the code, and it is
needed: on the routes of `summa_routes`, where the RAMP hands a wavelet back,
TLC finds `InOrder` violated. `MCFabric` assumes, and TLC evaluates, that the
instance of the run `fabric` has such trees (`MCFabricAssumption`).

`SchedulerProofs`, for every depth, set of colors, set of task specifications
and number of arrivals (`SchedulerAssumption`):

* `SchedulerTypeCorrect`: `Spec => []TypeOK`;
* `RendezvousPairsOperands`: `Spec => []OperandsPaired`;
* `WaveletsConsumedOnce`: `Spec => []ConsumedOnce`.

The properties speak of operands and channels, the argument of how many
wavelets of a color are gone. The inductive invariant `IInv` says that a channel
holds the wavelets that arrived last (`Numbered`), that a color no task binds has
lost none (`OnlyBoundConsumed`), that a task which owns its colors has taken from
each of them as many as it has fired (`InStep`), which makes its operands equal
numbers (`Paired`), and that exactly the numbers gone are operands, each of one
binding of one fire (`OperandsAreGone`).

`SummaProofs`, for every mesh size, depth and set of shapes, with and without
the hook (`SummaAssumption`, whose demands on a shape are the assertions of
`LowerToDataflow.cpp:39-42`):

* `NothingIsDropped`: `Spec => []NoDrops`;
* `RendezvousIsComplete`: `Spec => []BothPanelsThere`, if `PanelsFit`;
* `StepsAreSeparate`: `Spec => StepsDoNotOverlap`, if `PanelsFit`;
* `ResultIsTheProduct`: `Spec => []TilesAreProducts`, if `PanelsFit`.

Nothing in the fabric keeps a wavelet on the mesh; the drain tasks do, by not
retransmitting at the far edge. `EdgeInv` says that what waits in an outbox is
bound for a PE of the mesh, so that the output channels which lead off it stay
empty, so that a cycle counts a sum of zeros.

The other three are about a whole step of the mesh. A panel of A travels as a
stream east through its row, a panel of B south through its column; `PanelInv`
says, per stream and PE:

* the buffer of a PE holds the elements it has counted and zeros beyond them
  (`BuffersInv`); a token waits exactly as long as its flag is up (`TokensInv`);
* the input channel of a PE, and before it the output channel that leads there,
  hold the elements that follow those it has taken, in order (`RunsInv`);
* what was sent towards a PE was taken by the PE before it or, where the stream
  enters, is one of the seeds the driver's cursor has passed (`GivenInv`);
* what a PE has taken and not yet sent on is in its outbox, once and, per stream,
  in order (`BoxesInv`): two streams share an outbox, so the entries of one are
  told from those of the other by their direction;
* channels of the other parity's colors are empty (`SilenceInv`), which makes it
  safe to use a color again two steps later.

One lemma per action shows that it is kept (`StepPanels` for the mesh cycle,
`DrainPanels`, `ComputePanels` and so on). Its most delicate consequence is
`NothingLeft`: the driver ends a step when every PE has computed, the mesh is
quiescent and an outbox flag taken *before* this cycle's drains is down. But a PE
that has computed has taken the whole panel, so as much was sent towards it, and
between the whole panel sent on and the whole panel taken there is no element
left that the outbox before it could hold.
`TileInv` then adds up the slabs: with `Quotient`, which takes a panel index
apart into row and column, a compute appends the products of the step's slab
(`SlabFollows`).

`PanelsFit` says that no panel has more elements than the control half of a
wavelet can tell apart. `RunSumma` casts the index to `uint16_t` (`Summa.cpp:294`,
`Summa.cpp:304`) and nothing in the code checks it, so it is a hypothesis and not
an assumption of the module. It is needed: with `IndexSpan = 2`, the run `summa`
finds `BothPanelsThere` violated.

`KernelCacheProofs`, for every set of gpus, ops, readers, entries and libraries
(`KernelCacheAssumption`, `OneWriter`):

* `CacheTypeCorrect`: `Spec => []TypeOK`;
* `SelectionIsGated`: `Spec => []SelectionWasGated`;
* `PersistIsDurable`: `Spec => []PersistedLoads`;
* `LoadIsAllOrNothing`: `Spec => LoadsAllOrNothing`;
* `InvalidationIsExact`: `Spec => InvalidatesExactly`.

`SelectionWasGated` speaks of caches only, but an entry also travels through a
file and through the text a loader has read. `Honest` extends it to all three.
`PersistedLoads` follows from `SavedOnDisk` (the files are what was saved), for
whose preservation by the last step of `Persist` one must know what the tuning
file holds while the binaries are being written: `TuningWritten`. That is where
the single writer is used. The two action properties are about a process's step;
what remains to show is that no other action has their effect.

`ThreadBlockProofs`, for every set of kernels and every grid, block and warp
size, whatever the instructions compute (`LaunchAssumption`):

* `TypeCorrect`: `Spec => []TypeOK`;
* `KeepsStep`: `Spec => []SameEpoch`;
* `BarriersPreventRaces`: `Spec => [](TextRaceFree => NoRace)`;
* `WritesAreExecuted`: `Spec => []WrittenByExecuted`;
* `StoresOnce`: `Spec => [](TextStoresOnce => StoredOnce)`.

`SameEpoch` says that the threads of a block are always between the same two
barriers, counted along each thread's program. It is inductive together with
typing: only `Sync` passes a barrier, and it takes every thread along (lemmas
`EpochSync`, `EpochOther`). `TextRaceFree` looks at the kernel's text alone: no
two threads have conflicting accesses with the same number of barriers before
them. Threads in step can then only be about to execute accesses that do not
conflict. `TextStoresOnce` too looks at the text alone: no element has two
instructions that store it. An element that is not as the launch found it was
stored by an instruction that has been executed (`WrittenByExecuted`), and a
thread about to store it has not executed that one. So races and double stores
are excluded by checks that explore no schedules, and hold for any shape for
which the text passes: `TextSound`, which the run `kernels` evaluates on its
launches beside `NoRace` and `StoredOnce` themselves.

`PassesProofs`, for every function and command line, with files failing at any
point (`PassesAssumption`: names and attributes are what the dialect has):

* `ReportsHaveSources`: `Spec => []ReportedKernelsHaveSources`.

A report and the sources are written by different passes, so the invariant
`SourcesInv` follows both through the rest of the command line: a lowering that
is running has written what lies behind it (`Lowering`), one that has ended, and
after which no pass rewrites, has written a file for every kind of op there is
(`Lowered`), and what a report has collected or written is of such a kind
(`Collected`, `Reported`). That a rewrite yields a function, and an annotation
keeps the kinds of its ops, are lemmas per rewrite.

Also in `PassesProofs`, for functions that are `WellFormed` (what the parser
builds: ops with the operands and results of their kind, one definition per
value; a conjunct of `PassesAssumption`):

* `MeaningIsKept`: `Spec => []MeaningKept`.

`Meaning` is a recursive function over the ops. The proof does not unfold it; it
speaks of *models*: M is a model of f (`Models`) if it gives every op the results
that op has by its operands in M. Where every operand is defined above its use
there is one (`ModelExists`), and only one, since there is no first op on which
two of them differ (`ModelsAgree`). What a rewrite must do can then be said of
one step, and of models alone: from every model of the function before, there is
one of the function after in which the returned values are the same (`Keeps`).
For each rewrite, the erasing of dead ops, the walks that annotate and the
inference of types there is a lemma that says so (`RmsnormMatmulKept`,
`KvAppendKept`, `AddZeroKept`, `SoftmaxSplatKept`, `ErasedKept`, `RetypedKept`
and so on); most rest on two: an op that is replaced by one of the same results
(`ReplacedKept`), and a value that is renamed (`RenamedResults`).

The inductive invariant `MeaningInv` says, for the sources `MeaningKept` is about,
that the function is well formed and closed and has a model which returns what
the source means (`Faithful`), and it needs three things more. Between passes
operands stand above their uses, by the verifier, which makes `Meaning` the
function's only model. While a pass runs they need not: the fused KV append may
stand below a use, which only the next verification finds. So only closedness is
kept, and for canonicalization, whose renaming could otherwise leave a value
computed from itself, that ops can be numbered so that operands come before their
uses (`Ordered`). And no add has two different zeros for operands (`ZerosAgree`),
which is where `ZerosTyped` is used: the add gives way to its other operand
although that may be a zero as well.

* `TrafficIsAccounted`: `Spec => []TrafficAccounted`.

A tensor is an op's id, a result's number and a type; a record of one that a
fusion eliminated has the id of the fused op, negated. `Records` is the set of
both, and what has to stay is how many of them there are of each type. A fusion
takes a tensor out and puts a record of the same type in (`CountedSwap`,
`OneFused`, `TwoFused`). For that to be the whole story two things must never
happen, and the invariant `TrafficInv` excludes both (`Balanced`): a fused op
absorbed by another fusion would take its records along, so ops of the kinds that
fusions absorb have none (`Unrecorded`); and an op that dies of a fusion would
be dropped by the driver with no record, so every op is read by another or
returned (`AllRead`), which a fusion keeps because the fused op reads all that the
ops it replaces did (`Rereads`). `AllRead` is what the property's `DeadOps(typed) = {}`
gives at the start, and `Unfused(source)` gives `Unrecorded`. The walks change
neither (`AnnotatesCarried`), and `--infer-shapes` only comes before the count
(`RetypedUnfused`). The same lemmas about what each fusion reads and drops serve
`MeaningIsKept` (`RmsnormMatmulReads`, `AbsorbedReads`, `MatmulBiasGeluReads`).

`AutotuneProofs`, for any set of sweeps, harness calls, kernels, times and
devices (`SweepAssumption`, by which the sizes of a sweep are natural numbers,
for numpy makes no input of a negative size;
`CallAssumption`, by which the dimensions in a file are, since `read_npy_bf16`
reads digits only):

* `TimesOnlyBehindGate`: `Spec => []GateSound`;
* `BestIsRecorded`: `Spec => []RecordsBest`;
* `RaceFits`: `Spec => []RacedConfigsFit`;
* `OnlyTunedIsServed`: `Spec => []ServedWasTuned`;
* `DriversFit`: `Spec => []OperandsFit`.

`GateSound` relates a recorded time to the kernel raced, between which lie a
process, a file and the metrics: `GateInv` follows the kernel's result through
them (`RunsVariant`, `Measured`). `RecordsBest` compares Python's minimum with a
C++ loop; `FasterKeepsBest` is the loop's invariant and `SelectsFirstFastest` its
conclusion, `WinnerInv` carries it through the sweep. `RaceFits` rests on
`AdmissibleFits`, that on the grid the operands' elements divide among the
threads, so that the pruning rules' rounded estimate is exact, and on
`GridDistinct`. `ServedWasTuned` is about what comes out of a JSON file others
may have damaged: `FileRoundTrip` shows that the decoder returns the entry that
was serialized, and that no spoiled document yields another one, and `TunedInv`
says where an entry can come from at each stage.
For `OperandsFit`, `FitInv` says that a running driver has the plan of its command
line, and has passed the checks of the plan that lie before it (`Allowed`). What
is left is arithmetic on shapes: the size of a shape is the fold of a product,
which the lemmas turn into facts on what a shape is built from (`SizeAppend`,
`SizeOfFour`), and into rows times columns (`SizeOfRows`). `PlansFit` then goes
through the programs and ops. `BenchFits` does the same for the bench driver,
which compares nothing: its inputs are made to fit.

`DataLemmas` holds what these proofs share: sequences whose elements have no
common type, cutting and joining typed ones, selections by position and what they
keep of an order, division with remainder, folds over finite sets (`FoldExists`,
`FoldStays`, by which an operator of the community modules that is defined by a
fold can be unfolded), and sums, whose terms may be taken in any order.

Only model-checked, and why:

* liveness (`Delivered`, `StepReturns`, `NoLostWakeup`, `DrainReturns`,
  `Terminates`, `Finishes`, `PipelineEnds`, `SweepEnds`) is outside the prover's
  reach;
* `TextSound` is a fact about the given kernels' texts, and `ComputesReference`
  compares the sums of symbolic terms these texts add up with the reference's: for
  every shape, that would be an induction over loops of a length the shape gives;
* `ReportConsistent` compares the annotations with the types of an op's operands,
  by products over their shapes. That needs the types that operands keep through
  the passes between two walks, of which the invariants above say nothing; and for
  every source it would have to exclude those that carry annotations already,
  which no program of the run does.

## 5. Plan

Done: the fabric and its loops, the scheduler, SUMMA, the kernel cache; the
kernels with their launches, references and driver programs; the dialect and
the passes; the tuning pipeline with its configuration space, cache format and
runtime; theorems about all of them, the refinement of the fabric's cycle by its
loops among them.

What is left, in this order:

1. `ReportConsistent`: that types follow operands through the rewrites.
2. The closed forms of `Metrics.cpp` against counters in `Summa`.

## 6. What is left out

* `Grid::cycle_` and `kCycleCap`: the cycle count grows without bound and the
  cap is out of reach; `Terminates` shows that the loop ends by itself on the
  instances checked.
* Rounding and the order of sums, in SUMMA and in the kernels: numbers are
  symbolic. So are the metrics of the gate.
* The insides of a tensor-core instruction.
* In `Autotune`: two sweeps at once, refused launches while timing, the narrowing
  of a JSON number to `int`, and the variants of a race beyond `MaxRaced`.
* Processing element, metrics, performance analysis and quantization: arithmetic
  or text without state. The Modal service, benchmark suite and pod scripts: glue
  around services and rented machines whose behaviour is not in this repository.
* Hash collisions: a library's hash stands for its content.
* Two processes that persist into one directory at once (`OneWriter`), and a
  library that changes while `InvalidateStale` reads it.
* A task's `fire_count_`, which only tests read (the history of operands
  determines it for data tasks), and handlers that call back into the scheduler
  other than to block their own task.
* Components marked `not_modelled` in `PROJECT.json`, with the reason there.
