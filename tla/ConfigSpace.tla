---------------------------- MODULE ConfigSpace ----------------------------
(***************************************************************************)
(* The autotuner's search space (ConfigSpace.cpp): a grid of matmul tiles  *)
(* and schedules, and the rules that prune it.  A configuration is the     *)
(* tuple of its fields in the order of the struct.                         *)
(***************************************************************************)
EXTENDS Integers, Sequences, Selection

kBlockM == <<16, 32, 64, 128>>
kBlockN == <<16, 32, 64, 128>>
kBlockK == <<32, 64, 128>>
kNumWarps == <<4, 8>>
kVectorWidth == <<1, 2, 4, 8>>
kUnroll == <<1, 2, 4, 8>>
kStages == <<2, 3, 4>>
kMinTileFor8Warps == 4096
kMinElemsPerThread == 4

\* The default limits, those of an sm_90.
ArchLimits == [smem_per_sm_bytes |-> 233472, regs_per_sm |-> 65536,
               min_blocks_per_sm |-> 2, max_regs_per_thread |-> 128, elem_bytes |-> 2]

block_m(c) == c[1]
block_n(c) == c[2]
block_k(c) == c[3]
num_warps(c) == c[4]
vector_width(c) == c[5]
unroll(c) == c[6]
shared_memory_stages(c) == c[7]

Threads(c) == num_warps(c) * 32
Tile(c) == block_m(c) * block_n(c)
OperandElems(c) == block_k(c) * (block_m(c) + block_n(c))
SharedBytes(c) == shared_memory_stages(c) * OperandElems(c) * ArchLimits.elem_bytes

\* Each of the two quotients is rounded down.
RegisterEstimate(c) ==
    ((Tile(c) * unroll(c)) \div Threads(c))
        + ((OperandElems(c) * unroll(c)) \div Threads(c))

GridSize == 4 * 4 * 3 * 2 * 4 * 4 * 3

\* The nested loops, the last axis fastest.
FullGrid ==
    [i \in 1..GridSize |->
        LET j == i - 1
        IN  <<kBlockM[1 + (j \div 1152)],
              kBlockN[1 + ((j \div 288) % 4)],
              kBlockK[1 + ((j \div 96) % 3)],
              kNumWarps[1 + ((j \div 48) % 2)],
              kVectorWidth[1 + ((j \div 12) % 4)],
              kUnroll[1 + ((j \div 3) % 4)],
              kStages[1 + (j % 3)]>>]

\* Mutant: the ceiling on a thread's registers (R3) is forgotten.
IsAdmissible_NoR3(c) ==
    LET elems_per_thread == Tile(c) \div Threads(c)
    IN  /\ Threads(c) > 0 /\ Tile(c) % Threads(c) = 0
        /\ ~(Tile(c) < kMinTileFor8Warps /\ num_warps(c) = 8)
        /\ SharedBytes(c) * ArchLimits.min_blocks_per_sm <= ArchLimits.smem_per_sm_bytes
        /\ RegisterEstimate(c) * Threads(c) * ArchLimits.min_blocks_per_sm
              <= ArchLimits.regs_per_sm
        /\ vector_width(c) > 0 /\ block_k(c) % vector_width(c) = 0
        /\ elems_per_thread = vector_width(c) * unroll(c)
        /\ elems_per_thread >= kMinElemsPerThread

\* RejectionReason names the first rule that is broken; a configuration is
\* admissible if it keeps all of them: STRUCT and R1 to R7, in this order.
IsAdmissible(c) ==
    LET elems_per_thread == Tile(c) \div Threads(c)
    IN  /\ Threads(c) > 0 /\ Tile(c) % Threads(c) = 0
        /\ ~(Tile(c) < kMinTileFor8Warps /\ num_warps(c) = 8)
        /\ SharedBytes(c) * ArchLimits.min_blocks_per_sm <= ArchLimits.smem_per_sm_bytes
        /\ RegisterEstimate(c) <= ArchLimits.max_regs_per_thread
        /\ RegisterEstimate(c) * Threads(c) * ArchLimits.min_blocks_per_sm
              <= ArchLimits.regs_per_sm
        /\ vector_width(c) > 0 /\ block_k(c) % vector_width(c) = 0
        /\ elems_per_thread = vector_width(c) * unroll(c)
        /\ elems_per_thread >= kMinElemsPerThread

\* The admissible ones, in the order of the grid.
Prune(configs) == Subsequence(configs, {i \in DOMAIN configs : IsAdmissible(configs[i])})

Enumerate == Prune(FullGrid)

-----------------------------------------------------------------------------

\* A configuration that can be raced really fits: its threads' micro-tiles
\* cover the output tile exactly, and, with the registers counted before the
\* estimate rounds them, no thread holds more than it may and the SM has room
\* for min_blocks_per_sm blocks.
Fits(c) ==
    LET registers == (Tile(c) + OperandElems(c)) * unroll(c)
    IN  /\ Threads(c) * vector_width(c) * unroll(c) = Tile(c)
        /\ registers <= ArchLimits.max_regs_per_thread * Threads(c)
        /\ registers * ArchLimits.min_blocks_per_sm <= ArchLimits.regs_per_sm
        /\ SharedBytes(c) * ArchLimits.min_blocks_per_sm <= ArchLimits.smem_per_sm_bytes
=============================================================================
