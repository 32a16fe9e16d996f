---------------------------- MODULE ThreadBlock ----------------------------
(***************************************************************************)
(* One launch of a GPU kernel, the way the kernels of src/kernels/generated *)
(* use it: the blocks of the grid share nothing but the output tensor, the  *)
(* threads of a block share PK_SHARED memory and meet at pk_syncthreads(),  *)
(* and the lanes of a warp exchange registers in pk_shfl_xor_sync().  The   *)
(* control flow of every kernel depends on the thread index and the shape   *)
(* only, so a kernel is a sequence of instructions per thread.              *)
(*                                                                          *)
(* An instruction is a record [op, reads, writes, stores, arg]: the shared  *)
(* cells it reads and writes, the output cells it stores, and what it       *)
(* computes (Exec for one thread, Shuffle for a whole warp).  Work on       *)
(* registers and on the read-only inputs belongs to the instruction that    *)
(* uses it; NoRace says why no finer grain is needed.                       *)
(***************************************************************************)
EXTENDS Naturals, Sequences, FiniteSets

CONSTANTS Launch,          \* launch name -> [grid, threads, warps, smem, out, prog]
          Exec(_, _, _),   \* instruction, registers, cells read -> [reg, mem]
          Shuffle(_, _),   \* instruction, lane -> registers : lane -> registers
          Reg0,            \* registers at kernel entry
          Undef            \* memory nobody has written

(***************************************************************************)
(* A launch gives every thread of every block a program, and no thread is   *)
(* in two warps.                                                            *)
(***************************************************************************)
WellFormed(L) ==
  /\ DOMAIN L.prog = L.grid
  /\ \A b \in L.grid :
        /\ DOMAIN L.prog[b] = L.threads
        /\ \A t \in L.threads :
              Len(L.prog[b][t]) \in Nat /\ DOMAIN L.prog[b][t] = 1..Len(L.prog[b][t])
  /\ \A w \in L.warps : w \subseteq L.threads
  /\ \A v, w \in L.warps : v = w \/ v \cap w = {}

ASSUME LaunchAssumption == \A l \in DOMAIN Launch : WellFormed(Launch[l])

VARIABLES job,      \* the launch
          todo,     \* blocks of the grid that have not started
          cur,      \* the running block
          pc,       \* thread -> index of its next instruction
          reg,      \* thread -> its registers
          shared,   \* PK_SHARED cell -> value
          output    \* output element -> value

vars == <<job, todo, cur, pc, reg, shared, output>>

Program(t)  == Launch[job].prog[cur][t]
Threads     == Launch[job].threads
Live(t)     == pc[t] \in DOMAIN Program(t)
Ins(t)      == Program(t)[pc[t]]
AtOp(t, op) == Live(t) /\ Ins(t).op = op
----------------------------------------------------------------------------
\* PK_LAUNCH: any block of the grid may run first; its shared memory and its
\* threads' registers are fresh.
Init ==
  /\ job \in DOMAIN Launch
  /\ cur \in Launch[job].grid
  /\ todo = Launch[job].grid \ {cur}
  /\ pc = [t \in Launch[job].threads |-> 1]
  /\ reg = [t \in Launch[job].threads |-> Reg0]
  /\ shared = [c \in Launch[job].smem |-> Undef]
  /\ output = [c \in Launch[job].out |-> Undef]

\* One thread executes one instruction.
Step(t) ==
  LET i == Ins(t)
      e == Exec(i, reg[t], [c \in i.reads |-> shared[c]])
  IN /\ Live(t)
     /\ i.op \notin {"sync", "shfl"}
     /\ pc' = [pc EXCEPT ![t] = @ + 1]
     /\ reg' = [reg EXCEPT ![t] = e.reg]
     /\ shared' = [c \in DOMAIN shared |->
                      IF c \in i.writes THEN e.mem[c] ELSE shared[c]]
     /\ output' = [c \in DOMAIN output |->
                   IF c \in i.stores THEN e.mem[c] ELSE output[c]]
     /\ UNCHANGED <<job, todo, cur>>

\* pk_shfl_xor_sync with the full mask: all the lanes of the warp together.
Shfl(w) ==
  LET i == Ins(CHOOSE t \in w : TRUE)
      v == Shuffle(i, [t \in w |-> reg[t]])
  IN /\ w # {}
     /\ \A t \in w : AtOp(t, "shfl")
     /\ pc' = [t \in Threads |-> IF t \in w THEN pc[t] + 1 ELSE pc[t]]
     /\ reg' = [t \in Threads |-> IF t \in w THEN v[t] ELSE reg[t]]
     /\ UNCHANGED <<job, todo, cur, shared, output>>

\* pk_syncthreads(): every thread of the block is there.
Sync ==
  /\ Threads # {}
  /\ \A t \in Threads : AtOp(t, "sync")
  /\ pc' = [t \in Threads |-> pc[t] + 1]
  /\ UNCHANGED <<job, todo, cur, reg, shared, output>>

\* Mutant of NextBlock: a block that has run is not taken off the grid.
NextBlock_RunsAgain(b) ==
  /\ \A t \in Threads : ~Live(t)
  /\ b \in todo
  /\ todo' = todo
  /\ cur' = b
  /\ pc' = [t \in Threads |-> 1]
  /\ reg' = [t \in Threads |-> Reg0]
  /\ shared' = [c \in DOMAIN shared |-> Undef]
  /\ UNCHANGED <<job, output>>

\* The block has ended; another one runs.
NextBlock(b) ==
  /\ \A t \in Threads : ~Live(t)
  /\ b \in todo
  /\ todo' = todo \ {b}
  /\ cur' = b
  /\ pc' = [t \in Threads |-> 1]
  /\ reg' = [t \in Threads |-> Reg0]
  /\ shared' = [c \in DOMAIN shared |-> Undef]
  /\ UNCHANGED <<job, output>>

Finished == todo = {} /\ \A t \in Threads : ~Live(t)

\* The launch has ended; nothing happens any more.
Done == Finished /\ UNCHANGED vars

BlockStep ==
  \/ \E t \in Threads : Step(t)
  \/ \E w \in Launch[job].warps : Shfl(w)
  \/ Sync
  \/ \E b \in todo : NextBlock(b)

Next == BlockStep \/ Done

Spec == Init /\ [][Next]_vars

\* The hardware keeps scheduling a block that can run.
FairSpec == Spec /\ WF_vars(BlockStep)
----------------------------------------------------------------------------
(***************************************************************************)
(* Every thread is at an instruction of the block's program or behind its   *)
(* last one, a block runs once, and memory keeps its cells.                 *)
(***************************************************************************)
TypeOK ==
  /\ job \in DOMAIN Launch
  /\ cur \in Launch[job].grid
  /\ todo \subseteq Launch[job].grid \ {cur}
  /\ DOMAIN pc = Threads /\ DOMAIN reg = Threads
  /\ \A t \in Threads : pc[t] \in 1..(Len(Program(t)) + 1)
  /\ DOMAIN shared = Launch[job].smem
  /\ DOMAIN output = Launch[job].out

\* Two instructions of different threads that touch one cell, one of them
\* writing it.
Conflict(i, j) ==
  \/ i.writes \cap (j.writes \cup j.reads) # {}
  \/ i.reads \cap j.writes # {}
  \/ i.stores \cap j.stores # {}

\* Thread t is about to execute an instruction that touches memory or registers.
Ready(t) == Live(t) /\ Ins(t).op # "sync"

(***************************************************************************)
(* No data race: at no point can two threads of the block go on with        *)
(* conflicting instructions.  It is what the two barriers around each       *)
(* staged tile and the barriers inside block_reduce_sum are there for       *)
(* (src/kernels/generated/matmul.cu:58,64, softmax.cu:52,94).               *)
(***************************************************************************)
NoRace ==
  \A t, u \in Threads :
     t # u /\ Ready(t) /\ Ready(u) => ~Conflict(Ins(t), Ins(u))

\* Number of barriers before instruction n of program p.
Epoch(p, n) == Cardinality({k \in 1..(n - 1) : p[k].op = "sync"})

(***************************************************************************)
(* The kernel's text alone: instructions of two threads between the same    *)
(* two barriers never conflict.                                             *)
(***************************************************************************)
RaceFreeText(L) ==
  \A b \in L.grid, t \in L.threads, u \in L.threads : t # u =>
     LET p == L.prog[b][t]
         q == L.prog[b][u]
     IN \A m \in DOMAIN p, n \in DOMAIN q :
           /\ p[m].op # "sync" /\ q[n].op # "sync"
           /\ Conflict(p[m], q[n])
           => Epoch(p, m) # Epoch(q, n)

RaceFreeTexts == {l \in DOMAIN Launch : RaceFreeText(Launch[l])}

TextRaceFree == job \in RaceFreeTexts

(***************************************************************************)
(* The kernel's text alone: no output element is stored by two instructions *)
(* of the launch, whatever their blocks and threads.                        *)
(***************************************************************************)
StoresApart(L) ==
  \A b, c \in L.grid, t, u \in L.threads :
     LET p == L.prog[b][t]
         q == L.prog[c][u]
     IN \A m \in DOMAIN p, n \in DOMAIN q :
           /\ p[m].stores \subseteq L.out
           /\ b # c \/ t # u \/ m # n => p[m].stores \cap q[n].stores = {}

StoresApartTexts == {l \in DOMAIN Launch : StoresApart(Launch[l])}

TextStoresOnce == job \in StoresApartTexts

(***************************************************************************)
(* The text of the running kernel separates conflicting accesses by         *)
(* barriers and stores no element twice: enough for NoRace and StoredOnce,  *)
(* whatever the schedule (ThreadBlockProofs), and decided without running   *)
(* it.                                                                      *)
(***************************************************************************)
TextSound == TextRaceFree /\ TextStoresOnce

(***************************************************************************)
(* The block keeps step: all its threads are between the same two barriers. *)
(***************************************************************************)
SameEpoch ==
  \A t, u \in Threads : Epoch(Program(t), pc[t]) = Epoch(Program(u), pc[u])

(***************************************************************************)
(* Every element of the output is stored by one thread of one block: no     *)
(* thread is about to store an element that has been stored already (the    *)
(* bounds checks `row < M && col < N`, the tail of an odd length by thread  *)
(* 0 alone, the grid-stride loops).                                         *)
(***************************************************************************)
StoredOnce ==
  \A t \in Threads : Live(t) =>
     \A c \in Ins(t).stores : c \in DOMAIN output /\ output[c] = Undef

(***************************************************************************)
(* The launch ends: no barrier or shuffle waits for a thread that does not  *)
(* come.                                                                    *)
(***************************************************************************)
Finishes == <>Finished
=============================================================================
