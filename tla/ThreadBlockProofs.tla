------------------------- MODULE ThreadBlockProofs -------------------------
(***************************************************************************)
(* What the barriers of a kernel are worth, for every launch: a kernel     *)
(* whose text has no conflicting instructions between the same two         *)
(* barriers has no data race in any schedule.  The argument is that a      *)
(* block keeps step: pk_syncthreads lets no thread pass a barrier that     *)
(* another one has not reached (SameEpoch).  And a kernel whose text gives *)
(* each output element to one instruction stores it once: what has been    *)
(* stored was stored by what has been executed (WrittenByExecuted).        *)
(***************************************************************************)
EXTENDS ThreadBlock, FiniteSetTheorems, TLAPS

\* The barriers before instruction n of a program.
Barriers(p, n) == {k \in 1..(n - 1) : p[k].op = "sync"}

\* There are finitely many of them, so the epoch is a natural number.
LEMMA BarriersFinite ==
  ASSUME NEW p, NEW n \in Nat \ {0}
  PROVE  IsFiniteSet(Barriers(p, n)) /\ Epoch(p, n) \in Nat
<1>1. IsFiniteSet(1..(n - 1))
  BY FS_Interval
<1>2. Barriers(p, n) \subseteq 1..(n - 1)
  BY DEF Barriers
<1>3. IsFiniteSet(Barriers(p, n))
  BY <1>1, <1>2, FS_Subset
<1>4. Cardinality(Barriers(p, n)) \in Nat
  BY <1>3, FS_CardinalityType
<1> QED
  BY <1>3, <1>4 DEF Epoch, Barriers

\* A thread at its first instruction has passed no barrier.
LEMMA EpochOne ==
  ASSUME NEW p
  PROVE  Epoch(p, 1) = 0
<1>1. Barriers(p, 1) = {}
  BY DEF Barriers
<1>2. Cardinality(Barriers(p, 1)) = 0
  BY <1>1, FS_EmptySet
<1> QED
  BY <1>2 DEF Epoch, Barriers

\* Passing a barrier adds one to the epoch.
LEMMA EpochSync ==
  ASSUME NEW p, NEW n \in Nat \ {0}, p[n].op = "sync"
  PROVE  Epoch(p, n + 1) = Epoch(p, n) + 1
<1>1. Barriers(p, n + 1) = Barriers(p, n) \cup {n}
  BY DEF Barriers
<1>2. n \notin Barriers(p, n)
  BY DEF Barriers
<1>3. Cardinality(Barriers(p, n) \cup {n}) = Cardinality(Barriers(p, n)) + 1
  BY <1>2, BarriersFinite, FS_AddElement
<1> QED
  BY <1>1, <1>3 DEF Epoch, Barriers

\* Any other instruction leaves it.
LEMMA EpochOther ==
  ASSUME NEW p, NEW n \in Nat \ {0}, p[n].op # "sync"
  PROVE  Epoch(p, n + 1) = Epoch(p, n)
<1>1. Barriers(p, n + 1) = Barriers(p, n)
  BY DEF Barriers
<1> QED
  BY <1>1 DEF Epoch, Barriers

----------------------------------------------------------------------------
\* Programs have a length, whichever launch runs and whichever of its blocks.
LEMMA ProgramDomain ==
  ASSUME NEW l \in DOMAIN Launch, NEW b \in Launch[l].grid, NEW t \in Launch[l].threads
  PROVE  /\ Len(Launch[l].prog[b][t]) \in Nat
         /\ DOMAIN Launch[l].prog[b][t] = 1..Len(Launch[l].prog[b][t])
BY LaunchAssumption DEF WellFormed

\* A step of one thread keeps the types.
LEMMA StepTypeOK ==
  ASSUME TypeOK, NEW t \in Threads, Step(t)
  PROVE  TypeOK'
<1>1. Threads' = Threads /\ \A u : Program(u)' = Program(u)
  BY DEF Step, Threads, Program
<1>2. \A u \in Threads : Len(Program(u)) \in Nat /\ DOMAIN Program(u) = 1..Len(Program(u))
  BY ProgramDomain DEF TypeOK, Program, Threads
<1>3. \A u \in Threads : pc'[u] \in 1..(Len(Program(u)) + 1)
  <2> TAKE u \in Threads
  <2>1. CASE u = t
    <3>1. pc'[t] = pc[t] + 1 /\ pc[t] \in 1..Len(Program(t))
      BY <1>2 DEF Step, Live, TypeOK
    <3> QED
      BY <2>1, <3>1, <1>2
  <2>2. CASE u # t
    BY <2>2 DEF Step, TypeOK
  <2> QED
    BY <2>1, <2>2
<1>4. /\ DOMAIN pc' = Threads /\ DOMAIN reg' = Threads
      /\ DOMAIN shared' = DOMAIN shared /\ DOMAIN output' = DOMAIN output
  BY DEF Step, TypeOK
<1>5. UNCHANGED <<job, todo, cur>>
  BY DEF Step
<1> QED
  BY <1>1, <1>3, <1>4, <1>5 DEF TypeOK

\* A shuffle of a warp keeps the types.
LEMMA ShflTypeOK ==
  ASSUME TypeOK, NEW w \in Launch[job].warps, Shfl(w)
  PROVE  TypeOK'
<1>1. Threads' = Threads /\ \A u : Program(u)' = Program(u)
  BY DEF Shfl, Threads, Program
<1>2. \A u \in Threads : Len(Program(u)) \in Nat /\ DOMAIN Program(u) = 1..Len(Program(u))
  BY ProgramDomain DEF TypeOK, Program, Threads
<1>3. pc' = [t \in Threads |-> IF t \in w THEN pc[t] + 1 ELSE pc[t]]
  BY DEF Shfl
<1>4. \A t \in w : pc[t] \in DOMAIN Program(t)
  BY DEF Shfl, AtOp, Live
<1>5. \A u \in Threads : pc'[u] \in 1..(Len(Program(u)) + 1)
  BY <1>2, <1>3, <1>4 DEF TypeOK
<1>6. DOMAIN pc' = Threads /\ DOMAIN reg' = Threads
  BY DEF Shfl
<1>7. UNCHANGED <<job, todo, cur, shared, output>>
  BY DEF Shfl
<1> QED
  BY <1>1, <1>5, <1>6, <1>7 DEF TypeOK

\* A barrier keeps the types.
LEMMA SyncTypeOK ==
  ASSUME TypeOK, Sync
  PROVE  TypeOK'
<1>1. Threads' = Threads /\ \A u : Program(u)' = Program(u)
  BY DEF Sync, Threads, Program
<1>2. \A u \in Threads : Len(Program(u)) \in Nat /\ DOMAIN Program(u) = 1..Len(Program(u))
  BY ProgramDomain DEF TypeOK, Program, Threads
<1>3. pc' = [t \in Threads |-> pc[t] + 1]
  BY DEF Sync
<1>4. \A t \in Threads : pc[t] \in DOMAIN Program(t)
  BY DEF Sync, AtOp, Live
<1>5. \A u \in Threads : pc'[u] \in 1..(Len(Program(u)) + 1)
  BY <1>2, <1>3, <1>4 DEF TypeOK
<1>6. DOMAIN pc' = Threads
  BY <1>3
<1>7. UNCHANGED <<job, todo, cur, reg, shared, output>>
  BY DEF Sync
<1> QED
  BY <1>1, <1>5, <1>6, <1>7 DEF TypeOK

\* The next block starts with the types of a first one.
LEMMA NextBlockTypeOK ==
  ASSUME TypeOK, NEW b \in todo, NextBlock(b)
  PROVE  TypeOK'
<1>1. job' = job /\ cur' = b /\ todo' = todo \ {b} /\ Threads' = Threads
  BY DEF NextBlock, Threads
<1>2. b \in Launch[job].grid
  BY DEF TypeOK
<1>3. \A u \in Threads : Len(Program(u)') \in Nat
  BY <1>1, <1>2, ProgramDomain DEF TypeOK, Program, Threads
<1>4. pc' = [t \in Threads |-> 1] /\ reg' = [t \in Threads |-> Reg0]
  BY DEF NextBlock
<1>5. \A u \in Threads' : pc'[u] \in 1..(Len(Program(u)') + 1)
  BY <1>1, <1>3, <1>4
<1>6. cur' \in Launch[job].grid /\ todo' \subseteq Launch[job].grid \ {cur'}
  BY <1>1, <1>2 DEF TypeOK
<1>7. DOMAIN shared' = Launch[job].smem /\ DOMAIN output' = Launch[job].out
  BY DEF NextBlock, TypeOK
<1> QED
  BY <1>1, <1>4, <1>5, <1>6, <1>7 DEF TypeOK

\* A thread's index stays within its program or just behind it, the blocks yet
\* to run are the others, and memory keeps its cells: for every launch.
THEOREM TypeCorrect == Spec => []TypeOK
<1>1. Init => TypeOK
  <2> SUFFICES ASSUME Init PROVE TypeOK
    OBVIOUS
  <2>1. \A t \in Threads : pc[t] \in 1..(Len(Program(t)) + 1)
    BY ProgramDomain DEF Init, Program, Threads
  <2> QED
    BY <2>1 DEF Init, TypeOK, Threads
<1>2. TypeOK /\ [Next]_vars => TypeOK'
  <2> SUFFICES ASSUME TypeOK, [Next]_vars PROVE TypeOK'
    OBVIOUS
  <2>1. CASE \E t \in Threads : Step(t)
    BY <2>1, StepTypeOK
  <2>2. CASE \E w \in Launch[job].warps : Shfl(w)
    BY <2>2, ShflTypeOK
  <2>3. CASE Sync
    BY <2>3, SyncTypeOK
  <2>4. CASE \E b \in todo : NextBlock(b)
    BY <2>4, NextBlockTypeOK
  <2>5. CASE UNCHANGED vars
    BY <2>5 DEF vars, TypeOK, Threads, Program
  <2> QED
    BY <2>1, <2>2, <2>3, <2>4, <2>5 DEF Next, BlockStep, Done
<1> QED
  BY <1>1, <1>2, PTL DEF Spec

----------------------------------------------------------------------------
\* An instruction that is no barrier keeps the thread's epoch.
LEMMA StepSameEpoch ==
  ASSUME TypeOK, SameEpoch, NEW t \in Threads, Step(t)
  PROVE  SameEpoch'
<1>1. Threads' = Threads /\ \A u : Program(u)' = Program(u)
  BY DEF Step, Threads, Program
<1>2. \A u \in Threads : pc[u] \in Nat \ {0}
  BY ProgramDomain DEF TypeOK, Program, Threads
<1>3. \A u \in Threads : Epoch(Program(u), pc'[u]) = Epoch(Program(u), pc[u])
  <2> TAKE u \in Threads
  <2>1. CASE u = t
    <3>1. pc'[t] = pc[t] + 1 /\ Program(t)[pc[t]].op # "sync"
      BY DEF Step, Ins, TypeOK
    <3> QED
      BY <2>1, <3>1, <1>2, EpochOther
  <2>2. CASE u # t
    BY <2>2 DEF Step, TypeOK
  <2> QED
    BY <2>1, <2>2
<1> QED
  BY <1>1, <1>3 DEF SameEpoch

\* So does a shuffle, for all its lanes.
LEMMA ShflSameEpoch ==
  ASSUME TypeOK, SameEpoch, NEW w \in Launch[job].warps, Shfl(w)
  PROVE  SameEpoch'
<1>1. Threads' = Threads /\ \A u : Program(u)' = Program(u)
  BY DEF Shfl, Threads, Program
<1>2. \A u \in Threads : pc[u] \in Nat \ {0}
  BY ProgramDomain DEF TypeOK, Program, Threads
<1>3. \A u \in w : Program(u)[pc[u]].op # "sync"
  BY DEF Shfl, AtOp, Ins
<1>4. \A u \in Threads : Epoch(Program(u), pc'[u]) = Epoch(Program(u), pc[u])
  <2> TAKE u \in Threads
  <2>1. CASE u \in w
    <3>1. pc'[u] = pc[u] + 1
      BY <2>1 DEF Shfl
    <3> QED
      BY <2>1, <3>1, <1>2, <1>3, EpochOther
  <2>2. CASE u \notin w
    BY <2>2 DEF Shfl
  <2> QED
    BY <2>1, <2>2
<1> QED
  BY <1>1, <1>4 DEF SameEpoch

\* A barrier takes every thread of the block to the next epoch.
LEMMA SyncSameEpoch ==
  ASSUME TypeOK, SameEpoch, Sync
  PROVE  SameEpoch'
<1>1. Threads' = Threads /\ \A u : Program(u)' = Program(u)
  BY DEF Sync, Threads, Program
<1>2. \A u \in Threads : pc[u] \in Nat \ {0}
  BY ProgramDomain DEF TypeOK, Program, Threads
<1>3. \A u \in Threads : pc'[u] = pc[u] + 1 /\ Program(u)[pc[u]].op = "sync"
  BY DEF Sync, AtOp, Ins
<1>4. \A u \in Threads : Epoch(Program(u), pc'[u]) = Epoch(Program(u), pc[u]) + 1
  BY <1>2, <1>3, EpochSync
<1> QED
  BY <1>1, <1>4 DEF SameEpoch

\* In step at every state: no thread is a barrier ahead of another.
THEOREM KeepsStep == Spec => []SameEpoch
<1>1. Init => SameEpoch
  BY EpochOne DEF Init, SameEpoch, Threads
<1>2. TypeOK /\ SameEpoch /\ [Next]_vars => SameEpoch'
  <2> SUFFICES ASSUME TypeOK, SameEpoch, [Next]_vars PROVE SameEpoch'
    OBVIOUS
  <2>1. CASE \E t \in Threads : Step(t)
    BY <2>1, StepSameEpoch
  <2>2. CASE \E w \in Launch[job].warps : Shfl(w)
    BY <2>2, ShflSameEpoch
  <2>3. CASE Sync
    BY <2>3, SyncSameEpoch
  <2>4. CASE \E b \in todo : NextBlock(b)
    <3>1. \A t \in Threads' : pc'[t] = 1
      BY <2>4 DEF NextBlock, Threads
    <3> QED
      BY <3>1, EpochOne DEF SameEpoch
  <2>5. CASE UNCHANGED vars
    BY <2>5 DEF vars, SameEpoch, Threads, Program
  <2> QED
    BY <2>1, <2>2, <2>3, <2>4, <2>5 DEF Next, BlockStep, Done
<1> QED
  BY <1>1, <1>2, TypeCorrect, PTL DEF Spec

\* Two threads in the same epoch of a race-free text are not at conflicting
\* instructions.
LEMMA InStepNoRace ==
  ASSUME TypeOK, SameEpoch, TextRaceFree
  PROVE  NoRace
<1> SUFFICES ASSUME NEW t \in Threads, NEW u \in Threads, t # u, Ready(t), Ready(u)
             PROVE  ~Conflict(Ins(t), Ins(u))
  BY DEF NoRace
<1>1. RaceFreeText(Launch[job]) /\ cur \in Launch[job].grid
  BY DEF TextRaceFree, RaceFreeTexts, TypeOK
<1>2. pc[t] \in DOMAIN Program(t) /\ pc[u] \in DOMAIN Program(u)
  BY DEF Ready, Live
<1>3. Program(t)[pc[t]].op # "sync" /\ Program(u)[pc[u]].op # "sync"
  BY DEF Ready, Ins
<1>4. Epoch(Program(t), pc[t]) = Epoch(Program(u), pc[u])
  BY DEF SameEpoch
<1>5. ~Conflict(Program(t)[pc[t]], Program(u)[pc[u]])
  BY <1>1, <1>2, <1>3, <1>4 DEF RaceFreeText, Program, Threads
<1> QED
  BY <1>5 DEF Ins

\* A kernel whose text separates conflicting accesses by barriers has no data
\* race: for every kernel, grid and block size, and in every schedule of its
\* blocks, threads and warps.
THEOREM BarriersPreventRaces == Spec => [](TextRaceFree => NoRace)
<1>1. TypeOK /\ SameEpoch => (TextRaceFree => NoRace)
  BY InStepNoRace
<1> QED
  BY <1>1, TypeCorrect, KeepsStep, PTL
----------------------------------------------------------------------------
\* Instruction n of thread t of block b, in the program of the running launch.
Site(b, t, n) == Launch[job].prog[b][t][n]

\* What has been executed: the blocks that are neither running nor waiting, and
\* the running block's instructions behind its threads.
Executed(b, t, n) == b \notin todo /\ (b = cur => n < pc[t])

\* An element that is not as the launch found it was stored by an instruction
\* that has been executed.
WrittenByExecuted ==
  \A c \in DOMAIN output : output[c] # Undef =>
     \E b \in Launch[job].grid, t \in Threads :
        \E n \in DOMAIN Launch[job].prog[b][t] :
           c \in Site(b, t, n).stores /\ Executed(b, t, n)

\* An instruction of one thread stores only the elements it names.
LEMMA StepWritten ==
  ASSUME TypeOK, WrittenByExecuted, NEW t \in Threads, Step(t)
  PROVE  WrittenByExecuted'
<1>1. UNCHANGED <<job, todo, cur>> /\ Threads' = Threads
  BY DEF Step, Threads
<1>2. \A u \in Threads : pc[u] \in Nat /\ pc'[u] \in Nat /\ pc'[u] >= pc[u]
  <2>1. \A u \in Threads : pc[u] \in Nat
    BY ProgramDomain DEF TypeOK, Program, Threads
  <2> QED
    BY <2>1 DEF Step, TypeOK
<1>3. pc'[t] = pc[t] + 1 /\ pc[t] \in DOMAIN Program(t)
  BY DEF Step, TypeOK, Live
<1>4. DOMAIN output' = DOMAIN output
  BY DEF Step
<1> SUFFICES ASSUME NEW c \in DOMAIN output, output'[c] # Undef
             PROVE  \E b \in Launch[job].grid, u \in Threads :
                       \E n \in DOMAIN Launch[job].prog[b][u] :
                          c \in Site(b, u, n).stores /\ Executed(b, u, n)'
  BY <1>1, <1>4 DEF WrittenByExecuted, Site
<1>5. CASE c \in Ins(t).stores
  <2>1. PICK b, n : b = cur /\ n = pc[t]
    OBVIOUS
  <2>2. c \in Site(b, t, n).stores /\ n \in DOMAIN Launch[job].prog[b][t]
    BY <1>3, <1>5, <2>1 DEF Ins, Program, Site
  <2>3. Executed(b, t, n)'
    BY <1>1, <1>2, <1>3, <2>1 DEF Executed, TypeOK
  <2>4. b \in Launch[job].grid
    BY <2>1 DEF TypeOK
  <2> QED
    BY <2>2, <2>3, <2>4
<1>6. CASE c \notin Ins(t).stores
  <2>1. output'[c] = output[c]
    BY <1>6 DEF Step
  <2>2. PICK b \in Launch[job].grid, u \in Threads :
           \E n \in DOMAIN Launch[job].prog[b][u] :
              c \in Site(b, u, n).stores /\ Executed(b, u, n)
    BY <2>1 DEF WrittenByExecuted
  <2>3. PICK n \in DOMAIN Launch[job].prog[b][u] :
           c \in Site(b, u, n).stores /\ Executed(b, u, n)
    BY <2>2
  <2>4. n \in Nat
    BY ProgramDomain DEF TypeOK, Threads
  <2>5. Executed(b, u, n)'
    BY <1>1, <1>2, <2>3, <2>4 DEF Executed
  <2> QED
    BY <2>3, <2>5
<1> QED
  BY <1>5, <1>6

\* A step that stores nothing and takes no thread back keeps what was stored.
LEMMA QuietWritten ==
  ASSUME TypeOK, WrittenByExecuted, UNCHANGED <<job, todo, cur, output>>,
         \A u \in Threads : pc'[u] \in Nat /\ pc'[u] >= pc[u]
  PROVE  WrittenByExecuted'
<1>1. Threads' = Threads
  BY DEF Threads
<1>2. \A u \in Threads : pc[u] \in Nat
  BY ProgramDomain DEF TypeOK, Program, Threads
<1> SUFFICES ASSUME NEW c \in DOMAIN output, output[c] # Undef
             PROVE  \E b \in Launch[job].grid, u \in Threads :
                       \E n \in DOMAIN Launch[job].prog[b][u] :
                          c \in Site(b, u, n).stores /\ Executed(b, u, n)'
  BY <1>1 DEF WrittenByExecuted, Site
<1>3. PICK b \in Launch[job].grid, u \in Threads :
         \E n \in DOMAIN Launch[job].prog[b][u] :
            c \in Site(b, u, n).stores /\ Executed(b, u, n)
  BY DEF WrittenByExecuted
<1>4. PICK n \in DOMAIN Launch[job].prog[b][u] :
         c \in Site(b, u, n).stores /\ Executed(b, u, n)
  BY <1>3
<1>5. n \in Nat
  BY ProgramDomain DEF TypeOK, Threads
<1>6. Executed(b, u, n)'
  BY <1>2, <1>4, <1>5 DEF Executed
<1> QED
  BY <1>4, <1>6

\* The next block is not one that has run: what is stored stays behind it.
LEMMA NextBlockWritten ==
  ASSUME TypeOK, WrittenByExecuted, NEW d \in todo, NextBlock(d)
  PROVE  WrittenByExecuted'
<1>1. job' = job /\ output' = output /\ cur' = d /\ todo' = todo \ {d} /\ Threads' = Threads
  BY DEF NextBlock, Threads
<1> SUFFICES ASSUME NEW c \in DOMAIN output, output[c] # Undef
             PROVE  \E b \in Launch[job].grid, u \in Threads :
                       \E n \in DOMAIN Launch[job].prog[b][u] :
                          c \in Site(b, u, n).stores /\ Executed(b, u, n)'
  BY <1>1 DEF WrittenByExecuted, Site
<1>2. PICK b \in Launch[job].grid, u \in Threads :
         \E n \in DOMAIN Launch[job].prog[b][u] :
            c \in Site(b, u, n).stores /\ Executed(b, u, n)
  BY DEF WrittenByExecuted
<1>3. PICK n \in DOMAIN Launch[job].prog[b][u] :
         c \in Site(b, u, n).stores /\ Executed(b, u, n)
  BY <1>2
<1>4. b \notin todo /\ b # d
  BY <1>3 DEF Executed
<1>5. Executed(b, u, n)'
  BY <1>1, <1>4 DEF Executed
<1> QED
  BY <1>3, <1>5

\* At every state, what the output holds was stored by what has been executed.
THEOREM WritesAreExecuted == Spec => []WrittenByExecuted
<1>1. Init => WrittenByExecuted
  BY DEF Init, WrittenByExecuted
<1>2. TypeOK /\ WrittenByExecuted /\ [Next]_vars => WrittenByExecuted'
  <2> SUFFICES ASSUME TypeOK, WrittenByExecuted, [Next]_vars PROVE WrittenByExecuted'
    OBVIOUS
  <2>0. \A u \in Threads : pc[u] \in Nat
    BY ProgramDomain DEF TypeOK, Program, Threads
  <2>1. CASE \E t \in Threads : Step(t)
    BY <2>1, StepWritten
  <2>2. CASE \E w \in Launch[job].warps : Shfl(w)
    <3>1. PICK w \in Launch[job].warps : Shfl(w)
      BY <2>2
    <3>2. UNCHANGED <<job, todo, cur, output>>
      BY <3>1 DEF Shfl
    <3>3. \A u \in Threads : pc'[u] \in Nat /\ pc'[u] >= pc[u]
      BY <2>0, <3>1 DEF Shfl
    <3> QED
      BY <3>2, <3>3, QuietWritten
  <2>3. CASE Sync
    <3>1. UNCHANGED <<job, todo, cur, output>>
      BY <2>3 DEF Sync
    <3>2. \A u \in Threads : pc'[u] \in Nat /\ pc'[u] >= pc[u]
      BY <2>0, <2>3 DEF Sync
    <3> QED
      BY <3>1, <3>2, QuietWritten
  <2>4. CASE \E b \in todo : NextBlock(b)
    BY <2>4, NextBlockWritten
  <2>5. CASE UNCHANGED vars
    <3>1. UNCHANGED <<job, todo, cur, output>> /\ pc' = pc
      BY <2>5 DEF vars
    <3> QED
      BY <2>0, <3>1, QuietWritten
  <2> QED
    BY <2>1, <2>2, <2>3, <2>4, <2>5 DEF Next, BlockStep, Done
<1> QED
  BY <1>1, <1>2, TypeCorrect, PTL DEF Spec

\* An element a thread is about to store was not stored by another site.
LEMMA ApartStoredOnce ==
  ASSUME TypeOK, WrittenByExecuted, TextStoresOnce
  PROVE  StoredOnce
<1> SUFFICES ASSUME NEW t \in Threads, Live(t), NEW c \in Ins(t).stores
             PROVE  c \in DOMAIN output /\ output[c] = Undef
  BY DEF StoredOnce
<1>1. StoresApart(Launch[job]) /\ cur \in Launch[job].grid /\ cur \notin todo
  BY DEF TextStoresOnce, StoresApartTexts, TypeOK
<1>2. pc[t] \in DOMAIN Launch[job].prog[cur][t] /\ c \in Site(cur, t, pc[t]).stores
  BY DEF Live, Ins, Program, Site
<1>3. c \in DOMAIN output
  <2>1. Site(cur, t, pc[t]).stores \subseteq Launch[job].out
    BY <1>1, <1>2 DEF StoresApart, Site, Threads
  <2> QED
    BY <1>2, <2>1 DEF TypeOK
<1>4. ASSUME output[c] # Undef
      PROVE  FALSE
  <2>1. PICK b \in Launch[job].grid, u \in Threads :
           \E n \in DOMAIN Launch[job].prog[b][u] :
              c \in Site(b, u, n).stores /\ Executed(b, u, n)
    BY <1>3, <1>4 DEF WrittenByExecuted
  <2>2. PICK n \in DOMAIN Launch[job].prog[b][u] :
           c \in Site(b, u, n).stores /\ Executed(b, u, n)
    BY <2>1
  <2>3. b # cur \/ u # t \/ n # pc[t]
    <3> SUFFICES ASSUME b = cur, u = t PROVE n # pc[t]
      OBVIOUS
    <3>1. n < pc[t]
      BY <2>2 DEF Executed
    <3>2. pc[t] \in Nat /\ n \in Nat
      BY ProgramDomain DEF TypeOK, Program, Threads
    <3> QED
      BY <3>1, <3>2
  <2>4. Site(b, u, n).stores \cap Site(cur, t, pc[t]).stores = {}
    BY <1>1, <1>2, <2>3 DEF StoresApart, Site, Threads
  <2> QED
    BY <1>2, <2>2, <2>4
<1> QED
  BY <1>3, <1>4

\* A kernel whose text gives every element of the output to one instruction of
\* one thread stores it once: for every kernel, grid and block size, in every
\* schedule, because the grid hands out a block once and no thread goes back.
THEOREM StoresOnce == Spec => [](TextStoresOnce => StoredOnce)
<1>1. TypeOK /\ WrittenByExecuted => (TextStoresOnce => StoredOnce)
  BY ApartStoredOnce
<1> QED
  BY <1>1, TypeCorrect, WritesAreExecuted, PTL
=============================================================================
