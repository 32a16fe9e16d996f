-------------------------- MODULE SchedulerProofs --------------------------
(***************************************************************************)
(* Proofs about Scheduler, for any set of colors and task specifications,  *)
(* any VC depth and any number of arrivals: the state is well typed, the   *)
(* rendezvous pairs operands in arrival order, and every wavelet that      *)
(* arrived is in the VC or the operand of exactly one fire.                *)
(***************************************************************************)
EXTENDS Scheduler, FiniteSetTheorems, SequenceTheorems, WellFoundedInduction, TLAPS

-----------------------------------------------------------------------------
(* The inductive invariant. *)

FireRecord == UNION {[S -> 1..MaxArrivals] : S \in SUBSET Nat}

TaskRecord == [id : Int, kind : TaskKind, inputs : Seq(Colors), once : BOOLEAN,
               activated : BOOLEAN, blocked : BOOLEAN, operands : Seq(FireRecord)]

\* How many wavelets of a color have left its VC.
Gone(c) == arrived[c] - Len(vc[c])

\* A VC holds the wavelets that arrived last, in the order of their arrival.
Numbered ==
    \A c \in Colors :
        /\ Gone(c) >= 0
        /\ \A k \in DOMAIN vc[c] : vc[c][k] = Gone(c) + k

\* A color that no data task is bound to has lost no wavelet.
OnlyBoundConsumed ==
    \A c \in Colors :
        (\A i \in DOMAIN tasks : tasks[i].kind = "Data" => ~Binds(i, c)) => Gone(c) = 0

\* A task that owns its colors has taken one wavelet of each at every fire.
InStep ==
    \A i \in DOMAIN tasks :
        tasks[i].kind = "Data" /\ Exclusive(i) =>
            \A k \in DOMAIN tasks[i].inputs :
                Gone(tasks[i].inputs[k]) = Len(tasks[i].operands)

\* OperandsPaired, operand by operand.
Paired ==
    \A i \in DOMAIN tasks :
        tasks[i].kind = "Data" /\ Exclusive(i) =>
            \A n \in DOMAIN tasks[i].operands :
                /\ DOMAIN tasks[i].operands[n] = DOMAIN tasks[i].inputs
                /\ \A k \in DOMAIN tasks[i].inputs : tasks[i].operands[n][k] = n

\* Binding k of fire n of task i got wavelet w of color c.
IsOperand(i, n, k, c, w) ==
    /\ i \in DOMAIN tasks
    /\ n \in DOMAIN tasks[i].operands
    /\ k \in DOMAIN tasks[i].operands[n]
    /\ tasks[i].inputs[k] = c
    /\ tasks[i].operands[n][k] = w

\* Exactly the wavelets that left a VC are operands, each of one fire.
OperandsAreGone ==
    \A c \in Colors :
        /\ \A i, n, k, w : IsOperand(i, n, k, c, w) => w \in 1..Gone(c)
        /\ \A w \in 1..Gone(c) : \E i, n, k \in Nat : IsOperand(i, n, k, c, w)
        /\ \A w, i, n, k, i2, n2, k2 :
              IsOperand(i, n, k, c, w) /\ IsOperand(i2, n2, k2, c, w)
                  => i = i2 /\ n = n2 /\ k = k2

Typed == tasks \in Seq(TaskRecord) /\ TypeOK

IInv == Typed /\ Numbered /\ OnlyBoundConsumed /\ InStep /\ Paired /\ OperandsAreGone

-----------------------------------------------------------------------------
(* Minima and counting. *)

\* A nonempty set of natural numbers has a least element, which Min returns.
LEMMA MinIsLeast ==
    ASSUME NEW S \in SUBSET Nat, S # {}
    PROVE  Min(S) \in S /\ \A x \in S : Min(S) <= x
<1> DEFINE R == {ss \in Nat \X Nat : ss[1] < ss[2]}
<1>1. IsWellFoundedOn(R, Nat)
  BY NatLessThanWellFounded, Zenon DEF OpToRel
<1>2. PICK m \in S : \A y \in S : ~(<<y, m>> \in R)
  BY <1>1, WFMin
<1>3. ASSUME NEW y \in S PROVE m <= y
  <2>1. ~(<<y, m>> \in R)
    BY <1>2
  <2>2. y < m => <<y, m>> \in R
    OBVIOUS
  <2> QED BY <2>1, <2>2
<1> QED BY <1>3 DEF Min

\* The positions of a color among the bindings of a task, and their number.
Positions(t, c) == {i \in DOMAIN t.inputs : t.inputs[i] = c}

\* Nth numbers the bindings of a color from 1 to how many there are, each once.
LEMMA NthIsNumbering ==
    ASSUME NEW t, t.inputs \in Seq(Colors), NEW c
    PROVE  LET m == Cardinality(Positions(t, c))
           IN  /\ m \in Nat
               /\ \A k \in Positions(t, c) : Nth(t, k) \in 1..m
               /\ \A j, k \in Positions(t, c) : Nth(t, j) = Nth(t, k) => j = k
               /\ \A x \in 1..m : \E k \in Positions(t, c) : Nth(t, k) = x
<1> DEFINE S == Positions(t, c)
           Upto(k) == {j \in 1..k : t.inputs[j] = c}
           m == Cardinality(S)
           f == [k \in S |-> Nth(t, k)]
<1>1. Len(t.inputs) \in Nat /\ DOMAIN t.inputs = 1..Len(t.inputs)
  OBVIOUS
<1>2. IsFiniteSet(S) /\ m \in Nat
  <2>1. IsFiniteSet(DOMAIN t.inputs)
    BY <1>1, FS_Interval
  <2>2. S \in SUBSET DOMAIN t.inputs
    BY DEF Positions
  <2> QED BY <2>1, <2>2, FS_Subset, FS_CardinalityType
<1>3. ASSUME NEW k \in S
      PROVE  /\ Nth(t, k) = Cardinality(Upto(k))
             /\ k \in Upto(k) /\ Upto(k) \in SUBSET S
             /\ IsFiniteSet(Upto(k)) /\ Nth(t, k) \in 1..m
  <2>1. k \in 1..Len(t.inputs) /\ t.inputs[k] = c
    BY <1>1 DEF Positions
  <2>2. Nth(t, k) = Cardinality(Upto(k))
    BY <2>1 DEF Nth
  <2>3. k \in Upto(k) /\ Upto(k) \in SUBSET S
    BY <1>1, <2>1 DEF Positions
  <2>4. IsFiniteSet(Upto(k)) /\ Cardinality(Upto(k)) <= m
    BY <1>2, <2>3, FS_Subset
  <2>5. Cardinality(Upto(k)) \in Nat /\ Cardinality(Upto(k)) # 0
    BY <2>3, <2>4, FS_CardinalityType, FS_EmptySet
  <2> QED BY <1>2, <2>2, <2>3, <2>4, <2>5
<1>4. ASSUME NEW j \in S, NEW k \in S, j < k
      PROVE  Nth(t, j) # Nth(t, k)
  <2>1. j \in Nat /\ k \in Nat
    BY <1>1 DEF Positions
  <2>2. Upto(j) \in SUBSET Upto(k) /\ k \notin Upto(j)
    BY <1>4, <2>1
  <2>3. Upto(k) # Upto(j)
    BY <1>3, <2>2
  <2> HIDE DEF Upto
  <2>4. IsFiniteSet(Upto(k)) /\ Cardinality(Upto(k)) # Cardinality(Upto(j))
    BY <1>3, <2>2, <2>3, FS_Subset
  <2> QED BY <1>3, <2>4
<1>5. \A j, k \in S : Nth(t, j) = Nth(t, k) => j = k
  <2>1. \A j, k \in S : j \in Nat /\ k \in Nat
    BY <1>1 DEF Positions
  <2> QED BY <1>4, <2>1
<1>6. f \in Injection(S, 1..m)
  BY <1>3, <1>5 DEF Injection, IsInjective
<1>7. IsFiniteSet(1..m) /\ Cardinality(1..m) = m
  BY <1>2, FS_Interval
<1>8. f \in Surjection(S, 1..m)
  BY <1>2, <1>6, <1>7, FS_Injection
<1>9. \A x \in 1..m : \E k \in S : Nth(t, k) = x
  BY <1>8 DEF Surjection
<1> QED BY <1>2, <1>3, <1>5, <1>9

-----------------------------------------------------------------------------
(* Actions that leave the wavelets and the operands alone. *)

\* The fields of a registered task.
LEMMA TaskFields ==
    ASSUME tasks \in Seq(TaskRecord), NEW i \in DOMAIN tasks
    PROVE  /\ tasks[i] \in TaskRecord
           /\ tasks[i].inputs \in Seq(Colors)
           /\ \A k \in DOMAIN tasks[i].inputs : tasks[i].inputs[k] \in Colors
           /\ tasks[i].operands \in Seq(FireRecord)
<1>1. tasks[i] \in TaskRecord
  OBVIOUS
<1>2. tasks[i].inputs \in Seq(Colors) /\ tasks[i].operands \in Seq(FireRecord)
  BY <1>1 DEF TaskRecord
<1> QED BY <1>1, <1>2

\* No task is added, and none is changed but for its flags.
SameTasks ==
    /\ tasks' \in Seq(TaskRecord)
    /\ DOMAIN tasks' = DOMAIN tasks
    /\ \A i \in DOMAIN tasks :
          /\ SpecOf(tasks'[i]) = SpecOf(tasks[i])
          /\ tasks'[i].kind = tasks[i].kind
          /\ tasks'[i].inputs = tasks[i].inputs
          /\ tasks'[i].operands = tasks[i].operands

\* Flags take no part in the invariant.
LEMMA FlagsIInv ==
    ASSUME IInv, SameTasks, UNCHANGED <<vc, arrived>>, draining' \in BOOLEAN
    PROVE  IInv'
<1>1. \A i \in DOMAIN tasks : tasks'[i] \in TaskRecord
  BY DEF SameTasks
<1>2. TypeOK'
  BY <1>1 DEF IInv, Typed, TypeOK, SameTasks, TaskRecord
<1>3. \A c : Gone(c)' = Gone(c)
  BY DEF Gone
<1>4. \A i \in DOMAIN tasks, c \in Colors : Binds(i, c)' <=> Binds(i, c)
  BY DEF SameTasks, Binds
<1>5. \A i \in DOMAIN tasks : Exclusive(i)' <=> Exclusive(i)
  BY DEF SameTasks, Exclusive, Binds
<1>6. Numbered'
  BY <1>3 DEF IInv, Numbered
<1>7. OnlyBoundConsumed'
  BY <1>3, <1>4 DEF IInv, OnlyBoundConsumed, SameTasks
<1>8. InStep'
  BY <1>3, <1>5 DEF IInv, InStep, SameTasks
<1>9. Paired'
  BY <1>5 DEF IInv, Paired, SameTasks
<1>10. \A i, n, k, c, w : IsOperand(i, n, k, c, w)' <=> IsOperand(i, n, k, c, w)
  BY DEF IsOperand, SameTasks
<1>11. OperandsAreGone'
  BY <1>3, <1>10 DEF IInv, OperandsAreGone
<1> QED BY <1>2, <1>6, <1>7, <1>8, <1>9, <1>11 DEF IInv, Typed, SameTasks

\* GetTask finds a registered task.
LEMMA GetTaskFinds ==
    ASSUME tasks \in Seq(TaskRecord), NEW id \in Ids
    PROVE  GetTask(id) \in DOMAIN tasks
<1> DEFINE S == {i \in DOMAIN tasks : tasks[i].id = id}
<1>1. S \in SUBSET Nat /\ S # {}
  BY DEF Ids
<1>2. Min(S) \in S
  BY <1>1, MinIsLeast
<1> QED BY <1>2 DEF GetTask

\* The client's operations on flags preserve the invariant.
LEMMA SignalIInv ==
    ASSUME IInv, NEW id \in Ids, Activate(id) \/ Block(id) \/ Unblock(id)
    PROVE  IInv'
<1> DEFINE g == GetTask(id)
<1>1. tasks \in Seq(TaskRecord) /\ draining \in BOOLEAN
  BY DEF IInv, Typed, TypeOK
<1>2. g \in DOMAIN tasks
  BY <1>1, GetTaskFinds
<1> HIDE DEF g
<1>3. \E b \in BOOLEAN : tasks' = [tasks EXCEPT ![g].activated = b]
                     \/ tasks' = [tasks EXCEPT ![g].blocked = b]
  BY DEF Activate, Block, Unblock, g
<1>4. SameTasks
  <2>1. PICK b \in BOOLEAN : tasks' = [tasks EXCEPT ![g].activated = b]
                            \/ tasks' = [tasks EXCEPT ![g].blocked = b]
    BY <1>3
  <2>2. tasks[g] \in TaskRecord
    BY <1>1, <1>2
  <2>3. /\ [tasks[g] EXCEPT !.activated = b] \in TaskRecord
        /\ [tasks[g] EXCEPT !.blocked = b] \in TaskRecord
    BY <2>2 DEF TaskRecord
  <2>4. PICK r \in TaskRecord :
            /\ tasks' = [tasks EXCEPT ![g] = r]
            /\ r.id = tasks[g].id /\ r.kind = tasks[g].kind /\ r.once = tasks[g].once
            /\ r.inputs = tasks[g].inputs /\ r.operands = tasks[g].operands
    BY <2>1, <2>2, <2>3 DEF TaskRecord
  <2>5. tasks' \in Seq(TaskRecord) /\ DOMAIN tasks' = DOMAIN tasks
    BY <1>1, <1>2, <2>4, ExceptSeq
  <2>6. \A i \in DOMAIN tasks : tasks'[i] = IF i = g THEN r ELSE tasks[i]
    BY <1>1, <1>2, <2>4
  <2> QED BY <2>4, <2>5, <2>6 DEF SameTasks, SpecOf
<1>5. UNCHANGED <<vc, arrived, draining>>
  BY DEF Activate, Block, Unblock
<1> QED BY <1>1, <1>4, <1>5, FlagsIInv

\* The start and the end of a drain preserve the invariant.
LEMMA DrainIInv ==
    ASSUME IInv, BeginDrain \/ EndDrain
    PROVE  IInv'
<1>1. SameTasks
  BY DEF IInv, Typed, SameTasks, BeginDrain, EndDrain
<1> QED BY <1>1, FlagsIInv DEF BeginDrain, EndDrain

-----------------------------------------------------------------------------
(* Registration and arrival. *)

\* A new scheduler satisfies the invariant.
LEMMA InitIInv == Init => IInv
<1> SUFFICES ASSUME Init PROVE IInv
  OBVIOUS
<1>1. tasks = <<>> /\ DOMAIN tasks = {} /\ tasks \in Seq(TaskRecord)
  BY DEF Init
<1>2. \A c \in Colors : vc[c] = <<>> /\ Len(vc[c]) = 0 /\ Gone(c) = 0
  BY DEF Init, Gone
<1>3. TypeOK
  <2>1. \A c \in Colors : <<>> \in Seq(1..MaxArrivals) /\ Len(vc[c]) <= kVcDepth
    BY <1>2, SchedulerAssumption
  <2>2. /\ vc \in [Colors -> Seq(1..MaxArrivals)] /\ draining \in BOOLEAN
        /\ arrived \in [Colors -> 0..MaxArrivals]
    <3>1. vc = [c \in Colors |-> <<>>] /\ draining = FALSE /\ arrived = [c \in Colors |-> 0]
      BY DEF Init
    <3>2. vc \in [Colors -> Seq(1..MaxArrivals)]
      BY <2>1, <3>1
    <3>3. 0 \in 0..MaxArrivals
      BY SchedulerAssumption
    <3>4. arrived \in [Colors -> 0..MaxArrivals]
      BY <3>1, <3>3
    <3> QED BY <3>1, <3>2, <3>4
  <2> QED BY <1>1, <2>1, <2>2 DEF TypeOK
<1>4. Numbered /\ OnlyBoundConsumed
  BY <1>2 DEF Numbered, OnlyBoundConsumed
<1>5. InStep /\ Paired
  BY <1>1 DEF InStep, Paired
<1>6. OperandsAreGone
  BY <1>1, <1>2 DEF OperandsAreGone, IsOperand
<1> QED BY <1>1, <1>3, <1>4, <1>5, <1>6 DEF IInv, Typed

\* AddTask preserves the invariant: a registered task stays and keeps its
\* inputs, so a task that owns its colors after the registration of another
\* owned them before, and the colors of a new task that owns them are untouched.
LEMMA AddTaskIInv ==
    ASSUME IInv, NEW s \in TaskSpecs, AddTask(s)
    PROVE  IInv'
<1>0. PICK N \in Nat : N = Len(tasks)
  BY DEF IInv, Typed
<1>1. /\ tasks \in Seq(TaskRecord) /\ N \in Nat /\ DOMAIN tasks = 1..N
      /\ UNCHANGED <<vc, draining, arrived>>
  BY <1>0 DEF IInv, Typed, AddTask
<1>2. NewTask(s) \in TaskRecord /\ SpecOf(NewTask(s)) = s
  BY SchedulerAssumption DEF NewTask, SpecOf, TaskRecord
<1>3. /\ tasks' = Append(tasks, NewTask(s)) /\ tasks' \in Seq(TaskRecord)
      /\ Len(tasks') = N + 1 /\ DOMAIN tasks' = 1..(N + 1)
      /\ tasks'[N + 1] = NewTask(s) /\ \A i \in 1..N : tasks'[i] = tasks[i]
  BY <1>0, <1>1, <1>2 DEF AddTask
<1>4. /\ NewTask(s).operands = <<>> /\ DOMAIN NewTask(s).operands = {}
      /\ NewTask(s).inputs \in Seq(Colors)
      /\ NewTask(s).kind # "Data" => NewTask(s).inputs = <<>>
  BY SchedulerAssumption DEF NewTask
<1>5. \A c : Gone(c)' = Gone(c)
  BY <1>1 DEF Gone
<1>6. TypeOK'
  <2>1. /\ NewTask(s).activated \in BOOLEAN /\ NewTask(s).blocked \in BOOLEAN
        /\ \A S : NewTask(s).operands \in Seq(S)
    BY DEF NewTask
  <2>2. ASSUME NEW i \in 1..(N + 1)
        PROVE  /\ SpecOf(tasks'[i]) \in TaskSpecs
               /\ tasks'[i].activated \in BOOLEAN
               /\ tasks'[i].blocked \in BOOLEAN
               /\ tasks'[i].operands \in
                    Seq(UNION {[S -> 1..MaxArrivals] : S \in SUBSET DOMAIN tasks'[i].inputs})
    <3>1. CASE i = N + 1
      BY <1>2, <1>3, <2>1, <3>1
    <3>2. CASE i \in 1..N
      BY <1>1, <1>3, <3>2 DEF IInv, Typed, TypeOK
    <3> QED BY <1>1, <3>1, <3>2
  <2> QED BY <1>1, <1>3, <2>2 DEF IInv, Typed, TypeOK
<1>7. Numbered'
  BY <1>1, <1>5 DEF IInv, Numbered
<1>8. \A i \in 1..N, c \in Colors : Binds(i, c)' <=> Binds(i, c)
  BY <1>3 DEF Binds
<1>9. OnlyBoundConsumed'
  BY <1>1, <1>3, <1>5, <1>8 DEF IInv, OnlyBoundConsumed
<1>10. \A i \in 1..N : \A k \in DOMAIN tasks[i].inputs : tasks[i].inputs[k] \in Colors
  BY <1>1, TaskFields
<1>11. \A i \in 1..N : Exclusive(i)' => Exclusive(i)
  BY <1>1, <1>3, <1>8, <1>10 DEF Exclusive
<1>12. ASSUME Exclusive(N + 1)', NEW k \in DOMAIN NewTask(s).inputs
       PROVE  Gone(NewTask(s).inputs[k]) = 0
  <2>1. NewTask(s).inputs[k] \in Colors
    BY <1>4
  <2>2. ASSUME NEW j \in 1..N PROVE ~Binds(j, NewTask(s).inputs[k])'
    <3>1. j \in DOMAIN tasks' \ {N + 1}
      BY <1>1, <1>3
    <3> QED BY <1>3, <1>12, <3>1 DEF Exclusive
  <2> QED BY <1>1, <1>8, <2>1, <2>2 DEF IInv, OnlyBoundConsumed
<1>13. InStep'
  <2> SUFFICES ASSUME NEW i \in 1..(N + 1), tasks'[i].kind = "Data", Exclusive(i)',
                      NEW k \in DOMAIN tasks'[i].inputs
               PROVE  Gone(tasks'[i].inputs[k]) = Len(tasks'[i].operands)
    BY <1>3, <1>5 DEF InStep
  <2>1. CASE i = N + 1
    <3>1. Len(tasks'[i].operands) = 0
      BY <1>3, <1>4, <2>1
    <3> QED BY <1>3, <1>12, <2>1, <3>1
  <2>2. CASE i \in 1..N
    BY <1>1, <1>3, <1>11, <2>2 DEF IInv, InStep
  <2> QED BY <1>1, <2>1, <2>2
<1>14. Paired'
  BY <1>1, <1>3, <1>4, <1>11 DEF IInv, Paired
<1>15. \A i, n, k, c, w : IsOperand(i, n, k, c, w)' <=> IsOperand(i, n, k, c, w)
  BY <1>1, <1>3, <1>4 DEF IsOperand
<1>16. OperandsAreGone'
  BY <1>5, <1>15 DEF IInv, OperandsAreGone
<1> QED BY <1>3, <1>6, <1>7, <1>9, <1>13, <1>14, <1>16 DEF IInv, Typed

\* Router::Rx preserves the invariant: the wavelet joins the end of its VC.
LEMMA RxIInv ==
    ASSUME IInv, NEW c \in Colors, Rx(c)
    PROVE  IInv'
<1>1. /\ vc \in [Colors -> Seq(1..MaxArrivals)] /\ arrived \in [Colors -> 0..MaxArrivals]
      /\ MaxArrivals \in Nat /\ kVcDepth \in Nat
      /\ UNCHANGED <<tasks, draining>>
  BY SchedulerAssumption DEF IInv, Typed, TypeOK, Rx
<1>2. /\ arrived[c] + 1 \in 1..MaxArrivals
      /\ arrived' = [arrived EXCEPT ![c] = arrived[c] + 1]
      /\ vc' = [vc EXCEPT ![c] = Append(vc[c], arrived[c] + 1)]
      /\ Len(vc[c]) < kVcDepth
  BY <1>1 DEF Rx
<1>3. /\ vc'[c] \in Seq(1..MaxArrivals) /\ Len(vc'[c]) = Len(vc[c]) + 1
      /\ vc'[c][Len(vc[c]) + 1] = arrived[c] + 1
      /\ \A k \in 1..Len(vc[c]) : vc'[c][k] = vc[c][k]
      /\ arrived'[c] = arrived[c] + 1
      /\ \A d \in Colors \ {c} : vc'[d] = vc[d] /\ arrived'[d] = arrived[d]
  BY <1>1, <1>2
<1>4. TypeOK'
  <2>1. vc' \in [Colors -> Seq(1..MaxArrivals)] /\ arrived' \in [Colors -> 0..MaxArrivals]
    BY <1>1, <1>2, <1>3
  <2>2. \A d \in Colors : Len(vc'[d]) <= kVcDepth
    BY <1>1, <1>2, <1>3 DEF IInv, Typed, TypeOK
  <2> QED BY <1>1, <2>1, <2>2 DEF IInv, Typed, TypeOK
<1>5. ASSUME NEW d \in Colors PROVE Gone(d)' = Gone(d) /\ Gone(d) \in Int
  <2>1. arrived[d] \in Nat /\ Len(vc[d]) \in Nat
    BY <1>1
  <2>2. arrived'[d] - Len(vc'[d]) = arrived[d] - Len(vc[d])
    <3>1. CASE d = c
      BY <1>3, <2>1, <3>1
    <3>2. CASE d # c
      BY <1>3, <3>2
    <3> QED BY <3>1, <3>2
  <2> QED BY <2>1, <2>2 DEF Gone
<1>6. Numbered'
  <2> SUFFICES ASSUME NEW d \in Colors
               PROVE  /\ Gone(d) >= 0
                      /\ \A k \in DOMAIN vc'[d] : vc'[d][k] = Gone(d) + k
    BY <1>5 DEF Numbered
  <2>1. /\ Gone(d) >= 0 /\ \A k \in 1..Len(vc[d]) : vc[d][k] = Gone(d) + k
        /\ DOMAIN vc[d] = 1..Len(vc[d]) /\ Len(vc[d]) \in Nat
    BY <1>1 DEF IInv, Numbered
  <2>2. CASE d # c
    BY <1>3, <2>1, <2>2
  <2>3. CASE d = c
    <3>1. DOMAIN vc'[c] = 1..(Len(vc[c]) + 1)
      BY <1>3
    <3>2. arrived[c] + 1 = Gone(c) + (Len(vc[c]) + 1)
      BY <1>1, <2>1, <2>3 DEF Gone
    <3>3. ASSUME NEW k \in 1..(Len(vc[c]) + 1) PROVE vc'[c][k] = Gone(c) + k
      <4>1. CASE k = Len(vc[c]) + 1
        BY <1>3, <3>2, <4>1
      <4>2. CASE k \in 1..Len(vc[c])
        BY <1>3, <2>1, <2>3, <4>2
      <4> QED BY <2>1, <2>3, <4>1, <4>2
    <3> QED BY <2>1, <2>3, <3>1, <3>3
  <2> QED BY <2>2, <2>3
<1>7. OnlyBoundConsumed'
  BY <1>1, <1>5 DEF IInv, OnlyBoundConsumed, Binds
<1>8. \A i \in DOMAIN tasks : \A k \in DOMAIN tasks[i].inputs : tasks[i].inputs[k] \in Colors
  BY TaskFields DEF IInv, Typed
<1>9. \A i \in DOMAIN tasks : Exclusive(i)' <=> Exclusive(i)
  BY <1>1 DEF Exclusive, Binds
<1>10. InStep' /\ Paired'
  BY <1>1, <1>5, <1>8, <1>9 DEF IInv, InStep, Paired
<1>11. \A i, n, k, d, w : IsOperand(i, n, k, d, w)' <=> IsOperand(i, n, k, d, w)
  BY <1>1 DEF IsOperand
<1>12. OperandsAreGone'
  BY <1>5, <1>11 DEF IInv, OperandsAreGone
<1> QED BY <1>1, <1>4, <1>6, <1>7, <1>10, <1>12 DEF IInv, Typed

-----------------------------------------------------------------------------
(* Firing. *)

\* How many wavelets of a color a fire of task t takes: one for every binding,
\* as far as the VC goes.
Taken(t, c) ==
    LET m == Cardinality(Positions(t, c))
    IN  IF m <= Len(vc[c]) THEN m ELSE Len(vc[c])

\* An element of a sequence is of the sequence's element type.
LEMMA SeqElement ==
    ASSUME NEW S, NEW q \in Seq(S), NEW x \in DOMAIN q
    PROVE  q[x] \in S
OBVIOUS

\* A sequence without its first m elements.
LEMMA SuffixOf ==
    ASSUME NEW S, NEW q \in Seq(S), NEW m \in 0..Len(q)
    PROVE  LET r == SubSeq(q, m + 1, Len(q))
           IN  /\ r \in Seq(S) /\ Len(r) = Len(q) - m
               /\ \A k \in 1..Len(r) : r[k] = q[m + k]
<1> DEFINE n == Len(q)
           r == SubSeq(q, m + 1, n)
<1>1. n \in Nat /\ m + 1 \in Int /\ \A i \in (m + 1)..n : q[i] \in S
  OBVIOUS
<1>2. /\ r \in Seq(S)
      /\ Len(r) = IF m + 1 <= n THEN n - (m + 1) + 1 ELSE 0
      /\ \A i \in 1..(n - (m + 1) + 1) : r[i] = q[(m + 1) + i - 1]
  BY <1>1, SubSeqProperties
<1> HIDE DEF n, r
<1>3. Len(r) = n - m
  BY <1>1, <1>2 DEF n
<1>4. ASSUME NEW k \in 1..Len(r) PROVE r[k] = q[m + k]
  <2>1. k \in 1..(n - (m + 1) + 1) /\ (m + 1) + k - 1 = m + k
    BY <1>1, <1>3
  <2> QED BY <1>2, <2>1
<1> QED BY <1>2, <1>3, <1>4 DEF n, r

\* What a fire does to the VCs: the first Taken(t, c) wavelets leave.
LEMMA PoppedIs ==
    ASSUME IInv, NEW t, t.inputs \in Seq(Colors), NEW c \in Colors
    PROVE  /\ Taken(t, c) \in 0..Len(vc[c])
           /\ Popped(t)[c] \in Seq(1..MaxArrivals)
           /\ Len(Popped(t)[c]) = Len(vc[c]) - Taken(t, c)
           /\ \A k \in 1..Len(Popped(t)[c]) : Popped(t)[c][k] = vc[c][Taken(t, c) + k]
<1> DEFINE m == Cardinality(Positions(t, c))
           n == Len(vc[c])
<1>1. m \in Nat
  BY NthIsNumbering
<1>2. vc[c] \in Seq(1..MaxArrivals) /\ n \in Nat
  BY DEF IInv, Typed, TypeOK
<1>3. Popped(t)[c] = SubSeq(vc[c], m + 1, n)
  BY DEF Popped, Positions
<1>4. Taken(t, c) = IF m <= n THEN m ELSE n
  BY DEF Taken
<1> HIDE DEF m, n
<1>5. CASE m <= n
  <2>1. m \in 0..Len(vc[c]) /\ Popped(t)[c] = SubSeq(vc[c], m + 1, Len(vc[c]))
    BY <1>1, <1>2, <1>3, <1>5 DEF n
  <2>2. LET r == SubSeq(vc[c], m + 1, Len(vc[c]))
        IN  /\ r \in Seq(1..MaxArrivals) /\ Len(r) = Len(vc[c]) - m
            /\ \A k \in 1..Len(r) : r[k] = vc[c][m + k]
    BY <1>2, <2>1, SuffixOf
  <2>3. Taken(t, c) = m
    BY <1>4, <1>5
  <2> QED BY <2>1, <2>2, <2>3
<1>6. CASE m > n
  <2>1. Popped(t)[c] = <<>>
    BY <1>1, <1>2, <1>3, <1>6, SubSeqEmpty DEF n
  <2> QED BY <1>1, <1>2, <1>4, <1>6, <2>1 DEF n
<1> QED BY <1>1, <1>2, <1>5, <1>6

\* What a fire hands to the task: to the bindings of a color, in their order,
\* the wavelets that leave its VC, in theirs.
LEMMA OperandsAre ==
    ASSUME IInv, NEW t, t.inputs \in Seq(Colors)
    PROVE  /\ DOMAIN Operands(t) \subseteq DOMAIN t.inputs
           /\ Operands(t) \in [DOMAIN Operands(t) -> 1..MaxArrivals]
           /\ \A k \in DOMAIN t.inputs :
                 k \in DOMAIN Operands(t) <=> Nth(t, k) \in 1..Taken(t, t.inputs[k])
           /\ \A k \in DOMAIN Operands(t) : Operands(t)[k] = Gone(t.inputs[k]) + Nth(t, k)
<1>1. /\ DOMAIN Operands(t) = {j \in DOMAIN t.inputs : Nth(t, j) <= Len(vc[t.inputs[j]])}
      /\ Operands(t) = [i \in DOMAIN Operands(t) |-> vc[t.inputs[i]][Nth(t, i)]]
  BY DEF Operands
<1>2. ASSUME NEW k \in DOMAIN t.inputs
      PROVE  /\ t.inputs[k] \in Colors
             /\ k \in Positions(t, t.inputs[k])
             /\ Nth(t, k) \in 1..Cardinality(Positions(t, t.inputs[k]))
             /\ Cardinality(Positions(t, t.inputs[k])) \in Nat
             /\ vc[t.inputs[k]] \in Seq(1..MaxArrivals)
  <2>1. t.inputs[k] \in Colors /\ k \in Positions(t, t.inputs[k])
    BY DEF Positions
  <2> QED BY <2>1, NthIsNumbering DEF IInv, Typed, TypeOK
<1>3. ASSUME NEW k \in DOMAIN t.inputs
      PROVE  k \in DOMAIN Operands(t) <=> Nth(t, k) \in 1..Taken(t, t.inputs[k])
  BY <1>1, <1>2 DEF Taken
<1>4. ASSUME NEW k \in DOMAIN Operands(t)
      PROVE  /\ Operands(t)[k] = Gone(t.inputs[k]) + Nth(t, k)
             /\ Operands(t)[k] \in 1..MaxArrivals
  <2>1. k \in DOMAIN t.inputs /\ Nth(t, k) \in DOMAIN vc[t.inputs[k]]
    BY <1>1, <1>2
  <2>2. vc[t.inputs[k]][Nth(t, k)] = Gone(t.inputs[k]) + Nth(t, k)
    BY <1>2, <2>1 DEF IInv, Numbered
  <2>3. vc[t.inputs[k]][Nth(t, k)] \in 1..MaxArrivals
    <3>1. vc[t.inputs[k]] \in Seq(1..MaxArrivals)
      BY <1>2, <2>1
    <3> QED BY <2>1, <3>1, SeqElement
  <2> QED BY <1>1, <2>2, <2>3
<1> QED BY <1>1, <1>3, <1>4

\* Colors that a task does not bind keep their wavelets; of one that it binds
\* once, and that has a wavelet, one is taken.
LEMMA TakenCases ==
    ASSUME NEW t, t.inputs \in Seq(Colors), NEW c, vc[c] \in Seq(1..MaxArrivals)
    PROVE  /\ (\A k \in DOMAIN t.inputs : t.inputs[k] # c) => Taken(t, c) = 0
           /\ \A k \in DOMAIN t.inputs :
                 /\ t.inputs[k] = c /\ vc[c] # <<>>
                 /\ \A j \in DOMAIN t.inputs : t.inputs[j] = c => j = k
                 => Taken(t, c) = 1 /\ Nth(t, k) = 1
<1>1. Len(vc[c]) \in Nat /\ (vc[c] # <<>> => Len(vc[c]) > 0)
  OBVIOUS
<1>2. ASSUME \A k \in DOMAIN t.inputs : t.inputs[k] # c PROVE Taken(t, c) = 0
  <2>1. Positions(t, c) = {}
    BY <1>2 DEF Positions
  <2> QED BY <1>1, <2>1, FS_EmptySet DEF Taken
<1>3. ASSUME NEW k \in DOMAIN t.inputs, t.inputs[k] = c, vc[c] # <<>>,
             \A j \in DOMAIN t.inputs : t.inputs[j] = c => j = k
      PROVE  Taken(t, c) = 1 /\ Nth(t, k) = 1
  <2>1. Positions(t, c) = {k}
    BY <1>3 DEF Positions
  <2>2. Cardinality(Positions(t, c)) = 1
    BY <2>1, FS_Singleton
  <2>3. Nth(t, k) \in 1..Cardinality(Positions(t, c))
    BY <2>1, NthIsNumbering
  <2> QED BY <1>1, <1>3, <2>2, <2>3 DEF Taken
<1> QED BY <1>2, <1>3

\* What a fire of a data task does to the state.
LEMMA FireDoes ==
    ASSUME IInv, NEW i \in DOMAIN tasks, NEW t, t = tasks[i], t.kind = "Data",
           Fire(i), arrived' = arrived
    PROVE  /\ tasks' \in Seq(TaskRecord) /\ DOMAIN tasks' = DOMAIN tasks
           /\ \A j \in DOMAIN tasks :
                 /\ SpecOf(tasks'[j]) = SpecOf(tasks[j])
                 /\ tasks'[j].kind = tasks[j].kind
                 /\ tasks'[j].inputs = tasks[j].inputs
                 /\ j # i => tasks'[j].operands = tasks[j].operands
           /\ tasks'[i].operands = Append(t.operands, Operands(t))
           /\ vc' \in [Colors -> Seq(1..MaxArrivals)]
           /\ \A c \in Colors :
                 /\ vc'[c] = Popped(t)[c]
                 /\ Len(vc'[c]) = Len(vc[c]) - Taken(t, c)
                 /\ Gone(c)' = Gone(c) + Taken(t, c)
<1>1. /\ tasks \in Seq(TaskRecord) /\ tasks[i] \in TaskRecord
      /\ t.inputs \in Seq(Colors) /\ t.operands \in Seq(FireRecord)
      /\ vc \in [Colors -> Seq(1..MaxArrivals)] /\ arrived \in [Colors -> 0..MaxArrivals]
  BY TaskFields DEF IInv, Typed, TypeOK
<1>2. PICK O : O = Operands(t)
  OBVIOUS
<1>3. O \in FireRecord
  <2>1. DOMAIN O \subseteq Nat /\ O \in [DOMAIN O -> 1..MaxArrivals]
    BY <1>1, <1>2, OperandsAre
  <2> QED BY <2>1 DEF FireRecord
<1>4. PICK r \in TaskRecord :
          /\ tasks' = [tasks EXCEPT ![i] = r]
          /\ r.id = t.id /\ r.kind = t.kind /\ r.once = t.once /\ r.inputs = t.inputs
          /\ r.operands = Append(t.operands, O)
  <2>1. tasks' = [tasks EXCEPT ![i].operands = Append(@, O), ![i].blocked = @ \/ t.once]
    BY <1>2 DEF Fire
  <2>2. tasks' = [tasks EXCEPT ![i] = [[t EXCEPT !.operands = Append(t.operands, O)]
                                          EXCEPT !.blocked = t.blocked \/ t.once]]
    BY <1>1, <2>1 DEF TaskRecord
  <2>3. Append(t.operands, O) \in Seq(FireRecord)
    BY <1>1, <1>3
  <2>4. (t.blocked \/ t.once) \in BOOLEAN
    BY <1>1 DEF TaskRecord
  <2>5. [[t EXCEPT !.operands = Append(t.operands, O)]
            EXCEPT !.blocked = t.blocked \/ t.once] \in TaskRecord
    BY <1>1, <2>3, <2>4 DEF TaskRecord
  <2> QED BY <1>1, <2>2, <2>5 DEF TaskRecord
<1>5. tasks' \in Seq(TaskRecord) /\ DOMAIN tasks' = DOMAIN tasks
  BY <1>1, <1>4, ExceptSeq
<1>6. \A j \in DOMAIN tasks : tasks'[j] = IF j = i THEN r ELSE tasks[j]
  BY <1>1, <1>4
<1>7. vc' = Popped(t)
  BY DEF Fire
<1>8. ASSUME NEW c \in Colors
      PROVE  /\ vc'[c] = Popped(t)[c] /\ Len(vc'[c]) = Len(vc[c]) - Taken(t, c)
             /\ vc'[c] \in Seq(1..MaxArrivals)
             /\ Gone(c)' = Gone(c) + Taken(t, c)
  <2>1. /\ vc'[c] = Popped(t)[c] /\ Len(vc'[c]) = Len(vc[c]) - Taken(t, c)
        /\ vc'[c] \in Seq(1..MaxArrivals) /\ Taken(t, c) \in 0..Len(vc[c])
    BY <1>1, <1>7, PoppedIs
  <2>2. arrived[c] \in Nat /\ Len(vc[c]) \in Nat /\ Len(vc'[c]) \in Nat
    BY <1>1, <2>1
  <2>3. arrived[c] - Len(vc'[c]) = (arrived[c] - Len(vc[c])) + Taken(t, c)
    BY <2>1, <2>2
  <2> QED BY <2>1, <2>3 DEF Gone
<1>9. vc' \in [Colors -> Seq(1..MaxArrivals)]
  <2>1. vc' = [c \in Colors |-> vc'[c]]
    BY <1>7 DEF Popped
  <2> QED BY <1>8, <2>1
<1> QED BY <1>2, <1>4, <1>5, <1>6, <1>8, <1>9 DEF SpecOf

\* Which operands there are after a fire: those of before, and the new record.
LEMMA FireOperands ==
    ASSUME IInv, NEW i \in DOMAIN tasks, NEW t, t = tasks[i], t.kind = "Data",
           Fire(i), arrived' = arrived
    PROVE  \A j, n, k, c, w :
             IsOperand(j, n, k, c, w)' <=>
                 \/ IsOperand(j, n, k, c, w)
                 \/ /\ j = i /\ n = Len(t.operands) + 1
                    /\ k \in DOMAIN Operands(t)
                    /\ t.inputs[k] = c /\ Operands(t)[k] = w
<1>1. t.operands \in Seq(FireRecord)
  BY TaskFields DEF IInv, Typed
<1>2. PICK O : O = Operands(t)
  OBVIOUS
<1>3. /\ DOMAIN tasks' = DOMAIN tasks
      /\ \A j \in DOMAIN tasks : /\ tasks'[j].inputs = tasks[j].inputs
                                 /\ j # i => tasks'[j].operands = tasks[j].operands
      /\ tasks'[i].operands = Append(t.operands, O)
  BY <1>2, FireDoes
<1>4. PICK L \in Nat : L = Len(t.operands)
  BY <1>1
<1>5. /\ DOMAIN t.operands = 1..L /\ DOMAIN tasks'[i].operands = 1..(L + 1)
      /\ tasks'[i].operands[L + 1] = O
      /\ \A n \in 1..L : tasks'[i].operands[n] = t.operands[n]
  BY <1>1, <1>3, <1>4
<1>6. ASSUME NEW j, NEW n, NEW k, NEW c, NEW w
      PROVE  IsOperand(j, n, k, c, w)' <=>
                 \/ IsOperand(j, n, k, c, w)
                 \/ /\ j = i /\ n = L + 1 /\ k \in DOMAIN O
                    /\ t.inputs[k] = c /\ O[k] = w
  <2>1. CASE j # i
    BY <1>3, <2>1 DEF IsOperand
  <2>2. CASE j = i /\ n \in 1..L
    BY <1>3, <1>4, <1>5, <2>2 DEF IsOperand
  <2>3. CASE j = i /\ n = L + 1
    BY <1>3, <1>4, <1>5, <2>3 DEF IsOperand
  <2>4. CASE j = i /\ n \notin 1..(L + 1)
    BY <1>3, <1>4, <1>5, <2>4 DEF IsOperand
  <2> QED BY <1>4, <2>1, <2>2, <2>3, <2>4
<1> QED BY <1>2, <1>4, <1>6

\* The types and the numbering after a fire of a data task.
LEMMA FireTyped ==
    ASSUME IInv, NEW i \in DOMAIN tasks, NEW t, t = tasks[i], t.kind = "Data",
           Fire(i), UNCHANGED <<draining, arrived>>
    PROVE  Typed' /\ Numbered'
<1>1. /\ tasks \in Seq(TaskRecord) /\ t.inputs \in Seq(Colors) /\ t.operands \in Seq(FireRecord)
      /\ vc \in [Colors -> Seq(1..MaxArrivals)] /\ arrived \in [Colors -> 0..MaxArrivals]
  BY TaskFields DEF IInv, Typed, TypeOK
<1>2. \A j \in DOMAIN tasks' : tasks'[j] \in TaskRecord
  BY FireDoes
<1>3. ASSUME NEW j \in DOMAIN tasks'
      PROVE  tasks'[j].operands \in
               Seq(UNION {[S -> 1..MaxArrivals] : S \in SUBSET DOMAIN tasks'[j].inputs})
  <2>1. j \in DOMAIN tasks /\ tasks'[j].inputs = tasks[j].inputs
    BY FireDoes
  <2>2. PICK E : E = UNION {[S -> 1..MaxArrivals] : S \in SUBSET DOMAIN tasks[j].inputs}
    OBVIOUS
  <2>3. tasks[j].operands \in Seq(E)
    BY <2>1, <2>2 DEF IInv, Typed, TypeOK
  <2>4. CASE j # i
    BY <2>1, <2>2, <2>3, <2>4, FireDoes
  <2>5. CASE j = i
    <3>1. Operands(t) \in E
      BY <1>1, <2>2, <2>5, OperandsAre
    <3>2. tasks'[j].operands = Append(tasks[j].operands, Operands(t))
      BY <2>5, FireDoes
    <3>3. tasks'[j].operands \in Seq(E)
      BY <2>3, <3>1, <3>2
    <3> QED BY <2>1, <2>2, <3>3
  <2> QED BY <2>4, <2>5
<1>4. ASSUME NEW j \in DOMAIN tasks'
      PROVE  SpecOf(tasks'[j]) \in TaskSpecs
  <2>1. j \in DOMAIN tasks /\ SpecOf(tasks'[j]) = SpecOf(tasks[j])
    BY FireDoes
  <2> QED BY <2>1 DEF IInv, Typed, TypeOK
<1>5. ASSUME NEW c \in Colors
      PROVE  Len(vc'[c]) <= kVcDepth
  <2>1. Len(vc'[c]) = Len(vc[c]) - Taken(t, c) /\ Taken(t, c) \in 0..Len(vc[c])
    BY <1>1, FireDoes, PoppedIs
  <2>2. Len(vc[c]) <= kVcDepth /\ Len(vc[c]) \in Nat /\ kVcDepth \in Nat
    BY <1>1, SchedulerAssumption DEF IInv, Typed, TypeOK
  <2> QED BY <2>1, <2>2
<1>6. ASSUME NEW j \in DOMAIN tasks'
      PROVE  tasks'[j].activated \in BOOLEAN /\ tasks'[j].blocked \in BOOLEAN
  BY <1>2 DEF TaskRecord
<1>7. draining' \in BOOLEAN /\ arrived' \in [Colors -> 0..MaxArrivals]
  <2>1. draining' \in BOOLEAN
    BY DEF IInv, Typed, TypeOK
  <2> QED BY <1>1, <2>1
<1>8. vc' \in [Colors -> Seq(1..MaxArrivals)] /\ tasks' \in Seq(TaskRecord)
  BY FireDoes
<1>9. TypeOK'
  BY <1>3, <1>4, <1>5, <1>6, <1>7, <1>8 DEF TypeOK
<1>10. ASSUME NEW c \in Colors
       PROVE  Gone(c)' >= 0 /\ \A k \in DOMAIN vc'[c] : vc'[c][k] = Gone(c)' + k
  <2>1. /\ Len(vc'[c]) = Len(vc[c]) - Taken(t, c) /\ Taken(t, c) \in 0..Len(vc[c])
        /\ \A k \in 1..Len(vc'[c]) : vc'[c][k] = vc[c][Taken(t, c) + k]
        /\ Gone(c)' = Gone(c) + Taken(t, c)
    <3>1. vc'[c] = Popped(t)[c] /\ Gone(c)' = Gone(c) + Taken(t, c)
      BY FireDoes
    <3>2. /\ Len(Popped(t)[c]) = Len(vc[c]) - Taken(t, c) /\ Taken(t, c) \in 0..Len(vc[c])
          /\ \A k \in 1..Len(Popped(t)[c]) : Popped(t)[c][k] = vc[c][Taken(t, c) + k]
      BY <1>1, PoppedIs
    <3> QED BY <3>1, <3>2
  <2>2. /\ Len(vc[c]) \in Nat /\ Gone(c) >= 0 /\ Gone(c) \in Int
        /\ \A k \in 1..Len(vc[c]) : vc[c][k] = Gone(c) + k
    BY <1>1 DEF IInv, Numbered, Gone
  <2>3. DOMAIN vc'[c] = 1..Len(vc'[c])
    BY <1>8
  <2>4. ASSUME NEW k \in 1..Len(vc'[c]) PROVE vc'[c][k] = Gone(c)' + k
    <3>1. k \in Nat /\ Taken(t, c) \in Nat /\ Taken(t, c) + k \in 1..Len(vc[c])
      BY <2>1, <2>2
    <3>2. vc[c][Taken(t, c) + k] = Gone(c) + (Taken(t, c) + k)
      BY <2>2, <3>1
    <3> QED BY <2>1, <2>2, <3>1, <3>2
  <2> QED BY <2>1, <2>2, <2>3, <2>4
<1>11. Numbered'
  BY <1>10 DEF Numbered
<1> QED BY <1>8, <1>9, <1>11 DEF Typed

\* The rendezvous after a fire of a data task.
LEMMA FirePaired ==
    ASSUME IInv, NEW i \in DOMAIN tasks, NEW t, t = tasks[i], t.kind = "Data",
           IsRunnable(t), Fire(i), UNCHANGED <<draining, arrived>>
    PROVE  OnlyBoundConsumed' /\ InStep' /\ Paired'
<1>1. /\ t.inputs \in Seq(Colors) /\ t.operands \in Seq(FireRecord)
      /\ \A j \in DOMAIN tasks : tasks[j].inputs \in Seq(Colors)
      /\ vc \in [Colors -> Seq(1..MaxArrivals)] /\ arrived \in [Colors -> 0..MaxArrivals]
  BY TaskFields DEF IInv, Typed, TypeOK
<1>2. /\ DOMAIN tasks' = DOMAIN tasks
      /\ \A j \in DOMAIN tasks : /\ tasks'[j].kind = tasks[j].kind
                                 /\ tasks'[j].inputs = tasks[j].inputs
                                 /\ j # i => tasks'[j].operands = tasks[j].operands
      /\ tasks'[i].operands = Append(t.operands, Operands(t))
      /\ \A c \in Colors : Gone(c)' = Gone(c) + Taken(t, c)
  BY FireDoes
<1>3. \A c \in Colors : Gone(c) \in Int /\ vc[c] \in Seq(1..MaxArrivals)
  BY <1>1 DEF Gone
<1>4. OnlyBoundConsumed'
  <2>1. ASSUME NEW c \in Colors, \A j \in DOMAIN tasks : tasks[j].kind = "Data" => ~Binds(j, c)
        PROVE  Gone(c)' = 0
    <3>1. \A k \in DOMAIN t.inputs : t.inputs[k] # c
      BY <2>1 DEF Binds
    <3>2. Taken(t, c) = 0
      BY <1>1, <1>3, <3>1, TakenCases
    <3>3. Gone(c) = 0
      BY <2>1 DEF IInv, OnlyBoundConsumed
    <3> QED BY <1>2, <3>2, <3>3
  <2>2. \A j \in DOMAIN tasks, c \in Colors : Binds(j, c)' <=> Binds(j, c)
    BY <1>2 DEF Binds
  <2> QED BY <1>2, <2>1, <2>2 DEF OnlyBoundConsumed
<1>5. \A j \in DOMAIN tasks : Exclusive(j)' <=> Exclusive(j)
  BY <1>2 DEF Exclusive, Binds
\* A task that owns its colors and did not fire: none of its wavelets left.
<1>6. ASSUME NEW j \in DOMAIN tasks, j # i, Exclusive(j), NEW k \in DOMAIN tasks[j].inputs
      PROVE  Gone(tasks[j].inputs[k])' = Gone(tasks[j].inputs[k])
  <2>1. PICK c \in Colors : c = tasks[j].inputs[k]
    BY <1>1
  <2>2. \A x \in DOMAIN t.inputs : t.inputs[x] # c
    BY <1>6, <2>1 DEF Exclusive, Binds
  <2>3. Taken(t, c) = 0
    BY <1>1, <1>3, <2>2, TakenCases
  <2>4. Gone(c)' = Gone(c)
    BY <1>2, <1>3, <2>3
  <2> QED BY <1>2, <2>1, <2>4 DEF Gone
\* The task that fired: one wavelet of each of its colors left, and it got it.
<1>7. ASSUME Exclusive(i), NEW k \in DOMAIN t.inputs
      PROVE  /\ Gone(t.inputs[k])' = Len(t.operands) + 1
             /\ k \in DOMAIN Operands(t) /\ Operands(t)[k] = Len(t.operands) + 1
  <2>1. PICK c \in Colors : c = t.inputs[k]
    BY <1>1
  <2>2. \A x \in DOMAIN t.inputs : t.inputs[x] = c => x = k
    BY <1>7, <2>1 DEF Exclusive
  <2>3. vc[c] # <<>>
    BY <2>1 DEF IsRunnable
  <2>4. Taken(t, c) = 1 /\ Nth(t, k) = 1
    BY <1>1, <1>3, <2>1, <2>2, <2>3, TakenCases
  <2>5. Gone(c) = Len(t.operands)
    BY <1>7, <2>1 DEF IInv, InStep
  <2>6. Gone(c)' = Len(t.operands) + 1
    BY <1>2, <2>4, <2>5
  <2>7. k \in DOMAIN Operands(t)
    <3>1. k \in DOMAIN Operands(t) <=> Nth(t, k) \in 1..Taken(t, t.inputs[k])
      BY <1>1, OperandsAre
    <3> QED BY <2>1, <2>4, <3>1
  <2>8. Operands(t)[k] = Gone(c) + Nth(t, k)
    BY <1>1, <2>1, <2>7, OperandsAre
  <2> QED BY <2>1, <2>4, <2>5, <2>6, <2>7, <2>8
<1>8. PICK L \in Nat : L = Len(t.operands)
  BY <1>1
<1>9. PICK O : O = Operands(t)
  OBVIOUS
<1>10. /\ DOMAIN t.operands = 1..L /\ DOMAIN tasks'[i].operands = 1..(L + 1)
       /\ Len(tasks'[i].operands) = L + 1
       /\ tasks'[i].operands[L + 1] = O
       /\ \A n \in 1..L : tasks'[i].operands[n] = t.operands[n]
  BY <1>1, <1>2, <1>8, <1>9
<1>11. InStep'
  <2>1. ASSUME NEW j \in DOMAIN tasks, tasks[j].kind = "Data", Exclusive(j),
               NEW k \in DOMAIN tasks[j].inputs
        PROVE  Gone(tasks[j].inputs[k])' = Len(tasks'[j].operands)
    <3>1. CASE j = i
      <4>1. PICK c : c = t.inputs[k]
        OBVIOUS
      <4>2. tasks[j].inputs[k]' = c
        BY <1>2, <3>1, <4>1
      <4>3. Gone(c)' = L + 1
        BY <1>7, <1>8, <2>1, <3>1, <4>1, <4>2 DEF Gone
      <4> QED BY <1>10, <3>1, <4>2, <4>3 DEF Gone
    <3>2. CASE j # i
      BY <1>2, <1>6, <2>1, <3>2 DEF IInv, InStep
    <3> QED BY <3>1, <3>2
  <2>2. \A j \in DOMAIN tasks : \A k \in DOMAIN tasks[j].inputs :
           tasks'[j].inputs[k] = tasks[j].inputs[k]
    BY <1>2
  <2> QED BY <1>2, <1>5, <2>1, <2>2 DEF InStep
<1>12. Paired'
  <2>1. ASSUME NEW j \in DOMAIN tasks, tasks[j].kind = "Data", Exclusive(j),
               NEW n \in DOMAIN tasks'[j].operands
        PROVE  /\ DOMAIN tasks'[j].operands[n] = DOMAIN tasks[j].inputs
               /\ \A k \in DOMAIN tasks[j].inputs : tasks'[j].operands[n][k] = n
    <3>1. CASE j # i
      BY <1>2, <2>1, <3>1 DEF IInv, Paired
    <3>2. CASE j = i /\ n \in 1..L
      BY <1>10, <2>1, <3>2 DEF IInv, Paired
    <3>3. CASE j = i /\ n = L + 1
      <4>1. DOMAIN O \subseteq DOMAIN t.inputs
        BY <1>1, <1>9, OperandsAre
      <4>2. \A k \in DOMAIN t.inputs : k \in DOMAIN O /\ O[k] = L + 1
        BY <1>7, <1>8, <1>9, <2>1, <3>3
      <4> QED BY <1>10, <3>3, <4>1, <4>2
    <3> QED BY <1>10, <3>1, <3>2, <3>3
  <2> QED BY <1>2, <1>5, <2>1 DEF Paired
<1> QED BY <1>4, <1>11, <1>12

\* Each wavelet that left a VC is the operand of one fire, after a fire too.
LEMMA FireConsumes ==
    ASSUME IInv, NEW i \in DOMAIN tasks, NEW t, t = tasks[i], t.kind = "Data",
           Fire(i), UNCHANGED <<draining, arrived>>
    PROVE  OperandsAreGone'
<1> DEFINE New(j, n, k, c, w) == /\ j = i /\ n = Len(t.operands) + 1
                                 /\ k \in DOMAIN Operands(t)
                                 /\ t.inputs[k] = c /\ Operands(t)[k] = w
<1>1. /\ t.inputs \in Seq(Colors) /\ t.operands \in Seq(FireRecord)
      /\ vc \in [Colors -> Seq(1..MaxArrivals)] /\ arrived \in [Colors -> 0..MaxArrivals]
      /\ tasks \in Seq(TaskRecord)
  BY TaskFields DEF IInv, Typed, TypeOK
<1>2. \A j, n, k, c, w :
         IsOperand(j, n, k, c, w)' <=> IsOperand(j, n, k, c, w) \/ New(j, n, k, c, w)
  BY FireOperands
<1>3. ASSUME NEW c \in Colors
      PROVE  /\ Gone(c) \in Nat /\ Taken(t, c) \in Nat
             /\ Gone(c)' = Gone(c) + Taken(t, c)
  <2>1. Taken(t, c) \in 0..Len(vc[c]) /\ Len(vc[c]) \in Nat
    BY <1>1, PoppedIs
  <2>2. Gone(c) >= 0 /\ Gone(c) \in Int
    BY <1>1, <2>1 DEF IInv, Numbered, Gone
  <2> QED BY <2>1, <2>2, FireDoes
<1>4. \A c \in Colors : \A j, n, k, w : IsOperand(j, n, k, c, w) => w \in 1..Gone(c)
  BY DEF IInv, OperandsAreGone
\* A new operand is one of the wavelets that leave now, numbered by its binding.
<1>5. ASSUME NEW c \in Colors, NEW j, NEW n, NEW k, NEW w, New(j, n, k, c, w)
      PROVE  /\ k \in Positions(t, c)
             /\ Nth(t, k) \in 1..Taken(t, c) /\ w = Gone(c) + Nth(t, k)
  <2>1. k \in DOMAIN t.inputs
    BY <1>1, <1>5, OperandsAre
  <2>2. Nth(t, k) \in 1..Taken(t, t.inputs[k])
    BY <1>1, <1>5, <2>1, OperandsAre
  <2>3. Operands(t)[k] = Gone(t.inputs[k]) + Nth(t, k)
    BY <1>1, <1>5, OperandsAre
  <2> QED BY <1>5, <2>1, <2>2, <2>3 DEF Positions
<1> HIDE DEF New
<1>6. ASSUME NEW c \in Colors, NEW j, NEW n, NEW k, NEW w, IsOperand(j, n, k, c, w)'
      PROVE  w \in 1..Gone(c)'
  <2>1. IsOperand(j, n, k, c, w) \/ New(j, n, k, c, w)
    BY <1>2, <1>6
  <2>2. CASE IsOperand(j, n, k, c, w)
    <3>1. w \in 1..Gone(c)
      BY <1>4, <2>2
    <3> QED BY <1>3, <3>1
  <2>3. CASE New(j, n, k, c, w)
    BY <1>3, <1>5, <2>3
  <2> QED BY <2>1, <2>2, <2>3
<1>7. ASSUME NEW c \in Colors, NEW w \in 1..Gone(c)'
      PROVE  \E j, n, k \in Nat : IsOperand(j, n, k, c, w)'
  <2>1. CASE w <= Gone(c)
    <3>1. w \in 1..Gone(c)
      BY <1>3, <2>1
    <3>2. PICK j, n, k \in Nat : IsOperand(j, n, k, c, w)
      BY <3>1 DEF IInv, OperandsAreGone
    <3> QED BY <1>2, <3>2
  <2>2. CASE w > Gone(c)
    <3>1. PICK x \in 1..Taken(t, c) : w = Gone(c) + x
      <4>1. w - Gone(c) \in 1..Taken(t, c) /\ w = Gone(c) + (w - Gone(c))
        BY <1>3, <2>2
      <4> QED BY <4>1
    <3>2. /\ Cardinality(Positions(t, c)) \in Nat
          /\ \A y \in 1..Cardinality(Positions(t, c)) : \E k \in Positions(t, c) : Nth(t, k) = y
      BY <1>1, NthIsNumbering
    <3>3. Taken(t, c) <= Cardinality(Positions(t, c))
      <4>1. Len(vc[c]) \in Nat
        BY <1>1
      <4> QED BY <3>2, <4>1 DEF Taken
    <3>4. PICK k \in Positions(t, c) : Nth(t, k) = x
      BY <1>3, <3>2, <3>3
    <3>5. k \in DOMAIN t.inputs /\ t.inputs[k] = c
      BY <3>4 DEF Positions
    <3>6. k \in DOMAIN Operands(t)
      <4>1. k \in DOMAIN Operands(t) <=> Nth(t, k) \in 1..Taken(t, t.inputs[k])
        BY <1>1, <3>5, OperandsAre
      <4> QED BY <3>1, <3>4, <3>5, <4>1
    <3>7. Operands(t)[k] = Gone(t.inputs[k]) + Nth(t, k)
      BY <1>1, <3>6, OperandsAre
    <3>8. New(i, Len(t.operands) + 1, k, c, w)
      BY <3>1, <3>4, <3>5, <3>6, <3>7 DEF New
    <3>9. i \in Nat /\ Len(t.operands) + 1 \in Nat /\ k \in Nat
      BY <1>1, <3>5, SMTT(30)
    <3> QED BY <1>2, <3>8, <3>9
  <2>3. w \in Nat
    OBVIOUS
  <2> QED BY <1>3, <2>1, <2>2, <2>3
<1>8. ASSUME NEW c \in Colors, NEW w, NEW j, NEW n, NEW k, NEW j2, NEW n2, NEW k2,
             IsOperand(j, n, k, c, w)', IsOperand(j2, n2, k2, c, w)'
      PROVE  j = j2 /\ n = n2 /\ k = k2
  <2>1. /\ IsOperand(j, n, k, c, w) \/ New(j, n, k, c, w)
        /\ IsOperand(j2, n2, k2, c, w) \/ New(j2, n2, k2, c, w)
    BY <1>2, <1>8
  <2>2. CASE IsOperand(j, n, k, c, w) /\ IsOperand(j2, n2, k2, c, w)
    BY <2>2 DEF IInv, OperandsAreGone
  <2>3. CASE IsOperand(j, n, k, c, w) /\ New(j2, n2, k2, c, w)
    <3>1. w \in 1..Gone(c) /\ Nth(t, k2) \in 1..Taken(t, c) /\ w = Gone(c) + Nth(t, k2)
      BY <1>4, <1>5, <2>3
    <3> QED BY <1>3, <3>1
  <2>4. CASE New(j, n, k, c, w) /\ IsOperand(j2, n2, k2, c, w)
    <3>1. w \in 1..Gone(c) /\ Nth(t, k) \in 1..Taken(t, c) /\ w = Gone(c) + Nth(t, k)
      BY <1>4, <1>5, <2>4
    <3> QED BY <1>3, <3>1
  <2>5. CASE New(j, n, k, c, w) /\ New(j2, n2, k2, c, w)
    <3>1. /\ k \in Positions(t, c) /\ k2 \in Positions(t, c)
          /\ Nth(t, k) \in 1..Taken(t, c) /\ Nth(t, k2) \in 1..Taken(t, c)
          /\ Gone(c) + Nth(t, k) = Gone(c) + Nth(t, k2)
      BY <1>5, <2>5
    <3>2. Nth(t, k) = Nth(t, k2)
      BY <1>3, <3>1
    <3>3. k = k2
      BY <1>1, <3>1, <3>2, NthIsNumbering
    <3> QED BY <2>5, <3>3 DEF New
  <2> QED BY <2>1, <2>2, <2>3, <2>4, <2>5
<1> QED BY <1>6, <1>7, <1>8 DEF OperandsAreGone

\* A fire of a runnable task preserves the invariant.
LEMMA FireIInv ==
    ASSUME IInv, NEW i \in DOMAIN tasks, IsRunnable(tasks[i]), Fire(i),
           UNCHANGED <<draining, arrived>>
    PROVE  IInv'
<1>1. PICK t : t = tasks[i]
  OBVIOUS
<1>2. tasks \in Seq(TaskRecord) /\ t \in TaskRecord
  BY <1>1 DEF IInv, Typed
<1>3. CASE t.kind = "Data"
  <2>1. Typed' /\ Numbered'
    BY <1>1, <1>3, FireTyped
  <2>2. OnlyBoundConsumed' /\ InStep' /\ Paired'
    BY <1>1, <1>3, FirePaired
  <2>3. OperandsAreGone'
    BY <1>1, <1>3, FireConsumes
  <2> QED BY <2>1, <2>2, <2>3 DEF IInv
<1>4. CASE t.kind # "Data"
  <2>1. /\ vc' = vc
        /\ tasks' = [tasks EXCEPT ![i] = [[t EXCEPT !.operands = t.operands]
                                             EXCEPT !.blocked = t.blocked \/ t.once]]
    BY <1>1, <1>2, <1>4 DEF Fire, TaskRecord
  <2>2. PICK r \in TaskRecord :
            /\ tasks' = [tasks EXCEPT ![i] = r]
            /\ r.id = t.id /\ r.kind = t.kind /\ r.once = t.once
            /\ r.inputs = t.inputs /\ r.operands = t.operands
    <3>1. (t.blocked \/ t.once) \in BOOLEAN
      BY <1>2 DEF TaskRecord
    <3>2. [[t EXCEPT !.operands = t.operands] EXCEPT !.blocked = t.blocked \/ t.once]
              \in TaskRecord
      BY <1>2, <3>1 DEF TaskRecord
    <3> QED BY <1>2, <2>1, <3>2 DEF TaskRecord
  <2>3. tasks' \in Seq(TaskRecord) /\ DOMAIN tasks' = DOMAIN tasks
    BY <1>2, <2>2, ExceptSeq
  <2>4. \A j \in DOMAIN tasks : tasks'[j] = IF j = i THEN r ELSE tasks[j]
    BY <1>2, <2>2
  <2>5. SameTasks
    BY <1>1, <2>2, <2>3, <2>4 DEF SameTasks, SpecOf
  <2>6. draining' \in BOOLEAN
    BY DEF IInv, Typed, TypeOK
  <2> QED BY <2>1, <2>5, <2>6, FlagsIInv
<1> QED BY <1>3, <1>4

\* The picker returns a runnable task.
LEMMA PickIsRunnable ==
    ASSUME tasks \in Seq(TaskRecord), Pick # 0
    PROVE  Pick \in DOMAIN tasks /\ IsRunnable(tasks[Pick])
<1>1. Runnable # {} /\ Pick = Min(Runnable)
  BY DEF Pick
<1>2. Runnable \in SUBSET Nat
  BY DEF Runnable
<1>3. Pick \in Runnable
  BY <1>1, <1>2, MinIsLeast
<1> QED BY <1>3 DEF Runnable

LEMMA FiringIInv ==
    ASSUME IInv, Step \/ DrainStep
    PROVE  IInv'
<1>1. Pick \in DOMAIN tasks /\ IsRunnable(tasks[Pick])
  BY PickIsRunnable DEF IInv, Typed, Step, DrainStep
<1>2. Fire(Pick) /\ UNCHANGED <<draining, arrived>>
  BY DEF Step, DrainStep
<1>3. PICK i : i = Pick
  OBVIOUS
<1> QED BY <1>1, <1>2, <1>3, FireIInv

-----------------------------------------------------------------------------
(* The theorems. *)

\* The scheduler keeps the invariant.
THEOREM SpecIInv == Spec => []IInv
<1>1. Init => IInv
  BY InitIInv
<1>2. IInv /\ [Next]_vars => IInv'
  <2> SUFFICES ASSUME IInv, [Next]_vars PROVE IInv'
    OBVIOUS
  <2>1. ASSUME NEW s \in TaskSpecs, AddTask(s) PROVE IInv'
    BY <2>1, AddTaskIInv
  <2>2. ASSUME NEW id \in Ids, Activate(id) \/ Block(id) \/ Unblock(id) PROVE IInv'
    BY <2>2, SignalIInv
  <2>3. ASSUME NEW c \in Colors, Rx(c) PROVE IInv'
    BY <2>3, RxIInv
  <2>4. CASE Step \/ DrainStep
    BY <2>4, FiringIInv
  <2>5. CASE BeginDrain \/ EndDrain
    BY <2>5, DrainIInv
  <2>6. CASE UNCHANGED vars
    <3>1. SameTasks
      BY <2>6 DEF vars, SameTasks, IInv, Typed
    <3>2. draining' \in BOOLEAN
      BY <2>6 DEF vars, IInv, Typed, TypeOK
    <3> QED BY <2>6, <3>1, <3>2, FlagsIInv DEF vars
  <2> QED BY <2>1, <2>2, <2>3, <2>4, <2>5, <2>6 DEF Next, RunToQuiescence
<1> QED BY <1>1, <1>2, PTL DEF Spec

\* The scheduler is well typed, and no VC ever holds more than kVcDepth
\* wavelets, whatever is registered and however Rx and Step interleave.
THEOREM SchedulerTypeCorrect == Spec => []TypeOK
<1>1. IInv => TypeOK
  BY DEF IInv, Typed
<1> QED BY <1>1, SpecIInv, PTL

\* The rendezvous of Scheduler::Step pairs the n-th wavelets of all the colors
\* of a compute task that owns them, for any number of colors, tasks and
\* arrivals.
THEOREM RendezvousPairsOperands == Spec => []OperandsPaired
<1>1. IInv => OperandsPaired
  <2> SUFFICES ASSUME IInv, NEW i \in DOMAIN tasks, tasks[i].kind = "Data", Exclusive(i),
                      NEW n \in DOMAIN tasks[i].operands
               PROVE  tasks[i].operands[n] = [k \in DOMAIN tasks[i].inputs |-> n]
    BY DEF OperandsPaired
  <2>1. PICK F : F = tasks[i].operands[n]
    OBVIOUS
  <2>2. F \in FireRecord
    <3>1. tasks[i].operands \in Seq(FireRecord)
      BY TaskFields DEF IInv, Typed
    <3> QED BY <2>1, <3>1, SeqElement
  <2>3. F = [k \in DOMAIN F |-> F[k]]
    BY <2>2 DEF FireRecord
  <2>4. DOMAIN F = DOMAIN tasks[i].inputs /\ \A k \in DOMAIN tasks[i].inputs : F[k] = n
    BY <2>1 DEF IInv, Paired
  <2> QED BY <2>1, <2>3, <2>4
<1> QED BY <1>1, SpecIInv, PTL

\* Every wavelet that Router::Rx accepted is in the VC or the operand of
\* exactly one fire: PopInput neither loses one nor hands it out twice.
THEOREM WaveletsConsumedOnce == Spec => []ConsumedOnce
<1>1. IInv => ConsumedOnce
  <2> SUFFICES ASSUME IInv, NEW c \in Colors, NEW w \in 1..arrived[c]
               PROVE  Cardinality(Uses(c, w)) = 1
    BY DEF ConsumedOnce
  <2>1. /\ vc[c] \in Seq(1..MaxArrivals) /\ arrived[c] \in Nat
        /\ Len(vc[c]) \in Nat /\ DOMAIN vc[c] = 1..Len(vc[c])
    BY DEF IInv, Typed, TypeOK
  <2>2. Gone(c) \in Nat /\ arrived[c] = Gone(c) + Len(vc[c])
    BY <2>1 DEF IInv, Numbered, Gone
  <2>3. \A k \in 1..Len(vc[c]) : vc[c][k] = Gone(c) + k
    BY <2>1 DEF IInv, Numbered
  <2>4. \A i, n, k : <<i, n, k>> \in Uses(c, w) <=>
           \/ i = 0 /\ n = 0 /\ k \in DOMAIN vc[c] /\ vc[c][k] = w
           \/ IsOperand(i, n, k, c, w)
    <3>1. \A i, n : <<i, n>> \in Fires <=> i \in DOMAIN tasks /\ n \in DOMAIN tasks[i].operands
      BY DEF Fires
    <3>2. \A f \in Fires : f = <<f[1], f[2]>>
      BY DEF Fires
    <3>3. ASSUME NEW i, NEW n, NEW k
          PROVE  (\E f \in Fires : <<i, n, k>> \in {f[1]} \X {f[2]} \X Got(f[1], f[2], c, w))
                     <=> <<i, n>> \in Fires /\ k \in Got(i, n, c, w)
      <4>1. ASSUME NEW f \in Fires, <<i, n, k>> \in {f[1]} \X {f[2]} \X Got(f[1], f[2], c, w)
            PROVE  <<i, n>> \in Fires /\ k \in Got(i, n, c, w)
        <5>1. i = f[1] /\ n = f[2] /\ k \in Got(f[1], f[2], c, w)
          BY <4>1
        <5> QED BY <3>2, <5>1
      <4>2. ASSUME <<i, n>> \in Fires, k \in Got(i, n, c, w)
            PROVE  \E f \in Fires : <<i, n, k>> \in {f[1]} \X {f[2]} \X Got(f[1], f[2], c, w)
        <5>1. <<i, n, k>> \in {<<i, n>>[1]} \X {<<i, n>>[2]} \X Got(<<i, n>>[1], <<i, n>>[2], c, w)
          BY <4>2
        <5> QED BY <4>2, <5>1
      <4> QED BY <4>1, <4>2
    <3>4. ASSUME NEW i, NEW n, NEW k
          PROVE  <<i, n, k>> \in Uses(c, w) <=>
                    \/ i = 0 /\ n = 0 /\ k \in DOMAIN vc[c] /\ vc[c][k] = w
                    \/ \E f \in Fires : <<i, n, k>> \in {f[1]} \X {f[2]} \X Got(f[1], f[2], c, w)
      BY DEF Uses
    <3>5. ASSUME NEW i, NEW n, NEW k
          PROVE  <<i, n>> \in Fires /\ k \in Got(i, n, c, w) <=> IsOperand(i, n, k, c, w)
      BY <3>1 DEF Got, IsOperand
    <3>6. ASSUME NEW i, NEW n, NEW k
          PROVE  <<i, n, k>> \in Uses(c, w) <=>
                    \/ i = 0 /\ n = 0 /\ k \in DOMAIN vc[c] /\ vc[c][k] = w
                    \/ IsOperand(i, n, k, c, w)
      <4> DEFINE A == <<i, n, k>> \in Uses(c, w)
                 B == \E f \in Fires : <<i, n, k>> \in {f[1]} \X {f[2]} \X Got(f[1], f[2], c, w)
                 C == i = 0 /\ n = 0 /\ k \in DOMAIN vc[c] /\ vc[c][k] = w
      <4>1. A <=> C \/ B
        BY <3>4
      <4>2. B <=> IsOperand(i, n, k, c, w)
        <5>1. B <=> <<i, n>> \in Fires /\ k \in Got(i, n, c, w)
          BY <3>3
        <5> HIDE DEF B
        <5> QED BY <3>5, <5>1
      <4> HIDE DEF A, B, C
      <4>3. A <=> C \/ IsOperand(i, n, k, c, w)
        BY <4>1, <4>2
      <4> QED BY <4>3 DEF A, C
    <3> QED BY <3>6
  <2>5. \A u \in Uses(c, w) : u = <<u[1], u[2], u[3]>>
    BY DEF Uses
  <2>6. CASE w <= Gone(c)
    <3>1. w \in 1..Gone(c)
      BY <2>2, <2>6
    <3>2. PICK i, n, k \in Nat : IsOperand(i, n, k, c, w)
      BY <3>1 DEF IInv, OperandsAreGone
    <3>3. ASSUME NEW i2, NEW n2, NEW k2, <<i2, n2, k2>> \in Uses(c, w)
          PROVE  i2 = i /\ n2 = n /\ k2 = k
      <4>1. ~(k2 \in DOMAIN vc[c] /\ vc[c][k2] = w)
        BY <2>1, <2>2, <2>3, <2>6
      <4>2. IsOperand(i2, n2, k2, c, w)
        BY <2>4, <3>3, <4>1
      <4> QED BY <3>2, <4>2 DEF IInv, OperandsAreGone
    <3>4. Uses(c, w) = {<<i, n, k>>}
      BY <2>4, <2>5, <3>2, <3>3
    <3> QED BY <3>4, FS_Singleton
  <2>7. CASE w > Gone(c)
    <3>1. PICK k \in 1..Len(vc[c]) : w = Gone(c) + k
      <4>1. w - Gone(c) \in 1..Len(vc[c]) /\ w = Gone(c) + (w - Gone(c))
        BY <2>1, <2>2, <2>7
      <4> QED BY <4>1
    <3>2. <<0, 0, k>> \in Uses(c, w)
      BY <2>1, <2>3, <2>4, <3>1
    <3>3. ASSUME NEW i2, NEW n2, NEW k2, <<i2, n2, k2>> \in Uses(c, w)
          PROVE  i2 = 0 /\ n2 = 0 /\ k2 = k
      <4>1. ~IsOperand(i2, n2, k2, c, w)
        <5>1. IsOperand(i2, n2, k2, c, w) => w \in 1..Gone(c)
          BY DEF IInv, OperandsAreGone
        <5> QED BY <2>2, <2>7, <5>1
      <4>2. i2 = 0 /\ n2 = 0 /\ k2 \in 1..Len(vc[c]) /\ vc[c][k2] = w
        BY <2>1, <2>4, <3>3, <4>1
      <4>3. Gone(c) + k2 = Gone(c) + k
        BY <2>3, <3>1, <4>2
      <4> QED BY <2>2, <3>1, <4>2, <4>3
    <3>4. Uses(c, w) = {<<0, 0, k>>}
      BY <2>4, <2>5, <3>2, <3>3
    <3> QED BY <3>4, FS_Singleton
  <2> QED BY <2>2, <2>6, <2>7
<1> QED BY <1>1, SpecIInv, PTL
=============================================================================
