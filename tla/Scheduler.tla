----------------------------- MODULE Scheduler -----------------------------
(***************************************************************************)
(* The task scheduler of one PE (Scheduler.cpp, Task.h): it watches the    *)
(* input VCs of the PE's router and fires the first registered task that   *)
(* is activated, unblocked and, if it is a data task, has a wavelet on     *)
(* every color it is bound to.                                             *)
(*                                                                         *)
(* The k-th wavelet that arrives on a color carries the number k.  The     *)
(* fabric that delivers wavelets is reduced to its one effect here,        *)
(* Router::Rx; SetHandler's closure is reduced to whether it blocks its    *)
(* own task.  The process is single threaded: nothing else happens during  *)
(* a drain (RunToQuiescence).                                              *)
(***************************************************************************)
EXTENDS Integers, Sequences, FiniteSets, FiniteSetsExt

CONSTANTS
    Colors,       \* the colors tasks are bound to
    kVcDepth,     \* capacity of an input VC
    TaskSpecs,    \* the tasks clients build: id, kind, inputs, whether one-shot
    MaxArrivals   \* bound: wavelets that arrive on one color

VARIABLES
    tasks,     \* Scheduler::tasks_, in registration order
    vc,        \* the router's input VCs
    draining,  \* inside RunToQuiescence
    arrived    \* history: how many wavelets arrived on each color

vars == <<tasks, vc, draining, arrived>>

TaskKind == {"Data", "Local", "Control"}

ASSUME SchedulerAssumption ==
    /\ kVcDepth \in Nat \ {0}
    /\ MaxArrivals \in Nat
    /\ TaskSpecs \subseteq [id : Int, kind : TaskKind, inputs : Seq(Colors),
                            once : BOOLEAN]
    /\ \A s \in TaskSpecs : s.kind # "Data" => s.inputs = <<>>

-----------------------------------------------------------------------------
(* TaskPicker. *)

\* Mutant: a blocked task runs.
IsRunnable_IgnoresBlock(t) ==
    /\ t.activated
    /\ t.kind = "Data" => \A i \in DOMAIN t.inputs : vc[t.inputs[i]] # <<>>

\* Mutant: a data task runs as soon as one of its operands is there.
IsRunnable_AnyOperand(t) ==
    /\ t.activated
    /\ ~t.blocked
    /\ t.kind = "Data" => \E i \in DOMAIN t.inputs : vc[t.inputs[i]] # <<>>

IsRunnable(t) ==
    /\ ~t.blocked
    /\ t.activated
    /\ t.kind = "Data" => \A i \in DOMAIN t.inputs : vc[t.inputs[i]] # <<>>

Runnable == {i \in DOMAIN tasks : IsRunnable(tasks[i])}

\* Mutant: only the first task that is activated and unblocked is considered.
Pick_HeadOfLine ==
    LET eligible == {i \in DOMAIN tasks : tasks[i].activated /\ ~tasks[i].blocked}
    IN  IF eligible # {} /\ Min(eligible) \in Runnable THEN Min(eligible) ELSE 0

\* The position of the task to fire, 0 (the null pointer) when there is none.
Pick == IF Runnable = {} THEN 0 ELSE Min(Runnable)

-----------------------------------------------------------------------------
(* Firing a task. *)

\* Operand i of a task is the n-th wavelet of its color, if i is the n-th
\* binding of that color.
Nth(t, i) == Cardinality({j \in 1..i : t.inputs[j] = t.inputs[i]})

\* PopInput on each bound color in turn.  An operand is recorded with the
\* position of the binding it came by; a binding that finds its VC empty has
\* none, and LastInputs() lists the others in the order of their positions.
Operands(t) ==
    [i \in {j \in DOMAIN t.inputs : Nth(t, j) <= Len(vc[t.inputs[j]])} |->
        vc[t.inputs[i]][Nth(t, i)]]

Popped(t) ==
    [c \in Colors |->
        LET n == Cardinality({i \in DOMAIN t.inputs : t.inputs[i] = c})
        IN  SubSeq(vc[c], n + 1, Len(vc[c]))]

\* Scheduler::Step once a task is picked.  LastInputs() is the last entry of
\* the task's operands and FireCount() their number; how often a task without
\* inputs fired is left out.
Fire(i) ==
    LET t == tasks[i]
        data == t.kind = "Data"
    IN  /\ tasks' = [tasks EXCEPT
              ![i].operands = IF data THEN Append(@, Operands(t)) ELSE @,
              ![i].blocked = @ \/ t.once]
        /\ vc' = IF data THEN Popped(t) ELSE vc

-----------------------------------------------------------------------------
(* The client's operations. *)

Init ==
    /\ tasks = <<>>
    /\ vc = [c \in Colors |-> <<>>]
    /\ draining = FALSE
    /\ arrived = [c \in Colors |-> 0]

NewTask(s) ==
    [id |-> s.id, kind |-> s.kind, inputs |-> s.inputs, once |-> s.once,
     activated |-> FALSE, blocked |-> FALSE, operands |-> <<>>]

SpecOf(t) == [id |-> t.id, kind |-> t.kind, inputs |-> t.inputs, once |-> t.once]

\* Bound: every task of TaskSpecs is registered once.
AddTask(s) ==
    /\ ~draining
    /\ \A i \in DOMAIN tasks : SpecOf(tasks[i]) # s
    /\ tasks' = Append(tasks, NewTask(s))
    /\ UNCHANGED <<vc, draining, arrived>>

Ids == {tasks[i].id : i \in DOMAIN tasks}

\* The first registered task with that id; an unknown id is an assertion.
GetTask(id) == Min({i \in DOMAIN tasks : tasks[i].id = id})

Activate(id) ==
    /\ ~draining
    /\ tasks' = [tasks EXCEPT ![GetTask(id)].activated = TRUE]
    /\ UNCHANGED <<vc, draining, arrived>>

Block(id) ==
    /\ ~draining
    /\ tasks' = [tasks EXCEPT ![GetTask(id)].blocked = TRUE]
    /\ UNCHANGED <<vc, draining, arrived>>

\* Mutant: releasing a task starts it afresh and forgets its operands.
Unblock_DropsInputs(id) ==
    /\ ~draining
    /\ tasks' = [tasks EXCEPT ![GetTask(id)].blocked = FALSE]
    /\ vc' = [c \in Colors |->
                IF \E i \in DOMAIN tasks[GetTask(id)].inputs :
                        tasks[GetTask(id)].inputs[i] = c
                THEN <<>> ELSE vc[c]]
    /\ UNCHANGED <<draining, arrived>>

Unblock(id) ==
    /\ ~draining
    /\ tasks' = [tasks EXCEPT ![GetTask(id)].blocked = FALSE]
    /\ UNCHANGED <<vc, draining, arrived>>

\* Mutant: the check for a full VC comes one wavelet late.
Rx_OffByOne(c) ==
    /\ ~draining
    /\ arrived[c] < MaxArrivals
    /\ Len(vc[c]) <= kVcDepth
    /\ arrived' = [arrived EXCEPT ![c] = @ + 1]
    /\ vc' = [vc EXCEPT ![c] = Append(@, arrived[c] + 1)]
    /\ UNCHANGED <<tasks, draining>>

\* Router::Rx: a full VC refuses the wavelet, which stays with the sender.
Rx(c) ==
    /\ ~draining
    /\ arrived[c] < MaxArrivals
    /\ Len(vc[c]) < kVcDepth
    /\ arrived' = [arrived EXCEPT ![c] = @ + 1]
    /\ vc' = [vc EXCEPT ![c] = Append(@, arrived[c] + 1)]
    /\ UNCHANGED <<tasks, draining>>

\* One call of Scheduler::Step; it returns -1 and does nothing without a pick.
Step ==
    /\ ~draining
    /\ Pick # 0
    /\ Fire(Pick)
    /\ UNCHANGED <<draining, arrived>>

\* RunToQuiescence: Step until it returns -1.
BeginDrain ==
    /\ ~draining
    /\ draining' = TRUE
    /\ UNCHANGED <<tasks, vc, arrived>>

DrainStep ==
    /\ draining
    /\ Pick # 0
    /\ Fire(Pick)
    /\ UNCHANGED <<draining, arrived>>

EndDrain ==
    /\ draining
    /\ Pick = 0
    /\ draining' = FALSE
    /\ UNCHANGED <<tasks, vc, arrived>>

RunToQuiescence == DrainStep \/ EndDrain

Next ==
    \/ \E s \in TaskSpecs : AddTask(s)
    \/ \E id \in Ids : Activate(id) \/ Block(id) \/ Unblock(id)
    \/ \E c \in Colors : Rx(c)
    \/ Step
    \/ BeginDrain
    \/ RunToQuiescence

\* The thread inside RunToQuiescence goes on, and the driver keeps calling it
\* (RunSumma does so twice in every cycle).
Fairness == WF_vars(RunToQuiescence) /\ WF_vars(BeginDrain)

Spec == Init /\ [][Next]_vars /\ Fairness

-----------------------------------------------------------------------------
(* Properties. *)

\* The state is well typed: no VC holds more than kVcDepth wavelets.
TypeOK ==
    /\ \A i \in DOMAIN tasks :
          /\ SpecOf(tasks[i]) \in TaskSpecs
          /\ tasks[i].activated \in BOOLEAN
          /\ tasks[i].blocked \in BOOLEAN
          /\ tasks[i].operands \in
                Seq(UNION {[S -> 1..MaxArrivals] : S \in SUBSET DOMAIN tasks[i].inputs})
    /\ vc \in [Colors -> Seq(1..MaxArrivals)]
    /\ \A c \in Colors : Len(vc[c]) <= kVcDepth
    /\ draining \in BOOLEAN
    /\ arrived \in [Colors -> 0..MaxArrivals]

Binds(i, c) == \E k \in DOMAIN tasks[i].inputs : tasks[i].inputs[k] = c

\* Task i is the only one that reads its colors, and binds each of them once.
Exclusive(i) ==
    \A k \in DOMAIN tasks[i].inputs :
        /\ \A j \in DOMAIN tasks \ {i} : ~Binds(j, tasks[i].inputs[k])
        /\ \A m \in DOMAIN tasks[i].inputs :
              tasks[i].inputs[m] = tasks[i].inputs[k] => m = k

\* The rendezvous pairs operands in arrival order: the n-th fire of a compute
\* task that owns its colors gets the n-th wavelet of EVERY one of them,
\* however late an operand came and however often the task was blocked and
\* released in between.
OperandsPaired ==
    \A i \in DOMAIN tasks :
        tasks[i].kind = "Data" /\ Exclusive(i) =>
            \A n \in DOMAIN tasks[i].operands :
                tasks[i].operands[n] = [k \in DOMAIN tasks[i].inputs |-> n]

\* The bindings by which fire n of task i got wavelet w of color c.
Got(i, n, c, w) ==
    {k \in DOMAIN tasks[i].operands[n] :
        tasks[i].inputs[k] = c /\ tasks[i].operands[n][k] = w}

Fires == UNION {{i} \X DOMAIN tasks[i].operands : i \in DOMAIN tasks}

\* The places where wavelet w of color c is: in the VC, or an operand of a fire.
Uses(c, w) ==
    ({0} \X {0} \X {k \in DOMAIN vc[c] : vc[c][k] = w})
        \cup UNION {{f[1]} \X {f[2]} \X Got(f[1], f[2], c, w) : f \in Fires}

\* No wavelet is consumed twice or lost, even when several tasks read the same
\* color or one binds it twice: each one that arrived is in the VC or the
\* operand of exactly one fire.
ConsumedOnce ==
    \A c \in Colors : \A w \in 1..arrived[c] : Cardinality(Uses(c, w)) = 1

Ready(id) == id \in Ids /\ GetTask(id) \in Runnable

\* A fire is not lost because the trigger came first: a task whose operands
\* were there before it was activated or released still runs, whatever is
\* registered before it (or its client blocks it or another task takes its
\* operands).
NoLostWakeup ==
    \A id \in {s.id : s \in TaskSpecs} : Ready(id) ~> ~Ready(id)

\* RunToQuiescence returns: it does not fire tasks for ever.  (It does when an
\* activated task has no inputs and its handler does not block it.)
DrainReturns == draining ~> ~draining

=============================================================================
