------------------------------- MODULE Summa -------------------------------
(***************************************************************************)
(* RunSumma (Summa.cpp): C = A * B on a P x P mesh.  In step s every PE    *)
(* of row y is sent the panel of A's row block y and the s-th slab of its  *)
(* columns, hop by hop eastwards; every PE of column x the panel of B's    *)
(* column block x and the s-th slab of its rows, southwards.  A PE that    *)
(* has both panels adds their product to the tile of C it keeps.           *)
(*                                                                         *)
(* The driver is one thread; each of its loops is a phase here (pc).  The  *)
(* mesh is Fabric's closed form of Grid::Step without routes.  On a PE     *)
(* the Scheduler's tasks are, in priority order, one drain task for each   *)
(* of the four panel colors and the compute task.                          *)
(*                                                                         *)
(* Numbers are symbolic: an element of A or B is its <<row, column>>, and  *)
(* an element of C is the sequence of the products added to it, so the     *)
(* rounding of the fp16 datapath is left out.  kCycleCap, the driver's     *)
(* guard against looping for ever, is left out: Terminates shows that the  *)
(* loops end without it.                                                   *)
(***************************************************************************)
EXTENDS Integers, Sequences

CONSTANTS
    P,          \* the mesh is P x P
    kVcDepth,   \* capacity of a VC
    Shapes,     \* matmul shapes: m = n, k and the preferred slab width tileK
    IndexSpan   \* how many panel indices a wavelet's control half tells apart

VARIABLES
    plan,           \* tile size T, slab width TK, number of steps
    breakRendezvous,\* the negative hook: B is not sent, compute waits for A only
    pc, step, idx,  \* the driver's position: phase, SUMMA step, PE to flush
    cursor,         \* how many of the step's seeds have been injected
    outboxPending,  \* some outbox was left non-empty by the flush
    inVc, outVc, dropped,  \* the mesh
    st,             \* PeState of every PE
    activated       \* whether a PE's compute task is activated

driver == <<pc, step, idx, cursor, outboxPending>>
mesh == <<inVc, outVc, dropped>>
vars == <<plan, breakRendezvous, driver, mesh, st, activated>>

ASSUME SummaAssumption ==
    /\ P \in Nat \ {0}
    /\ kVcDepth \in Nat \ {0}
    /\ IndexSpan \in Nat \ {0}
    /\ \A s \in Shapes : /\ s.n \in Nat \ {0} /\ s.k \in Nat \ {0} /\ s.tileK \in Int
                         /\ s.n % P = 0

aColor == <<0, 1>>
bColor == <<2, 3>>
xDone == 4
yDone == 5
SummaColors == 0..5

Net == INSTANCE Fabric WITH
    Width <- P, Height <- P, Colors <- SummaColors,
    MaxWavelets <- 0, Injections <- {}, Routes <- {}, Readers <- {},
    config <- [p \in (0..P - 1) \X (0..P - 1) |-> [c \in SummaColors |->
                  [has |-> FALSE, rx |-> "Ramp", tx |-> {}]]],
    sent <- <<>>, got <- <<>>, fell <- {}, born <- 0

PE == Net!PE

-----------------------------------------------------------------------------
(* The lowering of a matmul to a plan (LowerToDataflow.cpp). *)

\* The widest slab that divides k, no wider than the preferred one (8 if none
\* is given).
ChooseTileK(k, pref) ==
    LET widest == IF pref <= 0 THEN 8 ELSE pref
        slabs == {t \in 1..k : t <= widest /\ k % t = 0}
    IN  CHOOSE t \in slabs : \A u \in slabs : u <= t

BuildPlan(s) ==
    LET TK == ChooseTileK(s.k, s.tileK)
    IN  [n |-> s.n, k |-> s.k, T |-> s.n \div P, TK |-> TK, steps |-> s.k \div TK]

panelSize == plan.T * plan.TK
Panel == 0..panelSize - 1
Tile == (0..plan.T - 1) \X (0..plan.T - 1)

-----------------------------------------------------------------------------
(* The seeds of a step: for each panel index one wavelet of A per row, at  *)
(* the west edge, then one of B per column, at the north edge.             *)

PerIndex == IF breakRendezvous THEN P ELSE 2 * P
NumSeeds == panelSize * PerIndex

\* The element of A, or of B, that panel index t of row or column block r is.
AElement(r, t) == <<r * plan.T + (t \div plan.TK), step * plan.TK + (t % plan.TK)>>

\* Mutant: the panel of B is sent in the layout of the panel of A.
BElement_RowMajor(r, t) ==
    <<step * plan.TK + (t % plan.TK), r * plan.T + (t \div plan.TK)>>

BElement(r, t) == <<step * plan.TK + (t \div plan.T), r * plan.T + (t % plan.T)>>

\* The colors alternate between steps.
Parity == (step % 2) + 1

Seed(i) ==
    LET t == i \div PerIndex
        r == i % PerIndex
    IN  IF r < P
        THEN [pe |-> <<0, r>>, color |-> aColor[Parity],
              w |-> [control |-> t % IndexSpan, data |-> AElement(r, t)]]
        ELSE [pe |-> <<r - P, P - 1>>, color |-> bColor[Parity],
              w |-> [control |-> t % IndexSpan, data |-> BElement(r - P, t)]]

-----------------------------------------------------------------------------
(* The tasks of a PE. *)

Zero == <<>>
ZeroPanel == [t \in Panel |-> Zero]

Retx(c, dir, ws) == [i \in DOMAIN ws |-> [color |-> c, dir |-> dir, w |-> ws[i]]]

\* A panel buffer after the wavelets ws are stored at their control index.
Stored(buf, ws) ==
    [t \in DOMAIN buf |->
        LET hits == {i \in DOMAIN ws : ws[i].control = t}
        IN  IF hits = {} THEN buf[t]
            ELSE ws[CHOOSE i \in hits : \A j \in hits : j <= i].data]

\* Mutant: the drain tasks of the edges retransmit too.
Onward_OffTheEdge(p, c, dir, ws) == Retx(c, dir, ws)

\* What is to be sent on: nothing at the far edge.
Onward(p, c, dir, ws) == IF Net!Hop(p, dir) \in PE THEN Retx(c, dir, ws) ELSE <<>>

\* The drain tasks of PE p empty the four panel VCs.
Drained(p) ==
    LET a == inVc[p][aColor[1]] \o inVc[p][aColor[2]]
        b == inVc[p][bColor[1]] \o inVc[p][bColor[2]]
    IN  [st[p] EXCEPT
            !.aBuf = Stored(@, a), !.bBuf = Stored(@, b),
            !.aCount = @ + Len(a), !.bCount = @ + Len(b),
            !.outbox = @ \o Onward(p, aColor[1], "East", inVc[p][aColor[1]])
                         \o Onward(p, aColor[2], "East", inVc[p][aColor[2]])
                         \o Onward(p, bColor[1], "South", inVc[p][bColor[1]])
                         \o Onward(p, bColor[2], "South", inVc[p][bColor[2]])]

\* PanelAccumulate: the products of row i of A's panel and column j of B's.
Accumulated(s) ==
    [ij \in Tile |-> s.cTile[ij] \o
        [kk \in 1..plan.TK |-> <<s.aBuf[ij[1] * plan.TK + kk - 1],
                                 s.bBuf[(kk - 1) * plan.T + ij[2]]>>]]

\* Mutant: the x_done flag survives the compute.
Computed_KeepsToken(p) ==
    [st[p] EXCEPT !.cTile = Accumulated(st[p]),
        !.aBuf = ZeroPanel, !.bBuf = ZeroPanel, !.aCount = 0, !.bCount = 0,
        !.bToken = FALSE, !.stepsDone = @ + 1]

\* The compute task's handler: accumulate, and reset for the next step.
Computed(p) ==
    [st[p] EXCEPT !.cTile = Accumulated(st[p]),
        !.aBuf = ZeroPanel, !.bBuf = ZeroPanel, !.aCount = 0, !.bCount = 0,
        !.aToken = FALSE, !.bToken = FALSE, !.stepsDone = @ + 1]

PanelColors == {aColor[1], aColor[2], bColor[1], bColor[2]}
HasData(p) == \E c \in PanelColors : inVc[p][c] # <<>>

\* The compute task is bound to both tokens, or to x_done only when broken.
\* It is never blocked, so y_done's @unblock changes nothing.
TokenColors == IF breakRendezvous THEN {xDone} ELSE {xDone, yDone}
Runnable(p) == activated[p] /\ \A c \in TokenColors : inVc[p][c] # <<>>

-----------------------------------------------------------------------------
(* The driver. *)

Init ==
    /\ \E s \in Shapes : plan = BuildPlan(s)
    /\ breakRendezvous \in BOOLEAN
    /\ pc = "flush" /\ step = 0 /\ idx = 0 /\ cursor = 0
    /\ outboxPending = FALSE
    /\ inVc = [p \in PE |-> [c \in SummaColors |-> <<>>]]
    /\ outVc = [p \in PE |-> [d \in Net!Dir |-> [c \in SummaColors |-> <<>>]]]
    /\ dropped = 0
    /\ st = [p \in PE |-> [aBuf |-> ZeroPanel, bBuf |-> ZeroPanel,
                           cTile |-> [ij \in Tile |-> <<>>], outbox |-> <<>>,
                           aCount |-> 0, bCount |-> 0, stepsDone |-> 0,
                           aToken |-> FALSE, bToken |-> FALSE]]
    /\ activated = [p \in PE |-> breakRendezvous]

PeAt(i) == <<i % P, i \div P>>

\* Flush the outbox of one PE after the other, each until a VC is full.
Flush ==
    /\ pc = "flush"
    /\ idx < P * P
    /\ LET p == PeAt(idx)
           r == Head(st[p].outbox)
       IN  IF st[p].outbox # <<>> /\ Net!HasRoom(p, r.color, {r.dir})
           THEN /\ outVc' = Net!PushAll(p, r.color, {r.dir}, r.w)
                /\ st' = [st EXCEPT ![p].outbox = Tail(@)]
                /\ UNCHANGED <<idx, outboxPending>>
           ELSE /\ outboxPending' = (outboxPending \/ st[p].outbox # <<>>)
                /\ idx' = idx + 1
                /\ UNCHANGED <<outVc, st>>
    /\ UNCHANGED <<plan, breakRendezvous, pc, step, cursor, inVc, dropped, activated>>

\* Inject seeds until one is refused or none is left.
InjectSeed ==
    /\ pc = "flush"
    /\ idx = P * P
    /\ IF /\ cursor < NumSeeds
          /\ Net!HasRoom(Seed(cursor).pe, Seed(cursor).color, {"Ramp"})
       THEN /\ outVc' = Net!PushAll(Seed(cursor).pe, Seed(cursor).color, {"Ramp"},
                                    Seed(cursor).w)
            /\ cursor' = cursor + 1
            /\ UNCHANGED pc
       ELSE /\ pc' = "step"
            /\ UNCHANGED <<outVc, cursor>>
    /\ UNCHANGED <<plan, breakRendezvous, step, idx, outboxPending, inVc, dropped,
                   st, activated>>

\* grid.Step().
GridStep ==
    /\ pc = "step"
    /\ inVc' = [p \in PE |-> [c \in SummaColors |-> Net!InHop(p, c)]]
    /\ outVc' = [p \in PE |-> [d \in Net!Dir |-> [c \in SummaColors |->
                                                    Net!OutHop(p, d, c)]]]
    /\ dropped' = dropped
          + Net!SumOver(Net!OffGrid, LAMBDA m : Net!Sent(m[1], m[2], m[3]))
    /\ pc' = "receive"
    /\ UNCHANGED <<plan, breakRendezvous, step, idx, cursor, outboxPending, st,
                   activated>>

\* RunToQuiescence on every PE, before ("receive") and after ("fire") the
\* tokens are delivered: first the drain tasks, then the compute task, until
\* neither is runnable.  The PEs do not touch each other's state.
Drain ==
    /\ pc \in {"receive", "fire"}
    /\ \E p \in PE : HasData(p)
    /\ st' = [p \in PE |-> Drained(p)]
    /\ inVc' = [p \in PE |-> [c \in SummaColors |->
                                IF c \in PanelColors THEN <<>> ELSE inVc[p][c]]]
    /\ UNCHANGED <<plan, breakRendezvous, driver, outVc, dropped, activated>>

Compute ==
    /\ pc \in {"receive", "fire"}
    /\ \A p \in PE : ~HasData(p)
    /\ \E p \in PE : Runnable(p)
    /\ st' = [p \in PE |-> IF Runnable(p) THEN Computed(p) ELSE st[p]]
    /\ inVc' = [p \in PE |-> [c \in SummaColors |->
                  IF Runnable(p) /\ c \in TokenColors
                  THEN Tail(inVc[p][c]) ELSE inVc[p][c]]]
    /\ UNCHANGED <<plan, breakRendezvous, driver, outVc, dropped, activated>>

Quiescent ==
    /\ pc \in {"receive", "fire"}
    /\ \A p \in PE : ~HasData(p) /\ ~Runnable(p)
    /\ pc' = IF pc = "receive" THEN "tokens" ELSE "check"
    /\ UNCHANGED <<plan, breakRendezvous, step, idx, cursor, outboxPending, mesh,
                   st, activated>>

\* Mutant: a panel counts as complete one element early.
PanelDone_Early(count) == count >= panelSize - 1

PanelDone(count) == count >= panelSize

\* Router::Rx of a token; its result is not looked at.
WithToken(vc) == IF Len(vc) < kVcDepth THEN Append(vc, [control |-> 0, data |-> Zero])
                 ELSE vc

\* x_done and y_done: a PE whose panel is complete gets the token, once.
Tokens ==
    /\ pc = "tokens"
    /\ LET x == {p \in PE : ~st[p].aToken /\ PanelDone(st[p].aCount)}
           y == {p \in PE : /\ ~breakRendezvous
                            /\ ~st[p].bToken /\ PanelDone(st[p].bCount)}
       IN  /\ activated' = [p \in PE |-> activated[p] \/ p \in x]
           /\ st' = [p \in PE |-> [st[p] EXCEPT !.aToken = @ \/ p \in x,
                                                !.bToken = @ \/ p \in y]]
           /\ inVc' = [p \in PE |-> [c \in SummaColors |->
                  IF (c = xDone /\ p \in x) \/ (c = yDone /\ p \in y)
                  THEN WithToken(inVc[p][c]) ELSE inVc[p][c]]]
    /\ pc' = "fire"
    /\ UNCHANGED <<plan, breakRendezvous, step, idx, cursor, outboxPending, outVc,
                   dropped>>

allDone == \A p \in PE : st[p].stepsDone >= step + 1

fabricEmpty ==
    \A p \in PE, c \in SummaColors :
        inVc[p][c] = <<>> /\ \A d \in Net!Dir : outVc[p][d][c] = <<>>

\* Mutant: the end of the step does not wait for the computes.
StepOver_NotAllDone == cursor = NumSeeds /\ ~outboxPending /\ fabricEmpty

\* The end of a SUMMA step.  outboxPending is what the flush saw, before this
\* cycle's drains put more into the outboxes.
StepOver == cursor = NumSeeds /\ ~outboxPending /\ allDone /\ fabricEmpty

Check ==
    /\ pc = "check"
    /\ idx' = 0
    /\ outboxPending' = FALSE
    /\ IF StepOver
       THEN /\ step' = step + 1
            /\ cursor' = 0
            /\ pc' = IF step + 1 < plan.steps THEN "flush" ELSE "done"
       ELSE /\ pc' = "flush"
            /\ UNCHANGED <<step, cursor>>
    /\ UNCHANGED <<plan, breakRendezvous, mesh, st, activated>>

\* RunSumma has returned.
Done == pc = "done" /\ UNCHANGED vars

RunSumma ==
    \/ Flush \/ InjectSeed \/ GridStep
    \/ Drain \/ Compute \/ Quiescent
    \/ Tokens \/ Check

Next == RunSumma \/ Done

\* The driver is one thread that does not block.
Spec == Init /\ [][Next]_vars /\ WF_vars(RunSumma)

-----------------------------------------------------------------------------
(* Properties. *)

\* "compute fires only after BOTH panels arrive" (Summa.h): whenever the
\* compute task can run, the two buffers hold exactly the panels of the
\* current step, no element missing, stale, or of another step.
BothPanelsThere ==
    \A p \in PE :
        Runnable(p) /\ ~breakRendezvous =>
            /\ st[p].aBuf = [t \in Panel |-> AElement(p[2], t)]
            /\ st[p].bBuf = [t \in Panel |-> BElement(p[1], t)]

\* Element <<r, c>> of the product of the first k columns of A and rows of B.
Golden(r, c, k) == [i \in 1..k |-> <<<<r, i - 1>>, <<i - 1, c>>>>]

\* Output-stationary accumulation: at every moment the tile a PE keeps is the
\* product of the slabs it has computed, each slab added once and in order,
\* and when RunSumma returns every tile is complete.  With the negative hook
\* the result is wrong ("WRONG output that fails the golden contract").
TilesAreProducts ==
    \A p \in PE :
        LET s == st[p]
            right == \A ij \in Tile :
                s.cTile[ij] = Golden(p[2] * plan.T + ij[1], p[1] * plan.T + ij[2],
                                     s.stepsDone * plan.TK)
        IN  /\ ~breakRendezvous => right
            /\ pc = "done" => s.stepsDone = plan.steps /\ (right <=> ~breakRendezvous)

\* A step ends with nothing left over: no wavelet in a VC or, although the
\* driver looks at a stale outboxPending, in an outbox; no token, no partial
\* panel.
StepsDoNotOverlap ==
    [][step' # step =>
         /\ fabricEmpty
         /\ \A p \in PE :
               /\ st[p].outbox = <<>>
               /\ st[p].aCount = 0 /\ st[p].bCount = 0
               /\ ~st[p].aToken /\ ~st[p].bToken]_vars

\* "wavelets dropped at the mesh edge (0 expected)" (Summa.h).
NoDrops == dropped = 0

\* The fabric quiesces: RunSumma returns, with and without the negative hook.
Terminates == <>(pc = "done")

=============================================================================
