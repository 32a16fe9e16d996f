------------------------------ MODULE GridLoop ------------------------------
(***************************************************************************)
(* Grid::Step as the loops the program runs: one wavelet moved per action, *)
(* first input VC to output VCs (Router::ApplyForwarding, PE after PE and  *)
(* color after color), then, from a snapshot of the output VC sizes, one   *)
(* link per wavelet.  The program is single-threaded, so the operations of *)
(* Fabric happen only between cycles.                                      *)
(*                                                                         *)
(* Colors are numbers here, since the loops visit them in order.           *)
(***************************************************************************)
EXTENDS Fabric, Selection

VARIABLES
    phase,  \* "idle" between cycles, "fwd" and "hop" within Grid::Step
    todo,   \* what the current loop has still to visit, in visiting order
    start   \* history: the fabric when the cycle began

loopVars == <<phase, todo, start>>

\* enum class Dir, in order.
DirSeq == <<"Ramp", "East", "West", "North", "South">>

NumColors == Cardinality(Colors)

ASSUME ColorsAreIds == Colors = 0..NumColors - 1

\* Mutant: the PEs are visited column by column.
PeAt_ColumnMajor(k) == <<k \div Height, k % Height>>

\* The nested loops over y, x, direction and color id, unrolled.
PeAt(k) == <<k % Width, k \div Width>>
InputVcs ==
    [i \in 1..(Width * Height * NumColors) |->
        [pe |-> PeAt((i - 1) \div NumColors), dir |-> "Ramp",
         color |-> (i - 1) % NumColors]]
OutputVcs ==
    [i \in 1..(Width * Height * 5 * NumColors) |->
        [pe |-> PeAt((i - 1) \div (5 * NumColors)),
         dir |-> DirSeq[(((i - 1) \div NumColors) % 5) + 1],
         color |-> (i - 1) % NumColors]]

\* The `moves` vector: the non-empty output VCs and how much each one holds.
Snapshot ==
    LET Holds(m) == Len(outVc[m.pe][m.dir][m.color])
        full == Subsequence(OutputVcs, {i \in DOMAIN OutputVcs : Holds(OutputVcs[i]) > 0})
    IN  [i \in DOMAIN full |->
            [pe |-> full[i].pe, dir |-> full[i].dir, color |-> full[i].color,
             count |-> Holds(full[i])]]

\* Grid::At asserts that the PE is in bounds, and Color::Routable that the
\* color id is: a loop that visited anything else would be stuck.
InBounds(m) == m.pe \in PE /\ m.dir \in Dir /\ m.color \in Colors

LoopInit == Init /\ phase = "idle" /\ todo = <<>> /\ start = <<>>

\* Grid::Step is called.
BeginStep ==
    /\ phase = "idle"
    /\ phase' = "fwd"
    /\ todo' = InputVcs
    /\ start' = <<inVc, outVc, config, dropped, fell, born>>
    /\ UNCHANGED vars

\* One round of ApplyForwarding's while loop.
Forward ==
    LET p == Head(todo).pe
        c == Head(todo).color
        tx == FwdDirs(p, c)
    IN  /\ phase = "fwd" /\ todo # <<>> /\ InBounds(Head(todo))
        /\ tx # {} /\ inVc[p][c] # <<>> /\ HasRoom(p, c, tx)
        /\ inVc' = [inVc EXCEPT ![p][c] = Tail(@)]
        /\ outVc' = PushAll(p, c, tx, Head(inVc[p][c]))
        /\ born' = born + Cardinality(tx) - 1
        /\ UNCHANGED <<config, dropped, sent, got, fell, loopVars>>

\* Mutant: the loop waits for a full transmit VC to drain.
ForwardDone_Spins ==
    LET p == Head(todo).pe
        c == Head(todo).color
    IN  /\ phase = "fwd" /\ todo # <<>> /\ InBounds(Head(todo))
        /\ FwdDirs(p, c) = {} \/ inVc[p][c] = <<>>
        /\ todo' = Tail(todo)
        /\ UNCHANGED <<vars, phase, start>>

\* The color has no route, its input VC is empty, or a transmit VC is full.
ForwardDone ==
    LET p == Head(todo).pe
        c == Head(todo).color
        tx == FwdDirs(p, c)
    IN  /\ phase = "fwd" /\ todo # <<>> /\ InBounds(Head(todo))
        /\ tx = {} \/ inVc[p][c] = <<>> \/ ~HasRoom(p, c, tx)
        /\ todo' = Tail(todo)
        /\ UNCHANGED <<vars, phase, start>>

BeginHops ==
    /\ phase = "fwd" /\ todo = <<>>
    /\ phase' = "hop"
    /\ todo' = Snapshot
    /\ UNCHANGED <<vars, start>>

\* The move under way has one wavelet less to go.
OneLess == <<[Head(todo) EXCEPT !.count = @ - 1]>> \o Tail(todo)

\* The far end of the link, or this PE itself for the RAMP, takes the wavelet.
Deliver ==
    LET m == Head(todo)
        q == Hop(m.pe, m.dir)
        vc == outVc[m.pe][m.dir][m.color]
    IN  /\ phase = "hop" /\ todo # <<>> /\ InBounds(m)
        /\ m.count > 0 /\ vc # <<>>
        /\ q \in PE /\ Len(inVc[q][m.color]) < kVcDepth
        /\ inVc' = [inVc EXCEPT ![q][m.color] = Append(@, Head(vc))]
        /\ outVc' = [outVc EXCEPT ![m.pe][m.dir][m.color] = Tail(@)]
        /\ todo' = OneLess
        /\ UNCHANGED <<config, dropped, histVars, phase, start>>

\* The link leads off the mesh: drop and count.
DropOffGrid ==
    LET m == Head(todo)
        vc == outVc[m.pe][m.dir][m.color]
    IN  /\ phase = "hop" /\ todo # <<>> /\ InBounds(m)
        /\ m.count > 0 /\ vc # <<>>
        /\ Hop(m.pe, m.dir) \notin PE
        /\ outVc' = [outVc EXCEPT ![m.pe][m.dir][m.color] = Tail(@)]
        /\ dropped' = dropped + 1
        /\ fell' = fell \cup {Head(vc)}
        /\ todo' = OneLess
        /\ UNCHANGED <<inVc, config, sent, got, born, phase, start>>

\* Mutant: a wavelet that the receiver refuses is popped all the same.
NextMove_DropsRefused ==
    LET m == Head(todo)
        vc == outVc[m.pe][m.dir][m.color]
    IN  /\ phase = "hop" /\ todo # <<>> /\ InBounds(m)
        /\ \/ m.count = 0 /\ UNCHANGED outVc
           \/ /\ m.count > 0 /\ vc # <<>>
              /\ Hop(m.pe, m.dir) \in PE
              /\ Len(inVc[Hop(m.pe, m.dir)][m.color]) >= kVcDepth
              /\ outVc' = [outVc EXCEPT ![m.pe][m.dir][m.color] = Tail(@)]
        /\ todo' = Tail(todo)
        /\ UNCHANGED <<inVc, config, dropped, histVars, phase, start>>

\* The move is complete, or its receiver is full: on to the next one.
NextMove ==
    LET m == Head(todo)
        q == Hop(m.pe, m.dir)
    IN  /\ phase = "hop" /\ todo # <<>> /\ InBounds(m)
        /\ \/ m.count = 0
           \/ outVc[m.pe][m.dir][m.color] = <<>>
           \/ q \in PE /\ Len(inVc[q][m.color]) >= kVcDepth
        /\ todo' = Tail(todo)
        /\ UNCHANGED <<vars, phase, start>>

\* Grid::Step returns.
EndStep ==
    /\ phase = "hop" /\ todo = <<>>
    /\ phase' = "idle"
    /\ start' = <<>>
    /\ UNCHANGED <<vars, todo>>

StepLoop ==
    \/ BeginStep \/ Forward \/ ForwardDone \/ BeginHops
    \/ Deliver \/ DropOffGrid \/ NextMove \/ EndStep

BetweenCycles ==
    /\ phase = "idle"
    /\ \/ \E r \in Routes : SetRoute(r[1], r[2], r[3], r[4])
       \/ \E i \in Injections : Inject(i[1], i[2], i[3])
       \/ \E p \in PE, c \in Colors : Fabout(p, c)
    /\ UNCHANGED loopVars

LoopNext == StepLoop \/ BetweenCycles

LoopSpec == LoopInit /\ [][LoopNext]_<<vars, loopVars>> /\ WF_<<vars, loopVars>>(StepLoop)

-----------------------------------------------------------------------------
(* Properties. *)

AtStart(i, v) == IF phase = "idle" THEN v ELSE start[i]

Cycle == INSTANCE Fabric WITH
    inVc <- AtStart(1, inVc), outVc <- AtStart(2, outVc),
    config <- AtStart(3, config), dropped <- AtStart(4, dropped),
    fell <- AtStart(5, fell), born <- AtStart(6, born)

\* The loops of Grid::Step, with their visiting order, their early exits and
\* the snapshot, compute exactly the cycle of Fabric: every wavelet moves at
\* most one link, and what a full receiver refuses stays where it was.
StepImplementsCycle == Cycle!Spec

\* Grid::Step always returns: no order of full VCs keeps a loop going.
StepReturns == phase # "idle" ~> phase = "idle"

=============================================================================
