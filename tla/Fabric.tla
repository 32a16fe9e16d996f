------------------------------- MODULE Fabric -------------------------------
(***************************************************************************)
(* The simulated wafer fabric: a Width x Height mesh of PEs, each with one *)
(* five-port router (Router.cpp) whose virtual channels are FIFOs of depth *)
(* kVcDepth, advanced one cycle at a time by Grid::Step (Grid.cpp).        *)
(*                                                                         *)
(* A color is a virtual channel: every (PE, direction, color) has an       *)
(* output VC and every (PE, color) an input VC.  A wavelet's payload is    *)
(* abstracted to the number of the injection that created it, so that the  *)
(* copies a multicast makes of one wavelet carry the same number.          *)
(*                                                                         *)
(* Grid::Step is one action here.  Its loops only ever move a prefix of    *)
(* one VC to the end of another one of the same color, so a cycle has the  *)
(* closed form below; GridLoop models the loops themselves and is checked  *)
(* to implement this module.                                               *)
(***************************************************************************)
EXTENDS Integers, Sequences, FiniteSets, Functions

CONSTANTS
    Width, Height,  \* the mesh (64 x 64 in the program)
    Colors,         \* the routable colors in use (24 in the program)
    kVcDepth,       \* capacity of every virtual channel (4 in the program)
    MaxWavelets,    \* bound: how many injections are accepted
    Injections,     \* the (PE, color, direction set) triples clients inject on
    Routes,         \* the (PE, color, rx, tx) quadruples clients configure
    Readers         \* the (PE, color) pairs whose CE never stops reading

VARIABLES
    inVc,     \* Router::in_vc_: one input VC per PE and color
    outVc,    \* Router::out_vc_: one output VC per PE, direction and color
    config,   \* Router::config_ and has_config_
    dropped,  \* Grid::dropped_offgrid_
    sent,     \* history: the accepted injections, in order
    got,      \* history: per PE and color, the wavelets the CE read, in order
    fell,     \* history: the wavelets of which a copy was dropped off the mesh
    born      \* history: copies of wavelets ever put in a VC

fabricVars == <<inVc, outVc, config, dropped>>
histVars == <<sent, got, fell, born>>
vars == <<fabricVars, histVars>>

Dir == {"Ramp", "East", "West", "North", "South"}
PE == (0..Width - 1) \X (0..Height - 1)
Wavelet == 1..MaxWavelets

ASSUME FabricAssumption ==
    /\ Width \in Nat \ {0}
    /\ Height \in Nat \ {0}
    /\ IsFiniteSet(Colors)
    /\ kVcDepth \in Nat \ {0}
    /\ MaxWavelets \in Nat
    /\ Injections \subseteq PE \X Colors \X ((SUBSET Dir) \ {{}})
    /\ Routes \subseteq PE \X Colors \X Dir \X SUBSET Dir
    /\ Readers \subseteq PE \X Colors

-----------------------------------------------------------------------------
(* The mesh. *)

\* The PE that a hop in direction d leads to; it may lie off the mesh.  The
\* RAMP leads back to the PE itself.
Hop(p, d) ==
    CASE d = "Ramp"  -> p
      [] d = "East"  -> <<p[1] + 1, p[2]>>
      [] d = "West"  -> <<p[1] - 1, p[2]>>
      [] d = "North" -> <<p[1], p[2] + 1>>
      [] d = "South" -> <<p[1], p[2] - 1>>

\* The PE whose d-bound hop leads to p.
From(p, d) ==
    CASE d = "Ramp"  -> p
      [] d = "East"  -> <<p[1] - 1, p[2]>>
      [] d = "West"  -> <<p[1] + 1, p[2]>>
      [] d = "North" -> <<p[1], p[2] - 1>>
      [] d = "South" -> <<p[1], p[2] + 1>>

\* Grid::Step visits the output VCs in row-major order of their PEs, so the
\* VCs that lead to one PE are visited in this order of their directions: the
\* row below, then the PE's own row from west to east, then the row above.
Rank(d) ==
    CASE d = "North" -> 1
      [] d = "East"  -> 2
      [] d = "Ramp"  -> 3
      [] d = "West"  -> 4
      [] d = "South" -> 5

-----------------------------------------------------------------------------
(* Phase 1 of a cycle: Router::ApplyForwarding on every PE. *)

Least(a, b) == IF a <= b THEN a ELSE b

Room(vc) == kVcDepth - Len(vc)

NoConfig == [has |-> FALSE, rx |-> "Ramp", tx |-> {}]

\* The directions a color is forwarded to.  The configured rx is not consulted.
FwdDirs(p, c) == IF config[p][c].has THEN config[p][c].tx ELSE {}

\* Mutant: one buffer per physical link, shared by all the colors.
RoomTowards_SharedLink(p, c, d) ==
    IF d \in FwdDirs(p, c) /\ \E b \in Colors : outVc[p][d][b] # <<>>
    THEN 0 ELSE kVcDepth

RoomTowards(p, c, d) ==
    IF d \in FwdDirs(p, c) THEN Room(outVc[p][d][c]) ELSE kVcDepth

\* How many wavelets leave the input VC: the loop goes on while the VC is not
\* empty and EVERY transmit VC has room.
FwdCount(p, c) ==
    IF FwdDirs(p, c) = {} THEN 0
    ELSE Least(Len(inVc[p][c]),
         Least(RoomTowards(p, c, "Ramp"),
         Least(RoomTowards(p, c, "East"),
         Least(RoomTowards(p, c, "West"),
         Least(RoomTowards(p, c, "North"), RoomTowards(p, c, "South"))))))

\* The VCs after phase 1.
InFwd(p, c) == SubSeq(inVc[p][c], FwdCount(p, c) + 1, Len(inVc[p][c]))
OutFwd(p, d, c) ==
    IF d \in FwdDirs(p, c)
    THEN outVc[p][d][c] \o SubSeq(inVc[p][c], 1, FwdCount(p, c))
    ELSE outVc[p][d][c]

-----------------------------------------------------------------------------
(* Phase 2 of a cycle: every output VC sends what its link's far end takes. *)

\* What waits, after phase 1, in the output VC that sends d-bound to p.
Waiting(p, d, c) ==
    IF From(p, d) \in PE THEN OutFwd(From(p, d), d, c) ELSE <<>>

Arrivals(p, c) ==
    Waiting(p, "North", c) \o Waiting(p, "East", c) \o Waiting(p, "Ramp", c)
        \o Waiting(p, "West", c) \o Waiting(p, "South", c)

\* Mutant: arrivals are pushed at the front of the VC.
InHop_PushFront(p, c) ==
    SubSeq(Arrivals(p, c), 1, Least(Len(Arrivals(p, c)), Room(InFwd(p, c))))
        \o InFwd(p, c)

\* The input VC takes arrivals until it is full.
InHop(p, c) ==
    InFwd(p, c) \o SubSeq(Arrivals(p, c), 1,
                          Least(Len(Arrivals(p, c)), Room(InFwd(p, c))))

\* How many wavelets bound for p are offered to it before the d-bound ones.
Ahead(p, d, c) ==
    LET Before(e) == IF Rank(e) < Rank(d) THEN Len(Waiting(p, e, c)) ELSE 0
    IN  Before("North") + Before("East") + Before("Ramp") + Before("West")

\* How many wavelets leave the output VC (q, d, c).  Off the mesh they are all
\* dropped; the RAMP and the mesh links stop when the receiver is full.
Sent(q, d, c) ==
    LET p == Hop(q, d)
        n == Len(OutFwd(q, d, c))
        room == Room(InFwd(p, c)) - Ahead(p, d, c)
    IN  IF p \notin PE THEN n
        ELSE IF room <= 0 THEN 0 ELSE Least(n, room)

\* Mutant: the sender pops before it knows whether the receiver has room.
OutHop_PopsRefused(q, d, c) == <<>>

OutHop(q, d, c) ==
    SubSeq(OutFwd(q, d, c), Sent(q, d, c) + 1, Len(OutFwd(q, d, c)))

\* The sum of f over the output VCs that send off the mesh, over all VCs, ...
SumOver(S, f(_)) == SumFunction([s \in S |-> f(s)])

OffGrid == {m \in PE \X Dir \X Colors : Hop(m[1], m[2]) \notin PE}

-----------------------------------------------------------------------------
(* The operations. *)

\* Mutant: the room check is off by one.
HasRoom_OffByOne(p, c, dirs) == \A d \in dirs : Len(outVc[p][d][c]) <= kVcDepth

\* Room on every one of the VCs, and a wavelet pushed on every one of them.
HasRoom(p, c, dirs) == \A d \in dirs : Len(outVc[p][d][c]) < kVcDepth
PushAll(p, c, dirs, w) ==
    [q \in PE |-> [d \in Dir |-> [b \in Colors |->
        IF q = p /\ d \in dirs /\ b = c
        THEN Append(outVc[q][d][b], w) ELSE outVc[q][d][b]]]]

\* A color starts unconfigured and every VC empty.
Init ==
    /\ inVc = [p \in PE |-> [c \in Colors |-> <<>>]]
    /\ outVc = [p \in PE |-> [d \in Dir |-> [c \in Colors |-> <<>>]]]
    /\ config = [p \in PE |-> [c \in Colors |-> NoConfig]]
    /\ dropped = 0
    /\ sent = <<>>
    /\ got = [p \in PE |-> [c \in Colors |-> <<>>]]
    /\ fell = {}
    /\ born = 0

\* Mutant: the sentinel Dir::Count is stored for the receive direction.
SetRoute_Sentinel(p, c, rx, tx) ==
    /\ config' = [config EXCEPT ![p][c] = [has |-> TRUE, rx |-> "Count", tx |-> tx]]
    /\ UNCHANGED <<inVc, outVc, dropped, histVars>>

\* Grid::SetRoute: @set_color_config on one PE; a later call replaces it.
SetRoute(p, c, rx, tx) ==
    /\ config' = [config EXCEPT ![p][c] = [has |-> TRUE, rx |-> rx, tx |-> tx]]
    /\ UNCHANGED <<inVc, outVc, dropped, histVars>>

\* Grid::Inject, Router::Tx and Fabin: the wavelet goes to every direction of
\* the set or, when one of the VCs is full, to none (the caller sees FALSE and
\* nothing changes).
Inject(p, c, dirs) ==
    /\ Len(sent) < MaxWavelets
    /\ HasRoom(p, c, dirs)
    /\ outVc' = PushAll(p, c, dirs, Len(sent) + 1)
    /\ sent' = Append(sent, [pe |-> p, color |-> c, dirs |-> dirs])
    /\ born' = born + Cardinality(dirs)
    /\ UNCHANGED <<inVc, config, dropped, got, fell>>

\* Router::PopInput and Fabout: the CE reads the next received wavelet.
Fabout(p, c) ==
    /\ inVc[p][c] # <<>>
    /\ inVc' = [inVc EXCEPT ![p][c] = Tail(@)]
    /\ got' = [got EXCEPT ![p][c] = Append(@, Head(inVc[p][c]))]
    /\ UNCHANGED <<outVc, config, dropped, sent, fell, born>>

\* Grid::Step.
Step ==
    /\ inVc' = [p \in PE |-> [c \in Colors |-> InHop(p, c)]]
    /\ outVc' = [p \in PE |-> [d \in Dir |-> [c \in Colors |-> OutHop(p, d, c)]]]
    /\ dropped' = dropped + SumOver(OffGrid, LAMBDA m : Sent(m[1], m[2], m[3]))
    /\ fell' = fell \cup UNION {Range(OutFwd(m[1], m[2], m[3])) : m \in OffGrid}
    /\ born' = born + SumOver(PE \X Colors, LAMBDA m :
                   FwdCount(m[1], m[2]) * (Cardinality(FwdDirs(m[1], m[2])) - 1))
    /\ UNCHANGED <<config, sent, got>>

Next ==
    \/ \E r \in Routes : SetRoute(r[1], r[2], r[3], r[4])
    \/ \E i \in Injections : Inject(i[1], i[2], i[3])
    \/ \E p \in PE, c \in Colors : Fabout(p, c)
    \/ Step

Spec == Init /\ [][Next]_vars

-----------------------------------------------------------------------------
(* Properties. *)

\* Type invariant.
TypeOK ==
    /\ inVc \in [PE -> [Colors -> Seq(Nat)]]
    /\ outVc \in [PE -> [Dir -> [Colors -> Seq(Nat)]]]
    /\ config \in [PE -> [Colors -> [has : BOOLEAN, rx : Dir, tx : SUBSET Dir]]]
    /\ dropped \in Nat
    /\ sent \in Seq([pe : PE, color : Colors, dirs : SUBSET Dir])
    /\ got \in [PE -> [Colors -> Seq(Nat)]]
    /\ fell \subseteq Nat
    /\ born \in Int

\* No virtual channel ever holds more than kVcDepth wavelets: Tx, Rx and the
\* forwarding loop all stall instead (Router.cpp).
VcBounded ==
    \A p \in PE, c \in Colors :
        /\ Len(inVc[p][c]) <= kVcDepth
        /\ \A d \in Dir : Len(outVc[p][d][c]) <= kVcDepth

Buffered ==
    SumOver(PE \X Colors, LAMBDA m : Len(inVc[m[1]][m[2]]))
    + SumOver(PE \X Dir \X Colors, LAMBDA m : Len(outVc[m[1]][m[2]][m[3]]))

Read == SumOver(PE \X Colors, LAMBDA m : Len(got[m[1]][m[2]]))

\* Lossless backpressure (Router.h): every copy of a wavelet that an injection
\* or a multicast forward ever made is still buffered, was read by a CE, or
\* was dropped off the mesh and counted.  Stalls and merges lose nothing and
\* make nothing twice.
Conserved == born = Buffered + Read + dropped

InFlight(w) ==
    \E p \in PE, c \in Colors :
        \/ w \in Range(inVc[p][c])
        \/ \E d \in Dir : w \in Range(outVc[p][d][c])

WasRead(w) == \E p \in PE, c \in Colors : w \in Range(got[p][c])

\* An accepted wavelet is NEVER dropped inside the router (Router.h): at every
\* moment it is in some VC, was read by a CE, or left over the edge of the mesh.
NothingVanishes ==
    \A w \in 1..Len(sent) : InFlight(w) \/ WasRead(w) \/ w \in fell

\* All VCs, "In" standing for the input VC, and which one hands its wavelets on
\* to which: an output VC to the input VC at the far end of its link, an input
\* VC along the routes of its color.
Vc == PE \X (Dir \cup {"In"}) \X Colors
Feeds(v, u) ==
    /\ v[3] = u[3]
    /\ \/ v[2] \in Dir /\ u[2] = "In" /\ u[1] = Hop(v[1], v[2])
       \/ /\ v[2] = "In" /\ u[1] = v[1]
          /\ \E r \in Routes : r[1] = v[1] /\ r[2] = v[3] /\ u[2] \in r[4]

\* What injection i sends travels along a tree of VCs, in which up relates a VC
\* to those farther down: above a VC are its one feeder and what is above that.
IsTree(i, tree, up) ==
    /\ \A v \in tree : <<v, v>> \notin up
    /\ \A t, u, v \in tree : <<t, u>> \in up /\ <<u, v>> \in up => <<t, v>> \in up
    /\ \A d \in i[3] : /\ <<i[1], d, i[2]>> \in tree
                       /\ \A v \in tree : <<v, <<i[1], d, i[2]>>>> \notin up
    /\ \A v \in tree, u \in Vc : Feeds(v, u) =>
          /\ u \in tree
          /\ \A t \in tree : <<t, u>> \in up <=> t = v \/ <<t, v>> \in up

\* Wavelets injected by one PE with the same color and direction set reach any
\* CE in the order of their injection, whatever stalls on the way, and none
\* reaches it twice (on routes along which paths do not rejoin).
InOrder ==
    \A p \in PE, c \in Colors :
        LET seen == got[p][c] \o inVc[p][c]
        IN  \A i, j \in DOMAIN seen :
                i < j /\ sent[seen[i]] = sent[seen[j]] => seen[i] < seen[j]

\* The fairness of the program that drives the fabric: it configures its
\* routes, it keeps calling Grid::Step, and the Readers keep reading.
FairSpec ==
    /\ Spec
    /\ \A r \in Routes : WF_vars(SetRoute(r[1], r[2], r[3], r[4]))
    /\ WF_vars(Step)
    /\ \A r \in Readers : WF_vars(Fabout(r[1], r[2]))

\* Backpressure on one color does not block another color on the same link
\* (Router.h): a wavelet of a color that is read where its routes end
\* leaves the fabric, even if the other colors are never read and fill up.
Delivered ==
    \A w \in Wavelet :
        (w \in DOMAIN sent /\ \E r \in Readers : r[2] = sent[w].color)
            ~> ~InFlight(w)

=============================================================================
