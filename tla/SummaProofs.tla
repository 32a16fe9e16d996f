---------------------------- MODULE SummaProofs ----------------------------
(***************************************************************************)
(* Proofs about Summa, for meshes, VC depths and shapes of any size.       *)
(*                                                                         *)
(* No wavelet is ever sent off the mesh (NothingIsDropped): a drain task   *)
(* retransmits only towards a neighbour, a seed goes to its own PE, and    *)
(* without routes the fabric sends nothing anywhere else, so that the      *)
(* output VCs that lead off the mesh stay empty.                           *)
(*                                                                         *)
(* A compute task multiplies complete panels of its own step               *)
(* (RendezvousIsComplete), a step leaves nothing behind (StepsAreSeparate),*)
(* and the tiles are the product (ResultIsTheProduct): each panel travels  *)
(* as a stream, of which every PE has taken a prefix; what lies between    *)
(* two neighbours' prefixes is in the one's outbox, its output VC and the  *)
(* other's input VC, in order and once.                                    *)
(***************************************************************************)
EXTENDS Summa, DataLemmas

-----------------------------------------------------------------------------
(* Sums. *)

\* A sum over a finite set of zeros is zero.
LEMMA ZeroSum ==
    ASSUME NEW S, IsFiniteSet(S), NEW g \in [S -> Int], \A x \in S : g[x] = 0
    PROVE  Net!SumFunction(g) = 0
<1>1. DOMAIN g = S
  OBVIOUS
<1>2. Net!SumFunction(g) = Total(S, g)
  BY <1>1 DEF Net!SumFunction, Net!SumFunctionOnSet, Net!FoldFunctionOnSet,
              Net!MapThenFoldSet, Total, TotalOf, IsTotal, OneOf
<1> QED BY <1>2, TotalZero

\* The output VCs that send off the mesh are finitely many.
LEMMA OffGridFinite == IsFiniteSet(Net!OffGrid)
<1> DEFINE T == (PE \X Net!Dir) \X SummaColors
           U == PE \X Net!Dir \X SummaColors
           f == [t \in T |-> <<t[1][1], t[1][2], t[2]>>]
<1>1. IsFiniteSet(PE)
  <2>1. IsFiniteSet(0..P - 1)
    BY FS_Interval, SummaAssumption
  <2> QED BY <2>1, FS_Product DEF PE, Net!PE
<1>2. IsFiniteSet(Net!Dir) /\ IsFiniteSet(SummaColors)
  <2>1. IsFiniteSet(SummaColors)
    <3>1. 0 \in Int /\ 5 \in Int
      OBVIOUS
    <3> QED BY <3>1, FS_Interval DEF SummaColors
  <2>2. IsFiniteSet({"Ramp"} \cup {"East"} \cup {"West"} \cup {"North"} \cup {"South"})
    BY FS_Singleton, FS_Union
  <2>3. Net!Dir = {"Ramp"} \cup {"East"} \cup {"West"} \cup {"North"} \cup {"South"}
    BY DEF Net!Dir
  <2> QED BY <2>1, <2>2, <2>3
<1>3. IsFiniteSet(T)
  BY <1>1, <1>2, FS_Product
<1>4. f \in Surjection(T, U)
  <2>1. \A a \in PE, d \in Net!Dir, c \in SummaColors :
           <<<<a, d>>, c>> \in T /\ f[<<<<a, d>>, c>>] = <<a, d, c>>
    OBVIOUS
  <2>2. f \in [T -> U]
    OBVIOUS
  <2>3. ASSUME NEW u \in U
        PROVE  \E t \in T : f[t] = u
    <3>1. PICK a \in PE, d \in Net!Dir, c \in SummaColors : u = <<a, d, c>>
      OBVIOUS
    <3> HIDE DEF T, f
    <3> QED BY <2>1, <3>1
  <2> HIDE DEF T, U, f
  <2> QED BY <2>2, <2>3 DEF Surjection
<1>5. IsFiniteSet(U)
  BY <1>3, <1>4, FS_Surjection
<1> HIDE DEF T, f
<1> QED BY <1>5, FS_Subset DEF Net!OffGrid, PE

-----------------------------------------------------------------------------
(* The inductive invariant. *)

\* What waits in an outbox is bound for a PE of the mesh.
BoundInward(p, box) ==
    IsSeq(box) /\ \A i \in 1..Len(box) : Net!Hop(p, box[i].dir) \in PE

OutboxesInward ==
    /\ DOMAIN st = PE
    /\ \A p \in PE : "outbox" \in DOMAIN st[p] /\ BoundInward(p, st[p].outbox)

\* An output VC that leads off the mesh.
SilentAtTheEdge(p, d, vc) == Net!Hop(p, d) \notin PE => vc = <<>>

EdgesSilent ==
    \A p \in PE, d \in Net!Dir, c \in SummaColors :
        IsSeq(outVc[p][d][c]) /\ SilentAtTheEdge(p, d, outVc[p][d][c])

\* An input VC, and the bound that keeps its room from being negative.
FitsVc(vc) == IsSeq(vc) /\ Len(vc) <= kVcDepth

InVcsFit == \A p \in PE, c \in SummaColors : FitsVc(inVc[p][c])

EdgeInv == OutboxesInward /\ EdgesSilent /\ InVcsFit /\ NoDrops

LEMMA InitEdgeInv == Init => EdgeInv
<1> SUFFICES ASSUME Init PROVE EdgeInv
  OBVIOUS
<1>1. IsSeq(<<>>) /\ Len(<<>>) = 0
  BY EmptyIsSeq
<1>2. OutboxesInward
  BY <1>1 DEF Init, OutboxesInward, BoundInward
<1>3. EdgesSilent
  BY <1>1 DEF Init, EdgesSilent, SilentAtTheEdge
<1>4. InVcsFit
  BY <1>1, SummaAssumption DEF Init, InVcsFit, FitsVc
<1> QED BY <1>2, <1>3, <1>4 DEF Init, EdgeInv, NoDrops

-----------------------------------------------------------------------------
(* The driver's sends. *)

\* A wavelet pushed towards the inside of the mesh leaves the edges silent.
LEMMA PushKeepsEdges ==
    ASSUME EdgesSilent, NEW q, NEW c, NEW d0, NEW w,
           q \in PE => Net!Hop(q, d0) \in PE,
           outVc' = Net!PushAll(q, c, {d0}, w)
    PROVE  EdgesSilent'
<1> SUFFICES ASSUME NEW p \in PE, NEW d \in Net!Dir, NEW b \in SummaColors
             PROVE  IsSeq(outVc'[p][d][b]) /\ SilentAtTheEdge(p, d, outVc'[p][d][b])
  BY DEF EdgesSilent, SilentAtTheEdge
<1>1. outVc'[p][d][b] = IF p = q /\ d \in {d0} /\ b = c
                        THEN Append(outVc[p][d][b], w) ELSE outVc[p][d][b]
  BY DEF Net!PushAll, PE
<1>2. IsSeq(outVc[p][d][b]) /\ SilentAtTheEdge(p, d, outVc[p][d][b])
  BY DEF EdgesSilent
<1>3. CASE p = q /\ d = d0 /\ b = c
  <2>1. outVc'[p][d][b] = Append(outVc[p][d][b], w) /\ Net!Hop(p, d) \in PE
    BY <1>1, <1>3
  <2>2. IsSeq(Append(outVc[p][d][b], w))
    BY <1>2, AppendIsSeq
  <2> QED BY <2>1, <2>2 DEF SilentAtTheEdge
<1>4. CASE ~(p = q /\ d = d0 /\ b = c)
  BY <1>1, <1>2, <1>4
<1> QED BY <1>3, <1>4

LEMMA FlushKeeps == EdgeInv /\ Flush => EdgeInv'
<1> SUFFICES ASSUME EdgeInv, Flush PROVE EdgeInv'
  OBVIOUS
<1> DEFINE q == PeAt(idx)
           r == Head(st[q].outbox)
           sends == st[q].outbox # <<>> /\ Net!HasRoom(q, r.color, {r.dir})
<1>1. inVc' = inVc /\ dropped' = dropped
  BY DEF Flush
<1>2. CASE sends
  <2>1. /\ outVc' = Net!PushAll(q, r.color, {r.dir}, r.w)
        /\ st' = [st EXCEPT ![q].outbox = Tail(@)]
    BY <1>2 DEF Flush
  <2>2. st[q].outbox # <<>>
    BY <1>2
  <2>3. ASSUME q \in PE
        PROVE  /\ Net!Hop(q, r.dir) \in PE
               /\ BoundInward(q, Tail(st[q].outbox))
    <3>1. BoundInward(q, st[q].outbox)
      BY <2>3 DEF EdgeInv, OutboxesInward
    <3> QED BY <2>2, <3>1, TailIsSeq DEF BoundInward
  <2> HIDE DEF q, r, sends
  <2>4. EdgesSilent'
    BY <2>1, <2>3, PushKeepsEdges DEF EdgeInv
  <2>5. OutboxesInward'
    <3>1. DOMAIN st' = PE
      BY <2>1 DEF EdgeInv, OutboxesInward
    <3>2. ASSUME NEW p \in PE
          PROVE  "outbox" \in DOMAIN st'[p] /\ BoundInward(p, st'[p].outbox)
      <4>1. "outbox" \in DOMAIN st[p] /\ BoundInward(p, st[p].outbox)
        BY DEF EdgeInv, OutboxesInward
      <4>2. CASE p = q
        <5>1. "outbox" \in DOMAIN st'[p] /\ st'[p].outbox = Tail(st[q].outbox)
          BY <2>1, <4>1, <4>2 DEF EdgeInv, OutboxesInward
        <5> QED BY <2>3, <4>2, <5>1
      <4>3. CASE p # q
        <5>1. st'[p] = st[p]
          BY <2>1, <4>3 DEF EdgeInv, OutboxesInward
        <5> QED BY <4>1, <5>1
      <4> QED BY <4>2, <4>3
    <3> QED BY <3>1, <3>2 DEF OutboxesInward, BoundInward
  <2> QED BY <1>1, <2>4, <2>5 DEF EdgeInv, InVcsFit, NoDrops
<1>3. CASE ~sends
  <2>1. outVc' = outVc /\ st' = st
    BY <1>3 DEF Flush
  <2> QED BY <1>1, <2>1
       DEF EdgeInv, OutboxesInward, BoundInward, EdgesSilent, SilentAtTheEdge, InVcsFit, NoDrops
<1> QED BY <1>2, <1>3

LEMMA InjectKeeps == EdgeInv /\ InjectSeed => EdgeInv'
<1> SUFFICES ASSUME EdgeInv, InjectSeed PROVE EdgeInv'
  OBVIOUS
<1>1. inVc' = inVc /\ dropped' = dropped /\ st' = st
  BY DEF InjectSeed
<1>2. EdgesSilent'
  <2>1. CASE outVc' = outVc
    BY <2>1 DEF EdgeInv, EdgesSilent, SilentAtTheEdge
  <2>2. CASE outVc' = Net!PushAll(Seed(cursor).pe, Seed(cursor).color, {"Ramp"},
                                  Seed(cursor).w)
    <3>1. ASSUME NEW q
          PROVE  Net!Hop(q, "Ramp") = q
      BY Zenon DEF Net!Hop
    <3> QED BY <2>2, <3>1, PushKeepsEdges DEF EdgeInv
  <2> QED BY <2>1, <2>2 DEF InjectSeed
<1> QED BY <1>1, <1>2
     DEF EdgeInv, OutboxesInward, BoundInward, InVcsFit, NoDrops

-----------------------------------------------------------------------------
(* A cycle of the fabric. *)

\* Without routes nothing is forwarded.
LEMMA NothingForwarded ==
    ASSUME EdgeInv, NEW p \in PE, NEW c \in SummaColors
    PROVE  /\ IsSeq(Net!InFwd(p, c)) /\ Len(Net!InFwd(p, c)) \in 0..kVcDepth
           /\ \A d \in Net!Dir : Net!OutFwd(p, d, c) = outVc[p][d][c]
<1>1. Net!FwdDirs(p, c) = {}
  BY DEF Net!FwdDirs, PE, Net!PE
<1>2. \A d \in Net!Dir : Net!OutFwd(p, d, c) = outVc[p][d][c]
  BY <1>1 DEF Net!OutFwd
<1>3. IsSeq(inVc[p][c]) /\ Len(inVc[p][c]) <= kVcDepth
  BY DEF EdgeInv, InVcsFit, FitsVc
<1>4. Net!InFwd(p, c) = SubSeq(inVc[p][c], 0 + 1, Len(inVc[p][c]))
  BY <1>1 DEF Net!InFwd, Net!FwdCount
<1>5. Len(inVc[p][c]) \in Nat
  BY <1>3, TypedIsSeq DEF IsSeq
<1>6. 0 \in 0..Len(inVc[p][c])
  BY <1>5
<1>7. IsSeq(Net!InFwd(p, c)) /\ Len(Net!InFwd(p, c)) = Len(inVc[p][c]) - 0
  BY <1>3, <1>4, <1>6, CutIsSeq
<1> QED BY <1>2, <1>3, <1>5, <1>7, SummaAssumption

\* What arrives at a PE is a sequence.
LEMMA ArrivalsAreSeqs ==
    ASSUME EdgeInv, NEW p \in PE, NEW c \in SummaColors
    PROVE  /\ IsSeq(Net!Arrivals(p, c)) /\ Len(Net!Arrivals(p, c)) \in Nat
           /\ \A d \in Net!Dir : Len(Net!Waiting(p, d, c)) \in Nat
<1>1. ASSUME NEW d \in Net!Dir
      PROVE  IsSeq(Net!Waiting(p, d, c))
  <2>1. CASE Net!From(p, d) \in PE
    <3>1. Net!Waiting(p, d, c) = outVc[Net!From(p, d)][d][c]
      BY <2>1, NothingForwarded DEF Net!Waiting, PE
    <3> QED BY <2>1, <3>1 DEF EdgeInv, EdgesSilent
  <2>2. CASE Net!From(p, d) \notin PE
    BY <2>2, EmptyIsSeq DEF Net!Waiting, PE
  <2> QED BY <2>1, <2>2
<1>2. {"Ramp", "East", "West", "North", "South"} = Net!Dir
  BY DEF Net!Dir
<1> DEFINE W(d) == Net!Waiting(p, d, c)
<1>3. Net!Arrivals(p, c) = W("North") \o W("East") \o W("Ramp") \o W("West") \o W("South")
  BY DEF Net!Arrivals
<1>4. /\ IsSeq(W("North")) /\ IsSeq(W("East")) /\ IsSeq(W("Ramp"))
      /\ IsSeq(W("West")) /\ IsSeq(W("South"))
  BY <1>1, <1>2
<1>5. ASSUME NEW q, IsSeq(q)
      PROVE  Len(q) \in Nat
  BY <1>5 DEF IsSeq
<1>6. \A d \in Net!Dir : Len(W(d)) \in Nat
  BY <1>1, <1>5
<1> HIDE DEF W
<1>7. IsSeq(W("North") \o W("East"))
  BY <1>4, ConcatIsSeq
<1>8. IsSeq(W("North") \o W("East") \o W("Ramp"))
  BY <1>4, <1>7, ConcatIsSeq
<1>9. IsSeq(W("North") \o W("East") \o W("Ramp") \o W("West"))
  BY <1>4, <1>8, ConcatIsSeq
<1>10. IsSeq(Net!Arrivals(p, c))
  BY <1>3, <1>4, <1>9, ConcatIsSeq
<1> QED BY <1>5, <1>6, <1>10 DEF W

\* An output VC of the mesh sends a part of what it holds.
LEMMA SentIsPart ==
    ASSUME EdgeInv, NEW p \in PE, NEW d \in Net!Dir, NEW c \in SummaColors
    PROVE  /\ Net!OutFwd(p, d, c) = outVc[p][d][c]
           /\ IsSeq(outVc[p][d][c]) /\ Len(outVc[p][d][c]) \in Nat
           /\ Net!Hop(p, d) \notin PE => outVc[p][d][c] = <<>>
           /\ Net!Sent(p, d, c) \in 0..Len(outVc[p][d][c])
<1>1. /\ Net!OutFwd(p, d, c) = outVc[p][d][c]
      /\ IsSeq(outVc[p][d][c]) /\ Len(outVc[p][d][c]) \in Nat
      /\ Net!Hop(p, d) \notin PE => outVc[p][d][c] = <<>>
  <2>1. Net!OutFwd(p, d, c) = outVc[p][d][c]
    BY NothingForwarded
  <2>2. IsSeq(outVc[p][d][c]) /\ (Net!Hop(p, d) \notin PE => outVc[p][d][c] = <<>>)
    BY DEF EdgeInv, EdgesSilent, SilentAtTheEdge
  <2>3. Len(outVc[p][d][c]) \in Nat
    BY <2>2 DEF IsSeq
  <2> QED BY <2>1, <2>2, <2>3
<1>2. Net!Sent(p, d, c) \in 0..Len(outVc[p][d][c])
  <2> DEFINE n == Len(outVc[p][d][c])
             there == Net!Hop(p, d)
             room == Net!Room(Net!InFwd(there, c)) - Net!Ahead(there, d, c)
  <2>1. n \in Nat
    BY <1>1
  <2>2. Net!Sent(p, d, c) = IF there \notin PE THEN n
                            ELSE IF room <= 0 THEN 0 ELSE Net!Least(n, room)
    BY <1>1 DEF Net!Sent, PE
  <2>3. CASE there \in PE
    <3>1. room \in Int
      <4>1. Net!Room(Net!InFwd(there, c)) \in Int
        BY <2>3, NothingForwarded, SummaAssumption DEF Net!Room
      <4>2. Net!Ahead(there, d, c) \in Int
        <5>1. {"Ramp", "East", "West", "North", "South"} = Net!Dir
          BY DEF Net!Dir
        <5>2. \A e \in Net!Dir : Len(Net!Waiting(there, e, c)) \in Nat
          BY <2>3, ArrivalsAreSeqs
        <5> QED BY <5>1, <5>2 DEF Net!Ahead
      <4> QED BY <4>1, <4>2
    <3> HIDE DEF n, there, room
    <3> QED BY <2>1, <2>2, <2>3, <3>1 DEF Net!Least, n
  <2>4. CASE there \notin PE
    BY <2>1, <2>2, <2>4
  <2> QED BY <2>3, <2>4
<1> QED BY <1>1, <1>2

LEMMA StepKeeps == EdgeInv /\ GridStep => EdgeInv'
<1> SUFFICES ASSUME EdgeInv, GridStep PROVE EdgeInv'
  OBVIOUS
<1>1. st' = st
  BY DEF GridStep
<1>2. ASSUME NEW p \in PE, NEW d \in Net!Dir, NEW c \in SummaColors
      PROVE  /\ Net!OutFwd(p, d, c) = outVc[p][d][c]
             /\ IsSeq(outVc[p][d][c]) /\ Len(outVc[p][d][c]) \in Nat
             /\ Net!Hop(p, d) \notin PE => outVc[p][d][c] = <<>>
             /\ Net!Sent(p, d, c) \in 0..Len(outVc[p][d][c])
  BY SentIsPart
<1>4. EdgesSilent'
  <2> SUFFICES ASSUME NEW p \in PE, NEW d \in Net!Dir, NEW c \in SummaColors
               PROVE  IsSeq(outVc'[p][d][c]) /\ SilentAtTheEdge(p, d, outVc'[p][d][c])
    BY DEF EdgesSilent, SilentAtTheEdge
  <2> DEFINE vc == outVc[p][d][c]
             s == Net!Sent(p, d, c)
  <2>1. outVc'[p][d][c] = SubSeq(vc, s + 1, Len(vc))
    BY <1>2 DEF GridStep, Net!OutHop
  <2>2. s \in 0..Len(vc) /\ IsSeq(vc) /\ (Net!Hop(p, d) \notin PE => vc = <<>>)
    BY <1>2
  <2> HIDE DEF s, vc
  <2>3. IsSeq(SubSeq(vc, s + 1, Len(vc))) /\ Len(SubSeq(vc, s + 1, Len(vc))) = Len(vc) - s
    BY <2>2, CutIsSeq
  <2>4. ASSUME Net!Hop(p, d) \notin PE
        PROVE  SubSeq(vc, s + 1, Len(vc)) = <<>>
    <3>1. vc = <<>> /\ Len(vc) = 0 /\ s = 0
      BY <2>2, <2>4
    <3>2. Len(SubSeq(vc, s + 1, Len(vc))) = 0
      BY <2>3, <3>1
    <3> QED BY <2>3, <3>2 DEF IsSeq
  <2> QED BY <2>1, <2>3, <2>4 DEF SilentAtTheEdge
<1>5. InVcsFit'
  <2> SUFFICES ASSUME NEW p \in PE, NEW c \in SummaColors
               PROVE  FitsVc(inVc'[p][c])
    BY DEF InVcsFit, FitsVc
  <2> DEFINE a == Net!InFwd(p, c)
             b == Net!Arrivals(p, c)
             k == Net!Least(Len(b), Net!Room(a))
  <2>1. inVc'[p][c] = a \o SubSeq(b, 1, k)
    BY DEF GridStep, Net!InHop
  <2>2. IsSeq(a) /\ Len(a) \in 0..kVcDepth /\ IsSeq(b) /\ Len(b) \in Nat
    BY NothingForwarded, ArrivalsAreSeqs
  <2> HIDE DEF a, b
  <2>3. k \in 0..Len(b) /\ k <= kVcDepth - Len(a)
    BY <2>2, SummaAssumption DEF Net!Least, Net!Room
  <2> HIDE DEF k
  <2>4. IsSeq(SubSeq(b, 1, k)) /\ Len(SubSeq(b, 1, k)) = k
    BY <2>2, <2>3, CutIsSeq
  <2>5. IsSeq(a \o SubSeq(b, 1, k)) /\ Len(a \o SubSeq(b, 1, k)) = Len(a) + k
    BY <2>2, <2>4, ConcatIsSeq
  <2> QED BY <2>1, <2>2, <2>3, <2>5, SummaAssumption DEF FitsVc
<1>6. NoDrops'
  <2> DEFINE g == [m \in Net!OffGrid |-> Net!Sent(m[1], m[2], m[3])]
  <2>1. dropped' = dropped + Net!SumFunction(g)
    BY DEF GridStep, Net!SumOver
  <2>2. \A m \in Net!OffGrid : g[m] = 0
    <3> SUFFICES ASSUME NEW m \in Net!OffGrid PROVE Net!Sent(m[1], m[2], m[3]) = 0
      OBVIOUS
    <3>1. /\ m[1] \in PE /\ m[2] \in Net!Dir /\ m[3] \in SummaColors
          /\ Net!Hop(m[1], m[2]) \notin PE
      BY DEF Net!OffGrid, PE
    <3>2. Net!OutFwd(m[1], m[2], m[3]) = <<>>
      BY <1>2, <3>1
    <3> QED BY <3>1, <3>2 DEF Net!Sent, PE
  <2>3. Net!SumFunction(g) = 0
    <3>1. g \in [Net!OffGrid -> Int]
      <4>1. \A m \in Net!OffGrid : g[m] \in Int
        BY <2>2
      <4> QED BY <4>1
    <3> HIDE DEF g
    <3> QED BY <2>2, <3>1, OffGridFinite, ZeroSum
  <2> QED BY <2>1, <2>3 DEF EdgeInv, NoDrops
<1>7. OutboxesInward'
  BY <1>1 DEF EdgeInv, OutboxesInward, BoundInward
<1> QED BY <1>4, <1>5, <1>6, <1>7 DEF EdgeInv

-----------------------------------------------------------------------------
(* The tasks of the PEs. *)

\* What a drain task retransmits is bound for the mesh.
LEMMA OnwardIsInward ==
    ASSUME NEW p, NEW c, NEW d, NEW ws, IsSeq(ws)
    PROVE  BoundInward(p, Onward(p, c, d, ws))
<1>1. CASE Net!Hop(p, d) \in PE
  <2> DEFINE m == Len(ws)
             r == [i \in 1..m |-> [color |-> c, dir |-> d, w |-> ws[i]]]
  <2>1. m \in Nat /\ DOMAIN ws = 1..m
    BY DEF IsSeq
  <2>2. Onward(p, c, d, ws) = r
    BY <1>1, <2>1 DEF Onward, Retx
  <2> HIDE DEF m
  <2>3. \A i \in 1..m : r[i].dir = d
    OBVIOUS
  <2>4. r \in Seq({r[i] : i \in 1..m}) /\ Len(r) = m
    BY <2>1
  <2> HIDE DEF r
  <2>5. IsSeq(r)
    BY <2>4, TypedIsSeq
  <2> QED BY <1>1, <2>2, <2>3, <2>4, <2>5 DEF BoundInward
<1>2. CASE Net!Hop(p, d) \notin PE
  BY <1>2, EmptyIsSeq DEF Onward, BoundInward
<1> QED BY <1>1, <1>2

LEMMA BoundInwardJoin ==
    ASSUME NEW p, NEW q, NEW r, BoundInward(p, q), BoundInward(p, r)
    PROVE  BoundInward(p, q \o r)
<1>1. /\ IsSeq(q \o r) /\ Len(q) \in Nat /\ Len(r) \in Nat
      /\ Len(q \o r) = Len(q) + Len(r)
      /\ \A i \in 1..Len(q) : (q \o r)[i] = q[i]
      /\ \A i \in Len(q) + 1..Len(q) + Len(r) :
            i - Len(q) \in 1..Len(r) /\ (q \o r)[i] = r[i - Len(q)]
  BY ConcatIsSeq DEF BoundInward
<1>2. ASSUME NEW i \in 1..Len(q \o r)
      PROVE  Net!Hop(p, (q \o r)[i].dir) \in PE
  <2>1. CASE i \in 1..Len(q)
    BY <1>1, <2>1 DEF BoundInward
  <2>2. CASE i \in Len(q) + 1..Len(q) + Len(r)
    BY <1>1, <2>2 DEF BoundInward
  <2> QED BY <1>1, <2>1, <2>2
<1> QED BY <1>1, <1>2 DEF BoundInward

LEMMA DrainKeeps == EdgeInv /\ Drain => EdgeInv'
<1> SUFFICES ASSUME EdgeInv, Drain PROVE EdgeInv'
  OBVIOUS
<1>1. outVc' = outVc /\ dropped' = dropped
  BY DEF Drain
<1>2. ASSUME NEW p \in PE, NEW c \in SummaColors
      PROVE  IsSeq(inVc[p][c]) /\ FitsVc(inVc'[p][c])
  BY EmptyIsSeq, SummaAssumption DEF EdgeInv, InVcsFit, FitsVc, Drain
<1>3. OutboxesInward'
  <2>1. DOMAIN st' = PE
    BY DEF Drain
  <2>2. ASSUME NEW p \in PE
        PROVE  "outbox" \in DOMAIN st'[p] /\ BoundInward(p, st'[p].outbox)
    <3> DEFINE on(c, d) == Onward(p, c, d, inVc[p][c])
    <3>1. "outbox" \in DOMAIN st[p] /\ BoundInward(p, st[p].outbox)
      BY DEF EdgeInv, OutboxesInward
    <3>2. /\ "outbox" \in DOMAIN st'[p]
          /\ st'[p].outbox = st[p].outbox \o on(aColor[1], "East")
                                \o on(aColor[2], "East")
                                \o on(bColor[1], "South") \o on(bColor[2], "South")
      <4>1. st'[p] = Drained(p)
        BY DEF Drain
      <4> QED BY <3>1, <4>1 DEF Drained
    <3>3. /\ aColor[1] \in SummaColors /\ aColor[2] \in SummaColors
          /\ bColor[1] \in SummaColors /\ bColor[2] \in SummaColors
      BY DEF aColor, bColor, SummaColors
    <3>4. /\ BoundInward(p, on(aColor[1], "East")) /\ BoundInward(p, on(aColor[2], "East"))
          /\ BoundInward(p, on(bColor[1], "South")) /\ BoundInward(p, on(bColor[2], "South"))
      BY <1>2, <3>3, OnwardIsInward
    <3> HIDE DEF on
    <3>5. BoundInward(p, st[p].outbox \o on(aColor[1], "East"))
      BY <3>1, <3>4, BoundInwardJoin
    <3>6. BoundInward(p, st[p].outbox \o on(aColor[1], "East") \o on(aColor[2], "East"))
      BY <3>4, <3>5, BoundInwardJoin
    <3>7. BoundInward(p, st[p].outbox \o on(aColor[1], "East") \o on(aColor[2], "East")
                            \o on(bColor[1], "South"))
      BY <3>4, <3>6, BoundInwardJoin
    <3> QED BY <3>2, <3>4, <3>7, BoundInwardJoin
  <2> QED BY <2>1, <2>2 DEF OutboxesInward, BoundInward
<1>4. InVcsFit'
  BY <1>2 DEF InVcsFit, FitsVc
<1> QED BY <1>1, <1>3, <1>4 DEF EdgeInv, EdgesSilent, SilentAtTheEdge, NoDrops

LEMMA ComputeKeeps == EdgeInv /\ Compute => EdgeInv'
<1> SUFFICES ASSUME EdgeInv, Compute PROVE EdgeInv'
  OBVIOUS
<1>1. outVc' = outVc /\ dropped' = dropped
  BY DEF Compute
<1>2. OutboxesInward'
  <2>1. DOMAIN st' = PE
    BY DEF Compute
  <2>2. ASSUME NEW p \in PE
        PROVE  "outbox" \in DOMAIN st'[p] /\ st'[p].outbox = st[p].outbox
    <3>1. st'[p] = IF Runnable(p) THEN Computed(p) ELSE st[p]
      BY DEF Compute
    <3>2. "outbox" \in DOMAIN st[p]
      BY DEF EdgeInv, OutboxesInward
    <3>3. "outbox" \in DOMAIN Computed(p) /\ Computed(p).outbox = st[p].outbox
      BY <3>2 DEF Computed
    <3> QED BY <3>1, <3>2, <3>3
  <2> QED BY <2>1, <2>2 DEF EdgeInv, OutboxesInward, BoundInward
<1>3. ASSUME NEW p \in PE, NEW c \in SummaColors
      PROVE  FitsVc(inVc'[p][c])
  <2>1. FitsVc(inVc[p][c])
    BY DEF EdgeInv, InVcsFit
  <2>2. CASE Runnable(p) /\ c \in TokenColors
    <3>1. inVc'[p][c] = Tail(inVc[p][c]) /\ inVc[p][c] # <<>>
      BY <2>2 DEF Compute, Runnable
    <3> HIDE <2>2
    <3> QED BY <2>1, <3>1, TailIsSeq, SummaAssumption DEF FitsVc
  <2>3. CASE ~(Runnable(p) /\ c \in TokenColors)
    <3>1. inVc'[p][c] = inVc[p][c]
      BY <2>3 DEF Compute
    <3> QED BY <2>1, <3>1
  <2> QED BY <2>2, <2>3
<1>4. InVcsFit'
  BY <1>3 DEF InVcsFit, FitsVc
<1> QED BY <1>1, <1>2, <1>4 DEF EdgeInv, EdgesSilent, SilentAtTheEdge, NoDrops

LEMMA TokensKeeps == EdgeInv /\ Tokens => EdgeInv'
<1> SUFFICES ASSUME EdgeInv, Tokens PROVE EdgeInv'
  OBVIOUS
<1>1. outVc' = outVc /\ dropped' = dropped
  BY DEF Tokens
<1> DEFINE x == {p \in PE : ~st[p].aToken /\ PanelDone(st[p].aCount)}
           y == {p \in PE : /\ ~breakRendezvous
                            /\ ~st[p].bToken /\ PanelDone(st[p].bCount)}
<1>2. /\ st' = [p \in PE |-> [st[p] EXCEPT !.aToken = @ \/ p \in x,
                                           !.bToken = @ \/ p \in y]]
      /\ inVc' = [p \in PE |-> [c \in SummaColors |->
             IF (c = xDone /\ p \in x) \/ (c = yDone /\ p \in y)
             THEN WithToken(inVc[p][c]) ELSE inVc[p][c]]]
  BY DEF Tokens
<1> HIDE DEF x, y
<1>3. OutboxesInward'
  <2>1. DOMAIN st' = PE
    BY <1>2
  <2>2. ASSUME NEW p \in PE
        PROVE  "outbox" \in DOMAIN st'[p] /\ st'[p].outbox = st[p].outbox
    <3>1. "outbox" \in DOMAIN st[p]
      BY DEF EdgeInv, OutboxesInward
    <3> QED BY <1>2, <3>1
  <2> QED BY <2>1, <2>2 DEF EdgeInv, OutboxesInward, BoundInward
<1>4. ASSUME NEW p \in PE, NEW c \in SummaColors
      PROVE  FitsVc(inVc'[p][c])
  <2>1. FitsVc(inVc[p][c])
    BY DEF EdgeInv, InVcsFit
  <2>2. FitsVc(WithToken(inVc[p][c]))
    <3>1. CASE Len(inVc[p][c]) < kVcDepth
      <4>1. WithToken(inVc[p][c]) = Append(inVc[p][c], [control |-> 0, data |-> Zero])
        BY <3>1 DEF WithToken
      <4>2. IsSeq(inVc[p][c])
        BY <2>1 DEF FitsVc
      <4> QED BY <3>1, <4>1, <4>2, AppendIsSeq, SummaAssumption DEF FitsVc
    <3>2. CASE ~(Len(inVc[p][c]) < kVcDepth)
      BY <2>1, <3>2 DEF WithToken
    <3> QED BY <3>1, <3>2
  <2> QED BY <1>2, <2>1, <2>2
<1>5. InVcsFit'
  BY <1>4 DEF InVcsFit, FitsVc
<1> QED BY <1>1, <1>3, <1>5 DEF EdgeInv, EdgesSilent, SilentAtTheEdge, NoDrops

-----------------------------------------------------------------------------
(* The theorem. *)

\* On a mesh of any size, with VCs of any depth and for every plan, the output
\* VCs that lead off the mesh are empty and what waits in an outbox is bound
\* for a neighbour (Retx and the edge tests of the drain tasks, Summa.cpp).
THEOREM SpecEdgeInv == Spec => []EdgeInv
<1>1. Init => EdgeInv
  BY InitEdgeInv
<1>2. EdgeInv /\ [Next]_vars => EdgeInv'
  <2> SUFFICES ASSUME EdgeInv, [Next]_vars PROVE EdgeInv'
    OBVIOUS
  <2>1. ASSUME UNCHANGED <<mesh, st>>
        PROVE  EdgeInv'
    BY <2>1 DEF mesh, EdgeInv, OutboxesInward, BoundInward, EdgesSilent,
                SilentAtTheEdge, InVcsFit, NoDrops
  <2>2. CASE Flush
    BY <2>2, FlushKeeps
  <2>3. CASE InjectSeed
    BY <2>3, InjectKeeps
  <2>4. CASE GridStep
    BY <2>4, StepKeeps
  <2>5. CASE Drain
    BY <2>5, DrainKeeps
  <2>6. CASE Compute
    BY <2>6, ComputeKeeps
  <2>7. CASE Tokens
    BY <2>7, TokensKeeps
  <2>8. CASE Quiescent \/ Check \/ Done \/ UNCHANGED vars
    <3>1. UNCHANGED <<mesh, st>>
      BY <2>8 DEF Quiescent, Check, Done, vars, mesh
    <3> QED BY <2>1, <3>1
  <2> QED BY <2>2, <2>3, <2>4, <2>5, <2>6, <2>7, <2>8 DEF Next, RunSumma
<1> QED BY <1>1, <1>2, PTL DEF Spec

\* "wavelets dropped at the mesh edge (0 expected)" (Summa.h): no run of
\* RunSumma, on any mesh, drops a wavelet.
THEOREM NothingIsDropped == Spec => []NoDrops
<1>1. EdgeInv => NoDrops
  BY DEF EdgeInv
<1> QED BY <1>1, SpecEdgeInv, PTL

-----------------------------------------------------------------------------
(* The panels as streams.  In a step the panel of A of row y travels east  *)
(* through the row, and the panel of B of column x south through the       *)
(* column, each element in one wavelet.                                    *)

\* The streams of the step: the broken rendezvous sends no B.
Streams == IF breakRendezvous THEN {"A"} ELSE {"A", "B"}

Way(k) == IF k = "A" THEN "East" ELSE "South"
ColorOf(k) == IF k = "A" THEN aColor[Parity] ELSE bColor[Parity]

\* The PE a stream reaches p from, and the one it goes to from p.
Source(k, p) == Net!From(p, Way(k))
Onto(k, p) == Net!Hop(p, Way(k))

\* The place of the stream that enters at p among the seeds of a panel index.
Slot(k, p) == IF k = "A" THEN p[2] ELSE P + p[1]

\* Element t of the panel that stream k brings to p, and its wavelet.
Element(k, p, t) == IF k = "A" THEN AElement(p[2], t) ELSE BElement(p[1], t)
WaveletOf(k, p, t) == [control |-> t % IndexSpan, data |-> Element(k, p, t)]

HasComputed(p) == st[p].stepsDone = step + 1

\* How many elements of the step's panel the CE of p has taken, those it has
\* computed with included; what waits in its input VC; what waits in the
\* output VC that leads there; and how many elements were sent towards p.
Taken(k, p) == IF HasComputed(p) THEN panelSize
               ELSE IF k = "A" THEN st[p].aCount ELSE st[p].bCount
Arrived(k, p) == inVc[p][ColorOf(k)]
Feed(k, p) == IF Source(k, p) \in PE THEN outVc[Source(k, p)][Way(k)][ColorOf(k)]
              ELSE outVc[p]["Ramp"][ColorOf(k)]
SentTo(k, p) == Taken(k, p) + Len(Arrived(k, p)) + Len(Feed(k, p))

\* vc holds the wavelets of the stream from element n on.
IsRun(vc, k, p, n) ==
    IsSeq(vc) /\ \A i \in 1..Len(vc) : vc[i] = WaveletOf(k, p, n + i - 1)

-----------------------------------------------------------------------------
(* The inductive invariant of the rendezvous. *)

PlanInv ==
    /\ breakRendezvous \in BOOLEAN
    /\ plan.T \in Nat \ {0} /\ plan.TK \in Nat \ {0} /\ plan.steps \in Nat \ {0}
    /\ panelSize <= IndexSpan
    /\ step \in Nat /\ cursor \in Nat
    /\ IF pc = "done" THEN step = plan.steps /\ \A p \in PE : ~HasComputed(p)
       ELSE step < plan.steps

\* The state of a PE: what it has counted, and its two flags.
IsPe(s) ==
    /\ s = [aBuf |-> s.aBuf, bBuf |-> s.bBuf, cTile |-> s.cTile, outbox |-> s.outbox,
            aCount |-> s.aCount, bCount |-> s.bCount, stepsDone |-> s.stepsDone,
            aToken |-> s.aToken, bToken |-> s.bToken]
    /\ s.aCount \in 0..panelSize /\ s.bCount \in 0..panelSize
    /\ s.stepsDone \in {step, step + 1}
    /\ s.aToken \in BOOLEAN /\ s.bToken \in BOOLEAN
    /\ s.aToken => s.aCount = panelSize
    /\ s.bToken => s.bCount = panelSize
    /\ s.stepsDone = step + 1 => s.aCount = 0 /\ s.bCount = 0
    /\ breakRendezvous => s.bCount = 0

PesInv == DOMAIN st = PE /\ \A p \in PE : IsPe(st[p])

\* A panel buffer holds the first n elements of the panel.
Holds(buf, k, p, n) ==
    buf = [t \in Panel |-> IF t < n THEN Element(k, p, t) ELSE Zero]

BuffersInv ==
    \A p \in PE : /\ Holds(st[p].aBuf, "A", p, st[p].aCount)
                  /\ Holds(st[p].bBuf, "B", p, st[p].bCount)

\* A token waits in its VC exactly as long as the flag is up.
IsTokenVc(vc, up) == IsSeq(vc) /\ Len(vc) = IF up THEN 1 ELSE 0

TokensInv ==
    \A p \in PE : /\ IsTokenVc(inVc[p][xDone], st[p].aToken)
                  /\ IsTokenVc(inVc[p][yDone], st[p].bToken)

\* The two VCs on the way to p hold the elements that follow those p has taken.
RunsInv ==
    \A k \in Streams, p \in PE :
        /\ IsRun(Arrived(k, p), k, p, Taken(k, p))
        /\ IsRun(Feed(k, p), k, p, Taken(k, p) + Len(Arrived(k, p)))

\* Nothing is sent towards p that the PE before it has not taken or, where the
\* stream enters the mesh, that is not one of the seeds injected so far.
GivenInv ==
    \A k \in Streams, p \in PE :
        IF Source(k, p) \in PE THEN SentTo(k, p) <= Taken(k, Source(k, p))
        ELSE /\ SentTo(k, p) <= panelSize
             /\ \A t \in Panel : t < SentTo(k, p) <=> t * PerIndex + Slot(k, p) < cursor

\* An outbox entry that takes one of the elements lo..hi - 1 onward from p.
IsRetx(e, k, p, lo, hi) ==
    /\ Onto(k, p) \in PE
    /\ e.color = ColorOf(k) /\ e.dir = Way(k)
    /\ e.w.control \in lo..hi - 1 /\ e.w = WaveletOf(k, p, e.w.control)

\* An outbox of p holds, of every stream, the elements lo..hi - 1 in order.
Boxed(box, p, lo, hi) ==
    /\ IsSeq(box)
    /\ \A i \in 1..Len(box) : \E k \in Streams : IsRetx(box[i], k, p, lo[k], hi[k])
    /\ \A i, j \in 1..Len(box) :
          i < j /\ box[i].dir = box[j].dir => box[i].w.control < box[j].w.control
    /\ \A k \in Streams : Onto(k, p) \in PE =>
          \A t \in lo[k]..hi[k] - 1 :
              \E i \in 1..Len(box) : box[i].dir = Way(k) /\ box[i].w.control = t

\* Between what was sent to the next PE and what p has taken lies the outbox.
SentOn(p) == [k \in Streams |-> IF Onto(k, p) \in PE THEN SentTo(k, Onto(k, p)) ELSE 0]
TakenAt(p) == [k \in Streams |-> Taken(k, p)]

BoxesInv == \A p \in PE : Boxed(st[p].outbox, p, SentOn(p), TakenAt(p))

\* The other VCs are empty.
Carries(p, d, c, k) ==
    c = ColorOf(k) /\ (d = Way(k) \/ (d = "Ramp" /\ Source(k, p) \notin PE))

Silent(vcs) ==
    \A p \in PE, d \in Net!Dir, c \in SummaColors :
        (\A k \in Streams : ~Carries(p, d, c, k)) => vcs[p][d][c] = <<>>

SilenceInv ==
    /\ \A p \in PE, c \in PanelColors :
          (\A k \in Streams : c # ColorOf(k)) => inVc[p][c] = <<>>
    /\ Silent(outVc)

PanelInv ==
    PlanInv /\ PesInv /\ BuffersInv /\ TokensInv /\ RunsInv /\ GivenInv /\ BoxesInv
    /\ SilenceInv

-----------------------------------------------------------------------------
(* The mesh and the colors. *)

LEMMA Compass ==
    /\ \A p : /\ Net!Hop(p, "East") = <<p[1] + 1, p[2]>>
              /\ Net!Hop(p, "South") = <<p[1], p[2] - 1>>
              /\ Net!Hop(p, "Ramp") = p
    /\ \A p : /\ Net!From(p, "East") = <<p[1] - 1, p[2]>>
              /\ Net!From(p, "South") = <<p[1], p[2] + 1>>
              /\ Net!From(p, "Ramp") = p
BY Zenon DEF Net!Hop, Net!From

LEMMA Ways ==
    /\ Way("A") = "East" /\ Way("B") = "South"
    /\ \A p : /\ Source("A", p) = <<p[1] - 1, p[2]>> /\ Onto("A", p) = <<p[1] + 1, p[2]>>
              /\ Source("B", p) = <<p[1], p[2] + 1>> /\ Onto("B", p) = <<p[1], p[2] - 1>>
<1>1. Way("A") = "East" /\ Way("B") = "South"
  BY DEF Way
<1> QED BY <1>1, Compass, Zenon DEF Source, Onto

\* The PE before the next one, and the one after the source, is p itself.
LEMMA Neighbours ==
    ASSUME NEW k \in {"A", "B"}, NEW p \in PE
    PROVE  /\ Way(k) \in Net!Dir /\ Way(k) # "Ramp"
           /\ Onto(k, Source(k, p)) = p /\ Source(k, Onto(k, p)) = p
<1>1. PICK x \in Int, y \in Int : p = <<x, y>>
  BY SummaAssumption DEF PE, Net!PE
<1>2. p[1] = x /\ p[2] = y /\ x - 1 + 1 = x /\ x + 1 - 1 = x /\ y - 1 + 1 = y /\ y + 1 - 1 = y
  BY <1>1
<1>3. Way(k) \in Net!Dir /\ Way(k) # "Ramp"
  BY DEF Way, Net!Dir
<1>4. CASE k = "A"
  <2>1. Source(k, p) = <<x - 1, y>> /\ Onto(k, p) = <<x + 1, y>>
    BY <1>2, <1>4, Ways
  <2>2. PICK q, r : q = <<x - 1, y>> /\ r = <<x + 1, y>>
    OBVIOUS
  <2>3. q[1] = x - 1 /\ q[2] = y /\ r[1] = x + 1 /\ r[2] = y
    BY <2>2
  <2>4. Onto("A", q) = <<q[1] + 1, q[2]>> /\ Source("A", r) = <<r[1] - 1, r[2]>>
    BY Ways
  <2> QED BY <1>1, <1>2, <1>3, <1>4, <2>1, <2>2, <2>3, <2>4
<1>5. CASE k = "B"
  <2>1. Source(k, p) = <<x, y + 1>> /\ Onto(k, p) = <<x, y - 1>>
    BY <1>2, <1>5, Ways
  <2>2. PICK q, r : q = <<x, y + 1>> /\ r = <<x, y - 1>>
    OBVIOUS
  <2>3. q[1] = x /\ q[2] = y + 1 /\ r[1] = x /\ r[2] = y - 1
    BY <2>2
  <2>4. Onto("B", q) = <<q[1], q[2] - 1>> /\ Source("B", r) = <<r[1], r[2] + 1>>
    BY Ways
  <2> QED BY <1>1, <1>2, <1>3, <1>5, <2>1, <2>2, <2>3, <2>4
<1> QED BY <1>4, <1>5

\* A stream carries the same panel all along its way.
LEMMA SameAlong ==
    ASSUME NEW k \in {"A", "B"}, NEW p \in PE
    PROVE  \A t : WaveletOf(k, Onto(k, p), t) = WaveletOf(k, p, t)
<1>1. CASE k = "A"
  <2>1. Onto(k, p)[2] = p[2]
    <3>1. Onto("A", p) = <<p[1] + 1, p[2]>>
      BY Ways
    <3> QED BY <1>1, <3>1
  <2> QED BY <1>1, <2>1 DEF WaveletOf, Element
<1>2. CASE k = "B"
  <2>1. Onto(k, p)[1] = p[1]
    <3>1. Onto("B", p) = <<p[1], p[2] - 1>>
      BY Ways
    <3> QED BY <1>2, <3>1
  <2> QED BY <1>2, <2>1 DEF WaveletOf, Element
<1> QED BY <1>1, <1>2

LEMMA StreamColors ==
    ASSUME PlanInv
    PROVE  /\ Streams \subseteq {"A", "B"} /\ "A" \in Streams
           /\ ColorOf("A") \in {0, 1} /\ ColorOf("B") \in {2, 3}
           /\ \A k \in {"A", "B"} : ColorOf(k) \in PanelColors
           /\ PanelColors = {0, 1, 2, 3} /\ PanelColors \subseteq SummaColors
<1>1. Parity \in {1, 2}
  BY DEF Parity, PlanInv
<1> QED BY <1>1 DEF Streams, ColorOf, PanelColors, aColor, bColor, SummaColors

-----------------------------------------------------------------------------
(* Runs of a stream. *)

LEMMA EmptyRun == ASSUME NEW k, NEW p, NEW n PROVE IsRun(<<>>, k, p, n)
BY EmptyIsSeq DEF IsRun

LEMMA AppendRun ==
    ASSUME NEW k, NEW p, NEW n \in Nat, NEW vc, IsRun(vc, k, p, n)
    PROVE  IsRun(Append(vc, WaveletOf(k, p, n + Len(vc))), k, p, n)
<1> DEFINE w == WaveletOf(k, p, n + Len(vc))
<1>1. /\ IsSeq(Append(vc, w)) /\ Len(vc) \in Nat
      /\ Len(Append(vc, w)) = Len(vc) + 1
      /\ Append(vc, w)[Len(vc) + 1] = w
      /\ \A i \in 1..Len(vc) : Append(vc, w)[i] = vc[i]
  <2> HIDE DEF w
  <2> QED BY AppendIsSeq DEF IsRun
<1>2. n + (Len(vc) + 1) - 1 = n + Len(vc)
  BY <1>1
<1>3. ASSUME NEW i \in 1..Len(vc) + 1
      PROVE  Append(vc, w)[i] = WaveletOf(k, p, n + i - 1)
  <2>1. CASE i = Len(vc) + 1
    BY <1>1, <1>2, <2>1
  <2>2. CASE i # Len(vc) + 1
    <3>1. i \in 1..Len(vc)
      BY <1>1, <2>2
    <3> HIDE DEF w
    <3> QED BY <1>1, <3>1 DEF IsRun
  <2> QED BY <2>1, <2>2
<1> HIDE DEF w
<1> QED BY <1>1, <1>3 DEF IsRun, w

\* Elements move from the front of one VC to the end of the next.
LEMMA MoveRun ==
    ASSUME NEW k, NEW p, NEW n \in Nat, NEW a, NEW b,
           IsRun(a, k, p, n), IsRun(b, k, p, n + Len(a)), NEW m \in 0..Len(b)
    PROVE  /\ Len(a) \in Nat /\ Len(b) \in Nat
           /\ Len(a \o SubSeq(b, 1, m)) = Len(a) + m
           /\ Len(SubSeq(b, m + 1, Len(b))) = Len(b) - m
           /\ IsRun(a \o SubSeq(b, 1, m), k, p, n)
           /\ IsRun(SubSeq(b, m + 1, Len(b)), k, p, n + (Len(a) + m))
<1>1. IsSeq(a) /\ IsSeq(b) /\ Len(a) \in Nat /\ Len(b) \in Nat
  BY DEF IsRun, IsSeq
<1> DEFINE f == SubSeq(b, 1, m)
           g == SubSeq(b, m + 1, Len(b))
<1>2. /\ IsSeq(f) /\ IsSeq(g) /\ Len(f) = m /\ Len(g) = Len(b) - m
  BY <1>1, CutIsSeq
<1>3. \A i \in 1..m : f[i] = b[i]
  <2>1. b \in Seq({b[i] : i \in DOMAIN b})
    BY <1>1 DEF IsSeq
  <2> QED BY <1>1, <2>1, SubSeqProperties
<1>4. \A i \in 1..Len(b) - m : g[i] = b[m + i] /\ m + i \in 1..Len(b)
  <2>1. b \in Seq({b[i] : i \in DOMAIN b})
    BY <1>1 DEF IsSeq
  <2>2. \A i \in 1..Len(b) - m : m + 1 + i - 1 = m + i /\ m + i \in 1..Len(b)
    BY <1>1
  <2> QED BY <1>1, <2>1, <2>2, SubSeqProperties, SMTT(30)
<1> HIDE DEF f, g
<1>5. /\ IsSeq(a \o f) /\ Len(a \o f) = Len(a) + m
      /\ \A i \in 1..Len(a) : (a \o f)[i] = a[i]
      /\ \A i \in Len(a) + 1..Len(a) + m :
            i - Len(a) \in 1..m /\ (a \o f)[i] = f[i - Len(a)]
  BY <1>1, <1>2, ConcatIsSeq
<1>6. ASSUME NEW i \in 1..Len(a) + m
      PROVE  (a \o f)[i] = WaveletOf(k, p, n + i - 1)
  <2>1. CASE i \in 1..Len(a)
    BY <1>5, <2>1 DEF IsRun
  <2>2. CASE i \in Len(a) + 1..Len(a) + m
    <3> DEFINE j == i - Len(a)
    <3>1. j \in 1..m /\ j \in 1..Len(b) /\ (a \o f)[i] = b[j] /\ j \in Int
      BY <1>1, <1>3, <1>5, <2>2
    <3>2. n + Len(a) + j - 1 = n + i - 1
      BY <1>1
    <3>3. \A h \in 1..Len(b) : b[h] = WaveletOf(k, p, n + Len(a) + h - 1)
      BY DEF IsRun
    <3>4. b[j] = WaveletOf(k, p, n + Len(a) + j - 1)
      BY <3>1, <3>3
    <3> QED BY <3>1, <3>2, <3>4
  <2>3. i \in 1..Len(a) \/ i \in Len(a) + 1..Len(a) + m
    <3>1. m \in Int
      BY <1>1
    <3> QED BY <1>1, <3>1
  <2> QED BY <2>1, <2>2, <2>3
<1>7. ASSUME NEW i \in 1..Len(b) - m
      PROVE  g[i] = WaveletOf(k, p, n + (Len(a) + m) + i - 1)
  <2>1. n + Len(a) + (m + i) - 1 = n + (Len(a) + m) + i - 1
    BY <1>1
  <2>2. b[m + i] = WaveletOf(k, p, n + Len(a) + (m + i) - 1)
    BY <1>4 DEF IsRun
  <2> QED BY <1>4, <2>1, <2>2
<1> QED BY <1>1, <1>2, <1>5, <1>6, <1>7 DEF IsRun, f, g

-----------------------------------------------------------------------------
(* Outboxes. *)

\* An element of a panel is told by its control half.
LEMMA ControlIsIndex ==
    ASSUME PlanInv, NEW k, NEW p, NEW t \in Nat, t < panelSize
    PROVE  WaveletOf(k, p, t).control = t
<1>1. IndexSpan \in Nat /\ panelSize \in Int /\ t < IndexSpan
  BY SummaAssumption DEF PlanInv, panelSize
<1>2. t % IndexSpan = t
  BY <1>1
<1> QED BY <1>2 DEF WaveletOf

LEMMA WaysDiffer == \A j, k \in {"A", "B"} : Way(j) = Way(k) => j = k
BY Ways

\* The head of an outbox is the next element of its stream.
LEMMA BoxedHead ==
    ASSUME PlanInv, NEW p \in PE, NEW box, NEW lo \in [Streams -> Nat],
           NEW hi \in [Streams -> Nat], Boxed(box, p, lo, hi), box # <<>>
    PROVE  \E k \in Streams :
              /\ Onto(k, p) \in PE
              /\ Head(box).color = ColorOf(k) /\ Head(box).dir = Way(k)
              /\ Head(box).w = WaveletOf(k, p, lo[k]) /\ lo[k] < hi[k]
              /\ Boxed(Tail(box), p, [lo EXCEPT ![k] = @ + 1], hi)
<1>1. /\ IsSeq(box) /\ IsSeq(Tail(box)) /\ Len(box) \in Nat \ {0}
      /\ Len(Tail(box)) = Len(box) - 1 /\ Head(box) = box[1]
      /\ \A i \in 1..Len(box) - 1 : i + 1 \in 1..Len(box) /\ Tail(box)[i] = box[i + 1]
  BY TailIsSeq DEF Boxed
<1>2. 1 \in 1..Len(box)
  BY <1>1
<1>3. PICK k \in Streams : IsRetx(box[1], k, p, lo[k], hi[k])
  BY <1>2 DEF Boxed
<1>4. lo[k] \in Nat /\ hi[k] \in Nat
  OBVIOUS
<1>5. lo[k] \in lo[k]..hi[k] - 1 /\ Onto(k, p) \in PE
  BY <1>3, <1>4 DEF IsRetx
<1>6. box[1].w.control = lo[k]
  <2>1. PICK i \in 1..Len(box) : box[i].dir = Way(k) /\ box[i].w.control = lo[k]
    BY <1>5 DEF Boxed
  <2>2. CASE i = 1
    BY <2>1, <2>2
  <2>3. CASE i # 1
    <3>1. 1 < i /\ box[1].dir = box[i].dir
      BY <1>1, <1>3, <2>1, <2>3 DEF IsRetx
    <3>2. box[1].w.control < box[i].w.control
      BY <1>2, <3>1 DEF Boxed
    <3>3. box[1].w.control \in lo[k]..hi[k] - 1
      BY <1>3 DEF IsRetx
    <3> QED BY <1>4, <2>1, <3>2, <3>3
  <2> QED BY <2>2, <2>3
<1> DEFINE up == [lo EXCEPT ![k] = @ + 1]
           rest == Tail(box)
<1>7. up \in [Streams -> Nat] /\ up[k] = lo[k] + 1 /\ \A j \in Streams : j # k => up[j] = lo[j]
  BY <1>4
<1> HIDE DEF up, rest
<1>8. ASSUME NEW i \in 1..Len(rest)
      PROVE  \E j \in Streams : IsRetx(rest[i], j, p, up[j], hi[j])
  <2>1. i + 1 \in 1..Len(box) /\ rest[i] = box[i + 1] /\ 1 < i + 1
    BY <1>1 DEF rest
  <2>2. PICK j \in Streams : IsRetx(box[i + 1], j, p, lo[j], hi[j])
    BY <2>1 DEF Boxed
  <2>3. CASE j # k
    BY <1>7, <2>1, <2>2, <2>3
  <2>4. CASE j = k
    <3>1. box[1].dir = box[i + 1].dir
      BY <1>3, <2>2, <2>4 DEF IsRetx
    <3>2. box[1].w.control < box[i + 1].w.control
      BY <1>2, <2>1, <3>1 DEF Boxed
    <3>3. box[i + 1].w.control \in lo[k] + 1..hi[k] - 1
      BY <1>4, <1>6, <2>2, <2>4, <3>2 DEF IsRetx
    <3> QED BY <1>7, <2>1, <2>2, <2>4, <3>3 DEF IsRetx
  <2> QED BY <2>3, <2>4
<1>9. ASSUME NEW i \in 1..Len(rest), NEW j \in 1..Len(rest), i < j, rest[i].dir = rest[j].dir
      PROVE  rest[i].w.control < rest[j].w.control
  <2>1. /\ i + 1 \in 1..Len(box) /\ rest[i] = box[i + 1]
        /\ j + 1 \in 1..Len(box) /\ rest[j] = box[j + 1] /\ i + 1 < j + 1
    BY <1>1, <1>9 DEF rest
  <2> QED BY <1>9, <2>1 DEF Boxed
<1>10. ASSUME NEW j \in Streams, Onto(j, p) \in PE, NEW t \in up[j]..hi[j] - 1
       PROVE  \E i \in 1..Len(rest) : rest[i].dir = Way(j) /\ rest[i].w.control = t
  <2>1. t \in lo[j]..hi[j] - 1 /\ (j = k => t # lo[k])
    BY <1>4, <1>7
  <2>2. PICK i \in 1..Len(box) : box[i].dir = Way(j) /\ box[i].w.control = t
    BY <1>10, <2>1 DEF Boxed
  <2>3. i # 1
    <3>1. CASE i = 1
      <4>1. Way(j) = Way(k)
        BY <1>3, <2>2, <3>1 DEF IsRetx
      <4>2. j = k
        BY <4>1, WaysDiffer, StreamColors
      <4> QED BY <1>6, <2>1, <2>2, <3>1, <4>2
    <3> QED BY <3>1
  <2>4. i - 1 \in 1..Len(box) - 1 /\ i - 1 + 1 = i
    BY <1>1, <2>3
  <2>5. rest[i - 1] = box[i] /\ i - 1 \in 1..Len(rest)
    BY <1>1, <2>4 DEF rest
  <2> QED BY <2>2, <2>5
<1>11. Boxed(rest, p, up, hi)
  BY <1>1, <1>8, <1>9, <1>10 DEF Boxed, rest
<1>12. /\ box[1].color = ColorOf(k) /\ box[1].dir = Way(k)
       /\ box[1].w = WaveletOf(k, p, lo[k]) /\ lo[k] < hi[k]
  BY <1>3, <1>4, <1>5, <1>6 DEF IsRetx
<1> QED BY <1>1, <1>5, <1>11, <1>12 DEF up, rest

\* What a drain task sends on.
LEMMA OnwardIs ==
    ASSUME NEW p, NEW c, NEW d, NEW ws, IsSeq(ws)
    PROVE  /\ IsSeq(Onward(p, c, d, ws))
           /\ Len(ws) \in Nat
           /\ Len(Onward(p, c, d, ws)) = IF Net!Hop(p, d) \in PE THEN Len(ws) ELSE 0
           /\ \A i \in 1..Len(Onward(p, c, d, ws)) :
                 Onward(p, c, d, ws)[i] = [color |-> c, dir |-> d, w |-> ws[i]]
<1>1. Len(ws) \in Nat /\ DOMAIN ws = 1..Len(ws)
  BY DEF IsSeq
<1>2. CASE Net!Hop(p, d) \in PE
  <2> DEFINE m == Len(ws)
             r == [i \in 1..m |-> [color |-> c, dir |-> d, w |-> ws[i]]]
  <2>1. m \in Nat /\ DOMAIN ws = 1..m
    BY <1>1
  <2>2. Onward(p, c, d, ws) = r
    BY <1>2, <2>1 DEF Onward, Retx
  <2> HIDE DEF m
  <2>3. r \in Seq({r[i] : i \in 1..m}) /\ Len(r) = m
    BY <2>1
  <2>4. \A i \in 1..m : r[i] = [color |-> c, dir |-> d, w |-> ws[i]]
    OBVIOUS
  <2> HIDE DEF r
  <2>5. IsSeq(r)
    BY <2>3, TypedIsSeq
  <2> QED BY <1>1, <1>2, <2>2, <2>3, <2>4, <2>5 DEF m
<1>3. CASE Net!Hop(p, d) \notin PE
  <2>1. Onward(p, c, d, ws) = <<>> /\ Len(<<>>) = 0
    BY <1>3 DEF Onward
  <2> QED BY <1>1, <1>3, <2>1, EmptyIsSeq
<1> QED BY <1>2, <1>3

\* The elements a drain task takes follow those in the outbox.
LEMMA BoxedOnward ==
    ASSUME PlanInv, NEW p \in PE, NEW k \in Streams, NEW box, NEW lo \in [Streams -> Nat],
           NEW hi \in [Streams -> Nat], Boxed(box, p, lo, hi),
           NEW ws, IsRun(ws, k, p, hi[k]), hi[k] + Len(ws) <= panelSize,
           Onto(k, p) \in PE => lo[k] <= hi[k]
    PROVE  Boxed(box \o Onward(p, ColorOf(k), Way(k), ws), p, lo,
                 [hi EXCEPT ![k] = @ + Len(ws)])
<1> DEFINE on == Onward(p, ColorOf(k), Way(k), ws)
           all == box \o on
           up == [hi EXCEPT ![k] = @ + Len(ws)]
<1>1. /\ IsSeq(on) /\ Len(ws) \in Nat
      /\ Len(on) = IF Onto(k, p) \in PE THEN Len(ws) ELSE 0
      /\ \A i \in 1..Len(on) : on[i] = [color |-> ColorOf(k), dir |-> Way(k), w |-> ws[i]]
  BY OnwardIs DEF IsRun, Onto
<1>2. hi[k] \in Nat /\ lo[k] \in Nat
  OBVIOUS
<1>3. up \in [Streams -> Nat] /\ up[k] = hi[k] + Len(ws)
      /\ \A j \in Streams : j # k => up[j] = hi[j]
  BY <1>1, <1>2
<1> HIDE DEF on, all, up
<1>4. /\ IsSeq(all) /\ Len(box) \in Nat /\ Len(on) \in Nat /\ Len(all) = Len(box) + Len(on)
      /\ \A i \in 1..Len(box) : all[i] = box[i]
      /\ \A i \in Len(box) + 1..Len(box) + Len(on) :
            i - Len(box) \in 1..Len(on) /\ all[i] = on[i - Len(box)]
  <2>1. IsSeq(box)
    BY DEF Boxed
  <2>2. PICK r : r = on
    OBVIOUS
  <2> QED BY <1>1, <2>1, <2>2, ConcatIsSeq DEF all
<1>5. \A i \in 1..Len(all) : i \in 1..Len(box) \/ i \in Len(box) + 1..Len(box) + Len(on)
  BY <1>4
\* A new entry.
<1>6. ASSUME NEW i \in Len(box) + 1..Len(box) + Len(on)
      PROVE  /\ Onto(k, p) \in PE /\ all[i].color = ColorOf(k) /\ all[i].dir = Way(k)
             /\ all[i].w.control = hi[k] + (i - Len(box)) - 1
             /\ all[i].w = WaveletOf(k, p, all[i].w.control)
  <2>1. /\ i - Len(box) \in 1..Len(on) /\ i - Len(box) \in 1..Len(ws) /\ Onto(k, p) \in PE
        /\ all[i] = [color |-> ColorOf(k), dir |-> Way(k), w |-> ws[i - Len(box)]]
    BY <1>1, <1>4
  <2> DEFINE t == hi[k] + (i - Len(box)) - 1
  <2>2. \A h \in 1..Len(ws) : ws[h] = WaveletOf(k, p, hi[k] + h - 1)
    BY DEF IsRun
  <2>3. ws[i - Len(box)] = WaveletOf(k, p, t)
    BY <2>1, <2>2
  <2>4. t \in Nat /\ t < panelSize
    <3>1. panelSize \in Int
      BY DEF PlanInv, panelSize
    <3> QED BY <1>1, <1>2, <1>4, <2>1, <3>1
  <2> HIDE DEF t
  <2>5. WaveletOf(k, p, t).control = t
    BY <2>4, ControlIsIndex
  <2> QED BY <2>1, <2>3, <2>5 DEF t
<1>7. ASSUME NEW i \in 1..Len(all)
      PROVE  \E j \in Streams : IsRetx(all[i], j, p, lo[j], up[j])
  <2>1. CASE i \in 1..Len(box)
    <3>1. PICK j \in Streams : IsRetx(box[i], j, p, lo[j], hi[j])
      BY <2>1 DEF Boxed
    <3>2. lo[j] \in Nat /\ hi[j] \in Nat /\ up[j] \in Nat /\ hi[j] <= up[j]
      BY <1>1, <1>3
    <3>3. IsRetx(all[i], j, p, lo[j], up[j])
      <4>1. all[i] = box[i]
        BY <1>4, <2>1
      <4>2. lo[j]..hi[j] - 1 \subseteq lo[j]..up[j] - 1
        BY <3>2
      <4> QED BY <3>1, <4>1, <4>2, Zenon DEF IsRetx
    <3> QED BY <3>3
  <2>2. CASE i \in Len(box) + 1..Len(box) + Len(on)
    <3>1. all[i].w.control \in lo[k]..up[k] - 1
      BY <1>1, <1>2, <1>3, <1>4, <1>6, <2>2, SMTT(30)
    <3>2. IsRetx(all[i], k, p, lo[k], up[k])
      BY <1>6, <2>2, <3>1 DEF IsRetx
    <3> QED BY <3>2
  <2> QED BY <1>5, <2>1, <2>2
<1>8. ASSUME NEW i \in 1..Len(all), NEW j \in 1..Len(all), i < j, all[i].dir = all[j].dir
      PROVE  all[i].w.control < all[j].w.control
  <2>1. CASE j \in 1..Len(box)
    <3>1. i \in 1..Len(box)
      BY <1>4, <1>8, <2>1
    <3> QED BY <1>4, <1>8, <2>1, <3>1 DEF Boxed
  <2>2. CASE j \in Len(box) + 1..Len(box) + Len(on)
    <3>1. CASE i \in 1..Len(box)
      <4>1. PICK h \in Streams : IsRetx(box[i], h, p, lo[h], hi[h])
        BY <3>1 DEF Boxed
      <4>2. Way(h) = Way(k)
        BY <1>4, <1>6, <1>8, <2>2, <3>1, <4>1 DEF IsRetx
      <4>3. h = k
        BY <4>2, WaysDiffer, StreamColors
      <4>4. all[i].w.control \in lo[k]..hi[k] - 1
        BY <1>4, <3>1, <4>1, <4>3 DEF IsRetx
      <4>5. all[j].w.control = hi[k] + (j - Len(box)) - 1
        BY <1>6, <2>2
      <4> QED BY <1>2, <1>4, <2>2, <4>4, <4>5
    <3>2. CASE i \in Len(box) + 1..Len(box) + Len(on)
      <4>1. /\ all[j].w.control = hi[k] + (j - Len(box)) - 1
            /\ all[i].w.control = hi[k] + (i - Len(box)) - 1
        BY <1>6, <2>2, <3>2
      <4> QED BY <1>2, <1>4, <1>8, <4>1
    <3> QED BY <1>5, <3>1, <3>2
  <2> QED BY <1>5, <2>1, <2>2
<1>9. ASSUME NEW j \in Streams, Onto(j, p) \in PE, NEW t \in lo[j]..up[j] - 1
      PROVE  \E i \in 1..Len(all) : all[i].dir = Way(j) /\ all[i].w.control = t
  <2>1. lo[j] \in Nat /\ hi[j] \in Nat
    OBVIOUS
  <2>2. CASE t \in lo[j]..hi[j] - 1
    <3>1. PICK i \in 1..Len(box) : box[i].dir = Way(j) /\ box[i].w.control = t
      BY <1>9, <2>2 DEF Boxed
    <3>2. i \in 1..Len(all)
      BY <1>4
    <3> QED BY <1>4, <3>1, <3>2
  <2>3. CASE t \notin lo[j]..hi[j] - 1
    <3>1. j = k /\ t \in hi[k]..up[k] - 1
      BY <1>3, <2>1, <2>3
    <3> DEFINE i == Len(box) + (t - hi[k]) + 1
    <3>2. i \in Len(box) + 1..Len(box) + Len(on) /\ i \in 1..Len(all)
      BY <1>1, <1>2, <1>3, <1>4, <1>9, <3>1
    <3>3. hi[k] + (i - Len(box)) - 1 = t
      BY <1>2, <1>4, <3>1
    <3> HIDE DEF i
    <3> QED BY <1>6, <3>1, <3>2, <3>3
  <2> QED BY <2>2, <2>3
<1> QED BY <1>4, <1>7, <1>8, <1>9 DEF Boxed, all, up, on

-----------------------------------------------------------------------------
(* Within a step. *)

SameStep == UNCHANGED <<plan, breakRendezvous, step>>

LEMMA PanelSizes ==
    ASSUME PlanInv
    PROVE  panelSize \in Nat \ {0} /\ panelSize <= IndexSpan
<1>1. \A a, b \in Nat \ {0} : a * b \in Nat \ {0}
  OBVIOUS
<1> QED BY <1>1 DEF PlanInv, panelSize

LEMMA SameViews ==
    ASSUME SameStep
    PROVE  /\ Streams' = Streams /\ panelSize' = panelSize /\ Panel' = Panel
           /\ PerIndex' = PerIndex
           /\ \A k : ColorOf(k)' = ColorOf(k)
           /\ \A k, p, t : Element(k, p, t)' = Element(k, p, t)
           /\ \A k, p, t : WaveletOf(k, p, t)' = WaveletOf(k, p, t)
           /\ \A k, p, n, vc : IsRun(vc, k, p, n)' <=> IsRun(vc, k, p, n)
           /\ \A box, p, lo, hi : Boxed(box, p, lo, hi)' <=> Boxed(box, p, lo, hi)
<1>1. plan' = plan /\ breakRendezvous' = breakRendezvous /\ step' = step
  BY DEF SameStep
<1>2. /\ Streams' = Streams /\ panelSize' = panelSize /\ Panel' = Panel
      /\ PerIndex' = PerIndex
  BY <1>1 DEF Streams, panelSize, Panel, PerIndex
<1>3. \A k : ColorOf(k)' = ColorOf(k)
  BY <1>1 DEF ColorOf, Parity
<1>4. \A k, p, t : Element(k, p, t)' = Element(k, p, t)
  BY <1>1 DEF Element, AElement, BElement
<1>5. \A k, p, t : WaveletOf(k, p, t)' = WaveletOf(k, p, t)
  BY <1>4 DEF WaveletOf
<1>6. \A k, p, n, vc : IsRun(vc, k, p, n)' <=> IsRun(vc, k, p, n)
  BY <1>5 DEF IsRun
<1>7. \A e, k, p, lo, hi : IsRetx(e, k, p, lo, hi)' <=> IsRetx(e, k, p, lo, hi)
  BY <1>3, <1>5 DEF IsRetx
<1>8. \A box, p, lo, hi : Boxed(box, p, lo, hi)' <=> Boxed(box, p, lo, hi)
  <2> SUFFICES ASSUME NEW box, NEW p, NEW lo, NEW hi
               PROVE  Boxed(box, p, lo, hi)' <=> Boxed(box, p, lo, hi)
    OBVIOUS
  <2>1. \A i : (\E k \in Streams' : IsRetx(box[i], k, p, lo[k], hi[k])')
             <=> (\E k \in Streams : IsRetx(box[i], k, p, lo[k], hi[k]))
    BY <1>2, <1>7
  <2> DEFINE found(S) == \A k \in S : Onto(k, p) \in PE =>
                 \A t \in lo[k]..hi[k] - 1 :
                    \E i \in 1..Len(box) : box[i].dir = Way(k) /\ box[i].w.control = t
  <2>2. found(Streams') <=> found(Streams)
    BY <1>2
  <2>3. Boxed(box, p, lo, hi)
           <=> /\ IsSeq(box)
               /\ \A i \in 1..Len(box) : \E k \in Streams : IsRetx(box[i], k, p, lo[k], hi[k])
               /\ \A i, j \in 1..Len(box) :
                    i < j /\ box[i].dir = box[j].dir => box[i].w.control < box[j].w.control
               /\ found(Streams)
    BY DEF Boxed
  <2>4. Boxed(box, p, lo, hi)'
           <=> /\ IsSeq(box)
               /\ \A i \in 1..Len(box) : \E k \in Streams' : IsRetx(box[i], k, p, lo[k], hi[k])'
               /\ \A i, j \in 1..Len(box) :
                    i < j /\ box[i].dir = box[j].dir => box[i].w.control < box[j].w.control
               /\ found(Streams')
    BY Zenon DEF Boxed, IsSeq
  <2> HIDE DEF found
  <2> QED BY <2>1, <2>2, <2>3, <2>4, Zenon
<1> QED BY <1>2, <1>3, <1>4, <1>5, <1>6, <1>8

LEMMA PlanKept ==
    ASSUME PlanInv, SameStep, cursor' \in Nat, pc # "done", pc' # "done"
    PROVE  PlanInv'
<1>1. panelSize' = panelSize
  BY SameViews
<1> QED BY <1>1 DEF PlanInv, SameStep

LEMMA TakenFits ==
    ASSUME PlanInv, PesInv, NEW k, NEW p \in PE
    PROVE  Taken(k, p) \in Nat /\ Taken(k, p) <= panelSize
<1>1. panelSize \in Nat
  BY PanelSizes
<1>2. st[p].aCount \in 0..panelSize /\ st[p].bCount \in 0..panelSize
  BY DEF PesInv, IsPe
<1> QED BY <1>1, <1>2 DEF Taken

LEMMA SentFits ==
    ASSUME PanelInv, NEW k \in Streams, NEW p \in PE
    PROVE  /\ Taken(k, p) \in Nat /\ Len(Arrived(k, p)) \in Nat /\ Len(Feed(k, p)) \in Nat
           /\ SentTo(k, p) \in Nat /\ Taken(k, p) <= SentTo(k, p) /\ SentTo(k, p) <= panelSize
           /\ IsSeq(Arrived(k, p)) /\ IsSeq(Feed(k, p))
<1>1. Taken(k, p) \in Nat /\ \A q \in PE : Taken(k, q) \in Nat /\ Taken(k, q) <= panelSize
  BY TakenFits DEF PanelInv
<1>2. IsSeq(Arrived(k, p)) /\ IsSeq(Feed(k, p))
  BY DEF PanelInv, RunsInv, IsRun
<1>3. Len(Arrived(k, p)) \in Nat /\ Len(Feed(k, p)) \in Nat
  BY <1>2 DEF IsSeq
<1>4. panelSize \in Nat
  BY PanelSizes DEF PanelInv
<1>5. SentTo(k, p) \in Nat /\ Taken(k, p) <= SentTo(k, p)
  BY <1>1, <1>3 DEF SentTo
<1>6. SentTo(k, p) <= panelSize
  <2>1. CASE Source(k, p) \in PE
    <3>1. SentTo(k, p) <= Taken(k, Source(k, p))
      BY <2>1 DEF PanelInv, GivenInv
    <3> QED BY <1>1, <1>4, <1>5, <2>1, <3>1
  <2>2. CASE Source(k, p) \notin PE
    BY <2>2 DEF PanelInv, GivenInv
  <2> QED BY <2>1, <2>2
<1> QED BY <1>1, <1>2, <1>3, <1>5, <1>6

LEMMA BoxBounds ==
    ASSUME PanelInv, NEW p \in PE
    PROVE  /\ SentOn(p) \in [Streams -> Nat] /\ TakenAt(p) \in [Streams -> Nat]
           /\ \A k \in Streams : TakenAt(p)[k] = Taken(k, p)
           /\ \A k \in Streams : Onto(k, p) \in PE =>
                 /\ SentOn(p)[k] = SentTo(k, Onto(k, p))
                 /\ SentOn(p)[k] <= TakenAt(p)[k]
<1>1. \A k \in Streams : \A q \in PE : Taken(k, q) \in Nat /\ SentTo(k, q) \in Nat
  BY SentFits
<1>2. ASSUME NEW k \in Streams, Onto(k, p) \in PE
      PROVE  SentTo(k, Onto(k, p)) <= Taken(k, p)
  <2>1. Source(k, Onto(k, p)) = p
    BY Neighbours, StreamColors DEF PanelInv
  <2> QED BY <1>2, <2>1 DEF PanelInv, GivenInv
<1> QED BY <1>1, <1>2 DEF SentOn, TakenAt

ViewsKept ==
    \A k : \A p \in PE : Taken(k, p)' = Taken(k, p) /\ Arrived(k, p)' = Arrived(k, p)

\* What changes nothing but outboxes leaves counts, buffers and tokens alone.
LEMMA OutboxOnly ==
    ASSUME PesInv, BuffersInv, TokensInv, SameStep, inVc' = inVc, DOMAIN st' = PE,
           \A p \in PE : \E b : st'[p] = [st[p] EXCEPT !.outbox = b]
    PROVE  /\ PesInv' /\ BuffersInv' /\ TokensInv'
           /\ ViewsKept
<1>1. ASSUME NEW p \in PE
      PROVE  /\ st'[p] = [aBuf |-> st[p].aBuf, bBuf |-> st[p].bBuf, cTile |-> st[p].cTile,
                          outbox |-> st'[p].outbox,
                          aCount |-> st[p].aCount, bCount |-> st[p].bCount,
                          stepsDone |-> st[p].stepsDone,
                          aToken |-> st[p].aToken, bToken |-> st[p].bToken]
             /\ IsPe(st[p])
  <2>1. PICK b : st'[p] = [st[p] EXCEPT !.outbox = b]
    OBVIOUS
  <2>2. IsPe(st[p])
    BY DEF PesInv
  <2> QED BY <2>1, <2>2 DEF IsPe
<1>2. \A p \in PE :
         /\ st'[p].aBuf = st[p].aBuf /\ st'[p].bBuf = st[p].bBuf
         /\ st'[p].aCount = st[p].aCount /\ st'[p].bCount = st[p].bCount
         /\ st'[p].stepsDone = st[p].stepsDone
         /\ st'[p].aToken = st[p].aToken /\ st'[p].bToken = st[p].bToken
  BY <1>1
<1>3. PesInv'
  <2> SUFFICES ASSUME NEW p \in PE PROVE IsPe(st[p])'
    BY DEF PesInv
  <2>1. /\ step' = step /\ breakRendezvous' = breakRendezvous /\ panelSize' = panelSize
    BY SameViews DEF SameStep
  <2>2. IsPe(st[p])
    BY DEF PesInv
  <2>3. st'[p] = [aBuf |-> st'[p].aBuf, bBuf |-> st'[p].bBuf, cTile |-> st'[p].cTile,
                  outbox |-> st'[p].outbox,
                  aCount |-> st'[p].aCount, bCount |-> st'[p].bCount,
                  stepsDone |-> st'[p].stepsDone,
                  aToken |-> st'[p].aToken, bToken |-> st'[p].bToken]
    BY <1>1
  <2> QED BY <1>2, <2>1, <2>2, <2>3 DEF IsPe
<1>4. BuffersInv'
  <2>1. \A k, p, n, buf : Holds(buf, k, p, n)' <=> Holds(buf, k, p, n)
    BY SameViews DEF Holds
  <2> QED BY <1>2, <2>1 DEF BuffersInv
<1>5. TokensInv'
  BY <1>2 DEF TokensInv, IsTokenVc
<1>6. ASSUME NEW k, NEW p \in PE
      PROVE  Taken(k, p)' = Taken(k, p) /\ Arrived(k, p)' = Arrived(k, p)
  BY <1>2, SameViews DEF Taken, HasComputed, Arrived, SameStep
<1> QED BY <1>3, <1>4, <1>5, <1>6 DEF ViewsKept

-----------------------------------------------------------------------------
(* The driver's sends. *)

LEMMA ColorsDiffer ==
    ASSUME PlanInv
    PROVE  \A j, k \in Streams : ColorOf(j) = ColorOf(k) => j = k
BY StreamColors

FeedsKept(k0, p0) ==
    \A k \in Streams, p \in PE : k # k0 \/ p # p0 => Feed(k, p)' = Feed(k, p)

SentKept(k0, p0) ==
    \A k \in Streams, p \in PE : k # k0 \/ p # p0 => SentTo(k, p)' = SentTo(k, p)

\* A wavelet pushed towards p0 is the last one of its feed, and of no other.
LEMMA PushViews ==
    ASSUME PanelInv, SameStep, NEW k0 \in Streams, NEW p0 \in PE, NEW q \in PE, NEW d, NEW w,
           \/ Source(k0, p0) = q /\ d = Way(k0)
           \/ Source(k0, p0) \notin PE /\ q = p0 /\ d = "Ramp",
           outVc' = Net!PushAll(q, ColorOf(k0), {d}, w)
    PROVE  /\ Feed(k0, p0)' = Append(Feed(k0, p0), w)
           /\ FeedsKept(k0, p0) /\ Silent(outVc')
<1>1. /\ \A k \in Streams : ColorOf(k) \in SummaColors /\ k \in {"A", "B"}
      /\ \A j, k \in Streams : ColorOf(j) = ColorOf(k) => j = k
  BY StreamColors, ColorsDiffer DEF PanelInv
<1>2. \A k \in Streams : Way(k) \in Net!Dir /\ Way(k) # "Ramp"
  BY <1>1, Neighbours
<1>3. "Ramp" \in Net!Dir /\ d \in Net!Dir
  BY <1>2 DEF Net!Dir
<1>4. \A p \in PE, e \in Net!Dir, c \in SummaColors :
         outVc'[p][e][c] = IF p = q /\ e = d /\ c = ColorOf(k0)
                           THEN Append(outVc[p][e][c], w) ELSE outVc[p][e][c]
  BY DEF Net!PushAll, PE
<1>5. \A k, p : Feed(k, p)' = IF Source(k, p) \in PE
                              THEN outVc'[Source(k, p)][Way(k)][ColorOf(k)]
                              ELSE outVc'[p]["Ramp"][ColorOf(k)]
  BY SameViews DEF Feed
<1>6. Feed(k0, p0)' = Append(Feed(k0, p0), w)
  <2>1. CASE Source(k0, p0) = q /\ d = Way(k0)
    <3>1. Feed(k0, p0)' = outVc'[q][d][ColorOf(k0)] /\ Feed(k0, p0) = outVc[q][d][ColorOf(k0)]
      BY <1>5, <2>1 DEF Feed
    <3> QED BY <1>1, <1>3, <1>4, <3>1
  <2>2. CASE Source(k0, p0) \notin PE /\ q = p0 /\ d = "Ramp"
    <3>1. Feed(k0, p0)' = outVc'[q][d][ColorOf(k0)] /\ Feed(k0, p0) = outVc[q][d][ColorOf(k0)]
      BY <1>5, <2>2 DEF Feed
    <3> QED BY <1>1, <1>3, <1>4, <3>1
  <2> QED BY <2>1, <2>2
<1>7. ASSUME NEW k \in Streams, NEW p \in PE, k # k0 \/ p # p0
      PROVE  Feed(k, p)' = Feed(k, p)
  <2>1. CASE k # k0
    <3>1. PICK c, e : c = ColorOf(k) /\ e = Way(k)
      OBVIOUS
    <3>2. c # ColorOf(k0) /\ c \in SummaColors /\ e \in Net!Dir
      BY <1>1, <1>2, <2>1, <3>1
    <3>3. \A r \in PE, a \in Net!Dir : outVc'[r][a][c] = outVc[r][a][c]
      BY <1>4, <3>2
    <3>4. CASE Source(k, p) \in PE
      <4>1. outVc'[Source(k, p)][e][c] = outVc[Source(k, p)][e][c]
        BY <3>2, <3>3, <3>4
      <4> QED BY <1>5, <3>1, <3>4, <4>1 DEF Feed
    <3>5. CASE Source(k, p) \notin PE
      <4>1. outVc'[p]["Ramp"][c] = outVc[p]["Ramp"][c]
        BY <1>3, <3>3
      <4> QED BY <1>5, <3>1, <3>5, <4>1 DEF Feed
    <3> QED BY <3>4, <3>5
  <2>2. CASE k = k0 /\ p # p0
    <3>1. Source(k0, p) = Source(k0, p0) => FALSE
      BY <1>1, <2>2, Neighbours
    <3>2. CASE Source(k0, p) \in PE
      <4>1. ~(Source(k0, p) = q /\ Way(k0) = d)
        BY <1>2, <3>1
      <4> QED BY <1>1, <1>2, <1>4, <1>5, <2>2, <3>2, <4>1 DEF Feed
    <3>3. CASE Source(k0, p) \notin PE
      <4>1. ~(p = q /\ "Ramp" = d)
        BY <1>2, <2>2
      <4> QED BY <1>1, <1>3, <1>4, <1>5, <2>2, <3>3, <4>1 DEF Feed
    <3> QED BY <3>2, <3>3
  <2> QED BY <1>7, <2>1, <2>2
<1>8. ASSUME NEW p \in PE, NEW e \in Net!Dir, NEW c \in SummaColors,
             \A k \in Streams : ~Carries(p, e, c, k)
      PROVE  outVc'[p][e][c] = <<>>
  <2>1. outVc[p][e][c] = <<>>
    BY <1>8 DEF PanelInv, SilenceInv, Silent
  <2>2. ~Carries(p, e, c, k0)
    BY <1>8
  <2>3. ~(p = q /\ e = d /\ c = ColorOf(k0))
    BY <2>2 DEF Carries
  <2> QED BY <1>4, <2>1, <2>3
<1> QED BY <1>6, <1>7, <1>8 DEF FeedsKept, Silent

\* Sending the next element towards p0.
LEMMA SendKeeps ==
    ASSUME PanelInv, SameStep, inVc' = inVc,
           ViewsKept,
           NEW k0 \in Streams, NEW p0 \in PE, NEW q \in PE, NEW d, NEW w,
           \/ Source(k0, p0) = q /\ d = Way(k0)
           \/ Source(k0, p0) \notin PE /\ q = p0 /\ d = "Ramp",
           outVc' = Net!PushAll(q, ColorOf(k0), {d}, w),
           w = WaveletOf(k0, p0, SentTo(k0, p0))
    PROVE  /\ RunsInv' /\ SilenceInv'
           /\ SentTo(k0, p0)' = SentTo(k0, p0) + 1
           /\ SentKept(k0, p0)
<1>1. /\ Feed(k0, p0)' = Append(Feed(k0, p0), w)
      /\ FeedsKept(k0, p0) /\ Silent(outVc')
  BY PushViews, ZenonT(40)
<1>2. Streams' = Streams
  BY SameViews
<1>3. ASSUME NEW k \in Streams, NEW p \in PE
      PROVE  /\ IsRun(Arrived(k, p), k, p, Taken(k, p))
             /\ IsRun(Feed(k, p), k, p, Taken(k, p) + Len(Arrived(k, p)))
             /\ Taken(k, p) \in Nat /\ Len(Arrived(k, p)) \in Nat /\ Len(Feed(k, p)) \in Nat
             /\ IsSeq(Feed(k, p))
  BY SentFits DEF PanelInv, RunsInv
<1>4. IsRun(Append(Feed(k0, p0), w), k0, p0, Taken(k0, p0) + Len(Arrived(k0, p0)))
  <2>1. Taken(k0, p0) + Len(Arrived(k0, p0)) \in Nat
    BY <1>3
  <2> QED BY <1>3, <2>1, AppendRun DEF SentTo
<1>5. RunsInv'
  <2> SUFFICES ASSUME NEW k \in Streams, NEW p \in PE
               PROVE  /\ IsRun(Arrived(k, p)', k, p, Taken(k, p)')
                      /\ IsRun(Feed(k, p)', k, p, Taken(k, p)' + Len(Arrived(k, p)'))
    BY <1>2, SameViews DEF RunsInv
  <2>1. CASE k = k0 /\ p = p0
    BY <1>1, <1>3, <1>4, <2>1 DEF ViewsKept
  <2>2. CASE k # k0 \/ p # p0
    BY <1>1, <1>3, <2>2 DEF FeedsKept, ViewsKept
  <2> QED BY <2>1, <2>2
<1>6. SilenceInv'
  <2>1. \A p, e, c, k : Carries(p, e, c, k)' <=> Carries(p, e, c, k)
    BY SameViews DEF Carries
  <2>2. \A k : ColorOf(k)' = ColorOf(k)
    BY SameViews
  <2>3. \A p \in PE, c \in PanelColors :
           (\A k \in Streams : c # ColorOf(k)) => inVc'[p][c] = <<>>
    BY DEF PanelInv, SilenceInv
  <2> QED BY <1>1, <1>2, <2>1, <2>2, <2>3 DEF SilenceInv, Silent
<1>7. SentTo(k0, p0)' = SentTo(k0, p0) + 1
  <2>1. Len(Append(Feed(k0, p0), w)) = Len(Feed(k0, p0)) + 1
    BY <1>3, AppendIsSeq
  <2>2. Taken(k0, p0)' = Taken(k0, p0) /\ Arrived(k0, p0)' = Arrived(k0, p0)
    BY DEF ViewsKept
  <2>3. SentTo(k0, p0)' = Taken(k0, p0) + Len(Arrived(k0, p0)) + (Len(Feed(k0, p0)) + 1)
    BY <1>1, <2>1, <2>2 DEF SentTo
  <2>4. /\ Taken(k0, p0) \in Nat /\ Len(Arrived(k0, p0)) \in Nat /\ Len(Feed(k0, p0)) \in Nat
    BY <1>3
  <2> QED BY <2>3, <2>4 DEF SentTo
<1>8. SentKept(k0, p0)
  BY <1>1 DEF SentTo, SentKept, FeedsKept, ViewsKept
<1> QED BY <1>5, <1>6, <1>7, <1>8

\* What is kept where no wavelet moves and nothing is counted.
LEMMA StillViews ==
    ASSUME PanelInv, SameStep, inVc' = inVc,
           ViewsKept,
           \A p \in PE, d \in Net!Dir, c \in SummaColors : outVc'[p][d][c] = outVc[p][d][c]
    PROVE  /\ RunsInv' /\ SilenceInv'
           /\ \A k \in Streams : \A p \in PE : SentTo(k, p)' = SentTo(k, p)
<1>1. \A k \in Streams : k \in {"A", "B"} /\ ColorOf(k) \in SummaColors
  BY StreamColors DEF PanelInv
<1>2. \A k \in Streams : Way(k) \in Net!Dir
  BY DEF Way, Net!Dir
<1>3. "Ramp" \in Net!Dir
  BY DEF Net!Dir
<1>4. \A k \in Streams : \A p \in PE : Feed(k, p)' = Feed(k, p)
  BY <1>1, <1>2, <1>3, SameViews DEF Feed
<1>5. Streams' = Streams
  BY SameViews
<1>6. RunsInv'
  <2> SUFFICES ASSUME NEW k \in Streams, NEW p \in PE
               PROVE  /\ IsRun(Arrived(k, p)', k, p, Taken(k, p)')
                      /\ IsRun(Feed(k, p)', k, p, Taken(k, p)' + Len(Arrived(k, p)'))
    BY <1>5, SameViews DEF RunsInv
  <2> QED BY <1>4 DEF PanelInv, RunsInv, ViewsKept
<1>7. SilenceInv'
  <2>1. \A p, e, c, k : Carries(p, e, c, k)' <=> Carries(p, e, c, k)
    BY SameViews DEF Carries
  <2>2. \A k : ColorOf(k)' = ColorOf(k)
    BY SameViews
  <2> QED BY <1>5, <2>1, <2>2 DEF PanelInv, SilenceInv, Silent
<1>8. \A k \in Streams : \A p \in PE : SentTo(k, p)' = SentTo(k, p)
  BY <1>4 DEF SentTo, ViewsKept
<1> QED BY <1>6, <1>7, <1>8

LEMMA BoxesFollow ==
    ASSUME SameStep, \A p \in PE : Boxed(st'[p].outbox, p, SentOn(p)', TakenAt(p)')
    PROVE  BoxesInv'
BY SameViews DEF BoxesInv

LEMMA SameBounds ==
    ASSUME SameStep, NEW p \in PE,
           \A k \in Streams : Taken(k, p)' = Taken(k, p),
           \A k \in Streams : Onto(k, p) \in PE =>
               SentTo(k, Onto(k, p))' = SentTo(k, Onto(k, p))
    PROVE  SentOn(p)' = SentOn(p) /\ TakenAt(p)' = TakenAt(p)
BY SameViews DEF SentOn, TakenAt

\* Nothing moves.
LEMMA Unmoved ==
    ASSUME PanelInv, SameStep, cursor' = cursor, inVc' = inVc, PlanInv',
           DOMAIN st' = PE, \A p \in PE : st'[p] = st[p],
           \A p \in PE, d \in Net!Dir, c \in SummaColors : outVc'[p][d][c] = outVc[p][d][c]
    PROVE  PanelInv'
<1>1. /\ PesInv' /\ BuffersInv' /\ TokensInv'
      /\ ViewsKept
  <2>1. \A p \in PE : \E b : st'[p] = [st[p] EXCEPT !.outbox = b]
    <3> SUFFICES ASSUME NEW p \in PE
                 PROVE  st'[p] = [st[p] EXCEPT !.outbox = st[p].outbox]
      OBVIOUS
    <3>1. st[p] = [aBuf |-> st[p].aBuf, bBuf |-> st[p].bBuf, cTile |-> st[p].cTile,
                   outbox |-> st[p].outbox,
                   aCount |-> st[p].aCount, bCount |-> st[p].bCount,
                   stepsDone |-> st[p].stepsDone,
                   aToken |-> st[p].aToken, bToken |-> st[p].bToken]
      BY DEF PanelInv, PesInv, IsPe
    <3> QED BY <3>1
  <2> QED BY <2>1, OutboxOnly DEF PanelInv
<1>2. /\ RunsInv' /\ SilenceInv'
      /\ \A k \in Streams : \A p \in PE : SentTo(k, p)' = SentTo(k, p)
  BY <1>1, StillViews
<1>3. GivenInv'
  <2>1. Streams' = Streams /\ panelSize' = panelSize /\ Panel' = Panel /\ PerIndex' = PerIndex
    BY SameViews
  <2> QED BY <1>1, <1>2, <2>1 DEF PanelInv, GivenInv, Slot, ViewsKept
<1>4. BoxesInv'
  <2> SUFFICES ASSUME NEW p \in PE
               PROVE  Boxed(st'[p].outbox, p, SentOn(p)', TakenAt(p)')
    BY BoxesFollow
  <2>1. SentOn(p)' = SentOn(p) /\ TakenAt(p)' = TakenAt(p)
    BY <1>1, <1>2, SameBounds DEF ViewsKept
  <2> QED BY <2>1 DEF PanelInv, BoxesInv
<1> QED BY <1>1, <1>2, <1>3, <1>4 DEF PanelInv

LEMMA FlushPanels == PanelInv /\ Flush => PanelInv'
<1> SUFFICES ASSUME PanelInv, Flush PROVE PanelInv'
  OBVIOUS
<1>1. SameStep /\ cursor' = cursor /\ inVc' = inVc /\ PlanInv'
  <2>1. SameStep /\ cursor' = cursor /\ inVc' = inVc /\ pc # "done" /\ pc' # "done"
    BY DEF Flush, SameStep
  <2> QED BY <2>1, PlanKept DEF PanelInv, PlanInv
<1>8. PICK q : q = PeAt(idx)
  OBVIOUS
<1>9. PICK e : e = Head(st[q].outbox)
  OBVIOUS
<1> DEFINE sends == st[q].outbox # <<>> /\ Net!HasRoom(q, e.color, {e.dir})
<1>2. CASE ~sends
  <2>1. outVc' = outVc /\ st' = st
    BY <1>2, <1>8, <1>9 DEF Flush
  <2> QED BY <1>1, <2>1, Unmoved DEF PanelInv, PesInv
<1>3. CASE sends
  <2>1. /\ outVc' = Net!PushAll(q, e.color, {e.dir}, e.w)
        /\ st' = [st EXCEPT ![q].outbox = Tail(@)]
        /\ st[q].outbox # <<>>
    BY <1>3, <1>8, <1>9 DEF Flush
  <2>2. DOMAIN st = PE /\ DOMAIN st' = PE
    BY <2>1 DEF PanelInv, PesInv
  <2> HIDE DEF sends
  <2>3. CASE q \notin PE
    <3>1. \A p \in PE : st'[p] = st[p]
      BY <2>1, <2>2, <2>3
    <3>2. \A p \in PE, d \in Net!Dir, c \in SummaColors : outVc'[p][d][c] = outVc[p][d][c]
      BY <2>1, <2>3 DEF Net!PushAll, PE
    <3> QED BY <1>1, <2>2, <3>1, <3>2, Unmoved
  <2>4. CASE q \in PE
    <3>1. \A p \in PE : st'[p] = IF p = q THEN [st[p] EXCEPT !.outbox = Tail(st[q].outbox)]
                                 ELSE st[p]
      BY <2>1, <2>2
    <3>2. /\ PesInv' /\ BuffersInv' /\ TokensInv'
          /\ ViewsKept
      <4>1. \A p \in PE : \E b : st'[p] = [st[p] EXCEPT !.outbox = b]
        <5> SUFFICES ASSUME NEW p \in PE, p # q
                     PROVE  st'[p] = [st[p] EXCEPT !.outbox = st[p].outbox]
          BY <3>1
        <5>1. st[p] = [aBuf |-> st[p].aBuf, bBuf |-> st[p].bBuf, cTile |-> st[p].cTile,
                       outbox |-> st[p].outbox,
                       aCount |-> st[p].aCount, bCount |-> st[p].bCount,
                       stepsDone |-> st[p].stepsDone,
                       aToken |-> st[p].aToken, bToken |-> st[p].bToken]
          BY DEF PanelInv, PesInv, IsPe
        <5> QED BY <3>1, <5>1
      <4> QED BY <1>1, <2>2, <4>1, OutboxOnly DEF PanelInv
    <3>3. /\ SentOn(q) \in [Streams -> Nat] /\ TakenAt(q) \in [Streams -> Nat]
          /\ Boxed(st[q].outbox, q, SentOn(q), TakenAt(q))
      BY <2>4, BoxBounds DEF PanelInv, BoxesInv
    <3>4. PICK k0 \in Streams :
             /\ Onto(k0, q) \in PE
             /\ e.color = ColorOf(k0) /\ e.dir = Way(k0)
             /\ e.w = WaveletOf(k0, q, SentOn(q)[k0]) /\ SentOn(q)[k0] < TakenAt(q)[k0]
             /\ Boxed(Tail(st[q].outbox), q, [SentOn(q) EXCEPT ![k0] = @ + 1], TakenAt(q))
      BY <2>1, <2>4, <3>3, <1>9, BoxedHead DEF PanelInv
    <3>10. PICK p0 : p0 = Onto(k0, q)
      OBVIOUS
    <3>5. /\ p0 \in PE /\ k0 \in {"A", "B"} /\ Source(k0, p0) = q
          /\ SentOn(q)[k0] = SentTo(k0, p0) /\ TakenAt(q)[k0] = Taken(k0, q)
      BY <2>4, <3>4, <3>10, BoxBounds, Neighbours, StreamColors DEF PanelInv
    <3>6. e.w = WaveletOf(k0, p0, SentTo(k0, p0))
      BY <2>4, <3>4, <3>5, <3>10, SameAlong
    <3>7. /\ RunsInv' /\ SilenceInv' /\ SentTo(k0, p0)' = SentTo(k0, p0) + 1
          /\ SentKept(k0, p0)
      <4>1. outVc' = Net!PushAll(q, ColorOf(k0), {Way(k0)}, e.w)
        BY <2>1, <3>4
      <4> QED BY <1>1, <2>4, <3>2, <3>5, <3>6, <4>1, SendKeeps
    <3>8. GivenInv'
      <4>1. Streams' = Streams /\ panelSize' = panelSize /\ Panel' = Panel
            /\ PerIndex' = PerIndex
        BY <1>1, SameViews
      <4> SUFFICES ASSUME NEW k \in Streams, NEW p \in PE
                   PROVE  IF Source(k, p) \in PE THEN SentTo(k, p)' <= Taken(k, Source(k, p))'
                          ELSE /\ SentTo(k, p)' <= panelSize
                               /\ \A t \in Panel : t < SentTo(k, p)'
                                     <=> t * PerIndex + Slot(k, p) < cursor
        BY <1>1, <4>1 DEF GivenInv, Slot
      <4>2. CASE k = k0 /\ p = p0
        <5>1. SentTo(k0, p0) + 1 <= Taken(k0, q)
          <6>1. SentTo(k0, p0) \in Nat /\ Taken(k0, q) \in Nat
            BY <2>4, <3>5, SentFits
          <6> QED BY <3>4, <3>5, <6>1
        <5> QED BY <2>4, <3>2, <3>5, <3>7, <4>2, <5>1 DEF ViewsKept
      <4>3. CASE k # k0 \/ p # p0
        <5>1. SentTo(k, p)' = SentTo(k, p)
          BY <3>7, <4>3 DEF SentKept
        <5>2. Source(k, p) \in PE => Taken(k, Source(k, p))' = Taken(k, Source(k, p))
          BY <3>2 DEF ViewsKept
        <5> QED BY <5>1, <5>2 DEF PanelInv, GivenInv
      <4> QED BY <4>2, <4>3
    <3>9. BoxesInv'
      <4> SUFFICES ASSUME NEW p \in PE
                   PROVE  Boxed(st'[p].outbox, p, SentOn(p)', TakenAt(p)')
        BY <1>1, BoxesFollow
      <4>1. CASE p = q
        <5>1. st'[p].outbox = Tail(st[q].outbox)
          <6>1. "outbox" \in DOMAIN st[q]
            <7>1. st[q] = [aBuf |-> st[q].aBuf, bBuf |-> st[q].bBuf, cTile |-> st[q].cTile,
                           outbox |-> st[q].outbox,
                           aCount |-> st[q].aCount, bCount |-> st[q].bCount,
                           stepsDone |-> st[q].stepsDone,
                           aToken |-> st[q].aToken, bToken |-> st[q].bToken]
              BY <2>4 DEF PanelInv, PesInv, IsPe
            <7> QED BY <7>1
          <6> QED BY <3>1, <4>1, <6>1
        <5>2. TakenAt(q)' = TakenAt(q)
          <6>1. TakenAt(q)' = [k \in Streams |-> Taken(k, q)']
            BY <1>1, SameViews DEF TakenAt
          <6> QED BY <2>4, <3>2, <6>1 DEF TakenAt, ViewsKept
        <5>3. SentOn(q)' = [SentOn(q) EXCEPT ![k0] = @ + 1]
          <6>1. ASSUME NEW k \in Streams
                PROVE  (IF Onto(k, q) \in PE THEN SentTo(k, Onto(k, q))' ELSE 0)
                          = IF k = k0 THEN SentOn(q)[k] + 1 ELSE SentOn(q)[k]
            <7>1. SentOn(q)[k] = IF Onto(k, q) \in PE THEN SentTo(k, Onto(k, q)) ELSE 0
              BY DEF SentOn
            <7>2. CASE k = k0
              BY <3>5, <3>7, <3>10, <7>1, <7>2
            <7>3. CASE k # k0
              BY <3>7, <7>1, <7>3 DEF SentKept
            <7> QED BY <7>2, <7>3
          <6>2. SentOn(q)' = [k \in Streams |->
                                 IF Onto(k, q) \in PE THEN SentTo(k, Onto(k, q))' ELSE 0]
            BY <1>1, SameViews DEF SentOn
          <6>3. [SentOn(q) EXCEPT ![k0] = @ + 1]
                   = [k \in Streams |-> IF k = k0 THEN SentOn(q)[k] + 1 ELSE SentOn(q)[k]]
            BY <3>3
          <6> QED BY <6>1, <6>2, <6>3
        <5> QED BY <3>4, <4>1, <5>1, <5>2, <5>3
      <4>2. CASE p # q
        <5>1. ASSUME NEW k \in Streams, Onto(k, p) \in PE
              PROVE  SentTo(k, Onto(k, p))' = SentTo(k, Onto(k, p))
          <6>1. Source(k, Onto(k, p)) = p
            BY Neighbours, StreamColors DEF PanelInv
          <6>2. k # k0 \/ Onto(k, p) # p0
            BY <3>5, <4>2, <6>1
          <6> QED BY <3>7, <5>1, <6>2 DEF SentKept
        <5>2. SentOn(p)' = SentOn(p) /\ TakenAt(p)' = TakenAt(p)
          BY <1>1, <3>2, <5>1, SameBounds DEF ViewsKept
        <5>3. st'[p] = st[p]
          BY <3>1, <4>2
        <5> QED BY <5>2, <5>3 DEF PanelInv, BoxesInv
      <4> QED BY <4>1, <4>2
    <3> QED BY <1>1, <3>2, <3>7, <3>8, <3>9 DEF PanelInv
  <2> QED BY <2>3, <2>4
<1> QED BY <1>2, <1>3

-----------------------------------------------------------------------------
(* The seeds. *)

\* Where the streams enter the mesh, one at each place among the seeds.
LEMMA Entrances ==
    ASSUME PlanInv, NEW k \in Streams, NEW p \in PE, Source(k, p) \notin PE
    PROVE  /\ PerIndex \in Nat \ {0} /\ Slot(k, p) \in 0..PerIndex - 1
           /\ IF k = "A" THEN p = <<0, Slot(k, p)>> ELSE p = <<Slot(k, p) - P, P - 1>>
           /\ k = "A" <=> Slot(k, p) < P
<1>1. PE = (0..P - 1) \X (0..P - 1) /\ P \in Nat \ {0}
  BY SummaAssumption DEF PE, Net!PE
<1>2. PICK x \in 0..P - 1, y \in 0..P - 1 : p = <<x, y>>
  BY <1>1
<1>3. p[1] = x /\ p[2] = y
  BY <1>2
<1>4. CASE k = "A"
  <2>1. Source("A", p) = <<x - 1, y>>
    BY <1>3, Ways
  <2>2. x = 0
    BY <1>1, <1>4, <2>1
  <2>3. Slot(k, p) = y
    BY <1>3, <1>4 DEF Slot
  <2> QED BY <1>1, <1>2, <1>4, <2>2, <2>3 DEF PerIndex
<1>5. CASE k # "A"
  <2>1. k = "B" /\ ~breakRendezvous
    BY <1>5 DEF Streams
  <2>2. Source("B", p) = <<x, y + 1>>
    BY <1>3, Ways
  <2>3. y = P - 1
    BY <1>1, <2>1, <2>2
  <2>4. Slot(k, p) = P + x
    BY <1>3, <1>5 DEF Slot
  <2> QED BY <1>1, <1>2, <1>5, <2>1, <2>3, <2>4 DEF PerIndex
<1> QED BY <1>4, <1>5

\* A seed is an element of a stream, sent to the PE where that stream enters.
LEMMA SeedEnters ==
    ASSUME PlanInv, cursor < NumSeeds
    PROVE  \E k \in Streams, p \in PE :
              /\ Source(k, p) \notin PE
              /\ Seed(cursor).pe = p /\ Seed(cursor).color = ColorOf(k)
              /\ Seed(cursor).w = WaveletOf(k, p, cursor \div PerIndex)
              /\ Slot(k, p) = cursor % PerIndex
<1> DEFINE t == cursor \div PerIndex
           r == cursor % PerIndex
<1>1. P \in Nat \ {0} /\ PE = (0..P - 1) \X (0..P - 1)
  BY SummaAssumption DEF PE, Net!PE
<1>2. PerIndex \in Nat \ {0} /\ cursor \in Nat /\ PerIndex = IF breakRendezvous THEN P ELSE 2 * P
  BY <1>1 DEF PerIndex, PlanInv
<1>3. r \in 0..PerIndex - 1
  BY <1>2, Division
<1>4. Seed(cursor) =
        IF r < P THEN [pe |-> <<0, r>>, color |-> aColor[Parity],
                       w |-> [control |-> t % IndexSpan, data |-> AElement(r, t)]]
        ELSE [pe |-> <<r - P, P - 1>>, color |-> bColor[Parity],
              w |-> [control |-> t % IndexSpan, data |-> BElement(r - P, t)]]
  BY DEF Seed
<1> HIDE DEF t, r
<1>5. CASE r < P
  <2>1. <<0, r>> \in PE /\ <<0, r>>[1] = 0 /\ <<0, r>>[2] = r
    BY <1>1, <1>3, <1>5
  <2>2. Source("A", <<0, r>>) \notin PE
    <3>1. Source("A", <<0, r>>) = <<0 - 1, r>>
      <4>1. PICK p : p = <<0, r>>
        OBVIOUS
      <4>2. Source("A", p) = <<p[1] - 1, p[2]>>
        BY Ways
      <4> QED BY <2>1, <4>1, <4>2
    <3> QED BY <1>1, <3>1
  <2>3. "A" \in Streams /\ Slot("A", <<0, r>>) = r
    BY <2>1 DEF Streams, Slot
  <2>4. WaveletOf("A", <<0, r>>, t) = [control |-> t % IndexSpan, data |-> AElement(r, t)]
    BY <2>1 DEF WaveletOf, Element
  <2>5. ColorOf("A") = aColor[Parity]
    BY DEF ColorOf
  <2> QED BY <1>4, <1>5, <2>1, <2>2, <2>3, <2>4, <2>5 DEF t, r
<1>6. CASE ~(r < P)
  <2>1. ~breakRendezvous /\ r - P \in 0..P - 1 /\ P + (r - P) = r
    BY <1>1, <1>2, <1>3, <1>6
  <2> DEFINE x == r - P
  <2> HIDE DEF x
  <2>2. /\ x \in 0..P - 1 /\ <<x, P - 1>> \in PE
        /\ <<x, P - 1>>[1] = x /\ <<x, P - 1>>[2] = P - 1
    BY <1>1, <2>1 DEF x
  <2>3. Source("B", <<x, P - 1>>) \notin PE
    <3>1. Source("B", <<x, P - 1>>) = <<x, P - 1 + 1>>
      <4>1. PICK p : p = <<x, P - 1>>
        OBVIOUS
      <4>2. Source("B", p) = <<p[1], p[2] + 1>>
        BY Ways
      <4> QED BY <2>2, <4>1, <4>2
    <3> QED BY <1>1, <3>1
  <2>4. "B" \in Streams /\ Slot("B", <<x, P - 1>>) = r
    BY <2>1, <2>2 DEF Streams, Slot, x
  <2>5. WaveletOf("B", <<x, P - 1>>, t) = [control |-> t % IndexSpan, data |-> BElement(x, t)]
    BY <2>2 DEF WaveletOf, Element
  <2>6. ColorOf("B") = bColor[Parity]
    BY DEF ColorOf
  <2> QED BY <1>4, <1>6, <2>2, <2>3, <2>4, <2>5, <2>6 DEF t, r, x
<1> QED BY <1>5, <1>6

\* A seed is the next element of the stream it belongs to.
LEMMA SeedIsNext ==
    ASSUME PanelInv, cursor < NumSeeds, NEW k \in Streams, NEW p \in PE,
           Source(k, p) \notin PE, Slot(k, p) = cursor % PerIndex
    PROVE  SentTo(k, p) = cursor \div PerIndex /\ SentTo(k, p) < panelSize
<1> DEFINE d == PerIndex
           t == cursor \div d
           r == cursor % d
           s == SentTo(k, p)
<1>1. d \in Nat \ {0} /\ cursor \in Nat /\ panelSize \in Nat
  BY Entrances, PanelSizes DEF PanelInv, PlanInv
<1> HIDE DEF d
<1>2. t \in Nat /\ r \in Nat /\ cursor = t * d + r
  <2>1. t \in Nat /\ r \in 0..d - 1 /\ cursor = t * d + r
    BY <1>1, Division, Zenon
  <2> HIDE DEF t, r
  <2> QED BY <1>1, <2>1
<1>3. s \in Nat /\ s <= panelSize
  BY SentFits
<1>4. \A u \in Panel : u < s <=> u * d + r < cursor
  BY DEF PanelInv, GivenInv, d
<1> HIDE DEF t, r, s
<1>5. t < panelSize
  <2>1. cursor < panelSize * d
    BY DEF NumSeeds, d
  <2>2. panelSize < t => panelSize * d + d <= t * d
    BY <1>1, <1>2, Multiples
  <2>3. panelSize * d \in Nat /\ t * d \in Nat
    BY <1>1, <1>2, Multiples
  <2>4. CASE t = panelSize
    BY <1>1, <1>2, <2>1, <2>3, <2>4
  <2> QED BY <1>1, <1>2, <2>1, <2>2, <2>3, <2>4
<1>6. ~(t < s)
  <2>1. t \in Panel /\ t * d \in Nat
    BY <1>1, <1>2, <1>5, Multiples DEF Panel
  <2>2. ~(t * d + r < cursor)
    BY <1>2, <2>1
  <2> QED BY <1>4, <2>1, <2>2
<1>7. ~(s < t)
  <2> SUFFICES ASSUME s < t PROVE FALSE
    OBVIOUS
  <2>1. s \in Panel /\ s * d + d <= t * d /\ s * d \in Nat /\ t * d \in Nat
    BY <1>1, <1>2, <1>3, <1>5, Multiples DEF Panel
  <2>2. s * d + r < cursor
    BY <1>1, <1>2, <2>1
  <2> QED BY <1>3, <1>4, <2>1, <2>2
<1>8. s = t
  BY <1>2, <1>3, <1>6, <1>7
<1> QED BY <1>5, <1>8 DEF s, t, d

LEMMA InjectPanels == PanelInv /\ InjectSeed => PanelInv'
<1> SUFFICES ASSUME PanelInv, InjectSeed PROVE PanelInv'
  OBVIOUS
<1>1. /\ SameStep /\ inVc' = inVc /\ st' = st /\ cursor' \in Nat /\ PlanInv'
      /\ DOMAIN st = PE
  <2>1. SameStep /\ inVc' = inVc /\ st' = st /\ pc # "done" /\ pc' # "done"
        /\ cursor' \in Nat
    BY DEF InjectSeed, SameStep, PanelInv, PlanInv
  <2> QED BY <2>1, PlanKept DEF PanelInv, PesInv
<1>2. CASE outVc' = outVc /\ cursor' = cursor
  BY <1>1, <1>2, Unmoved
<1>3. CASE /\ cursor < NumSeeds
           /\ outVc' = Net!PushAll(Seed(cursor).pe, Seed(cursor).color, {"Ramp"},
                                   Seed(cursor).w)
           /\ cursor' = cursor + 1
  <2>1. /\ PesInv' /\ BuffersInv' /\ TokensInv' /\ ViewsKept
    <3>1. \A p \in PE : \E b : st'[p] = [st[p] EXCEPT !.outbox = b]
      <4> SUFFICES ASSUME NEW p \in PE
                   PROVE  st'[p] = [st[p] EXCEPT !.outbox = st[p].outbox]
        OBVIOUS
      <4>1. st[p] = [aBuf |-> st[p].aBuf, bBuf |-> st[p].bBuf, cTile |-> st[p].cTile,
                     outbox |-> st[p].outbox,
                     aCount |-> st[p].aCount, bCount |-> st[p].bCount,
                     stepsDone |-> st[p].stepsDone,
                     aToken |-> st[p].aToken, bToken |-> st[p].bToken]
        BY DEF PanelInv, PesInv, IsPe
      <4> QED BY <1>1, <4>1
    <3> QED BY <1>1, <3>1, OutboxOnly DEF PanelInv
  <2>2. PICK k0 \in Streams, p0 \in PE :
           /\ Source(k0, p0) \notin PE
           /\ Seed(cursor).pe = p0 /\ Seed(cursor).color = ColorOf(k0)
           /\ Seed(cursor).w = WaveletOf(k0, p0, cursor \div PerIndex)
           /\ Slot(k0, p0) = cursor % PerIndex
    BY <1>3, SeedEnters DEF PanelInv
  <2>3. SentTo(k0, p0) = cursor \div PerIndex /\ SentTo(k0, p0) < panelSize
    BY <1>3, <2>2, SeedIsNext
  <2>4. /\ RunsInv' /\ SilenceInv' /\ SentTo(k0, p0)' = SentTo(k0, p0) + 1
        /\ SentKept(k0, p0)
    <3>1. PICK w : w = Seed(cursor).w
      OBVIOUS
    <3>2. outVc' = Net!PushAll(p0, ColorOf(k0), {"Ramp"}, w)
      BY <1>3, <2>2, <3>1
    <3>3. w = WaveletOf(k0, p0, SentTo(k0, p0))
      BY <2>2, <2>3, <3>1
    <3> QED BY <1>1, <2>1, <2>2, <3>2, <3>3, SendKeeps
  <2>5. PerIndex \in Nat \ {0} /\ cursor \in Nat /\ panelSize \in Nat
    BY <2>2, Entrances, PanelSizes DEF PanelInv, PlanInv
  <2>6. GivenInv'
    <3>1. Streams' = Streams /\ panelSize' = panelSize /\ Panel' = Panel /\ PerIndex' = PerIndex
      BY <1>1, SameViews
    <3> SUFFICES ASSUME NEW k \in Streams, NEW p \in PE
                 PROVE  IF Source(k, p) \in PE THEN SentTo(k, p)' <= Taken(k, Source(k, p))'
                        ELSE /\ SentTo(k, p)' <= panelSize
                             /\ \A t \in Panel : t < SentTo(k, p)'
                                   <=> t * PerIndex + Slot(k, p) < cursor + 1
      BY <1>3, <3>1 DEF GivenInv, Slot
    <3>2. CASE Source(k, p) \in PE
      <4>1. SentTo(k, p)' = SentTo(k, p)
        BY <2>2, <2>4, <3>2 DEF SentKept
      <4>2. Taken(k, Source(k, p))' = Taken(k, Source(k, p))
        BY <2>1, <3>2 DEF ViewsKept
      <4> QED BY <3>2, <4>1, <4>2 DEF PanelInv, GivenInv
    <3>3. CASE Source(k, p) \notin PE
      <4> DEFINE d == PerIndex
                 q == cursor \div PerIndex
                 r == cursor % PerIndex
                 s == Slot(k, p)
      <4>1. q \in Nat /\ r \in Nat /\ r < d /\ cursor = q * d + r /\ d \in Nat \ {0}
        BY <2>5, Division
      <4>2. s \in Nat /\ s < d
        BY <2>5, <3>3, Entrances DEF PanelInv
      <4>3. SentTo(k, p) \in Nat /\ SentTo(k, p) <= panelSize
            /\ \A t \in Panel : t < SentTo(k, p) <=> t * d + s < cursor
        BY <3>3, SentFits DEF PanelInv, GivenInv
      <4>4. \A t \in Panel : t \in Nat
        BY DEF Panel
      <4>5. CASE k = k0 /\ p = p0
        <5>1. s = r /\ SentTo(k, p) = q /\ SentTo(k, p)' = q + 1 /\ q < panelSize
          BY <2>2, <2>3, <2>4, <4>5
        <5> HIDE DEF d, q, r, s
        <5>2. ASSUME NEW t \in Panel
              PROVE  t < q + 1 <=> t * d + s < cursor + 1
          <6>1. /\ t * d \in Nat /\ q * d \in Nat /\ t \in Nat
                /\ q < t => q * d + d <= t * d
                /\ t < q => t * d + d <= q * d
            BY <4>1, <4>4, Multiples
          <6>2. CASE t = q
            BY <4>1, <5>1, <6>1, <6>2
          <6>3. CASE t # q
            BY <4>1, <5>1, <6>1, <6>3
          <6> QED BY <6>2, <6>3
        <5>3. q + 1 <= panelSize
          BY <2>5, <4>1, <5>1
        <5> QED BY <3>3, <5>1, <5>2, <5>3 DEF d, s
      <4>6. CASE k # k0 \/ p # p0
        <5>1. SentTo(k, p)' = SentTo(k, p)
          BY <2>4, <4>6 DEF SentKept
        <5>2. s # r
          <6>1. Slot(k0, p0) = r
            BY <2>2
          <6>2. s = Slot(k0, p0) => k = k0
            <7>1. /\ k = "A" <=> Slot(k, p) < P
                  /\ k0 = "A" <=> Slot(k0, p0) < P
              BY <2>2, <3>3, Entrances DEF PanelInv
            <7>2. k \in {"A", "B"} /\ k0 \in {"A", "B"}
              BY StreamColors DEF PanelInv
            <7> QED BY <7>1, <7>2
          <6>3. s = Slot(k0, p0) /\ k = k0 => p = p0
            <7>1. /\ IF k = "A" THEN p = <<0, Slot(k, p)>> ELSE p = <<Slot(k, p) - P, P - 1>>
                  /\ IF k0 = "A" THEN p0 = <<0, Slot(k0, p0)>>
                                 ELSE p0 = <<Slot(k0, p0) - P, P - 1>>
              BY <2>2, <3>3, Entrances DEF PanelInv
            <7> QED BY <7>1
          <6> QED BY <4>6, <6>1, <6>2, <6>3
        <5> HIDE DEF d, q, r, s
        <5>3. ASSUME NEW t \in Panel
              PROVE  t * d + s < cursor <=> t * d + s < cursor + 1
          <6>1. /\ t * d \in Nat /\ q * d \in Nat /\ t \in Nat
                /\ q < t => q * d + d <= t * d
                /\ t < q => t * d + d <= q * d
            BY <4>1, <4>4, Multiples
          <6>2. CASE t = q
            BY <4>1, <4>2, <5>2, <6>1, <6>2
          <6>3. CASE t # q
            BY <4>1, <4>2, <6>1, <6>3
          <6> QED BY <6>2, <6>3
        <5> QED BY <3>3, <4>3, <5>1, <5>3 DEF d, s
      <4> QED BY <4>5, <4>6
    <3> QED BY <3>2, <3>3
  <2>7. BoxesInv'
    <3> SUFFICES ASSUME NEW p \in PE
                 PROVE  Boxed(st'[p].outbox, p, SentOn(p)', TakenAt(p)')
      BY <1>1, BoxesFollow
    <3>1. ASSUME NEW k \in Streams, Onto(k, p) \in PE
          PROVE  SentTo(k, Onto(k, p))' = SentTo(k, Onto(k, p))
      <4>1. Source(k, Onto(k, p)) = p
        BY Neighbours, StreamColors DEF PanelInv
      <4>2. k # k0 \/ Onto(k, p) # p0
        BY <2>2, <4>1
      <4> QED BY <2>4, <3>1, <4>2 DEF SentKept
    <3>2. SentOn(p)' = SentOn(p) /\ TakenAt(p)' = TakenAt(p)
      BY <1>1, <2>1, <3>1, SameBounds DEF ViewsKept
    <3> QED BY <1>1, <3>2 DEF PanelInv, BoxesInv
  <2> QED BY <1>1, <2>1, <2>4, <2>6, <2>7 DEF PanelInv
<1> QED BY <1>2, <1>3 DEF InjectSeed

-----------------------------------------------------------------------------
(* A cycle of the fabric moves every stream along. *)

LEMMA WholeIs ==
    ASSUME NEW q, IsSeq(q)
    PROVE  SubSeq(q, 1, Len(q)) = q
<1> DEFINE S == {q[i] : i \in DOMAIN q}
<1>1. q \in Seq(S)
  BY DEF IsSeq
<1> HIDE DEF S
<1>2. Len(q) \in Nat
  BY <1>1
<1>3. SubSeq(q, 1, Len(q)) \in Seq(S) /\ Len(SubSeq(q, 1, Len(q))) = Len(q)
      /\ \A i \in 1..Len(q) : SubSeq(q, 1, Len(q))[i] = q[1 + i - 1]
  BY <1>1, <1>2, SubSeqProperties
<1> DEFINE r == SubSeq(q, 1, Len(q))
<1> HIDE DEF r
<1>4. r \in Seq(S) /\ Len(r) = Len(q) /\ \A i \in 1..Len(q) : r[i] = q[i]
  BY <1>2, <1>3 DEF r
<1>5. r = q
  BY <1>1, <1>4
<1> QED BY <1>5 DEF r

\* The direction of the output VC that feeds p.
Entry(k, p) == IF Source(k, p) \in PE THEN Way(k) ELSE "Ramp"

\* Only the stream's feed waits for an input VC of its color.
LEMMA OneWaits ==
    ASSUME PanelInv, EdgeInv, NEW p \in PE, NEW c \in SummaColors, NEW d \in Net!Dir
    PROVE  /\ \A k \in Streams : c = ColorOf(k) =>
                 Net!Waiting(p, d, c) = IF d = Entry(k, p) THEN Feed(k, p) ELSE <<>>
           /\ (\A k \in Streams : c # ColorOf(k)) => Net!Waiting(p, d, c) = <<>>
<1> DEFINE q == Net!From(p, d)
<1>1. Net!Waiting(p, d, c) = IF q \in PE THEN outVc[q][d][c] ELSE <<>>
  <2>1. q \in PE => Net!OutFwd(q, d, c) = outVc[q][d][c]
    BY SentIsPart
  <2> QED BY <2>1 DEF Net!Waiting, PE
<1>2. ASSUME NEW k \in Streams, c = ColorOf(k), d = Entry(k, p)
      PROVE  Net!Waiting(p, d, c) = Feed(k, p)
  <2>1. CASE Source(k, p) \in PE
    <3>1. d = Way(k) /\ q = Source(k, p)
      BY <1>2, <2>1 DEF Entry, Source
    <3> HIDE DEF q
    <3> QED BY <1>1, <1>2, <2>1, <3>1 DEF Feed
  <2>2. CASE Source(k, p) \notin PE
    <3>1. d = "Ramp" /\ q = p
      BY <1>2, <2>2, Compass DEF Entry
    <3> HIDE DEF q
    <3> QED BY <1>1, <1>2, <2>2, <3>1 DEF Feed
  <2> QED BY <2>1, <2>2
<1>3. ASSUME \A k \in Streams : ~(c = ColorOf(k) /\ d = Entry(k, p))
      PROVE  Net!Waiting(p, d, c) = <<>>
  <2> SUFFICES ASSUME q \in PE PROVE outVc[q][d][c] = <<>>
    BY <1>1
  <2>1. ASSUME NEW k \in Streams
        PROVE  ~Carries(q, d, c, k)
    <3> SUFFICES ASSUME c = ColorOf(k), d = Way(k) \/ (d = "Ramp" /\ Source(k, q) \notin PE)
                 PROVE  FALSE
      BY DEF Carries
    <3>1. d # Entry(k, p)
      BY <1>3
    <3>2. CASE d = Way(k)
      <4>1. Source(k, p) = q
        BY <3>2 DEF Source
      <4> HIDE DEF q
      <4> QED BY <3>1, <3>2, <4>1 DEF Entry
    <3>3. CASE d = "Ramp" /\ Source(k, q) \notin PE
      <4>1. q = p
        BY <3>3, Compass
      <4> HIDE DEF q
      <4> QED BY <3>1, <3>3, <4>1 DEF Entry
    <3> QED BY <3>2, <3>3
  <2> HIDE DEF q
  <2> QED BY <2>1 DEF PanelInv, SilenceInv, Silent
<1>4. \A j, k \in Streams : ColorOf(j) = ColorOf(k) => j = k
  BY ColorsDiffer DEF PanelInv
<1> QED BY <1>2, <1>3, <1>4

\* What arrives at p is what waits in the feed, and nothing is ahead of it.
LEMMA FeedArrives ==
    ASSUME PanelInv, EdgeInv, NEW p \in PE, NEW c \in SummaColors
    PROVE  /\ \A k \in Streams : c = ColorOf(k) =>
                 Net!Arrivals(p, c) = Feed(k, p) /\ Net!Ahead(p, Entry(k, p), c) = 0
           /\ (\A k \in Streams : c # ColorOf(k)) => Net!Arrivals(p, c) = <<>>
<1> DEFINE W(d) == Net!Waiting(p, d, c)
<1>1. Net!Dir = {"Ramp", "East", "West", "North", "South"}
  BY DEF Net!Dir
<1>2. Net!Arrivals(p, c) = W("North") \o W("East") \o W("Ramp") \o W("West") \o W("South")
  BY DEF Net!Arrivals
<1>3. <<>> \o <<>> = <<>>
  BY JoinEmpty, EmptyIsSeq
<1>4. ASSUME NEW k \in Streams, c = ColorOf(k)
      PROVE  Net!Arrivals(p, c) = Feed(k, p) /\ Net!Ahead(p, Entry(k, p), c) = 0
  <2>1. Entry(k, p) \in {"Ramp", "East", "South"}
    BY DEF Entry, Way
  <2>2. \A d \in Net!Dir : W(d) = IF d = Entry(k, p) THEN Feed(k, p) ELSE <<>>
    BY <1>4, OneWaits
  <2>3. IsSeq(Feed(k, p))
    BY SentFits
  <2>4. Net!Arrivals(p, c) = Feed(k, p)
    <3>1. Feed(k, p) \o <<>> = Feed(k, p) /\ <<>> \o Feed(k, p) = Feed(k, p)
      BY <2>3, JoinEmpty
    <3> HIDE DEF W
    <3>2. CASE Entry(k, p) = "Ramp"
      <4>1. /\ W("North") = <<>> /\ W("East") = <<>> /\ W("Ramp") = Feed(k, p)
            /\ W("West") = <<>> /\ W("South") = <<>>
        BY <1>1, <2>2, <3>2
      <4> QED BY <1>2, <1>3, <3>1, <4>1
    <3>3. CASE Entry(k, p) = "East"
      <4>1. /\ W("North") = <<>> /\ W("East") = Feed(k, p) /\ W("Ramp") = <<>>
            /\ W("West") = <<>> /\ W("South") = <<>>
        BY <1>1, <2>2, <3>3
      <4> QED BY <1>2, <1>3, <3>1, <4>1
    <3>4. CASE Entry(k, p) = "South"
      <4>1. /\ W("North") = <<>> /\ W("East") = <<>> /\ W("Ramp") = <<>>
            /\ W("West") = <<>> /\ W("South") = Feed(k, p)
        BY <1>1, <2>2, <3>4
      <4> QED BY <1>2, <1>3, <3>1, <4>1
    <3> QED BY <2>1, <3>2, <3>3, <3>4
  <2>5. Net!Ahead(p, Entry(k, p), c) = 0
    <3> DEFINE d == Entry(k, p)
               Before(e) == IF Net!Rank(e) < Net!Rank(d) THEN Len(W(e)) ELSE 0
    <3>1. Net!Ahead(p, d, c) = Before("North") + Before("East") + Before("Ramp") + Before("West")
      BY DEF Net!Ahead
    <3>2. Net!Rank(d) \in Int
      <4>1. Net!Rank("Ramp") = 3 /\ Net!Rank("East") = 2 /\ Net!Rank("South") = 5
        BY Zenon DEF Net!Rank
      <4> QED BY <2>1, <4>1
    <3> HIDE DEF d, W
    <3>3. ASSUME NEW e \in Net!Dir
          PROVE  Before(e) = 0
      <4>1. CASE e = d
        BY <3>2, <4>1
      <4>2. CASE e # d
        <5>1. W(e) = <<>> /\ Len(<<>>) = 0
          BY <2>2, <4>2 DEF d
        <5> QED BY <5>1
      <4> QED BY <4>1, <4>2
    <3>4. Before("North") = 0 /\ Before("East") = 0 /\ Before("Ramp") = 0 /\ Before("West") = 0
      BY <1>1, <3>3
    <3> HIDE DEF Before
    <3> QED BY <3>1, <3>4 DEF d
  <2> QED BY <2>4, <2>5
<1>5. ASSUME \A k \in Streams : c # ColorOf(k)
      PROVE  Net!Arrivals(p, c) = <<>>
  <2>1. \A d \in Net!Dir : W(d) = <<>>
    BY <1>5, OneWaits
  <2>2. /\ W("North") = <<>> /\ W("East") = <<>> /\ W("Ramp") = <<>>
        /\ W("West") = <<>> /\ W("South") = <<>>
    BY <1>1, <2>1
  <2> HIDE DEF W
  <2> QED BY <1>2, <1>3, <2>2
<1> QED BY <1>4, <1>5

LEMMA KeptInVc ==
    ASSUME EdgeInv, NEW p \in PE, NEW c \in SummaColors
    PROVE  Net!InFwd(p, c) = inVc[p][c] /\ IsSeq(inVc[p][c]) /\ Len(inVc[p][c]) \in 0..kVcDepth
<1>1. Net!FwdDirs(p, c) = {}
  BY DEF Net!FwdDirs, PE, Net!PE
<1>2. Net!InFwd(p, c) = SubSeq(inVc[p][c], 0 + 1, Len(inVc[p][c]))
  BY <1>1 DEF Net!InFwd, Net!FwdCount
<1>3. IsSeq(inVc[p][c]) /\ Len(inVc[p][c]) <= kVcDepth
  BY DEF EdgeInv, InVcsFit, FitsVc
<1>4. Len(inVc[p][c]) \in Nat
  BY <1>3 DEF IsSeq
<1> QED BY <1>2, <1>3, <1>4, WholeIs, SummaAssumption

\* A part of the feed moves to the input VC.
LEMMA CycleMoves ==
    ASSUME PanelInv, EdgeInv, GridStep, NEW k \in Streams, NEW p \in PE
    PROVE  \E m \in 0..Len(Feed(k, p)) :
              /\ Arrived(k, p)' = Arrived(k, p) \o SubSeq(Feed(k, p), 1, m)
              /\ Feed(k, p)' = SubSeq(Feed(k, p), m + 1, Len(Feed(k, p)))
<1>1. PICK c \in SummaColors : c = ColorOf(k)
  BY StreamColors DEF PanelInv
<1>2. PICK d, q : d = Entry(k, p) /\ q = IF Source(k, p) \in PE THEN Source(k, p) ELSE p
  OBVIOUS
<1>3. d \in Net!Dir /\ q \in PE /\ Feed(k, p) = outVc[q][d][c] /\ Net!Hop(q, d) = p
  <2>1. Way(k) \in Net!Dir /\ "Ramp" \in Net!Dir
    BY DEF Way, Net!Dir
  <2>2. Source(k, p) \in PE => Net!Hop(Source(k, p), Way(k)) = p
    <3>1. Onto(k, Source(k, p)) = p
      BY Neighbours, StreamColors DEF PanelInv
    <3> QED BY <3>1 DEF Onto
  <2>3. Net!Hop(p, "Ramp") = p
    BY Compass
  <2> QED BY <1>1, <1>2, <2>1, <2>2, <2>3 DEF Entry, Feed
<1>4. SameStep
  BY DEF GridStep, SameStep
<1>5. ColorOf(k)' = c
  BY <1>1, <1>4, SameViews
<1>6. Arrived(k, p)' = Net!InHop(p, c) /\ Feed(k, p)' = Net!OutHop(q, d, c)
  <2>1. Arrived(k, p)' = inVc'[p][c]
    BY <1>5 DEF Arrived
  <2>2. Feed(k, p)' = outVc'[q][d][c]
    BY <1>2, <1>5 DEF Feed, Entry
  <2> QED BY <1>3, <2>1, <2>2 DEF GridStep
<1>7. PICK f, a : f = Feed(k, p) /\ a = inVc[p][c]
  OBVIOUS
<1>8. PICK m : m = Net!Least(Len(f), Net!Room(a))
  OBVIOUS
<1>9. /\ Net!Arrivals(p, c) = f /\ Net!Ahead(p, d, c) = 0
      /\ Net!InFwd(p, c) = a /\ Len(a) \in 0..kVcDepth
      /\ Net!OutFwd(q, d, c) = f /\ Len(f) \in Nat
  <2>1. Net!Arrivals(p, c) = f /\ Net!Ahead(p, d, c) = 0
    BY <1>1, <1>2, <1>7, FeedArrives
  <2>2. Net!InFwd(p, c) = a /\ Len(a) \in 0..kVcDepth
    BY <1>7, KeptInVc
  <2>3. Net!OutFwd(q, d, c) = f /\ Len(f) \in Nat
    BY <1>3, <1>7, SentIsPart
  <2> QED BY <2>1, <2>2, <2>3
<1>10. Net!Room(a) \in 0..kVcDepth
  BY <1>9, SummaAssumption DEF Net!Room
<1>11. m \in 0..Len(f)
  BY <1>8, <1>9, <1>10, SummaAssumption DEF Net!Least
<1>12. Net!Sent(q, d, c) = m
  <2> DEFINE room == Net!Room(a) - 0
  <2>1. Net!Sent(q, d, c) = IF room <= 0 THEN 0 ELSE Net!Least(Len(f), room)
    BY <1>3, <1>9 DEF Net!Sent, PE
  <2>2. room = Net!Room(a)
    BY <1>10, SummaAssumption
  <2>3. Net!Room(a) <= 0 => m = 0
    BY <1>8, <1>9, <1>10, SummaAssumption DEF Net!Least
  <2> HIDE DEF room
  <2> QED BY <1>8, <2>1, <2>2, <2>3
<1>13. Net!InHop(p, c) = a \o SubSeq(f, 1, m)
  BY <1>8, <1>9 DEF Net!InHop
<1>14. Net!OutHop(q, d, c) = SubSeq(f, m + 1, Len(f))
  BY <1>9, <1>12 DEF Net!OutHop
<1>15. a = Arrived(k, p)
  BY <1>1, <1>7 DEF Arrived
<1> QED BY <1>6, <1>7, <1>11, <1>13, <1>14, <1>15

\* No other VC changes.
LEMMA CycleRests ==
    ASSUME PanelInv, EdgeInv, GridStep, NEW p \in PE, NEW c \in SummaColors
    PROVE  /\ (\A k \in Streams : c # ColorOf(k)) => inVc'[p][c] = inVc[p][c]
           /\ \A d \in Net!Dir : outVc[p][d][c] = <<>> => outVc'[p][d][c] = <<>>
<1>1. Len(<<>>) = 0 /\ IsSeq(<<>>)
  BY EmptyIsSeq
<1>2. SubSeq(<<>>, 1, 0) = <<>>
  <2>1. SubSeq(<<>>, 1, Len(<<>>)) = <<>>
    BY <1>1, WholeIs
  <2> QED BY <1>1, <2>1
<1>3. ASSUME \A k \in Streams : c # ColorOf(k)
      PROVE  inVc'[p][c] = inVc[p][c]
  <2>1. Net!Arrivals(p, c) = <<>>
    BY <1>3, FeedArrives
  <2>2. /\ Net!InFwd(p, c) = inVc[p][c] /\ IsSeq(inVc[p][c])
        /\ Len(inVc[p][c]) \in 0..kVcDepth
    BY KeptInVc
  <2>3. Net!Least(0, Net!Room(inVc[p][c])) = 0
    BY <2>2, SummaAssumption DEF Net!Least, Net!Room
  <2>4. Net!InHop(p, c) = inVc[p][c] \o <<>>
    BY <1>1, <1>2, <2>1, <2>2, <2>3 DEF Net!InHop
  <2>5. inVc'[p][c] = Net!InHop(p, c)
    BY DEF GridStep
  <2> QED BY <2>2, <2>4, <2>5, JoinEmpty
<1>4. ASSUME NEW d \in Net!Dir, outVc[p][d][c] = <<>>
      PROVE  outVc'[p][d][c] = <<>>
  <2>1. Net!OutFwd(p, d, c) = <<>> /\ Net!Sent(p, d, c) \in 0..0
    BY <1>1, <1>4, SentIsPart
  <2>2. Net!Sent(p, d, c) = 0
    BY <2>1
  <2>3. Net!OutHop(p, d, c) = SubSeq(<<>>, 0 + 1, 0)
    BY <1>1, <2>1, <2>2 DEF Net!OutHop
  <2>4. outVc'[p][d][c] = Net!OutHop(p, d, c)
    BY DEF GridStep
  <2> QED BY <1>2, <2>3, <2>4
<1> QED BY <1>3, <1>4

\* What does not change the state of a PE.
StatesKept ==
    /\ DOMAIN st' = PE /\ \A p \in PE : st'[p] = st[p]
    /\ \A k : \A p \in PE : Taken(k, p)' = Taken(k, p)

LEMMA StatesStay ==
    ASSUME PesInv, BuffersInv, SameStep, st' = st
    PROVE  PesInv' /\ BuffersInv' /\ StatesKept
<1>1. PesInv'
  BY SameViews DEF PesInv, IsPe, SameStep
<1>2. BuffersInv'
  <2>1. \A k, p, n, buf : Holds(buf, k, p, n)' <=> Holds(buf, k, p, n)
    BY SameViews DEF Holds
  <2> QED BY <2>1 DEF BuffersInv
<1>3. \A k : \A p \in PE : Taken(k, p)' = Taken(k, p)
  BY SameViews DEF Taken, HasComputed, SameStep
<1> QED BY <1>1, <1>2, <1>3 DEF PesInv, StatesKept

LEMMA TokenColorsApart ==
    ASSUME PlanInv
    PROVE  /\ xDone \in SummaColors /\ yDone \in SummaColors /\ xDone # yDone
           /\ xDone \notin PanelColors /\ yDone \notin PanelColors
           /\ \A k \in {"A", "B"} : xDone # ColorOf(k) /\ yDone # ColorOf(k)
<1>1. xDone = 4 /\ yDone = 5 /\ SummaColors = 0..5
  BY DEF xDone, yDone, SummaColors
<1> QED BY <1>1, StreamColors

LEMMA StepPanels == PanelInv /\ EdgeInv /\ GridStep => PanelInv'
<1> SUFFICES ASSUME PanelInv, EdgeInv, GridStep PROVE PanelInv'
  OBVIOUS
<1>1. SameStep /\ cursor' = cursor /\ st' = st /\ PlanInv'
  <2>1. SameStep /\ cursor' = cursor /\ st' = st /\ pc # "done" /\ pc' # "done"
    BY DEF GridStep, SameStep
  <2> QED BY <2>1, PlanKept DEF PanelInv, PlanInv
<1>2. PesInv' /\ BuffersInv' /\ StatesKept
  BY <1>1, StatesStay DEF PanelInv
<1>3. /\ Streams' = Streams /\ panelSize' = panelSize /\ Panel' = Panel /\ PerIndex' = PerIndex
      /\ \A k : ColorOf(k)' = ColorOf(k)
      /\ Streams \subseteq {"A", "B"} /\ PanelColors \subseteq SummaColors
  BY <1>1, SameViews, StreamColors DEF PanelInv
<1>4. ASSUME NEW k \in Streams, NEW p \in PE
      PROVE  /\ IsRun(Arrived(k, p)', k, p, Taken(k, p)')
             /\ IsRun(Feed(k, p)', k, p, Taken(k, p)' + Len(Arrived(k, p)'))
             /\ SentTo(k, p)' = SentTo(k, p)
  <2>1. PICK a, f, n : a = Arrived(k, p) /\ f = Feed(k, p) /\ n = Taken(k, p)
    OBVIOUS
  <2>2. /\ IsRun(a, k, p, n) /\ IsRun(f, k, p, n + Len(a))
        /\ n \in Nat /\ Len(a) \in Nat /\ Len(f) \in Nat
    BY <2>1, SentFits DEF PanelInv, RunsInv
  <2>3. PICK m \in 0..Len(f) : /\ Arrived(k, p)' = a \o SubSeq(f, 1, m)
                               /\ Feed(k, p)' = SubSeq(f, m + 1, Len(f))
    BY <2>1, CycleMoves
  <2>4. /\ Len(a \o SubSeq(f, 1, m)) = Len(a) + m
        /\ Len(SubSeq(f, m + 1, Len(f))) = Len(f) - m
        /\ IsRun(a \o SubSeq(f, 1, m), k, p, n)
        /\ IsRun(SubSeq(f, m + 1, Len(f)), k, p, n + (Len(a) + m))
    BY <2>2, MoveRun
  <2>5. Taken(k, p)' = n
    BY <1>2, <2>1 DEF StatesKept
  <2>6. SentTo(k, p)' = n + (Len(a) + m) + (Len(f) - m)
    BY <2>3, <2>4, <2>5 DEF SentTo
  <2>7. SentTo(k, p) = n + Len(a) + Len(f)
    BY <2>1 DEF SentTo
  <2> QED BY <2>2, <2>3, <2>4, <2>5, <2>6, <2>7
<1>5. RunsInv'
  BY <1>1, <1>3, <1>4, SameViews DEF RunsInv
<1>6. GivenInv'
  BY <1>1, <1>2, <1>3, <1>4 DEF PanelInv, GivenInv, StatesKept, Slot
<1>7. BoxesInv'
  <2> SUFFICES ASSUME NEW p \in PE
               PROVE  Boxed(st'[p].outbox, p, SentOn(p)', TakenAt(p)')
    BY <1>1, BoxesFollow
  <2>1. SentOn(p)' = SentOn(p) /\ TakenAt(p)' = TakenAt(p)
    BY <1>1, <1>2, <1>4, SameBounds DEF StatesKept
  <2> QED BY <1>1, <2>1 DEF PanelInv, BoxesInv
<1>8. TokensInv'
  <2>1. \A p \in PE : inVc'[p][xDone] = inVc[p][xDone] /\ inVc'[p][yDone] = inVc[p][yDone]
    BY <1>3, CycleRests, TokenColorsApart DEF PanelInv
  <2> QED BY <1>1, <2>1 DEF PanelInv, TokensInv, IsTokenVc
<1>9. SilenceInv'
  <2>1. \A p, e, c, k : Carries(p, e, c, k)' <=> Carries(p, e, c, k)
    BY <1>1, SameViews DEF Carries
  <2>2. ASSUME NEW p \in PE, NEW c \in PanelColors, \A k \in Streams : c # ColorOf(k)
        PROVE  inVc'[p][c] = <<>>
    BY <1>3, <2>2, CycleRests DEF PanelInv, SilenceInv
  <2>3. ASSUME NEW p \in PE, NEW d \in Net!Dir, NEW c \in SummaColors,
               \A k \in Streams : ~Carries(p, d, c, k)
        PROVE  outVc'[p][d][c] = <<>>
    BY <2>3, CycleRests DEF PanelInv, SilenceInv, Silent
  <2> QED BY <1>3, <2>1, <2>2, <2>3 DEF SilenceInv, Silent
<1> QED BY <1>1, <1>2, <1>5, <1>6, <1>7, <1>8, <1>9 DEF PanelInv

-----------------------------------------------------------------------------
(* The drain tasks. *)

\* What the drain tasks of p take of a panel, and what they have counted of it.
Fresh(k, p) == IF k \in Streams THEN Arrived(k, p) ELSE <<>>
Counted(k, p) == IF k = "A" THEN st[p].aCount ELSE st[p].bCount

LEMMA FreshIs ==
    ASSUME PanelInv, NEW k \in {"A", "B"}, NEW p \in PE
    PROVE  /\ IsSeq(Fresh(k, p)) /\ Len(Fresh(k, p)) \in Nat
           /\ IsRun(Fresh(k, p), k, p, Counted(k, p))
           /\ IsRun(Fresh(k, p), k, p, Taken(k, p))
           /\ Counted(k, p) \in Nat /\ Counted(k, p) + Len(Fresh(k, p)) <= panelSize
           /\ Taken(k, p) \in Nat /\ Taken(k, p) + Len(Fresh(k, p)) <= panelSize
           /\ HasComputed(p) => Fresh(k, p) = <<>> /\ Counted(k, p) = 0
           /\ ~HasComputed(p) => Counted(k, p) = Taken(k, p)
           /\ k \notin Streams => Fresh(k, p) = <<>>
<1>1. panelSize \in Nat
  BY PanelSizes DEF PanelInv
<1>2. /\ Counted(k, p) \in Nat /\ Counted(k, p) <= panelSize
      /\ HasComputed(p) => Counted(k, p) = 0 /\ Taken(k, p) = panelSize
      /\ ~HasComputed(p) => Counted(k, p) = Taken(k, p)
      /\ Taken(k, p) \in Nat /\ Taken(k, p) <= panelSize
  <2>1. IsPe(st[p])
    BY DEF PanelInv, PesInv
  <2>2. Taken(k, p) \in Nat /\ Taken(k, p) <= panelSize
    BY TakenFits DEF PanelInv
  <2> QED BY <1>1, <2>1, <2>2 DEF IsPe, Counted, Taken, HasComputed
<1>3. CASE k \in Streams
  <2>1. /\ Fresh(k, p) = Arrived(k, p) /\ IsSeq(Fresh(k, p)) /\ Len(Fresh(k, p)) \in Nat
        /\ Taken(k, p) + Len(Fresh(k, p)) <= panelSize
        /\ IsRun(Fresh(k, p), k, p, Taken(k, p))
    <3>1. Fresh(k, p) = Arrived(k, p)
      BY <1>3 DEF Fresh
    <3>2. /\ Len(Arrived(k, p)) \in Nat /\ Len(Feed(k, p)) \in Nat
          /\ SentTo(k, p) <= panelSize /\ IsSeq(Arrived(k, p))
      BY <1>3, SentFits
    <3>3. Taken(k, p) + Len(Arrived(k, p)) <= panelSize
      BY <1>1, <1>2, <3>2 DEF SentTo
    <3> QED BY <1>3, <3>1, <3>2, <3>3 DEF PanelInv, RunsInv
  <2>2. CASE HasComputed(p)
    <3>1. Len(Fresh(k, p)) = 0
      BY <1>1, <1>2, <2>1, <2>2
    <3>2. Fresh(k, p) = <<>>
      BY <2>1, <3>1 DEF IsSeq
    <3> QED BY <1>1, <1>2, <1>3, <2>1, <2>2, <3>1, <3>2, EmptyRun
  <2>3. CASE ~HasComputed(p)
    BY <1>2, <1>3, <2>1, <2>3
  <2> QED BY <2>2, <2>3
<1>4. CASE k \notin Streams
  <2>1. Fresh(k, p) = <<>> /\ Len(<<>>) = 0 /\ IsSeq(<<>>)
    BY <1>4, EmptyIsSeq DEF Fresh
  <2> QED BY <1>1, <1>2, <2>1, EmptyRun
<1> QED BY <1>3, <1>4

\* The VCs of the other parity, and those of a stream that is not sent, are empty.
LEMMA PanelVcs ==
    ASSUME PanelInv, NEW p \in PE
    PROVE  /\ \/ /\ inVc[p][aColor[1]] = Fresh("A", p) /\ aColor[1] = ColorOf("A")
                 /\ inVc[p][aColor[2]] = <<>>
              \/ /\ inVc[p][aColor[2]] = Fresh("A", p) /\ aColor[2] = ColorOf("A")
                 /\ inVc[p][aColor[1]] = <<>>
           /\ \/ /\ inVc[p][bColor[1]] = Fresh("B", p) /\ bColor[1] = ColorOf("B")
                 /\ inVc[p][bColor[2]] = <<>>
              \/ /\ inVc[p][bColor[2]] = Fresh("B", p) /\ bColor[2] = ColorOf("B")
                 /\ inVc[p][bColor[1]] = <<>>
<1>1. Parity \in {1, 2}
  BY DEF Parity, PanelInv, PlanInv
<1>2. /\ ColorOf("A") = aColor[Parity] /\ ColorOf("B") = bColor[Parity]
      /\ aColor[1] = 0 /\ aColor[2] = 1 /\ bColor[1] = 2 /\ bColor[2] = 3
      /\ PanelColors = {0, 1, 2, 3}
  BY DEF ColorOf, aColor, bColor, PanelColors
<1>3. Streams = {"A"} \/ Streams = {"A", "B"}
  BY DEF Streams
<1>4. \A c \in {0, 1, 2, 3} : (\A k \in Streams : c # ColorOf(k)) => inVc[p][c] = <<>>
  BY <1>2 DEF PanelInv, SilenceInv
<1>5. Fresh("A", p) = inVc[p][ColorOf("A")]
  BY <1>3 DEF Fresh, Arrived
<1>6. Fresh("B", p) = inVc[p][ColorOf("B")]
  <2>1. CASE Streams = {"A"}
    <3>1. ColorOf("B") \in {0, 1, 2, 3} /\ \A k \in Streams : ColorOf("B") # ColorOf(k)
      BY <1>1, <1>2, <2>1
    <3> QED BY <1>4, <2>1, <3>1 DEF Fresh
  <2>2. CASE Streams = {"A", "B"}
    BY <2>2 DEF Fresh, Arrived
  <2> QED BY <1>3, <2>1, <2>2
<1>7. CASE Parity = 1
  <2>1. ColorOf("A") = 0 /\ ColorOf("B") = 2
    BY <1>2, <1>7
  <2>2. \A k \in Streams : 1 # ColorOf(k) /\ 3 # ColorOf(k)
    BY <1>3, <2>1
  <2>3. inVc[p][1] = <<>> /\ inVc[p][3] = <<>>
    BY <1>4, <2>2
  <2> QED BY <1>2, <1>5, <1>6, <2>1, <2>3
<1>8. CASE Parity = 2
  <2>1. ColorOf("A") = 1 /\ ColorOf("B") = 3
    BY <1>2, <1>8
  <2>2. \A k \in Streams : 0 # ColorOf(k) /\ 2 # ColorOf(k)
    BY <1>3, <2>1
  <2>3. inVc[p][0] = <<>> /\ inVc[p][2] = <<>>
    BY <1>4, <2>2
  <2> QED BY <1>2, <1>5, <1>6, <2>1, <2>3
<1> QED BY <1>1, <1>7, <1>8

LEMMA NothingOnward ==
    ASSUME NEW p, NEW c, NEW d
    PROVE  Onward(p, c, d, <<>>) = <<>>
<1>1. IsSeq(<<>>) /\ Len(<<>>) = 0
  BY EmptyIsSeq
<1>2. IsSeq(Onward(p, c, d, <<>>)) /\ Len(Onward(p, c, d, <<>>)) = 0
  BY <1>1, OnwardIs
<1> QED BY <1>2 DEF IsSeq

\* One of two VCs is empty: together they are the other.
LEMMA OneOfTwo ==
    ASSUME NEW on, IsSeq(on), NEW x, NEW y,
           (x = on /\ y = <<>>) \/ (x = <<>> /\ y = on)
    PROVE  x \o y = on
<1>1. on \o <<>> = on /\ <<>> \o on = on
  BY JoinEmpty
<1> QED BY <1>1

LEMMA DrainedIs ==
    ASSUME PanelInv, NEW p \in PE
    PROVE  Drained(p) =
             [aBuf |-> Stored(st[p].aBuf, Fresh("A", p)),
              bBuf |-> Stored(st[p].bBuf, Fresh("B", p)),
              cTile |-> st[p].cTile,
              outbox |-> (st[p].outbox \o Onward(p, ColorOf("A"), Way("A"), Fresh("A", p)))
                            \o Onward(p, ColorOf("B"), Way("B"), Fresh("B", p)),
              aCount |-> st[p].aCount + Len(Fresh("A", p)),
              bCount |-> st[p].bCount + Len(Fresh("B", p)),
              stepsDone |-> st[p].stepsDone,
              aToken |-> st[p].aToken, bToken |-> st[p].bToken]
<1>1. PICK a, b : a = Fresh("A", p) /\ b = Fresh("B", p)
  OBVIOUS
<1>2. IsSeq(a) /\ IsSeq(b) /\ IsSeq(<<>>)
  BY <1>1, FreshIs, EmptyIsSeq
<1>3. PICK a1, a2, b1, b2 : /\ a1 = inVc[p][aColor[1]] /\ a2 = inVc[p][aColor[2]]
                            /\ b1 = inVc[p][bColor[1]] /\ b2 = inVc[p][bColor[2]]
  OBVIOUS
<1>4. PICK oa, ob : /\ oa = Onward(p, ColorOf("A"), "East", a)
                    /\ ob = Onward(p, ColorOf("B"), "South", b)
  OBVIOUS
<1>5. PICK x1, x2, y1, y2 :
         /\ x1 = Onward(p, aColor[1], "East", a1) /\ x2 = Onward(p, aColor[2], "East", a2)
         /\ y1 = Onward(p, bColor[1], "South", b1) /\ y2 = Onward(p, bColor[2], "South", b2)
  OBVIOUS
<1>6. IsSeq(oa) /\ IsSeq(ob)
  BY <1>2, <1>4, OnwardIs
<1>7. (a1 = a /\ a2 = <<>> /\ x1 = oa /\ x2 = <<>>) \/ (a1 = <<>> /\ a2 = a /\ x1 = <<>> /\ x2 = oa)
  BY <1>1, <1>3, <1>4, <1>5, PanelVcs, NothingOnward
<1>8. (b1 = b /\ b2 = <<>> /\ y1 = ob /\ y2 = <<>>) \/ (b1 = <<>> /\ b2 = b /\ y1 = <<>> /\ y2 = ob)
  BY <1>1, <1>3, <1>4, <1>5, PanelVcs, NothingOnward
<1>9. IsSeq(st[p].outbox) /\ IsSeq(st[p].outbox \o oa)
  <2>1. IsSeq(st[p].outbox)
    BY DEF PanelInv, BoxesInv, Boxed
  <2> QED BY <1>6, <2>1, ConcatIsSeq
<1>10. a1 \o a2 = a /\ (st[p].outbox \o x1) \o x2 = st[p].outbox \o oa
  <2>1. a1 \o a2 = a
    BY <1>2, <1>7, OneOfTwo
  <2>2. PICK box : box = st[p].outbox
    OBVIOUS
  <2>3. (box \o x1) \o x2 = box \o oa
    <3>1. (x1 = oa /\ x2 = <<>>) \/ (x1 = <<>> /\ x2 = oa)
      BY <1>7
    <3>2. IsSeq(box)
      BY <1>9, <2>2
    <3>3. IsSeq(oa)
      BY <1>6
    <3>4. \A r : IsSeq(r) => r \o <<>> = r
      BY JoinEmpty
    <3>5. IsSeq(box \o oa)
      BY <3>2, <3>3, ConcatIsSeq
    <3>6. CASE x1 = oa /\ x2 = <<>>
      BY <3>4, <3>5, <3>6
    <3>7. CASE x1 = <<>> /\ x2 = oa
      BY <3>2, <3>4, <3>7
    <3> QED BY <3>1, <3>6, <3>7
  <2> QED BY <2>1, <2>2, <2>3
<1>11. b1 \o b2 = b /\ ((st[p].outbox \o oa) \o y1) \o y2 = (st[p].outbox \o oa) \o ob
  <2>1. b1 \o b2 = b
    BY <1>2, <1>8, OneOfTwo
  <2>2. PICK box : box = st[p].outbox \o oa
    OBVIOUS
  <2>3. (box \o y1) \o y2 = box \o ob
    <3>1. (y1 = ob /\ y2 = <<>>) \/ (y1 = <<>> /\ y2 = ob)
      BY <1>8
    <3>2. IsSeq(box)
      BY <1>9, <2>2
    <3>3. IsSeq(ob)
      BY <1>6
    <3>4. \A r : IsSeq(r) => r \o <<>> = r
      BY JoinEmpty
    <3>5. IsSeq(box \o ob)
      BY <3>2, <3>3, ConcatIsSeq
    <3>6. CASE y1 = ob /\ y2 = <<>>
      BY <3>4, <3>5, <3>6
    <3>7. CASE y1 = <<>> /\ y2 = ob
      BY <3>2, <3>4, <3>7
    <3> QED BY <3>1, <3>6, <3>7
  <2> QED BY <2>1, <2>2, <2>3
<1>12. st[p] = [aBuf |-> st[p].aBuf, bBuf |-> st[p].bBuf, cTile |-> st[p].cTile,
                outbox |-> st[p].outbox,
                aCount |-> st[p].aCount, bCount |-> st[p].bCount,
                stepsDone |-> st[p].stepsDone,
                aToken |-> st[p].aToken, bToken |-> st[p].bToken]
  BY DEF PanelInv, PesInv, IsPe
<1>13. Drained(p) = [st[p] EXCEPT
            !.aBuf = Stored(@, a1 \o a2), !.bBuf = Stored(@, b1 \o b2),
            !.aCount = @ + Len(a1 \o a2), !.bCount = @ + Len(b1 \o b2),
            !.outbox = @ \o x1 \o x2 \o y1 \o y2]
  BY <1>3, <1>5 DEF Drained
<1>14. Drained(p) = [st[p] EXCEPT
            !.aBuf = Stored(st[p].aBuf, a), !.bBuf = Stored(st[p].bBuf, b),
            !.aCount = st[p].aCount + Len(a), !.bCount = st[p].bCount + Len(b),
            !.outbox = (st[p].outbox \o oa) \o ob]
  BY <1>10, <1>11, <1>12, <1>13
<1>15. Way("A") = "East" /\ Way("B") = "South"
  BY Ways
<1> QED BY <1>1, <1>4, <1>12, <1>14, <1>15

\* A panel buffer takes the next elements of its panel.
LEMMA StoredHolds ==
    ASSUME PlanInv, NEW k, NEW p, NEW n \in Nat, NEW buf, Holds(buf, k, p, n),
           NEW ws, IsRun(ws, k, p, n), n + Len(ws) <= panelSize
    PROVE  Holds(Stored(buf, ws), k, p, n + Len(ws))
<1>1. Len(ws) \in Nat /\ DOMAIN ws = 1..Len(ws) /\ panelSize \in Nat
  BY PanelSizes DEF IsRun, IsSeq
<1>2. ASSUME NEW i \in 1..Len(ws)
      PROVE  ws[i].control = n + i - 1 /\ ws[i].data = Element(k, p, n + i - 1)
  <2>1. PICK t : t = n + i - 1
    OBVIOUS
  <2>2. ws[i] = WaveletOf(k, p, t)
    BY <2>1 DEF IsRun
  <2>3. t \in Nat /\ t < panelSize
    BY <1>1, <2>1
  <2>4. WaveletOf(k, p, t).control = t
    BY <2>3, ControlIsIndex
  <2>5. WaveletOf(k, p, t).data = Element(k, p, t)
    BY DEF WaveletOf
  <2> QED BY <2>1, <2>2, <2>4, <2>5
<1>3. DOMAIN Stored(buf, ws) = Panel /\ Stored(buf, ws) = [t \in Panel |-> Stored(buf, ws)[t]]
  BY DEF Stored, Holds
<1>4. ASSUME NEW t \in Panel
      PROVE  Stored(buf, ws)[t] = IF t < n + Len(ws) THEN Element(k, p, t) ELSE Zero
  <2> DEFINE hits == {i \in DOMAIN ws : ws[i].control = t}
             last == CHOOSE i \in hits : \A j \in hits : j <= i
  <2>1. t \in Nat /\ t < panelSize
    BY <1>1 DEF Panel
  <2>2. Stored(buf, ws)[t] = IF hits = {} THEN buf[t] ELSE ws[last].data
    BY DEF Stored, Holds
  <2>3. buf[t] = IF t < n THEN Element(k, p, t) ELSE Zero
    BY DEF Holds
  <2>4. hits = {i \in 1..Len(ws) : n + i - 1 = t}
    BY <1>1, <1>2
  <2>5. CASE t \in n..n + Len(ws) - 1
    <3>1. PICK h : h = t - n + 1
      OBVIOUS
    <3>2. h \in 1..Len(ws) /\ n + h - 1 = t /\ h \in Int
      BY <1>1, <2>1, <2>5, <3>1
    <3>3. hits = {h}
      <4>1. \A i \in 1..Len(ws) : n + i - 1 = t <=> i = h
        BY <1>1, <2>1, <3>1
      <4> HIDE DEF hits
      <4> QED BY <2>4, <3>2, <4>1
    <3> HIDE DEF hits
    <3>4. last = h
      <4>1. \A i : (i \in hits /\ \A j \in hits : j <= i) <=> i = h
        BY <3>2, <3>3
      <4> QED BY <3>3, <4>1
    <3> HIDE DEF last
    <3>5. ws[h].data = Element(k, p, t)
      BY <1>2, <3>2
    <3> QED BY <1>1, <2>1, <2>2, <2>5, <3>3, <3>4, <3>5
  <2>6. CASE t \notin n..n + Len(ws) - 1
    <3>1. hits = {}
      <4>1. \A i \in 1..Len(ws) : n + i - 1 # t
        BY <1>1, <2>1, <2>6
      <4> HIDE DEF hits
      <4> QED BY <2>4, <4>1
    <3>2. t < n <=> t < n + Len(ws)
      BY <1>1, <2>1, <2>6
    <3> HIDE DEF hits, last
    <3> QED BY <2>2, <2>3, <3>1, <3>2
  <2> QED BY <2>5, <2>6
<1> QED BY <1>3, <1>4 DEF Holds

\* The next state of a PE whose drain tasks have run.
LEMMA DrainedPe ==
    ASSUME PanelInv, Drain, NEW p \in PE
    PROVE  /\ IsPe(st'[p])
           /\ st'[p].aBuf = Stored(st[p].aBuf, Fresh("A", p))
           /\ st'[p].bBuf = Stored(st[p].bBuf, Fresh("B", p))
           /\ st'[p].cTile = st[p].cTile
           /\ st'[p].outbox =
                 (st[p].outbox \o Onward(p, ColorOf("A"), Way("A"), Fresh("A", p)))
                     \o Onward(p, ColorOf("B"), Way("B"), Fresh("B", p))
           /\ st'[p].aCount = st[p].aCount + Len(Fresh("A", p))
           /\ st'[p].bCount = st[p].bCount + Len(Fresh("B", p))
           /\ st'[p].stepsDone = st[p].stepsDone
           /\ st'[p].aToken = st[p].aToken /\ st'[p].bToken = st[p].bToken
<1>1. st'[p] = Drained(p)
  BY DEF Drain
<1>2. PICK a, b, n, m : /\ a = Fresh("A", p) /\ b = Fresh("B", p)
                        /\ n = Len(a) /\ m = Len(b)
  OBVIOUS
<1>3. PICK box : box = (st[p].outbox \o Onward(p, ColorOf("A"), Way("A"), Fresh("A", p)))
                           \o Onward(p, ColorOf("B"), Way("B"), Fresh("B", p))
  OBVIOUS
<1>4. st'[p] = [aBuf |-> Stored(st[p].aBuf, a), bBuf |-> Stored(st[p].bBuf, b),
                cTile |-> st[p].cTile, outbox |-> box,
                aCount |-> st[p].aCount + n, bCount |-> st[p].bCount + m,
                stepsDone |-> st[p].stepsDone,
                aToken |-> st[p].aToken, bToken |-> st[p].bToken]
  BY <1>1, <1>2, <1>3, DrainedIs
<1>5. /\ n \in Nat /\ m \in Nat /\ panelSize \in Nat \ {0}
      /\ st[p].aCount \in Nat /\ st[p].bCount \in Nat
      /\ st[p].aCount + n <= panelSize /\ st[p].bCount + m <= panelSize
      /\ HasComputed(p) => n = 0 /\ m = 0
      /\ breakRendezvous => m = 0
  <2>1. \A k \in {"A", "B"} : /\ Len(Fresh(k, p)) \in Nat /\ Counted(k, p) \in Nat
                              /\ Counted(k, p) + Len(Fresh(k, p)) <= panelSize
                              /\ HasComputed(p) => Fresh(k, p) = <<>>
                              /\ k \notin Streams => Fresh(k, p) = <<>>
    BY FreshIs
  <2>2. Counted("A", p) = st[p].aCount /\ Counted("B", p) = st[p].bCount
    BY DEF Counted
  <2>3. breakRendezvous => "B" \notin Streams
    BY DEF Streams
  <2>4. Len(<<>>) = 0 /\ panelSize \in Nat \ {0}
    BY PanelSizes DEF PanelInv
  <2> QED BY <1>2, <2>1, <2>2, <2>3, <2>4
<1>6. IsPe(st[p])
  BY DEF PanelInv, PesInv
<1>7. IsPe(st'[p])
  <2>1. st'[p].aToken => st'[p].aCount = panelSize
    <3>1. st[p].aToken => st[p].aCount = panelSize
      BY <1>6 DEF IsPe
    <3> QED BY <1>4, <1>5, <3>1
  <2>2. st'[p].bToken => st'[p].bCount = panelSize
    <3>1. st[p].bToken => st[p].bCount = panelSize
      BY <1>6 DEF IsPe
    <3> QED BY <1>4, <1>5, <3>1
  <2>3. st'[p].stepsDone = step + 1 => st'[p].aCount = 0 /\ st'[p].bCount = 0
    <3>1. st[p].stepsDone = step + 1 => st[p].aCount = 0 /\ st[p].bCount = 0
      BY <1>6 DEF IsPe
    <3> QED BY <1>4, <1>5, <3>1 DEF HasComputed
  <2>4. breakRendezvous => st'[p].bCount = 0
    <3>1. breakRendezvous => st[p].bCount = 0
      BY <1>6 DEF IsPe
    <3> QED BY <1>4, <1>5, <3>1
  <2>5. st'[p].aCount \in 0..panelSize /\ st'[p].bCount \in 0..panelSize
    BY <1>4, <1>5
  <2>6. /\ st'[p].stepsDone \in {step, step + 1}
        /\ st'[p].aToken \in BOOLEAN /\ st'[p].bToken \in BOOLEAN
    BY <1>4, <1>6 DEF IsPe
  <2>7. st'[p] = [aBuf |-> st'[p].aBuf, bBuf |-> st'[p].bBuf, cTile |-> st'[p].cTile,
                  outbox |-> st'[p].outbox,
                  aCount |-> st'[p].aCount, bCount |-> st'[p].bCount,
                  stepsDone |-> st'[p].stepsDone,
                  aToken |-> st'[p].aToken, bToken |-> st'[p].bToken]
    BY <1>4
  <2> QED BY <2>1, <2>2, <2>3, <2>4, <2>5, <2>6, <2>7 DEF IsPe
<1>8. /\ st'[p].aBuf = Stored(st[p].aBuf, a) /\ st'[p].bBuf = Stored(st[p].bBuf, b)
      /\ st'[p].cTile = st[p].cTile /\ st'[p].outbox = box
      /\ st'[p].aCount = st[p].aCount + n /\ st'[p].bCount = st[p].bCount + m
      /\ st'[p].stepsDone = st[p].stepsDone
      /\ st'[p].aToken = st[p].aToken /\ st'[p].bToken = st[p].bToken
  BY <1>4
<1> QED BY <1>2, <1>3, <1>7, <1>8

\* The elements that had arrived are taken; nothing else moves.
LEMMA DrainViews ==
    ASSUME PanelInv, Drain, NEW p \in PE
    PROVE  /\ \A k \in {"A", "B"} : Taken(k, p)' = Taken(k, p) + Len(Fresh(k, p))
           /\ \A k \in Streams : /\ Arrived(k, p)' = <<>> /\ Feed(k, p)' = Feed(k, p)
                                 /\ SentTo(k, p)' = SentTo(k, p)
<1>1. SameStep /\ outVc' = outVc
  BY DEF Drain, driver, SameStep
<1>2. /\ st'[p].aCount = st[p].aCount + Len(Fresh("A", p))
      /\ st'[p].bCount = st[p].bCount + Len(Fresh("B", p))
      /\ st'[p].stepsDone = st[p].stepsDone
  BY DrainedPe
<1>3. panelSize' = panelSize /\ step' = step /\ \A k : ColorOf(k)' = ColorOf(k)
  BY <1>1, SameViews DEF SameStep
<1>4. ASSUME NEW k \in {"A", "B"}
      PROVE  Taken(k, p)' = Taken(k, p) + Len(Fresh(k, p))
  <2>1. Taken(k, p)' = IF HasComputed(p) THEN panelSize
                       ELSE IF k = "A" THEN st'[p].aCount ELSE st'[p].bCount
    BY <1>2, <1>3 DEF Taken, HasComputed
  <2>2. CASE HasComputed(p)
    <3>1. Fresh(k, p) = <<>> /\ Len(<<>>) = 0 /\ panelSize \in Nat
      BY <2>2, FreshIs, PanelSizes DEF PanelInv
    <3>2. Taken(k, p) = panelSize
      BY <2>2 DEF Taken
    <3> QED BY <2>1, <2>2, <3>1, <3>2
  <2>3. CASE ~HasComputed(p)
    BY <1>2, <2>1, <2>3 DEF Taken
  <2> QED BY <2>2, <2>3
<1>5. ASSUME NEW k \in Streams
      PROVE  /\ Arrived(k, p)' = <<>> /\ Feed(k, p)' = Feed(k, p)
             /\ SentTo(k, p)' = SentTo(k, p)
  <2>1. k \in {"A", "B"} /\ ColorOf(k) \in PanelColors /\ ColorOf(k) \in SummaColors
    BY StreamColors DEF PanelInv
  <2>2. Arrived(k, p)' = <<>>
    <3>1. Arrived(k, p)' = inVc'[p][ColorOf(k)]
      BY <1>3 DEF Arrived
    <3> QED BY <2>1, <3>1 DEF Drain
  <2>3. Feed(k, p)' = Feed(k, p)
    BY <1>1, <1>3 DEF Feed
  <2>4. Fresh(k, p) = Arrived(k, p)
    BY DEF Fresh
  <2>5. Taken(k, p)' = Taken(k, p) + Len(Arrived(k, p))
    BY <1>4, <2>1, <2>4
  <2>6. Len(<<>>) = 0
    OBVIOUS
  <2>7. SentTo(k, p)' = Taken(k, p) + Len(Arrived(k, p)) + 0 + Len(Feed(k, p))
    BY <2>2, <2>3, <2>5, <2>6 DEF SentTo
  <2>8. Taken(k, p) \in Nat /\ Len(Arrived(k, p)) \in Nat /\ Len(Feed(k, p)) \in Nat
    BY SentFits
  <2> QED BY <2>2, <2>3, <2>7, <2>8 DEF SentTo
<1> QED BY <1>4, <1>5

\* The outbox takes what is to be sent on.
LEMMA DrainBoxes == PanelInv /\ Drain => BoxesInv'
<1> SUFFICES ASSUME PanelInv, Drain PROVE BoxesInv'
  OBVIOUS
<1>1. SameStep
  BY DEF Drain, driver, SameStep
<1> SUFFICES ASSUME NEW p \in PE
             PROVE  Boxed(st'[p].outbox, p, SentOn(p)', TakenAt(p)')
  BY <1>1, BoxesFollow
<1>2. PICK a, b : a = Fresh("A", p) /\ b = Fresh("B", p)
  OBVIOUS
<1>3. PICK lo, hi : lo = SentOn(p) /\ hi = TakenAt(p)
  OBVIOUS
<1>4. /\ lo \in [Streams -> Nat] /\ hi \in [Streams -> Nat]
      /\ \A k \in Streams : hi[k] = Taken(k, p) /\ (Onto(k, p) \in PE => lo[k] <= hi[k])
  BY <1>3, BoxBounds
<1>5. /\ IsRun(a, "A", p, Taken("A", p)) /\ Taken("A", p) + Len(a) <= panelSize
      /\ IsRun(b, "B", p, Taken("B", p)) /\ Taken("B", p) + Len(b) <= panelSize
      /\ Len(a) \in Nat /\ Len(b) \in Nat /\ "B" \notin Streams => b = <<>>
      /\ "A" \in Streams
  BY <1>2, FreshIs, StreamColors DEF PanelInv
<1>6. PICK up : up = [hi EXCEPT !["A"] = @ + Len(a)]
  OBVIOUS
<1>7. /\ up \in [Streams -> Nat] /\ up["A"] = hi["A"] + Len(a)
      /\ \A k \in Streams : k # "A" => up[k] = hi[k]
  BY <1>4, <1>5, <1>6
<1>8. PICK box : box = st[p].outbox \o Onward(p, ColorOf("A"), Way("A"), a)
  OBVIOUS
<1>9. Boxed(box, p, lo, up)
  <2>1. Boxed(st[p].outbox, p, lo, hi)
    BY <1>3 DEF PanelInv, BoxesInv
  <2>2. IsRun(a, "A", p, hi["A"]) /\ hi["A"] + Len(a) <= panelSize
    BY <1>4, <1>5
  <2> QED BY <1>4, <1>5, <1>6, <1>8, <2>1, <2>2, BoxedOnward DEF PanelInv
<1>10. PICK all : all = box \o Onward(p, ColorOf("B"), Way("B"), b)
  OBVIOUS
<1>11. st'[p].outbox = all
  BY <1>2, <1>8, <1>10, DrainedPe
<1>12. SentOn(p)' = lo
  BY <1>1, <1>3, SameViews, DrainViews DEF SentOn
<1>13. TakenAt(p)' = [k \in Streams |-> Taken(k, p) + Len(Fresh(k, p))]
  <2>1. TakenAt(p)' = [k \in Streams |-> Taken(k, p)']
    BY <1>1, SameViews DEF TakenAt
  <2>2. \A k \in Streams : Taken(k, p)' = Taken(k, p) + Len(Fresh(k, p))
    BY DrainViews, StreamColors DEF PanelInv
  <2> QED BY <2>1, <2>2
<1>14. CASE "B" \in Streams
  <2>1. Boxed(all, p, lo, [up EXCEPT !["B"] = @ + Len(b)])
    <3>1. IsRun(b, "B", p, up["B"]) /\ up["B"] + Len(b) <= panelSize
      BY <1>4, <1>5, <1>7, <1>14
    <3>2. Onto("B", p) \in PE => lo["B"] <= up["B"]
      BY <1>4, <1>7, <1>14
    <3> QED BY <1>4, <1>7, <1>9, <1>10, <1>14, <3>1, <3>2, BoxedOnward DEF PanelInv
  <2>2. [up EXCEPT !["B"] = @ + Len(b)] = TakenAt(p)'
    <3>1. \A k \in Streams : k \in {"A", "B"}
      BY StreamColors DEF PanelInv
    <3>2. \A k \in Streams : [up EXCEPT !["B"] = @ + Len(b)][k] = Taken(k, p) + Len(Fresh(k, p))
      BY <1>2, <1>4, <1>7, <1>14, <3>1
    <3>3. DOMAIN up = Streams
      BY <1>7
    <3> QED BY <1>13, <3>2, <3>3
  <2> QED BY <1>11, <1>12, <2>1, <2>2
<1>15. CASE "B" \notin Streams
  <2>1. all = box
    <3>1. Onward(p, ColorOf("B"), Way("B"), b) = <<>>
      BY <1>5, <1>15, NothingOnward
    <3>2. IsSeq(box)
      BY <1>9 DEF Boxed
    <3> QED BY <1>10, <3>1, <3>2, JoinEmpty
  <2>2. up = TakenAt(p)'
    <3>1. \A k \in Streams : k = "A"
      BY <1>15, StreamColors DEF PanelInv
    <3>2. \A k \in Streams : up[k] = Taken(k, p) + Len(Fresh(k, p))
      BY <1>2, <1>4, <1>7, <3>1
    <3> QED BY <1>7, <1>13, <3>2
  <2> QED BY <1>9, <1>11, <1>12, <2>1, <2>2
<1> QED BY <1>14, <1>15

LEMMA DrainPanels == PanelInv /\ Drain => PanelInv'
<1> SUFFICES ASSUME PanelInv, Drain PROVE PanelInv'
  OBVIOUS
<1>1. SameStep /\ cursor' = cursor /\ outVc' = outVc /\ PlanInv'
  <2>1. SameStep /\ cursor' = cursor /\ outVc' = outVc /\ pc # "done" /\ pc' # "done"
    BY DEF Drain, driver, SameStep
  <2> QED BY <2>1, PlanKept DEF PanelInv, PlanInv
<1>2. /\ Streams' = Streams /\ panelSize' = panelSize /\ Panel' = Panel /\ PerIndex' = PerIndex
      /\ \A k : ColorOf(k)' = ColorOf(k)
      /\ Streams \subseteq {"A", "B"} /\ PanelColors \subseteq SummaColors
      /\ breakRendezvous' = breakRendezvous /\ step' = step
  BY <1>1, SameViews, StreamColors DEF PanelInv, SameStep
<1>3. PesInv'
  <2>1. DOMAIN st' = PE
    BY DEF Drain
  <2>2. \A s : IsPe(s)' <=> IsPe(s)
    BY <1>2 DEF IsPe
  <2>3. ASSUME NEW p \in PE
        PROVE  IsPe(st[p])'
    <3>1. IsPe(st'[p])
      BY DrainedPe
    <3> QED BY <1>2, <3>1 DEF IsPe
  <2> QED BY <2>1, <2>3 DEF PesInv
<1>4. BuffersInv'
  <2>1. \A k, p, n, buf : Holds(buf, k, p, n)' <=> Holds(buf, k, p, n)
    BY <1>1, SameViews DEF Holds
  <2>2. ASSUME NEW p \in PE
        PROVE  /\ Holds(st'[p].aBuf, "A", p, st'[p].aCount)
               /\ Holds(st'[p].bBuf, "B", p, st'[p].bCount)
    <3>1. PICK a, b : a = Fresh("A", p) /\ b = Fresh("B", p)
      OBVIOUS
    <3>2. Counted("A", p) = st[p].aCount /\ Counted("B", p) = st[p].bCount
      BY DEF Counted
    <3>3. Holds(Stored(st[p].aBuf, a), "A", p, st[p].aCount + Len(a))
      <4>1. /\ Holds(st[p].aBuf, "A", p, st[p].aCount) /\ st[p].aCount \in Nat
            /\ IsRun(a, "A", p, st[p].aCount) /\ st[p].aCount + Len(a) <= panelSize
        BY <3>1, <3>2, FreshIs DEF PanelInv, BuffersInv
      <4> QED BY <4>1, StoredHolds DEF PanelInv
    <3>4. Holds(Stored(st[p].bBuf, b), "B", p, st[p].bCount + Len(b))
      <4>1. /\ Holds(st[p].bBuf, "B", p, st[p].bCount) /\ st[p].bCount \in Nat
            /\ IsRun(b, "B", p, st[p].bCount) /\ st[p].bCount + Len(b) <= panelSize
        BY <3>1, <3>2, FreshIs DEF PanelInv, BuffersInv
      <4> QED BY <4>1, StoredHolds DEF PanelInv
    <3> QED BY <3>1, <3>3, <3>4, DrainedPe
  <2> QED BY <2>1, <2>2 DEF BuffersInv
<1>5. TokensInv'
  <2>1. \A p \in PE : inVc'[p][xDone] = inVc[p][xDone] /\ inVc'[p][yDone] = inVc[p][yDone]
    BY TokenColorsApart DEF PanelInv, Drain
  <2> QED BY <2>1, DrainedPe DEF PanelInv, TokensInv, IsTokenVc
<1>6. RunsInv'
  <2> SUFFICES ASSUME NEW k \in Streams, NEW p \in PE
               PROVE  /\ IsRun(Arrived(k, p)', k, p, Taken(k, p)')
                      /\ IsRun(Feed(k, p)', k, p, Taken(k, p)' + Len(Arrived(k, p)'))
    BY <1>1, <1>2, SameViews DEF RunsInv
  <2>1. Arrived(k, p)' = <<>> /\ Feed(k, p)' = Feed(k, p) /\ Len(<<>>) = 0
    BY DrainViews
  <2>2. Taken(k, p)' = Taken(k, p) + Len(Arrived(k, p))
    <3>1. Fresh(k, p) = Arrived(k, p)
      BY DEF Fresh
    <3> QED BY <1>2, <3>1, DrainViews
  <2>3. Taken(k, p)' + 0 = Taken(k, p) + Len(Arrived(k, p))
    <3>1. Taken(k, p) \in Nat /\ Len(Arrived(k, p)) \in Nat
      BY SentFits
    <3> QED BY <2>2, <3>1
  <2>4. IsRun(Feed(k, p), k, p, Taken(k, p) + Len(Arrived(k, p)))
    BY DEF PanelInv, RunsInv
  <2> QED BY <2>1, <2>3, <2>4, EmptyRun
<1>7. GivenInv'
  <2> SUFFICES ASSUME NEW k \in Streams, NEW p \in PE
               PROVE  IF Source(k, p) \in PE THEN SentTo(k, p)' <= Taken(k, Source(k, p))'
                      ELSE /\ SentTo(k, p)' <= panelSize
                           /\ \A t \in Panel : t < SentTo(k, p)'
                                 <=> t * PerIndex + Slot(k, p) < cursor
    BY <1>1, <1>2 DEF GivenInv, Slot
  <2>1. SentTo(k, p)' = SentTo(k, p) /\ SentTo(k, p) \in Nat
    BY DrainViews, SentFits
  <2>2. CASE Source(k, p) \in PE
    <3>1. PICK q \in PE : q = Source(k, p)
      BY <2>2
    <3>2. Taken(k, q)' = Taken(k, q) + Len(Fresh(k, q))
      BY <1>2, DrainViews
    <3>3. Taken(k, q) \in Nat /\ Len(Fresh(k, q)) \in Nat /\ SentTo(k, p) <= Taken(k, q)
      BY <1>2, <2>2, <3>1, FreshIs DEF PanelInv, GivenInv
    <3>4. SentTo(k, p) <= Taken(k, q) + Len(Fresh(k, q))
      BY <2>1, <3>3
    <3> QED BY <2>1, <2>2, <3>1, <3>2, <3>4
  <2>3. CASE Source(k, p) \notin PE
    BY <2>1, <2>3 DEF PanelInv, GivenInv
  <2> QED BY <2>2, <2>3
<1>8. SilenceInv'
  <2>1. \A p, e, c, k : Carries(p, e, c, k)' <=> Carries(p, e, c, k)
    BY <1>1, SameViews DEF Carries
  <2>2. \A p \in PE, c \in PanelColors : inVc'[p][c] = <<>>
    BY <1>2 DEF Drain
  <2> QED BY <1>1, <1>2, <2>1, <2>2 DEF PanelInv, SilenceInv, Silent
<1> QED BY <1>1, <1>3, <1>4, <1>5, <1>6, <1>7, <1>8, DrainBoxes DEF PanelInv

-----------------------------------------------------------------------------
(* The compute task and its tokens. *)

TakenKept == \A k \in Streams : \A p \in PE : Taken(k, p)' = Taken(k, p)

\* A step of the PEs that leaves the panels on their way alone.
LEMMA StreamsStay ==
    ASSUME PanelInv, SameStep, cursor' = cursor, outVc' = outVc, TakenKept,
           \A p \in PE : st'[p].outbox = st[p].outbox,
           \A p \in PE, c \in PanelColors : inVc'[p][c] = inVc[p][c]
    PROVE  RunsInv' /\ GivenInv' /\ BoxesInv' /\ SilenceInv'
<1>1. /\ Streams' = Streams /\ panelSize' = panelSize /\ Panel' = Panel /\ PerIndex' = PerIndex
      /\ \A k : ColorOf(k)' = ColorOf(k)
      /\ Streams \subseteq {"A", "B"} /\ \A k \in {"A", "B"} : ColorOf(k) \in PanelColors
  BY SameViews, StreamColors DEF PanelInv
<1>2. \A k \in Streams : \A p \in PE :
         /\ Taken(k, p)' = Taken(k, p) /\ Arrived(k, p)' = Arrived(k, p)
         /\ Feed(k, p)' = Feed(k, p)
  BY <1>1 DEF TakenKept, Arrived, Feed
<1>3. \A k \in Streams : \A p \in PE : SentTo(k, p)' = SentTo(k, p)
  BY <1>2 DEF SentTo
<1>4. RunsInv'
  BY <1>1, <1>2, SameViews DEF PanelInv, RunsInv
<1>5. GivenInv'
  BY <1>1, <1>2, <1>3 DEF PanelInv, GivenInv, Slot
<1>6. BoxesInv'
  <2> SUFFICES ASSUME NEW p \in PE
               PROVE  Boxed(st'[p].outbox, p, SentOn(p)', TakenAt(p)')
    BY BoxesFollow
  <2>1. SentOn(p)' = SentOn(p) /\ TakenAt(p)' = TakenAt(p)
    BY <1>2, <1>3, SameBounds
  <2> QED BY <2>1 DEF PanelInv, BoxesInv
<1>7. SilenceInv'
  <2>1. \A p, e, c, k : Carries(p, e, c, k)' <=> Carries(p, e, c, k)
    BY SameViews DEF Carries
  <2> QED BY <1>1, <2>1 DEF PanelInv, SilenceInv, Silent
<1> QED BY <1>4, <1>5, <1>6, <1>7

\* Where the compute task can run both panels are there, and not computed with.
LEMMA RunnableIs ==
    ASSUME PanelInv, NEW p \in PE, Runnable(p)
    PROVE  /\ st[p].aToken /\ st[p].aCount = panelSize /\ st[p].stepsDone = step
           /\ ~HasComputed(p) /\ step \in Nat
           /\ IF breakRendezvous THEN ~st[p].bToken ELSE st[p].bToken /\ st[p].bCount = panelSize
<1>1. IsPe(st[p]) /\ panelSize \in Nat \ {0} /\ step \in Nat /\ breakRendezvous \in BOOLEAN
  BY PanelSizes DEF PanelInv, PesInv, PlanInv
<1>2. /\ IsTokenVc(inVc[p][xDone], st[p].aToken)
      /\ IsTokenVc(inVc[p][yDone], st[p].bToken)
  BY DEF PanelInv, TokensInv
<1>3. \A c \in TokenColors : inVc[p][c] # <<>>
  BY DEF Runnable
<1>4. \A vc : IsTokenVc(vc, FALSE) => vc = <<>>
  <2> SUFFICES ASSUME NEW vc, IsTokenVc(vc, FALSE) PROVE vc = <<>>
    OBVIOUS
  <2>1. IsSeq(vc) /\ Len(vc) = 0
    BY DEF IsTokenVc
  <2> QED BY <2>1 DEF IsSeq
<1>5. st[p].aToken
  <2>1. xDone \in TokenColors
    BY DEF TokenColors
  <2>2. st[p].aToken \in BOOLEAN
    BY <1>1 DEF IsPe
  <2>3. CASE ~st[p].aToken
    <3>1. st[p].aToken = FALSE
      BY <2>2, <2>3
    <3>2. inVc[p][xDone] = <<>>
      BY <1>2, <1>4, <3>1
    <3> QED BY <1>3, <2>1, <3>2
  <2> QED BY <2>3
<1>6. ~breakRendezvous => st[p].bToken
  <2> SUFFICES ASSUME ~breakRendezvous PROVE st[p].bToken
    OBVIOUS
  <2>1. yDone \in TokenColors
    BY DEF TokenColors
  <2>2. st[p].bToken \in BOOLEAN
    BY <1>1 DEF IsPe
  <2>3. CASE ~st[p].bToken
    <3>1. st[p].bToken = FALSE
      BY <2>2, <2>3
    <3>2. inVc[p][yDone] = <<>>
      BY <1>2, <1>4, <3>1
    <3> QED BY <1>3, <2>1, <3>2
  <2> QED BY <2>3
<1>7. st[p].aCount = panelSize
  BY <1>1, <1>5 DEF IsPe
<1>8. st[p].stepsDone = step
  BY <1>1, <1>7 DEF IsPe
<1>9. step # step + 1
  BY <1>1
<1>10. IF breakRendezvous THEN ~st[p].bToken ELSE st[p].bToken /\ st[p].bCount = panelSize
  BY <1>1, <1>6 DEF IsPe
<1> QED BY <1>1, <1>5, <1>7, <1>8, <1>9, <1>10 DEF HasComputed

\* The next state of a PE that computes.
LEMMA ComputedPe ==
    ASSUME PanelInv, NEW p \in PE, Runnable(p)
    PROVE  /\ IsPe(Computed(p))
           /\ Computed(p).aBuf = ZeroPanel /\ Computed(p).bBuf = ZeroPanel
           /\ Computed(p).cTile = Accumulated(st[p]) /\ Computed(p).outbox = st[p].outbox
           /\ Computed(p).aCount = 0 /\ Computed(p).bCount = 0
           /\ Computed(p).aToken = FALSE /\ Computed(p).bToken = FALSE
           /\ Computed(p).stepsDone = step + 1
<1>1. PICK tile, zero : tile = Accumulated(st[p]) /\ zero = ZeroPanel
  OBVIOUS
<1>2. st[p] = [aBuf |-> st[p].aBuf, bBuf |-> st[p].bBuf, cTile |-> st[p].cTile,
               outbox |-> st[p].outbox,
               aCount |-> st[p].aCount, bCount |-> st[p].bCount,
               stepsDone |-> st[p].stepsDone,
               aToken |-> st[p].aToken, bToken |-> st[p].bToken]
  BY DEF PanelInv, PesInv, IsPe
<1>3. st[p].stepsDone = step /\ step \in Nat /\ panelSize \in Nat \ {0}
  BY RunnableIs, PanelSizes DEF PanelInv
<1>4. Computed(p) = [st[p] EXCEPT !.cTile = tile, !.aBuf = zero, !.bBuf = zero,
                                  !.aCount = 0, !.bCount = 0,
                                  !.aToken = FALSE, !.bToken = FALSE, !.stepsDone = step + 1]
  BY <1>1, <1>2, <1>3 DEF Computed
<1>5. Computed(p) = [aBuf |-> zero, bBuf |-> zero, cTile |-> tile,
                     outbox |-> st[p].outbox, aCount |-> 0, bCount |-> 0,
                     stepsDone |-> step + 1, aToken |-> FALSE, bToken |-> FALSE]
  BY <1>2, <1>4
<1>6. PICK s : s = Computed(p)
  OBVIOUS
<1>7. /\ s.aBuf = zero /\ s.bBuf = zero /\ s.cTile = tile /\ s.outbox = st[p].outbox
      /\ s.aCount = 0 /\ s.bCount = 0 /\ s.stepsDone = step + 1
      /\ s.aToken = FALSE /\ s.bToken = FALSE
      /\ s = [aBuf |-> s.aBuf, bBuf |-> s.bBuf, cTile |-> s.cTile, outbox |-> s.outbox,
              aCount |-> s.aCount, bCount |-> s.bCount, stepsDone |-> s.stepsDone,
              aToken |-> s.aToken, bToken |-> s.bToken]
  BY <1>5, <1>6
<1>8. IsPe(s)
  <2>1. s.aCount \in 0..panelSize /\ s.bCount \in 0..panelSize
    BY <1>3, <1>7
  <2>2. s.stepsDone \in {step, step + 1}
    BY <1>7
  <2>3. /\ s.aToken \in BOOLEAN /\ s.bToken \in BOOLEAN
        /\ s.aToken => s.aCount = panelSize
        /\ s.bToken => s.bCount = panelSize
    BY <1>7
  <2> QED BY <1>7, <2>1, <2>2, <2>3, Zenon DEF IsPe
<1> QED BY <1>1, <1>6, <1>7, <1>8

LEMMA ComputePanels == PanelInv /\ Compute => PanelInv'
<1> SUFFICES ASSUME PanelInv, Compute PROVE PanelInv'
  OBVIOUS
<1>1. SameStep /\ cursor' = cursor /\ outVc' = outVc /\ PlanInv'
  <2>1. SameStep /\ cursor' = cursor /\ outVc' = outVc /\ pc # "done" /\ pc' # "done"
    BY DEF Compute, driver, SameStep
  <2> QED BY <2>1, PlanKept DEF PanelInv, PlanInv
<1>2. /\ panelSize' = panelSize /\ step' = step /\ breakRendezvous' = breakRendezvous
      /\ Streams \subseteq {"A", "B"} /\ PanelColors \subseteq SummaColors
      /\ panelSize \in Nat \ {0} /\ breakRendezvous \in BOOLEAN
  BY <1>1, SameViews, StreamColors, PanelSizes DEF PanelInv, PlanInv, SameStep
<1>3. \A p \in PE : st'[p] = IF Runnable(p) THEN Computed(p) ELSE st[p]
  BY DEF Compute
<1>4. \A p \in PE, c \in SummaColors :
         inVc'[p][c] = IF Runnable(p) /\ c \in TokenColors THEN Tail(inVc[p][c]) ELSE inVc[p][c]
  BY DEF Compute
<1>5. PesInv'
  <2>1. DOMAIN st' = PE
    BY DEF Compute
  <2>2. ASSUME NEW p \in PE
        PROVE  IsPe(st[p])'
    <3>1. IsPe(st'[p])
      BY <1>3, ComputedPe DEF PanelInv, PesInv
    <3> QED BY <1>2, <3>1 DEF IsPe
  <2> QED BY <2>1, <2>2 DEF PesInv
<1>6. BuffersInv'
  <2>1. \A k, p, n, buf : Holds(buf, k, p, n)' <=> Holds(buf, k, p, n)
    BY <1>1, SameViews DEF Holds
  <2>2. \A k, p : Holds(ZeroPanel, k, p, 0)
    <3>1. \A t \in Panel : ~(t < 0)
      BY DEF Panel
    <3> QED BY <3>1 DEF Holds, ZeroPanel
  <2>3. ASSUME NEW p \in PE
        PROVE  /\ Holds(st'[p].aBuf, "A", p, st'[p].aCount)
               /\ Holds(st'[p].bBuf, "B", p, st'[p].bCount)
    <3>1. CASE Runnable(p)
      BY <1>3, <2>2, <3>1, ComputedPe
    <3>2. CASE ~Runnable(p)
      BY <1>3, <3>2 DEF PanelInv, BuffersInv
    <3> QED BY <3>1, <3>2
  <2> QED BY <2>1, <2>3 DEF BuffersInv
<1>7. TokensInv'
  <2> SUFFICES ASSUME NEW p \in PE
               PROVE  /\ IsTokenVc(inVc'[p][xDone], st'[p].aToken)
                      /\ IsTokenVc(inVc'[p][yDone], st'[p].bToken)
    BY DEF TokensInv, IsTokenVc
  <2>1. /\ IsTokenVc(inVc[p][xDone], st[p].aToken) /\ IsTokenVc(inVc[p][yDone], st[p].bToken)
        /\ xDone \in SummaColors /\ yDone \in SummaColors /\ xDone # yDone
    BY TokenColorsApart DEF PanelInv, TokensInv
  <2>2. \A vc : IsTokenVc(vc, TRUE) => IsTokenVc(Tail(vc), FALSE)
    <3> SUFFICES ASSUME NEW vc, IsTokenVc(vc, TRUE) PROVE IsTokenVc(Tail(vc), FALSE)
      OBVIOUS
    <3>1. IsSeq(vc) /\ Len(vc) = 1
      BY DEF IsTokenVc
    <3>2. vc # <<>>
      BY <3>1
    <3> QED BY <3>1, <3>2, TailIsSeq DEF IsTokenVc
  <2>3. CASE ~Runnable(p)
    BY <1>3, <1>4, <2>1, <2>3
  <2>4. CASE Runnable(p)
    <3>1. st'[p].aToken = FALSE /\ st'[p].bToken = FALSE
      BY <1>3, <2>4, ComputedPe
    <3>2. IsPe(st[p])
      BY DEF PanelInv, PesInv
    <3>3. /\ st[p].aToken = TRUE
          /\ IF breakRendezvous THEN st[p].bToken = FALSE ELSE st[p].bToken = TRUE
      BY <2>4, <3>2, RunnableIs DEF IsPe
    <3>4. IsTokenVc(inVc'[p][xDone], FALSE)
      <4>1. xDone \in TokenColors
        BY DEF TokenColors
      <4>2. inVc'[p][xDone] = Tail(inVc[p][xDone])
        BY <1>4, <2>1, <2>4, <4>1
      <4>3. IsTokenVc(inVc[p][xDone], TRUE)
        BY <2>1, <3>3
      <4> QED BY <2>2, <4>2, <4>3
    <3>5. IsTokenVc(inVc'[p][yDone], FALSE)
      <4>1. CASE breakRendezvous
        <5>1. yDone \notin TokenColors
          BY <2>1, <4>1 DEF TokenColors
        <5>2. inVc'[p][yDone] = inVc[p][yDone]
          BY <1>4, <2>1, <5>1
        <5> QED BY <2>1, <3>3, <4>1, <5>2
      <4>2. CASE ~breakRendezvous
        <5>1. yDone \in TokenColors
          BY <4>2 DEF TokenColors
        <5>2. inVc'[p][yDone] = Tail(inVc[p][yDone])
          BY <1>4, <2>1, <2>4, <5>1
        <5>3. IsTokenVc(inVc[p][yDone], TRUE)
          BY <2>1, <3>3, <4>2
        <5> QED BY <2>2, <5>2, <5>3
      <4> QED BY <4>1, <4>2
    <3> QED BY <3>1, <3>4, <3>5
  <2> QED BY <2>3, <2>4
<1>8. TakenKept
  <2> SUFFICES ASSUME NEW k \in Streams, NEW p \in PE
               PROVE  Taken(k, p)' = Taken(k, p)
    BY DEF TakenKept
  <2>1. CASE ~Runnable(p)
    BY <1>2, <1>3, <2>1 DEF Taken, HasComputed
  <2>2. CASE Runnable(p)
    <3>1. st'[p].stepsDone = step + 1
      BY <1>3, <2>2, ComputedPe
    <3>2. Taken(k, p)' = panelSize
      BY <1>2, <3>1 DEF Taken, HasComputed
    <3>3. "B" \in Streams => ~breakRendezvous
      BY DEF Streams
    <3>4. Taken(k, p) = panelSize
      BY <1>2, <2>2, <3>3, RunnableIs DEF Taken
    <3> QED BY <3>2, <3>4
  <2> QED BY <2>1, <2>2
<1>9. \A p \in PE : st'[p].outbox = st[p].outbox
  BY <1>3, ComputedPe
<1>10. \A p \in PE, c \in PanelColors : inVc'[p][c] = inVc[p][c]
  <2>1. \A c \in PanelColors : c \in SummaColors /\ c \notin TokenColors
    BY <1>2, TokenColorsApart DEF PanelInv, TokenColors
  <2> QED BY <1>4, <2>1
<1> QED BY <1>1, <1>5, <1>6, <1>7, <1>8, <1>9, <1>10, StreamsStay DEF PanelInv

LEMMA TokensPanels == PanelInv /\ Tokens => PanelInv'
<1> SUFFICES ASSUME PanelInv, Tokens PROVE PanelInv'
  OBVIOUS
<1>1. SameStep /\ cursor' = cursor /\ outVc' = outVc /\ PlanInv'
  <2>1. SameStep /\ cursor' = cursor /\ outVc' = outVc /\ pc # "done" /\ pc' # "done"
    BY DEF Tokens, SameStep
  <2> QED BY <2>1, PlanKept DEF PanelInv, PlanInv
<1>2. /\ panelSize' = panelSize /\ step' = step /\ breakRendezvous' = breakRendezvous
      /\ Streams \subseteq {"A", "B"} /\ PanelColors \subseteq SummaColors
      /\ panelSize \in Nat \ {0} /\ breakRendezvous \in BOOLEAN /\ step \in Nat
  BY <1>1, SameViews, StreamColors, PanelSizes DEF PanelInv, PlanInv, SameStep
<1> DEFINE x == {p \in PE : ~st[p].aToken /\ PanelDone(st[p].aCount)}
           y == {p \in PE : /\ ~breakRendezvous
                            /\ ~st[p].bToken /\ PanelDone(st[p].bCount)}
<1>3. PICK xs, ys : xs = x /\ ys = y
  OBVIOUS
<1>4. /\ DOMAIN st' = PE
      /\ \A p \in PE : st'[p] = [st[p] EXCEPT !.aToken = st[p].aToken \/ p \in xs,
                                              !.bToken = st[p].bToken \/ p \in ys]
  <2>1. st' = [p \in PE |-> [st[p] EXCEPT !.aToken = @ \/ p \in xs, !.bToken = @ \/ p \in ys]]
    BY <1>3 DEF Tokens
  <2>2. \A p \in PE : st[p] = [aBuf |-> st[p].aBuf, bBuf |-> st[p].bBuf, cTile |-> st[p].cTile,
               outbox |-> st[p].outbox,
               aCount |-> st[p].aCount, bCount |-> st[p].bCount,
               stepsDone |-> st[p].stepsDone,
               aToken |-> st[p].aToken, bToken |-> st[p].bToken]
    BY DEF PanelInv, PesInv, IsPe
  <2> QED BY <2>1, <2>2
<1>5. \A p \in PE, c \in SummaColors :
         inVc'[p][c] = IF (c = xDone /\ p \in xs) \/ (c = yDone /\ p \in ys)
                       THEN WithToken(inVc[p][c]) ELSE inVc[p][c]
  BY <1>3 DEF Tokens
<1>6. ASSUME NEW p \in PE
      PROVE  /\ p \in xs => ~st[p].aToken /\ st[p].aCount = panelSize
             /\ p \in ys => ~st[p].bToken /\ st[p].bCount = panelSize
  <2>1. IsPe(st[p])
    BY DEF PanelInv, PesInv
  <2> QED BY <1>2, <1>3, <2>1 DEF IsPe, PanelDone
<1> HIDE DEF x, y
<1>7. ASSUME NEW p \in PE
      PROVE  /\ IsPe(st'[p])
             /\ st'[p].aToken = (st[p].aToken \/ p \in xs)
             /\ st'[p].bToken = (st[p].bToken \/ p \in ys)
             /\ st'[p].aBuf = st[p].aBuf /\ st'[p].bBuf = st[p].bBuf
             /\ st'[p].cTile = st[p].cTile
             /\ st'[p].outbox = st[p].outbox /\ st'[p].stepsDone = st[p].stepsDone
             /\ st'[p].aCount = st[p].aCount /\ st'[p].bCount = st[p].bCount
  <2>1. IsPe(st[p])
    BY DEF PanelInv, PesInv
  <2>2. PICK u, v : u = (st[p].aToken \/ p \in xs) /\ v = (st[p].bToken \/ p \in ys)
    OBVIOUS
  <2>3. st[p] = [aBuf |-> st[p].aBuf, bBuf |-> st[p].bBuf, cTile |-> st[p].cTile,
                 outbox |-> st[p].outbox,
                 aCount |-> st[p].aCount, bCount |-> st[p].bCount,
                 stepsDone |-> st[p].stepsDone,
                 aToken |-> st[p].aToken, bToken |-> st[p].bToken]
    BY <2>1 DEF IsPe
  <2>4. st'[p] = [st[p] EXCEPT !.aToken = u, !.bToken = v]
    BY <1>4, <2>2
  <2>5. PICK s : s = st'[p]
    OBVIOUS
  <2>6. s = [aBuf |-> st[p].aBuf, bBuf |-> st[p].bBuf, cTile |-> st[p].cTile,
             outbox |-> st[p].outbox,
             aCount |-> st[p].aCount, bCount |-> st[p].bCount,
             stepsDone |-> st[p].stepsDone, aToken |-> u, bToken |-> v]
    BY <2>3, <2>4, <2>5
  <2>7. /\ s.aToken = u /\ s.bToken = v /\ s.aBuf = st[p].aBuf /\ s.bBuf = st[p].bBuf
        /\ s.cTile = st[p].cTile /\ s.outbox = st[p].outbox /\ s.stepsDone = st[p].stepsDone
        /\ s.aCount = st[p].aCount /\ s.bCount = st[p].bCount
        /\ s = [aBuf |-> s.aBuf, bBuf |-> s.bBuf, cTile |-> s.cTile, outbox |-> s.outbox,
                aCount |-> s.aCount, bCount |-> s.bCount, stepsDone |-> s.stepsDone,
                aToken |-> s.aToken, bToken |-> s.bToken]
    BY <2>6
  <2>8. u \in BOOLEAN /\ v \in BOOLEAN
    BY <2>2
  <2>9. (u => st[p].aCount = panelSize) /\ (v => st[p].bCount = panelSize)
    BY <1>6, <2>1, <2>2 DEF IsPe
  <2>10. IsPe(s)
    BY <2>1, <2>7, <2>8, <2>9 DEF IsPe
  <2> QED BY <2>2, <2>5, <2>7, <2>10
<1>8. PesInv'
  <2>1. ASSUME NEW p \in PE
        PROVE  IsPe(st[p])'
    <3>1. IsPe(st'[p])
      BY <1>7
    <3> QED BY <1>2, <3>1 DEF IsPe
  <2> QED BY <1>4, <2>1 DEF PesInv
<1>9. BuffersInv'
  <2>1. \A k, p, n, buf : Holds(buf, k, p, n)' <=> Holds(buf, k, p, n)
    BY <1>1, SameViews DEF Holds
  <2> QED BY <1>7, <2>1 DEF PanelInv, BuffersInv
<1>10. TokensInv'
  <2> SUFFICES ASSUME NEW p \in PE
               PROVE  /\ IsTokenVc(inVc'[p][xDone], st'[p].aToken)
                      /\ IsTokenVc(inVc'[p][yDone], st'[p].bToken)
    BY DEF TokensInv, IsTokenVc
  <2>1. /\ IsTokenVc(inVc[p][xDone], st[p].aToken) /\ IsTokenVc(inVc[p][yDone], st[p].bToken)
        /\ xDone \in SummaColors /\ yDone \in SummaColors /\ xDone # yDone
    BY TokenColorsApart DEF PanelInv, TokensInv
  <2>2. \A vc : IsTokenVc(vc, FALSE) => IsTokenVc(WithToken(vc), TRUE)
    <3> SUFFICES ASSUME NEW vc, IsTokenVc(vc, FALSE) PROVE IsTokenVc(WithToken(vc), TRUE)
      OBVIOUS
    <3>1. IsSeq(vc) /\ Len(vc) = 0
      BY DEF IsTokenVc
    <3>2. WithToken(vc) = Append(vc, [control |-> 0, data |-> Zero])
      BY <3>1, SummaAssumption DEF WithToken
    <3>3. PICK w : w = [control |-> 0, data |-> Zero]
      OBVIOUS
    <3>4. IsSeq(Append(vc, w)) /\ Len(Append(vc, w)) = 0 + 1
      BY <3>1, AppendIsSeq
    <3>5. WithToken(vc) = Append(vc, w)
      BY <3>2, <3>3
    <3>6. IsSeq(WithToken(vc)) /\ Len(WithToken(vc)) = 1
      BY <3>4, <3>5
    <3> QED BY <3>6 DEF IsTokenVc
  <2>3. IsTokenVc(inVc'[p][xDone], st'[p].aToken)
    <3>1. inVc'[p][xDone] = IF p \in xs THEN WithToken(inVc[p][xDone]) ELSE inVc[p][xDone]
      BY <1>5, <2>1
    <3>2. CASE p \in xs
      <4>1. IsTokenVc(inVc[p][xDone], FALSE)
        BY <1>6, <2>1, <3>2 DEF IsTokenVc
      <4>2. st'[p].aToken = TRUE
        BY <1>7, <3>2
      <4> QED BY <2>2, <3>1, <3>2, <4>1, <4>2
    <3>3. CASE p \notin xs
      <4>1. st'[p].aToken <=> st[p].aToken
        BY <1>7, <3>3
      <4> QED BY <2>1, <3>1, <3>3, <4>1 DEF IsTokenVc
    <3> QED BY <3>2, <3>3
  <2>4. IsTokenVc(inVc'[p][yDone], st'[p].bToken)
    <3>1. inVc'[p][yDone] = IF p \in ys THEN WithToken(inVc[p][yDone]) ELSE inVc[p][yDone]
      BY <1>5, <2>1
    <3>2. CASE p \in ys
      <4>1. IsTokenVc(inVc[p][yDone], FALSE)
        BY <1>6, <2>1, <3>2 DEF IsTokenVc
      <4>2. st'[p].bToken = TRUE
        BY <1>7, <3>2
      <4> QED BY <2>2, <3>1, <3>2, <4>1, <4>2
    <3>3. CASE p \notin ys
      <4>1. st'[p].bToken <=> st[p].bToken
        BY <1>7, <3>3
      <4> QED BY <2>1, <3>1, <3>3, <4>1 DEF IsTokenVc
    <3> QED BY <3>2, <3>3
  <2> QED BY <2>3, <2>4
<1>11. TakenKept
  BY <1>2, <1>7 DEF TakenKept, Taken, HasComputed
<1>12. \A p \in PE, c \in PanelColors : inVc'[p][c] = inVc[p][c]
  <2>1. \A c \in PanelColors : c \in SummaColors /\ c # xDone /\ c # yDone
    BY <1>2, TokenColorsApart DEF PanelInv
  <2> QED BY <1>5, <2>1
<1> QED BY <1>1, <1>7, <1>8, <1>9, <1>10, <1>11, <1>12, StreamsStay DEF PanelInv

-----------------------------------------------------------------------------
(* The driver's other moves. *)

LEMMA PlanStays ==
    ASSUME PlanInv, UNCHANGED <<plan, breakRendezvous, step, cursor, pc, st>>
    PROVE  PlanInv'
BY DEF PlanInv, HasComputed, panelSize

LEMMA QuiescentPanels == PanelInv /\ Quiescent => PanelInv'
<1> SUFFICES ASSUME PanelInv, Quiescent PROVE PanelInv'
  OBVIOUS
<1>1. /\ SameStep /\ cursor' = cursor /\ inVc' = inVc /\ outVc' = outVc /\ st' = st
      /\ pc # "done" /\ pc' # "done"
  BY DEF Quiescent, mesh, SameStep
<1>2. PlanInv'
  BY <1>1, PlanKept DEF PanelInv, PlanInv
<1> QED BY <1>1, <1>2, Unmoved DEF PanelInv, PesInv

LEMMA StutterPanels == PanelInv /\ UNCHANGED vars => PanelInv'
<1> SUFFICES ASSUME PanelInv, UNCHANGED vars PROVE PanelInv'
  OBVIOUS
<1>1. /\ SameStep /\ cursor' = cursor /\ inVc' = inVc /\ outVc' = outVc /\ st' = st
      /\ pc' = pc
  BY DEF vars, driver, mesh, SameStep
<1>2. PlanInv'
  BY <1>1, PlanStays DEF PanelInv, SameStep
<1> QED BY <1>1, <1>2, Unmoved DEF PanelInv, PesInv

-----------------------------------------------------------------------------
(* The end of a step. *)

\* What is true of the PEs and of the mesh when a step is over.
StepLeavesNothing ==
    /\ fabricEmpty
    /\ \A p \in PE : /\ st[p].outbox = <<>> /\ st[p].stepsDone = step + 1
                     /\ st[p].aCount = 0 /\ st[p].bCount = 0
                     /\ ~st[p].aToken /\ ~st[p].bToken

LEMMA NothingLeft == PanelInv /\ StepOver => StepLeavesNothing
<1> SUFFICES ASSUME PanelInv, StepOver PROVE StepLeavesNothing
  OBVIOUS
<1>1. fabricEmpty /\ allDone
  BY DEF StepOver
<1>2. panelSize \in Nat \ {0} /\ step \in Nat
  BY PanelSizes DEF PanelInv, PlanInv
<1>3. ASSUME NEW p \in PE
      PROVE  /\ st[p].stepsDone = step + 1 /\ st[p].aCount = 0 /\ st[p].bCount = 0
             /\ ~st[p].aToken /\ ~st[p].bToken /\ \A k : Taken(k, p) = panelSize
  <2>1. IsPe(st[p]) /\ st[p].stepsDone >= step + 1
    BY <1>1 DEF PanelInv, PesInv, allDone
  <2>2. st[p].stepsDone = step + 1
    BY <1>2, <2>1 DEF IsPe
  <2>3. st[p].aCount = 0 /\ st[p].bCount = 0
    BY <2>1, <2>2 DEF IsPe
  <2>4. ~st[p].aToken /\ ~st[p].bToken
    BY <1>2, <2>1, <2>3 DEF IsPe
  <2> QED BY <2>2, <2>3, <2>4 DEF Taken, HasComputed
<1>4. ASSUME NEW k \in Streams, NEW p \in PE
      PROVE  SentTo(k, p) = panelSize
  <2>1. /\ Taken(k, p) <= SentTo(k, p) /\ SentTo(k, p) <= panelSize /\ SentTo(k, p) \in Nat
    BY SentFits
  <2> QED BY <1>2, <1>3, <2>1
<1>5. ASSUME NEW p \in PE
      PROVE  st[p].outbox = <<>>
  <2>1. Boxed(st[p].outbox, p, SentOn(p), TakenAt(p)) /\ IsSeq(st[p].outbox)
    BY DEF PanelInv, BoxesInv, Boxed
  <2>2. ASSUME NEW i \in 1..Len(st[p].outbox)
        PROVE  FALSE
    <3>1. PICK k \in Streams : IsRetx(st[p].outbox[i], k, p, SentOn(p)[k], TakenAt(p)[k])
      BY <2>1 DEF Boxed
    <3>2. Onto(k, p) \in PE
      BY <3>1 DEF IsRetx
    <3>3. SentOn(p)[k] = panelSize /\ TakenAt(p)[k] = panelSize
      BY <1>3, <1>4, <3>2, BoxBounds
    <3>4. st[p].outbox[i].w.control \in panelSize..panelSize - 1
      BY <3>1, <3>3 DEF IsRetx
    <3> QED BY <1>2, <3>4
  <2>3. Len(st[p].outbox) = 0
    <3>1. Len(st[p].outbox) \in Nat
      BY <2>1 DEF IsSeq
    <3>2. Len(st[p].outbox) # 0 => 1 \in 1..Len(st[p].outbox)
      BY <3>1
    <3> QED BY <2>2, <3>2
  <2> QED BY <2>1, <2>3 DEF IsSeq
<1> QED BY <1>1, <1>3, <1>5 DEF StepLeavesNothing

LEMMA OverPanels ==
    ASSUME PanelInv, Check, StepOver
    PROVE  PanelInv'
<1>1. /\ plan' = plan /\ breakRendezvous' = breakRendezvous /\ step' = step + 1 /\ cursor' = 0
      /\ inVc' = inVc /\ outVc' = outVc /\ st' = st
      /\ pc' = (IF step + 1 < plan.steps THEN "flush" ELSE "done") /\ pc = "check"
  BY DEF Check, mesh
<1>2. /\ fabricEmpty
      /\ \A p \in PE : /\ st[p].outbox = <<>> /\ st[p].stepsDone = step + 1
                       /\ st[p].aCount = 0 /\ st[p].bCount = 0
                       /\ ~st[p].aToken /\ ~st[p].bToken
  BY NothingLeft DEF StepLeavesNothing
<1>3. /\ panelSize \in Nat \ {0} /\ step \in Nat /\ DOMAIN st = PE
      /\ plan.steps \in Nat /\ step < plan.steps
  BY <1>1, PanelSizes DEF PanelInv, PlanInv, PesInv
<1>4. /\ Streams' = Streams /\ panelSize' = panelSize /\ Panel' = Panel /\ PerIndex' = PerIndex
      /\ Streams \subseteq {"A", "B"}
  BY <1>1 DEF Streams, panelSize, Panel, PerIndex
<1>5. ASSUME NEW k \in {"A", "B"}
      PROVE  ColorOf(k)' \in SummaColors
  <2>1. ((step + 1) % 2) + 1 \in {1, 2}
    BY <1>3
  <2>2. Parity' \in {1, 2}
    BY <1>1, <2>1 DEF Parity
  <2> QED BY <2>2 DEF ColorOf, aColor, bColor, SummaColors
<1>6. \A p \in PE : ~HasComputed(p)' /\ \A k : Taken(k, p)' = 0
  <2>1. step + 1 # step + 1 + 1
    BY <1>3
  <2> QED BY <1>1, <1>2, <2>1 DEF HasComputed, Taken
<1>7. PlanInv'
  <2>1. PanelInv => PlanInv
    BY DEF PanelInv
  <2>2. IF step + 1 < plan.steps THEN pc' # "done" ELSE pc' = "done" /\ step + 1 = plan.steps
    BY <1>1, <1>3
  <2> QED BY <1>1, <1>3, <1>4, <1>6, <2>1, <2>2 DEF PlanInv
<1>8. PesInv'
  <2>1. ASSUME NEW p \in PE
        PROVE  IsPe(st[p])'
    <3>1. IsPe(st[p])
      BY DEF PanelInv, PesInv
    <3>2. step + 1 # step + 1 + 1
      BY <1>3
    <3>3. 0 \in 0..panelSize
      BY <1>3
    <3>4. st'[p] = st[p] /\ panelSize' = panelSize /\ step' = step + 1
      BY <1>1, <1>4
    <3>5. st[p].stepsDone \in {step', step' + 1}
      BY <1>2, <3>4
    <3>6. st[p].stepsDone # step' + 1
      BY <1>2, <3>2, <3>4
    <3> QED BY <1>2, <3>1, <3>3, <3>4, <3>5, <3>6 DEF IsPe
  <2> QED BY <1>1, <1>3, <2>1 DEF PesInv
<1>9. BuffersInv'
  <2>1. ASSUME NEW p \in PE
        PROVE  (Holds(st[p].aBuf, "A", p, st[p].aCount) /\ Holds(st[p].bBuf, "B", p, st[p].bCount))'
    <3>1. Holds(st[p].aBuf, "A", p, 0) /\ Holds(st[p].bBuf, "B", p, 0)
      BY <1>2 DEF PanelInv, BuffersInv
    <3>2. \A t \in Panel : ~(t < 0)
      BY DEF Panel
    <3> QED BY <1>1, <1>2, <1>4, <3>1, <3>2 DEF Holds
  <2> QED BY <2>1 DEF BuffersInv
<1>10. TokensInv'
  BY <1>1 DEF PanelInv, TokensInv, IsTokenVc
<1>11. ASSUME NEW k \in Streams, NEW p \in PE
       PROVE  Arrived(k, p)' = <<>> /\ Feed(k, p)' = <<>> /\ SentTo(k, p)' = 0
  <2>1. ColorOf(k)' \in SummaColors
    BY <1>4, <1>5
  <2>2. Arrived(k, p)' = <<>>
    BY <1>1, <1>2, <2>1 DEF Arrived, fabricEmpty
  <2>3. Way(k) \in Net!Dir /\ "Ramp" \in Net!Dir
    BY DEF Way, Net!Dir
  <2>4. Feed(k, p)' = <<>>
    BY <1>1, <1>2, <2>1, <2>3 DEF Feed, fabricEmpty
  <2>5. Len(<<>>) = 0
    OBVIOUS
  <2> QED BY <1>6, <2>2, <2>4, <2>5 DEF SentTo
<1>12. RunsInv'
  <2>1. \A k, p, n : IsRun(<<>>, k, p, n)'
    BY EmptyIsSeq DEF IsRun
  <2> QED BY <1>4, <1>11, <2>1 DEF RunsInv
<1>13. GivenInv'
  <2> SUFFICES ASSUME NEW k \in Streams, NEW p \in PE
               PROVE  IF Source(k, p) \in PE THEN SentTo(k, p)' <= Taken(k, Source(k, p))'
                      ELSE /\ SentTo(k, p)' <= panelSize
                           /\ \A t \in Panel : t < SentTo(k, p)'
                                 <=> t * PerIndex + Slot(k, p) < 0
    BY <1>1, <1>4 DEF GivenInv, Slot
  <2>1. CASE Source(k, p) \in PE
    BY <1>6, <1>11, <2>1
  <2>2. CASE Source(k, p) \notin PE
    <3>1. PerIndex \in Nat \ {0} /\ Slot(k, p) \in 0..PerIndex - 1
      BY <2>2, Entrances DEF PanelInv
    <3>2. ASSUME NEW t \in Panel
          PROVE  ~(t < 0) /\ ~(t * PerIndex + Slot(k, p) < 0)
      <4>1. t \in Nat
        BY DEF Panel
      <4>2. t * PerIndex \in Nat
        BY <3>1, <4>1
      <4> QED BY <3>1, <4>1, <4>2
    <3> QED BY <1>3, <1>11, <2>2, <3>2
  <2> QED BY <2>1, <2>2
<1>14. BoxesInv'
  <2>1. ASSUME NEW p \in PE
        PROVE  Boxed(st[p].outbox, p, SentOn(p), TakenAt(p))'
    <3>1. st'[p].outbox = <<>> /\ Len(<<>>) = 0 /\ IsSeq(<<>>)
      BY <1>1, <1>2, EmptyIsSeq
    <3>2. ASSUME NEW k \in Streams, Onto(k, p) \in PE
          PROVE  SentOn(p)'[k] = 0 /\ TakenAt(p)'[k] = 0
      BY <1>4, <1>6, <1>11, <3>2 DEF SentOn, TakenAt
    <3>3. 0..0 - 1 = {}
      OBVIOUS
    <3> QED BY <1>4, <3>1, <3>2, <3>3 DEF Boxed
  <2> QED BY <2>1 DEF BoxesInv
<1>15. SilenceInv'
  <2>1. PanelColors \subseteq SummaColors
    BY StreamColors DEF PanelInv
  <2>2. /\ \A p \in PE, c \in PanelColors : inVc'[p][c] = <<>>
        /\ \A p \in PE, d \in Net!Dir, c \in SummaColors : outVc'[p][d][c] = <<>>
    BY <1>1, <1>2, <2>1 DEF fabricEmpty
  <2> QED BY <2>2 DEF SilenceInv, Silent
<1> QED BY <1>7, <1>8, <1>9, <1>10, <1>12, <1>13, <1>14, <1>15 DEF PanelInv

LEMMA CheckPanels == PanelInv /\ Check => PanelInv'
<1> SUFFICES ASSUME PanelInv, Check PROVE PanelInv'
  OBVIOUS
<1>1. CASE StepOver
  BY <1>1, OverPanels
<1>2. CASE ~StepOver
  <2>1. /\ SameStep /\ cursor' = cursor /\ inVc' = inVc /\ outVc' = outVc /\ st' = st
        /\ pc # "done" /\ pc' # "done"
    BY <1>2 DEF Check, mesh, SameStep
  <2>2. PlanInv'
    BY <2>1, PlanKept DEF PanelInv, PlanInv
  <2> QED BY <2>1, <2>2, Unmoved DEF PanelInv, PesInv
<1> QED BY <1>1, <1>2

-----------------------------------------------------------------------------
(* The plan, and the first state. *)

\* No panel of a plan has more elements than a control half can tell apart.
PanelsFit == \A s \in Shapes : (s.n \div P) * ChooseTileK(s.k, s.tileK) <= IndexSpan

\* The slab divides k.
LEMMA SlabDivides ==
    ASSUME NEW k \in Nat \ {0}, NEW pref \in Int
    PROVE  /\ ChooseTileK(k, pref) \in 1..k /\ k % ChooseTileK(k, pref) = 0
           /\ k \div ChooseTileK(k, pref) \in Nat \ {0}
<1> DEFINE widest == IF pref <= 0 THEN 8 ELSE pref
           slabs == {t \in 1..k : t <= widest /\ k % t = 0}
           tk == CHOOSE t \in slabs : \A u \in slabs : u <= t
<1>1. ChooseTileK(k, pref) = tk
  BY DEF ChooseTileK
<1>2. 1 \in slabs /\ slabs \in SUBSET (1..k)
  <2>1. 1 <= widest /\ 1 \in 1..k /\ k % 1 = 0
    OBVIOUS
  <2> QED BY <2>1
<1>3. \E t \in slabs : \A u \in slabs : u <= t
  <2> HIDE DEF slabs
  <2> QED BY <1>2, LargestUpTo
<1>4. tk \in slabs
  <2> HIDE DEF slabs
  <2> QED BY <1>3
<1>5. tk \in 1..k /\ k % tk = 0
  <2> HIDE DEF tk
  <2> QED BY <1>4
<1> HIDE DEF tk
<1>6. k \div tk \in Nat \ {0}
  <2>1. k \div tk \in Nat /\ k = (k \div tk) * tk + (k % tk)
    BY <1>5, Division
  <2>2. CASE k \div tk = 0
    <3>1. 0 * tk = 0
      BY <1>5
    <3> QED BY <1>5, <2>1, <2>2, <3>1
  <2> QED BY <2>1, <2>2
<1> QED BY <1>1, <1>5, <1>6

LEMMA PlanIs ==
    ASSUME NEW s \in Shapes
    PROVE  /\ BuildPlan(s).T = s.n \div P /\ BuildPlan(s).T \in Nat \ {0}
           /\ BuildPlan(s).TK = ChooseTileK(s.k, s.tileK) /\ BuildPlan(s).TK \in Nat \ {0}
           /\ BuildPlan(s).steps \in Nat \ {0}
<1>1. s.n \in Nat \ {0} /\ s.k \in Nat \ {0} /\ s.tileK \in Int /\ s.n % P = 0 /\ P \in Nat \ {0}
  BY SummaAssumption
<1>2. PICK tk : tk = ChooseTileK(s.k, s.tileK)
  OBVIOUS
<1>3. tk \in 1..s.k /\ s.k \div tk \in Nat \ {0}
  BY <1>1, <1>2, SlabDivides
<1>4. s.n \div P \in Nat \ {0}
  <2>1. PICK n \in Nat \ {0} : n = s.n
    BY <1>1
  <2>2. n \div P \in Nat /\ n = (n \div P) * P + (n % P) /\ n % P = 0
    BY <1>1, <2>1, Division
  <2>3. CASE n \div P = 0
    <3>1. 0 * P = 0
      BY <1>1
    <3> QED BY <1>1, <2>2, <2>3, <3>1
  <2> QED BY <2>1, <2>2, <2>3
<1>5. BuildPlan(s) = [n |-> s.n, k |-> s.k, T |-> s.n \div P, TK |-> tk, steps |-> s.k \div tk]
  BY <1>2 DEF BuildPlan
<1> QED BY <1>1, <1>2, <1>3, <1>4, <1>5

LEMMA InitPanels ==
    ASSUME PanelsFit, Init
    PROVE  PanelInv
<1>1. /\ breakRendezvous \in BOOLEAN /\ pc = "flush" /\ step = 0 /\ cursor = 0
      /\ inVc = [p \in PE |-> [c \in SummaColors |-> <<>>]]
      /\ outVc = [p \in PE |-> [d \in Net!Dir |-> [c \in SummaColors |-> <<>>]]]
      /\ st = [p \in PE |-> [aBuf |-> ZeroPanel, bBuf |-> ZeroPanel,
                             cTile |-> [ij \in Tile |-> <<>>], outbox |-> <<>>,
                             aCount |-> 0, bCount |-> 0, stepsDone |-> 0,
                             aToken |-> FALSE, bToken |-> FALSE]]
  BY DEF Init
<1>2. PICK s \in Shapes : plan = BuildPlan(s)
  BY DEF Init
<1>3. PlanInv
  <2>1. /\ plan.T \in Nat \ {0} /\ plan.TK \in Nat \ {0} /\ plan.steps \in Nat \ {0}
        /\ plan.T * plan.TK <= IndexSpan
    BY <1>2, PlanIs DEF PanelsFit
  <2>2. 0 < plan.steps
    BY <2>1
  <2> QED BY <1>1, <2>1, <2>2 DEF PlanInv, panelSize
<1>4. panelSize \in Nat \ {0}
  BY <1>3, PanelSizes
<1>5. IsSeq(<<>>) /\ Len(<<>>) = 0
  BY EmptyIsSeq
<1>6. PICK zero, tile : zero = ZeroPanel /\ tile = [ij \in Tile |-> <<>>]
  OBVIOUS
<1>7. \A p \in PE :
         st[p] = [aBuf |-> zero, bBuf |-> zero, cTile |-> tile, outbox |-> <<>>,
                  aCount |-> 0, bCount |-> 0, stepsDone |-> 0,
                  aToken |-> FALSE, bToken |-> FALSE]
  BY <1>1, <1>6
<1>8. \A p \in PE : /\ st[p].aBuf = zero /\ st[p].bBuf = zero /\ st[p].outbox = <<>>
                    /\ st[p].aCount = 0 /\ st[p].bCount = 0 /\ st[p].stepsDone = 0
                    /\ st[p].aToken = FALSE /\ st[p].bToken = FALSE
  BY <1>7
<1>9. PesInv
  <2>1. ASSUME NEW p \in PE
        PROVE  IsPe(st[p])
    <3>1. st[p] = [aBuf |-> st[p].aBuf, bBuf |-> st[p].bBuf, cTile |-> st[p].cTile,
                   outbox |-> st[p].outbox,
                   aCount |-> st[p].aCount, bCount |-> st[p].bCount,
                   stepsDone |-> st[p].stepsDone,
                   aToken |-> st[p].aToken, bToken |-> st[p].bToken]
      BY <1>7
    <3>2. /\ st[p].aCount \in 0..panelSize /\ st[p].bCount \in 0..panelSize
          /\ st[p].stepsDone \in {step, step + 1}
      BY <1>1, <1>4, <1>8
    <3>3. /\ st[p].aToken \in BOOLEAN /\ st[p].bToken \in BOOLEAN
          /\ st[p].aToken => st[p].aCount = panelSize
          /\ st[p].bToken => st[p].bCount = panelSize
      BY <1>8
    <3>4. /\ st[p].stepsDone = step + 1 => st[p].aCount = 0 /\ st[p].bCount = 0
          /\ breakRendezvous => st[p].bCount = 0
      BY <1>8
    <3> QED BY <3>1, <3>2, <3>3, <3>4, Zenon DEF IsPe
  <2> QED BY <1>1, <2>1 DEF PesInv
<1>10. BuffersInv
  <2>1. \A k, p : Holds(zero, k, p, 0)
    <3>1. \A t \in Panel : ~(t < 0)
      BY DEF Panel
    <3> QED BY <1>6, <3>1 DEF Holds, ZeroPanel
  <2> QED BY <1>8, <2>1 DEF BuffersInv
<1>11. TokensInv
  BY <1>1, <1>3, <1>5, <1>8, TokenColorsApart DEF TokensInv, IsTokenVc
<1>12. \A k \in Streams : ColorOf(k) \in SummaColors /\ ColorOf(k) \in PanelColors
  BY <1>3, StreamColors
<1>13. ASSUME NEW k \in Streams, NEW p \in PE
       PROVE  Arrived(k, p) = <<>> /\ Feed(k, p) = <<>> /\ Taken(k, p) = 0 /\ SentTo(k, p) = 0
  <2>1. Arrived(k, p) = <<>>
    BY <1>1, <1>12 DEF Arrived
  <2>2. Way(k) \in Net!Dir /\ "Ramp" \in Net!Dir
    BY DEF Way, Net!Dir
  <2>3. Feed(k, p) = <<>>
    BY <1>1, <1>12, <2>2 DEF Feed
  <2>4. Taken(k, p) = 0
    <3>1. 0 # 0 + 1
      OBVIOUS
    <3> QED BY <1>1, <1>8, <3>1 DEF Taken, HasComputed
  <2> QED BY <1>5, <2>1, <2>3, <2>4 DEF SentTo
<1>14. RunsInv
  BY <1>13, EmptyRun DEF RunsInv
<1>15. GivenInv
  <2> SUFFICES ASSUME NEW k \in Streams, NEW p \in PE
               PROVE  IF Source(k, p) \in PE THEN SentTo(k, p) <= Taken(k, Source(k, p))
                      ELSE /\ SentTo(k, p) <= panelSize
                           /\ \A t \in Panel : t < SentTo(k, p)
                                 <=> t * PerIndex + Slot(k, p) < cursor
    BY DEF GivenInv
  <2>1. CASE Source(k, p) \in PE
    BY <1>13, <2>1
  <2>2. CASE Source(k, p) \notin PE
    <3>1. PerIndex \in Nat \ {0} /\ Slot(k, p) \in 0..PerIndex - 1
      BY <1>3, <2>2, Entrances
    <3>2. ASSUME NEW t \in Panel
          PROVE  ~(t < 0) /\ ~(t * PerIndex + Slot(k, p) < 0)
      <4>1. t \in Nat
        BY DEF Panel
      <4>2. t * PerIndex \in Nat
        BY <3>1, <4>1
      <4> QED BY <3>1, <4>1, <4>2
    <3> QED BY <1>1, <1>4, <1>13, <2>2, <3>2
  <2> QED BY <2>1, <2>2
<1>16. BoxesInv
  <2> SUFFICES ASSUME NEW p \in PE PROVE Boxed(st[p].outbox, p, SentOn(p), TakenAt(p))
    BY DEF BoxesInv
  <2>1. ASSUME NEW k \in Streams, Onto(k, p) \in PE
        PROVE  SentOn(p)[k] = 0 /\ TakenAt(p)[k] = 0
    BY <1>13, <2>1 DEF SentOn, TakenAt
  <2>2. 0..0 - 1 = {}
    OBVIOUS
  <2> QED BY <1>5, <1>8, <2>1, <2>2 DEF Boxed
<1>17. SilenceInv
  <2>1. PanelColors \subseteq SummaColors
    BY <1>3, StreamColors
  <2> QED BY <1>1, <2>1 DEF SilenceInv, Silent
<1> QED BY <1>3, <1>9, <1>10, <1>11, <1>14, <1>15, <1>16, <1>17 DEF PanelInv

-----------------------------------------------------------------------------
(* The theorems. *)

LEMMA NextPanels == PanelInv /\ EdgeInv /\ [Next]_vars => PanelInv'
<1> SUFFICES ASSUME PanelInv, EdgeInv, [Next]_vars PROVE PanelInv'
  OBVIOUS
<1>1. CASE Flush
  BY <1>1, FlushPanels
<1>2. CASE InjectSeed
  BY <1>2, InjectPanels
<1>3. CASE GridStep
  BY <1>3, StepPanels
<1>4. CASE Drain
  BY <1>4, DrainPanels
<1>5. CASE Compute
  BY <1>5, ComputePanels
<1>6. CASE Quiescent
  BY <1>6, QuiescentPanels
<1>7. CASE Tokens
  BY <1>7, TokensPanels
<1>8. CASE Check
  BY <1>8, CheckPanels
<1>9. CASE Done \/ UNCHANGED vars
  BY <1>9, StutterPanels DEF Done
<1> QED BY <1>1, <1>2, <1>3, <1>4, <1>5, <1>6, <1>7, <1>8, <1>9 DEF Next, RunSumma

\* On a mesh of any size, with VCs of any depth and for every plan whose panels
\* a control half can index, the two VCs on the way to a PE hold the elements of
\* its panel that follow those it has taken, in order, and its outbox those it
\* has taken and not yet passed on (the drain tasks and the flush of Summa.cpp).
THEOREM SpecPanelInv ==
    ASSUME PanelsFit
    PROVE  Spec => []PanelInv
<1>1. Init => PanelInv
  BY InitPanels
<1>2. PanelInv /\ EdgeInv /\ [Next]_vars => PanelInv'
  BY NextPanels
<1> QED BY <1>1, <1>2, SpecEdgeInv, PTL DEF Spec

\* "compute fires only after BOTH panels arrive" (Summa.h), on every mesh.
THEOREM RendezvousIsComplete ==
    ASSUME PanelsFit
    PROVE  Spec => []BothPanelsThere
<1>1. PanelInv => BothPanelsThere
  <2> SUFFICES ASSUME PanelInv, NEW p \in PE, Runnable(p), ~breakRendezvous
               PROVE  /\ st[p].aBuf = [t \in Panel |-> AElement(p[2], t)]
                      /\ st[p].bBuf = [t \in Panel |-> BElement(p[1], t)]
    BY DEF BothPanelsThere
  <2>1. st[p].aCount = panelSize /\ st[p].bCount = panelSize
    BY RunnableIs
  <2>2. Holds(st[p].aBuf, "A", p, panelSize) /\ Holds(st[p].bBuf, "B", p, panelSize)
    BY <2>1 DEF PanelInv, BuffersInv
  <2>3. \A t \in Panel : t < panelSize
    <3>1. panelSize \in Nat
      BY PanelSizes DEF PanelInv
    <3> QED BY <3>1 DEF Panel
  <2> QED BY <2>2, <2>3 DEF Holds, Element
<1> QED BY <1>1, SpecPanelInv, PTL

\* A step ends with nothing left over in the mesh or on a PE, although the
\* driver looks at what the flush saw before the drains (outboxPending).
THEOREM StepsAreSeparate ==
    ASSUME PanelsFit
    PROVE  Spec => StepsDoNotOverlap
<1>1. PanelInv /\ [Next]_vars =>
         [step' # step =>
             /\ fabricEmpty
             /\ \A p \in PE : /\ st[p].outbox = <<>>
                              /\ st[p].aCount = 0 /\ st[p].bCount = 0
                              /\ ~st[p].aToken /\ ~st[p].bToken]_vars
  <2> SUFFICES ASSUME PanelInv, [Next]_vars, step' # step
               PROVE  /\ fabricEmpty
                      /\ \A p \in PE : /\ st[p].outbox = <<>>
                                       /\ st[p].aCount = 0 /\ st[p].bCount = 0
                                       /\ ~st[p].aToken /\ ~st[p].bToken
    OBVIOUS
  <2>1. Check /\ StepOver
    BY DEF Next, RunSumma, Flush, InjectSeed, GridStep, Drain, Compute, Quiescent, Tokens,
           Check, Done, vars, driver
  <2> QED BY <2>1, NothingLeft DEF StepLeavesNothing
<1> QED BY <1>1, SpecPanelInv, PTL DEF Spec, StepsDoNotOverlap

-----------------------------------------------------------------------------
(* The tiles. *)

\* The products a PE has added to an element of its tile after m columns of A
\* and rows of B; the broken rendezvous multiplies by what is not there.
Products(p, ij, m) ==
    [i \in 1..m |-> <<<<p[2] * plan.T + ij[1], i - 1>>,
                      IF breakRendezvous THEN Zero ELSE <<i - 1, p[1] * plan.T + ij[2]>>>>]

TileInv ==
    \A p \in PE :
        st[p].cTile = [ij \in Tile |-> Products(p, ij, st[p].stepsDone * plan.TK)]

\* The products of one slab follow those of the slabs before it.
LEMMA SlabFollows ==
    ASSUME PanelInv, NEW p \in PE, Runnable(p), NEW ij \in Tile,
           st[p].cTile[ij] = Products(p, ij, step * plan.TK)
    PROVE  Accumulated(st[p])[ij] = Products(p, ij, (step + 1) * plan.TK)
<1> DEFINE T == plan.T
           TK == plan.TK
           m == step * TK
           slab == [kk \in 1..TK |-> <<st[p].aBuf[ij[1] * TK + kk - 1],
                                       st[p].bBuf[(kk - 1) * T + ij[2]]>>]
           r == p[2] * T + ij[1]
           c == p[1] * T + ij[2]
<1>1. T \in Nat \ {0} /\ TK \in Nat \ {0} /\ step \in Nat /\ panelSize = T * TK
      /\ breakRendezvous \in BOOLEAN
  BY DEF PanelInv, PlanInv, panelSize
<1>2. ij[1] \in 0..T - 1 /\ ij[2] \in 0..T - 1
  BY DEF Tile
<1>3. Accumulated(st[p])[ij] = st[p].cTile[ij] \o slab
  BY DEF Accumulated
<1>4. /\ st[p].aBuf = [t \in Panel |-> AElement(p[2], t)]
      /\ st[p].bBuf = [t \in Panel |-> IF breakRendezvous THEN Zero ELSE BElement(p[1], t)]
  <2>1. /\ st[p].aCount = panelSize
        /\ IF breakRendezvous THEN st[p].bCount = 0 ELSE st[p].bCount = panelSize
    BY RunnableIs DEF PanelInv, PesInv, IsPe
  <2>2. \A t \in Panel : t < panelSize /\ ~(t < 0)
    <3>1. panelSize \in Nat
      BY PanelSizes DEF PanelInv
    <3> QED BY <3>1 DEF Panel
  <2>3. Holds(st[p].aBuf, "A", p, panelSize)
    BY <2>1 DEF PanelInv, BuffersInv
  <2>4. Holds(st[p].bBuf, "B", p, IF breakRendezvous THEN 0 ELSE panelSize)
    BY <2>1 DEF PanelInv, BuffersInv
  <2> QED BY <2>2, <2>3, <2>4 DEF Holds, Element
<1>5. m \in Nat /\ (step + 1) * TK = m + TK
  BY <1>1
<1> HIDE DEF m
<1>6. ASSUME NEW kk \in 1..TK
      PROVE  slab[kk] = <<<<r, m + kk - 1>>,
                          IF breakRendezvous THEN Zero ELSE <<m + kk - 1, c>>>>
  <2>1. PICK x \in 0..TK - 1 : x = kk - 1
    BY <1>1
  <2>2. PICK i \in 0..T - 1, j \in 0..T - 1 : i = ij[1] /\ j = ij[2]
    BY <1>2
  <2>3. PICK ta, tb : ta = i * TK + x /\ tb = x * T + j
    OBVIOUS
  <2>4. /\ ta \in Nat /\ ta \div TK = i /\ ta % TK = x /\ ta < T * TK
    <3>1. i \in Nat /\ i < T
      BY <1>1
    <3>2. /\ i * TK + x \in Nat /\ (i * TK + x) \div TK = i /\ (i * TK + x) % TK = x
          /\ \A n \in Nat : i < n => i * TK + x < n * TK
      BY <1>1, <3>1, Quotient
    <3> QED BY <1>1, <2>3, <3>1, <3>2
  <2>5. /\ tb \in Nat /\ tb \div T = x /\ tb % T = j /\ tb < TK * T
    <3>1. x \in Nat /\ x < TK
      BY <1>1
    <3> QED BY <1>1, <2>3, <3>1, Quotient
  <2>6. ta \in Panel /\ tb \in Panel
    <3>1. TK * T = T * TK
      BY <1>1
    <3> QED BY <1>1, <2>4, <2>5, <3>1 DEF Panel
  <2>7. ij[1] * TK + kk - 1 = ta /\ (kk - 1) * T + ij[2] = tb
    BY <1>1, <2>1, <2>2, <2>3
  <2>8. slab[kk] = <<st[p].aBuf[ta], st[p].bBuf[tb]>>
    BY <2>7
  <2>9. st[p].aBuf[ta] = <<p[2] * T + i, step * TK + x>>
    BY <1>4, <2>4, <2>6 DEF AElement
  <2>10. st[p].bBuf[tb] = IF breakRendezvous THEN Zero ELSE <<step * TK + x, p[1] * T + j>>
    BY <1>4, <2>5, <2>6 DEF BElement
  <2>11. step * TK + x = m + kk - 1
    BY <1>1, <1>5, <2>1 DEF m
  <2> QED BY <2>2, <2>8, <2>9, <2>10, <2>11
<1>7. PICK before, after : before = Products(p, ij, m) /\ after = Products(p, ij, m + TK)
  OBVIOUS
<1>8. /\ before = [i \in 1..m |-> <<<<r, i - 1>>,
                      IF breakRendezvous THEN Zero ELSE <<i - 1, c>>>>]
      /\ after = [i \in 1..m + TK |-> <<<<r, i - 1>>,
                      IF breakRendezvous THEN Zero ELSE <<i - 1, c>>>>]
  BY <1>7 DEF Products
<1>9. /\ IsList(before, m) /\ IsList(after, m + TK) /\ IsList(slab, TK)
  BY <1>8 DEF IsList
<1>10. before \o slab = after
  <2>1. \A i \in 1..m : before[i] = after[i]
    <3>1. \A i \in 1..m : i \in 1..m + TK
      BY <1>1, <1>5
    <3> QED BY <1>8, <3>1
  <2>2. \A kk \in 1..TK : slab[kk] = after[m + kk]
    <3>1. \A kk \in 1..TK : m + kk \in 1..m + TK
      BY <1>1, <1>5
    <3> SUFFICES ASSUME NEW kk \in 1..TK PROVE slab[kk] = after[m + kk]
      OBVIOUS
    <3>2. after[m + kk] = <<<<r, m + kk - 1>>,
                            IF breakRendezvous THEN Zero ELSE <<m + kk - 1, c>>>>
      <4> HIDE DEF slab, r, c
      <4>1. PICK i \in 1..m + TK : i = m + kk
        BY <3>1
      <4>2. after[i] = <<<<r, i - 1>>, IF breakRendezvous THEN Zero ELSE <<i - 1, c>>>>
        BY <1>8
      <4>3. PICK x : x = i - 1
        OBVIOUS
      <4>4. m + kk - 1 = x /\ m + kk = i
        BY <1>1, <1>5, <4>1, <4>3
      <4>5. after[i] = <<<<r, x>>, IF breakRendezvous THEN Zero ELSE <<x, c>>>>
        BY <4>2, <4>3
      <4> QED BY <4>4, <4>5, Zenon
    <3> QED BY <1>6, <3>2
  <2> HIDE DEF slab
  <2> QED BY <1>1, <1>5, <1>9, <2>1, <2>2, JoinIs
<1>11. st[p].cTile[ij] = before
  BY <1>7 DEF m
<1> QED BY <1>3, <1>5, <1>7, <1>10, <1>11

LEMMA TilesStay ==
    ASSUME TileInv, UNCHANGED <<plan, breakRendezvous>>,
           \A p \in PE : st'[p].cTile = st[p].cTile /\ st'[p].stepsDone = st[p].stepsDone
    PROVE  TileInv'
<1>1. \A p, ij, m : Products(p, ij, m)' = Products(p, ij, m)
  BY DEF Products
<1>2. Tile' = Tile
  BY DEF Tile
<1> QED BY <1>1, <1>2 DEF TileInv

LEMMA ComputeTiles == PanelInv /\ TileInv /\ Compute => TileInv'
<1> SUFFICES ASSUME PanelInv, TileInv, Compute PROVE TileInv'
  OBVIOUS
<1>1. plan' = plan /\ breakRendezvous' = breakRendezvous
  BY DEF Compute
<1>2. \A p \in PE : st'[p] = IF Runnable(p) THEN Computed(p) ELSE st[p]
  BY DEF Compute
<1>3. ASSUME NEW p \in PE
      PROVE  st'[p].cTile = [ij \in Tile |-> Products(p, ij, st'[p].stepsDone * plan.TK)]
  <2>1. st[p].cTile = [ij \in Tile |-> Products(p, ij, st[p].stepsDone * plan.TK)]
    BY DEF TileInv
  <2>2. CASE ~Runnable(p)
    BY <1>2, <2>1, <2>2
  <2>3. CASE Runnable(p)
    <3>1. st'[p].cTile = Accumulated(st[p]) /\ st'[p].stepsDone = step + 1
      BY <1>2, <2>3, ComputedPe
    <3>2. st[p].stepsDone = step
      BY <2>3, RunnableIs
    <3>3. ASSUME NEW ij \in Tile
          PROVE  Accumulated(st[p])[ij] = Products(p, ij, (step + 1) * plan.TK)
      BY <2>1, <2>3, <3>2, SlabFollows
    <3>4. Accumulated(st[p]) = [ij \in Tile |-> Accumulated(st[p])[ij]]
      BY DEF Accumulated
    <3>5. Accumulated(st[p]) = [ij \in Tile |-> Products(p, ij, (step + 1) * plan.TK)]
      BY <3>3, <3>4
    <3> QED BY <3>1, <3>5
  <2> QED BY <2>2, <2>3
<1>4. \A p, ij, m : Products(p, ij, m)' = Products(p, ij, m)
  BY <1>1 DEF Products
<1>5. Tile' = Tile
  BY <1>1 DEF Tile
<1> QED BY <1>1, <1>3, <1>4, <1>5 DEF TileInv

LEMMA NextTiles == PanelInv /\ TileInv /\ [Next]_vars => TileInv'
<1> SUFFICES ASSUME PanelInv, TileInv, [Next]_vars PROVE TileInv'
  OBVIOUS
<1>1. \A p \in PE :
         /\ st[p] = [aBuf |-> st[p].aBuf, bBuf |-> st[p].bBuf, cTile |-> st[p].cTile,
                     outbox |-> st[p].outbox,
                     aCount |-> st[p].aCount, bCount |-> st[p].bCount,
                     stepsDone |-> st[p].stepsDone,
                     aToken |-> st[p].aToken, bToken |-> st[p].bToken]
  BY DEF PanelInv, PesInv, IsPe
<1>2. DOMAIN st = PE
  BY DEF PanelInv, PesInv
<1>3. CASE Compute
  BY <1>3, ComputeTiles
<1>4. CASE Flush
  <2>1. PICK q : q = PeAt(idx)
    OBVIOUS
  <2>2. st' = st \/ st' = [st EXCEPT ![q].outbox = Tail(@)]
    BY <1>4, <2>1 DEF Flush
  <2>3. \A p \in PE : st'[p].cTile = st[p].cTile /\ st'[p].stepsDone = st[p].stepsDone
    <3> SUFFICES ASSUME NEW p \in PE, st' = [st EXCEPT ![q].outbox = Tail(@)]
                 PROVE  st'[p].cTile = st[p].cTile /\ st'[p].stepsDone = st[p].stepsDone
      BY <2>2
    <3>1. st'[p] = IF p = q THEN [st[p] EXCEPT !.outbox = Tail(st[p].outbox)] ELSE st[p]
      BY <1>2
    <3> QED BY <1>1, <3>1
  <2>4. UNCHANGED <<plan, breakRendezvous>>
    BY <1>4 DEF Flush
  <2> QED BY <2>3, <2>4, TilesStay
<1>5. CASE Drain
  <2>1. \A p \in PE : st'[p].cTile = st[p].cTile /\ st'[p].stepsDone = st[p].stepsDone
    BY <1>5, DrainedPe
  <2>2. UNCHANGED <<plan, breakRendezvous>>
    BY <1>5 DEF Drain
  <2> QED BY <2>1, <2>2, TilesStay
<1>6. CASE Tokens
  <2>1. PICK x, y : st' = [p \in PE |-> [st[p] EXCEPT !.aToken = @ \/ p \in x,
                                                       !.bToken = @ \/ p \in y]]
    BY <1>6 DEF Tokens
  <2>2. \A p \in PE : st'[p].cTile = st[p].cTile /\ st'[p].stepsDone = st[p].stepsDone
    <3> SUFFICES ASSUME NEW p \in PE
                 PROVE  st'[p].cTile = st[p].cTile /\ st'[p].stepsDone = st[p].stepsDone
      OBVIOUS
    <3>1. PICK f, g : f = (st[p].aToken \/ p \in x) /\ g = (st[p].bToken \/ p \in y)
      OBVIOUS
    <3>2. st'[p] = [st[p] EXCEPT !.aToken = f, !.bToken = g]
      BY <2>1, <3>1
    <3> QED BY <1>1, <3>2
  <2>3. UNCHANGED <<plan, breakRendezvous>>
    BY <1>6 DEF Tokens
  <2> QED BY <2>2, <2>3, TilesStay
<1>7. CASE InjectSeed \/ GridStep \/ Quiescent \/ Check \/ Done \/ UNCHANGED vars
  <2>1. UNCHANGED <<plan, breakRendezvous, st>>
    BY <1>7 DEF InjectSeed, GridStep, Quiescent, Check, Done, vars
  <2> QED BY <2>1, TilesStay
<1> QED BY <1>3, <1>4, <1>5, <1>6, <1>7 DEF Next, RunSumma

\* At every moment the tile of a PE holds the products of the steps it has
\* computed, each once and in order.
THEOREM SpecTileInv ==
    ASSUME PanelsFit
    PROVE  Spec => []TileInv
<1>1. Init => TileInv
  <2> SUFFICES ASSUME Init, NEW p \in PE
               PROVE  st[p].cTile = [ij \in Tile |-> Products(p, ij, st[p].stepsDone * plan.TK)]
    BY DEF TileInv
  <2>1. st[p].cTile = [ij \in Tile |-> <<>>] /\ st[p].stepsDone = 0
    BY DEF Init
  <2>2. 0 * plan.TK = 0
    <3>1. PanelInv
      BY InitPanels
    <3> QED BY <3>1 DEF PanelInv, PlanInv
  <2>3. \A ij : Products(p, ij, 0) = <<>>
    BY DEF Products
  <2> QED BY <2>1, <2>2, <2>3
<1> QED BY <1>1, NextTiles, SpecPanelInv, PTL DEF Spec

\* When RunSumma returns, every tile of C is the product of its rows of A and
\* columns of B, and with the negative hook it is not ("WRONG output that fails
\* the golden contract", Summa.h).
THEOREM ResultIsTheProduct ==
    ASSUME PanelsFit
    PROVE  Spec => []TilesAreProducts
<1>1. PanelInv /\ TileInv => TilesAreProducts
  <2> SUFFICES ASSUME PanelInv, TileInv, NEW p \in PE
               PROVE  LET s == st[p]
                          right == \A ij \in Tile :
                              s.cTile[ij] = Golden(p[2] * plan.T + ij[1], p[1] * plan.T + ij[2],
                                                   s.stepsDone * plan.TK)
                      IN  /\ ~breakRendezvous => right
                          /\ pc = "done" => s.stepsDone = plan.steps /\ (right <=> ~breakRendezvous)
    BY DEF TilesAreProducts
  <2> DEFINE golden(ij) == Golden(p[2] * plan.T + ij[1], p[1] * plan.T + ij[2],
                                  st[p].stepsDone * plan.TK)
             right == \A ij \in Tile : st[p].cTile[ij] = golden(ij)
  <2>1. \A ij \in Tile : st[p].cTile[ij] = Products(p, ij, st[p].stepsDone * plan.TK)
    BY DEF TileInv
  <2>2. ~breakRendezvous => right
    BY <2>1 DEF Products, Golden
  <2>3. ASSUME pc = "done"
        PROVE  st[p].stepsDone = plan.steps
    BY <2>3 DEF PanelInv, PesInv, IsPe, PlanInv, HasComputed
  <2>4. ASSUME pc = "done", breakRendezvous
        PROVE  ~right
    <3>1. PICK m : m = plan.steps * plan.TK
      OBVIOUS
    <3>2. m \in Nat \ {0} /\ plan.T \in Nat \ {0}
      BY <3>1 DEF PanelInv, PlanInv
    <3>3. PICK ij \in Tile : ij = <<0, 0>>
      <4>1. 0 \in 0..plan.T - 1
        BY <3>2
      <4>2. <<0, 0>> \in Tile
        BY <4>1 DEF Tile
      <4> QED BY <4>2
    <3>4. 1 \in 1..m
      BY <3>2
    <3>5. Products(p, ij, m)[1][2] = <<>>
      BY <2>4, <3>4 DEF Products, Zero
    <3>6. golden(ij)[1][2] = <<1 - 1, p[1] * plan.T + ij[2]>>
      BY <2>3, <2>4, <3>1, <3>4 DEF Golden
    <3>7. <<1 - 1, p[1] * plan.T + ij[2]>> # <<>>
      OBVIOUS
    <3>8. st[p].cTile[ij] = Products(p, ij, m)
      BY <2>1, <2>3, <2>4, <3>1
    <3> QED BY <3>5, <3>6, <3>7, <3>8
  <2>5. breakRendezvous \in BOOLEAN
    BY DEF PanelInv, PlanInv
  <2> QED BY <2>2, <2>3, <2>4, <2>5
<1> QED BY <1>1, SpecPanelInv, SpecTileInv, PTL
=============================================================================
