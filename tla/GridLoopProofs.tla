--------------------------- MODULE GridLoopProofs ---------------------------
(***************************************************************************)
(* For every mesh, VC depth, set of colors, routes and injections: the     *)
(* loops of Grid::Step and the operations between cycles keep every VC     *)
(* within its depth, never lose an accepted wavelet and keep the books of  *)
(* its copies; what a cycle's loops compute is the one Step of Fabric; and *)
(* on routes that do not rejoin no stream of wavelets gets out of order.   *)
(*                                                                         *)
(* For the cycle, CycleInv tells at every moment of a cycle how it came     *)
(* from the state x that it began with: so many wavelets of every input VC *)
(* were forwarded, so many of every output VC were sent, in the order of   *)
(* the links, and what the loops need not visit any more is stuck.  When   *)
(* nothing is left to visit, the counts are the closed form's.             *)
(***************************************************************************)
EXTENDS GridLoop, DataLemmas

\* What an append does to a VC: Len and Range.
LEMMA AppendVc ==
    ASSUME NEW s \in Seq(Nat), NEW w \in Nat
    PROVE  /\ Append(s, w) \in Seq(Nat)
           /\ Len(Append(s, w)) = Len(s) + 1
           /\ Range(Append(s, w)) = Range(s) \cup {w}
<1>1. /\ Append(s, w) \in Seq(Nat)
      /\ Len(Append(s, w)) = Len(s) + 1
      /\ \A i \in 1..Len(s) : Append(s, w)[i] = s[i]
      /\ Append(s, w)[Len(s) + 1] = w
  BY AppendProperties
<1>2. /\ DOMAIN Append(s, w) = 1..(Len(s) + 1)
      /\ DOMAIN s = 1..Len(s)
      /\ Len(s) \in Nat
  BY <1>1, LenProperties
<1>3. QED
  BY <1>1, <1>2 DEF Range

\* What a pop does to a VC: only the front wavelet leaves.
LEMMA PopVc ==
    ASSUME NEW s \in Seq(Nat), s # <<>>
    PROVE  /\ Tail(s) \in Seq(Nat)
           /\ Len(Tail(s)) = Len(s) - 1
           /\ Head(s) \in Nat
           /\ Head(s) \in Range(s)
           /\ Range(s) = {Head(s)} \cup Range(Tail(s))
<1>1. /\ Len(s) \in Nat \ {0}
      /\ DOMAIN s = 1..Len(s)
  BY EmptySeq, LenProperties
<1>2. /\ Head(s) \in Nat
      /\ Tail(s) \in Seq(Nat)
      /\ Len(Tail(s)) = Len(s) - 1
      /\ \A i \in 1..Len(Tail(s)) : Tail(s)[i] = s[i + 1]
      /\ Head(s) = s[1]
  BY HeadTailProperties
<1>3. DOMAIN Tail(s) = 1..(Len(s) - 1)
  BY <1>2, LenProperties
<1>4. Range(s) \subseteq {Head(s)} \cup Range(Tail(s))
  <2>1. SUFFICES ASSUME NEW i \in 1..Len(s)
                 PROVE  s[i] \in {Head(s)} \cup Range(Tail(s))
    BY <1>1 DEF Range
  <2>2. CASE i = 1
    BY <2>2, <1>2
  <2>3. CASE i # 1
    <3>1. i - 1 \in DOMAIN Tail(s) /\ Tail(s)[i - 1] = s[i]
      BY <2>3, <1>1, <1>2, <1>3
    <3>2. QED
      BY <3>1 DEF Range
  <2>4. QED
    BY <2>2, <2>3
<1>5. {Head(s)} \cup Range(Tail(s)) \subseteq Range(s)
  BY <1>1, <1>2, <1>3 DEF Range
<1>6. QED
  BY <1>1, <1>2, <1>4, <1>5 DEF Range

\* A router has finitely many directions.
LEMMA DirsAreFinite ==
    ASSUME NEW dirs \in SUBSET Dir
    PROVE  Cardinality(dirs) \in Nat
<1>1. IsFiniteSet({"Ramp"})
  BY FS_Singleton
<1>2. IsFiniteSet({"Ramp"} \cup {"East"})
  BY <1>1, FS_AddElement
<1>3. IsFiniteSet({"Ramp"} \cup {"East"} \cup {"West"})
  BY <1>2, FS_AddElement
<1>4. IsFiniteSet({"Ramp"} \cup {"East"} \cup {"West"} \cup {"North"})
  BY <1>3, FS_AddElement
<1>5. IsFiniteSet({"Ramp"} \cup {"East"} \cup {"West"} \cup {"North"} \cup {"South"})
  BY <1>4, FS_AddElement
<1>6. Dir = {"Ramp"} \cup {"East"} \cup {"West"} \cup {"North"} \cup {"South"}
  BY DEF Dir
<1>7. IsFiniteSet(dirs)
  BY <1>5, <1>6, FS_Subset
<1>8. QED
  BY <1>7, FS_CardinalityType

-----------------------------------------------------------------------------
(* The state between and within cycles. *)

\* The type of what a cycle and the operations between cycles change.
VcTypeOK ==
    /\ inVc \in [PE -> [Colors -> Seq(Nat)]]
    /\ outVc \in [PE -> [Dir -> [Colors -> Seq(Nat)]]]

\* A wavelet pushed on a set of output VCs that all have room: the effect of
\* Router::Tx and of one round of ApplyForwarding.
LEMMA PushAllVcs ==
    ASSUME VcTypeOK, NEW p \in PE, NEW c \in Colors, NEW dirs \in SUBSET Dir,
           NEW w \in Nat, NEW q \in PE, NEW d \in Dir, NEW b \in Colors
    PROVE  LET new == PushAll(p, c, dirs, w)[q][d][b]
           IN  /\ PushAll(p, c, dirs, w) \in [PE -> [Dir -> [Colors -> Seq(Nat)]]]
               /\ Range(outVc[q][d][b]) \subseteq Range(new)
               /\ q = p /\ d \in dirs /\ b = c =>
                      w \in Range(new) /\ Len(new) = Len(outVc[q][d][b]) + 1
               /\ ~(q = p /\ d \in dirs /\ b = c) => new = outVc[q][d][b]
<1>1. \A e \in PE, f \in Dir, g \in Colors :
         /\ outVc[e][f][g] \in Seq(Nat)
         /\ Append(outVc[e][f][g], w) \in Seq(Nat)
  BY AppendVc DEF VcTypeOK
<1>2. PushAll(p, c, dirs, w) \in [PE -> [Dir -> [Colors -> Seq(Nat)]]]
  BY <1>1 DEF PushAll
<1>3. PushAll(p, c, dirs, w)[q][d][b] =
         IF q = p /\ d \in dirs /\ b = c
         THEN Append(outVc[q][d][b], w) ELSE outVc[q][d][b]
  BY DEF PushAll
<1>4. QED
  BY <1>1, <1>2, <1>3, AppendVc

\* ... and no VC outgrows its depth.
LEMMA PushAllBounded ==
    ASSUME VcTypeOK, VcBounded, NEW p \in PE, NEW c \in Colors,
           NEW dirs \in SUBSET Dir, HasRoom(p, c, dirs), NEW w \in Nat,
           NEW q \in PE, NEW d \in Dir, NEW b \in Colors
    PROVE  Len(PushAll(p, c, dirs, w)[q][d][b]) <= kVcDepth
<1>1. /\ outVc[q][d][b] \in Seq(Nat)
      /\ Len(outVc[q][d][b]) \in Nat
      /\ Len(outVc[q][d][b]) <= kVcDepth
  BY LenProperties DEF VcTypeOK, VcBounded
<1>2. CASE q = p /\ d \in dirs /\ b = c
  <2>1. Len(outVc[q][d][b]) < kVcDepth
    BY <1>2 DEF HasRoom
  <2>2. PushAll(p, c, dirs, w)[q][d][b] = Append(outVc[q][d][b], w)
    BY <1>2 DEF PushAll
  <2>3. QED
    BY <1>1, <2>1, <2>2, AppendVc, FabricAssumption
<1>3. CASE ~(q = p /\ d \in dirs /\ b = c)
  <2>1. PushAll(p, c, dirs, w)[q][d][b] = outVc[q][d][b]
    BY <1>3 DEF PushAll
  <2>2. QED
    BY <1>1, <2>1
<1>4. QED
  BY <1>2, <1>3

-----------------------------------------------------------------------------
(* Each step keeps the types, the depth bound and every wavelet. *)

IInv == TypeOK /\ VcBounded /\ NothingVanishes

\* An empty fabric satisfies the invariant.
LEMMA InitIInv == LoopInit => IInv
<1>1. LoopInit => TypeOK
  BY DEF LoopInit, Init, TypeOK, NoConfig, Dir
<1>2. LoopInit => VcBounded
  BY FabricAssumption DEF LoopInit, Init, VcBounded, Dir
<1>3. LoopInit => NothingVanishes
  BY DEF LoopInit, Init, NothingVanishes
<1>4. QED
  BY <1>1, <1>2, <1>3 DEF IInv

\* Grid::SetRoute touches no VC.
LEMMA SetRouteIInv ==
    ASSUME IInv, NEW r \in Routes, SetRoute(r[1], r[2], r[3], r[4])
    PROVE  IInv'
<1>1. r[1] \in PE /\ r[2] \in Colors /\ r[3] \in Dir /\ r[4] \in SUBSET Dir
  BY FabricAssumption
<1>2. TypeOK'
  BY <1>1 DEF IInv, TypeOK, SetRoute, histVars
<1>3. VcBounded'
  BY DEF IInv, VcBounded, SetRoute
<1>4. NothingVanishes'
  BY DEF IInv, NothingVanishes, InFlight, WasRead, SetRoute, histVars
<1>5. QED
  BY <1>2, <1>3, <1>4 DEF IInv

\* Grid::Inject: all VCs or none, so the new wavelet is in flight.
LEMMA InjectIInv ==
    ASSUME IInv, NEW i \in Injections, Inject(i[1], i[2], i[3])
    PROVE  IInv'
<1> DEFINE p == i[1]
           c == i[2]
           dirs == i[3]
           w == Len(sent) + 1
<1>1. p \in PE /\ c \in Colors /\ dirs \in SUBSET Dir /\ dirs # {}
  BY FabricAssumption
<1>2. Len(sent) \in Nat /\ w \in Nat
  BY LenProperties DEF IInv, TypeOK
<1>3. VcTypeOK
  BY DEF IInv, TypeOK, VcTypeOK
<1>4. outVc' = PushAll(p, c, dirs, w)
  BY DEF Inject
<1>5. TypeOK'
  <2>1. outVc' \in [PE -> [Dir -> [Colors -> Seq(Nat)]]]
    BY <1>1, <1>2, <1>3, <1>4, PushAllVcs
  <2>2. sent' \in Seq([pe : PE, color : Colors, dirs : SUBSET Dir])
    BY <1>1, AppendProperties DEF Inject, IInv, TypeOK
  <2>3. born' \in Int
    BY <1>1, DirsAreFinite DEF Inject, IInv, TypeOK
  <2>4. QED
    BY <2>1, <2>2, <2>3 DEF Inject, IInv, TypeOK
<1>6. VcBounded'
  <2>1. SUFFICES ASSUME NEW q \in PE, NEW b \in Colors, NEW d \in Dir
                 PROVE  Len(outVc'[q][d][b]) <= kVcDepth
    BY DEF VcBounded, Inject, IInv
  <2>2. HasRoom(p, c, dirs) /\ VcBounded
    BY DEF Inject, IInv
  <2>3. QED
    BY <1>1, <1>2, <1>3, <1>4, <2>2, PushAllBounded
<1>7. NothingVanishes'
  <2>1. Len(sent') = w
    BY <1>1, AppendProperties DEF Inject, IInv, TypeOK
  <2>2. SUFFICES ASSUME NEW v \in 1..w
                 PROVE  InFlight(v)' \/ WasRead(v)' \/ v \in fell'
    BY <2>1 DEF NothingVanishes
  <2> HIDE DEF p, c, dirs, w
  <2>3. CASE v = w
    <3>1. PICK d \in Dir : d \in dirs
      BY <1>1
    <3>2. w \in Range(outVc'[p][d][c])
      <4>1. w \in Range(PushAll(p, c, dirs, w)[p][d][c])
        BY <1>1, <1>2, <1>3, <3>1, PushAllVcs
      <4> QED BY <1>4, <4>1
    <3>3. QED
      BY <1>1, <2>3, <3>2 DEF InFlight
  <2>4. CASE v # w
    <3>1. v \in 1..Len(sent)
      BY <1>2, <2>4 DEF w
    <3>2. InFlight(v) \/ WasRead(v) \/ v \in fell
      BY <3>1 DEF IInv, NothingVanishes
    <3>3. ASSUME NEW q \in PE, NEW b \in Colors, NEW d \in Dir
          PROVE  Range(outVc[q][d][b]) \subseteq Range(outVc'[q][d][b])
      <4>1. Range(outVc[q][d][b]) \subseteq Range(PushAll(p, c, dirs, w)[q][d][b])
        BY <1>1, <1>2, <1>3, PushAllVcs
      <4> QED BY <1>4, <4>1
    <3>4. InFlight(v) => InFlight(v)'
      BY <3>3 DEF InFlight, Inject
    <3>5. QED
      BY <3>2, <3>4 DEF WasRead, Inject
  <2>5. QED
    BY <2>3, <2>4
<1>8. QED
  BY <1>5, <1>6, <1>7 DEF IInv

\* Router::PopInput: the wavelet moves from the input VC to its reader.
LEMMA FaboutIInv ==
    ASSUME IInv, NEW p \in PE, NEW c \in Colors, Fabout(p, c)
    PROVE  IInv'
<1> DEFINE vc == inVc[p][c]
<1>1. vc \in Seq(Nat) /\ vc # <<>> /\ got[p][c] \in Seq(Nat)
  BY DEF IInv, TypeOK, Fabout
<1>2. /\ inVc' = [inVc EXCEPT ![p][c] = Tail(vc)]
      /\ got' = [got EXCEPT ![p][c] = Append(got[p][c], Head(vc))]
      /\ UNCHANGED <<outVc, config, dropped, sent, fell, born>>
  BY DEF Fabout
<1>3. /\ Tail(vc) \in Seq(Nat)
      /\ Append(got[p][c], Head(vc)) \in Seq(Nat)
      /\ Len(Tail(vc)) = Len(vc) - 1
      /\ Len(vc) \in Nat
  BY <1>1, PopVc, AppendVc, LenProperties
<1>4. TypeOK'
  BY <1>2, <1>3 DEF IInv, TypeOK
<1>5. VcBounded'
  <2>1. ASSUME NEW q \in PE, NEW b \in Colors
        PROVE  Len(inVc'[q][b]) <= kVcDepth
    BY <1>2, <1>3, FabricAssumption DEF IInv, TypeOK, VcBounded
  <2>2. QED
    BY <1>2, <2>1 DEF IInv, VcBounded
<1>6. NothingVanishes'
  <2>1. SUFFICES ASSUME NEW v \in 1..Len(sent)
                 PROVE  InFlight(v)' \/ WasRead(v)' \/ v \in fell'
    BY <1>2 DEF NothingVanishes
  <2>2. InFlight(v) \/ WasRead(v) \/ v \in fell
    BY DEF IInv, NothingVanishes
  <2>3. ASSUME NEW q \in PE, NEW b \in Colors
        PROVE  /\ Range(got[q][b]) \subseteq Range(got'[q][b])
               /\ Range(inVc[q][b]) \subseteq Range(inVc'[q][b]) \cup Range(got'[q][b])
    <3>1. CASE q = p /\ b = c
      <4>1. got'[q][b] = Append(got[p][c], Head(vc)) /\ inVc'[q][b] = Tail(vc)
        BY <1>2, <3>1 DEF IInv, TypeOK
      <4>2. QED
        BY <1>1, <3>1, <4>1, PopVc, AppendVc
    <3>2. CASE ~(q = p /\ b = c)
      BY <1>2, <3>2 DEF IInv, TypeOK
    <3>3. QED
      BY <3>1, <3>2
  <2>4. InFlight(v) => InFlight(v)' \/ WasRead(v)'
    BY <1>2, <2>3 DEF InFlight, WasRead
  <2>5. WasRead(v) => WasRead(v)'
    BY <2>3 DEF WasRead
  <2>6. QED
    BY <1>2, <2>2, <2>4, <2>5
<1>7. QED
  BY <1>4, <1>5, <1>6 DEF IInv

\* A color is forwarded only to directions of a router.
LEMMA FwdDirsType ==
    ASSUME TypeOK, NEW p \in PE, NEW c \in Colors
    PROVE  FwdDirs(p, c) \in SUBSET Dir
<1>1. config[p][c] \in [has : BOOLEAN, rx : Dir, tx : SUBSET Dir]
  BY DEF TypeOK
<1>2. QED
  BY <1>1 DEF FwdDirs

\* One round of ApplyForwarding: the front wavelet moves to every transmit VC.
LEMMA ForwardIInv ==
    ASSUME IInv, Forward
    PROVE  IInv'
<1>1. PICK p \in PE, c \in Colors, tx \in SUBSET Dir :
         /\ tx # {}
         /\ HasRoom(p, c, tx)
         /\ inVc[p][c] # <<>>
         /\ inVc' = [inVc EXCEPT ![p][c] = Tail(inVc[p][c])]
         /\ outVc' = PushAll(p, c, tx, Head(inVc[p][c]))
         /\ born' = born + Cardinality(tx) - 1
         /\ UNCHANGED <<config, dropped, sent, got, fell>>
  <2>1. Head(todo).pe \in PE /\ Head(todo).color \in Colors
    BY DEF Forward, InBounds
  <2>2. FwdDirs(Head(todo).pe, Head(todo).color) \in SUBSET Dir
    BY <2>1, FwdDirsType DEF IInv
  <2>3. QED
    BY <2>1, <2>2 DEF Forward
<1> DEFINE vc == inVc[p][c]
<1>2. tx \in SUBSET Dir
  OBVIOUS
<1>3. VcTypeOK /\ VcBounded /\ vc \in Seq(Nat)
  BY <1>1 DEF IInv, TypeOK, VcTypeOK
<1>4. /\ Tail(vc) \in Seq(Nat)
      /\ Head(vc) \in Nat
      /\ Len(Tail(vc)) = Len(vc) - 1
      /\ Len(vc) \in Nat
  BY <1>1, <1>3, PopVc, LenProperties
<1>5. TypeOK'
  <2>1. outVc' \in [PE -> [Dir -> [Colors -> Seq(Nat)]]]
    <3>1. PICK d \in Dir : d \in tx
      BY <1>1, <1>2
    <3>2. QED
      BY <1>1, <1>2, <1>3, <1>4, <3>1, PushAllVcs
  <2>2. inVc' \in [PE -> [Colors -> Seq(Nat)]]
    BY <1>1, <1>4 DEF IInv, TypeOK
  <2>3. born' \in Int
    BY <1>1, <1>2, DirsAreFinite DEF IInv, TypeOK
  <2>4. QED
    BY <1>1, <2>1, <2>2, <2>3 DEF IInv, TypeOK
<1>6. VcBounded'
  <2>1. ASSUME NEW q \in PE, NEW b \in Colors
        PROVE  Len(inVc'[q][b]) <= kVcDepth
    BY <1>1, <1>4, FabricAssumption DEF IInv, TypeOK, VcBounded
  <2>2. ASSUME NEW q \in PE, NEW b \in Colors, NEW d \in Dir
        PROVE  Len(outVc'[q][d][b]) <= kVcDepth
    BY <1>1, <1>2, <1>3, <1>4, PushAllBounded
  <2>3. QED
    BY <2>1, <2>2 DEF VcBounded
<1>7. NothingVanishes'
  <2>1. SUFFICES ASSUME NEW v \in 1..Len(sent)
                 PROVE  InFlight(v)' \/ WasRead(v)' \/ v \in fell'
    BY <1>1 DEF NothingVanishes
  <2>2. InFlight(v) \/ WasRead(v) \/ v \in fell
    BY DEF IInv, NothingVanishes
  <2>3. CASE v = Head(vc)
    <3>1. PICK d \in Dir : d \in tx
      BY <1>1, <1>2
    <3>2. v \in Range(outVc'[p][d][c])
      BY <1>1, <1>2, <1>3, <1>4, <2>3, <3>1, PushAllVcs
    <3>3. QED
      BY <1>1, <3>2 DEF InFlight
  <2>4. CASE v # Head(vc)
    <3>1. ASSUME NEW q \in PE, NEW b \in Colors, NEW d \in Dir
          PROVE  Range(outVc[q][d][b]) \subseteq Range(outVc'[q][d][b])
      BY <1>1, <1>2, <1>3, <1>4, PushAllVcs
    <3>2. ASSUME NEW q \in PE, NEW b \in Colors, v \in Range(inVc[q][b])
          PROVE  v \in Range(inVc'[q][b])
      <4>1. CASE q = p /\ b = c
        <5>1. inVc'[q][b] = Tail(vc)
          BY <1>1, <4>1 DEF IInv, TypeOK
        <5>2. QED
          BY <1>1, <1>3, <2>4, <3>2, <4>1, <5>1, PopVc
      <4>2. CASE ~(q = p /\ b = c)
        BY <1>1, <3>2, <4>2 DEF IInv, TypeOK
      <4>3. QED
        BY <4>1, <4>2
    <3>3. InFlight(v) => InFlight(v)'
      BY <3>1, <3>2 DEF InFlight
    <3>4. QED
      BY <1>1, <2>2, <3>3 DEF WasRead
  <2>5. QED
    BY <2>3, <2>4
<1>8. QED
  BY <1>5, <1>6, <1>7 DEF IInv

\* The effect of popping one output VC, alone.
LEMMA PopOutputVc ==
    ASSUME VcTypeOK, NEW p \in PE, NEW d \in Dir, NEW c \in Colors,
           outVc[p][d][c] # <<>>,
           outVc' = [outVc EXCEPT ![p][d][c] = Tail(@)]
    PROVE  /\ outVc' \in [PE -> [Dir -> [Colors -> Seq(Nat)]]]
           /\ \A q \in PE, e \in Dir, b \in Colors :
                 /\ Len(outVc'[q][e][b]) <= Len(outVc[q][e][b])
                 /\ \A v \in Range(outVc[q][e][b]) :
                       v # Head(outVc[p][d][c]) => v \in Range(outVc'[q][e][b])
<1> DEFINE vc == outVc[p][d][c]
<1>1. vc \in Seq(Nat)
  BY DEF VcTypeOK
<1>2. /\ Tail(vc) \in Seq(Nat)
      /\ Len(Tail(vc)) = Len(vc) - 1
      /\ Range(vc) = {Head(vc)} \cup Range(Tail(vc))
  BY <1>1, PopVc
<1>3. outVc' \in [PE -> [Dir -> [Colors -> Seq(Nat)]]]
  BY <1>2 DEF VcTypeOK
<1>4. ASSUME NEW q \in PE, NEW e \in Dir, NEW b \in Colors
      PROVE  /\ Len(outVc'[q][e][b]) <= Len(outVc[q][e][b])
             /\ \A v \in Range(outVc[q][e][b]) :
                   v # Head(vc) => v \in Range(outVc'[q][e][b])
  <2>1. Len(outVc[q][e][b]) \in Nat
    BY LenProperties DEF VcTypeOK
  <2>2. CASE q = p /\ e = d /\ b = c
    <3>1. outVc'[q][e][b] = Tail(vc)
      BY <2>2 DEF VcTypeOK
    <3>2. QED
      BY <1>2, <2>1, <2>2, <3>1
  <2>3. CASE ~(q = p /\ e = d /\ b = c)
    <3>1. outVc'[q][e][b] = outVc[q][e][b]
      BY <2>3 DEF VcTypeOK
    <3>2. QED
      BY <2>1, <3>1
  <2>4. QED
    BY <2>2, <2>3
<1>5. QED
  BY <1>3, <1>4

\* A hop: the wavelet leaves the output VC and enters an input VC with room.
LEMMA DeliverIInv ==
    ASSUME IInv, Deliver
    PROVE  IInv'
<1>1. PICK p \in PE, d \in Dir, c \in Colors, q \in PE :
         /\ outVc[p][d][c] # <<>>
         /\ Len(inVc[q][c]) < kVcDepth
         /\ inVc' = [inVc EXCEPT ![q][c] = Append(inVc[q][c], Head(outVc[p][d][c]))]
         /\ outVc' = [outVc EXCEPT ![p][d][c] = Tail(@)]
         /\ UNCHANGED <<config, dropped, sent, got, fell, born>>
  BY DEF Deliver, InBounds, histVars
<1> DEFINE vc == outVc[p][d][c]
<1>2. VcTypeOK /\ vc \in Seq(Nat) /\ inVc[q][c] \in Seq(Nat)
  BY <1>1 DEF IInv, TypeOK, VcTypeOK
<1>3. /\ Head(vc) \in Nat
      /\ Append(inVc[q][c], Head(vc)) \in Seq(Nat)
      /\ Len(Append(inVc[q][c], Head(vc))) = Len(inVc[q][c]) + 1
      /\ Len(inVc[q][c]) \in Nat
      /\ Range(Append(inVc[q][c], Head(vc))) = Range(inVc[q][c]) \cup {Head(vc)}
  BY <1>1, <1>2, PopVc, AppendVc, LenProperties
<1>pop. /\ outVc' \in [PE -> [Dir -> [Colors -> Seq(Nat)]]]
        /\ \A r \in PE, e \in Dir, b \in Colors :
              /\ Len(outVc'[r][e][b]) <= Len(outVc[r][e][b])
              /\ \A v \in Range(outVc[r][e][b]) :
                    v # Head(vc) => v \in Range(outVc'[r][e][b])
  BY <1>1, <1>2, PopOutputVc
<1>4. TypeOK'
  <2>1. outVc' \in [PE -> [Dir -> [Colors -> Seq(Nat)]]]
    BY <1>pop
  <2>2. inVc' \in [PE -> [Colors -> Seq(Nat)]]
    BY <1>1, <1>3 DEF IInv, TypeOK
  <2>3. QED
    BY <1>1, <2>1, <2>2 DEF IInv, TypeOK
<1>5. VcBounded'
  <2>1. ASSUME NEW r \in PE, NEW b \in Colors
        PROVE  Len(inVc'[r][b]) <= kVcDepth
    BY <1>1, <1>3, FabricAssumption DEF IInv, TypeOK, VcBounded
  <2>2. ASSUME NEW r \in PE, NEW b \in Colors, NEW e \in Dir
        PROVE  Len(outVc'[r][e][b]) <= kVcDepth
    <3>1. Len(outVc'[r][e][b]) <= Len(outVc[r][e][b])
      BY <1>pop
    <3>2. Len(outVc[r][e][b]) \in Nat /\ Len(outVc'[r][e][b]) \in Nat
      BY <1>2, <1>4, LenProperties DEF VcTypeOK, TypeOK
    <3>3. QED
      BY <3>1, <3>2, FabricAssumption DEF IInv, VcBounded
  <2>3. QED
    BY <2>1, <2>2 DEF VcBounded
<1>6. NothingVanishes'
  <2>1. SUFFICES ASSUME NEW v \in 1..Len(sent)
                 PROVE  InFlight(v)' \/ WasRead(v)' \/ v \in fell'
    BY <1>1 DEF NothingVanishes
  <2>2. InFlight(v) \/ WasRead(v) \/ v \in fell
    BY DEF IInv, NothingVanishes
  <2>3. inVc'[q][c] = Append(inVc[q][c], Head(vc))
    BY <1>1 DEF IInv, TypeOK
  <2>4. ASSUME NEW r \in PE, NEW b \in Colors
        PROVE  Range(inVc[r][b]) \subseteq Range(inVc'[r][b])
    <3>1. CASE r = q /\ b = c
      BY <1>3, <2>3, <3>1
    <3>2. CASE ~(r = q /\ b = c)
      BY <1>1, <3>2 DEF IInv, TypeOK
    <3>3. QED
      BY <3>1, <3>2
  <2>5. CASE v = Head(vc)
    BY <1>1, <1>3, <2>3, <2>5 DEF InFlight
  <2>6. CASE v # Head(vc)
    <3>1. ASSUME NEW r \in PE, NEW b \in Colors, NEW e \in Dir,
                 v \in Range(outVc[r][e][b])
          PROVE  v \in Range(outVc'[r][e][b])
      BY <2>6, <3>1, <1>pop
    <3>2. InFlight(v) => InFlight(v)'
      BY <2>4, <3>1 DEF InFlight
    <3>3. QED
      BY <1>1, <2>2, <3>2 DEF WasRead
  <2>7. QED
    BY <2>5, <2>6
<1>7. QED
  BY <1>4, <1>5, <1>6 DEF IInv

\* A hop over the edge of the mesh is accounted for.
LEMMA DropOffGridIInv ==
    ASSUME IInv, DropOffGrid
    PROVE  IInv'
<1>1. PICK p \in PE, d \in Dir, c \in Colors :
         /\ outVc[p][d][c] # <<>>
         /\ outVc' = [outVc EXCEPT ![p][d][c] = Tail(@)]
         /\ dropped' = dropped + 1
         /\ fell' = fell \cup {Head(outVc[p][d][c])}
         /\ UNCHANGED <<inVc, config, sent, got, born>>
  BY DEF DropOffGrid, InBounds
<1> DEFINE vc == outVc[p][d][c]
<1>2. VcTypeOK /\ vc \in Seq(Nat)
  BY <1>1 DEF IInv, TypeOK, VcTypeOK
<1>3. Head(vc) \in Nat
  BY <1>1, <1>2, PopVc
<1>pop. /\ outVc' \in [PE -> [Dir -> [Colors -> Seq(Nat)]]]
        /\ \A r \in PE, e \in Dir, b \in Colors :
              /\ Len(outVc'[r][e][b]) <= Len(outVc[r][e][b])
              /\ \A v \in Range(outVc[r][e][b]) :
                    v # Head(vc) => v \in Range(outVc'[r][e][b])
  BY <1>1, <1>2, PopOutputVc
<1>4. TypeOK'
  <2>1. outVc' \in [PE -> [Dir -> [Colors -> Seq(Nat)]]]
    BY <1>pop
  <2>2. dropped' \in Nat
    BY <1>1 DEF IInv, TypeOK
  <2>3. fell' \subseteq Nat
    BY <1>1, <1>3 DEF IInv, TypeOK
  <2>4. QED
    BY <1>1, <2>1, <2>2, <2>3 DEF IInv, TypeOK
<1>5. VcBounded'
  <2>1. ASSUME NEW r \in PE, NEW b \in Colors, NEW e \in Dir
        PROVE  Len(outVc'[r][e][b]) <= kVcDepth
    <3>1. Len(outVc'[r][e][b]) <= Len(outVc[r][e][b])
      BY <1>pop
    <3>2. Len(outVc[r][e][b]) \in Nat /\ Len(outVc'[r][e][b]) \in Nat
      BY <1>2, <1>4, LenProperties DEF VcTypeOK, TypeOK
    <3>3. QED
      BY <3>1, <3>2, FabricAssumption DEF IInv, VcBounded
  <2>2. QED
    BY <1>1, <2>1 DEF IInv, VcBounded
<1>6. NothingVanishes'
  <2>1. SUFFICES ASSUME NEW v \in 1..Len(sent), v # Head(vc)
                 PROVE  InFlight(v)' \/ WasRead(v)' \/ v \in fell'
    BY <1>1 DEF NothingVanishes
  <2>2. InFlight(v) \/ WasRead(v) \/ v \in fell
    BY DEF IInv, NothingVanishes
  <2>3. ASSUME NEW r \in PE, NEW b \in Colors, NEW e \in Dir,
               v \in Range(outVc[r][e][b])
        PROVE  v \in Range(outVc'[r][e][b])
    BY <2>1, <2>3, <1>pop
  <2>4. InFlight(v) => InFlight(v)'
    BY <1>1, <2>3 DEF InFlight
  <2>5. QED
    BY <1>1, <2>2, <2>4 DEF WasRead
<1>7. QED
  BY <1>4, <1>5, <1>6 DEF IInv

\* The loop control actions move no wavelet.
LEMMA ControlIInv ==
    ASSUME IInv, UNCHANGED vars
    PROVE  IInv'
  BY DEF vars, fabricVars, histVars, IInv, TypeOK, VcBounded, NothingVanishes,
         InFlight, WasRead

\* Every operation and every loop iteration preserves the invariant.
LEMMA NextIInv == IInv /\ [LoopNext]_<<vars, loopVars>> => IInv'
<1> SUFFICES ASSUME IInv, [LoopNext]_<<vars, loopVars>>
             PROVE  IInv'
  OBVIOUS
<1>1. CASE UNCHANGED vars
  BY <1>1, ControlIInv
<1>2. CASE BetweenCycles
  <2>1. ASSUME NEW r \in Routes, SetRoute(r[1], r[2], r[3], r[4])
        PROVE  IInv'
    BY <2>1, SetRouteIInv
  <2>2. ASSUME NEW i \in Injections, Inject(i[1], i[2], i[3])
        PROVE  IInv'
    BY <2>2, InjectIInv
  <2>3. ASSUME NEW p \in PE, NEW c \in Colors, Fabout(p, c)
        PROVE  IInv'
    BY <2>3, FaboutIInv
  <2>4. QED
    BY <1>2, <2>1, <2>2, <2>3 DEF BetweenCycles
<1>3. CASE Forward
  BY <1>3, ForwardIInv
<1>4. CASE Deliver
  BY <1>4, DeliverIInv
<1>5. CASE DropOffGrid
  BY <1>5, DropOffGridIInv
<1>6. BeginStep \/ ForwardDone \/ BeginHops \/ NextMove \/ EndStep => UNCHANGED vars
  BY DEF BeginStep, ForwardDone, BeginHops, NextMove, EndStep
<1>7. QED
  BY <1>1, <1>2, <1>3, <1>4, <1>5, <1>6 DEF LoopNext, StepLoop, vars

\* The invariant holds in every reachable state of the loops.
LEMMA SpecIInv == LoopSpec => []IInv
  BY InitIInv, NextIInv, PTL DEF LoopSpec

\* Every operation and every loop iteration of the fabric preserves the types.
THEOREM TypeCorrect == LoopSpec => []TypeOK
<1>1. IInv => TypeOK
  BY DEF IInv
<1>2. QED
  BY <1>1, SpecIInv, PTL

\* For every mesh and every depth, no VC holds more than kVcDepth wavelets, not
\* even in the middle of Grid::Step.
THEOREM VcsAreBounded == LoopSpec => []VcBounded
<1>1. IInv => VcBounded
  BY DEF IInv
<1>2. QED
  BY <1>1, SpecIInv, PTL

\* For every mesh, route configuration and sequence of operations, no accepted
\* wavelet is lost inside the fabric.
THEOREM FabricIsLossless == LoopSpec => []NothingVanishes
<1>1. IInv => NothingVanishes
  BY DEF IInv
<1>2. QED
  BY <1>1, SpecIInv, PTL

-----------------------------------------------------------------------------
(* Conservation: the sums over the VCs. *)

InVcs == PE \X Colors
OutVcs == PE \X Dir \X Colors

InLens == [m \in InVcs |-> Len(inVc[m[1]][m[2]])]
OutLens == [m \in OutVcs |-> Len(outVc[m[1]][m[2]][m[3]])]
GotLens == [m \in InVcs |-> Len(got[m[1]][m[2]])]

\* The books: copies made, and where they are.
Balanced ==
    born = Total(InVcs, InLens) + Total(OutVcs, OutLens) + Total(InVcs, GotLens) + dropped

\* A sum over a set is the total of its terms.
LEMMA SumIsTotal ==
    ASSUME NEW S, NEW g \in [S -> Int]
    PROVE  SumFunction(g) = Total(S, g)
<1>1. DOMAIN g = S
  OBVIOUS
<1> QED BY <1>1 DEF SumFunction, SumFunctionOnSet, FoldFunctionOnSet, MapThenFoldSet,
                    Total, TotalOf, IsTotal, OneOf

LensTyped ==
    /\ InLens \in [InVcs -> Int] /\ OutLens \in [OutVcs -> Int]
    /\ GotLens \in [InVcs -> Int]

LEMMA LensType == TypeOK => LensTyped
<1> SUFFICES ASSUME TypeOK PROVE LensTyped
  OBVIOUS
<1>1. \A m \in InVcs : inVc[m[1]][m[2]] \in Seq(Nat) /\ got[m[1]][m[2]] \in Seq(Nat)
  BY DEF TypeOK, InVcs
<1>2. \A m \in OutVcs : outVc[m[1]][m[2]][m[3]] \in Seq(Nat)
  BY DEF TypeOK, OutVcs
<1> QED BY <1>1, <1>2, LenProperties DEF InLens, OutLens, GotLens, LensTyped

LEMMA ConservedIsBalanced == TypeOK => (Conserved <=> Balanced)
<1> SUFFICES ASSUME TypeOK PROVE Conserved <=> Balanced
  OBVIOUS
<1>1. /\ Buffered = SumFunction(InLens) + SumFunction(OutLens)
      /\ Read = SumFunction(GotLens)
  BY DEF Buffered, Read, SumOver, InLens, OutLens, GotLens, InVcs, OutVcs
<1>2. /\ SumFunction(InLens) = Total(InVcs, InLens)
      /\ SumFunction(OutLens) = Total(OutVcs, OutLens)
      /\ SumFunction(GotLens) = Total(InVcs, GotLens)
  BY LensType, SumIsTotal DEF LensTyped
<1> QED BY <1>1, <1>2 DEF Conserved, Balanced

\* A mesh has finitely many VCs.
LEMMA VcsAreFinite == IsFiniteSet(InVcs) /\ IsFiniteSet(OutVcs)
<1> DEFINE T == (PE \X Dir) \X Colors
           f == [t \in T |-> <<t[1][1], t[1][2], t[2]>>]
<1>1. IsFiniteSet(PE)
  <2>1. IsFiniteSet(0..Width - 1) /\ IsFiniteSet(0..Height - 1)
    BY FS_Interval, FabricAssumption
  <2> QED BY <2>1, FS_Product DEF PE
<1>2. IsFiniteSet(Dir)
  <2>1. IsFiniteSet({"Ramp"} \cup {"East"} \cup {"West"} \cup {"North"} \cup {"South"})
    BY FS_Singleton, FS_Union
  <2>2. Dir = {"Ramp"} \cup {"East"} \cup {"West"} \cup {"North"} \cup {"South"}
    BY DEF Dir
  <2> QED BY <2>1, <2>2
<1>3. IsFiniteSet(InVcs) /\ IsFiniteSet(T)
  BY <1>1, <1>2, FS_Product, FabricAssumption DEF InVcs
<1>4. f \in Surjection(T, OutVcs)
  <2>1. \A a \in PE, d \in Dir, c \in Colors :
           <<<<a, d>>, c>> \in T /\ f[<<<<a, d>>, c>>] = <<a, d, c>>
    OBVIOUS
  <2>2. f \in [T -> OutVcs]
    BY DEF OutVcs
  <2>3. ASSUME NEW u \in OutVcs
        PROVE  \E t \in T : f[t] = u
    <3>1. PICK a \in PE, d \in Dir, c \in Colors : u = <<a, d, c>>
      BY DEF OutVcs
    <3> HIDE DEF T, f
    <3> QED BY <2>1, <3>1
  <2> HIDE DEF T, f
  <2> QED BY <2>2, <2>3 DEF Surjection
<1> HIDE DEF T, f
<1> QED BY <1>3, <1>4, FS_Surjection

-----------------------------------------------------------------------------
(* What one operation does to a sum. *)

LEMMA TotalsAreInts ==
    ASSUME TypeOK
    PROVE  /\ Total(InVcs, InLens) \in Int /\ Total(OutVcs, OutLens) \in Int
           /\ Total(InVcs, GotLens) \in Int
<1>1. /\ TotalOf(InVcs, InLens) \in [SUBSET InVcs -> Int]
      /\ TotalOf(OutVcs, OutLens) \in [SUBSET OutVcs -> Int]
      /\ TotalOf(InVcs, GotLens) \in [SUBSET InVcs -> Int]
  BY LensType, VcsAreFinite, TotalStep DEF LensTyped
<1>2. InVcs \in SUBSET InVcs /\ OutVcs \in SUBSET OutVcs
  OBVIOUS
<1> QED BY <1>1, <1>2 DEF Total

\* The VCs are the same ones in every state.
LEMMA LensTypeNext == TypeOK' =>
    /\ InLens' \in [InVcs -> Int] /\ OutLens' \in [OutVcs -> Int]
    /\ GotLens' \in [InVcs -> Int]
<1>1. TypeOK' => LensTyped'
  BY LensType, PTL
<1> QED BY <1>1 DEF LensTyped, InVcs, OutVcs, PE, Dir

\* One VC's length changes, in one of the three sums.
LEMMA OneChange ==
    ASSUME NEW S, IsFiniteSet(S), NEW f \in [S -> Int], NEW g \in [S -> Int],
           NEW x \in S, NEW n, \A y \in S : y # x => f[y] = g[y], g[x] = f[x] + n, n \in Int
    PROVE  Total(S, f) \in Int /\ Total(S, g) = Total(S, f) + n
<1>1. \A y \in S \ {x} : f[y] = g[y]
  OBVIOUS
<1>2. /\ Total(S, f) \in Int /\ Total(S, g) \in Int
      /\ Total(S, g) = Total(S, f) + (g[x] - f[x])
  BY <1>1, TotalChange
<1>3. f[x] \in Int
  OBVIOUS
<1> QED BY <1>2, <1>3

\* Two maps that differ at x alone, where the second has n more.
MoreAt(S, f, g, x, n) ==
    /\ IsFiniteSet(S) /\ f \in [S -> Int] /\ g \in [S -> Int] /\ x \in S /\ n \in Int
    /\ \A y \in S : y # x => f[y] = g[y]
    /\ g[x] = f[x] + n

LEMMA MoreTotal ==
    ASSUME NEW S, NEW f, NEW g, NEW x, NEW n, MoreAt(S, f, g, x, n)
    PROVE  Total(S, f) \in Int /\ Total(S, g) = Total(S, f) + n
<1>1. /\ IsFiniteSet(S) /\ f \in [S -> Int] /\ g \in [S -> Int] /\ x \in S /\ n \in Int
      /\ \A y \in S : y # x => f[y] = g[y]
      /\ g[x] = f[x] + n
  BY DEF MoreAt
<1> QED BY <1>1, OneChange

\* One input VC changes, one reader reads, one output VC is popped.
LEMMA InChange ==
    ASSUME TypeOK, TypeOK', NEW p \in PE, NEW c \in Colors, NEW vc, NEW n \in Int,
           inVc' = [inVc EXCEPT ![p][c] = vc], Len(vc) = Len(inVc[p][c]) + n
    PROVE  Total(InVcs, InLens') = Total(InVcs, InLens) + n
<1> DEFINE f == InLens
           g == InLens'
           x == <<p, c>>
<1>1. f \in [InVcs -> Int] /\ g \in [InVcs -> Int]
  BY LensType, LensTypeNext DEF LensTyped
<1>2. x \in InVcs
  BY DEF InVcs
<1>3. g[x] = f[x] + n
  <2>1. f[x] = Len(inVc[p][c]) /\ g[x] = Len(vc)
    BY <1>2 DEF InLens, TypeOK, InVcs, PE
  <2> QED BY <2>1
<1>4. \A m \in InVcs : m # x => f[m] = g[m]
  <2> SUFFICES ASSUME NEW q \in PE, NEW b \in Colors, ~(q = p /\ b = c)
               PROVE  f[<<q, b>>] = g[<<q, b>>]
    BY DEF InVcs
  <2>1. inVc'[q][b] = inVc[q][b]
    BY DEF TypeOK
  <2> QED BY <2>1 DEF InLens, InVcs, PE
<1> HIDE DEF f, g, x
<1>5. Total(InVcs, g) = Total(InVcs, f) + n
  BY <1>1, <1>2, <1>3, <1>4, VcsAreFinite, OneChange
<1> QED BY <1>5 DEF f, g

LEMMA GotChange ==
    ASSUME TypeOK, TypeOK', NEW p \in PE, NEW c \in Colors, NEW w \in Nat,
           got' = [got EXCEPT ![p][c] = Append(got[p][c], w)]
    PROVE  Total(InVcs, GotLens') = Total(InVcs, GotLens) + 1
<1> DEFINE f == GotLens
           g == GotLens'
           x == <<p, c>>
<1>1. f \in [InVcs -> Int] /\ g \in [InVcs -> Int]
  BY LensType, LensTypeNext DEF LensTyped
<1>2. x \in InVcs
  BY DEF InVcs
<1>3. g[x] = f[x] + 1
  <2>1. /\ f[x] = Len(got[p][c]) /\ g[x] = Len(Append(got[p][c], w))
        /\ got[p][c] \in Seq(Nat)
    BY <1>2 DEF GotLens, TypeOK, InVcs, PE
  <2> QED BY <2>1, AppendVc
<1>4. \A m \in InVcs : m # x => f[m] = g[m]
  <2> SUFFICES ASSUME NEW q \in PE, NEW b \in Colors, ~(q = p /\ b = c)
               PROVE  f[<<q, b>>] = g[<<q, b>>]
    BY DEF InVcs
  <2>1. got'[q][b] = got[q][b]
    BY DEF TypeOK
  <2> QED BY <2>1 DEF GotLens, InVcs, PE
<1> HIDE DEF f, g, x
<1>5. Total(InVcs, g) = Total(InVcs, f) + 1
  <2>1. 1 \in Int
    OBVIOUS
  <2> QED BY <1>1, <1>2, <1>3, <1>4, <2>1, VcsAreFinite, OneChange
<1> QED BY <1>5 DEF f, g

LEMMA OutPopped ==
    ASSUME TypeOK, TypeOK', NEW p \in PE, NEW d \in Dir, NEW c \in Colors,
           outVc[p][d][c] # <<>>,
           outVc' = [outVc EXCEPT ![p][d][c] = Tail(@)]
    PROVE  Total(OutVcs, OutLens') = Total(OutVcs, OutLens) - 1
<1> DEFINE f == OutLens
           g == OutLens'
           x == <<p, d, c>>
<1>1. f \in [OutVcs -> Int] /\ g \in [OutVcs -> Int]
  BY LensType, LensTypeNext DEF LensTyped
<1>2. x \in OutVcs
  BY DEF OutVcs
<1>3. g[x] = f[x] + (-1)
  <2>1. /\ f[x] = Len(outVc[p][d][c]) /\ g[x] = Len(Tail(outVc[p][d][c]))
        /\ outVc[p][d][c] \in Seq(Nat)
    BY <1>2, SMTT(30) DEF OutLens, TypeOK, OutVcs, PE, Dir
  <2> QED BY <2>1, PopVc, LenProperties
<1>4. \A m \in OutVcs : m # x => f[m] = g[m]
  <2> SUFFICES ASSUME NEW q \in PE, NEW e \in Dir, NEW b \in Colors, ~(q = p /\ e = d /\ b = c)
               PROVE  f[<<q, e, b>>] = g[<<q, e, b>>]
    BY DEF OutVcs
  <2>1. outVc'[q][e][b] = outVc[q][e][b]
    BY DEF TypeOK
  <2> QED BY <2>1 DEF OutLens, OutVcs, PE, Dir
<1> HIDE DEF f, g, x
<1>5. Total(OutVcs, f) \in Int /\ Total(OutVcs, g) = Total(OutVcs, f) + (-1)
  <2>1. -1 \in Int
    OBVIOUS
  <2> QED BY <1>1, <1>2, <1>3, <1>4, <2>1, VcsAreFinite, OneChange
<1> QED BY <1>5 DEF f, g

\* A wavelet is pushed on a set of output VCs: as many copies as directions.
LEMMA OutPushed ==
    ASSUME TypeOK, TypeOK', NEW p \in PE, NEW c \in Colors, NEW dirs \in SUBSET Dir,
           NEW w \in Nat, outVc' = PushAll(p, c, dirs, w)
    PROVE  /\ Total(OutVcs, OutLens') = Total(OutVcs, OutLens) + Cardinality(dirs)
           /\ Cardinality(dirs) \in Nat
<1> DEFINE f == OutLens
           g == OutLens'
           X == {<<p, d, c>> : d \in dirs}
           h == [d \in dirs |-> <<p, d, c>>]
<1>1. f \in [OutVcs -> Int] /\ g \in [OutVcs -> Int]
  BY LensType, LensTypeNext DEF LensTyped
<1>2. X \in SUBSET OutVcs
  BY DEF OutVcs
<1>3. Cardinality(X) = Cardinality(dirs)
  <2>1. IsFiniteSet(Dir)
    <3>1. IsFiniteSet({"Ramp"} \cup {"East"} \cup {"West"} \cup {"North"} \cup {"South"})
      BY FS_Singleton, FS_Union
    <3>2. Dir = {"Ramp"} \cup {"East"} \cup {"West"} \cup {"North"} \cup {"South"}
      BY DEF Dir
    <3> QED BY <3>1, <3>2
  <2>2. IsFiniteSet(dirs)
    BY <2>1, FS_Subset
  <2>3. h \in Bijection(dirs, X)
    <3>1. h \in [dirs -> X]
      OBVIOUS
    <3>2. \A d, e \in dirs : h[d] = h[e] => d = e
      OBVIOUS
    <3>3. \A u \in X : \E d \in dirs : h[d] = u
      OBVIOUS
    <3> HIDE DEF h, X
    <3> QED BY <3>1, <3>2, <3>3 DEF Bijection, Injection, Surjection, IsInjective
  <2>4. ExistsBijection(dirs, X)
    BY <2>3 DEF ExistsBijection
  <2> HIDE DEF X
  <2> QED BY <2>2, <2>4, FS_Bijection
<1>4. ASSUME NEW m \in OutVcs
      PROVE  g[m] = IF m \in X THEN f[m] + 1 ELSE f[m]
  <2>1. PICK q \in PE, e \in Dir, b \in Colors : m = <<q, e, b>>
    BY DEF OutVcs
  <2>2. /\ f[m] = Len(outVc[q][e][b]) /\ g[m] = Len(outVc'[q][e][b])
        /\ outVc[q][e][b] \in Seq(Nat)
    <3>1. f[<<q, e, b>>] = Len(outVc[q][e][b]) /\ g[<<q, e, b>>] = Len(outVc'[q][e][b])
      BY DEF OutLens, OutVcs, PE, Dir
    <3>2. outVc[q][e][b] \in Seq(Nat)
      BY DEF TypeOK
    <3> HIDE DEF f, g
    <3> QED BY <2>1, <3>1, <3>2
  <2>3. outVc'[q][e][b] = IF q = p /\ e \in dirs /\ b = c
                          THEN Append(outVc[q][e][b], w) ELSE outVc[q][e][b]
    BY DEF PushAll
  <2>4. m \in X <=> q = p /\ e \in dirs /\ b = c
    BY <2>1
  <2>5. Len(Append(outVc[q][e][b], w)) = Len(outVc[q][e][b]) + 1
    BY <2>2, AppendVc
  <2> HIDE DEF f, g, X
  <2>6. CASE m \in X
    BY <2>2, <2>3, <2>4, <2>5, <2>6
  <2>7. CASE m \notin X
    BY <2>2, <2>3, <2>4, <2>7
  <2> QED BY <2>6, <2>7
<1> HIDE DEF f, g, X
<1>5. Total(OutVcs, g) = Total(OutVcs, f) + Cardinality(X)
  BY <1>1, <1>2, <1>4, VcsAreFinite, TotalRaise
<1>6. Cardinality(dirs) \in Nat
  BY DirsAreFinite
<1> QED BY <1>3, <1>5, <1>6 DEF f, g

-----------------------------------------------------------------------------
(* Each step balances the books. *)

\* The sums depend on nothing but the VCs.
LEMMA SameLens ==
    /\ inVc' = inVc => InLens' = InLens
    /\ outVc' = outVc => OutLens' = OutLens
    /\ got' = got => GotLens' = GotLens
BY DEF InLens, OutLens, GotLens, InVcs, OutVcs, PE, Dir

LEMMA BalancedNext == Balanced' <=>
    born' = Total(InVcs, InLens') + Total(OutVcs, OutLens') + Total(InVcs, GotLens') + dropped'
BY DEF Balanced, Total, TotalOf, IsTotal, InVcs, OutVcs, PE, Dir

LEMMA StepBalances ==
    ASSUME TypeOK, TypeOK', Balanced, [LoopNext]_<<vars, loopVars>>
    PROVE  Balanced'
<1> DEFINE i == Total(InVcs, InLens)
           o == Total(OutVcs, OutLens)
           g == Total(InVcs, GotLens)
           ii == Total(InVcs, InLens')
           oo == Total(OutVcs, OutLens')
           gg == Total(InVcs, GotLens')
<1>1. i \in Int /\ o \in Int /\ g \in Int /\ born \in Int /\ dropped \in Int
  BY TotalsAreInts DEF TypeOK
<1>2. born = i + o + g + dropped
  BY DEF Balanced
<1>3. /\ inVc' = inVc => ii = i
      /\ outVc' = outVc => oo = o
      /\ got' = got => gg = g
  BY SameLens
<1>4. SUFFICES born' = ii + oo + gg + dropped'
  BY BalancedNext
<1>5. CASE UNCHANGED <<inVc, outVc, got, born, dropped>>
  <2> HIDE DEF i, o, g, ii, oo, gg
  <2> QED BY <1>2, <1>3, <1>5
<1>6. ASSUME NEW p \in PE, NEW c \in Colors, NEW dirs \in SUBSET Dir,
             Inject(p, c, dirs)
      PROVE  born' = ii + oo + gg + dropped'
  <2>1. Len(sent) + 1 \in Nat
    BY LenProperties DEF TypeOK
  <2>2. /\ outVc' = PushAll(p, c, dirs, Len(sent) + 1)
        /\ born' = born + Cardinality(dirs)
        /\ inVc' = inVc /\ got' = got /\ dropped' = dropped
    BY <1>6 DEF Inject
  <2>3. oo = o + Cardinality(dirs) /\ Cardinality(dirs) \in Nat
    BY <2>1, <2>2, OutPushed
  <2> HIDE DEF i, o, g, ii, oo, gg
  <2> QED BY <1>1, <1>2, <1>3, <2>2, <2>3
<1>7. ASSUME NEW p \in PE, NEW c \in Colors, Fabout(p, c)
      PROVE  born' = ii + oo + gg + dropped'
  <2>1. /\ inVc[p][c] # <<>> /\ inVc[p][c] \in Seq(Nat)
        /\ inVc' = [inVc EXCEPT ![p][c] = Tail(inVc[p][c])]
        /\ got' = [got EXCEPT ![p][c] = Append(got[p][c], Head(inVc[p][c]))]
        /\ UNCHANGED <<outVc, born, dropped>>
    BY <1>7 DEF Fabout, TypeOK
  <2>2. /\ Len(Tail(inVc[p][c])) = Len(inVc[p][c]) + (-1) /\ -1 \in Int
        /\ Head(inVc[p][c]) \in Nat
    BY <2>1, PopVc, LenProperties
  <2>3. ii = i + (-1)
    BY <2>1, <2>2, InChange
  <2>4. gg = g + 1
    BY <2>1, <2>2, GotChange
  <2> HIDE DEF i, o, g, ii, oo, gg
  <2> QED BY <1>1, <1>2, <1>3, <2>1, <2>3, <2>4
<1>8. CASE Forward
  <2> DEFINE p == Head(todo).pe
             c == Head(todo).color
             tx == FwdDirs(p, c)
  <2>1. /\ p \in PE /\ c \in Colors /\ inVc[p][c] # <<>>
        /\ inVc' = [inVc EXCEPT ![p][c] = Tail(inVc[p][c])]
        /\ outVc' = PushAll(p, c, tx, Head(inVc[p][c]))
        /\ born' = born + Cardinality(tx) - 1
        /\ got' = got /\ dropped' = dropped
    BY <1>8 DEF Forward, InBounds
  <2>2. tx \in SUBSET Dir
    BY <2>1, FwdDirsType
  <2> HIDE DEF p, c, tx
  <2>3. inVc[p][c] \in Seq(Nat)
    BY <2>1 DEF TypeOK
  <2>4. /\ Len(Tail(inVc[p][c])) = Len(inVc[p][c]) + (-1) /\ -1 \in Int
        /\ Head(inVc[p][c]) \in Nat
    BY <2>1, <2>3, PopVc, LenProperties
  <2>5. ii = i + (-1)
    BY <2>1, <2>4, InChange
  <2>6. oo = o + Cardinality(tx) /\ Cardinality(tx) \in Nat
    BY <2>1, <2>2, <2>4, OutPushed
  <2> HIDE DEF i, o, g, ii, oo, gg
  <2> QED BY <1>1, <1>2, <1>3, <2>1, <2>5, <2>6
<1>9. CASE Deliver
  <2>1. PICK p \in PE, d \in Dir, c \in Colors, q \in PE :
           /\ outVc[p][d][c] # <<>>
           /\ inVc' = [inVc EXCEPT ![q][c] = Append(inVc[q][c], Head(outVc[p][d][c]))]
           /\ outVc' = [outVc EXCEPT ![p][d][c] = Tail(@)]
           /\ born' = born /\ got' = got /\ dropped' = dropped
    BY <1>9, Zenon DEF Deliver, InBounds, histVars
  <2>2. outVc[p][d][c] \in Seq(Nat) /\ inVc[q][c] \in Seq(Nat)
    BY DEF TypeOK
  <2>3. PICK new : new = Append(inVc[q][c], Head(outVc[p][d][c]))
    OBVIOUS
  <2>4. ii = i + 1
    <3>1. 1 \in Int /\ Len(new) = Len(inVc[q][c]) + 1
      <4>1. PICK w \in Nat : w = Head(outVc[p][d][c])
        BY <2>1, <2>2, PopVc
      <4>2. Len(Append(inVc[q][c], w)) = Len(inVc[q][c]) + 1
        BY <2>2, AppendVc
      <4> QED BY <2>3, <4>1, <4>2
    <3>2. inVc' = [inVc EXCEPT ![q][c] = new]
      BY <2>1, <2>3
    <3>3. Total(InVcs, InLens') = Total(InVcs, InLens) + 1
      BY <3>1, <3>2, InChange
    <3> QED BY <3>3
  <2>5. oo = o - 1
    BY <2>1, OutPopped, Zenon
  <2>6. born' = born /\ dropped' = dropped /\ gg = g
    BY <1>3, <2>1, Zenon
  <2> HIDE DEF i, o, g, ii, oo, gg
  <2> QED BY <1>1, <1>2, <2>4, <2>5, <2>6
<1>10. CASE DropOffGrid
  <2> DEFINE m == Head(todo)
  <2>1. /\ m.pe \in PE /\ m.dir \in Dir /\ m.color \in Colors
        /\ outVc[m.pe][m.dir][m.color] # <<>>
        /\ outVc' = [outVc EXCEPT ![m.pe][m.dir][m.color] = Tail(@)]
        /\ dropped' = dropped + 1
        /\ inVc' = inVc /\ born' = born /\ got' = got
    BY <1>10 DEF DropOffGrid, InBounds
  <2>2. oo = o - 1
    BY <2>1, OutPopped
  <2> HIDE DEF i, o, g, ii, oo, gg
  <2> QED BY <1>1, <1>2, <1>3, <2>1, <2>2
<1>11. CASE BeginStep \/ ForwardDone \/ BeginHops \/ NextMove \/ EndStep
            \/ UNCHANGED <<vars, loopVars>>
  <2>1. UNCHANGED <<inVc, outVc, got, born, dropped>>
    BY <1>11 DEF BeginStep, ForwardDone, BeginHops, NextMove, EndStep, vars, fabricVars,
                 histVars
  <2> QED BY <1>5, <2>1
<1>12. CASE BetweenCycles
  <2>1. ASSUME NEW r \in Routes, SetRoute(r[1], r[2], r[3], r[4])
        PROVE  UNCHANGED <<inVc, outVc, got, born, dropped>>
    BY <2>1 DEF SetRoute, histVars
  <2>2. ASSUME NEW j \in Injections, Inject(j[1], j[2], j[3])
        PROVE  born' = ii + oo + gg + dropped'
    <3>1. j[1] \in PE /\ j[2] \in Colors /\ j[3] \in SUBSET Dir
      BY FabricAssumption
    <3> QED BY <1>6, <2>2, <3>1
  <2> QED BY <1>5, <1>7, <1>12, <2>1, <2>2 DEF BetweenCycles
<1> QED BY <1>8, <1>9, <1>10, <1>11, <1>12 DEF LoopNext, StepLoop

\* For every mesh, depth, route and client, every copy of a wavelet ever made is
\* in a VC, was read or was dropped and counted, at every moment of a cycle: a
\* stall or a merge neither loses nor doubles one (Router.h).
THEOREM CopiesAreConserved == LoopSpec => []Conserved
<1>1. LoopInit => Balanced
  <2> SUFFICES ASSUME LoopInit PROVE Balanced
    OBVIOUS
  <2>1. TypeOK
    BY InitIInv DEF IInv
  <2>2. /\ \A m \in InVcs : InLens[m] = 0 /\ GotLens[m] = 0
        /\ \A m \in OutVcs : OutLens[m] = 0
    BY DEF LoopInit, Init, InLens, GotLens, OutLens, InVcs, OutVcs
  <2>3. /\ Total(InVcs, InLens) = 0 /\ Total(InVcs, GotLens) = 0
        /\ Total(OutVcs, OutLens) = 0
    BY <2>1, <2>2, LensType, VcsAreFinite, TotalZero DEF LensTyped
  <2> QED BY <2>3 DEF Balanced, LoopInit, Init
<1>2. IInv /\ IInv' /\ Balanced /\ [LoopNext]_<<vars, loopVars>> => Balanced'
  BY StepBalances DEF IInv
<1>3. IInv /\ Balanced => Conserved
  BY ConservedIsBalanced DEF IInv
<1> QED BY <1>1, <1>2, <1>3, SpecIInv, PTL DEF LoopSpec

-----------------------------------------------------------------------------
(* The state within a cycle, seen from x, the state that it began with, as  *)
(* the history variable start has it.                                       *)

InVcsType == [PE -> [Colors -> Seq(Nat)]]
OutVcsType == [PE -> [Dir -> [Colors -> Seq(Nat)]]]

Tx(x, p, c) == IF x[3][p][c].has THEN x[3][p][c].tx ELSE {}

Begun(x) ==
    /\ x[1] \in InVcsType /\ x[2] \in OutVcsType
    /\ \A p \in PE, c \in Colors : Tx(x, p, c) \in SUBSET Dir /\ Len(x[1][p][c]) <= kVcDepth
    /\ x[4] \in Int /\ x[6] \in Int

\* Phase 1: the first n[<<p, c>>] wavelets of every input VC were forwarded.
ForwardedAt(x, n, ins, outs, p, c) ==
    /\ n[<<p, c>>] <= Len(x[1][p][c])
    /\ Tx(x, p, c) = {} => n[<<p, c>>] = 0
    /\ ins[p][c] = SubSeq(x[1][p][c], n[<<p, c>>] + 1, Len(x[1][p][c]))
    /\ \A d \in Dir :
          outs[p][d][c] = IF d \in Tx(x, p, c)
                          THEN x[2][p][d][c] \o SubSeq(x[1][p][c], 1, n[<<p, c>>])
                          ELSE x[2][p][d][c]
Forwarded(x, n, ins, outs) ==
    \A p \in PE, c \in Colors : ForwardedAt(x, n, ins, outs, p, c)

\* The copies a multicast makes, one less than it has directions.
Copies(x, n) == [m \in InVcs |-> n[m] * (Cardinality(Tx(x, m[1], m[2])) - 1)]

\* An input VC of which no more can be forwarded.
Stalled(x, ins, outs, p, c) ==
    \/ Tx(x, p, c) = {}
    \/ ins[p][c] = <<>>
    \/ \E d \in Tx(x, p, c) : ~(Len(outs[p][d][c]) < kVcDepth)

IsAt(m, p, c) == m.pe = p /\ m.color = c

\* The input VCs that the loop need not visit any more are stalled.
FwdTodo(x, ins, outs, s) ==
    /\ IsSeq(s)
    /\ \A p \in PE, c \in Colors :
          (\A i \in 1..Len(s) : ~IsAt(s[i], p, c)) => Stalled(x, ins, outs, p, c)

InFwdPhase ==
    /\ Begun(start) /\ config = start[3] /\ dropped = start[4] /\ fell = start[5]
    /\ FwdTodo(start, inVc, outVc, todo)
    /\ \E n \in [InVcs -> Nat] :
          /\ Forwarded(start, n, inVc, outVc)
          /\ born = start[6] + Total(InVcs, Copies(start, n))

\* All of phase 1, which leaves I and O in the VCs.
AllForwarded(x, n, I, O) ==
    /\ I \in InVcsType /\ O \in OutVcsType
    /\ Forwarded(x, n, I, O)
    /\ \A p \in PE, c \in Colors :
          /\ Stalled(x, I, O, p, c)
          /\ \A d \in Dir : Len(O[p][d][c]) <= kVcDepth

\* Phase 2: what was bound for p, and how much of it g says has been sent.
Bound(O, p, d, c) == IF From(p, d) \in PE THEN O[From(p, d)][d][c] ELSE <<>>
Queue(O, p, c) ==
    Bound(O, p, "North", c) \o Bound(O, p, "East", c) \o Bound(O, p, "Ramp", c)
        \o Bound(O, p, "West", c) \o Bound(O, p, "South", c)
SentTo(g, p, d, c) == IF From(p, d) \in PE THEN g[<<From(p, d), d, c>>] ELSE 0
Came(g, p, c) ==
    SentTo(g, p, "North", c) + SentTo(g, p, "East", c) + SentTo(g, p, "Ramp", c)
        + SentTo(g, p, "West", c) + SentTo(g, p, "South", c)

\* The first g[<<q, d, c>>] wavelets of every output VC have left it, those for p
\* came to p, and a link sent only when the ones before it had sent all.
Left(O, g, outs) ==
    \A q \in PE, d \in Dir, c \in Colors :
        /\ g[<<q, d, c>>] <= Len(O[q][d][c])
        /\ outs[q][d][c] = SubSeq(O[q][d][c], g[<<q, d, c>>] + 1, Len(O[q][d][c]))
Arrived(O, I, g, ins) ==
    \A p \in PE, c \in Colors :
        ins[p][c] = I[p][c] \o SubSeq(Queue(O, p, c), 1, Came(g, p, c))
InTurn(O, g) ==
    \A p \in PE, c \in Colors : \A d, e \in Dir :
        Rank(e) < Rank(d) /\ SentTo(g, p, d, c) > 0
            => SentTo(g, p, e, c) = Len(Bound(O, p, e, c))

GoneOff(g) == [m \in OffGrid |-> g[m]]
Fallen(O, g) == UNION {Range(SubSeq(O[m[1]][m[2]][m[3]], 1, g[m])) : m \in OffGrid}

\* The place of an output VC in the order in which the loops visit them.
Place(d) ==
    CASE d = "Ramp"  -> 0
      [] d = "East"  -> 1
      [] d = "West"  -> 2
      [] d = "North" -> 3
      [] d = "South" -> 4
Position(p, d, c) == ((p[2] * Width + p[1]) * 5 + Place(d)) * NumColors + c
MovePosition(m) == Position(m.pe, m.dir, m.color)

IsMove(m, outs) ==
    /\ m = [pe |-> m.pe, dir |-> m.dir, color |-> m.color, count |-> m.count]
    /\ InBounds(m)
    /\ m.count = Len(outs[m.pe][m.dir][m.color])

IsOf(m, q, d, c) == m.pe = q /\ m.dir = d /\ m.color = c

\* An output VC of which no more can be sent.
Through(ins, outs, q, d, c) ==
    \/ outs[q][d][c] = <<>>
    \/ Hop(q, d) \in PE /\ ~(Len(ins[Hop(q, d)][c]) < kVcDepth)

\* The moves left are in order, and what is not left to visit is through.
HopTodo(ins, outs, s) ==
    /\ IsSeq(s)
    /\ \A i \in 1..Len(s) : IsMove(s[i], outs)
    /\ \A i, j \in 1..Len(s) : i < j => MovePosition(s[i]) < MovePosition(s[j])
    /\ \A q \in PE, d \in Dir, c \in Colors :
          (\A i \in 1..Len(s) : ~IsOf(s[i], q, d, c)) => Through(ins, outs, q, d, c)

InHopPhase ==
    /\ Begun(start) /\ config = start[3]
    /\ HopTodo(inVc, outVc, todo)
    /\ \E n \in [InVcs -> Nat], g \in [OutVcs -> Nat], I \in InVcsType, O \in OutVcsType :
          /\ AllForwarded(start, n, I, O)
          /\ born = start[6] + Total(InVcs, Copies(start, n))
          /\ Left(O, g, outVc) /\ Arrived(O, I, g, inVc) /\ InTurn(O, g)
          /\ dropped = start[4] + Total(OffGrid, GoneOff(g))
          /\ fell = start[5] \cup Fallen(O, g)

CycleInv ==
    /\ phase \in {"idle", "fwd", "hop"}
    /\ phase = "fwd" => InFwdPhase
    /\ phase = "hop" => InHopPhase

-----------------------------------------------------------------------------
(* The order in which the loops visit the VCs. *)

LEMMA Ids ==
    /\ NumColors \in Nat /\ Colors = 0..NumColors - 1
    /\ \A c \in Colors : c \in 0..NumColors - 1 /\ NumColors \in Nat \ {0}
<1>1. NumColors \in Nat
  BY FabricAssumption, FS_CardinalityType DEF NumColors
<1> QED BY <1>1, ColorsAreIds

\* A PE and its number in row-major order.
PeNumber(p) == p[2] * Width + p[1]

LEMMA PeNumbers ==
    /\ \A p \in PE : PeNumber(p) \in 0..Width * Height - 1 /\ PeAt(PeNumber(p)) = p
    /\ \A k \in 0..Width * Height - 1 : PeAt(k) \in PE /\ PeNumber(PeAt(k)) = k
<1>1. Width \in Nat \ {0} /\ Height \in Nat \ {0} /\ Width * Height \in Nat
      /\ Height * Width = Width * Height
  BY FabricAssumption
<1>2. ASSUME NEW p \in PE
      PROVE  PeNumber(p) \in 0..Width * Height - 1 /\ PeAt(PeNumber(p)) = p
  <2>1. PICK x \in 0..Width - 1, y \in 0..Height - 1 : p = <<x, y>>
    BY DEF PE
  <2>2. y \in Nat /\ y < Height
    BY <1>1
  <2>3. /\ y * Width + x \in Nat /\ (y * Width + x) \div Width = y
        /\ (y * Width + x) % Width = x
        /\ \A n \in Nat : y < n => y * Width + x < n * Width
    BY <1>1, <2>2, Quotient
  <2>4. PeNumber(p) = y * Width + x
    BY <2>1 DEF PeNumber
  <2>5. PeNumber(p) \in Nat /\ PeNumber(p) < Width * Height
    BY <1>1, <2>2, <2>3, <2>4
  <2>6. PeAt(PeNumber(p)) = <<x, y>>
    BY <2>3, <2>4 DEF PeAt
  <2> QED BY <1>1, <2>1, <2>5, <2>6
<1>3. ASSUME NEW k \in 0..Width * Height - 1
      PROVE  PeAt(k) \in PE /\ PeNumber(PeAt(k)) = k
  <2>1. k \in Nat /\ k < Height * Width
    BY <1>1
  <2>2. PICK x, y : x = k % Width /\ y = k \div Width
    OBVIOUS
  <2>3. x \in 0..Width - 1 /\ y \in Nat /\ k = y * Width + x
    BY <1>1, <2>1, <2>2, Division
  <2>4. ~(Height <= y)
    <3>1. Height < y => Height * Width + Width <= y * Width
      BY <1>1, <2>3, Multiples
    <3>2. y * Width \in Nat
      BY <1>1, <2>3
    <3>3. Height = y => Height * Width = y * Width
      OBVIOUS
    <3> QED BY <1>1, <2>1, <2>3, <3>1, <3>2, <3>3
  <2>5. PeAt(k) = <<x, y>>
    BY <2>2 DEF PeAt
  <2>6. y \in 0..Height - 1
    BY <1>1, <2>3, <2>4
  <2> QED BY <2>3, <2>5, <2>6 DEF PE, PeNumber
<1> QED BY <1>2, <1>3

\* ApplyForwarding is called for every input VC.
LEMMA EveryInputVc ==
    /\ IsSeq(InputVcs)
    /\ \A p \in PE, c \in Colors : \E i \in 1..Len(InputVcs) : IsAt(InputVcs[i], p, c)
<1>1. Width * Height \in Nat /\ NumColors \in Nat
      /\ (Width * Height) * NumColors \in Nat
      /\ Width * Height * NumColors = (Width * Height) * NumColors
  <2>1. Width * Height \in Nat /\ NumColors \in Nat
    BY FabricAssumption, Ids
  <2> QED BY <2>1
<1>2. PICK n \in Nat : n = (Width * Height) * NumColors
  BY <1>1
<1>3. InputVcs = [i \in 1..n |->
          [pe |-> PeAt((i - 1) \div NumColors), dir |-> "Ramp", color |-> (i - 1) % NumColors]]
  BY <1>1, <1>2 DEF InputVcs
<1>4. IsSeq(InputVcs) /\ Len(InputVcs) = n
  <2>1. IsList(InputVcs, n)
    BY <1>3 DEF IsList
  <2> QED BY <2>1, ListIsSeq
<1>5. ASSUME NEW p \in PE, NEW c \in Colors
      PROVE  \E i \in 1..n : IsAt(InputVcs[i], p, c)
  <2>1. PICK k \in Nat : k = PeNumber(p) /\ k < Width * Height /\ PeAt(k) = p
    BY <1>1, PeNumbers
  <2>2. NumColors \in Nat \ {0} /\ c \in 0..NumColors - 1
    BY Ids
  <2>3. PICK x : x = k * NumColors + c
    OBVIOUS
  <2>4. x \in Nat /\ x \div NumColors = k /\ x % NumColors = c /\ x < n
    BY <1>1, <1>2, <2>1, <2>2, <2>3, Quotient
  <2>5. PICK i \in 1..n : i - 1 = x
    <3>1. x + 1 \in 1..n /\ (x + 1) - 1 = x
      BY <2>4
    <3> QED BY <3>1
  <2>6. InputVcs[i] = [pe |-> p, dir |-> "Ramp", color |-> c]
    BY <1>3, <2>1, <2>4, <2>5
  <2> QED BY <2>6 DEF IsAt
<1> QED BY <1>4, <1>5

\* The number of an output VC is made of its PE's, its direction's and its color.
LEMMA Digits ==
    ASSUME NEW n \in Nat \ {0}, NEW k \in Nat, NEW e \in 0..4, NEW c \in 0..n - 1
    PROVE  LET x == (k * 5 + e) * n + c
           IN  /\ x \in Nat
               /\ x \div (5 * n) = k /\ (x \div n) % 5 = e /\ x % n = c
               /\ \A m \in Nat : k < m => x < m * (5 * n)
<1>1. PICK a, r, x, y, b :
         /\ a = k * 5 + e /\ x = a * n + c /\ b = 5 * n
         /\ r = e * n + c /\ y = k * b + r
  OBVIOUS
<1>2. a \in Nat /\ a % 5 = e
  BY <1>1, Quotient
<1>3. x \in Nat /\ x \div n = a /\ x % n = c
  BY <1>1, <1>2, Quotient
<1>4. r \in Nat /\ r < 5 * n
  <2>1. e \in Nat /\ e < 5 /\ 5 \in Nat
    OBVIOUS
  <2> QED BY <1>1, <2>1, Quotient
<1>5. b \in Nat \ {0} /\ r \in 0..b - 1
  BY <1>1, <1>4
<1>6. y \in Nat /\ y \div b = k /\ \A m \in Nat : k < m => y < m * b
  BY <1>1, <1>5, Quotient
<1>7. x = y
  <2>1. (k * 5 + e) * n = k * (5 * n) + e * n
    OBVIOUS
  <2>2. k * (5 * n) \in Nat /\ e * n \in Nat
    OBVIOUS
  <2> QED BY <1>1, <2>1, <2>2
<1> QED BY <1>1, <1>2, <1>3, <1>6, <1>7

-----------------------------------------------------------------------------
(* Phase 1. *)

LEMMA CopiesType ==
    ASSUME NEW x, Begun(x), NEW n \in [InVcs -> Nat]
    PROVE  Copies(x, n) \in [InVcs -> Int] /\ Total(InVcs, Copies(x, n)) \in Int
<1>1. ASSUME NEW p \in PE, NEW c \in Colors
      PROVE  n[<<p, c>>] * (Cardinality(Tx(x, p, c)) - 1) \in Int
  <2>1. Cardinality(Tx(x, p, c)) \in Nat
    BY DirsAreFinite DEF Begun
  <2>2. n[<<p, c>>] \in Nat
    BY DEF InVcs
  <2> QED BY <2>1, <2>2
<1>2. \A m \in InVcs : n[m] * (Cardinality(Tx(x, m[1], m[2])) - 1) \in Int
  <2> SUFFICES ASSUME NEW p \in PE, NEW c \in Colors
               PROVE  n[<<p, c>>] * (Cardinality(Tx(x, p, c)) - 1) \in Int
    BY DEF InVcs
  <2> QED BY <1>1
<1>3. Copies(x, n) \in [InVcs -> Int]
  BY <1>2 DEF Copies
<1>4. TotalOf(InVcs, Copies(x, n)) \in [SUBSET InVcs -> Int]
  BY <1>3, VcsAreFinite, TotalStep
<1> QED BY <1>3, <1>4 DEF Total

\* Nothing has been forwarded when the cycle begins.
LEMMA NoneForwarded ==
    ASSUME NEW x, Begun(x)
    PROVE  \E n \in [InVcs -> Nat] :
              Forwarded(x, n, x[1], x[2]) /\ Total(InVcs, Copies(x, n)) = 0
<1>1. PICK n \in [InVcs -> Nat] : \A m \in InVcs : n[m] = 0
  <2>1. [m \in InVcs |-> 0] \in [InVcs -> Nat]
    OBVIOUS
  <2> QED BY <2>1
<1>2. ASSUME NEW p \in PE, NEW c \in Colors
      PROVE  /\ n[<<p, c>>] = 0
             /\ x[1][p][c] \in Seq(Nat) /\ Len(x[1][p][c]) \in Nat
             /\ x[1][p][c] = SubSeq(x[1][p][c], n[<<p, c>>] + 1, Len(x[1][p][c]))
             /\ \A d \in Dir : x[2][p][d][c] = x[2][p][d][c] \o SubSeq(x[1][p][c], 1, n[<<p, c>>])
  <2>1. n[<<p, c>>] = 0
    BY <1>1 DEF InVcs
  <2>2. x[1][p][c] \in Seq(Nat) /\ \A d \in Dir : x[2][p][d][c] \in Seq(Nat)
    BY DEF Begun, InVcsType, OutVcsType
  <2>3. PICK s \in Seq(Nat) : s = x[1][p][c]
    BY <2>2
  <2>4. s = SubSeq(s, 1, Len(s)) /\ 0 + 1 = 1 /\ Len(s) \in Nat /\ 0 \in Nat /\ 0 <= Len(s)
    OBVIOUS
  <2>5. \A d \in Dir : x[2][p][d][c] = x[2][p][d][c] \o SubSeq(s, 1, 0)
    BY <2>2, <2>4, PrefixGrows
  <2> QED BY <2>1, <2>3, <2>4, <2>5
<1>3. Forwarded(x, n, x[1], x[2])
  <2> SUFFICES ASSUME NEW p \in PE, NEW c \in Colors
               PROVE  ForwardedAt(x, n, x[1], x[2], p, c)
    BY DEF Forwarded
  <2>1. PICK k : k = n[<<p, c>>]
    OBVIOUS
  <2>2. k = 0 /\ Len(x[1][p][c]) \in Nat
    BY <1>2, <2>1
  <2>3. 0 <= Len(x[1][p][c])
    BY <2>2
  <2> QED BY <1>2, <2>1, <2>2, <2>3, Zenon DEF ForwardedAt
<1>4. \A m \in InVcs : Copies(x, n)[m] = 0
  <2> SUFFICES ASSUME NEW p \in PE, NEW c \in Colors
               PROVE  Copies(x, n)[<<p, c>>] = 0
    BY DEF InVcs
  <2>1. Cardinality(Tx(x, p, c)) \in Nat /\ n[<<p, c>>] = 0
    BY <1>1, DirsAreFinite DEF Begun, InVcs
  <2>2. Copies(x, n)[<<p, c>>] = n[<<p, c>>] * (Cardinality(Tx(x, p, c)) - 1)
    BY DEF Copies, InVcs
  <2> QED BY <2>1, <2>2
<1>5. Total(InVcs, Copies(x, n)) = 0
  BY <1>4, CopiesType, VcsAreFinite, TotalZero
<1> QED BY <1>3, <1>5

\* The VCs after a round of ApplyForwarding's loop.
PushedOn(outs, p, c, dirs, w) ==
    [q \in PE |-> [d \in Dir |-> [b \in Colors |->
        IF q = p /\ d \in dirs /\ b = c THEN Append(outs[q][d][b], w) ELSE outs[q][d][b]]]]

\* The VCs are those after one more wavelet than n says, from (p, c).
IsOneMore(x, n, ins, outs, p, c) ==
    \E m \in [InVcs -> Nat] :
        /\ Forwarded(x, m, ins, outs)
        /\ Total(InVcs, Copies(x, m))
              = Total(InVcs, Copies(x, n)) + (Cardinality(Tx(x, p, c)) - 1)
        /\ Total(InVcs, Copies(x, n)) \in Int /\ Cardinality(Tx(x, p, c)) \in Nat

LEMMA OneForwarded ==
    ASSUME NEW x, Begun(x), NEW n \in [InVcs -> Nat], NEW ins \in InVcsType,
           NEW outs, Forwarded(x, n, ins, outs),
           NEW p \in PE, NEW c \in Colors, ins[p][c] # <<>>, Tx(x, p, c) # {},
           NEW ins2, ins2 = [ins EXCEPT ![p][c] = Tail(ins[p][c])],
           NEW outs2, outs2 = PushedOn(outs, p, c, Tx(x, p, c), Head(ins[p][c]))
    PROVE  IsOneMore(x, n, ins2, outs2, p, c)
<1>1. PICK k \in Nat : k = n[<<p, c>>]
  BY DEF InVcs
<1>2. PICK m \in [InVcs -> Nat] :
         /\ m[<<p, c>>] = k + 1
         /\ \A q \in PE, b \in Colors : ~(q = p /\ b = c) => m[<<q, b>>] = n[<<q, b>>]
  <2> DEFINE m == [n EXCEPT ![<<p, c>>] = k + 1]
  <2>1. m \in [InVcs -> Nat] /\ <<p, c>> \in InVcs
    BY DEF InVcs
  <2>2. m[<<p, c>>] = k + 1
    BY <2>1
  <2>3. \A q \in PE, b \in Colors : ~(q = p /\ b = c) => m[<<q, b>>] = n[<<q, b>>]
    BY DEF InVcs
  <2> HIDE DEF m
  <2> QED BY <2>1, <2>2, <2>3
<1>3. PICK s \in Seq(Nat) : s = x[1][p][c] /\ ins[p][c] = SubSeq(s, k + 1, Len(s)) /\ k <= Len(s)
  <2>1. x[1][p][c] \in Seq(Nat)
    BY DEF Begun, InVcsType
  <2>2. ForwardedAt(x, n, ins, outs, p, c)
    BY DEF Forwarded
  <2> QED BY <1>1, <2>1, <2>2 DEF ForwardedAt
<1>4. /\ k < Len(s) /\ Len(s) \in Nat /\ Head(ins[p][c]) = s[k + 1]
      /\ Tail(ins[p][c]) = SubSeq(s, (k + 1) + 1, Len(s))
  <2>1. Len(s) \in Nat /\ (k + 1) + 1 = k + 2
    OBVIOUS
  <2>2. k = Len(s) => ins[p][c] = <<>>
    BY <1>3, FrontLeaves
  <2>3. k < Len(s)
    BY <1>3, <2>1, <2>2
  <2>4. /\ Head(SubSeq(s, k + 1, Len(s))) = s[k + 1]
        /\ Tail(SubSeq(s, k + 1, Len(s))) = SubSeq(s, k + 2, Len(s))
    BY <2>3, FrontLeaves
  <2> QED BY <1>3, <2>1, <2>3, <2>4
<1>5. ASSUME NEW d \in Dir
      PROVE  outs2[p][d][c] = IF d \in Tx(x, p, c)
                              THEN x[2][p][d][c] \o SubSeq(s, 1, k + 1) ELSE x[2][p][d][c]
  <2>1. outs2[p][d][c] = IF d \in Tx(x, p, c) THEN Append(outs[p][d][c], s[k + 1])
                         ELSE outs[p][d][c]
    BY <1>4 DEF PushedOn
  <2>2. outs[p][d][c] = IF d \in Tx(x, p, c) THEN x[2][p][d][c] \o SubSeq(s, 1, k)
                        ELSE x[2][p][d][c]
    BY <1>1, <1>3 DEF Forwarded, ForwardedAt
  <2>3. x[2][p][d][c] \in Seq(Nat)
    BY DEF Begun, OutVcsType
  <2>4. Append(x[2][p][d][c] \o SubSeq(s, 1, k), s[k + 1]) = x[2][p][d][c] \o SubSeq(s, 1, k + 1)
    <3>1. k <= Len(s) /\ k < Len(s)
      BY <1>3, <1>4
    <3>2. PICK a \in Seq(Nat) : a = x[2][p][d][c]
      BY <2>3
    <3>3. Append(a \o SubSeq(s, 1, k), s[k + 1]) = a \o SubSeq(s, 1, k + 1)
      BY <3>1, OneMoreComes
    <3> QED BY <3>2, <3>3
  <2> QED BY <2>1, <2>2, <2>4
<1>6. ins2[p][c] = SubSeq(s, (k + 1) + 1, Len(s))
  BY <1>4 DEF InVcsType
<1>7. ASSUME NEW q \in PE, NEW b \in Colors, ~(q = p /\ b = c)
      PROVE  ins2[q][b] = ins[q][b] /\ \A d \in Dir : outs2[q][d][b] = outs[q][d][b]
  BY <1>7 DEF InVcsType, PushedOn
<1>8. Forwarded(x, m, ins2, outs2)
  <2> SUFFICES ASSUME NEW q \in PE, NEW b \in Colors
               PROVE  ForwardedAt(x, m, ins2, outs2, q, b)
    BY DEF Forwarded
  <2>1. CASE q = p /\ b = c
    <3>1. m[<<p, c>>] = k + 1 /\ k + 1 <= Len(s)
      BY <1>2, <1>4
    <3>2. m[<<p, c>>] <= Len(x[1][p][c])
      BY <1>3, <3>1
    <3>3. ins2[p][c] = SubSeq(x[1][p][c], m[<<p, c>>] + 1, Len(x[1][p][c]))
      BY <1>3, <1>6, <3>1
    <3>4. \A d \in Dir : outs2[p][d][c] = IF d \in Tx(x, p, c)
                             THEN x[2][p][d][c] \o SubSeq(x[1][p][c], 1, m[<<p, c>>])
                             ELSE x[2][p][d][c]
      BY <1>3, <1>5, <3>1
    <3> QED BY <2>1, <3>2, <3>3, <3>4, Zenon DEF ForwardedAt
  <2>2. CASE ~(q = p /\ b = c)
    <3>1. m[<<q, b>>] = n[<<q, b>>]
      BY <1>2, <2>2
    <3>2. ForwardedAt(x, n, ins, outs, q, b)
      BY DEF Forwarded
    <3>3. ins2[q][b] = ins[q][b] /\ \A d \in Dir : outs2[q][d][b] = outs[q][d][b]
      BY <1>7, <2>2
    <3> QED BY <3>1, <3>2, <3>3 DEF ForwardedAt
  <2> QED BY <2>1, <2>2
<1>9. Cardinality(Tx(x, p, c)) \in Nat
  BY DirsAreFinite DEF Begun
<1>10. PICK i : i = Cardinality(Tx(x, p, c)) - 1
  OBVIOUS
<1>11. Copies(x, m)[<<p, c>>] = Copies(x, n)[<<p, c>>] + i
  <2>1. Copies(x, m)[<<p, c>>] = (k + 1) * i /\ Copies(x, n)[<<p, c>>] = k * i
    BY <1>1, <1>2, <1>10 DEF Copies, InVcs
  <2>2. i \in Int
    BY <1>9, <1>10
  <2> QED BY <2>1, <2>2
<1>12. ASSUME NEW y \in InVcs, y # <<p, c>>
       PROVE  Copies(x, n)[y] = Copies(x, m)[y]
  <2>1. PICK q \in PE, b \in Colors : y = <<q, b>>
    BY DEF InVcs
  <2>2. m[y] = n[y]
    BY <1>2, <1>12, <2>1
  <2> QED BY <2>2 DEF Copies
<1>13. /\ Total(InVcs, Copies(x, n)) \in Int
       /\ Total(InVcs, Copies(x, m)) = Total(InVcs, Copies(x, n)) + i
  <2>1. i \in Int /\ <<p, c>> \in InVcs
    BY <1>9, <1>10 DEF InVcs
  <2>2. Copies(x, n) \in [InVcs -> Int] /\ Copies(x, m) \in [InVcs -> Int]
    BY CopiesType
  <2> QED BY <1>11, <1>12, <2>1, <2>2, VcsAreFinite, OneChange
<1> QED BY <1>8, <1>9, <1>10, <1>13 DEF IsOneMore

LEMMA FwdPhaseNext ==
    ASSUME Begun(start'), config' = start'[3], dropped' = start'[4], fell' = start'[5],
           FwdTodo(start', inVc', outVc', todo'),
           \E n \in [InVcs -> Nat] :
              /\ Forwarded(start', n, inVc', outVc')
              /\ born' = start'[6] + Total(InVcs, Copies(start', n))
    PROVE  InFwdPhase'
BY DEF InFwdPhase

\* Grid::Step is called.
LEMMA BeginStepCycle ==
    ASSUME IInv, BeginStep
    PROVE  InFwdPhase'
<1>1. PICK x : x = <<inVc, outVc, config, dropped, fell, born>>
  OBVIOUS
<1>2. /\ start' = x /\ todo' = InputVcs /\ UNCHANGED vars
      /\ x[1] = inVc /\ x[2] = outVc /\ x[3] = config /\ x[4] = dropped /\ x[5] = fell
      /\ x[6] = born
  BY <1>1 DEF BeginStep
<1>3. /\ inVc' = x[1] /\ outVc' = x[2] /\ config' = x[3] /\ dropped' = x[4] /\ fell' = x[5]
      /\ born' = x[6]
  BY <1>2 DEF vars, fabricVars, histVars
<1>4. Begun(x)
  <2>1. \A p \in PE, c \in Colors : Tx(x, p, c) = FwdDirs(p, c)
    BY <1>2 DEF Tx, FwdDirs
  <2>2. \A p \in PE, c \in Colors : FwdDirs(p, c) \in SUBSET Dir
    BY FwdDirsType DEF IInv
  <2>3. \A p \in PE, c \in Colors : Len(inVc[p][c]) <= kVcDepth
    BY DEF IInv, VcBounded
  <2>4. inVc \in InVcsType /\ outVc \in OutVcsType /\ dropped \in Int /\ born \in Int
    BY DEF IInv, TypeOK, InVcsType, OutVcsType
  <2> QED BY <1>2, <2>1, <2>2, <2>3, <2>4 DEF Begun
<1>5. PICK n \in [InVcs -> Nat] : Forwarded(x, n, x[1], x[2]) /\ Total(InVcs, Copies(x, n)) = 0
  BY <1>4, NoneForwarded
<1>6. FwdTodo(x, inVc', outVc', InputVcs)
  BY EveryInputVc DEF FwdTodo
<1>7. born' = x[6] + Total(InVcs, Copies(x, n))
  BY <1>3, <1>4, <1>5 DEF Begun
<1> QED BY <1>2, <1>3, <1>4, <1>5, <1>6, <1>7, FwdPhaseNext

\* One round of ApplyForwarding's while loop.
LEMMA ForwardCycle ==
    ASSUME IInv, InFwdPhase, Forward
    PROVE  InFwdPhase'
<1>1. PICK x, p, c, ins, outs, s : /\ x = start /\ p = Head(todo).pe /\ c = Head(todo).color
                             /\ ins = inVc /\ outs = outVc /\ s = todo
  OBVIOUS
<1>2. /\ p \in PE /\ c \in Colors /\ s # <<>> /\ Begun(x) /\ ins \in InVcsType
      /\ x[3] = config
  BY <1>1 DEF Forward, InBounds, InFwdPhase, IInv, TypeOK, InVcsType
<1>3. Tx(x, p, c) = FwdDirs(p, c)
  BY <1>2 DEF Tx, FwdDirs
<1>4. /\ Tx(x, p, c) # {} /\ ins[p][c] # <<>>
      /\ inVc' = [ins EXCEPT ![p][c] = Tail(ins[p][c])]
      /\ outVc' = PushedOn(outs, p, c, Tx(x, p, c), Head(ins[p][c]))
      /\ born' = born + Cardinality(Tx(x, p, c)) - 1
      /\ UNCHANGED <<config, dropped, fell, start, todo>>
  BY <1>1, <1>3 DEF Forward, loopVars, PushAll, PushedOn
<1>5. PICK n \in [InVcs -> Nat] :
         Forwarded(x, n, ins, outs) /\ born = x[6] + Total(InVcs, Copies(x, n))
  BY <1>1 DEF InFwdPhase
<1>6. PICK ins2, outs2 : /\ ins2 = [ins EXCEPT ![p][c] = Tail(ins[p][c])]
                         /\ outs2 = PushedOn(outs, p, c, Tx(x, p, c), Head(ins[p][c]))
                         /\ ins2 = inVc' /\ outs2 = outVc'
  BY <1>4
<1>7. PICK m \in [InVcs -> Nat] :
         /\ Forwarded(x, m, ins2, outs2)
         /\ Total(InVcs, Copies(x, m))
               = Total(InVcs, Copies(x, n)) + (Cardinality(Tx(x, p, c)) - 1)
         /\ Total(InVcs, Copies(x, n)) \in Int /\ Cardinality(Tx(x, p, c)) \in Nat
  <2>1. ins[p][c] # <<>> /\ Tx(x, p, c) # {}
    BY <1>4
  <2>2. Begun(x) /\ p \in PE /\ c \in Colors /\ ins \in InVcsType
    BY <1>2
  <2>3. Forwarded(x, n, ins, outs)
    BY <1>5
  <2>4. ins2 = [ins EXCEPT ![p][c] = Tail(ins[p][c])]
    BY <1>6
  <2>5. outs2 = PushedOn(outs, p, c, Tx(x, p, c), Head(ins[p][c]))
    BY <1>6
  <2>6. IsOneMore(x, n, ins2, outs2, p, c)
    BY <2>1, <2>2, <2>3, <2>4, <2>5, OneForwarded
  <2> QED BY <2>6 DEF IsOneMore
<1>8. born' = x[6] + Total(InVcs, Copies(x, m))
  BY <1>2, <1>4, <1>5, <1>7, SMTT(30) DEF Begun
<1>9. FwdTodo(x, ins, outs, s)
  BY <1>1 DEF InFwdPhase
<1>10. FwdTodo(x, ins2, outs2, s)
  <2> SUFFICES ASSUME NEW q \in PE, NEW b \in Colors,
                      \A i \in 1..Len(s) : ~IsAt(s[i], q, b)
               PROVE  Stalled(x, ins2, outs2, q, b)
    BY <1>9 DEF FwdTodo
  <2>1. ~(q = p /\ b = c)
    <3>1. Len(s) \in Nat \ {0} /\ Head(s) = s[1]
      BY <1>2, <1>9, TailIsSeq DEF FwdTodo
    <3>2. IsAt(s[1], p, c) /\ 1 \in 1..Len(s)
      BY <1>1, <3>1 DEF IsAt
    <3> QED BY <3>2
  <2>2. Stalled(x, ins, outs, q, b)
    BY <1>9 DEF FwdTodo
  <2>3. ins2[q][b] = ins[q][b]
    BY <1>2, <1>4, <1>6, <2>1 DEF InVcsType
  <2>4. \A d \in Dir : outs2[q][d][b] = outs[q][d][b]
    BY <1>4, <1>6, <2>1 DEF PushedOn
  <2>5. Tx(x, q, b) \in SUBSET Dir
    BY <1>2 DEF Begun
  <2> QED BY <2>2, <2>3, <2>4, <2>5 DEF Stalled
<1>11. /\ start' = x /\ todo' = s /\ config' = x[3] /\ dropped' = x[4] /\ fell' = x[5]
  BY <1>1, <1>2, <1>4 DEF InFwdPhase
<1> QED BY <1>2, <1>6, <1>7, <1>8, <1>10, <1>11, FwdPhaseNext

\* The color has no route, its input VC is empty, or a transmit VC is full.
LEMMA ForwardDoneCycle ==
    ASSUME IInv, InFwdPhase, ForwardDone
    PROVE  InFwdPhase'
<1>1. PICK x, p, c, ins, outs, s : /\ x = start /\ p = Head(todo).pe /\ c = Head(todo).color
                             /\ ins = inVc /\ outs = outVc /\ s = todo
  OBVIOUS
<1>2. p \in PE /\ c \in Colors /\ s # <<>> /\ Begun(x) /\ x[3] = config
  BY <1>1 DEF ForwardDone, InBounds, InFwdPhase
<1>3. Tx(x, p, c) = FwdDirs(p, c) /\ Tx(x, p, c) \in SUBSET Dir
  BY <1>2 DEF Tx, FwdDirs, Begun
<1>4. Stalled(x, ins, outs, p, c)
  BY <1>1, <1>3 DEF ForwardDone, Stalled, HasRoom
<1>5. /\ inVc' = ins /\ outVc' = outs /\ start' = x /\ todo' = Tail(s) /\ born' = born
      /\ config' = x[3] /\ dropped' = x[4] /\ fell' = x[5]
  BY <1>1, <1>2 DEF ForwardDone, InFwdPhase, vars, fabricVars, histVars
<1>6. FwdTodo(x, ins, outs, s)
  BY <1>1 DEF InFwdPhase
<1>7. /\ IsSeq(Tail(s)) /\ Len(s) \in Nat \ {0} /\ Len(Tail(s)) = Len(s) - 1
      /\ Head(s) = s[1]
      /\ \A i \in 1..Len(s) - 1 : i + 1 \in 1..Len(s) /\ Tail(s)[i] = s[i + 1]
  BY <1>2, <1>6, TailIsSeq DEF FwdTodo
<1>8. FwdTodo(x, ins, outs, Tail(s))
  <2> SUFFICES ASSUME NEW q \in PE, NEW b \in Colors,
                      \A i \in 1..Len(Tail(s)) : ~IsAt(Tail(s)[i], q, b)
               PROVE  Stalled(x, ins, outs, q, b)
    BY <1>7 DEF FwdTodo
  <2>1. CASE q = p /\ b = c
    BY <1>4, <2>1
  <2>2. CASE ~(q = p /\ b = c)
    <3>1. ASSUME NEW i \in 1..Len(s)
          PROVE  ~IsAt(s[i], q, b)
      <4>1. CASE i = 1
        BY <1>1, <1>7, <2>2, <4>1 DEF IsAt
      <4>2. CASE i # 1
        <5>1. PICK j \in 1..Len(s) - 1 : j + 1 = i
          <6>1. i - 1 \in 1..Len(s) - 1 /\ (i - 1) + 1 = i
            BY <1>7, <4>2
          <6> QED BY <6>1
        <5>2. Tail(s)[j] = s[i] /\ j \in 1..Len(Tail(s))
          BY <1>7, <5>1
        <5> QED BY <5>2
      <4> QED BY <4>1, <4>2
    <3> QED BY <1>6, <3>1 DEF FwdTodo
  <2> QED BY <2>1, <2>2
<1>9. \E n \in [InVcs -> Nat] :
         Forwarded(x, n, ins, outs) /\ born = x[6] + Total(InVcs, Copies(x, n))
  BY <1>1 DEF InFwdPhase
<1> QED BY <1>2, <1>5, <1>8, <1>9, FwdPhaseNext

-----------------------------------------------------------------------------
(* The moves of phase 2 and their order. *)

LEMMA DirsAreOrdered ==
    /\ \A e \in 0..4 : DirSeq[e + 1] \in Dir /\ Place(DirSeq[e + 1]) = e
    /\ \A d \in Dir : Place(d) \in 0..4 /\ DirSeq[Place(d) + 1] = d
<1>1. PICK ds : ds = <<"Ramp", "East", "West", "North", "South">>
  OBVIOUS
<1>2. ds[1] = "Ramp" /\ ds[2] = "East" /\ ds[3] = "West" /\ ds[4] = "North" /\ ds[5] = "South"
  BY <1>1
<1>3. DirSeq = ds
  BY <1>1 DEF DirSeq
<1>4. /\ Place("Ramp") = 0 /\ Place("East") = 1 /\ Place("West") = 2
      /\ Place("North") = 3 /\ Place("South") = 4
  BY DEF Place
<1>5. \A e \in 0..4 : e = 0 \/ e = 1 \/ e = 2 \/ e = 3 \/ e = 4
  OBVIOUS
<1>6. ASSUME NEW e \in 0..4
      PROVE  DirSeq[e + 1] \in Dir /\ Place(DirSeq[e + 1]) = e
  <2>1. e = 0 => DirSeq[e + 1] = "Ramp"
    BY <1>2, <1>3
  <2>2. e = 1 => DirSeq[e + 1] = "East"
    BY <1>2, <1>3
  <2>3. e = 2 => DirSeq[e + 1] = "West"
    BY <1>2, <1>3
  <2>4. e = 3 => DirSeq[e + 1] = "North"
    BY <1>2, <1>3
  <2>5. e = 4 => DirSeq[e + 1] = "South"
    BY <1>2, <1>3
  <2> QED BY <1>4, <1>5, <2>1, <2>2, <2>3, <2>4, <2>5, Zenon DEF Dir
<1>7. ASSUME NEW d \in Dir
      PROVE  Place(d) \in 0..4 /\ DirSeq[Place(d) + 1] = d
  <2>1. /\ DirSeq[0 + 1] = "Ramp" /\ DirSeq[1 + 1] = "East" /\ DirSeq[2 + 1] = "West"
        /\ DirSeq[3 + 1] = "North" /\ DirSeq[4 + 1] = "South"
    BY <1>2, <1>3
  <2>2. 0 \in 0..4 /\ 1 \in 0..4 /\ 2 \in 0..4 /\ 3 \in 0..4 /\ 4 \in 0..4
    OBVIOUS
  <2>3. d = "Ramp" \/ d = "East" \/ d = "West" \/ d = "North" \/ d = "South"
    BY DEF Dir
  <2> QED BY <1>4, <2>1, <2>2, <2>3, Zenon
<1> QED BY <1>6, <1>7

\* The nested loops number the output VCs by their positions.
LEMMA EveryOutputVc ==
    \E n \in Nat :
       /\ IsList(OutputVcs, n)
       /\ \A i \in 1..n : InBounds(OutputVcs[i]) /\ MovePosition(OutputVcs[i]) = i - 1
       /\ \A q \in PE, d \in Dir, c \in Colors : \E i \in 1..n : IsOf(OutputVcs[i], q, d, c)
<1>1. PICK wh \in Nat, nc \in Nat : wh = Width * Height /\ nc = NumColors
  BY FabricAssumption, Ids
<1>2. PICK n \in Nat : n = wh * (5 * nc)
  OBVIOUS
<1>3. OutputVcs = [i \in 1..n |->
        [pe |-> PeAt((i - 1) \div (5 * nc)), dir |-> DirSeq[(((i - 1) \div nc) % 5) + 1],
         color |-> (i - 1) % nc]]
  <2>1. Width * Height * 5 * NumColors = n
    <3>1. wh * 5 * nc = wh * (5 * nc)
      OBVIOUS
    <3> QED BY <1>1, <1>2, <3>1
  <2> QED BY <1>1, <2>1 DEF OutputVcs
<1>4. IsList(OutputVcs, n)
  BY <1>3 DEF IsList
<1>5. Colors = 0..nc - 1
  BY <1>1, Ids
<1>6. \A k \in Nat : k < wh => PeAt(k) \in PE /\ PeNumber(PeAt(k)) = k
  BY <1>1, PeNumbers
<1>7. ASSUME NEW i \in 1..n
      PROVE  InBounds(OutputVcs[i]) /\ MovePosition(OutputVcs[i]) = i - 1
  <2>1. PICK x \in Nat : x = i - 1 /\ x < n
    BY <1>2
  <2>2. nc \in Nat \ {0}
    BY <1>2
  <2>3. PICK a \in Nat, c \in 0..nc - 1 : a = x \div nc /\ c = x % nc /\ x = a * nc + c
    BY <2>2, Division
  <2>4. PICK k \in Nat, e \in 0..4 : k = a \div 5 /\ e = a % 5 /\ a = k * 5 + e
    <3>1. a \div 5 \in Nat /\ a % 5 \in 0..5 - 1 /\ a = (a \div 5) * 5 + (a % 5)
      BY Division
    <3> QED BY <3>1
  <2>5. x = (k * 5 + e) * nc + c
    BY <2>3, <2>4
  <2>6. x \div (5 * nc) = k /\ (x \div nc) % 5 = e
    BY <2>2, <2>5, Digits
  <2>7. k < wh
    <3>1. PICK f \in Nat \ {0} : f = 5 * nc
      BY <2>2
    <3>2. x \div f \in Nat /\ x % f \in 0..f - 1 /\ x = (x \div f) * f + (x % f)
      BY Division
    <3>3. k * f <= x
      <4>1. k * f \in Nat
        BY <3>1
      <4>2. PICK r \in Nat : r = x % f
        BY <3>2
      <4>3. x \div f = k
        BY <2>6, <3>1
      <4>4. x = k * f + r
        BY <3>2, <4>2, <4>3
      <4> QED BY <4>1, <4>4
    <3>4. wh < k => wh * f + f <= k * f
      BY <3>1, Multiples
    <3>5. wh * f = n /\ k * f \in Nat
      BY <1>2, <3>1
    <3> QED BY <2>1, <3>1, <3>3, <3>4, <3>5
  <2>8. OutputVcs[i] = [pe |-> PeAt(k), dir |-> DirSeq[e + 1], color |-> c]
    BY <1>3, <2>1, <2>3, <2>6
  <2>9. PICK m : m = OutputVcs[i]
    OBVIOUS
  <2>10. m.pe = PeAt(k) /\ m.dir = DirSeq[e + 1] /\ m.color = c
    BY <2>8, <2>9
  <2>11. InBounds(m)
    BY <1>5, <1>6, <2>7, <2>10, DirsAreOrdered DEF InBounds
  <2>12. PeNumber(PeAt(k)) = k /\ Place(DirSeq[e + 1]) = e
    BY <1>6, <2>7, DirsAreOrdered
  <2>13. MovePosition(m) = (k * 5 + e) * nc + c
    BY <1>1, <2>10, <2>12, Zenon DEF MovePosition, Position, PeNumber
  <2> QED BY <2>1, <2>5, <2>9, <2>11, <2>13
<1>8. ASSUME NEW q \in PE, NEW d \in Dir, NEW c \in Colors
      PROVE  \E i \in 1..n : IsOf(OutputVcs[i], q, d, c)
  <2>1. PICK k \in Nat : k = PeNumber(q) /\ k < wh /\ PeAt(k) = q
    BY <1>1, PeNumbers
  <2>2. PICK e \in 0..4 : e = Place(d) /\ DirSeq[e + 1] = d
    BY DirsAreOrdered
  <2>3. nc \in Nat \ {0} /\ c \in 0..nc - 1
    BY <1>5
  <2>4. PICK x : x = (k * 5 + e) * nc + c
    OBVIOUS
  <2>5. /\ x \in Nat /\ x \div (5 * nc) = k /\ (x \div nc) % 5 = e /\ x % nc = c
        /\ \A m \in Nat : k < m => x < m * (5 * nc)
    BY <2>3, <2>4, Digits
  <2>6. x < n
    BY <1>2, <2>1, <2>5
  <2>7. PICK i \in 1..n : i - 1 = x
    <3>1. x + 1 \in 1..n /\ (x + 1) - 1 = x
      BY <2>5, <2>6
    <3> QED BY <3>1
  <2>8. OutputVcs[i] = [pe |-> q, dir |-> d, color |-> c]
    BY <1>3, <2>1, <2>2, <2>5, <2>7
  <2> QED BY <2>8 DEF IsOf
<1> QED BY <1>4, <1>7, <1>8

\* A hop and where it comes from.
LEMMA HopAndFrom ==
    /\ \A q \in PE, d \in Dir : From(Hop(q, d), d) = q
    /\ \A p \in PE, d \in Dir : Hop(From(p, d), d) = p
<1>1. ASSUME NEW p \in PE, NEW d \in Dir
      PROVE  From(Hop(p, d), d) = p /\ Hop(From(p, d), d) = p
  <2>1. PICK x \in Int, y \in Int : p = <<x, y>>
    BY DEF PE
  <2>2. PICK a \in Int, b \in Int, u \in Int, v \in Int :
           a = x + 1 /\ b = x - 1 /\ u = y + 1 /\ v = y - 1
    OBVIOUS
  <2>3. a - 1 = x /\ b + 1 = x /\ u - 1 = y /\ v + 1 = y
    BY <2>2
  <2>4. CASE d = "Ramp"
    BY <2>4 DEF Hop, From
  <2>5. CASE d = "East"
    <3>1. Hop(p, d) = <<a, y>> /\ From(p, d) = <<b, y>>
      BY <2>1, <2>2, <2>5 DEF Hop, From
    <3>2. From(<<a, y>>, d) = <<x, y>> /\ Hop(<<b, y>>, d) = <<x, y>>
      BY <2>3, <2>5 DEF Hop, From
    <3> QED BY <2>1, <3>1, <3>2
  <2>6. CASE d = "West"
    <3>1. Hop(p, d) = <<b, y>> /\ From(p, d) = <<a, y>>
      BY <2>1, <2>2, <2>6 DEF Hop, From
    <3>2. From(<<b, y>>, d) = <<x, y>> /\ Hop(<<a, y>>, d) = <<x, y>>
      BY <2>3, <2>6 DEF Hop, From
    <3> QED BY <2>1, <3>1, <3>2
  <2>7. CASE d = "North"
    <3>1. Hop(p, d) = <<x, u>> /\ From(p, d) = <<x, v>>
      BY <2>1, <2>2, <2>7 DEF Hop, From
    <3>2. From(<<x, u>>, d) = <<x, y>> /\ Hop(<<x, v>>, d) = <<x, y>>
      BY <2>3, <2>7 DEF Hop, From
    <3> QED BY <2>1, <3>1, <3>2
  <2>8. CASE d = "South"
    <3>1. Hop(p, d) = <<x, v>> /\ From(p, d) = <<x, u>>
      BY <2>1, <2>2, <2>8 DEF Hop, From
    <3>2. From(<<x, v>>, d) = <<x, y>> /\ Hop(<<x, u>>, d) = <<x, y>>
      BY <2>3, <2>8 DEF Hop, From
    <3> QED BY <2>1, <3>1, <3>2
  <2> QED BY <2>4, <2>5, <2>6, <2>7, <2>8 DEF Dir
<1> QED BY <1>1

\* The PEs that send to p come in the row-major order that Rank tells.
LEMMA SendersInOrder ==
    ASSUME NEW p \in PE, NEW d \in Dir, NEW e \in Dir, Rank(e) < Rank(d),
           From(p, e) \in PE, From(p, d) \in PE
    PROVE  PeNumber(From(p, e)) < PeNumber(From(p, d))
<1>1. PICK x \in Int, y \in Int, w \in Nat \ {0}, h \in Nat \ {0} :
         p = <<x, y>> /\ w = Width /\ h = Height
  BY FabricAssumption DEF PE
<1>2. \A i, j \in Int : <<i, j>> \in PE => 0 <= i /\ i < w
  BY <1>1 DEF PE
<1>3. PICK k \in Int : k = y * w + x
  BY <1>1
<1>4. \A i, j \in Int : PeNumber(<<i, j>>) = j * w + i
  BY <1>1 DEF PeNumber
<1>5. (y - 1) * w + x = k - w /\ y * w + (x - 1) = k - 1 /\ y * w + (x + 1) = k + 1
      /\ (y + 1) * w + x = k + w
  BY <1>3
<1>6. /\ From(p, "North") = <<x, y - 1>> /\ From(p, "East") = <<x - 1, y>>
      /\ From(p, "Ramp") = <<x, y>> /\ From(p, "West") = <<x + 1, y>>
      /\ From(p, "South") = <<x, y + 1>>
  BY <1>1 DEF From
<1>7. /\ x - 1 \in Int /\ x + 1 \in Int /\ y - 1 \in Int /\ y + 1 \in Int
  OBVIOUS
<1>8. /\ PeNumber(From(p, "North")) = k - w /\ PeNumber(From(p, "East")) = k - 1
      /\ PeNumber(From(p, "Ramp")) = k /\ PeNumber(From(p, "West")) = k + 1
      /\ PeNumber(From(p, "South")) = k + w
  BY <1>3, <1>4, <1>5, <1>6, <1>7
<1>9. /\ Rank("North") = 1 /\ Rank("East") = 2 /\ Rank("Ramp") = 3 /\ Rank("West") = 4
      /\ Rank("South") = 5
  BY DEF Rank
<1>10. /\ From(p, "East") \in PE => w > 1
       /\ From(p, "West") \in PE => w > 1
  <2>1. 0 <= x /\ x < w
    BY <1>1, <1>2
  <2>2. From(p, "East") \in PE => 0 <= x - 1
    BY <1>2, <1>6, <1>7
  <2>3. From(p, "West") \in PE => x + 1 < w
    BY <1>2, <1>6, <1>7
  <2> QED BY <2>1, <2>2, <2>3
<1>11. d \in {"Ramp", "East", "West", "North", "South"}
       /\ e \in {"Ramp", "East", "West", "North", "South"}
  BY DEF Dir
<1>12. CASE e = "North"
  BY <1>8, <1>9, <1>10, <1>11, <1>12
<1>13. CASE e = "East"
  BY <1>8, <1>9, <1>10, <1>11, <1>13
<1>14. CASE e = "Ramp"
  BY <1>8, <1>9, <1>10, <1>11, <1>14
<1>15. CASE e = "West"
  BY <1>8, <1>9, <1>10, <1>11, <1>15
<1>16. CASE e = "South"
  BY <1>8, <1>9, <1>10, <1>11, <1>16
<1> QED BY <1>11, <1>12, <1>13, <1>14, <1>15, <1>16

\* The links to p are visited in the order of Rank.
LEMMA LinksInOrder ==
    ASSUME NEW p \in PE, NEW d \in Dir, NEW e \in Dir, Rank(e) < Rank(d),
           From(p, e) \in PE, From(p, d) \in PE, NEW c \in Colors
    PROVE  Position(From(p, e), e, c) < Position(From(p, d), d, c)
<1>1. PICK k \in Nat, m \in Nat : k = PeNumber(From(p, e)) /\ m = PeNumber(From(p, d)) /\ k < m
  BY PeNumbers, SendersInOrder
<1>2. PICK s \in Nat, t \in Nat : /\ s = k * 5 + Place(e) /\ t = m * 5 + Place(d)
                                  /\ s < t
  <2>1. PICK i \in 0..4, j \in 0..4 : i = Place(e) /\ j = Place(d)
    BY DirsAreOrdered
  <2>2. k * 5 + i \in Nat /\ m * 5 + j \in Nat /\ k * 5 + i < m * 5 + j
    BY <1>1
  <2> QED BY <2>1, <2>2
<1>3. PICK n \in Nat \ {0} : n = NumColors /\ c \in 0..n - 1
  BY Ids
<1>4. s * n \in Nat /\ t * n \in Nat /\ s * n + n <= t * n
  BY <1>2, Multiples
<1>5. Position(From(p, e), e, c) = s * n + c /\ Position(From(p, d), d, c) = t * n + c
  BY <1>1, <1>2, <1>3 DEF Position, PeNumber
<1> QED BY <1>3, <1>4, <1>5

\* What the snapshot holds: every non-empty output VC once, in visiting order.
LEMMA SnapshotMoves ==
    ASSUME outVc \in OutVcsType
    PROVE  /\ IsSeq(Snapshot)
           /\ \A i \in 1..Len(Snapshot) : IsMove(Snapshot[i], outVc)
           /\ \A i, j \in 1..Len(Snapshot) :
                 i < j => MovePosition(Snapshot[i]) < MovePosition(Snapshot[j])
           /\ \A q \in PE, d \in Dir, c \in Colors :
                 (\A i \in 1..Len(Snapshot) : ~IsOf(Snapshot[i], q, d, c))
                     => outVc[q][d][c] = <<>>
<1> DEFINE Holds(m) == Len(outVc[m.pe][m.dir][m.color])
<1>1. PICK n \in Nat :
         /\ IsList(OutputVcs, n)
         /\ \A i \in 1..n : InBounds(OutputVcs[i]) /\ MovePosition(OutputVcs[i]) = i - 1
         /\ \A q \in PE, d \in Dir, c \in Colors : \E i \in 1..n : IsOf(OutputVcs[i], q, d, c)
  BY EveryOutputVc
<1>2. DOMAIN OutputVcs = 1..n
  BY <1>1 DEF IsList
<1>3. PICK kept \in SUBSET (1..n) : kept = {i \in 1..n : Holds(OutputVcs[i]) > 0}
  OBVIOUS
<1>4. PICK full : full = Subsequence(OutputVcs, kept)
  OBVIOUS
<1>5. PICK s : s = [i \in DOMAIN full |->
                      [pe |-> full[i].pe, dir |-> full[i].dir, color |-> full[i].color,
                       count |-> Holds(full[i])]]
  OBVIOUS
<1>6. Snapshot = s
  BY <1>2, <1>3, <1>4, <1>5 DEF Snapshot
<1>7. IsInOrder(full, OutputVcs, kept)
  BY <1>4, SubsequenceInOrder
<1>7a. PICK m \in Nat :
         /\ full = [k \in 1..m |-> full[k]]
         /\ \E h \in [1..m -> kept] :
               /\ \A k \in 1..m : full[k] = OutputVcs[h[k]]
               /\ \A j, k \in 1..m : j < k => h[j] < h[k]
               /\ \A i \in kept : \E k \in 1..m : h[k] = i
  BY <1>7 DEF IsInOrder
<1>8. PICK h \in [1..m -> kept] :
         /\ full = [k \in 1..m |-> full[k]]
         /\ h \in [1..m -> kept]
         /\ \A k \in 1..m : full[k] = OutputVcs[h[k]]
         /\ \A j, k \in 1..m : j < k => h[j] < h[k]
         /\ \A i \in kept : \E k \in 1..m : h[k] = i
  BY <1>7a
<1>9. DOMAIN full = 1..m
  BY <1>8
<1>10. s = [i \in 1..m |->
              [pe |-> full[i].pe, dir |-> full[i].dir, color |-> full[i].color,
               count |-> Holds(full[i])]]
  BY <1>5, <1>9
<1>11. IsSeq(s) /\ Len(s) = m
  <2>1. IsList(s, m)
    BY <1>10 DEF IsList
  <2> QED BY <2>1, ListIsSeq
<1>12. ASSUME NEW k \in 1..m
       PROVE  /\ IsMove(s[k], outVc)
              /\ MovePosition(s[k]) = h[k] - 1
              /\ s[k].pe = full[k].pe /\ s[k].dir = full[k].dir /\ s[k].color = full[k].color
  <2>1. PICK o, f : o = s[k] /\ f = full[k]
    OBVIOUS
  <2>2. o = [pe |-> f.pe, dir |-> f.dir, color |-> f.color, count |-> Holds(f)]
    BY <1>10, <2>1
  <2>3. o.pe = f.pe /\ o.dir = f.dir /\ o.color = f.color /\ o.count = Holds(f)
    BY <2>2
  <2>4. h[k] \in 1..n /\ f = OutputVcs[h[k]]
    BY <1>8, <2>1
  <2>5. InBounds(f) /\ MovePosition(f) = h[k] - 1
    BY <1>1, <2>4
  <2>6. InBounds(o) /\ MovePosition(o) = h[k] - 1
    BY <2>3, <2>5, Zenon DEF InBounds, MovePosition
  <2>7. o.count = Len(outVc[o.pe][o.dir][o.color])
    BY <2>3
  <2>8. o = [pe |-> o.pe, dir |-> o.dir, color |-> o.color, count |-> o.count]
    BY <2>2, <2>3
  <2> QED BY <2>1, <2>3, <2>6, <2>7, <2>8, Zenon DEF IsMove
<1>13. \A i, j \in 1..m : i < j => MovePosition(s[i]) < MovePosition(s[j])
  <2> SUFFICES ASSUME NEW i \in 1..m, NEW j \in 1..m, i < j
               PROVE  MovePosition(s[i]) < MovePosition(s[j])
    OBVIOUS
  <2>1. h[i] < h[j] /\ h[i] \in Nat /\ h[j] \in Nat
    BY <1>8
  <2> QED BY <1>12, <2>1
<1>14. ASSUME NEW q \in PE, NEW d \in Dir, NEW c \in Colors,
              \A i \in 1..m : ~IsOf(s[i], q, d, c)
       PROVE  outVc[q][d][c] = <<>>
  <2>1. PICK i \in 1..n : IsOf(OutputVcs[i], q, d, c)
    BY <1>1
  <2>2. i \notin kept
    <3> SUFFICES ASSUME i \in kept PROVE FALSE
      OBVIOUS
    <3>1. PICK k \in 1..m : h[k] = i
      BY <1>8
    <3>2. full[k] = OutputVcs[i]
      BY <1>8, <3>1
    <3>3. IsOf(s[k], q, d, c)
      BY <1>12, <2>1, <3>2, Zenon DEF IsOf
    <3> QED BY <1>14, <3>3
  <2>3. Holds(OutputVcs[i]) = Len(outVc[q][d][c])
    BY <2>1 DEF IsOf
  <2>4. outVc[q][d][c] \in Seq(Nat)
    BY DEF OutVcsType
  <2>5. ~(Len(outVc[q][d][c]) > 0)
    BY <1>3, <2>2, <2>3
  <2>6. Len(outVc[q][d][c]) = 0
    BY <2>4, <2>5, LenProperties
  <2> QED BY <2>4, <2>6, EmptySeq
<1>15. Len(Snapshot) = m /\ IsSeq(Snapshot)
  BY <1>6, <1>11
<1> HIDE DEF Holds
<1> QED BY <1>6, <1>12, <1>13, <1>14, <1>15

-----------------------------------------------------------------------------
(* Phase 2. *)

\* What is bound for p is as long as its parts.
Lens(O, p, c) ==
    Len(Bound(O, p, "North", c)) + Len(Bound(O, p, "East", c)) + Len(Bound(O, p, "Ramp", c))
        + Len(Bound(O, p, "West", c)) + Len(Bound(O, p, "South", c))

LEMMA QueueType ==
    ASSUME NEW O \in OutVcsType, NEW p \in PE, NEW c \in Colors
    PROVE  /\ \A d \in Dir : /\ Bound(O, p, d, c) \in Seq(Nat)
                             /\ Len(Bound(O, p, d, c)) \in Nat
           /\ Queue(O, p, c) \in Seq(Nat) /\ Len(Queue(O, p, c)) = Lens(O, p, c)
           /\ Len(Queue(O, p, c)) \in Nat
<1>1. ASSUME NEW d \in Dir
      PROVE  Bound(O, p, d, c) \in Seq(Nat) /\ Len(Bound(O, p, d, c)) \in Nat
  <2>1. Bound(O, p, d, c) \in Seq(Nat)
    BY DEF Bound, OutVcsType
  <2> QED BY <2>1, LenProperties
<1>2. PICK a \in Seq(Nat), b \in Seq(Nat), r \in Seq(Nat), w \in Seq(Nat), s \in Seq(Nat) :
         /\ a = Bound(O, p, "North", c) /\ b = Bound(O, p, "East", c)
         /\ r = Bound(O, p, "Ramp", c) /\ w = Bound(O, p, "West", c)
         /\ s = Bound(O, p, "South", c)
  BY <1>1 DEF Dir
<1>3. PICK q : q = a \o b \o r \o w \o s
  OBVIOUS
<1>4. q \in Seq(Nat) /\ Len(q) = Len(a) + Len(b) + Len(r) + Len(w) + Len(s)
  BY <1>3, FiveJoined DEF IsJoined
<1>5. q = Queue(O, p, c) /\ Len(q) = Lens(O, p, c)
  BY <1>2, <1>3, <1>4, Zenon DEF Queue, Lens
<1> QED BY <1>1, <1>4, <1>5, LenProperties

SentType(g, p, c) == \A d \in Dir : SentTo(g, p, d, c) \in Nat

LEMMA SentIsNat ==
    ASSUME NEW g \in [OutVcs -> Nat], NEW p \in PE, NEW c \in Colors
    PROVE  SentType(g, p, c) /\ Came(g, p, c) \in Nat
<1>1. ASSUME NEW d \in Dir
      PROVE  SentTo(g, p, d, c) \in Nat
  BY DEF SentTo, OutVcs
<1>2. Came(g, p, c) \in Nat
  BY <1>1 DEF Came, Dir
<1> QED BY <1>1, <1>2 DEF SentType

\* The order of the links, spelled out.
LEMMA RankOrder ==
    /\ "North" \in Dir /\ "East" \in Dir /\ "Ramp" \in Dir /\ "West" \in Dir /\ "South" \in Dir
    /\ Rank("North") < Rank("East")
    /\ Rank("North") < Rank("Ramp")
    /\ Rank("North") < Rank("West")
    /\ Rank("North") < Rank("South")
    /\ Rank("East") < Rank("Ramp")
    /\ Rank("East") < Rank("West")
    /\ Rank("East") < Rank("South")
    /\ Rank("Ramp") < Rank("West")
    /\ Rank("Ramp") < Rank("South")
    /\ Rank("West") < Rank("South")
<1>1. /\ Rank("North") = 1 /\ Rank("East") = 2 /\ Rank("Ramp") = 3 /\ Rank("West") = 4
      /\ Rank("South") = 5
  BY DEF Rank
<1> QED BY <1>1 DEF Dir

\* When it is the turn of d, the front of its output VC is the next arrival.
LEMMA NextArrival ==
    ASSUME NEW O \in OutVcsType, NEW g \in [OutVcs -> Nat], NEW p \in PE, NEW c \in Colors,
           NEW d \in Dir, SentTo(g, p, d, c) < Len(Bound(O, p, d, c)),
           \A e \in Dir : Rank(e) < Rank(d) => SentTo(g, p, e, c) = Len(Bound(O, p, e, c)),
           \A e \in Dir : Rank(d) < Rank(e) => SentTo(g, p, e, c) = 0
    PROVE  /\ Came(g, p, c) < Len(Queue(O, p, c))
           /\ Queue(O, p, c)[Came(g, p, c) + 1] = Bound(O, p, d, c)[SentTo(g, p, d, c) + 1]
<1>1. PICK a \in Seq(Nat), b \in Seq(Nat), r \in Seq(Nat), w \in Seq(Nat), s \in Seq(Nat) :
         /\ a = Bound(O, p, "North", c) /\ b = Bound(O, p, "East", c)
         /\ r = Bound(O, p, "Ramp", c) /\ w = Bound(O, p, "West", c)
         /\ s = Bound(O, p, "South", c)
  BY QueueType DEF Dir
<1>2. PICK la \in Nat, lb \in Nat, lr \in Nat, lw \in Nat, ls \in Nat :
         la = Len(a) /\ lb = Len(b) /\ lr = Len(r) /\ lw = Len(w) /\ ls = Len(s)
  BY LenProperties
<1>3. PICK ga \in Nat, gb \in Nat, gr \in Nat, gw \in Nat, gs \in Nat :
         /\ ga = SentTo(g, p, "North", c) /\ gb = SentTo(g, p, "East", c)
         /\ gr = SentTo(g, p, "Ramp", c) /\ gw = SentTo(g, p, "West", c)
         /\ gs = SentTo(g, p, "South", c)
  BY SentIsNat DEF SentType, Dir
<1>4. PICK q : q = a \o b \o r \o w \o s
  OBVIOUS
<1>5. /\ q \in Seq(Nat)
      /\ Len(q) = la + lb + lr + lw + ls
      /\ \A i \in 1..la : q[i] = a[i]
      /\ \A i \in 1..lb : q[la + i] = b[i]
      /\ \A i \in 1..lr : q[la + lb + i] = r[i]
      /\ \A i \in 1..lw : q[la + lb + lr + i] = w[i]
      /\ \A i \in 1..ls : q[la + lb + lr + lw + i] = s[i]
  <2>1. IsJoined(q, a, b, r, w, s)
    BY <1>4, FiveJoined
  <2> QED BY <1>2, <2>1, Zenon DEF IsJoined
<1>5a. Len(q) = la + lb + lr + lw + ls
  BY <1>5
<1>6. PICK k \in Nat : k = ga + gb + gr + gw + gs
  OBVIOUS
<1>7. Queue(O, p, c) = q /\ Came(g, p, c) = k
  BY <1>1, <1>3, <1>4, <1>6, Zenon DEF Queue, Came
<1>9. /\ \A e \in Dir : Rank(e) < Rank(d) => SentTo(g, p, e, c) = Len(Bound(O, p, e, c))
      /\ \A e \in Dir : Rank(d) < Rank(e) => SentTo(g, p, e, c) = 0
      /\ SentTo(g, p, d, c) < Len(Bound(O, p, d, c))
  OBVIOUS
<1>10. \A e \in Dir : /\ Rank(e) < Rank(d) => SentTo(g, p, e, c) = Len(Bound(O, p, e, c))
                     /\ Rank(d) < Rank(e) => SentTo(g, p, e, c) = 0
  OBVIOUS
<1>11. CASE d = "North"
  <2>1. ga < la /\ gb = 0 /\ gr = 0 /\ gw = 0 /\ gs = 0
    <3>1. ga < la
      BY <1>1, <1>2, <1>3, <1>9, <1>11
    <3>2. gb = 0
      BY <1>1, <1>2, <1>3, <1>10, <1>11, RankOrder, Zenon
    <3>3. gr = 0
      BY <1>1, <1>2, <1>3, <1>10, <1>11, RankOrder, Zenon
    <3>4. gw = 0
      BY <1>1, <1>2, <1>3, <1>10, <1>11, RankOrder, Zenon
    <3>5. gs = 0
      BY <1>1, <1>2, <1>3, <1>10, <1>11, RankOrder, Zenon
    <3> QED BY <3>1, <3>2, <3>3, <3>4, <3>5
  <2>2. PICK i \in 1..la : i = ga + 1
    BY <2>1
  <2>3. k < Len(q) /\ k + 1 = i
    BY <1>5a, <1>6, <2>1, <2>2
  <2> QED BY <1>1, <1>3, <1>5, <1>7, <1>11, <2>2, <2>3
<1>12. CASE d = "East"
  <2>1. ga = la /\ gb < lb /\ gr = 0 /\ gw = 0 /\ gs = 0
    <3>1. ga = la
      BY <1>1, <1>2, <1>3, <1>10, <1>12, RankOrder, Zenon
    <3>2. gb < lb
      BY <1>1, <1>2, <1>3, <1>9, <1>12
    <3>3. gr = 0
      BY <1>1, <1>2, <1>3, <1>10, <1>12, RankOrder, Zenon
    <3>4. gw = 0
      BY <1>1, <1>2, <1>3, <1>10, <1>12, RankOrder, Zenon
    <3>5. gs = 0
      BY <1>1, <1>2, <1>3, <1>10, <1>12, RankOrder, Zenon
    <3> QED BY <3>1, <3>2, <3>3, <3>4, <3>5
  <2>2. PICK i \in 1..lb : i = gb + 1
    BY <2>1
  <2>3. k < Len(q) /\ k + 1 = la + i
    BY <1>5a, <1>6, <2>1, <2>2
  <2>4. q[k + 1] = b[i]
    BY <1>5, <2>3
  <2> QED BY <1>1, <1>3, <1>7, <1>12, <2>2, <2>3, <2>4
<1>13. CASE d = "Ramp"
  <2>1. ga = la /\ gb = lb /\ gr < lr /\ gw = 0 /\ gs = 0
    <3>1. ga = la
      BY <1>1, <1>2, <1>3, <1>10, <1>13, RankOrder, Zenon
    <3>2. gb = lb
      BY <1>1, <1>2, <1>3, <1>10, <1>13, RankOrder, Zenon
    <3>3. gr < lr
      BY <1>1, <1>2, <1>3, <1>9, <1>13
    <3>4. gw = 0
      BY <1>1, <1>2, <1>3, <1>10, <1>13, RankOrder, Zenon
    <3>5. gs = 0
      BY <1>1, <1>2, <1>3, <1>10, <1>13, RankOrder, Zenon
    <3> QED BY <3>1, <3>2, <3>3, <3>4, <3>5
  <2>2. PICK i \in 1..lr : i = gr + 1
    BY <2>1
  <2>3. k < Len(q) /\ k + 1 = la + lb + i
    BY <1>5a, <1>6, <2>1, <2>2
  <2>4. q[k + 1] = r[i]
    BY <1>5, <2>3
  <2> QED BY <1>1, <1>3, <1>7, <1>13, <2>2, <2>3, <2>4
<1>14. CASE d = "West"
  <2>1. ga = la /\ gb = lb /\ gr = lr /\ gw < lw /\ gs = 0
    <3>1. ga = la
      BY <1>1, <1>2, <1>3, <1>10, <1>14, RankOrder, Zenon
    <3>2. gb = lb
      BY <1>1, <1>2, <1>3, <1>10, <1>14, RankOrder, Zenon
    <3>3. gr = lr
      BY <1>1, <1>2, <1>3, <1>10, <1>14, RankOrder, Zenon
    <3>4. gw < lw
      BY <1>1, <1>2, <1>3, <1>9, <1>14
    <3>5. gs = 0
      BY <1>1, <1>2, <1>3, <1>10, <1>14, RankOrder, Zenon
    <3> QED BY <3>1, <3>2, <3>3, <3>4, <3>5
  <2>2. PICK i \in 1..lw : i = gw + 1
    BY <2>1
  <2>3. k < Len(q) /\ k + 1 = la + lb + lr + i
    BY <1>5a, <1>6, <2>1, <2>2
  <2>4. q[k + 1] = w[i]
    BY <1>5, <2>3
  <2> QED BY <1>1, <1>3, <1>7, <1>14, <2>2, <2>3, <2>4
<1>15. CASE d = "South"
  <2>1. ga = la /\ gb = lb /\ gr = lr /\ gw = lw /\ gs < ls
    <3>1. ga = la
      BY <1>1, <1>2, <1>3, <1>10, <1>15, RankOrder, Zenon
    <3>2. gb = lb
      BY <1>1, <1>2, <1>3, <1>10, <1>15, RankOrder, Zenon
    <3>3. gr = lr
      BY <1>1, <1>2, <1>3, <1>10, <1>15, RankOrder, Zenon
    <3>4. gw = lw
      BY <1>1, <1>2, <1>3, <1>10, <1>15, RankOrder, Zenon
    <3>5. gs < ls
      BY <1>1, <1>2, <1>3, <1>9, <1>15
    <3> QED BY <3>1, <3>2, <3>3, <3>4, <3>5
  <2>2. PICK i \in 1..ls : i = gs + 1
    BY <2>1
  <2>3. k < Len(q) /\ k + 1 = la + lb + lr + lw + i
    BY <1>5a, <1>6, <2>1, <2>2
  <2>4. q[k + 1] = s[i]
    BY <1>5, <2>3
  <2> QED BY <1>1, <1>3, <1>7, <1>15, <2>2, <2>3, <2>4
<1> QED BY <1>11, <1>12, <1>13, <1>14, <1>15 DEF Dir

\* Nothing has been sent when phase 2 begins.
LEMMA NoneSent ==
    ASSUME NEW O \in OutVcsType, NEW I \in InVcsType
    PROVE  \E g \in [OutVcs -> Nat] :
              /\ Left(O, g, O) /\ Arrived(O, I, g, I) /\ InTurn(O, g)
              /\ Total(OffGrid, GoneOff(g)) = 0 /\ Fallen(O, g) = {}
<1>1. PICK g \in [OutVcs -> Nat] : \A m \in OutVcs : g[m] = 0
  <2>1. [m \in OutVcs |-> 0] \in [OutVcs -> Nat]
    OBVIOUS
  <2> QED BY <2>1
<1>2. \A q \in PE, d \in Dir, c \in Colors : g[<<q, d, c>>] = 0
  BY <1>1 DEF OutVcs
<1>3. Left(O, g, O)
  <2> SUFFICES ASSUME NEW q \in PE, NEW d \in Dir, NEW c \in Colors
               PROVE  /\ g[<<q, d, c>>] <= Len(O[q][d][c])
                      /\ O[q][d][c] = SubSeq(O[q][d][c], g[<<q, d, c>>] + 1, Len(O[q][d][c]))
    BY DEF Left
  <2>1. PICK s \in Seq(Nat) : s = O[q][d][c]
    BY DEF OutVcsType
  <2>2. s = SubSeq(s, 1, Len(s)) /\ 0 + 1 = 1 /\ 0 <= Len(s)
    OBVIOUS
  <2> QED BY <1>2, <2>1, <2>2
<1>4. ASSUME NEW p \in PE, NEW c \in Colors
      PROVE  (\A d \in Dir : SentTo(g, p, d, c) = 0) /\ Came(g, p, c) = 0
  <2>1. \A d \in Dir : SentTo(g, p, d, c) = 0
    BY <1>2 DEF SentTo
  <2>2. Came(g, p, c) = 0
    BY <2>1 DEF Came, Dir
  <2> QED BY <2>1, <2>2
<1>5. Arrived(O, I, g, I)
  <2> SUFFICES ASSUME NEW p \in PE, NEW c \in Colors
               PROVE  I[p][c] = I[p][c] \o SubSeq(Queue(O, p, c), 1, Came(g, p, c))
    BY DEF Arrived
  <2>1. PICK a \in Seq(Nat), s \in Seq(Nat) : a = I[p][c] /\ s = Queue(O, p, c)
    BY QueueType DEF InVcsType
  <2>2. 0 \in Nat /\ 0 <= Len(s)
    OBVIOUS
  <2>3. a \o SubSeq(s, 1, 0) = a
    BY <2>2, PrefixGrows
  <2> QED BY <1>4, <2>1, <2>3
<1>6. InTurn(O, g)
  BY <1>4 DEF InTurn
<1>7. OffGrid \in SUBSET OutVcs
  BY DEF OffGrid, OutVcs
<1>8. Total(OffGrid, GoneOff(g)) = 0
  <2>1. IsFiniteSet(OffGrid)
    BY <1>7, VcsAreFinite, FS_Subset
  <2>2. GoneOff(g) \in [OffGrid -> Int] /\ \A m \in OffGrid : GoneOff(g)[m] = 0
    BY <1>1, <1>7 DEF GoneOff
  <2> QED BY <2>1, <2>2, TotalZero
<1>9. Fallen(O, g) = {}
  <2> SUFFICES ASSUME NEW m \in OffGrid
               PROVE  Range(SubSeq(O[m[1]][m[2]][m[3]], 1, g[m])) = {}
    BY DEF Fallen
  <2>1. g[m] = 0 /\ O[m[1]][m[2]][m[3]] \in Seq(Nat)
    BY <1>1, <1>7 DEF OutVcsType, OutVcs
  <2>2. PICK s \in Seq(Nat) : s = O[m[1]][m[2]][m[3]]
    BY <2>1
  <2>3. SubSeq(s, 1, 0) \in Seq(Nat) /\ Len(SubSeq(s, 1, 0)) = 0
    <3>1. 0 \in Nat /\ 0 <= Len(s)
      OBVIOUS
    <3> QED BY <3>1, PrefixGrows
  <2>4. DOMAIN SubSeq(s, 1, 0) = {}
    BY <2>3, LenProperties
  <2> QED BY <2>1, <2>2, <2>4 DEF Range
<1> QED BY <1>3, <1>5, <1>6, <1>8, <1>9

\* One more wavelet has left the output VC (q, d, c).
OneMore(g, h, q, d, c) ==
    /\ h[<<q, d, c>>] = g[<<q, d, c>>] + 1
    /\ \A p \in PE, e \in Dir, b \in Colors :
          ~(p = q /\ e = d /\ b = c) => h[<<p, e, b>>] = g[<<p, e, b>>]

LEMMA OneMoreSent ==
    ASSUME NEW g \in [OutVcs -> Nat], NEW q \in PE, NEW d \in Dir, NEW c \in Colors
    PROVE  \E h \in [OutVcs -> Nat] : OneMore(g, h, q, d, c)
<1>1. PICK k \in Nat : k = g[<<q, d, c>>]
  BY DEF OutVcs
<1> DEFINE h == [g EXCEPT ![<<q, d, c>>] = k + 1]
<1>2. h \in [OutVcs -> Nat] /\ <<q, d, c>> \in OutVcs
  BY DEF OutVcs
<1>3. h[<<q, d, c>>] = k + 1
  BY <1>2
<1>4. \A p \in PE, e \in Dir, b \in Colors :
          ~(p = q /\ e = d /\ b = c) => h[<<p, e, b>>] = g[<<p, e, b>>]
  BY DEF OutVcs
<1> HIDE DEF h
<1> QED BY <1>1, <1>2, <1>3, <1>4 DEF OneMore

\* It was the front one, and it left alone.
WasFront(O, g, h, outs, outs2, q, d, c) ==
    /\ g[<<q, d, c>>] < Len(O[q][d][c])
    /\ Head(outs[q][d][c]) = O[q][d][c][g[<<q, d, c>>] + 1]
    /\ Left(O, h, outs2)

LEMMA FrontWasSent ==
    ASSUME NEW O \in OutVcsType, NEW g \in [OutVcs -> Nat], NEW h \in [OutVcs -> Nat],
           NEW outs \in OutVcsType, Left(O, g, outs),
           NEW q \in PE, NEW d \in Dir, NEW c \in Colors, outs[q][d][c] # <<>>,
           OneMore(g, h, q, d, c),
           NEW outs2, outs2 = [outs EXCEPT ![q][d][c] = Tail(outs[q][d][c])]
    PROVE  WasFront(O, g, h, outs, outs2, q, d, c)
<1>1. PICK k \in Nat, s \in Seq(Nat), t \in Seq(Nat) :
         k = g[<<q, d, c>>] /\ s = O[q][d][c] /\ t = outs[q][d][c]
  <2>1. g[<<q, d, c>>] \in Nat
    BY DEF OutVcs
  <2>2. O[q][d][c] \in Seq(Nat) /\ outs[q][d][c] \in Seq(Nat)
    BY DEF OutVcsType
  <2> QED BY <2>1, <2>2
<1>2. k <= Len(s) /\ t = SubSeq(s, k + 1, Len(s)) /\ t # <<>>
  BY <1>1 DEF Left
<1>3. k # Len(s)
  BY <1>2, FrontLeaves
<1>4. k < Len(s) /\ Len(s) \in Nat
  BY <1>2, <1>3
<1>5. Head(SubSeq(s, k + 1, Len(s))) = s[k + 1]
      /\ Tail(SubSeq(s, k + 1, Len(s))) = SubSeq(s, k + 2, Len(s))
  BY <1>4, FrontLeaves
<1>6. Left(O, h, outs2)
  <2> SUFFICES ASSUME NEW p \in PE, NEW e \in Dir, NEW b \in Colors
               PROVE  /\ h[<<p, e, b>>] <= Len(O[p][e][b])
                      /\ outs2[p][e][b] = SubSeq(O[p][e][b], h[<<p, e, b>>] + 1, Len(O[p][e][b]))
    BY DEF Left
  <2>1. CASE p = q /\ e = d /\ b = c
    <3>1. outs2[q][d][c] = Tail(t)
      BY <1>1 DEF OutVcsType
    <3>2. h[<<q, d, c>>] = k + 1 /\ (k + 1) + 1 = k + 2 /\ k + 1 <= Len(s)
      BY <1>1, <1>4, SMTT(60) DEF OneMore
    <3>3. outs2[q][d][c] = SubSeq(s, h[<<q, d, c>>] + 1, Len(s))
      BY <1>2, <1>5, <3>1, <3>2
    <3> QED BY <1>1, <2>1, <3>2, <3>3
  <2>2. CASE ~(p = q /\ e = d /\ b = c)
    <3>1. outs2[p][e][b] = outs[p][e][b]
      BY <2>2 DEF OutVcsType
    <3>2. h[<<p, e, b>>] = g[<<p, e, b>>]
      BY <2>2 DEF OneMore
    <3>3. /\ g[<<p, e, b>>] <= Len(O[p][e][b])
          /\ outs[p][e][b] = SubSeq(O[p][e][b], g[<<p, e, b>>] + 1, Len(O[p][e][b]))
      BY DEF Left
    <3> QED BY <3>1, <3>2, <3>3
  <2> QED BY <2>1, <2>2
<1> QED BY <1>1, <1>2, <1>4, <1>5, <1>6 DEF WasFront

\* What one more wavelet from (q, d, c) changes is what was sent to its far end.
MoreToOne(g, h, q, d, c) ==
    /\ \A p \in PE, e \in Dir, b \in Colors :
          ~(p = Hop(q, d) /\ e = d /\ b = c) => SentTo(h, p, e, b) = SentTo(g, p, e, b)
    /\ Hop(q, d) \in PE => /\ SentTo(g, Hop(q, d), d, c) = g[<<q, d, c>>]
                           /\ SentTo(h, Hop(q, d), d, c) = g[<<q, d, c>>] + 1

LEMMA OneMoreTo ==
    ASSUME NEW g \in [OutVcs -> Nat], NEW h \in [OutVcs -> Nat],
           NEW q \in PE, NEW d \in Dir, NEW c \in Colors, OneMore(g, h, q, d, c)
    PROVE  MoreToOne(g, h, q, d, c)
<1>1. ASSUME NEW p \in PE, NEW e \in Dir, NEW b \in Colors, ~(p = Hop(q, d) /\ e = d /\ b = c)
      PROVE  SentTo(h, p, e, b) = SentTo(g, p, e, b)
  <2>1. CASE From(p, e) \notin PE
    BY <2>1 DEF SentTo
  <2>2. CASE From(p, e) \in PE
    <3>1. ~(From(p, e) = q /\ e = d /\ b = c)
      <4>1. Hop(From(p, e), e) = p
        BY HopAndFrom
      <4> QED BY <1>1, <4>1
    <3>2. h[<<From(p, e), e, b>>] = g[<<From(p, e), e, b>>]
      BY <2>2, <3>1 DEF OneMore
    <3> QED BY <2>2, <3>2 DEF SentTo
  <2> QED BY <2>1, <2>2
<1>2. ASSUME Hop(q, d) \in PE
      PROVE  /\ SentTo(g, Hop(q, d), d, c) = g[<<q, d, c>>]
             /\ SentTo(h, Hop(q, d), d, c) = g[<<q, d, c>>] + 1
  <2>1. From(Hop(q, d), d) = q
    BY HopAndFrom
  <2>2. h[<<q, d, c>>] = g[<<q, d, c>>] + 1
    BY DEF OneMore
  <2> QED BY <2>1, <2>2 DEF SentTo
<1> QED BY <1>1, <1>2 DEF MoreToOne

\* A wavelet that is delivered when it is its link's turn.
InStep(O, I, g, ins) == Arrived(O, I, g, ins) /\ InTurn(O, g)

LEMMA OneArrives ==
    ASSUME NEW O \in OutVcsType, NEW I \in InVcsType,
           NEW g \in [OutVcs -> Nat], NEW h \in [OutVcs -> Nat],
           NEW ins \in InVcsType, Arrived(O, I, g, ins), InTurn(O, g),
           NEW q \in PE, NEW d \in Dir, NEW c \in Colors, OneMore(g, h, q, d, c),
           NEW p \in PE, p = Hop(q, d),
           g[<<q, d, c>>] < Len(O[q][d][c]),
           \A e \in Dir : Rank(e) < Rank(d) => SentTo(g, p, e, c) = Len(Bound(O, p, e, c)),
           NEW ins2,
           ins2 = [ins EXCEPT ![p][c] = Append(ins[p][c], O[q][d][c][g[<<q, d, c>>] + 1])]
    PROVE  InStep(O, I, h, ins2)
<1>1. From(p, d) = q
  BY HopAndFrom
<1>2. Bound(O, p, d, c) = O[q][d][c]
  BY <1>1 DEF Bound
<1>3. PICK k \in Nat : k = g[<<q, d, c>>] /\ k < Len(O[q][d][c])
  BY DEF OutVcs
<1>4. /\ \A b \in Colors, r \in PE, e \in Dir :
            ~(r = p /\ e = d /\ b = c) => SentTo(h, r, e, b) = SentTo(g, r, e, b)
      /\ SentTo(g, p, d, c) = k /\ SentTo(h, p, d, c) = k + 1
  <2>1. MoreToOne(g, h, q, d, c)
    BY OneMoreTo
  <2> QED BY <1>3, <2>1 DEF MoreToOne
<1>5. \A e \in Dir : Rank(d) < Rank(e) => SentTo(g, p, e, c) = 0
  <2> SUFFICES ASSUME NEW e \in Dir, Rank(d) < Rank(e), SentTo(g, p, e, c) # 0
               PROVE  FALSE
    OBVIOUS
  <2>1. SentTo(g, p, e, c) > 0
    <3>1. SentTo(g, p, e, c) \in Nat
      BY SentIsNat DEF SentType
    <3> QED BY <3>1
  <2>2. SentTo(g, p, d, c) = Len(Bound(O, p, d, c))
    BY <2>1 DEF InTurn
  <2> QED BY <1>2, <1>3, <1>4, <2>2
<1>6. PICK m \in Nat : m = Came(g, p, c)
  BY SentIsNat
<1>7. /\ m < Len(Queue(O, p, c))
      /\ Queue(O, p, c)[m + 1] = O[q][d][c][k + 1]
  <2>1. SentTo(g, p, d, c) < Len(Bound(O, p, d, c))
    BY <1>2, <1>3, <1>4
  <2>2. /\ Came(g, p, c) < Len(Queue(O, p, c))
        /\ Queue(O, p, c)[Came(g, p, c) + 1] = Bound(O, p, d, c)[SentTo(g, p, d, c) + 1]
    BY <1>5, <2>1, NextArrival
  <2> QED BY <1>2, <1>4, <1>6, <2>2
<1>8. Came(h, p, c) = m + 1
  <2>1. \A e \in Dir : SentTo(h, p, e, c) = IF e = d THEN SentTo(g, p, e, c) + 1
                                            ELSE SentTo(g, p, e, c)
    BY <1>4
  <2>2. SentType(g, p, c)
    BY SentIsNat
  <2> QED BY <1>6, <2>1, <2>2, SMTT(30) DEF Came, SentType, Dir
<1>9. Arrived(O, I, h, ins2)
  <2> SUFFICES ASSUME NEW r \in PE, NEW b \in Colors
               PROVE  ins2[r][b] = I[r][b] \o SubSeq(Queue(O, r, b), 1, Came(h, r, b))
    BY DEF Arrived
  <2>1. ins[r][b] = I[r][b] \o SubSeq(Queue(O, r, b), 1, Came(g, r, b))
    BY DEF Arrived
  <2>2. CASE r = p /\ b = c
    <3>1. PICK a \in Seq(Nat), s \in Seq(Nat) : a = I[p][c] /\ s = Queue(O, p, c)
      BY QueueType DEF InVcsType
    <3>2. Append(a \o SubSeq(s, 1, m), s[m + 1]) = a \o SubSeq(s, 1, m + 1)
      <4>1. m < Len(s)
        BY <1>7, <3>1
      <4> QED BY <4>1, OneMoreComes
    <3>3. ins2[p][c] = Append(ins[p][c], s[m + 1])
      BY <1>3, <1>7, <3>1 DEF InVcsType
    <3>4. ins[p][c] = a \o SubSeq(s, 1, m)
      BY <1>6, <2>1, <2>2, <3>1
    <3> QED BY <1>8, <2>2, <3>1, <3>2, <3>3, <3>4
  <2>3. CASE ~(r = p /\ b = c)
    <3>1. ins2[r][b] = ins[r][b]
      BY <2>3 DEF InVcsType
    <3>2. Came(h, r, b) = Came(g, r, b)
      <4>1. \A e \in Dir : SentTo(h, r, e, b) = SentTo(g, r, e, b)
        BY <1>4, <2>3
      <4> QED BY <4>1 DEF Came, Dir
    <3> QED BY <2>1, <3>1, <3>2
  <2> QED BY <2>2, <2>3
<1>10. InTurn(O, h)
  <2> SUFFICES ASSUME NEW r \in PE, NEW b \in Colors, NEW f \in Dir, NEW e \in Dir,
                      Rank(e) < Rank(f), SentTo(h, r, f, b) > 0
               PROVE  SentTo(h, r, e, b) = Len(Bound(O, r, e, b))
    BY DEF InTurn
  <2>1. CASE r = p /\ b = c /\ f = d
    <3>1. e # d
      BY <2>1 DEF Rank, Dir
    <3>2. SentTo(h, r, e, b) = SentTo(g, r, e, b)
      BY <1>4, <3>1
    <3> QED BY <2>1, <3>2
  <2>2. CASE ~(r = p /\ b = c /\ f = d)
    <3>1. SentTo(g, r, f, b) > 0
      BY <1>4, <2>2
    <3>2. SentTo(g, r, e, b) = Len(Bound(O, r, e, b))
      BY <3>1 DEF InTurn
    <3>3. ~(r = p /\ b = c /\ e = d)
      BY <1>2, <1>3, <1>4, <3>2
    <3> QED BY <1>4, <3>2, <3>3
  <2> QED BY <2>1, <2>2
<1> QED BY <1>9, <1>10 DEF InStep

\* Off the mesh nothing arrives, and within it nothing falls.
FellAlone(O, I, g, h, ins, q, d, c) ==
    /\ Arrived(O, I, h, ins) /\ InTurn(O, h)
    /\ Total(OffGrid, GoneOff(h)) = Total(OffGrid, GoneOff(g)) + 1
    /\ Total(OffGrid, GoneOff(g)) \in Int
    /\ Fallen(O, h) = Fallen(O, g) \cup {O[q][d][c][g[<<q, d, c>>] + 1]}

LEMMA OneFalls ==
    ASSUME NEW O \in OutVcsType, NEW I \in InVcsType,
           NEW g \in [OutVcs -> Nat], NEW h \in [OutVcs -> Nat],
           NEW ins \in InVcsType, Arrived(O, I, g, ins), InTurn(O, g),
           NEW q \in PE, NEW d \in Dir, NEW c \in Colors, OneMore(g, h, q, d, c),
           Hop(q, d) \notin PE, g[<<q, d, c>>] < Len(O[q][d][c])
    PROVE  FellAlone(O, I, g, h, ins, q, d, c)
<1>1. \A r \in PE, e \in Dir, b \in Colors : SentTo(h, r, e, b) = SentTo(g, r, e, b)
  <2>1. MoreToOne(g, h, q, d, c)
    BY OneMoreTo
  <2> QED BY <2>1 DEF MoreToOne
<1>2. \A r \in PE, b \in Colors : Came(h, r, b) = Came(g, r, b)
  BY <1>1 DEF Came, Dir
<1>3. Arrived(O, I, h, ins)
  BY <1>2 DEF Arrived
<1>4. InTurn(O, h)
  BY <1>1 DEF InTurn
<1>5. PICK x \in OffGrid : x = <<q, d, c>>
  BY DEF OffGrid
<1>6. OffGrid \in SUBSET OutVcs
  BY DEF OffGrid, OutVcs
<1>7. h[x] = g[x] + 1 /\ g[x] \in Nat
  BY <1>5, <1>6 DEF OneMore
<1>8. \A y \in OffGrid : y # x => h[y] = g[y]
  <2> SUFFICES ASSUME NEW y \in OffGrid, y # x
               PROVE  h[y] = g[y]
    OBVIOUS
  <2>1. PICK r \in PE, e \in Dir, b \in Colors : y = <<r, e, b>>
    BY DEF OffGrid
  <2>2. ~(r = q /\ e = d /\ b = c)
    BY <1>5, <2>1
  <2> QED BY <2>1, <2>2 DEF OneMore
<1>9. /\ Total(OffGrid, GoneOff(g)) \in Int
      /\ Total(OffGrid, GoneOff(h)) = Total(OffGrid, GoneOff(g)) + 1
  <2>1. IsFiniteSet(OffGrid)
    BY <1>6, VcsAreFinite, FS_Subset
  <2>2. GoneOff(g) \in [OffGrid -> Int] /\ GoneOff(h) \in [OffGrid -> Int]
    BY <1>6 DEF GoneOff
  <2>3. /\ \A y \in OffGrid : y # x => GoneOff(g)[y] = GoneOff(h)[y]
        /\ GoneOff(h)[x] = GoneOff(g)[x] + 1 /\ 1 \in Int
    BY <1>7, <1>8 DEF GoneOff
  <2>4. PICK f \in [OffGrid -> Int], e \in [OffGrid -> Int], n \in Int :
           f = GoneOff(g) /\ e = GoneOff(h) /\ n = 1
    BY <2>2
  <2>5. \A y \in OffGrid : y # x => f[y] = e[y]
    BY <2>3, <2>4
  <2>5a. e[x] = f[x] + n
    BY <2>3, <2>4
  <2>6. Total(OffGrid, f) \in Int /\ Total(OffGrid, e) = Total(OffGrid, f) + n
    <3>1. MoreAt(OffGrid, f, e, x, n)
      BY <2>1, <2>5, <2>5a DEF MoreAt
    <3> QED BY <3>1, MoreTotal
  <2> QED BY <2>4, <2>6
<1>10. PICK F, G : /\ F = [y \in OffGrid |-> Range(SubSeq(O[y[1]][y[2]][y[3]], 1, g[y]))]
                   /\ G = [y \in OffGrid |-> Range(SubSeq(O[y[1]][y[2]][y[3]], 1, h[y]))]
  OBVIOUS
<1>11. PICK k \in Nat, s \in Seq(Nat) : k = g[x] /\ s = O[q][d][c]
  <2>1. O[q][d][c] \in Seq(Nat)
    BY DEF OutVcsType
  <2> QED BY <1>7, <2>1
<1>11w. PICK w : w = {s[k + 1]}
  OBVIOUS
<1>12. G[x] = F[x] \cup w
  <2>1. k < Len(s) /\ k <= Len(s) /\ k + 1 <= Len(s) /\ k + 1 \in Nat /\ Len(s) \in Nat
    BY <1>5, <1>11, SMTT(30)
  <2>2. PICK j \in Nat : j = k + 1 /\ j <= Len(s)
    BY <2>1
  <2>3. PICK u, v : u = SubSeq(s, 1, k) /\ v = SubSeq(s, 1, j)
    OBVIOUS
  <2>4. /\ u \in Seq(Nat) /\ Len(u) = k /\ \A i \in 1..k : u[i] = s[i]
    BY <2>1, <2>3, PrefixGrows, SMTT(30)
  <2>5. /\ v \in Seq(Nat) /\ Len(v) = j /\ \A i \in 1..j : v[i] = s[i]
    BY <2>2, <2>3, PrefixGrows
  <2>6. Range(u) = {s[i] : i \in 1..k} /\ Range(v) = {s[i] : i \in 1..j}
    BY <2>4, <2>5, LenProperties DEF Range
  <2>7. Range(v) = Range(u) \cup {s[k + 1]}
    BY <2>2, <2>6
  <2>8. x[1] = q /\ x[2] = d /\ x[3] = c
    BY <1>5
  <2> QED BY <1>7, <1>10, <1>11, <1>11w, <2>2, <2>3, <2>7, <2>8
<1>13. \A y \in OffGrid : y # x => G[y] = F[y]
  BY <1>8, <1>10
<1>14. Fallen(O, g) = UNION {F[y] : y \in OffGrid} /\ Fallen(O, h) = UNION {G[y] : y \in OffGrid}
  BY <1>10 DEF Fallen
<1>15. UNION {G[y] : y \in OffGrid} = (UNION {F[y] : y \in OffGrid}) \cup w
  BY <1>12, <1>13
<1>16. Fallen(O, h) = Fallen(O, g) \cup {O[q][d][c][g[<<q, d, c>>] + 1]}
  BY <1>5, <1>11, <1>11w, <1>14, <1>15
<1> QED BY <1>3, <1>4, <1>9, <1>16 DEF FellAlone

LEMMA NoneFalls ==
    ASSUME NEW O, NEW g \in [OutVcs -> Nat], NEW h \in [OutVcs -> Nat],
           NEW q \in PE, NEW d \in Dir, NEW c \in Colors, OneMore(g, h, q, d, c),
           Hop(q, d) \in PE
    PROVE  GoneOff(h) = GoneOff(g) /\ Fallen(O, h) = Fallen(O, g)
<1>1. \A m \in OffGrid : h[m] = g[m]
  <2> SUFFICES ASSUME NEW r \in PE, NEW e \in Dir, NEW b \in Colors, <<r, e, b>> \in OffGrid
               PROVE  h[<<r, e, b>>] = g[<<r, e, b>>]
    BY DEF OffGrid
  <2>1. ~(r = q /\ e = d /\ b = c)
    BY DEF OffGrid
  <2> QED BY <2>1 DEF OneMore
<1> QED BY <1>1 DEF GoneOff, Fallen

\* The positions are numbers, and tell the VCs of a list of moves apart.
LEMMA PositionIsNat ==
    ASSUME NEW p \in PE, NEW d \in Dir, NEW c \in Colors
    PROVE  Position(p, d, c) \in Nat
<1>1. PICK k \in Nat, e \in Nat, n \in Nat, b \in Nat :
         k = PeNumber(p) /\ e = Place(d) /\ n = NumColors /\ b = c
  BY PeNumbers, DirsAreOrdered, Ids
<1>2. (k * 5 + e) * n + b \in Nat
  OBVIOUS
<1> QED BY <1>1, <1>2 DEF Position, PeNumber

\* The move at the head comes before the rest.
LEMMA HeadMove ==
    ASSUME NEW ins, NEW outs, NEW s, HopTodo(ins, outs, s), s # <<>>
    PROVE  /\ Len(s) \in Nat \ {0} /\ Head(s) = s[1] /\ 1 \in 1..Len(s)
           /\ IsSeq(Tail(s)) /\ Len(Tail(s)) = Len(s) - 1
           /\ \A i \in 1..Len(s) - 1 : i + 1 \in 1..Len(s) /\ Tail(s)[i] = s[i + 1]
           /\ \A i \in 1..Len(s) : MovePosition(s[i]) \in Nat
           /\ \A i \in 1..Len(s) : i # 1 => MovePosition(s[1]) < MovePosition(s[i])
<1>1. /\ Len(s) \in Nat \ {0} /\ Head(s) = s[1]
      /\ IsSeq(Tail(s)) /\ Len(Tail(s)) = Len(s) - 1
      /\ \A i \in 1..Len(s) - 1 : i + 1 \in 1..Len(s) /\ Tail(s)[i] = s[i + 1]
  BY TailIsSeq DEF HopTodo
<1>2. 1 \in 1..Len(s)
  BY <1>1
<1>3. \A i \in 1..Len(s) : MovePosition(s[i]) \in Nat
  BY PositionIsNat DEF HopTodo, IsMove, InBounds, MovePosition
<1>4. \A i \in 1..Len(s) : i # 1 => MovePosition(s[1]) < MovePosition(s[i])
  <2> SUFFICES ASSUME NEW i \in 1..Len(s), i # 1
               PROVE  MovePosition(s[1]) < MovePosition(s[i])
    OBVIOUS
  <2>1. 1 < i
    BY <1>1
  <2> QED BY <1>2, <2>1 DEF HopTodo
<1> QED BY <1>1, <1>2, <1>3, <1>4

\* The links before the one whose turn it is have sent all.
LEMMA OthersHaveSent ==
    ASSUME NEW O \in OutVcsType, NEW g \in [OutVcs -> Nat], NEW ins \in InVcsType,
           NEW outs \in OutVcsType, Left(O, g, outs),
           NEW s, HopTodo(ins, outs, s), s # <<>>,
           NEW q \in PE, NEW d \in Dir, NEW c \in Colors, IsOf(Head(s), q, d, c),
           NEW p \in PE, p = Hop(q, d), Len(ins[p][c]) < kVcDepth,
           NEW e \in Dir, Rank(e) < Rank(d)
    PROVE  SentTo(g, p, e, c) = Len(Bound(O, p, e, c))
<1>1. CASE From(p, e) \notin PE
  BY <1>1 DEF SentTo, Bound
<1>2. CASE From(p, e) \in PE
  <2>1. PICK r \in PE : r = From(p, e)
    BY <1>2
  <2>2. Hop(r, e) = p /\ From(p, d) = q
    BY <2>1, HopAndFrom
  <2>3. Position(r, e, c) < Position(q, d, c)
    BY <2>1, <2>2, LinksInOrder
  <2>4. MovePosition(Head(s)) = Position(q, d, c)
    BY DEF MovePosition, IsOf
  <2>5. Position(r, e, c) \in Nat /\ Position(q, d, c) \in Nat
    BY PositionIsNat
  <2>6. ASSUME NEW i \in 1..Len(s), IsOf(s[i], r, e, c)
        PROVE  FALSE
    <3>1. MovePosition(s[i]) = Position(r, e, c)
      BY <2>6 DEF MovePosition, IsOf
    <3>2. i = 1 \/ MovePosition(Head(s)) < MovePosition(s[i])
      BY HeadMove
    <3>3. i = 1 => s[i] = Head(s)
      BY HeadMove
    <3> QED BY <2>3, <2>4, <2>5, <3>1, <3>2, <3>3
  <2>7. Through(ins, outs, r, e, c)
    BY <2>6 DEF HopTodo
  <2>8. outs[r][e][c] = <<>>
    BY <2>2, <2>7 DEF Through
  <2>9. PICK k \in Nat, t \in Seq(Nat) : k = g[<<r, e, c>>] /\ t = O[r][e][c]
    <3>1. g[<<r, e, c>>] \in Nat
      BY DEF OutVcs
    <3>2. O[r][e][c] \in Seq(Nat)
      BY DEF OutVcsType
    <3> QED BY <3>1, <3>2
  <2>10. k <= Len(t) /\ SubSeq(t, k + 1, Len(t)) = <<>>
    BY <2>8, <2>9 DEF Left
  <2>11. Len(SubSeq(t, k + 1, Len(t))) = Len(t) - k
    BY <2>10, FrontLeaves
  <2>12. k = Len(t)
    <3>1. Len(<<>>) = 0 /\ Len(t) \in Nat
      OBVIOUS
    <3>2. PICK u : u = SubSeq(t, k + 1, Len(t))
      OBVIOUS
    <3>3. Len(u) = 0 /\ Len(u) = Len(t) - k
      BY <2>10, <2>11, <3>1, <3>2
    <3> QED BY <3>1, <3>3
  <2> QED BY <2>1, <2>9, <2>12 DEF SentTo, Bound
<1> QED BY <1>1, <1>2

\* One output VC is set, and no other one changes.
OnlyVc(outs, outs2, q, d, c, v) ==
    \A r \in PE, e \in Dir, b \in Colors :
        outs2[r][e][b] = IF r = q /\ e = d /\ b = c THEN v ELSE outs[r][e][b]

LEMMA OneVcSet ==
    ASSUME NEW outs \in OutVcsType, NEW q \in PE, NEW d \in Dir, NEW c \in Colors, NEW v,
           NEW outs2, outs2 = [outs EXCEPT ![q][d][c] = v]
    PROVE  OnlyVc(outs, outs2, q, d, c, v)
<1> SUFFICES ASSUME NEW r \in PE, NEW e \in Dir, NEW b \in Colors
             PROVE  outs2[r][e][b] = IF r = q /\ e = d /\ b = c THEN v ELSE outs[r][e][b]
  BY DEF OnlyVc
<1>1. CASE r = q /\ e = d /\ b = c
  BY <1>1 DEF OutVcsType
<1>2. CASE ~(r = q /\ e = d /\ b = c)
  BY <1>2 DEF OutVcsType
<1> QED BY <1>1, <1>2

\* One wavelet of the move at the head is done.
LEMMA OneLessTodo ==
    ASSUME NEW ins, NEW outs \in OutVcsType, NEW s, HopTodo(ins, outs, s), s # <<>>,
           NEW m, m = Head(s), NEW q \in PE, NEW d \in Dir, NEW c \in Colors, IsOf(m, q, d, c),
           outs[q][d][c] # <<>>,
           NEW outs2, OnlyVc(outs, outs2, q, d, c, Tail(outs[q][d][c])),
           NEW ins2,
           \A r \in PE, b \in Colors :
              ~(Len(ins[r][b]) < kVcDepth) => ~(Len(ins2[r][b]) < kVcDepth),
           NEW s2, s2 = <<[m EXCEPT !.count = m.count - 1]>> \o Tail(s)
    PROVE  HopTodo(ins2, outs2, s2)
<1>1. PICK vc \in Seq(Nat) :
         /\ IsOf(m, q, d, c) /\ vc = outs[q][d][c] /\ vc # <<>>
         /\ m = [pe |-> q, dir |-> d, color |-> c, count |-> Len(vc)]
  <2>1. IsMove(m, outs)
    BY HeadMove DEF HopTodo
  <2>2. outs[q][d][c] \in Seq(Nat)
    BY DEF OutVcsType
  <2> QED BY <2>1, <2>2 DEF IsMove, IsOf
<1>2. PICK m2 : m2 = [pe |-> q, dir |-> d, color |-> c, count |-> Len(vc) - 1]
  OBVIOUS
<1>3. [m EXCEPT !.count = m.count - 1] = m2
  <2>1. PICK v, w : v = Len(vc) /\ w = v - 1
    OBVIOUS
  <2>2. m = [pe |-> q, dir |-> d, color |-> c, count |-> v]
    BY <1>1, <2>1
  <2>3. m.count = v /\ m.count - 1 = w
    BY <2>1, <2>2
  <2>4. [m EXCEPT !.count = w] = [pe |-> q, dir |-> d, color |-> c, count |-> w]
    BY <2>2
  <2> QED BY <1>2, <2>1, <2>3, <2>4
<1>4. /\ Len(s) \in Nat \ {0} /\ Head(s) = s[1] /\ 1 \in 1..Len(s)
      /\ IsSeq(Tail(s)) /\ Len(Tail(s)) = Len(s) - 1
      /\ \A i \in 1..Len(s) - 1 : i + 1 \in 1..Len(s) /\ Tail(s)[i] = s[i + 1]
  BY HeadMove
<1>5. PICK a, t : a = <<m2>> /\ t = Tail(s)
  OBVIOUS
<1>6. IsSeq(a) /\ Len(a) = 1 /\ a[1] = m2
  <2>1. a \in Seq({m2})
    BY <1>5
  <2> QED BY <1>5, <2>1, TypedIsSeq
<1>6a. IsSeq(a) /\ IsSeq(t)
  BY <1>4, <1>5, <1>6
<1>7. /\ IsSeq(a \o t) /\ Len(a \o t) = Len(a) + Len(t)
      /\ \A i \in 1..Len(a) : (a \o t)[i] = a[i]
      /\ \A i \in Len(a) + 1..Len(a) + Len(t) :
            i - Len(a) \in 1..Len(t) /\ (a \o t)[i] = t[i - Len(a)]
  BY <1>6a, ConcatIsSeq
<1>8. IsSeq(s2) /\ Len(s2) = Len(s) /\ s2[1] = m2
  <2>1. s2 = a \o t /\ Len(t) = Len(s) - 1
    BY <1>3, <1>4, <1>5
  <2>2. 1 \in 1..Len(a) /\ Len(a) + Len(t) = Len(s)
    BY <1>4, <1>6, <2>1
  <2>3. (a \o t)[1] = m2
    BY <1>6, <1>7, <2>2
  <2> QED BY <1>7, <2>1, <2>2, <2>3
<1>9. \A i \in 1..Len(s) : i # 1 => s2[i] = s[i]
  <2> SUFFICES ASSUME NEW i \in 1..Len(s), i # 1
               PROVE  s2[i] = s[i]
    OBVIOUS
  <2>1. PICK j \in 1..Len(s) - 1 : j = i - 1 /\ j + 1 = i
    BY <1>4
  <2>2. i \in Len(a) + 1..Len(a) + Len(t)
    BY <1>4, <1>5, <1>6
  <2>3. (a \o t)[i] = t[i - Len(a)] /\ i - Len(a) = j
    BY <1>6, <1>7, <2>1, <2>2
  <2> QED BY <1>3, <1>4, <1>5, <2>1, <2>3
<1>10. m2.pe = q /\ m2.dir = d /\ m2.color = c /\ m2.count = Len(vc) - 1
  BY <1>2
<1>11. MovePosition(m2) = MovePosition(m) /\ \A r, e, b : IsOf(m2, r, e, b) <=> IsOf(m, r, e, b)
  BY <1>1, <1>10 DEF MovePosition, IsOf
<1>12. \A i \in 1..Len(s) : /\ MovePosition(s2[i]) = MovePosition(s[i])
                            /\ \A r, e, b : IsOf(s2[i], r, e, b) <=> IsOf(s[i], r, e, b)
  BY <1>4, <1>8, <1>9, <1>11
<1>13. \A r \in PE, e \in Dir, b \in Colors :
          outs2[r][e][b] = IF r = q /\ e = d /\ b = c THEN Tail(vc) ELSE outs[r][e][b]
  BY <1>1 DEF OnlyVc
<1>14. ASSUME NEW i \in 1..Len(s)
       PROVE  IsMove(s2[i], outs2)
  <2>1. CASE i = 1
    <3>1. Len(Tail(vc)) = Len(vc) - 1
      BY <1>1, PopVc
    <3>2. outs2[q][d][c] = Tail(vc)
      BY <1>13
    <3>3. m2 = [pe |-> m2.pe, dir |-> m2.dir, color |-> m2.color, count |-> m2.count]
      BY <1>2
    <3>4. IsMove(m2, outs2)
      BY <1>10, <3>1, <3>2, <3>3 DEF IsMove, InBounds
    <3> QED BY <1>8, <2>1, <3>4
  <2>2. CASE i # 1
    <3>1. IsMove(s[i], outs) /\ s2[i] = s[i]
      BY <1>9, <2>2 DEF HopTodo
    <3>2. PICK o : o = s[i]
      OBVIOUS
    <3>3. ~(o.pe = q /\ o.dir = d /\ o.color = c)
      <4>1. MovePosition(s[1]) < MovePosition(s[i]) /\ MovePosition(s[1]) \in Nat
        BY <1>4, <2>2, HeadMove
      <4>2. o.pe = q /\ o.dir = d /\ o.color = c => MovePosition(s[i]) = MovePosition(s[1])
        BY <1>1, <1>4, <3>2 DEF MovePosition, IsOf
      <4> QED BY <4>1, <4>2
    <3>4. o.pe \in PE /\ o.dir \in Dir /\ o.color \in Colors
      BY <3>1, <3>2 DEF IsMove, InBounds
    <3>5. outs2[o.pe][o.dir][o.color] = outs[o.pe][o.dir][o.color]
      BY <1>13, <3>3, <3>4
    <3> QED BY <3>1, <3>2, <3>5, Zenon DEF IsMove
  <2> QED BY <2>1, <2>2
<1>15. \A i, j \in 1..Len(s) : i < j => MovePosition(s2[i]) < MovePosition(s2[j])
  BY <1>12 DEF HopTodo
<1>16. ASSUME NEW r \in PE, NEW e \in Dir, NEW b \in Colors,
              \A i \in 1..Len(s) : ~IsOf(s2[i], r, e, b)
       PROVE  Through(ins2, outs2, r, e, b)
  <2>1. \A i \in 1..Len(s) : ~IsOf(s[i], r, e, b)
    BY <1>12, <1>16
  <2>2. Through(ins, outs, r, e, b)
    BY <2>1 DEF HopTodo
  <2>3. ~(r = q /\ e = d /\ b = c)
    BY <1>1, <1>4, <2>1
  <2>4. outs2[r][e][b] = outs[r][e][b]
    BY <1>13, <2>3
  <2> QED BY <2>2, <2>4 DEF Through
<1> QED BY <1>8, <1>14, <1>15, <1>16 DEF HopTodo

\* The move at the head is done, or its receiver is full.
LEMMA NextMoveTodo ==
    ASSUME NEW ins, NEW outs \in OutVcsType, NEW s, HopTodo(ins, outs, s), s # <<>>,
           NEW m, m = Head(s), m.count = 0 \/ Through(ins, outs, m.pe, m.dir, m.color)
    PROVE  HopTodo(ins, outs, Tail(s))
<1>1. /\ Len(s) \in Nat \ {0} /\ Head(s) = s[1] /\ 1 \in 1..Len(s)
      /\ IsSeq(Tail(s)) /\ Len(Tail(s)) = Len(s) - 1
      /\ \A i \in 1..Len(s) - 1 : i + 1 \in 1..Len(s) /\ Tail(s)[i] = s[i + 1]
  BY HeadMove
<1>2. Through(ins, outs, m.pe, m.dir, m.color)
  <2> SUFFICES ASSUME m.count = 0 PROVE outs[m.pe][m.dir][m.color] = <<>>
    BY DEF Through
  <2>1. IsMove(m, outs)
    BY <1>1 DEF HopTodo
  <2>2. Len(outs[m.pe][m.dir][m.color]) = 0
    BY <2>1 DEF IsMove
  <2>3. outs[m.pe][m.dir][m.color] \in Seq(Nat)
    BY <2>1 DEF IsMove, InBounds, OutVcsType
  <2> QED BY <2>2, <2>3, EmptySeq
<1>3. PICK t : t = Tail(s)
  OBVIOUS
<1>4. \A i \in 1..Len(t) : IsMove(t[i], outs)
  BY <1>1, <1>3 DEF HopTodo
<1>5. \A i, j \in 1..Len(t) : i < j => MovePosition(t[i]) < MovePosition(t[j])
  <2> SUFFICES ASSUME NEW i \in 1..Len(t), NEW j \in 1..Len(t), i < j
               PROVE  MovePosition(t[i]) < MovePosition(t[j])
    OBVIOUS
  <2>1. PICK k \in 1..Len(s), n \in 1..Len(s) : k = i + 1 /\ n = j + 1 /\ k < n
    BY <1>1, <1>3
  <2>2. t[i] = s[k] /\ t[j] = s[n]
    BY <1>1, <1>3, <2>1
  <2>3. MovePosition(s[k]) < MovePosition(s[n])
    BY <2>1 DEF HopTodo
  <2> QED BY <2>2, <2>3
<1>6. ASSUME NEW r \in PE, NEW e \in Dir, NEW b \in Colors,
             \A i \in 1..Len(t) : ~IsOf(t[i], r, e, b)
      PROVE  Through(ins, outs, r, e, b)
  <2>1. CASE IsOf(m, r, e, b)
    BY <1>2, <2>1 DEF IsOf
  <2>2. CASE ~IsOf(m, r, e, b)
    <3>1. ASSUME NEW i \in 1..Len(s)
          PROVE  ~IsOf(s[i], r, e, b)
      <4>1. CASE i = 1
        BY <1>1, <2>2, <4>1
      <4>2. CASE i # 1
        <5>1. PICK j \in 1..Len(s) - 1 : j + 1 = i
          <6>1. i - 1 \in 1..Len(s) - 1 /\ (i - 1) + 1 = i
            BY <1>1, <4>2
          <6> QED BY <6>1
        <5>2. t[j] = s[i] /\ j \in 1..Len(t)
          BY <1>1, <1>3, <5>1
        <5> QED BY <1>6, <5>2
      <4> QED BY <4>1, <4>2
    <3> QED BY <3>1 DEF HopTodo
  <2> QED BY <2>1, <2>2
<1> QED BY <1>1, <1>3, <1>4, <1>5, <1>6 DEF HopTodo

LEMMA HopPhaseNext ==
    ASSUME Begun(start'), config' = start'[3], HopTodo(inVc', outVc', todo'),
           \E n \in [InVcs -> Nat], g \in [OutVcs -> Nat], I \in InVcsType, O \in OutVcsType :
              /\ AllForwarded(start', n, I, O)
              /\ born' = start'[6] + Total(InVcs, Copies(start', n))
              /\ Left(O, g, outVc') /\ Arrived(O, I, g, inVc') /\ InTurn(O, g)
              /\ dropped' = start'[4] + Total(OffGrid, GoneOff(g))
              /\ fell' = start'[5] \cup Fallen(O, g)
    PROVE  InHopPhase'
BY DEF InHopPhase

\* ApplyForwarding has been called for every input VC.
LEMMA BeginHopsCycle ==
    ASSUME IInv, InFwdPhase, BeginHops
    PROVE  InHopPhase'
<1>1. PICK x, ins, outs, s : /\ x = start /\ ins = inVc /\ outs = outVc /\ s = Snapshot
  OBVIOUS
<1>2. /\ ins \in InVcsType /\ outs \in OutVcsType /\ outVc \in OutVcsType /\ Begun(x)
      /\ todo = <<>>
  BY <1>1 DEF IInv, TypeOK, InVcsType, OutVcsType, BeginHops, InFwdPhase
<1>3. /\ inVc' = ins /\ outVc' = outs /\ start' = x /\ todo' = s /\ born' = born
      /\ config' = x[3] /\ dropped' = x[4] /\ fell' = x[5]
  BY <1>1 DEF BeginHops, InFwdPhase, vars, fabricVars, histVars
<1>4. PICK n \in [InVcs -> Nat] :
         Forwarded(x, n, ins, outs) /\ born = x[6] + Total(InVcs, Copies(x, n))
  BY <1>1 DEF InFwdPhase
<1>5. AllForwarded(x, n, ins, outs)
  <2>1. \A p \in PE, c \in Colors : Stalled(x, ins, outs, p, c)
    <3>1. FwdTodo(x, ins, outs, todo)
      BY <1>1 DEF InFwdPhase
    <3>2. \A i \in 1..Len(todo) : FALSE
      <4>1. Len(todo) = 0
        BY <1>2
      <4> QED BY <4>1
    <3> QED BY <3>1, <3>2 DEF FwdTodo
  <2>2. \A p \in PE, c \in Colors, d \in Dir : Len(outs[p][d][c]) <= kVcDepth
    BY <1>1 DEF IInv, VcBounded
  <2> QED BY <1>2, <1>4, <2>1, <2>2 DEF AllForwarded
<1>6. PICK g \in [OutVcs -> Nat] :
         /\ Left(outs, g, outs) /\ Arrived(outs, ins, g, ins) /\ InTurn(outs, g)
         /\ Total(OffGrid, GoneOff(g)) = 0 /\ Fallen(outs, g) = {}
  BY <1>2, NoneSent
<1>7. HopTodo(ins, outs, s)
  <2>1. /\ IsSeq(s)
        /\ \A i \in 1..Len(s) : IsMove(s[i], outs)
        /\ \A i, j \in 1..Len(s) : i < j => MovePosition(s[i]) < MovePosition(s[j])
        /\ \A q \in PE, d \in Dir, c \in Colors :
              (\A i \in 1..Len(s) : ~IsOf(s[i], q, d, c)) => outs[q][d][c] = <<>>
    BY <1>1, <1>2, SnapshotMoves
  <2> QED BY <2>1 DEF HopTodo, Through
<1>8. x[4] = x[4] + Total(OffGrid, GoneOff(g)) /\ x[5] = x[5] \cup Fallen(outs, g)
  BY <1>2, <1>6 DEF Begun
<1> QED BY <1>2, <1>3, <1>4, <1>5, <1>6, <1>7, <1>8, HopPhaseNext

\* A hop within the mesh.
LEMMA DeliverCycle ==
    ASSUME IInv, InHopPhase, Deliver
    PROVE  InHopPhase'
<1>1. PICK x, ins, outs, s, m : /\ x = start /\ ins = inVc /\ outs = outVc /\ s = todo
                                /\ m = Head(todo)
  OBVIOUS
<1>2. PICK q \in PE, d \in Dir, c \in Colors :
         IsOf(m, q, d, c) /\ m.pe = q /\ m.dir = d /\ m.color = c
  BY <1>1, Zenon DEF Deliver, InBounds, IsOf
<1>3. PICK p \in PE : p = Hop(q, d)
  BY <1>1, <1>2, Zenon DEF Deliver
<1>4. /\ ins \in InVcsType /\ outs \in OutVcsType /\ Begun(x) /\ s # <<>>
      /\ HopTodo(ins, outs, s) /\ outs[q][d][c] # <<>> /\ Len(ins[p][c]) < kVcDepth
  BY <1>1, <1>2, <1>3, Zenon DEF IInv, TypeOK, InVcsType, OutVcsType, Deliver, InHopPhase
<1>5. PICK vc : vc = outs[q][d][c]
  OBVIOUS
<1>6. /\ inVc' = [ins EXCEPT ![p][c] = Append(ins[p][c], Head(vc))]
      /\ outVc' = [outs EXCEPT ![q][d][c] = Tail(vc)]
      /\ todo' = <<[m EXCEPT !.count = m.count - 1]>> \o Tail(s)
      /\ config' = x[3] /\ dropped' = dropped /\ fell' = fell /\ born' = born /\ start' = x
  BY <1>1, <1>2, <1>3, <1>5, Zenon DEF Deliver, OneLess, histVars, InHopPhase
<1>7. PICK n \in [InVcs -> Nat], g \in [OutVcs -> Nat], I \in InVcsType, O \in OutVcsType :
         /\ AllForwarded(x, n, I, O)
         /\ born = x[6] + Total(InVcs, Copies(x, n))
         /\ Left(O, g, outs) /\ Arrived(O, I, g, ins) /\ InTurn(O, g)
         /\ dropped = x[4] + Total(OffGrid, GoneOff(g))
         /\ fell = x[5] \cup Fallen(O, g)
  BY <1>1 DEF InHopPhase
<1>8. PICK h \in [OutVcs -> Nat] : OneMore(g, h, q, d, c)
  BY OneMoreSent
<1>9. PICK ins2, outs2, s2 :
         /\ ins2 = [ins EXCEPT ![p][c] = Append(ins[p][c], Head(vc))] /\ inVc' = ins2
         /\ outs2 = [outs EXCEPT ![q][d][c] = Tail(outs[q][d][c])] /\ outVc' = outs2
         /\ s2 = <<[m EXCEPT !.count = m.count - 1]>> \o Tail(s) /\ todo' = s2
  BY <1>5, <1>6
<1>10. /\ g[<<q, d, c>>] < Len(O[q][d][c])
       /\ Head(outs[q][d][c]) = O[q][d][c][g[<<q, d, c>>] + 1]
       /\ Left(O, h, outs2)
  <2>1. WasFront(O, g, h, outs, outs2, q, d, c)
    BY <1>4, <1>7, <1>8, <1>9, FrontWasSent
  <2> QED BY <2>1 DEF WasFront
<1>11. \A e \in Dir : Rank(e) < Rank(d) => SentTo(g, p, e, c) = Len(Bound(O, p, e, c))
  <2>1. IsOf(Head(s), q, d, c)
    BY <1>1, <1>2
  <2> QED BY <1>3, <1>4, <1>7, <2>1, OthersHaveSent
<1>12. Arrived(O, I, h, ins2) /\ InTurn(O, h)
  <2>1. ins2 = [ins EXCEPT ![p][c] = Append(ins[p][c], O[q][d][c][g[<<q, d, c>>] + 1])]
    BY <1>5, <1>9, <1>10
  <2>2. InStep(O, I, h, ins2)
    BY <1>3, <1>4, <1>7, <1>8, <1>10, <1>11, <2>1, OneArrives
  <2> QED BY <2>2 DEF InStep
<1>13. GoneOff(h) = GoneOff(g) /\ Fallen(O, h) = Fallen(O, g)
  BY <1>3, <1>8, NoneFalls
<1>14. HopTodo(ins2, outs2, s2)
  <2>1. ASSUME NEW r \in PE, NEW b \in Colors, ~(Len(ins[r][b]) < kVcDepth)
        PROVE  ~(Len(ins2[r][b]) < kVcDepth)
    <3>1. ~(r = p /\ b = c)
      BY <1>4, <2>1
    <3> QED BY <1>9, <2>1, <3>1 DEF InVcsType
  <2>2. m = Head(s) /\ IsOf(m, q, d, c) /\ outs[q][d][c] # <<>>
    BY <1>1, <1>2, <1>4
  <2>3. OnlyVc(outs, outs2, q, d, c, Tail(outs[q][d][c]))
    BY <1>4, <1>9, OneVcSet
  <2>4. s2 = <<[m EXCEPT !.count = m.count - 1]>> \o Tail(s)
    BY <1>9
  <2>5. outs \in OutVcsType /\ HopTodo(ins, outs, s) /\ s # <<>>
    BY <1>4
  <2> QED BY <2>1, <2>2, <2>3, <2>4, <2>5, OneLessTodo
<1>15. /\ Begun(start') /\ config' = start'[3] /\ HopTodo(inVc', outVc', todo')
       /\ AllForwarded(start', n, I, O)
       /\ born' = start'[6] + Total(InVcs, Copies(start', n))
       /\ Left(O, h, outVc') /\ Arrived(O, I, h, inVc') /\ InTurn(O, h)
       /\ dropped' = start'[4] + Total(OffGrid, GoneOff(h))
       /\ fell' = start'[5] \cup Fallen(O, h)
  BY <1>4, <1>6, <1>7, <1>9, <1>10, <1>12, <1>13, <1>14
<1> QED BY <1>15, HopPhaseNext

\* A hop over the edge of the mesh.
LEMMA DropOffGridCycle ==
    ASSUME IInv, InHopPhase, DropOffGrid
    PROVE  InHopPhase'
<1>1. PICK x, ins, outs, s, m : /\ x = start /\ ins = inVc /\ outs = outVc /\ s = todo
                                /\ m = Head(todo)
  OBVIOUS
<1>2. PICK q \in PE, d \in Dir, c \in Colors :
         IsOf(m, q, d, c) /\ m.pe = q /\ m.dir = d /\ m.color = c
  BY <1>1, Zenon DEF DropOffGrid, InBounds, IsOf
<1>3. Hop(q, d) \notin PE
  BY <1>1, <1>2, Zenon DEF DropOffGrid
<1>4. /\ ins \in InVcsType /\ outs \in OutVcsType /\ Begun(x) /\ s # <<>>
      /\ HopTodo(ins, outs, s) /\ outs[q][d][c] # <<>>
  BY <1>1, <1>2, Zenon DEF IInv, TypeOK, InVcsType, OutVcsType, DropOffGrid, InHopPhase
<1>5. PICK vc : vc = outs[q][d][c]
  OBVIOUS
<1>6. /\ inVc' = ins
      /\ outVc' = [outs EXCEPT ![q][d][c] = Tail(vc)]
      /\ todo' = <<[m EXCEPT !.count = m.count - 1]>> \o Tail(s)
      /\ config' = x[3] /\ dropped' = dropped + 1 /\ fell' = fell \cup {Head(vc)}
      /\ born' = born /\ start' = x
  BY <1>1, <1>2, <1>5, Zenon DEF DropOffGrid, OneLess, InHopPhase
<1>7. PICK n \in [InVcs -> Nat], g \in [OutVcs -> Nat], I \in InVcsType, O \in OutVcsType :
         /\ AllForwarded(x, n, I, O)
         /\ born = x[6] + Total(InVcs, Copies(x, n))
         /\ Left(O, g, outs) /\ Arrived(O, I, g, ins) /\ InTurn(O, g)
         /\ dropped = x[4] + Total(OffGrid, GoneOff(g))
         /\ fell = x[5] \cup Fallen(O, g)
  BY <1>1 DEF InHopPhase
<1>8. PICK h \in [OutVcs -> Nat] : OneMore(g, h, q, d, c)
  BY OneMoreSent
<1>9. PICK outs2, s2 :
         /\ outs2 = [outs EXCEPT ![q][d][c] = Tail(outs[q][d][c])] /\ outVc' = outs2
         /\ s2 = <<[m EXCEPT !.count = m.count - 1]>> \o Tail(s) /\ todo' = s2
  BY <1>5, <1>6
<1>10. /\ g[<<q, d, c>>] < Len(O[q][d][c])
       /\ Head(outs[q][d][c]) = O[q][d][c][g[<<q, d, c>>] + 1]
       /\ Left(O, h, outs2)
  <2>1. WasFront(O, g, h, outs, outs2, q, d, c)
    BY <1>4, <1>7, <1>8, <1>9, FrontWasSent
  <2> QED BY <2>1 DEF WasFront
<1>11. /\ Arrived(O, I, h, ins) /\ InTurn(O, h)
       /\ Total(OffGrid, GoneOff(h)) = Total(OffGrid, GoneOff(g)) + 1
       /\ Total(OffGrid, GoneOff(g)) \in Int
       /\ Fallen(O, h) = Fallen(O, g) \cup {O[q][d][c][g[<<q, d, c>>] + 1]}
  <2>1. FellAlone(O, I, g, h, ins, q, d, c)
    BY <1>3, <1>4, <1>7, <1>8, <1>10, OneFalls
  <2> QED BY <2>1 DEF FellAlone
<1>12. HopTodo(ins, outs2, s2)
  <2>1. \A r \in PE, b \in Colors : ~(Len(ins[r][b]) < kVcDepth) => ~(Len(ins[r][b]) < kVcDepth)
    OBVIOUS
  <2>2. m = Head(s) /\ IsOf(m, q, d, c) /\ outs[q][d][c] # <<>>
    BY <1>1, <1>2, <1>4
  <2>3. OnlyVc(outs, outs2, q, d, c, Tail(outs[q][d][c]))
    BY <1>4, <1>9, OneVcSet
  <2>4. s2 = <<[m EXCEPT !.count = m.count - 1]>> \o Tail(s)
    BY <1>9
  <2>5. outs \in OutVcsType /\ HopTodo(ins, outs, s) /\ s # <<>>
    BY <1>4
  <2> QED BY <2>1, <2>2, <2>3, <2>4, <2>5, OneLessTodo
<1>13. dropped' = x[4] + Total(OffGrid, GoneOff(h))
  <2>1. x[4] \in Int
    BY <1>4 DEF Begun
  <2> QED BY <1>6, <1>7, <1>11, <2>1
<1>14. fell' = x[5] \cup Fallen(O, h)
  <2>1. Head(vc) = O[q][d][c][g[<<q, d, c>>] + 1]
    BY <1>5, <1>10
  <2> QED BY <1>6, <1>7, <1>11, <2>1
<1>15. /\ Begun(start') /\ config' = start'[3] /\ HopTodo(inVc', outVc', todo')
       /\ AllForwarded(start', n, I, O)
       /\ born' = start'[6] + Total(InVcs, Copies(start', n))
       /\ Left(O, h, outVc') /\ Arrived(O, I, h, inVc') /\ InTurn(O, h)
       /\ dropped' = start'[4] + Total(OffGrid, GoneOff(h))
       /\ fell' = start'[5] \cup Fallen(O, h)
  BY <1>4, <1>6, <1>7, <1>9, <1>10, <1>11, <1>12, <1>13, <1>14
<1> QED BY <1>15, HopPhaseNext

\* The move is complete, or its receiver is full.
LEMMA NextMoveCycle ==
    ASSUME IInv, InHopPhase, NextMove
    PROVE  InHopPhase'
<1>1. PICK x, ins, outs, s, m : /\ x = start /\ ins = inVc /\ outs = outVc /\ s = todo
                                /\ m = Head(todo)
  OBVIOUS
<1>2. /\ ins \in InVcsType /\ outs \in OutVcsType /\ Begun(x) /\ s # <<>>
      /\ HopTodo(ins, outs, s)
  BY <1>1 DEF IInv, TypeOK, InVcsType, OutVcsType, NextMove, InHopPhase
<1>3. m = Head(s) /\ (m.count = 0 \/ Through(ins, outs, m.pe, m.dir, m.color))
  <2>1. m.pe \in PE /\ m.color \in Colors
    BY <1>1 DEF NextMove, InBounds
  <2>2. \A q \in PE : Len(ins[q][m.color]) \in Nat
    BY <1>2, <2>1 DEF InVcsType
  <2>3. kVcDepth \in Nat
    BY FabricAssumption
  <2> QED BY <1>1, <2>2, <2>3 DEF NextMove, Through
<1>4. HopTodo(ins, outs, Tail(s))
  BY <1>2, <1>3, NextMoveTodo
<1>5. /\ inVc' = ins /\ outVc' = outs /\ start' = x /\ todo' = Tail(s) /\ born' = born
      /\ config' = x[3] /\ dropped' = dropped /\ fell' = fell
  BY <1>1 DEF NextMove, InHopPhase, vars, fabricVars, histVars
<1>6. \E n \in [InVcs -> Nat], g \in [OutVcs -> Nat], I \in InVcsType, O \in OutVcsType :
         /\ AllForwarded(x, n, I, O)
         /\ born = x[6] + Total(InVcs, Copies(x, n))
         /\ Left(O, g, outs) /\ Arrived(O, I, g, ins) /\ InTurn(O, g)
         /\ dropped = x[4] + Total(OffGrid, GoneOff(g))
         /\ fell = x[5] \cup Fallen(O, g)
  BY <1>1 DEF InHopPhase
<1> QED BY <1>2, <1>4, <1>5, <1>6, HopPhaseNext

\* Every loop iteration keeps the account of the cycle.
LEMMA NextCycleInv == IInv /\ CycleInv /\ [LoopNext]_<<vars, loopVars>> => CycleInv'
<1> SUFFICES ASSUME IInv, CycleInv, [LoopNext]_<<vars, loopVars>>
             PROVE  CycleInv'
  OBVIOUS
<1>1. CASE BeginStep
  <2>1. phase' = "fwd"
    BY <1>1 DEF BeginStep
  <2> QED BY <1>1, <2>1, BeginStepCycle DEF CycleInv
<1>2. CASE Forward
  <2>1. phase = "fwd" /\ phase' = "fwd"
    BY <1>2 DEF Forward, loopVars
  <2> QED BY <1>2, <2>1, ForwardCycle DEF CycleInv
<1>3. CASE ForwardDone
  <2>1. phase = "fwd" /\ phase' = "fwd"
    BY <1>3 DEF ForwardDone
  <2> QED BY <1>3, <2>1, ForwardDoneCycle DEF CycleInv
<1>4. CASE BeginHops
  <2>1. phase = "fwd" /\ phase' = "hop"
    BY <1>4 DEF BeginHops
  <2> QED BY <1>4, <2>1, BeginHopsCycle DEF CycleInv
<1>5. CASE Deliver
  <2>1. phase = "hop" /\ phase' = "hop"
    BY <1>5 DEF Deliver
  <2> QED BY <1>5, <2>1, DeliverCycle DEF CycleInv
<1>6. CASE DropOffGrid
  <2>1. phase = "hop" /\ phase' = "hop"
    BY <1>6 DEF DropOffGrid
  <2> QED BY <1>6, <2>1, DropOffGridCycle DEF CycleInv
<1>7. CASE NextMove
  <2>1. phase = "hop" /\ phase' = "hop"
    BY <1>7 DEF NextMove
  <2> QED BY <1>7, <2>1, NextMoveCycle DEF CycleInv
<1>8. CASE EndStep
  <2>1. phase' = "idle"
    BY <1>8 DEF EndStep
  <2> QED BY <2>1 DEF CycleInv
<1>9. CASE BetweenCycles
  <2>1. phase' = "idle"
    BY <1>9 DEF BetweenCycles, loopVars
  <2> QED BY <2>1 DEF CycleInv
<1>10. CASE UNCHANGED <<vars, loopVars>>
  BY <1>10 DEF CycleInv, InFwdPhase, InHopPhase, vars, fabricVars, histVars, loopVars
<1> QED BY <1>1, <1>2, <1>3, <1>4, <1>5, <1>6, <1>7, <1>8, <1>9, <1>10
    DEF LoopNext, StepLoop

\* The account holds at every moment of every cycle.
LEMMA SpecCycleInv == LoopSpec => []CycleInv
<1>1. LoopInit => CycleInv
  BY DEF LoopInit, CycleInv
<1> QED BY <1>1, NextCycleInv, SpecIInv, PTL DEF LoopSpec

-----------------------------------------------------------------------------
(* The closed form of a cycle. *)

\* A number that none of six is below and that is one of them is the least.
LEMMA LeastOfSix ==
    ASSUME NEW k \in Int, NEW l \in Int, NEW r \in Int, NEW e \in Int, NEW w \in Int,
           NEW n \in Int, NEW s \in Int,
           k <= l, k <= r, k <= e, k <= w, k <= n, k <= s,
           k = l \/ k = r \/ k = e \/ k = w \/ k = n \/ k = s
    PROVE  Least(l, Least(r, Least(e, Least(w, Least(n, s))))) = k
BY DEF Least

\* The room that a color's forwarding finds towards d when the cycle begins.
Towards(x, p, c, d) == IF d \in Tx(x, p, c) THEN kVcDepth - Len(x[2][p][d][c]) ELSE kVcDepth

\* Phase 1 forwards as much as the fullest transmit VC has room for.
LEMMA ForwardedCount ==
    ASSUME NEW x, Begun(x), NEW n \in [InVcs -> Nat], NEW I, NEW O, AllForwarded(x, n, I, O),
           NEW p \in PE, NEW c \in Colors
    PROVE  n[<<p, c>>] =
              IF Tx(x, p, c) = {} THEN 0
              ELSE Least(Len(x[1][p][c]),
                   Least(Towards(x, p, c, "Ramp"),
                   Least(Towards(x, p, c, "East"),
                   Least(Towards(x, p, c, "West"),
                   Least(Towards(x, p, c, "North"), Towards(x, p, c, "South"))))))
<1>1. PICK k \in Nat, l \in Nat, s \in Seq(Nat) :
         k = n[<<p, c>>] /\ l = Len(s) /\ s = x[1][p][c]
  <2>1. n[<<p, c>>] \in Nat
    BY DEF InVcs
  <2>2. x[1][p][c] \in Seq(Nat)
    BY DEF Begun, InVcsType
  <2>3. PICK s \in Seq(Nat) : s = x[1][p][c]
    BY <2>2
  <2>4. PICK l : l = Len(s)
    OBVIOUS
  <2>5. l \in Nat
    BY <2>4
  <2> QED BY <2>1, <2>3, <2>4, <2>5
<1>2. ForwardedAt(x, n, I, O, p, c)
  BY DEF AllForwarded, Forwarded
<1>3. k <= l /\ l <= kVcDepth /\ kVcDepth \in Nat
  BY <1>1, <1>2, FabricAssumption DEF ForwardedAt, Begun
<1>4. CASE Tx(x, p, c) = {}
  BY <1>1, <1>2, <1>4 DEF ForwardedAt
<1>5. CASE Tx(x, p, c) # {}
  <2>1. ASSUME NEW d \in Dir
        PROVE  /\ Towards(x, p, c, d) \in Int
               /\ k <= Towards(x, p, c, d)
               /\ d \in Tx(x, p, c) => Len(O[p][d][c]) = kVcDepth - Towards(x, p, c, d) + k
    <3>1. CASE d \in Tx(x, p, c)
      <4>1. PICK a \in Seq(Nat) : a = x[2][p][d][c]
        BY DEF Begun, OutVcsType
      <4>2. O[p][d][c] = a \o SubSeq(s, 1, k)
        BY <1>1, <1>2, <3>1, <4>1 DEF ForwardedAt
      <4>3. Len(O[p][d][c]) = Len(a) + k
        BY <1>1, <1>3, <4>2, PrefixGrows
      <4>4. Len(a) + k <= kVcDepth /\ Len(a) \in Nat
        BY <4>3 DEF AllForwarded
      <4>5. Towards(x, p, c, d) = kVcDepth - Len(a)
        BY <3>1, <4>1 DEF Towards
      <4> QED BY <1>3, <4>3, <4>4, <4>5
    <3>2. CASE d \notin Tx(x, p, c)
      BY <1>3, <3>2 DEF Towards
    <3> QED BY <3>1, <3>2
  <2>2. Stalled(x, I, O, p, c)
    BY DEF AllForwarded
  <2>3. k = l \/ \E d \in Dir : k = Towards(x, p, c, d)
    <3>1. CASE I[p][c] = <<>>
      <4>1. SubSeq(s, k + 1, Len(s)) = <<>>
        BY <1>1, <1>2, <3>1 DEF ForwardedAt
      <4>2. ~(k < Len(s))
        BY <4>1, FrontLeaves
      <4> QED BY <1>1, <1>3, <4>2
    <3>2. CASE \E d \in Tx(x, p, c) : ~(Len(O[p][d][c]) < kVcDepth)
      <4>1. PICK d \in Tx(x, p, c) : ~(Len(O[p][d][c]) < kVcDepth)
        BY <3>2
      <4>2. d \in Dir
        BY DEF Begun
      <4>3. PICK y \in Int : /\ y = Towards(x, p, c, d) /\ k <= y
                             /\ Len(O[p][d][c]) = kVcDepth - y + k
        BY <2>1, <4>2
      <4>4. k = y
        BY <1>3, <4>1, <4>3
      <4> QED BY <4>2, <4>3, <4>4
    <3> QED BY <1>5, <2>2, <3>1, <3>2 DEF Stalled
  <2>4. PICK r \in Int, e \in Int, w \in Int, o \in Int, u \in Int :
           /\ r = Towards(x, p, c, "Ramp") /\ e = Towards(x, p, c, "East")
           /\ w = Towards(x, p, c, "West") /\ o = Towards(x, p, c, "North")
           /\ u = Towards(x, p, c, "South")
    BY <2>1 DEF Dir
  <2>5. k <= r /\ k <= e /\ k <= w /\ k <= o /\ k <= u
    BY <2>1, <2>4 DEF Dir
  <2>6. k = l \/ k = r \/ k = e \/ k = w \/ k = o \/ k = u
    BY <2>3, <2>4 DEF Dir
  <2>7. Least(l, Least(r, Least(e, Least(w, Least(o, u))))) = k
    BY <1>3, <2>5, <2>6, LeastOfSix
  <2> QED BY <1>1, <1>5, <2>4, <2>7
<1> QED BY <1>4, <1>5

\* Five senders that send in turn, each of w at most and together r at most,
\* until all is sent or r is reached: what each one has sent.
Portion(w, room) == IF room <= 0 THEN 0 ELSE Least(w, room)

InPortions(r, t1, t2, t3, t4, t5, w1, w2, w3, w4, w5) ==
    /\ t1 + t2 + t3 + t4 + t5 = Least(w1 + w2 + w3 + w4 + w5, r)
    /\ t1 = Portion(w1, r)
    /\ t2 = Portion(w2, r - w1)
    /\ t3 = Portion(w3, r - (w1 + w2))
    /\ t4 = Portion(w4, r - (w1 + w2 + w3))
    /\ t5 = Portion(w5, r - (w1 + w2 + w3 + w4))

LEMMA FiveInTurn ==
    ASSUME NEW r \in Int,
           NEW t1 \in Nat, NEW t2 \in Nat, NEW t3 \in Nat, NEW t4 \in Nat, NEW t5 \in Nat,
           NEW w1 \in Nat, NEW w2 \in Nat, NEW w3 \in Nat, NEW w4 \in Nat, NEW w5 \in Nat,
           t1 <= w1, t2 <= w2, t3 <= w3, t4 <= w4, t5 <= w5,
           t2 > 0 => t1 = w1,
           t3 > 0 => t1 = w1 /\ t2 = w2,
           t4 > 0 => t1 = w1 /\ t2 = w2 /\ t3 = w3,
           t5 > 0 => t1 = w1 /\ t2 = w2 /\ t3 = w3 /\ t4 = w4,
           t1 + t2 + t3 + t4 + t5 <= r,
           \/ t1 = w1 /\ t2 = w2 /\ t3 = w3 /\ t4 = w4 /\ t5 = w5
           \/ t1 + t2 + t3 + t4 + t5 = r
    PROVE  InPortions(r, t1, t2, t3, t4, t5, w1, w2, w3, w4, w5)
BY DEF Least, Portion, InPortions

\* What is offered to p before the d-bound wavelets are.
Before(O, p, d, e, c) == IF Rank(e) < Rank(d) THEN Len(Bound(O, p, e, c)) ELSE 0
Earlier(O, p, d, c) ==
    Before(O, p, d, "North", c) + Before(O, p, d, "East", c) + Before(O, p, d, "Ramp", c)
        + Before(O, p, d, "West", c)

\* All that p had room for came to it, and every link sent its part of it.
AllCame(O, I, g, p, c) ==
    LET room == kVcDepth - Len(I[p][c])
    IN  /\ Came(g, p, c) = Least(Len(Queue(O, p, c)), room)
        /\ \A d \in Dir :
              SentTo(g, p, d, c)
                 = Portion(Len(Bound(O, p, d, c)), room - Earlier(O, p, d, c))

LEMMA SentInTurn ==
    ASSUME NEW O \in OutVcsType, NEW I \in InVcsType, NEW g \in [OutVcs -> Nat],
           NEW ins \in InVcsType, NEW outs \in OutVcsType,
           Left(O, g, outs), Arrived(O, I, g, ins), InTurn(O, g),
           NEW p \in PE, NEW c \in Colors, Len(ins[p][c]) <= kVcDepth,
           \A q \in PE, d \in Dir : Through(ins, outs, q, d, c)
    PROVE  AllCame(O, I, g, p, c)
<1>1. PICK a \in Seq(Nat), b \in Seq(Nat), l \in Nat, m \in Nat, r \in Int :
         /\ a = I[p][c] /\ b = Queue(O, p, c) /\ l = Len(a) /\ m = Len(b)
         /\ r = kVcDepth - l
  <2>1. PICK a \in Seq(Nat), b \in Seq(Nat) : a = I[p][c] /\ b = Queue(O, p, c)
    BY QueueType DEF InVcsType
  <2>2. PICK l, m : l = Len(a) /\ m = Len(b)
    OBVIOUS
  <2>3. l \in Nat /\ m \in Nat
    BY <2>2
  <2>4. PICK r : r = kVcDepth - l
    OBVIOUS
  <2>5. r \in Int
    BY <2>3, <2>4, FabricAssumption
  <2> QED BY <2>1, <2>2, <2>3, <2>4, <2>5
<1>2. ASSUME NEW d \in Dir
      PROVE  /\ SentTo(g, p, d, c) \in Nat /\ Len(Bound(O, p, d, c)) \in Nat
             /\ SentTo(g, p, d, c) <= Len(Bound(O, p, d, c))
             /\ SentTo(g, p, d, c) = Len(Bound(O, p, d, c)) \/ ~(Len(ins[p][c]) < kVcDepth)
  <2>1. SentTo(g, p, d, c) \in Nat /\ Len(Bound(O, p, d, c)) \in Nat
    BY SentIsNat, QueueType DEF SentType
  <2>2. CASE From(p, d) \notin PE
    <3>1. SentTo(g, p, d, c) = 0 /\ Len(Bound(O, p, d, c)) = 0
      BY <2>2 DEF SentTo, Bound
    <3> QED BY <3>1
  <2>3. CASE From(p, d) \in PE
    <3>1. PICK q \in PE : q = From(p, d)
      BY <2>3
    <3>2. PICK k \in Nat, t \in Seq(Nat) : k = g[<<q, d, c>>] /\ t = O[q][d][c]
      <4>1. g[<<q, d, c>>] \in Nat
        BY DEF OutVcs
      <4>2. O[q][d][c] \in Seq(Nat)
        BY DEF OutVcsType
      <4> QED BY <4>1, <4>2
    <3>3. SentTo(g, p, d, c) = k /\ Bound(O, p, d, c) = t
      BY <3>1, <3>2 DEF SentTo, Bound
    <3>4. k <= Len(t) /\ outs[q][d][c] = SubSeq(t, k + 1, Len(t))
      BY <3>2 DEF Left
    <3>5. outs[q][d][c] = <<>> => ~(k < Len(t))
      BY <3>4, FrontLeaves
    <3>6. outs[q][d][c] = <<>> \/ ~(Len(ins[p][c]) < kVcDepth)
      <4>1. Hop(q, d) = p
        BY <3>1, HopAndFrom
      <4>2. Through(ins, outs, q, d, c)
        OBVIOUS
      <4> QED BY <4>1, <4>2 DEF Through
    <3>7. Len(t) \in Nat
      OBVIOUS
    <3> QED BY <2>1, <3>3, <3>4, <3>5, <3>6, <3>7
  <2> QED BY <2>2, <2>3
<1>3. PICK t1 \in Nat, t2 \in Nat, t3 \in Nat, t4 \in Nat, t5 \in Nat :
         /\ t1 = SentTo(g, p, "North", c) /\ t2 = SentTo(g, p, "East", c)
         /\ t3 = SentTo(g, p, "Ramp", c) /\ t4 = SentTo(g, p, "West", c)
         /\ t5 = SentTo(g, p, "South", c)
  BY <1>2 DEF Dir
<1>4. PICK w1 \in Nat, w2 \in Nat, w3 \in Nat, w4 \in Nat, w5 \in Nat :
         /\ w1 = Len(Bound(O, p, "North", c)) /\ w2 = Len(Bound(O, p, "East", c))
         /\ w3 = Len(Bound(O, p, "Ramp", c)) /\ w4 = Len(Bound(O, p, "West", c))
         /\ w5 = Len(Bound(O, p, "South", c))
  BY <1>2 DEF Dir
<1>5. t1 <= w1 /\ t2 <= w2 /\ t3 <= w3 /\ t4 <= w4 /\ t5 <= w5
  BY <1>2, <1>3, <1>4 DEF Dir
<1>6. /\ Rank("North") = 1 /\ Rank("East") = 2 /\ Rank("Ramp") = 3 /\ Rank("West") = 4
      /\ Rank("South") = 5
  BY DEF Rank
<1>7. \A d, e \in Dir : Rank(e) < Rank(d) /\ SentTo(g, p, d, c) > 0
                            => SentTo(g, p, e, c) = Len(Bound(O, p, e, c))
  BY DEF InTurn
<1>8. /\ "North" \in Dir /\ "East" \in Dir /\ "Ramp" \in Dir /\ "West" \in Dir /\ "South" \in Dir
  BY DEF Dir
<1>9. t2 > 0 => t1 = w1
  BY <1>3, <1>4, <1>7, RankOrder, Zenon
<1>10. t3 > 0 => t1 = w1 /\ t2 = w2
  <2>1. t3 > 0 => t1 = w1
    BY <1>3, <1>4, <1>7, RankOrder, Zenon
  <2>2. t3 > 0 => t2 = w2
    BY <1>3, <1>4, <1>7, RankOrder, Zenon
  <2> QED BY <2>1, <2>2
<1>11. t4 > 0 => t1 = w1 /\ t2 = w2 /\ t3 = w3
  <2>1. t4 > 0 => t1 = w1
    BY <1>3, <1>4, <1>7, RankOrder, Zenon
  <2>2. t4 > 0 => t2 = w2
    BY <1>3, <1>4, <1>7, RankOrder, Zenon
  <2>3. t4 > 0 => t3 = w3
    BY <1>3, <1>4, <1>7, RankOrder, Zenon
  <2> QED BY <2>1, <2>2, <2>3
<1>12. t5 > 0 => t1 = w1 /\ t2 = w2 /\ t3 = w3 /\ t4 = w4
  <2>1. t5 > 0 => t1 = w1
    BY <1>3, <1>4, <1>7, RankOrder, Zenon
  <2>2. t5 > 0 => t2 = w2
    BY <1>3, <1>4, <1>7, RankOrder, Zenon
  <2>3. t5 > 0 => t3 = w3
    BY <1>3, <1>4, <1>7, RankOrder, Zenon
  <2>4. t5 > 0 => t4 = w4
    BY <1>3, <1>4, <1>7, RankOrder, Zenon
  <2> QED BY <2>1, <2>2, <2>3, <2>4
<1>13. Came(g, p, c) = t1 + t2 + t3 + t4 + t5 /\ m = w1 + w2 + w3 + w4 + w5
  <2>1. m = Lens(O, p, c)
    BY <1>1, QueueType
  <2> QED BY <1>3, <1>4, <2>1 DEF Came, Lens
<1>14. PICK k \in Nat : k = t1 + t2 + t3 + t4 + t5 /\ k <= m
  BY <1>5, <1>13
<1>15. Len(ins[p][c]) = l + k
  <2>1. Came(g, p, c) = k /\ k <= Len(b)
    BY <1>1, <1>13, <1>14
  <2>2. ins[p][c] = a \o SubSeq(b, 1, k)
    BY <1>1, <2>1 DEF Arrived
  <2>3. Len(a \o SubSeq(b, 1, k)) = Len(a) + k
    BY <2>1, PrefixGrows
  <2> QED BY <1>1, <2>2, <2>3
<1>16. k <= r /\ (~(Len(ins[p][c]) < kVcDepth) => k = r)
  <2>1. PICK v \in Nat : v = kVcDepth
    BY FabricAssumption
  <2>2. r = v - l /\ l + k <= v
    BY <1>1, <1>15, <2>1
  <2>3. ~(Len(ins[p][c]) < kVcDepth) => ~(l + k < v)
    BY <1>15, <2>1
  <2> QED BY <2>2, <2>3
<1>17. \/ t1 = w1 /\ t2 = w2 /\ t3 = w3 /\ t4 = w4 /\ t5 = w5
       \/ t1 + t2 + t3 + t4 + t5 = r
  <2>1. \A d \in Dir : SentTo(g, p, d, c) = Len(Bound(O, p, d, c))
                          \/ ~(Len(ins[p][c]) < kVcDepth)
    BY <1>2
  <2> QED BY <1>3, <1>4, <1>8, <1>14, <1>16, <2>1
<1>18. InPortions(r, t1, t2, t3, t4, t5, w1, w2, w3, w4, w5)
  <2>1. t1 + t2 + t3 + t4 + t5 <= r
    BY <1>14, <1>16
  <2> QED BY <1>5, <1>9, <1>10, <1>11, <1>12, <1>17, <2>1, FiveInTurn
<1>19. /\ Earlier(O, p, "North", c) = 0 /\ Earlier(O, p, "East", c) = w1
       /\ Earlier(O, p, "Ramp", c) = w1 + w2 /\ Earlier(O, p, "West", c) = w1 + w2 + w3
       /\ Earlier(O, p, "South", c) = w1 + w2 + w3 + w4
  <2>1. ASSUME NEW d \in Dir
        PROVE  Earlier(O, p, d, c) = (IF 1 < Rank(d) THEN w1 ELSE 0)
                  + (IF 2 < Rank(d) THEN w2 ELSE 0) + (IF 3 < Rank(d) THEN w3 ELSE 0)
                  + (IF 4 < Rank(d) THEN w4 ELSE 0)
    <3>1. /\ Before(O, p, d, "North", c) = IF 1 < Rank(d) THEN w1 ELSE 0
          /\ Before(O, p, d, "East", c) = IF 2 < Rank(d) THEN w2 ELSE 0
          /\ Before(O, p, d, "Ramp", c) = IF 3 < Rank(d) THEN w3 ELSE 0
          /\ Before(O, p, d, "West", c) = IF 4 < Rank(d) THEN w4 ELSE 0
      BY <1>4, <1>6 DEF Before
    <3> QED BY <3>1, Zenon DEF Earlier
  <2>2. Earlier(O, p, "North", c) = 0
    <3>1. PICK f \in Nat : f = Rank("North") /\ f = 1
      BY <1>6
    <3>2. Earlier(O, p, "North", c) = (IF 1 < f THEN w1 ELSE 0) + (IF 2 < f THEN w2 ELSE 0)
             + (IF 3 < f THEN w3 ELSE 0) + (IF 4 < f THEN w4 ELSE 0)
      BY <1>8, <2>1, <3>1, Zenon
    <3> QED BY <3>1, <3>2
  <2>3. Earlier(O, p, "East", c) = w1
    <3>1. PICK f \in Nat : f = Rank("East") /\ f = 2
      BY <1>6
    <3>2. Earlier(O, p, "East", c) = (IF 1 < f THEN w1 ELSE 0) + (IF 2 < f THEN w2 ELSE 0)
             + (IF 3 < f THEN w3 ELSE 0) + (IF 4 < f THEN w4 ELSE 0)
      BY <1>8, <2>1, <3>1, Zenon
    <3> QED BY <3>1, <3>2
  <2>4. Earlier(O, p, "Ramp", c) = w1 + w2
    <3>1. PICK f \in Nat : f = Rank("Ramp") /\ f = 3
      BY <1>6
    <3>2. Earlier(O, p, "Ramp", c) = (IF 1 < f THEN w1 ELSE 0) + (IF 2 < f THEN w2 ELSE 0)
             + (IF 3 < f THEN w3 ELSE 0) + (IF 4 < f THEN w4 ELSE 0)
      BY <1>8, <2>1, <3>1, Zenon
    <3> QED BY <3>1, <3>2, SMTT(30)
  <2>5. Earlier(O, p, "West", c) = w1 + w2 + w3
    <3>1. PICK f \in Nat : f = Rank("West") /\ f = 4
      BY <1>6
    <3>2. Earlier(O, p, "West", c) = (IF 1 < f THEN w1 ELSE 0) + (IF 2 < f THEN w2 ELSE 0)
             + (IF 3 < f THEN w3 ELSE 0) + (IF 4 < f THEN w4 ELSE 0)
      BY <1>8, <2>1, <3>1, Zenon
    <3> QED BY <3>1, <3>2
  <2>6. Earlier(O, p, "South", c) = w1 + w2 + w3 + w4
    <3>1. PICK f \in Nat : f = Rank("South") /\ f = 5
      BY <1>6
    <3>2. Earlier(O, p, "South", c) = (IF 1 < f THEN w1 ELSE 0) + (IF 2 < f THEN w2 ELSE 0)
             + (IF 3 < f THEN w3 ELSE 0) + (IF 4 < f THEN w4 ELSE 0)
      BY <1>8, <2>1, <3>1, Zenon
    <3> QED BY <3>1, <3>2
  <2> QED BY <2>2, <2>3, <2>4, <2>5, <2>6
<1>20. Came(g, p, c) = Least(Len(Queue(O, p, c)), kVcDepth - Len(I[p][c]))
  BY <1>1, <1>13, <1>18 DEF InPortions
<1>21. ASSUME NEW d \in Dir
       PROVE  SentTo(g, p, d, c)
                 = Portion(Len(Bound(O, p, d, c)), r - Earlier(O, p, d, c))
  <2>1. CASE d = "North"
    <3>1. r - 0 = r
      OBVIOUS
    <3> QED BY <1>3, <1>4, <1>18, <1>19, <2>1, <3>1 DEF InPortions
  <2>2. CASE d = "East"
    BY <1>3, <1>4, <1>18, <1>19, <2>2 DEF InPortions
  <2>3. CASE d = "Ramp"
    BY <1>3, <1>4, <1>18, <1>19, <2>3 DEF InPortions
  <2>4. CASE d = "West"
    BY <1>3, <1>4, <1>18, <1>19, <2>4 DEF InPortions
  <2>5. CASE d = "South"
    BY <1>3, <1>4, <1>18, <1>19, <2>5 DEF InPortions
  <2> QED BY <2>1, <2>2, <2>3, <2>4, <2>5 DEF Dir
<1> QED BY <1>1, <1>20, <1>21 DEF AllCame

\* What a through output VC that leads off the mesh has sent is all it had.
LEMMA AllWentOff ==
    ASSUME NEW O \in OutVcsType, NEW g \in [OutVcs -> Nat], NEW ins, NEW outs,
           Left(O, g, outs), NEW q \in PE, NEW d \in Dir, NEW c \in Colors,
           Hop(q, d) \notin PE, Through(ins, outs, q, d, c)
    PROVE  g[<<q, d, c>>] = Len(O[q][d][c])
<1>1. PICK k \in Nat, t \in Seq(Nat) : k = g[<<q, d, c>>] /\ t = O[q][d][c]
  <2>1. g[<<q, d, c>>] \in Nat
    BY DEF OutVcs
  <2>2. O[q][d][c] \in Seq(Nat)
    BY DEF OutVcsType
  <2> QED BY <2>1, <2>2
<1>2. k <= Len(t) /\ <<>> = SubSeq(t, k + 1, Len(t))
  BY <1>1 DEF Left, Through
<1>3. ~(k < Len(t)) /\ Len(t) \in Nat
  BY <1>2, FrontLeaves
<1> QED BY <1>1, <1>2, <1>3

-----------------------------------------------------------------------------
(* The cycle of Fabric, seen from the state that the loops began with. *)

\* The mesh is the same one.
LEMMA SameMesh ==
    /\ Cycle!PE = PE /\ Cycle!Dir = Dir /\ Cycle!OffGrid = OffGrid
    /\ \A p, d : Cycle!Hop(p, d) = Hop(p, d) /\ Cycle!From(p, d) = From(p, d)
    /\ \A d : Cycle!Rank(d) = Rank(d)
    /\ \A a, b : Cycle!Least(a, b) = Least(a, b)
<1>1. Cycle!PE = PE /\ Cycle!Dir = Dir
  BY DEF Cycle!PE, PE, Cycle!Dir, Dir
<1>2. \A p, d : Cycle!Hop(p, d) = Hop(p, d)
  BY DEF Cycle!Hop, Hop
<1>3. \A p, d : Cycle!From(p, d) = From(p, d)
  BY DEF Cycle!From, From
<1>4. \A d : Cycle!Rank(d) = Rank(d)
  BY DEF Cycle!Rank, Rank
<1>5. \A a, b : Cycle!Least(a, b) = Least(a, b)
  BY DEF Cycle!Least, Least
<1>6. Cycle!OffGrid = OffGrid
  BY <1>1, <1>2 DEF Cycle!OffGrid, OffGrid
<1> QED BY <1>1, <1>2, <1>3, <1>4, <1>5, <1>6

\* Within a cycle the fabric is seen as it was when the cycle began.
LEMMA SeenAtStart ==
    ASSUME phase = "hop", NEW x, x = start
    PROVE  /\ AtStart(1, inVc) = x[1] /\ AtStart(2, outVc) = x[2]
           /\ AtStart(3, config) = x[3] /\ AtStart(4, dropped) = x[4]
           /\ AtStart(5, fell) = x[5] /\ AtStart(6, born) = x[6]
BY DEF AtStart

\* What phase 1 forwards is what FwdCount says, ...
LEMMA CycleCount ==
    ASSUME phase = "hop", NEW x, x = start, Begun(x), NEW n \in [InVcs -> Nat],
           NEW I, NEW O, AllForwarded(x, n, I, O), NEW p \in PE, NEW c \in Colors
    PROVE  Cycle!FwdDirs(p, c) = Tx(x, p, c) /\ Cycle!FwdCount(p, c) = n[<<p, c>>]
<1>1. Cycle!FwdDirs(p, c) = Tx(x, p, c)
  BY SeenAtStart DEF Cycle!FwdDirs, Tx
<1>2. \A d : Cycle!RoomTowards(p, c, d) = Towards(x, p, c, d)
  BY <1>1, SeenAtStart DEF Cycle!RoomTowards, Cycle!Room, Towards
<1>3. Cycle!FwdCount(p, c) =
         IF Tx(x, p, c) = {} THEN 0
         ELSE Least(Len(x[1][p][c]),
              Least(Towards(x, p, c, "Ramp"),
              Least(Towards(x, p, c, "East"),
              Least(Towards(x, p, c, "West"),
              Least(Towards(x, p, c, "North"), Towards(x, p, c, "South"))))))
  BY <1>1, <1>2, SeenAtStart, SameMesh DEF Cycle!FwdCount
<1>4. Cycle!FwdCount(p, c) = n[<<p, c>>]
  BY <1>3, ForwardedCount
<1> QED BY <1>1, <1>4

\* ... and leaves in the VCs what the loops left in them.
LEMMA CycleForwarded ==
    ASSUME phase = "hop", NEW x, x = start, Begun(x), NEW n \in [InVcs -> Nat],
           NEW I, NEW O, AllForwarded(x, n, I, O), NEW p \in PE, NEW c \in Colors
    PROVE  Cycle!InFwd(p, c) = I[p][c] /\ \A d \in Dir : Cycle!OutFwd(p, d, c) = O[p][d][c]
<1>1. Cycle!FwdDirs(p, c) = Tx(x, p, c) /\ Cycle!FwdCount(p, c) = n[<<p, c>>]
  BY CycleCount
<1>2. ForwardedAt(x, n, I, O, p, c)
  BY DEF AllForwarded, Forwarded
<1>3. Cycle!InFwd(p, c) = I[p][c]
  BY <1>1, <1>2, SeenAtStart DEF Cycle!InFwd, ForwardedAt
<1>4. \A d \in Dir : Cycle!OutFwd(p, d, c) = O[p][d][c]
  <2>1. AtStart(1, inVc) = x[1] /\ AtStart(2, outVc) = x[2]
    BY SeenAtStart
  <2>2. PICK D, k : D = Tx(x, p, c) /\ k = n[<<p, c>>]
    OBVIOUS
  <2>3. Cycle!FwdDirs(p, c) = D /\ Cycle!FwdCount(p, c) = k
    BY <1>1, <2>2
  <2>4. ASSUME NEW d \in Dir
        PROVE  Cycle!OutFwd(p, d, c) = O[p][d][c]
    <3>1. PICK s : s = IF d \in D THEN x[2][p][d][c] \o SubSeq(x[1][p][c], 1, k)
                       ELSE x[2][p][d][c]
      OBVIOUS
    <3>2. Cycle!OutFwd(p, d, c) = s
      BY <2>1, <2>3, <3>1, Zenon DEF Cycle!OutFwd
    <3>3. O[p][d][c] = s
      BY <1>2, <2>2, <3>1, Zenon DEF ForwardedAt
    <3> QED BY <3>2, <3>3, Zenon
  <2> QED BY <2>4, Zenon
<1> QED BY <1>3, <1>4

\* All that phase 1 leaves, and what of it is bound for a PE.
Matches(I, O) ==
    \A p \in PE, c \in Colors :
        Cycle!InFwd(p, c) = I[p][c] /\ \A d \in Dir : Cycle!OutFwd(p, d, c) = O[p][d][c]

LEMMA CycleArrivals ==
    ASSUME NEW I, NEW O, Matches(I, O), NEW p \in PE, NEW c \in Colors
    PROVE  /\ \A d \in Dir : Cycle!Waiting(p, d, c) = Bound(O, p, d, c)
           /\ Cycle!Arrivals(p, c) = Queue(O, p, c)
           /\ \A d \in Dir : Cycle!Ahead(p, d, c) = Earlier(O, p, d, c)
<1>1. \A d \in Dir : Cycle!Waiting(p, d, c) = Bound(O, p, d, c)
  BY SameMesh DEF Cycle!Waiting, Bound, Matches
<1>2. /\ "North" \in Dir /\ "East" \in Dir /\ "Ramp" \in Dir /\ "West" \in Dir /\ "South" \in Dir
  BY DEF Dir
<1>3. Cycle!Arrivals(p, c) = Queue(O, p, c)
  BY <1>1, <1>2 DEF Cycle!Arrivals, Queue
<1>4. \A d \in Dir : Cycle!Ahead(p, d, c) = Earlier(O, p, d, c)
  BY <1>1, <1>2, SameMesh DEF Cycle!Ahead, Earlier, Before
<1> QED BY <1>1, <1>3, <1>4

\* What phase 2 puts in the input VCs ...
LEMMA CycleInHop ==
    ASSUME NEW I \in InVcsType, NEW O \in OutVcsType, NEW g \in [OutVcs -> Nat],
           NEW ins, Matches(I, O),
           NEW p \in PE, NEW c \in Colors, Arrived(O, I, g, ins), AllCame(O, I, g, p, c)
    PROVE  Cycle!InHop(p, c) = ins[p][c]
<1>1. Cycle!InFwd(p, c) = I[p][c] /\ Cycle!Arrivals(p, c) = Queue(O, p, c)
  BY CycleArrivals DEF Matches
<1>2. Came(g, p, c) = Least(Len(Queue(O, p, c)), kVcDepth - Len(I[p][c]))
  BY DEF AllCame
<1>3. ins[p][c] = I[p][c] \o SubSeq(Queue(O, p, c), 1, Came(g, p, c))
  BY DEF Arrived
<1>4. Cycle!InHop(p, c) =
         Cycle!InFwd(p, c) \o SubSeq(Cycle!Arrivals(p, c), 1,
            Least(Len(Cycle!Arrivals(p, c)), kVcDepth - Len(Cycle!InFwd(p, c))))
  BY SameMesh DEF Cycle!InHop, Cycle!Room
<1> QED BY <1>1, <1>2, <1>3, <1>4

\* ... and takes from the output VCs.
LEMMA CycleSent ==
    ASSUME NEW I \in InVcsType, NEW O \in OutVcsType, NEW g \in [OutVcs -> Nat],
           NEW ins, NEW outs, Matches(I, O), Left(O, g, outs),
           NEW q \in PE, NEW d \in Dir, NEW c \in Colors, Through(ins, outs, q, d, c),
           \A p \in PE : AllCame(O, I, g, p, c)
    PROVE  Cycle!Sent(q, d, c) = g[<<q, d, c>>]
<1>1. Cycle!OutFwd(q, d, c) = O[q][d][c] /\ Cycle!Hop(q, d) = Hop(q, d) /\ Cycle!PE = PE
  BY SameMesh DEF Matches
<1>2. CASE Hop(q, d) \notin PE
  <2>1. Cycle!Sent(q, d, c) = Len(O[q][d][c])
    BY <1>1, <1>2 DEF Cycle!Sent
  <2>2. g[<<q, d, c>>] = Len(O[q][d][c])
    BY <1>2, AllWentOff
  <2> QED BY <2>1, <2>2
<1>3. CASE Hop(q, d) \in PE
  <2>1. PICK p \in PE : p = Hop(q, d) /\ From(p, d) = q
    BY <1>3, HopAndFrom
  <2>2. SentTo(g, p, d, c) = g[<<q, d, c>>] /\ Bound(O, p, d, c) = O[q][d][c]
    BY <2>1 DEF SentTo, Bound
  <2>3. SentTo(g, p, d, c)
           = Portion(Len(Bound(O, p, d, c)), (kVcDepth - Len(I[p][c])) - Earlier(O, p, d, c))
    BY DEF AllCame
  <2>4. Cycle!InFwd(p, c) = I[p][c] /\ Cycle!Ahead(p, d, c) = Earlier(O, p, d, c)
    BY CycleArrivals DEF Matches
  <2>5. Cycle!Sent(q, d, c)
           = Portion(Len(O[q][d][c]), (kVcDepth - Len(I[p][c])) - Earlier(O, p, d, c))
    BY <1>1, <2>1, <2>4, SameMesh DEF Cycle!Sent, Cycle!Room, Portion
  <2> QED BY <2>2, <2>3, <2>5
<1> QED BY <1>2, <1>3

\* The sums of a cycle.
LEMMA SameCardinality == \A S : Cycle!Cardinality(S) = Cardinality(S)
BY DEF Cycle!Cardinality, Cardinality

LEMMA CycleSum ==
    ASSUME NEW S, NEW g \in [S -> Int]
    PROVE  Cycle!SumFunction(g) = Total(S, g)
<1>1. DOMAIN g = S
  OBVIOUS
<1> QED BY <1>1 DEF Cycle!SumFunction, Cycle!SumFunctionOnSet, Cycle!FoldFunctionOnSet,
                    Cycle!MapThenFoldSet, Total, TotalOf, IsTotal, OneOf

\* When every output VC is through, a wavelet that fell is one that waited there.
LEMMA AllFell ==
    ASSUME NEW I \in InVcsType, NEW O \in OutVcsType, NEW g \in [OutVcs -> Nat],
           NEW ins, NEW outs, Matches(I, O), Left(O, g, outs),
           \A q \in PE, d \in Dir, c \in Colors : Through(ins, outs, q, d, c)
    PROVE  Fallen(O, g) = UNION {Cycle!Range(Cycle!OutFwd(m[1], m[2], m[3])) : m \in OffGrid}
<1>1. ASSUME NEW m \in OffGrid
      PROVE  Range(SubSeq(O[m[1]][m[2]][m[3]], 1, g[m]))
                = Cycle!Range(Cycle!OutFwd(m[1], m[2], m[3]))
  <2>1. PICK q \in PE, d \in Dir, c \in Colors : m = <<q, d, c>> /\ Hop(q, d) \notin PE
    BY DEF OffGrid
  <2>2. g[<<q, d, c>>] = Len(O[q][d][c])
    BY <2>1, AllWentOff
  <2>3. PICK s \in Seq(Nat) : s = O[q][d][c]
    BY DEF OutVcsType
  <2>4. SubSeq(s, 1, Len(s)) = s
    OBVIOUS
  <2>5. Cycle!OutFwd(q, d, c) = s
    BY <2>3 DEF Matches
  <2>6. m[1] = q /\ m[2] = d /\ m[3] = c
    BY <2>1
  <2>7. PICK k, t : k = g[m] /\ t = O[m[1]][m[2]][m[3]]
    OBVIOUS
  <2>8. k = Len(s) /\ t = s
    BY <2>1, <2>2, <2>3, <2>6, <2>7
  <2>9. SubSeq(O[m[1]][m[2]][m[3]], 1, g[m]) = s
    BY <2>4, <2>7, <2>8
  <2>10. Cycle!OutFwd(m[1], m[2], m[3]) = s
    BY <2>5, <2>6
  <2> QED BY <2>9, <2>10, Zenon DEF Range, Cycle!Range
<1> QED BY <1>1 DEF Fallen

\* Grid::Step returns from what one Step of Fabric gives.
LEMMA EndStepIsStep ==
    ASSUME IInv, InHopPhase, EndStep
    PROVE  Cycle!Step
<1>1. PICK x, ins, outs : x = start /\ ins = inVc /\ outs = outVc
  OBVIOUS
<1>2. /\ ins \in InVcsType /\ outs \in OutVcsType /\ Begun(x) /\ phase = "hop"
      /\ config = x[3] /\ HopTodo(ins, outs, todo) /\ todo = <<>>
      /\ \A p \in PE, c \in Colors : Len(ins[p][c]) <= kVcDepth
  BY <1>1 DEF IInv, TypeOK, VcBounded, InVcsType, OutVcsType, EndStep, InHopPhase
<1>3. PICK n \in [InVcs -> Nat], g \in [OutVcs -> Nat], I \in InVcsType, O \in OutVcsType :
         /\ AllForwarded(x, n, I, O)
         /\ born = x[6] + Total(InVcs, Copies(x, n))
         /\ Left(O, g, outs) /\ Arrived(O, I, g, ins) /\ InTurn(O, g)
         /\ dropped = x[4] + Total(OffGrid, GoneOff(g))
         /\ fell = x[5] \cup Fallen(O, g)
  BY <1>1 DEF InHopPhase
<1>4. \A q \in PE, d \in Dir, c \in Colors : Through(ins, outs, q, d, c)
  <2>1. \A i \in 1..Len(todo) : FALSE
    <3>1. Len(todo) = 0
      BY <1>2
    <3> QED BY <3>1
  <2> QED BY <1>2, <2>1 DEF HopTodo
<1>5. \A p \in PE, c \in Colors : AllCame(O, I, g, p, c)
  BY <1>2, <1>3, <1>4, SentInTurn
<1>6. Matches(I, O)
  BY <1>1, <1>2, <1>3, CycleForwarded DEF Matches
<1>7. \A p \in PE, c \in Colors : Cycle!InHop(p, c) = ins[p][c]
  BY <1>3, <1>5, <1>6, CycleInHop
<1>8. \A q \in PE, d \in Dir, c \in Colors : Cycle!Sent(q, d, c) = g[<<q, d, c>>]
  BY <1>3, <1>4, <1>5, <1>6, CycleSent
<1>9. \A q \in PE, d \in Dir, c \in Colors : Cycle!OutHop(q, d, c) = outs[q][d][c]
  <2> SUFFICES ASSUME NEW q \in PE, NEW d \in Dir, NEW c \in Colors
               PROVE  Cycle!OutHop(q, d, c) = outs[q][d][c]
    OBVIOUS
  <2>1. Cycle!Sent(q, d, c) = g[<<q, d, c>>] /\ Cycle!OutFwd(q, d, c) = O[q][d][c]
    BY <1>6, <1>8 DEF Matches
  <2>2. outs[q][d][c] = SubSeq(O[q][d][c], g[<<q, d, c>>] + 1, Len(O[q][d][c]))
    BY <1>3 DEF Left
  <2> QED BY <2>1, <2>2 DEF Cycle!OutHop
<1>10. /\ AtStart(1, inVc)' = ins /\ AtStart(2, outVc)' = outs /\ AtStart(3, config)' = config
       /\ AtStart(4, dropped)' = dropped /\ AtStart(5, fell)' = fell
       /\ AtStart(6, born)' = born /\ sent' = sent /\ got' = got
  BY <1>1 DEF EndStep, AtStart, vars, fabricVars, histVars
<1>11. /\ AtStart(3, config) = x[3] /\ AtStart(4, dropped) = x[4]
       /\ AtStart(5, fell) = x[5] /\ AtStart(6, born) = x[6]
  BY <1>1, <1>2 DEF AtStart
<1>12. ins = [p \in Cycle!PE |-> [c \in Colors |-> Cycle!InHop(p, c)]]
  <2>1. ins = [p \in PE |-> [c \in Colors |-> ins[p][c]]]
    BY <1>2 DEF InVcsType
  <2> QED BY <1>7, <2>1, SameMesh
<1>13. outs = [p \in Cycle!PE |-> [d \in Cycle!Dir |-> [c \in Colors |-> Cycle!OutHop(p, d, c)]]]
  <2>1. outs = [p \in PE |-> [d \in Dir |-> [c \in Colors |-> outs[p][d][c]]]]
    BY <1>2 DEF OutVcsType
  <2> QED BY <1>9, <2>1, SameMesh
<1>14. dropped = x[4] + Cycle!SumFunction([m \in Cycle!OffGrid |-> Cycle!Sent(m[1], m[2], m[3])])
  <2>1. \A m \in OffGrid : Cycle!Sent(m[1], m[2], m[3]) = g[m]
    BY <1>8 DEF OffGrid
  <2>2. [m \in Cycle!OffGrid |-> Cycle!Sent(m[1], m[2], m[3])] = GoneOff(g)
    BY <2>1, SameMesh DEF GoneOff
  <2>3. GoneOff(g) \in [OffGrid -> Int]
    BY DEF GoneOff, OffGrid, OutVcs
  <2>4. Cycle!SumFunction(GoneOff(g)) = Total(OffGrid, GoneOff(g))
    BY <2>3, CycleSum
  <2> QED BY <1>3, <2>2, <2>4
<1>15. born = x[6] + Cycle!SumFunction([m \in Cycle!PE \X Colors |->
                   Cycle!FwdCount(m[1], m[2]) * (Cycle!Cardinality(Cycle!FwdDirs(m[1], m[2])) - 1)])
  <2>1. \A p \in PE, c \in Colors :
           Cycle!FwdDirs(p, c) = Tx(x, p, c) /\ Cycle!FwdCount(p, c) = n[<<p, c>>]
    BY <1>1, <1>2, <1>3, CycleCount
  <2>2. \A m \in InVcs :
           Cycle!FwdCount(m[1], m[2]) * (Cycle!Cardinality(Cycle!FwdDirs(m[1], m[2])) - 1)
                            = n[m] * (Cardinality(Tx(x, m[1], m[2])) - 1)
    <3> SUFFICES ASSUME NEW p \in PE, NEW c \in Colors
                 PROVE  Cycle!FwdCount(p, c) * (Cycle!Cardinality(Cycle!FwdDirs(p, c)) - 1)
                           = n[<<p, c>>] * (Cardinality(Tx(x, p, c)) - 1)
      BY DEF InVcs
    <3> QED BY <2>1, SameCardinality
  <2>3. [m \in Cycle!PE \X Colors |->
            Cycle!FwdCount(m[1], m[2]) * (Cycle!Cardinality(Cycle!FwdDirs(m[1], m[2])) - 1)]
           = Copies(x, n)
    BY <2>2, SameMesh DEF Copies, InVcs
  <2>4. Copies(x, n) \in [InVcs -> Int]
    BY <1>2, CopiesType
  <2>5. Cycle!SumFunction(Copies(x, n)) = Total(InVcs, Copies(x, n))
    BY <2>4, CycleSum
  <2> QED BY <1>3, <2>3, <2>5
<1>16. fell = x[5] \cup UNION {Cycle!Range(Cycle!OutFwd(m[1], m[2], m[3])) : m \in Cycle!OffGrid}
  <2>1. Fallen(O, g) = UNION {Cycle!Range(Cycle!OutFwd(m[1], m[2], m[3])) : m \in OffGrid}
    BY <1>3, <1>4, <1>6, AllFell
  <2> QED BY <1>3, <2>1, SameMesh
<1> QED BY <1>2, <1>10, <1>11, <1>12, <1>13, <1>14, <1>15, <1>16
    DEF Cycle!Step, Cycle!SumOver

\* What Fabric sees does not change when the history does not, or is begun.
LEMMA SeenUnchanged ==
    ASSUME phase # "idle", phase' # "idle", UNCHANGED <<start, sent, got>>
    PROVE  UNCHANGED Cycle!vars
BY DEF AtStart, Cycle!vars, Cycle!fabricVars, Cycle!histVars

LEMMA BeginStepStutters ==
    ASSUME BeginStep
    PROVE  UNCHANGED Cycle!vars
<1>1. PICK x : x = <<inVc, outVc, config, dropped, fell, born>>
  OBVIOUS
<1>2. /\ x[1] = inVc /\ x[2] = outVc /\ x[3] = config /\ x[4] = dropped /\ x[5] = fell
      /\ x[6] = born
  BY <1>1
<1>3. phase = "idle" /\ phase' = "fwd" /\ start' = x /\ sent' = sent /\ got' = got
  BY <1>1 DEF BeginStep, vars, histVars
<1> QED BY <1>2, <1>3 DEF AtStart, Cycle!vars, Cycle!fabricVars, Cycle!histVars

\* Between the cycles Fabric sees the fabric as it is.
LEMMA SeenIdle ==
    ASSUME phase = "idle", phase' = "idle"
    PROVE  /\ AtStart(1, inVc) = inVc /\ AtStart(2, outVc) = outVc
           /\ AtStart(3, config) = config /\ AtStart(4, dropped) = dropped
           /\ AtStart(5, fell) = fell /\ AtStart(6, born) = born
           /\ AtStart(1, inVc)' = inVc' /\ AtStart(2, outVc)' = outVc'
           /\ AtStart(3, config)' = config' /\ AtStart(4, dropped)' = dropped'
           /\ AtStart(5, fell)' = fell' /\ AtStart(6, born)' = born'
BY DEF AtStart

LEMMA SetRouteIsSetRoute ==
    ASSUME phase = "idle", phase' = "idle", NEW p, NEW c, NEW rx, NEW tx, SetRoute(p, c, rx, tx)
    PROVE  Cycle!SetRoute(p, c, rx, tx)
BY SeenIdle DEF SetRoute, Cycle!SetRoute, histVars, Cycle!histVars

LEMMA InjectIsInject ==
    ASSUME phase = "idle", phase' = "idle", NEW p, NEW c, NEW dirs, Inject(p, c, dirs)
    PROVE  Cycle!Inject(p, c, dirs)
<1>1. Cycle!HasRoom(p, c, dirs)
  BY SeenIdle DEF Inject, HasRoom, Cycle!HasRoom
<1>2. PushAll(p, c, dirs, Len(sent) + 1) = Cycle!PushAll(p, c, dirs, Len(sent) + 1)
  BY SeenIdle, SameMesh DEF PushAll, Cycle!PushAll
<1> QED BY <1>1, <1>2, SeenIdle, SameCardinality DEF Inject, Cycle!Inject

LEMMA FaboutIsFabout ==
    ASSUME phase = "idle", phase' = "idle", NEW p, NEW c, Fabout(p, c)
    PROVE  Cycle!Fabout(p, c)
BY SeenIdle DEF Fabout, Cycle!Fabout

LEMMA BetweenIsNext ==
    ASSUME BetweenCycles
    PROVE  Cycle!Next
<1>1. phase = "idle" /\ phase' = "idle"
  BY DEF BetweenCycles, loopVars
<1>2. CASE \E r \in Routes : SetRoute(r[1], r[2], r[3], r[4])
  <2>1. PICK r \in Routes : SetRoute(r[1], r[2], r[3], r[4])
    BY <1>2
  <2>2. Cycle!SetRoute(r[1], r[2], r[3], r[4])
    BY <1>1, <2>1, SetRouteIsSetRoute
  <2> QED BY <2>2 DEF Cycle!Next
<1>3. CASE \E i \in Injections : Inject(i[1], i[2], i[3])
  <2>1. PICK i \in Injections : Inject(i[1], i[2], i[3])
    BY <1>3
  <2>2. Cycle!Inject(i[1], i[2], i[3])
    BY <1>1, <2>1, InjectIsInject
  <2> QED BY <2>2 DEF Cycle!Next
<1>4. CASE \E p \in PE, c \in Colors : Fabout(p, c)
  <2>1. PICK p \in PE, c \in Colors : Fabout(p, c)
    BY <1>4
  <2>2. Cycle!Fabout(p, c)
    BY <1>1, <2>1, FaboutIsFabout
  <2> QED BY <2>2, SameMesh DEF Cycle!Next
<1> QED BY <1>2, <1>3, <1>4 DEF BetweenCycles

\* An empty fabric is an empty fabric.
LEMMA LoopInitIsInit == LoopInit => Cycle!Init
<1> SUFFICES ASSUME LoopInit PROVE Cycle!Init
  OBVIOUS
<1>1. /\ AtStart(1, inVc) = inVc /\ AtStart(2, outVc) = outVc
      /\ AtStart(3, config) = config /\ AtStart(4, dropped) = dropped
      /\ AtStart(5, fell) = fell /\ AtStart(6, born) = born
  BY DEF AtStart, LoopInit
<1>2. Cycle!NoConfig = NoConfig
  BY DEF Cycle!NoConfig, NoConfig
<1> QED BY <1>1, <1>2, SameMesh DEF LoopInit, Init, Cycle!Init

\* Every loop iteration is a Step, an operation, or nothing at all.
LEMMA NextIsNext ==
    IInv /\ CycleInv /\ [LoopNext]_<<vars, loopVars>> => [Cycle!Next]_(Cycle!vars)
<1> SUFFICES ASSUME IInv, CycleInv, [LoopNext]_<<vars, loopVars>>
             PROVE  [Cycle!Next]_(Cycle!vars)
  OBVIOUS
<1>1. CASE BeginStep
  BY <1>1, BeginStepStutters
<1>2. CASE Forward \/ ForwardDone \/ BeginHops
  <2>1. phase # "idle" /\ phase' # "idle" /\ UNCHANGED <<start, sent, got>>
    BY <1>2 DEF Forward, ForwardDone, BeginHops, loopVars, vars, histVars
  <2> QED BY <2>1, SeenUnchanged
<1>3. CASE Deliver \/ DropOffGrid \/ NextMove
  <2>1. phase # "idle" /\ phase' # "idle" /\ UNCHANGED <<start, sent, got>>
    BY <1>3 DEF Deliver, DropOffGrid, NextMove, vars, histVars
  <2> QED BY <2>1, SeenUnchanged
<1>4. CASE EndStep
  <2>1. InHopPhase
    BY <1>4 DEF CycleInv, EndStep
  <2>2. Cycle!Step
    BY <1>4, <2>1, EndStepIsStep
  <2> QED BY <2>2 DEF Cycle!Next
<1>5. CASE BetweenCycles
  BY <1>5, BetweenIsNext
<1>6. CASE UNCHANGED <<vars, loopVars>>
  BY <1>6 DEF vars, fabricVars, histVars, loopVars, AtStart, Cycle!vars, Cycle!fabricVars,
              Cycle!histVars
<1> QED BY <1>1, <1>2, <1>3, <1>4, <1>5, <1>6 DEF LoopNext, StepLoop

\* For every mesh, depth, route and client, the loops of Grid::Step, with their
\* visiting order, their early exits and the snapshot of the VC sizes, compute
\* the cycle of Fabric, and the other operations are Fabric's.
THEOREM LoopsImplementCycle == LoopSpec => StepImplementsCycle
<1>1. LoopSpec => Cycle!Init
  BY LoopInitIsInit, PTL DEF LoopSpec
<1>2. LoopSpec => [][Cycle!Next]_(Cycle!vars)
  BY NextIsNext, SpecIInv, SpecCycleInv, PTL DEF LoopSpec
<1> QED BY <1>1, <1>2 DEF StepImplementsCycle, Cycle!Spec

-----------------------------------------------------------------------------
(* The order of a stream, the wavelets of one injection.  Of the wavelets  *)
(* N, those a CE has read from an input VC (B) come before those still in  *)
(* it (L), every VC holds its own in order, and whatever has got farther   *)
(* down the tree was sent before what waits above.                         *)

\* No configuration of the routes brings two copies of a wavelet together again.
PathsDoNotRejoin ==
    \A i \in Injections :
        \E tree \in SUBSET Vc : \E up \in SUBSET (tree \X tree) : IsTree(i, tree, up)

Below(N, A, B) == \A m \in A \cap N, n \in B \cap N : m < n

Rising(N, s) == \A j, k \in 1..Len(s) : j < k /\ s[j] \in N /\ s[k] \in N => s[j] < s[k]

Passed(B, L, v) == Range(B[v]) \cup Range(L[v])

InTree(N, tree, B, L) == \A v \in Vc : Passed(B, L, v) \cap N # {} => v \in tree
EachRises(N, B, L) ==
    \A v \in Vc : Rising(N, B[v]) /\ Rising(N, L[v]) /\ Below(N, Range(B[v]), Range(L[v]))
Descends(N, up, B, L) ==
    \A t, v \in Vc : <<t, v>> \in up => Below(N, Passed(B, L, v), Range(L[t]))

InLine(N, tree, up, B, L) ==
    InTree(N, tree, B, L) /\ EachRises(N, B, L) /\ Descends(N, up, B, L)

\* The front wavelet leaves v; a wavelet comes to the VCs T.
Popped(L, v) == [u \in Vc |-> IF u = v THEN Tail(L[u]) ELSE L[u]]
Pushed(L, T, w) == [u \in Vc |-> IF u \in T THEN Append(L[u], w) ELSE L[u]]

\* What is left behind a front wavelet of the stream follows it.
LEMMA TailRises ==
    ASSUME NEW N, NEW s \in Seq(Nat), s # <<>>, Rising(N, s)
    PROVE  Rising(N, Tail(s)) /\ Below(N, {Head(s)}, Range(Tail(s)))
<1>1. /\ Len(s) \in Nat \ {0} /\ Len(Tail(s)) = Len(s) - 1
      /\ \A k \in 1..Len(Tail(s)) : Tail(s)[k] = s[k + 1]
      /\ Head(s) = s[1] /\ Tail(s) \in Seq(Nat)
  BY HeadTailProperties, EmptySeq, LenProperties
<1>2. DOMAIN Tail(s) = 1..Len(s) - 1
  BY <1>1, LenProperties
<1>3. ASSUME NEW j \in 1..Len(Tail(s)), NEW k \in 1..Len(Tail(s)), j < k,
             Tail(s)[j] \in N, Tail(s)[k] \in N
      PROVE  Tail(s)[j] < Tail(s)[k]
  <2>1. j + 1 \in 1..Len(s) /\ k + 1 \in 1..Len(s) /\ j + 1 < k + 1
    BY <1>1, <1>3
  <2>2. s[j + 1] \in N /\ s[k + 1] \in N /\ Tail(s)[j] = s[j + 1] /\ Tail(s)[k] = s[k + 1]
    BY <1>1, <1>3
  <2> QED BY <2>1, <2>2 DEF Rising
<1>4. ASSUME NEW k \in 1..Len(Tail(s)), Tail(s)[k] \in N, Head(s) \in N
      PROVE  Head(s) < Tail(s)[k]
  <2>1. 1 \in 1..Len(s) /\ k + 1 \in 1..Len(s) /\ 1 < k + 1
    BY <1>1, <1>4
  <2>2. s[k + 1] \in N /\ Tail(s)[k] = s[k + 1]
    BY <1>1, <1>4
  <2> QED BY <1>1, <1>4, <2>1, <2>2 DEF Rising
<1>5. Rising(N, Tail(s))
  BY <1>3 DEF Rising
<1>6. Below(N, {Head(s)}, Range(Tail(s)))
  BY <1>1, <1>2, <1>4 DEF Below, Range
<1> QED BY <1>5, <1>6

\* A wavelet that follows all before it may be appended.
LEMMA AppendRises ==
    ASSUME NEW N, NEW s \in Seq(Nat), NEW w \in Nat, Rising(N, s), Below(N, Range(s), {w})
    PROVE  Rising(N, Append(s, w))
<1>1. /\ Len(s) \in Nat /\ Len(Append(s, w)) = Len(s) + 1
      /\ \A k \in 1..Len(s) : Append(s, w)[k] = s[k]
      /\ Append(s, w)[Len(s) + 1] = w
      /\ DOMAIN s = 1..Len(s)
  BY AppendProperties, LenProperties
<1>2. SUFFICES ASSUME NEW j \in 1..Len(s) + 1, NEW k \in 1..Len(s) + 1, j < k,
                      Append(s, w)[j] \in N, Append(s, w)[k] \in N
               PROVE  Append(s, w)[j] < Append(s, w)[k]
  BY <1>1 DEF Rising
<1>3. j \in 1..Len(s) /\ Append(s, w)[j] = s[j]
  BY <1>1, <1>2
<1>4. CASE k = Len(s) + 1
  <2>1. s[j] \in Range(s) \cap N /\ w \in {w} \cap N /\ Append(s, w)[k] = w
    BY <1>1, <1>2, <1>3, <1>4 DEF Range
  <2> QED BY <1>3, <2>1 DEF Below
<1>5. CASE k # Len(s) + 1
  <2>1. k \in 1..Len(s) /\ Append(s, w)[k] = s[k]
    BY <1>1, <1>2, <1>5
  <2> QED BY <1>2, <1>3, <2>1 DEF Rising
<1> QED BY <1>4, <1>5

VcMap == [Vc -> Seq(Nat)]

\* What a pop leaves in the VCs.
LEMMA PoppedVcs ==
    ASSUME NEW L \in VcMap, NEW v \in Vc, L[v] # <<>>
    PROVE  /\ Popped(L, v) \in VcMap
           /\ \A u \in Vc : Range(Popped(L, v)[u]) \subseteq Range(L[u])
<1>1. \A u \in Vc : /\ L[u] \in Seq(Nat)
                    /\ Popped(L, v)[u] = IF u = v THEN Tail(L[u]) ELSE L[u]
  BY DEF Popped, VcMap
<1>2. Tail(L[v]) \in Seq(Nat) /\ Range(Tail(L[v])) \subseteq Range(L[v])
  BY <1>1, PopVc
<1>3. Popped(L, v) \in VcMap
  BY <1>1, <1>2 DEF Popped, VcMap
<1> QED BY <1>1, <1>2, <1>3

\* What a push makes of the VCs.
LEMMA PushedTyped ==
    ASSUME NEW L \in VcMap, NEW T, NEW w \in Nat
    PROVE  Pushed(L, T, w) \in VcMap
<1>1. \A u \in Vc : L[u] \in Seq(Nat) /\ Append(L[u], w) \in Seq(Nat)
  BY AppendVc DEF VcMap
<1> QED BY <1>1 DEF Pushed, VcMap

\* ... and what is in each of them then.
LEMMA PushedRange ==
    ASSUME NEW L \in VcMap, NEW T, NEW w \in Nat, NEW u \in Vc
    PROVE  Range(Pushed(L, T, w)[u]) = IF u \in T THEN Range(L[u]) \cup {w} ELSE Range(L[u])
<1>1. L[u] \in Seq(Nat) /\ Pushed(L, T, w)[u] = IF u \in T THEN Append(L[u], w) ELSE L[u]
  BY DEF Pushed, VcMap
<1>2. Range(Append(L[u], w)) = Range(L[u]) \cup {w}
  BY <1>1, AppendVc, Zenon
<1> QED BY <1>1, <1>2

\* A push brings nothing but the wavelet pushed.
LEMMA PushedWithin ==
    ASSUME NEW L \in VcMap, NEW T, NEW w \in Nat, NEW u \in Vc
    PROVE  Range(Pushed(L, T, w)[u]) \subseteq Range(L[u]) \cup {w}
<1>1. L[u] \in Seq(Nat) /\ Pushed(L, T, w)[u] = IF u \in T THEN Append(L[u], w) ELSE L[u]
  BY DEF Pushed, VcMap
<1>2. Range(Append(L[u], w)) = Range(L[u]) \cup {w}
  BY <1>1, AppendVc, Zenon
<1> QED BY <1>1, <1>2

\* A wavelet may leave a VC from the front, off the mesh for one.
LEMMA PopInLine ==
    ASSUME NEW N, NEW tree, NEW up, NEW B \in VcMap, NEW L \in VcMap, InLine(N, tree, up, B, L),
           NEW v \in Vc, L[v] # <<>>
    PROVE  InLine(N, tree, up, B, Popped(L, v))
<1> DEFINE M == Popped(L, v)
<1>1. \A u \in Vc : Range(M[u]) \subseteq Range(L[u])
  BY PoppedVcs
<1>2. InTree(N, tree, B, L) /\ EachRises(N, B, L) /\ Descends(N, up, B, L)
  BY DEF InLine
<1> HIDE DEF M
<1>3. InTree(N, tree, B, M)
  BY <1>1, <1>2, Zenon DEF InTree, Passed
<1>4. Descends(N, up, B, M)
  <2>1. ASSUME NEW t \in Vc, NEW u \in Vc, <<t, u>> \in up
        PROVE  Below(N, Passed(B, M, u), Range(M[t]))
    <3>1. Below(N, Passed(B, L, u), Range(L[t]))
      BY <1>2, <2>1 DEF Descends
    <3> QED BY <1>1, <3>1, Zenon DEF Below, Passed
  <2> QED BY <2>1 DEF Descends
<1>5. EachRises(N, B, M)
  <2>1. ASSUME NEW u \in Vc
        PROVE  Rising(N, B[u]) /\ Rising(N, M[u]) /\ Below(N, Range(B[u]), Range(M[u]))
    <3>1. Rising(N, B[u]) /\ Rising(N, L[u]) /\ Below(N, Range(B[u]), Range(L[u]))
      BY <1>2 DEF EachRises
    <3>2. Below(N, Range(B[u]), Range(M[u]))
      BY <1>1, <3>1, Zenon DEF Below
    <3>3. Rising(N, M[u])
      <4>1. CASE u = v
        <5>1. L[v] \in Seq(Nat)
          BY DEF VcMap
        <5>2. Rising(N, Tail(L[v]))
          BY <3>1, <4>1, <5>1, TailRises
        <5> QED BY <4>1, <5>2 DEF M, Popped
      <4>2. CASE u # v
        BY <3>1, <4>2 DEF M, Popped
      <4> QED BY <4>1, <4>2
    <3> QED BY <3>1, <3>2, <3>3
  <2> QED BY <2>1 DEF EachRises
<1> QED BY <1>3, <1>4, <1>5 DEF InLine, M

\* ... and be read by the CE.
LEMMA ReadInLine ==
    ASSUME NEW N, NEW tree, NEW up, NEW B \in VcMap, NEW L \in VcMap, InLine(N, tree, up, B, L),
           NEW v \in Vc, L[v] # <<>>
    PROVE  InLine(N, tree, up, Pushed(B, {v}, Head(L[v])), Popped(L, v))
<1> DEFINE M == Popped(L, v)
           A == Pushed(B, {v}, Head(L[v]))
           w == Head(L[v])
<1>1. L[v] \in Seq(Nat) /\ B[v] \in Seq(Nat)
  BY DEF VcMap
<1>2. w \in Nat /\ w \in Range(L[v])
  BY <1>1, PopVc, Zenon
<1>3. \A u \in Vc : Range(M[u]) \subseteq Range(L[u])
  BY PoppedVcs
<1>4. Range(Append(B[v], w)) = Range(B[v]) \cup {w}
  BY <1>1, <1>2, AppendVc, Zenon
<1>5. InLine(N, tree, up, B, M)
  BY PopInLine
<1>6. InTree(N, tree, B, L) /\ EachRises(N, B, L) /\ Descends(N, up, B, L)
  BY DEF InLine
<1>7. A[v] = Append(B[v], w) /\ M[v] = Tail(L[v])
  BY DEF Pushed, Popped
<1>8. \A u \in Vc : u # v => A[u] = B[u] /\ M[u] = L[u]
  BY DEF Pushed, Popped
<1> HIDE DEF M, A, w
<1>9. \A u \in Vc : Passed(A, M, u) \subseteq Passed(B, L, u)
  <2>1. ASSUME NEW u \in Vc
        PROVE  Passed(A, M, u) \subseteq Passed(B, L, u)
    <3>1. CASE u = v
      BY <1>2, <1>3, <1>4, <1>7, <3>1 DEF Passed
    <3>2. CASE u # v
      BY <1>8, <3>2 DEF Passed
    <3> QED BY <3>1, <3>2
  <2> QED BY <2>1
<1>10. InTree(N, tree, A, M)
  BY <1>6, <1>9, Zenon DEF InTree
<1>11. Descends(N, up, A, M)
  <2>1. ASSUME NEW t \in Vc, NEW u \in Vc, <<t, u>> \in up
        PROVE  Below(N, Passed(A, M, u), Range(M[t]))
    <3>1. Below(N, Passed(B, L, u), Range(L[t]))
      BY <1>6, <2>1 DEF Descends
    <3> QED BY <1>3, <1>9, <3>1, Zenon DEF Below
  <2> QED BY <2>1 DEF Descends
<1>12. EachRises(N, A, M)
  <2>1. ASSUME NEW u \in Vc
        PROVE  Rising(N, A[u]) /\ Rising(N, M[u]) /\ Below(N, Range(A[u]), Range(M[u]))
    <3>1. Rising(N, B[u]) /\ Rising(N, L[u]) /\ Below(N, Range(B[u]), Range(L[u]))
      BY <1>6 DEF EachRises
    <3>2. CASE u = v
      <4>1. Rising(N, Tail(L[v])) /\ Below(N, {w}, Range(Tail(L[v])))
        BY <1>1, <3>1, <3>2, TailRises DEF w
      <4>2. Below(N, Range(B[v]), {w})
        BY <1>2, <3>1, <3>2, Zenon DEF Below
      <4>3. Rising(N, Append(B[v], w))
        BY <1>1, <1>2, <3>1, <3>2, <4>2, AppendRises
      <4>4. Below(N, Range(B[v]), Range(M[v]))
        BY <1>3, <3>1, <3>2, Zenon DEF Below
      <4>5. Range(A[v]) = Range(B[v]) \cup {w}
        BY <1>4, <1>7
      <4>6. Below(N, Range(A[v]), Range(M[v]))
        BY <1>7, <4>1, <4>4, <4>5 DEF Below
      <4> QED BY <1>7, <3>2, <4>1, <4>3, <4>6
    <3>3. CASE u # v
      BY <1>8, <3>1, <3>3
    <3> QED BY <3>2, <3>3
  <2> QED BY <2>1 DEF EachRises
<1>13. InLine(N, tree, up, A, M)
  BY <1>10, <1>11, <1>12 DEF InLine
<1> QED BY <1>13 DEF A, M, w

\* A wavelet of the stream may come to VCs of the tree if it follows what is in
\* them and below them and precedes what is above them.
LEMMA PushInLine ==
    ASSUME NEW N, NEW tree, NEW up, NEW B \in VcMap, NEW L \in VcMap, InLine(N, tree, up, B, L),
           NEW T \in SUBSET Vc, NEW w \in Nat,
           w \in N => T \subseteq tree,
           \A u \in T : Below(N, Passed(B, L, u), {w}),
           \A u \in T, v \in Vc : <<u, v>> \in up =>
               Below(N, Passed(B, L, v), {w}) /\ (w \in N => v \notin T),
           \A t \in Vc, u \in T : <<t, u>> \in up => Below(N, {w}, Range(L[t]))
    PROVE  InLine(N, tree, up, B, Pushed(L, T, w))
<1> DEFINE M == Pushed(L, T, w)
<1>1. \A u \in Vc : Range(M[u]) = IF u \in T THEN Range(L[u]) \cup {w} ELSE Range(L[u])
  BY PushedRange
<1>2. InTree(N, tree, B, L) /\ EachRises(N, B, L) /\ Descends(N, up, B, L)
  BY DEF InLine
<1>3. \A u \in Vc : M[u] = IF u \in T THEN Append(L[u], w) ELSE L[u]
  BY DEF Pushed
<1> HIDE DEF M
<1>4. InTree(N, tree, B, M)
  <2>1. ASSUME NEW v \in Vc, Passed(B, M, v) \cap N # {}, v \notin tree
        PROVE  FALSE
    <3>1. Passed(B, L, v) \cap N = {}
      BY <1>2, <2>1 DEF InTree
    <3>2. CASE v \in T
      BY <1>1, <2>1, <3>1, <3>2 DEF Passed
    <3>3. CASE v \notin T
      BY <1>1, <2>1, <3>1, <3>3 DEF Passed
    <3> QED BY <3>2, <3>3
  <2> QED BY <2>1 DEF InTree
<1>5. EachRises(N, B, M)
  <2>1. ASSUME NEW u \in Vc
        PROVE  Rising(N, B[u]) /\ Rising(N, M[u]) /\ Below(N, Range(B[u]), Range(M[u]))
    <3>1. Rising(N, B[u]) /\ Rising(N, L[u]) /\ Below(N, Range(B[u]), Range(L[u]))
      BY <1>2 DEF EachRises
    <3>2. CASE u \in T
      <4>1. L[u] \in Seq(Nat) /\ M[u] = Append(L[u], w) /\ Range(M[u]) = Range(L[u]) \cup {w}
        BY <1>1, <1>3, <3>2 DEF VcMap
      <4>2. Below(N, Range(L[u]), {w}) /\ Below(N, Range(B[u]), {w})
        BY <3>2 DEF Below, Passed
      <4>3. Rising(N, M[u])
        BY <3>1, <4>1, <4>2, AppendRises
      <4>4. Below(N, Range(B[u]), Range(M[u]))
        BY <3>1, <4>1, <4>2 DEF Below
      <4> QED BY <3>1, <4>3, <4>4
    <3>3. CASE u \notin T
      BY <1>3, <3>1, <3>3
    <3> QED BY <3>2, <3>3
  <2> QED BY <2>1 DEF EachRises
<1>6. Descends(N, up, B, M)
  <2>1. ASSUME NEW t \in Vc, NEW v \in Vc, <<t, v>> \in up
        PROVE  Below(N, Passed(B, M, v), Range(M[t]))
    <3>1. Below(N, Passed(B, L, v), Range(L[t]))
      BY <1>2, <2>1 DEF Descends
    <3>2. CASE t \in T
      <4>1. Below(N, Passed(B, L, v), {w}) /\ (w \in N => v \notin T)
        BY <2>1, <3>2
      <4>2. Range(M[t]) = Range(L[t]) \cup {w}
        BY <1>1, <3>2
      <4>3. Passed(B, M, v) \cap N = Passed(B, L, v) \cap N
        BY <1>1, <4>1 DEF Passed
      <4> QED BY <3>1, <4>1, <4>2, <4>3 DEF Below
    <3>3. CASE t \notin T /\ v \in T
      <4>1. Below(N, {w}, Range(L[t]))
        BY <2>1, <3>3
      <4>2. M[t] = L[t] /\ Range(M[v]) = Range(L[v]) \cup {w}
        BY <1>1, <1>3, <3>3
      <4>3. Passed(B, M, v) = Passed(B, L, v) \cup {w}
        BY <4>2 DEF Passed
      <4> QED BY <3>1, <4>1, <4>2, <4>3 DEF Below
    <3>4. CASE t \notin T /\ v \notin T
      BY <1>3, <3>1, <3>4 DEF Passed
    <3> QED BY <3>2, <3>3, <3>4
  <2> QED BY <2>1 DEF Descends
<1>7. InLine(N, tree, up, B, M)
  BY <1>4, <1>5, <1>6 DEF InLine
<1> QED BY <1>7 DEF M

\* A wavelet moves from v to VCs that v feeds, and follows there what went before.
LEMMA MoveInLine ==
    ASSUME NEW i, NEW tree \in SUBSET Vc, NEW up \in SUBSET (tree \X tree), IsTree(i, tree, up),
           NEW N, NEW B \in VcMap, NEW L \in VcMap, InLine(N, tree, up, B, L),
           NEW v \in Vc, L[v] # <<>>, NEW T \in SUBSET Vc, v \notin T,
           \A t \in T : Feeds(v, t)
    PROVE  InLine(N, tree, up, B, Pushed(Popped(L, v), T, Head(L[v])))
<1>1. PICK M \in VcMap, w \in Nat :
        /\ M = Popped(L, v) /\ w = Head(L[v]) /\ w \in Range(L[v])
        /\ \A u \in Vc : Range(M[u]) \subseteq Range(L[u])
        /\ M[v] = Tail(L[v])
  <2>1. L[v] \in Seq(Nat)
    BY DEF VcMap
  <2>2. Head(L[v]) \in Nat /\ Head(L[v]) \in Range(L[v])
    BY <2>1, PopVc, Zenon
  <2>3. /\ Popped(L, v) \in VcMap
        /\ \A u \in Vc : Range(Popped(L, v)[u]) \subseteq Range(L[u])
    BY PoppedVcs, Zenon
  <2>4. Popped(L, v)[v] = Tail(L[v])
    BY DEF Popped
  <2> QED BY <2>2, <2>3, <2>4, Zenon
<1>2. InLine(N, tree, up, B, M)
  BY <1>1, PopInLine
<1>3. InTree(N, tree, B, L) /\ EachRises(N, B, L) /\ Descends(N, up, B, L)
  BY DEF InLine
<1>4. \A u \in Vc : Passed(B, M, u) \subseteq Passed(B, L, u)
  BY <1>1 DEF Passed
<1>5. w \in N => v \in tree
  BY <1>1, <1>3 DEF InTree, Passed
<1>6. ASSUME w \in N, NEW t \in T
      PROVE  t \in tree /\ <<v, t>> \in up
             /\ \A s \in tree : <<s, t>> \in up => s = v \/ <<s, v>> \in up
  BY <1>5, <1>6, Zenon DEF IsTree
<1>7. ASSUME NEW u \in Vc, w \in N => <<v, u>> \in up
      PROVE  Below(N, Passed(B, M, u), {w})
  <2>1. CASE w \in N
    <3>1. Below(N, Passed(B, L, u), Range(L[v]))
      BY <1>3, <1>7, <2>1 DEF Descends
    <3> QED BY <1>1, <1>4, <3>1, Zenon DEF Below
  <2>2. CASE w \notin N
    BY <2>2, Zenon DEF Below
  <2> QED BY <2>1, <2>2
<1>8. w \in N => T \subseteq tree
  BY <1>6
<1>9. \A u \in T : Below(N, Passed(B, M, u), {w})
  BY <1>6, <1>7
<1>10. ASSUME NEW u \in T, NEW s \in Vc, <<u, s>> \in up
       PROVE  Below(N, Passed(B, M, s), {w}) /\ (w \in N => s \notin T)
  <2>1. u \in tree /\ s \in tree
    BY <1>10
  <2>2. w \in N => <<v, s>> \in up
    BY <1>5, <1>6, <1>10, <2>1, Zenon DEF IsTree
  <2>3. ASSUME w \in N, s \in T
        PROVE  FALSE
    <3>1. u = v \/ <<u, v>> \in up
      BY <1>6, <1>10, <2>1, <2>3
    <3>2. <<u, v>> \in up /\ <<v, u>> \in up
      BY <1>6, <2>3, <3>1
    <3> QED BY <1>5, <2>1, <2>3, <3>2, Zenon DEF IsTree
  <2> QED BY <1>7, <2>2, <2>3
<1>11. ASSUME NEW s \in Vc, NEW t \in T, <<s, t>> \in up
       PROVE  Below(N, {w}, Range(M[s]))
  <2>1. CASE w \notin N
    BY <2>1, Zenon DEF Below
  <2>2. CASE w \in N /\ s = v
    <3>1. L[v] \in Seq(Nat) /\ Rising(N, L[v])
      BY <1>3 DEF EachRises, VcMap
    <3>2. Below(N, {w}, Range(Tail(L[v])))
      BY <1>1, <3>1, TailRises
    <3> QED BY <1>1, <2>2, <3>2
  <2>3. CASE w \in N /\ <<s, v>> \in up
    <3>1. Below(N, Passed(B, L, v), Range(L[s]))
      BY <1>3, <2>3 DEF Descends
    <3>2. w \in Passed(B, L, v)
      BY <1>1 DEF Passed
    <3> QED BY <1>1, <3>1, <3>2, Zenon DEF Below
  <2>4. w \in N => s = v \/ <<s, v>> \in up
    <3>1. s \in tree
      BY <1>11
    <3> QED BY <1>6, <1>11, <3>1
  <2> QED BY <2>1, <2>2, <2>3, <2>4
<1>12. InLine(N, tree, up, B, Pushed(M, T, w))
  BY <1>2, <1>8, <1>9, <1>10, <1>11, PushInLine
<1> QED BY <1>1, <1>12

\* A new wavelet comes to the VCs it is injected on, above which the tree ends.
LEMMA SendInLine ==
    ASSUME NEW N, NEW tree, NEW up, NEW B \in VcMap, NEW L \in VcMap, InLine(N, tree, up, B, L),
           NEW w \in Nat, NEW P, P = N \/ P = N \cup {w},
           \A v \in Vc : \A n \in Passed(B, L, v) : n < w,
           NEW T \in SUBSET Vc,
           w \in P => T \subseteq tree /\ \A v \in Vc, t \in T : <<v, t>> \notin up
    PROVE  InLine(P, tree, up, B, Pushed(L, T, w))
<1>1. \A v \in Vc : w \notin Passed(B, L, v)
  <2> SUFFICES ASSUME NEW v \in Vc, w \in Passed(B, L, v)
               PROVE  FALSE
    OBVIOUS
  <2>1. w < w
    BY Zenon
  <2> QED BY <2>1
<1>2. \A v \in Vc : Passed(B, L, v) \cap P = Passed(B, L, v) \cap N
  BY <1>1
<1>3. InTree(N, tree, B, L) /\ EachRises(N, B, L) /\ Descends(N, up, B, L)
  BY DEF InLine
<1>4. InTree(P, tree, B, L)
  BY <1>2, <1>3 DEF InTree
<1>5. EachRises(P, B, L)
  <2>1. ASSUME NEW v \in Vc
        PROVE  Rising(P, B[v]) /\ Rising(P, L[v]) /\ Below(P, Range(B[v]), Range(L[v]))
    <3>1. Rising(N, B[v]) /\ Rising(N, L[v]) /\ Below(N, Range(B[v]), Range(L[v]))
      BY <1>3 DEF EachRises
    <3>2. /\ \A k \in 1..Len(B[v]) : B[v][k] \in P => B[v][k] \in N
          /\ \A k \in 1..Len(L[v]) : L[v][k] \in P => L[v][k] \in N
      <4>1. B[v] \in Seq(Nat) /\ L[v] \in Seq(Nat)
        BY DEF VcMap
      <4>2. DOMAIN B[v] = 1..Len(B[v]) /\ DOMAIN L[v] = 1..Len(L[v])
        BY <4>1, LenProperties
      <4>3. \A n \in Range(B[v]) \cup Range(L[v]) : n \in P => n \in N
        BY <1>2 DEF Passed
      <4> QED BY <4>2, <4>3 DEF Range
    <3>3. Range(B[v]) \cap P \subseteq N /\ Range(L[v]) \cap P \subseteq N
      BY <1>2 DEF Passed
    <3>4. Below(P, Range(B[v]), Range(L[v]))
      BY <3>1, <3>3 DEF Below
    <3>5. Rising(P, B[v]) /\ Rising(P, L[v])
      BY <3>1, <3>2 DEF Rising
    <3> QED BY <3>4, <3>5
  <2> QED BY <2>1 DEF EachRises
<1>6. Descends(P, up, B, L)
  <2>1. ASSUME NEW t \in Vc, NEW v \in Vc, <<t, v>> \in up
        PROVE  Below(P, Passed(B, L, v), Range(L[t]))
    <3>1. Below(N, Passed(B, L, v), Range(L[t]))
      BY <1>3, <2>1 DEF Descends
    <3>2. Passed(B, L, v) \cap P \subseteq N /\ Range(L[t]) \cap P \subseteq N
      BY <1>2 DEF Passed
    <3> QED BY <3>1, <3>2 DEF Below
  <2> QED BY <2>1 DEF Descends
<1>7. InLine(P, tree, up, B, L)
  BY <1>4, <1>5, <1>6 DEF InLine
<1>8. \A v \in Vc : Below(P, Passed(B, L, v), {w})
  BY DEF Below
<1>9. \A u \in T, v \in Vc : <<u, v>> \in up =>
         Below(P, Passed(B, L, v), {w}) /\ (w \in P => v \notin T)
  BY <1>8
<1>10. \A t \in Vc, u \in T : <<t, u>> \in up => Below(P, {w}, Range(L[t]))
  BY DEF Below
<1> QED BY <1>7, <1>8, <1>9, <1>10, PushInLine

\* What waits in the VCs, and what was read from the input VCs.
Waits ==
    [v \in Vc |-> IF v[2] = "In" THEN inVc[v[1]][v[3]] ELSE outVc[v[1]][v[2]][v[3]]]
Reads == [v \in Vc |-> IF v[2] = "In" THEN got[v[1]][v[3]] ELSE <<>>]

Sender(i) == [pe |-> i[1], color |-> i[2], dirs |-> i[3]]
Stream(i) == {n \in DOMAIN sent : sent[n] = Sender(i)}

FromRoutes ==
    \A p \in PE, c \in Colors :
        config[p][c].has =>
            \E r \in Routes : r[1] = p /\ r[2] = c /\ r[4] = config[p][c].tx
FromSenders == \A n \in DOMAIN sent : \E i \in Injections : sent[n] = Sender(i)
Accepted == \A v \in Vc : \A n \in Passed(Reads, Waits, v) : n \in 1..Len(sent)
StreamInLine(i) ==
    \E tree \in SUBSET Vc : \E up \in SUBSET (tree \X tree) :
        IsTree(i, tree, up) /\ InLine(Stream(i), tree, up, Reads, Waits)
OrderInv == FromRoutes /\ FromSenders /\ Accepted /\ \A i \in Injections : StreamInLine(i)

\* What the operations and the iterations of the loops do to the VCs.
Moves ==
    \E v \in Vc, T \in SUBSET Vc :
        /\ Waits[v] # <<>> /\ v \notin T /\ \A t \in T : Feeds(v, t)
        /\ Waits' = Pushed(Popped(Waits, v), T, Head(Waits[v])) /\ Reads' = Reads
TakesOne ==
    \E v \in Vc :
        /\ Waits[v] # <<>>
        /\ Waits' = Popped(Waits, v) /\ Reads' = Pushed(Reads, {v}, Head(Waits[v]))
Roots(i) == {<<i[1], d, i[2]>> : d \in i[3]}
SendsOne(i) ==
    /\ Waits' = Pushed(Waits, Roots(i), Len(sent) + 1) /\ Reads' = Reads
    /\ sent' = Append(sent, Sender(i))

\* A VC is the input VC or an output VC of a PE.
LEMMA VcKinds ==
    ASSUME NEW v \in Vc
    PROVE  \E p \in PE, c \in Colors :
              \/ v = <<p, "In", c>>
              \/ \E d \in Dir : v = <<p, d, c>> /\ d # "In"
BY DEF Vc, Dir

\* What the two maps say of each kind.
LEMMA VcAt ==
    ASSUME NEW p \in PE, NEW c \in Colors
    PROVE  /\ <<p, "In", c>> \in Vc
           /\ Waits[<<p, "In", c>>] = inVc[p][c] /\ Reads[<<p, "In", c>>] = got[p][c]
           /\ \A d \in Dir : /\ <<p, d, c>> \in Vc
                             /\ Waits[<<p, d, c>>] = outVc[p][d][c] /\ Reads[<<p, d, c>>] = <<>>
<1>1. <<p, "In", c>> \in Vc /\ \A d \in Dir : <<p, d, c>> \in Vc /\ d # "In"
  BY DEF Vc, Dir
<1> QED BY <1>1 DEF Waits, Reads

\* The two maps hold sequences of wavelets.
LEMMA WaitsTyped == TypeOK => Waits \in VcMap /\ Reads \in VcMap
<1> SUFFICES ASSUME TypeOK
             PROVE  Waits \in VcMap /\ Reads \in VcMap
  OBVIOUS
<1>1. ASSUME NEW v \in Vc
      PROVE  Waits[v] \in Seq(Nat) /\ Reads[v] \in Seq(Nat)
  <2>1. PICK p \in PE, c \in Colors :
           v = <<p, "In", c>> \/ \E d \in Dir : v = <<p, d, c>> /\ d # "In"
    BY VcKinds
  <2>2. CASE v = <<p, "In", c>>
    BY <2>2, VcAt DEF TypeOK
  <2>3. ASSUME NEW d \in Dir, v = <<p, d, c>>
        PROVE  Waits[v] \in Seq(Nat) /\ Reads[v] \in Seq(Nat)
    <3>1. <<>> \in Seq(Nat)
      OBVIOUS
    <3>2. Waits[<<p, d, c>>] = outVc[p][d][c] /\ Reads[<<p, d, c>>] = <<>>
      BY VcAt
    <3>3. outVc[p][d][c] \in Seq(Nat)
      BY DEF TypeOK
    <3> QED BY <2>3, <3>1, <3>2, <3>3
  <2> QED BY <2>1, <2>2, <2>3
<1> QED BY <1>1 DEF VcMap, Waits, Reads

-----------------------------------------------------------------------------
(* Moves, reads and injections keep every stream in line. *)

\* A move.
LEMMA MovesKeep ==
    ASSUME TypeOK, Moves, UNCHANGED sent, NEW i, StreamInLine(i)
    PROVE  StreamInLine(i)'
<1>1. PICK v \in Vc, T \in SUBSET Vc :
        /\ Waits[v] # <<>> /\ v \notin T /\ \A t \in T : Feeds(v, t)
        /\ Waits' = Pushed(Popped(Waits, v), T, Head(Waits[v])) /\ Reads' = Reads
  BY DEF Moves
<1>2. PICK tree \in SUBSET Vc : \E up \in SUBSET (tree \X tree) :
        IsTree(i, tree, up) /\ InLine(Stream(i), tree, up, Reads, Waits)
  BY DEF StreamInLine
<1>3. PICK up \in SUBSET (tree \X tree) :
        IsTree(i, tree, up) /\ InLine(Stream(i), tree, up, Reads, Waits)
  BY <1>2
<1>4. Waits \in VcMap /\ Reads \in VcMap /\ Stream(i)' = Stream(i)
  BY WaitsTyped DEF Stream
<1>5. InLine(Stream(i), tree, up, Reads, Pushed(Popped(Waits, v), T, Head(Waits[v])))
  BY <1>1, <1>3, <1>4, MoveInLine
<1>6. InLine(Stream(i)', tree, up, Reads', Waits')
  BY <1>1, <1>4, <1>5
<1> QED BY <1>3, <1>6 DEF StreamInLine

\* A read.
LEMMA TakesKeep ==
    ASSUME TypeOK, TakesOne, UNCHANGED sent, NEW i, StreamInLine(i)
    PROVE  StreamInLine(i)'
<1>1. PICK v \in Vc :
        /\ Waits[v] # <<>>
        /\ Waits' = Popped(Waits, v) /\ Reads' = Pushed(Reads, {v}, Head(Waits[v]))
  BY DEF TakesOne
<1>2. PICK tree \in SUBSET Vc : \E up \in SUBSET (tree \X tree) :
        IsTree(i, tree, up) /\ InLine(Stream(i), tree, up, Reads, Waits)
  BY DEF StreamInLine
<1>3. PICK up \in SUBSET (tree \X tree) :
        IsTree(i, tree, up) /\ InLine(Stream(i), tree, up, Reads, Waits)
  BY <1>2
<1>4. Waits \in VcMap /\ Reads \in VcMap /\ Stream(i)' = Stream(i)
  BY WaitsTyped DEF Stream
<1>5. InLine(Stream(i), tree, up, Pushed(Reads, {v}, Head(Waits[v])), Popped(Waits, v))
  BY <1>1, <1>3, <1>4, ReadInLine
<1>6. InLine(Stream(i)', tree, up, Reads', Waits')
  BY <1>1, <1>4, <1>5
<1> QED BY <1>3, <1>6 DEF StreamInLine

\* An injection, of this stream or of another one.
LEMMA SendsKeep ==
    ASSUME TypeOK, Accepted, NEW j \in Injections, SendsOne(j),
           NEW i \in Injections, StreamInLine(i)
    PROVE  StreamInLine(i)'
<1>1. PICK w \in Nat \ {0}, T \in SUBSET Vc :
        w = Len(sent) + 1 /\ T = Roots(j) /\ Waits' = Pushed(Waits, T, w) /\ Reads' = Reads
  <2>1. Len(sent) + 1 \in Nat \ {0}
    BY LenProperties DEF TypeOK
  <2>2. Roots(j) \in SUBSET Vc
    BY FabricAssumption DEF Roots, Vc
  <2> QED BY <2>1, <2>2, Zenon DEF SendsOne
<1>2. PICK tree \in SUBSET Vc : \E up \in SUBSET (tree \X tree) :
        IsTree(i, tree, up) /\ InLine(Stream(i), tree, up, Reads, Waits)
  BY DEF StreamInLine
<1>3. PICK up \in SUBSET (tree \X tree) :
        IsTree(i, tree, up) /\ InLine(Stream(i), tree, up, Reads, Waits)
  BY <1>2
<1>4. Waits \in VcMap /\ Reads \in VcMap
  BY WaitsTyped
<1>5. PICK N, P : N = Stream(i) /\ P = Stream(i)'
  OBVIOUS
<1>6. /\ Len(sent) \in Nat /\ DOMAIN sent = 1..Len(sent) /\ DOMAIN sent' = 1..w
      /\ \A n \in 1..Len(sent) : sent'[n] = sent[n]
      /\ sent'[w] = Sender(j)
  <2>1. sent \in Seq([pe : PE, color : Colors, dirs : SUBSET Dir])
    BY DEF TypeOK
  <2>2. Sender(j) \in [pe : PE, color : Colors, dirs : SUBSET Dir]
    BY FabricAssumption DEF Sender
  <2>3. sent' = Append(sent, Sender(j))
    BY DEF SendsOne
  <2>4. /\ Len(sent') = Len(sent) + 1 /\ \A n \in 1..Len(sent) : sent'[n] = sent[n]
        /\ sent'[Len(sent) + 1] = Sender(j)
        /\ sent' \in Seq([pe : PE, color : Colors, dirs : SUBSET Dir])
    BY <2>1, <2>2, <2>3, AppendProperties
  <2> QED BY <1>1, <2>1, <2>4, LenProperties
<1>7. P = IF Sender(i) = Sender(j) THEN N \cup {w} ELSE N
  <2>1. P = {n \in 1..w : sent'[n] = Sender(i)} /\ N = {n \in 1..Len(sent) : sent[n] = Sender(i)}
    BY <1>5, <1>6 DEF Stream, Sender
  <2>2. 1..w = 1..Len(sent) \cup {w} /\ w \notin 1..Len(sent)
    BY <1>1, <1>6
  <2> QED BY <1>6, <2>1, <2>2
<1>8. \A v \in Vc : \A n \in Passed(Reads, Waits, v) : n < w
  BY <1>1, <1>6 DEF Accepted
<1>9. w \in P => T \subseteq tree /\ \A v \in Vc, t \in T : <<v, t>> \notin up
  <2>1. ASSUME w \in P
        PROVE  Sender(i) = Sender(j)
    <3>1. w \notin N
      BY <1>1, <1>5, <1>6 DEF Stream
    <3> QED BY <1>7, <2>1, <3>1
  <2>2. ASSUME Sender(i) = Sender(j)
        PROVE  i[1] = j[1] /\ i[2] = j[2] /\ i[3] = j[3]
    BY <2>2 DEF Sender
  <2>3. ASSUME w \in P, NEW t \in T
        PROVE  t \in tree /\ \A v \in tree : <<v, t>> \notin up
    <3>1. PICK d \in i[3] : t = <<i[1], d, i[2]>>
      BY <1>1, <2>1, <2>2, <2>3 DEF Roots
    <3> QED BY <1>3, <3>1, Zenon DEF IsTree
  <2> QED BY <2>3
<1>10. InLine(P, tree, up, Reads, Pushed(Waits, T, w))
  BY <1>3, <1>4, <1>5, <1>7, <1>8, <1>9, SendInLine
<1>11. InLine(Stream(i)', tree, up, Reads', Waits')
  BY <1>1, <1>5, <1>10
<1> QED BY <1>3, <1>11 DEF StreamInLine

\* Two maps of the VCs agree if they do on the input and on the output VCs.
LEMMA VcMapsEqual ==
    ASSUME NEW L, NEW M, L = [v \in Vc |-> L[v]], M = [v \in Vc |-> M[v]],
           \A p \in PE, c \in Colors :
              /\ L[<<p, "In", c>>] = M[<<p, "In", c>>]
              /\ \A d \in Dir : L[<<p, d, c>>] = M[<<p, d, c>>]
    PROVE  L = M
<1>1. ASSUME NEW v \in Vc
      PROVE  L[v] = M[v]
  <2>1. PICK p \in PE, c \in Colors :
           v = <<p, "In", c>> \/ \E d \in Dir : v = <<p, d, c>> /\ d # "In"
    BY VcKinds
  <2> QED BY <2>1
<1> QED BY <1>1

\* ... and after a step.
LEMMA VcAtNext ==
    ASSUME NEW p \in PE, NEW c \in Colors
    PROVE  /\ Waits'[<<p, "In", c>>] = inVc'[p][c] /\ Reads'[<<p, "In", c>>] = got'[p][c]
           /\ \A d \in Dir : Waits'[<<p, d, c>>] = outVc'[p][d][c] /\ Reads'[<<p, d, c>>] = <<>>
<1>1. <<p, "In", c>> \in Vc /\ \A d \in Dir : <<p, d, c>> \in Vc /\ d # "In"
  BY DEF Vc, Dir
<1> QED BY <1>1 DEF Waits, Reads

\* Without a read, nothing more was read.
LEMMA SameReads == UNCHANGED got => Reads' = Reads
BY DEF Reads

\* ApplyForwarding moves a wavelet to all the VCs of its color's route.
LEMMA ForwardMoves ==
    ASSUME TypeOK, FromRoutes, Forward
    PROVE  Moves /\ UNCHANGED sent
<1>1. PICK p \in PE, c \in Colors, tx \in SUBSET Dir :
        /\ p = Head(todo).pe /\ c = Head(todo).color /\ tx = FwdDirs(p, c) /\ tx # {}
        /\ inVc[p][c] # <<>>
        /\ inVc' = [inVc EXCEPT ![p][c] = Tail(@)]
        /\ outVc' = PushAll(p, c, tx, Head(inVc[p][c]))
        /\ UNCHANGED <<sent, got>>
  <2> DEFINE m == Head(todo)
  <2>1. m.pe \in PE /\ m.color \in Colors
    BY DEF Forward, InBounds
  <2>2. FwdDirs(m.pe, m.color) \in SUBSET Dir
    BY <2>1 DEF FwdDirs, TypeOK
  <2> QED BY <2>1, <2>2, Zenon DEF Forward
<1> DEFINE v == <<p, "In", c>>
           T == {<<p, d, c>> : d \in tx}
           M == Pushed(Popped(Waits, v), T, Head(Waits[v]))
<1>2. v \in Vc /\ Waits[v] = inVc[p][c]
  BY VcAt
<1>3. T \in SUBSET Vc /\ v \notin T
  BY DEF Vc, Dir
<1>4. ASSUME NEW t \in T
      PROVE  Feeds(v, t)
  <2>1. PICK d \in tx : t = <<p, d, c>>
    OBVIOUS
  <2>2. config[p][c].has /\ tx = config[p][c].tx
    BY <1>1 DEF FwdDirs
  <2>3. PICK r \in Routes : r[1] = p /\ r[2] = c /\ r[4] = tx
    BY <2>2 DEF FromRoutes
  <2> QED BY <2>1, <2>3 DEF Feeds
<1>5. Waits' = M
  <2>1. Waits' = [u \in Vc |-> Waits'[u]]
    BY DEF Waits
  <2>2. M = [u \in Vc |-> M[u]]
    BY DEF Pushed
  <2>3. ASSUME NEW q \in PE, NEW b \in Colors
        PROVE  /\ Waits'[<<q, "In", b>>] = M[<<q, "In", b>>]
               /\ \A d \in Dir : Waits'[<<q, d, b>>] = M[<<q, d, b>>]
    <3>1. Waits'[<<q, "In", b>>] = M[<<q, "In", b>>]
      <4>1. <<q, "In", b>> \in Vc /\ <<q, "In", b>> \notin T
        BY VcAt DEF Dir
      <4>2. M[<<q, "In", b>>] = IF <<q, "In", b>> = v THEN Tail(inVc[q][b]) ELSE inVc[q][b]
        BY <4>1, VcAt DEF Pushed, Popped
      <4>3. inVc'[q][b] = IF q = p /\ b = c THEN Tail(inVc[q][b]) ELSE inVc[q][b]
        BY <1>1 DEF TypeOK
      <4> QED BY <4>2, <4>3, VcAtNext
    <3>2. ASSUME NEW d \in Dir
          PROVE  Waits'[<<q, d, b>>] = M[<<q, d, b>>]
      <4>1. <<q, d, b>> \in Vc /\ <<q, d, b>> # v /\ Waits[<<q, d, b>>] = outVc[q][d][b]
        BY VcAt DEF Dir
      <4>2. M[<<q, d, b>>] = IF <<q, d, b>> \in T THEN Append(outVc[q][d][b], Head(inVc[p][c]))
                             ELSE outVc[q][d][b]
        BY <1>2, <4>1 DEF Pushed, Popped
      <4>3. <<q, d, b>> \in T <=> q = p /\ d \in tx /\ b = c
        OBVIOUS
      <4>4. outVc'[q][d][b] = IF q = p /\ d \in tx /\ b = c
                              THEN Append(outVc[q][d][b], Head(inVc[p][c])) ELSE outVc[q][d][b]
        BY <1>1 DEF PushAll
      <4>5. Waits'[<<q, d, b>>] = outVc'[q][d][b]
        BY VcAtNext
      <4> HIDE DEF T, M, v
      <4> QED BY <4>2, <4>3, <4>4, <4>5
    <3> QED BY <3>1, <3>2
  <2> HIDE DEF M
  <2>4. PICK L, K : L = Waits' /\ K = M
    OBVIOUS
  <2>5. L = [u \in Vc |-> L[u]] /\ K = [u \in Vc |-> K[u]]
    BY <2>1, <2>2, <2>4
  <2>6. \A q \in PE, b \in Colors :
           /\ L[<<q, "In", b>>] = K[<<q, "In", b>>]
           /\ \A d \in Dir : L[<<q, d, b>>] = K[<<q, d, b>>]
    BY <2>3, <2>4
  <2>7. L = K
    BY <2>5, <2>6, VcMapsEqual
  <2> QED BY <2>4, <2>7
<1>6. Reads' = Reads
  BY <1>1, SameReads
<1>7. Moves
  <2> HIDE DEF v, T
  <2> QED BY <1>1, <1>2, <1>3, <1>4, <1>5, <1>6 DEF Moves
<1> QED BY <1>1, <1>7

\* A delivery moves one over a link or back over the RAMP.
LEMMA DeliverMoves ==
    ASSUME TypeOK, Deliver
    PROVE  Moves /\ UNCHANGED sent
<1>1. PICK p \in PE, e \in Dir, c \in Colors, r \in PE :
        /\ r = Hop(p, e) /\ outVc[p][e][c] # <<>>
        /\ inVc' = [inVc EXCEPT ![r][c] = Append(@, Head(outVc[p][e][c]))]
        /\ outVc' = [outVc EXCEPT ![p][e][c] = Tail(@)]
        /\ UNCHANGED <<sent, got>>
  BY DEF Deliver, InBounds, histVars
<1> DEFINE v == <<p, e, c>>
           T == {<<r, "In", c>>}
           M == Pushed(Popped(Waits, v), T, Head(Waits[v]))
<1>2. v \in Vc /\ Waits[v] = outVc[p][e][c]
  BY VcAt
<1>3. T \in SUBSET Vc /\ v \notin T
  BY DEF Vc, Dir
<1>4. \A t \in T : Feeds(v, t)
  BY <1>1 DEF Feeds
<1>5. Waits' = M
  <2>1. Waits' = [u \in Vc |-> Waits'[u]]
    BY DEF Waits
  <2>2. M = [u \in Vc |-> M[u]]
    BY DEF Pushed
  <2>3. ASSUME NEW q \in PE, NEW b \in Colors
        PROVE  /\ Waits'[<<q, "In", b>>] = M[<<q, "In", b>>]
               /\ \A d \in Dir : Waits'[<<q, d, b>>] = M[<<q, d, b>>]
    <3>1. Waits'[<<q, "In", b>>] = M[<<q, "In", b>>]
      <4>1. <<q, "In", b>> \in Vc /\ <<q, "In", b>> # v /\ Waits[<<q, "In", b>>] = inVc[q][b]
        BY VcAt DEF Dir
      <4>2. M[<<q, "In", b>>] = IF <<q, "In", b>> \in T
                                THEN Append(inVc[q][b], Head(outVc[p][e][c])) ELSE inVc[q][b]
        BY <1>2, <4>1 DEF Pushed, Popped
      <4>3. <<q, "In", b>> \in T <=> q = r /\ b = c
        OBVIOUS
      <4>4. inVc'[q][b] = IF q = r /\ b = c
                          THEN Append(inVc[q][b], Head(outVc[p][e][c])) ELSE inVc[q][b]
        BY <1>1 DEF TypeOK
      <4>5. Waits'[<<q, "In", b>>] = inVc'[q][b]
        BY VcAtNext
      <4> HIDE DEF T, M, v
      <4> QED BY <4>2, <4>3, <4>4, <4>5
    <3>2. ASSUME NEW d \in Dir
          PROVE  Waits'[<<q, d, b>>] = M[<<q, d, b>>]
      <4>1. <<q, d, b>> \in Vc /\ <<q, d, b>> \notin T /\ Waits[<<q, d, b>>] = outVc[q][d][b]
        BY VcAt DEF Dir
      <4>2. M[<<q, d, b>>] = IF <<q, d, b>> = v THEN Tail(outVc[q][d][b]) ELSE outVc[q][d][b]
        BY <4>1 DEF Pushed, Popped
      <4>3. outVc'[q][d][b] = IF q = p /\ d = e /\ b = c
                              THEN Tail(outVc[q][d][b]) ELSE outVc[q][d][b]
        <5>1. outVc \in [PE -> [Dir -> [Colors -> Seq(Nat)]]]
          BY DEF TypeOK
        <5>2. outVc' = [outVc EXCEPT ![p] = [outVc[p] EXCEPT ![e] =
                          [outVc[p][e] EXCEPT ![c] = Tail(outVc[p][e][c])]]]
          BY <1>1
        <5> HIDE DEF v, M
        <5>3. /\ q # p => outVc'[q] = outVc[q]
              /\ outVc'[p] = [outVc[p] EXCEPT ![e] =
                                  [outVc[p][e] EXCEPT ![c] = Tail(outVc[p][e][c])]]
          BY <5>1, <5>2
        <5>4. /\ d # e => outVc'[p][d] = outVc[p][d]
              /\ outVc'[p][e] = [outVc[p][e] EXCEPT ![c] = Tail(outVc[p][e][c])]
          BY <5>1, <5>3
        <5>5. outVc'[p][e][b] = IF b = c THEN Tail(outVc[p][e][c]) ELSE outVc[p][e][b]
          BY <5>1, <5>4
        <5> QED BY <5>3, <5>4, <5>5
      <4>4. Waits'[<<q, d, b>>] = outVc'[q][d][b]
        BY VcAtNext
      <4>5. <<q, d, b>> = v <=> q = p /\ d = e /\ b = c
        OBVIOUS
      <4> HIDE DEF T, M, v
      <4> QED BY <4>2, <4>3, <4>4, <4>5
    <3> QED BY <3>1, <3>2
  <2> HIDE DEF M
  <2>4. PICK L, K : L = Waits' /\ K = M
    OBVIOUS
  <2>5. L = [u \in Vc |-> L[u]] /\ K = [u \in Vc |-> K[u]]
    BY <2>1, <2>2, <2>4
  <2>6. \A q \in PE, b \in Colors :
           /\ L[<<q, "In", b>>] = K[<<q, "In", b>>]
           /\ \A d \in Dir : L[<<q, d, b>>] = K[<<q, d, b>>]
    BY <2>3, <2>4
  <2>7. L = K
    BY <2>5, <2>6, VcMapsEqual
  <2> QED BY <2>4, <2>7
<1>6. Reads' = Reads
  BY <1>1, SameReads
<1>7. Moves
  <2> HIDE DEF v, T
  <2> QED BY <1>1, <1>2, <1>3, <1>4, <1>5, <1>6 DEF Moves
<1> QED BY <1>1, <1>7

\* A drop at the edge of the mesh moves one to no VC.
LEMMA DropMoves ==
    ASSUME TypeOK, DropOffGrid
    PROVE  Moves /\ UNCHANGED sent
<1>1. PICK p \in PE, e \in Dir, c \in Colors :
        /\ outVc[p][e][c] # <<>>
        /\ outVc' = [outVc EXCEPT ![p][e][c] = Tail(@)]
        /\ UNCHANGED <<inVc, sent, got>>
  BY DEF DropOffGrid, InBounds
<1> DEFINE v == <<p, e, c>>
           M == Pushed(Popped(Waits, v), {}, Head(Waits[v]))
<1>2. v \in Vc /\ Waits[v] = outVc[p][e][c]
  BY VcAt
<1>3. Waits' = M
  <2>1. Waits' = [u \in Vc |-> Waits'[u]]
    BY DEF Waits
  <2>2. M = [u \in Vc |-> M[u]]
    BY DEF Pushed
  <2>3. ASSUME NEW q \in PE, NEW b \in Colors
        PROVE  /\ Waits'[<<q, "In", b>>] = M[<<q, "In", b>>]
               /\ \A d \in Dir : Waits'[<<q, d, b>>] = M[<<q, d, b>>]
    <3>1. Waits'[<<q, "In", b>>] = M[<<q, "In", b>>]
      <4>1. <<q, "In", b>> \in Vc /\ <<q, "In", b>> # v /\ Waits[<<q, "In", b>>] = inVc[q][b]
        BY VcAt DEF Dir
      <4>2. M[<<q, "In", b>>] = inVc[q][b]
        BY <4>1 DEF Pushed, Popped
      <4>3. Waits'[<<q, "In", b>>] = inVc[q][b]
        BY <1>1, VcAtNext
      <4> QED BY <4>2, <4>3
    <3>2. ASSUME NEW d \in Dir
          PROVE  Waits'[<<q, d, b>>] = M[<<q, d, b>>]
      <4>1. <<q, d, b>> \in Vc /\ Waits[<<q, d, b>>] = outVc[q][d][b]
        BY VcAt
      <4>2. M[<<q, d, b>>] = IF <<q, d, b>> = v THEN Tail(outVc[q][d][b]) ELSE outVc[q][d][b]
        BY <4>1 DEF Pushed, Popped
      <4>3. outVc'[q][d][b] = IF q = p /\ d = e /\ b = c
                              THEN Tail(outVc[q][d][b]) ELSE outVc[q][d][b]
        <5>1. outVc \in [PE -> [Dir -> [Colors -> Seq(Nat)]]]
          BY DEF TypeOK
        <5>2. outVc' = [outVc EXCEPT ![p] = [outVc[p] EXCEPT ![e] =
                          [outVc[p][e] EXCEPT ![c] = Tail(outVc[p][e][c])]]]
          BY <1>1
        <5> HIDE DEF v, M
        <5>3. /\ q # p => outVc'[q] = outVc[q]
              /\ outVc'[p] = [outVc[p] EXCEPT ![e] =
                                  [outVc[p][e] EXCEPT ![c] = Tail(outVc[p][e][c])]]
          BY <5>1, <5>2
        <5>4. /\ d # e => outVc'[p][d] = outVc[p][d]
              /\ outVc'[p][e] = [outVc[p][e] EXCEPT ![c] = Tail(outVc[p][e][c])]
          BY <5>1, <5>3
        <5>5. outVc'[p][e][b] = IF b = c THEN Tail(outVc[p][e][c]) ELSE outVc[p][e][b]
          BY <5>1, <5>4
        <5> QED BY <5>3, <5>4, <5>5
      <4>4. Waits'[<<q, d, b>>] = outVc'[q][d][b]
        BY VcAtNext
      <4>5. <<q, d, b>> = v <=> q = p /\ d = e /\ b = c
        OBVIOUS
      <4> HIDE DEF M, v
      <4> QED BY <4>2, <4>3, <4>4, <4>5
    <3> QED BY <3>1, <3>2
  <2> HIDE DEF M
  <2>4. PICK L, K : L = Waits' /\ K = M
    OBVIOUS
  <2>5. L = [u \in Vc |-> L[u]] /\ K = [u \in Vc |-> K[u]]
    BY <2>1, <2>2, <2>4
  <2>6. \A q \in PE, b \in Colors :
           /\ L[<<q, "In", b>>] = K[<<q, "In", b>>]
           /\ \A d \in Dir : L[<<q, d, b>>] = K[<<q, d, b>>]
    BY <2>3, <2>4
  <2>7. L = K
    BY <2>5, <2>6, VcMapsEqual
  <2> QED BY <2>4, <2>7
<1>4. Reads' = Reads
  BY <1>1, SameReads
<1>5. Moves
  <2> HIDE DEF v
  <2>1. {} \in SUBSET Vc
    OBVIOUS
  <2> QED BY <1>1, <1>2, <1>3, <1>4, <2>1 DEF Moves
<1> QED BY <1>1, <1>5

\* Fabout reads the front wavelet of an input VC.
LEMMA FaboutTakes ==
    ASSUME TypeOK, NEW p \in PE, NEW c \in Colors, Fabout(p, c)
    PROVE  TakesOne
<1> DEFINE v == <<p, "In", c>>
           M == Popped(Waits, v)
           B == Pushed(Reads, {v}, Head(Waits[v]))
<1>1. /\ inVc[p][c] # <<>> /\ UNCHANGED outVc
      /\ inVc' = [inVc EXCEPT ![p][c] = Tail(@)]
      /\ got' = [got EXCEPT ![p][c] = Append(@, Head(inVc[p][c]))]
  BY DEF Fabout
<1>2. v \in Vc /\ Waits[v] = inVc[p][c]
  BY VcAt
<1>3. ASSUME NEW q \in PE, NEW b \in Colors
      PROVE  /\ Waits'[<<q, "In", b>>] = M[<<q, "In", b>>]
             /\ Reads'[<<q, "In", b>>] = B[<<q, "In", b>>]
  <2>1. /\ <<q, "In", b>> \in Vc /\ Waits[<<q, "In", b>>] = inVc[q][b]
        /\ Reads[<<q, "In", b>>] = got[q][b]
    BY VcAt
  <2>2. M[<<q, "In", b>>] = IF <<q, "In", b>> = v THEN Tail(inVc[q][b]) ELSE inVc[q][b]
    BY <2>1 DEF Popped
  <2>3. B[<<q, "In", b>>] = IF <<q, "In", b>> = v THEN Append(got[q][b], Head(inVc[p][c]))
                            ELSE got[q][b]
    BY <1>2, <2>1 DEF Pushed
  <2>4. inVc'[q][b] = IF q = p /\ b = c THEN Tail(inVc[q][b]) ELSE inVc[q][b]
    BY <1>1 DEF TypeOK
  <2>5. got'[q][b] = IF q = p /\ b = c THEN Append(got[q][b], Head(inVc[p][c])) ELSE got[q][b]
    BY <1>1 DEF TypeOK
  <2>6. Waits'[<<q, "In", b>>] = inVc'[q][b] /\ Reads'[<<q, "In", b>>] = got'[q][b]
    BY VcAtNext
  <2>7. <<q, "In", b>> = v <=> q = p /\ b = c
    OBVIOUS
  <2> HIDE DEF M, B, v
  <2> QED BY <2>2, <2>3, <2>4, <2>5, <2>6, <2>7
<1>4. ASSUME NEW q \in PE, NEW b \in Colors, NEW d \in Dir
      PROVE  Waits'[<<q, d, b>>] = M[<<q, d, b>>] /\ Reads'[<<q, d, b>>] = B[<<q, d, b>>]
  <2>1. /\ <<q, d, b>> \in Vc /\ <<q, d, b>> # v /\ Waits[<<q, d, b>>] = outVc[q][d][b]
        /\ Reads[<<q, d, b>>] = <<>>
    BY VcAt DEF Dir
  <2>2. M[<<q, d, b>>] = outVc[q][d][b] /\ B[<<q, d, b>>] = <<>>
    BY <2>1 DEF Popped, Pushed
  <2>3. Waits'[<<q, d, b>>] = outVc'[q][d][b] /\ Reads'[<<q, d, b>>] = <<>>
    BY VcAtNext
  <2> QED BY <1>1, <2>2, <2>3
<1>5. /\ Waits' = [u \in Vc |-> Waits'[u]] /\ M = [u \in Vc |-> M[u]]
      /\ Reads' = [u \in Vc |-> Reads'[u]] /\ B = [u \in Vc |-> B[u]]
  BY DEF Waits, Reads, Popped, Pushed
<1>6. Waits' = M /\ Reads' = B
  <2> HIDE DEF M, B
  <2>1. Waits' = M
    <3>1. \A q \in PE, b \in Colors :
             /\ Waits'[<<q, "In", b>>] = M[<<q, "In", b>>]
             /\ \A d \in Dir : Waits'[<<q, d, b>>] = M[<<q, d, b>>]
      BY <1>3, <1>4
    <3> QED BY <1>5, <3>1, VcMapsEqual
  <2>2. Reads' = B
    <3>1. \A q \in PE, b \in Colors :
             /\ Reads'[<<q, "In", b>>] = B[<<q, "In", b>>]
             /\ \A d \in Dir : Reads'[<<q, d, b>>] = B[<<q, d, b>>]
      BY <1>3, <1>4
    <3> QED BY <1>5, <3>1, VcMapsEqual
  <2> QED BY <2>1, <2>2
<1>7. Waits[v] # <<>>
  BY <1>1, <1>2
<1> HIDE DEF v
<1> QED BY <1>2, <1>6, <1>7 DEF TakesOne

\* An injection brings the next wavelet to the output VCs of its directions.
LEMMA InjectSends ==
    ASSUME TypeOK, NEW i \in Injections, Inject(i[1], i[2], i[3])
    PROVE  SendsOne(i)
<1>1. PICK p \in PE, c \in Colors, dirs \in SUBSET Dir, w \in Nat :
        /\ p = i[1] /\ c = i[2] /\ dirs = i[3] /\ w = Len(sent) + 1
        /\ outVc' = PushAll(p, c, dirs, w)
        /\ sent' = Append(sent, [pe |-> p, color |-> c, dirs |-> dirs])
        /\ UNCHANGED <<inVc, got>>
  <2>1. i[1] \in PE /\ i[2] \in Colors /\ i[3] \in SUBSET Dir
    BY FabricAssumption
  <2>2. Len(sent) + 1 \in Nat
    BY LenProperties DEF TypeOK
  <2> QED BY <2>1, <2>2, Zenon DEF Inject
<1>2. Roots(i) = {<<p, d, c>> : d \in dirs}
  BY <1>1 DEF Roots
<1> DEFINE T == Roots(i)
           M == Pushed(Waits, T, w)
<1>3. ASSUME NEW q \in PE, NEW b \in Colors
      PROVE  Waits'[<<q, "In", b>>] = M[<<q, "In", b>>]
  <2>1. <<q, "In", b>> \in Vc /\ <<q, "In", b>> \notin T /\ Waits[<<q, "In", b>>] = inVc[q][b]
    BY <1>2, VcAt DEF Dir
  <2>2. M[<<q, "In", b>>] = inVc[q][b]
    BY <2>1 DEF Pushed
  <2>3. Waits'[<<q, "In", b>>] = inVc'[q][b]
    BY VcAtNext
  <2> QED BY <1>1, <2>2, <2>3
<1>4. ASSUME NEW q \in PE, NEW b \in Colors, NEW d \in Dir
      PROVE  Waits'[<<q, d, b>>] = M[<<q, d, b>>]
  <2>1. <<q, d, b>> \in Vc /\ Waits[<<q, d, b>>] = outVc[q][d][b]
    BY VcAt
  <2>2. M[<<q, d, b>>] = IF <<q, d, b>> \in T THEN Append(outVc[q][d][b], w) ELSE outVc[q][d][b]
    BY <2>1 DEF Pushed
  <2>3. <<q, d, b>> \in T <=> q = p /\ d \in dirs /\ b = c
    BY <1>2
  <2>4. outVc'[q][d][b] = IF q = p /\ d \in dirs /\ b = c
                          THEN Append(outVc[q][d][b], w) ELSE outVc[q][d][b]
    BY <1>1 DEF PushAll
  <2>5. Waits'[<<q, d, b>>] = outVc'[q][d][b]
    BY VcAtNext
  <2> HIDE DEF T, M
  <2> QED BY <2>2, <2>3, <2>4, <2>5
<1>5. Waits' = [u \in Vc |-> Waits'[u]] /\ M = [u \in Vc |-> M[u]]
  BY DEF Waits, Pushed
<1>6. Waits' = M
  <2> HIDE DEF M
  <2>1. \A q \in PE, b \in Colors :
           /\ Waits'[<<q, "In", b>>] = M[<<q, "In", b>>]
           /\ \A d \in Dir : Waits'[<<q, d, b>>] = M[<<q, d, b>>]
    BY <1>3, <1>4
  <2> QED BY <1>5, <2>1, VcMapsEqual
<1>7. Reads' = Reads
  BY <1>1, SameReads
<1> QED BY <1>1, <1>6, <1>7 DEF SendsOne, Sender

\* Whatever is in a VC was accepted from an injection.
LEMMA AcceptedKept ==
    ASSUME TypeOK, Accepted,
           \/ Moves /\ UNCHANGED sent
           \/ TakesOne /\ UNCHANGED sent
           \/ \E i \in Injections : SendsOne(i)
    PROVE  Accepted'
<1>1. Waits \in VcMap /\ Reads \in VcMap /\ Len(sent) \in Nat
  BY WaitsTyped, LenProperties DEF TypeOK
<1>2. \A v \in Vc : Waits[v] \in Seq(Nat) /\ Reads[v] \in Seq(Nat)
  BY <1>1 DEF VcMap
<1>3. CASE Moves /\ UNCHANGED sent
  <2>1. PICK v \in Vc, T \in SUBSET Vc :
          /\ Waits[v] # <<>>
          /\ Waits' = Pushed(Popped(Waits, v), T, Head(Waits[v])) /\ Reads' = Reads
    BY <1>3 DEF Moves
  <2>2. PICK M \in VcMap, w \in Nat :
          /\ M = Popped(Waits, v) /\ w = Head(Waits[v]) /\ w \in Range(Waits[v])
          /\ \A u \in Vc : Range(M[u]) \subseteq Range(Waits[u])
    <3>1. /\ Popped(Waits, v) \in VcMap
          /\ \A u \in Vc : Range(Popped(Waits, v)[u]) \subseteq Range(Waits[u])
      BY <1>1, <2>1, PoppedVcs, Zenon
    <3>2. Head(Waits[v]) \in Nat /\ Head(Waits[v]) \in Range(Waits[v])
      BY <1>2, <2>1, PopVc, Zenon
    <3> QED BY <3>1, <3>2, Zenon
  <2>3. ASSUME NEW u \in Vc
        PROVE  Range(Waits'[u]) \subseteq Range(Waits[u]) \cup {w}
    <3>1. Range(Pushed(M, T, w)[u]) \subseteq Range(M[u]) \cup {w}
      BY <2>2, <2>3, PushedWithin, Zenon
    <3> QED BY <2>1, <2>2, <3>1
  <2>4. w \in 1..Len(sent)
    BY <2>2 DEF Accepted, Passed
  <2> QED BY <1>3, <2>1, <2>3, <2>4 DEF Accepted, Passed
<1>4. CASE TakesOne /\ UNCHANGED sent
  <2>1. PICK v \in Vc :
          /\ Waits[v] # <<>>
          /\ Waits' = Popped(Waits, v) /\ Reads' = Pushed(Reads, {v}, Head(Waits[v]))
    BY <1>4 DEF TakesOne
  <2>2. PICK w \in Nat, T \in SUBSET Vc : w = Head(Waits[v]) /\ w \in Range(Waits[v]) /\ T = {v}
    BY <1>2, <2>1, PopVc, Zenon
  <2>3. \A u \in Vc : Range(Waits'[u]) \subseteq Range(Waits[u])
    BY <1>1, <2>1, PoppedVcs, Zenon
  <2>4. ASSUME NEW u \in Vc
        PROVE  Range(Reads'[u]) \subseteq Range(Reads[u]) \cup {w}
    <3>1. Reads' = Pushed(Reads, T, w)
      BY <2>1, <2>2
    <3>2. Range(Pushed(Reads, T, w)[u]) \subseteq Range(Reads[u]) \cup {w}
      BY <1>1, <2>2, <2>4, PushedWithin, Zenon
    <3> QED BY <3>1, <3>2
  <2>5. w \in 1..Len(sent)
    BY <2>2 DEF Accepted, Passed
  <2> QED BY <1>4, <2>3, <2>4, <2>5 DEF Accepted, Passed
<1>5. ASSUME NEW i \in Injections, SendsOne(i)
      PROVE  Accepted'
  <2>1. PICK w, T : w = Len(sent) + 1 /\ w \in Nat /\ T = Roots(i)
    BY <1>1
  <2>2. Waits' = Pushed(Waits, T, w) /\ Reads' = Reads /\ Len(sent') = w
    <3>1. Sender(i) \in [pe : PE, color : Colors, dirs : SUBSET Dir]
      BY FabricAssumption DEF Sender
    <3>2. Len(Append(sent, Sender(i))) = Len(sent) + 1
      BY <3>1, AppendProperties DEF TypeOK
    <3> QED BY <1>5, <2>1, <3>2 DEF SendsOne
  <2>3. ASSUME NEW u \in Vc
        PROVE  Range(Waits'[u]) \subseteq Range(Waits[u]) \cup {w}
    <3>1. Range(Pushed(Waits, T, w)[u]) \subseteq Range(Waits[u]) \cup {w}
      BY <1>1, <2>1, <2>3, PushedWithin, Zenon
    <3> QED BY <2>2, <3>1
  <2>4. ASSUME NEW u \in Vc, NEW n \in Passed(Reads, Waits, u) \cup {w}
        PROVE  n \in 1..w
    <3>1. n \in 1..Len(sent) \/ n = w
      BY <2>4 DEF Accepted
    <3> QED BY <1>1, <2>1, <3>1
  <2> QED BY <2>2, <2>3, <2>4 DEF Accepted, Passed
<1> QED BY <1>3, <1>4, <1>5

\* An empty fabric is in order.
LEMMA InitOrder == PathsDoNotRejoin /\ LoopInit => OrderInv
<1> SUFFICES ASSUME PathsDoNotRejoin, LoopInit
             PROVE  OrderInv
  OBVIOUS
<1>1. Init
  BY DEF LoopInit
<1>2. /\ \A p \in PE, c \in Colors : ~config[p][c].has
      /\ sent = <<>> /\ DOMAIN sent = {}
  <2>1. DOMAIN <<>> = {}
    BY EmptySeq
  <2> QED BY <1>1, <2>1 DEF Init, NoConfig
<1>3. ASSUME NEW v \in Vc
      PROVE  Waits[v] = <<>> /\ Reads[v] = <<>>
  <2>1. PICK p \in PE, c \in Colors :
           v = <<p, "In", c>> \/ \E d \in Dir : v = <<p, d, c>> /\ d # "In"
    BY VcKinds
  <2>2. CASE v = <<p, "In", c>>
    <3>1. inVc[p][c] = <<>> /\ got[p][c] = <<>>
      BY <1>1 DEF Init
    <3> QED BY <2>2, <3>1, VcAt
  <2>3. ASSUME NEW d \in Dir, v = <<p, d, c>>
        PROVE  Waits[v] = <<>> /\ Reads[v] = <<>>
    <3>1. outVc[p][d][c] = <<>>
      BY <1>1 DEF Init
    <3>2. Waits[<<p, d, c>>] = outVc[p][d][c] /\ Reads[<<p, d, c>>] = <<>>
      BY VcAt
    <3> QED BY <2>3, <3>1, <3>2
  <2> QED BY <2>1, <2>2, <2>3
<1>4. ASSUME NEW v \in Vc
      PROVE  Passed(Reads, Waits, v) = {}
  <2>1. Range(<<>>) = {}
    BY EmptySeq DEF Range
  <2> QED BY <1>3, <2>1 DEF Passed
<1>5. ASSUME NEW N, NEW tree, NEW up
      PROVE  InLine(N, tree, up, Reads, Waits)
  <2>1. InTree(N, tree, Reads, Waits)
    BY <1>4 DEF InTree
  <2>2. EachRises(N, Reads, Waits)
    <3>1. Len(<<>>) = 0
      OBVIOUS
    <3> QED BY <1>3, <1>4, <3>1 DEF EachRises, Rising, Below, Passed
  <2>3. Descends(N, up, Reads, Waits)
    BY <1>4 DEF Descends, Below
  <2> QED BY <2>1, <2>2, <2>3 DEF InLine
<1>6. \A i \in Injections : StreamInLine(i)
  BY <1>5, Zenon DEF PathsDoNotRejoin, StreamInLine
<1>7. FromRoutes /\ FromSenders /\ Accepted
  BY <1>2, <1>4 DEF FromRoutes, FromSenders, Accepted
<1> QED BY <1>6, <1>7 DEF OrderInv

\* The three kinds of steps together.
LEMMA OrderKept ==
    ASSUME TypeOK, OrderInv,
           \/ Moves /\ UNCHANGED sent
           \/ TakesOne /\ UNCHANGED sent
           \/ \E i \in Injections : SendsOne(i)
    PROVE  Accepted' /\ FromSenders' /\ \A i \in Injections : StreamInLine(i)'
<1>1. FromSenders /\ Accepted /\ \A i \in Injections : StreamInLine(i)
  BY DEF OrderInv
<1>2. Accepted'
  BY <1>1, AcceptedKept
<1>3. \A i \in Injections : StreamInLine(i)'
  BY <1>1, MovesKeep, TakesKeep, SendsKeep
<1>4. FromSenders'
  <2>1. CASE UNCHANGED sent
    BY <1>1, <2>1 DEF FromSenders, Sender
  <2>2. ASSUME NEW i \in Injections, SendsOne(i)
        PROVE  FromSenders'
    <3>1. Sender(i) \in [pe : PE, color : Colors, dirs : SUBSET Dir]
      BY FabricAssumption DEF Sender
    <3>2. sent \in Seq([pe : PE, color : Colors, dirs : SUBSET Dir])
      BY DEF TypeOK
    <3>3. /\ Append(sent, Sender(i)) \in Seq([pe : PE, color : Colors, dirs : SUBSET Dir])
          /\ Len(Append(sent, Sender(i))) = Len(sent) + 1
          /\ \A n \in 1..Len(sent) : Append(sent, Sender(i))[n] = sent[n]
          /\ Append(sent, Sender(i))[Len(sent) + 1] = Sender(i)
      BY <3>1, <3>2, AppendProperties
    <3>4. /\ Len(sent) \in Nat /\ DOMAIN sent = 1..Len(sent)
          /\ DOMAIN sent' = 1..Len(sent) + 1 /\ sent' = Append(sent, Sender(i))
      BY <2>2, <3>2, <3>3, LenProperties DEF SendsOne
    <3>5. ASSUME NEW n \in DOMAIN sent'
          PROVE  \E j \in Injections : sent'[n] = Sender(j)
      <4>1. n \in DOMAIN sent \/ n = Len(sent) + 1
        <5>1. PICK l \in Nat : l = Len(sent)
          BY <3>4
        <5>2. n \in 1..l + 1
          BY <3>4, <3>5, <5>1
        <5>3. n \in 1..l \/ n = l + 1
          BY <5>1, <5>2
        <5> QED BY <3>4, <5>1, <5>3
      <4> QED BY <1>1, <3>3, <3>4, <4>1 DEF FromSenders
    <3> QED BY <3>5 DEF FromSenders, Sender
  <2> QED BY <2>1, <2>2
<1> QED BY <1>2, <1>3, <1>4

\* Every operation and every iteration of the loops keeps the order.
LEMMA NextOrder == IInv /\ OrderInv /\ [LoopNext]_<<vars, loopVars>> => OrderInv'
<1> SUFFICES ASSUME IInv, OrderInv, [LoopNext]_<<vars, loopVars>>
             PROVE  OrderInv'
  OBVIOUS
<1>1. TypeOK /\ FromRoutes
  BY DEF IInv, OrderInv
<1>2. CASE UNCHANGED <<inVc, outVc, got, sent>> /\ FromRoutes'
  <2>1. Waits' = Waits /\ Reads' = Reads /\ sent' = sent
    BY <1>2 DEF Waits, Reads
  <2>2. \A i : Stream(i)' = Stream(i)
    BY <2>1 DEF Stream, Sender
  <2>3. \A i \in Injections : StreamInLine(i)'
    BY <2>1, <2>2 DEF OrderInv, StreamInLine
  <2>4. FromSenders' /\ Accepted'
    BY <2>1 DEF OrderInv, FromSenders, Accepted, Sender
  <2> QED BY <1>2, <2>3, <2>4 DEF OrderInv
<1>3. CASE /\ UNCHANGED config
           /\ \/ Moves /\ UNCHANGED sent
              \/ TakesOne /\ UNCHANGED sent
              \/ \E i \in Injections : SendsOne(i)
  <2>1. Accepted' /\ FromSenders' /\ \A i \in Injections : StreamInLine(i)'
    BY <1>1, <1>3, OrderKept
  <2>2. FromRoutes'
    BY <1>1, <1>3 DEF FromRoutes
  <2> QED BY <2>1, <2>2 DEF OrderInv
<1>4. CASE Forward
  BY <1>1, <1>3, <1>4, ForwardMoves DEF Forward
<1>5. CASE Deliver
  BY <1>1, <1>3, <1>5, DeliverMoves, Zenon DEF Deliver
<1>6. CASE DropOffGrid
  BY <1>1, <1>3, <1>6, DropMoves, Zenon DEF DropOffGrid
<1>7. ASSUME NEW p \in PE, NEW c \in Colors, Fabout(p, c)
      PROVE  OrderInv'
  <2>1. TakesOne
    BY <1>1, <1>7, FaboutTakes
  <2> QED BY <1>3, <1>7, <2>1 DEF Fabout
<1>8. ASSUME NEW i \in Injections, Inject(i[1], i[2], i[3])
      PROVE  OrderInv'
  <2>1. SendsOne(i)
    BY <1>1, <1>8, InjectSends
  <2> QED BY <1>3, <1>8, <2>1 DEF Inject
<1>9. ASSUME NEW r \in Routes, SetRoute(r[1], r[2], r[3], r[4])
      PROVE  OrderInv'
  <2>1. /\ UNCHANGED <<inVc, outVc, got, sent>>
        /\ config' = [config EXCEPT ![r[1]][r[2]] = [has |-> TRUE, rx |-> r[3], tx |-> r[4]]]
    BY <1>9 DEF SetRoute, histVars
  <2>2. ASSUME NEW p \in PE, NEW c \in Colors, config'[p][c].has
        PROVE  \E s \in Routes : s[1] = p /\ s[2] = c /\ s[4] = config'[p][c].tx
    <3>1. CASE p = r[1] /\ c = r[2]
      <4>1. config'[p][c] = [has |-> TRUE, rx |-> r[3], tx |-> r[4]]
        BY <1>1, <2>1, <3>1 DEF TypeOK
      <4> QED BY <3>1, <4>1
    <3>2. CASE ~(p = r[1] /\ c = r[2])
      <4>1. config'[p][c] = config[p][c]
        BY <1>1, <2>1, <3>2 DEF TypeOK
      <4> QED BY <1>1, <2>2, <4>1 DEF FromRoutes
    <3> QED BY <3>1, <3>2
  <2>3. FromRoutes'
    BY <2>2 DEF FromRoutes
  <2> QED BY <1>2, <2>1, <2>3
<1>10. CASE \/ BeginStep \/ ForwardDone \/ BeginHops \/ NextMove \/ EndStep
            \/ UNCHANGED <<vars, loopVars>>
  <2>1. UNCHANGED <<inVc, outVc, config, got, sent>>
    BY <1>10 DEF BeginStep, ForwardDone, BeginHops, NextMove, EndStep, vars, fabricVars, histVars
  <2>2. FromRoutes'
    BY <1>1, <2>1 DEF FromRoutes
  <2> QED BY <1>2, <2>1, <2>2
<1> QED BY <1>4, <1>5, <1>6, <1>7, <1>8, <1>9, <1>10 DEF LoopNext, StepLoop, BetweenCycles

\* What a CE has read and what waits for it keeps the order of each stream.
LEMMA InLineInOrder == TypeOK /\ OrderInv => InOrder
<1> SUFFICES ASSUME TypeOK, OrderInv, NEW p \in PE, NEW c \in Colors,
                    NEW j \in DOMAIN (got[p][c] \o inVc[p][c]),
                    NEW k \in DOMAIN (got[p][c] \o inVc[p][c]),
                    j < k,
                    sent[(got[p][c] \o inVc[p][c])[j]] = sent[(got[p][c] \o inVc[p][c])[k]]
             PROVE  (got[p][c] \o inVc[p][c])[j] < (got[p][c] \o inVc[p][c])[k]
  BY DEF InOrder
<1>1. PICK a \in Seq(Nat), b \in Seq(Nat), v \in Vc :
        a = got[p][c] /\ b = inVc[p][c] /\ v = <<p, "In", c>> /\ Reads[v] = a /\ Waits[v] = b
  <2>1. got[p][c] \in Seq(Nat) /\ inVc[p][c] \in Seq(Nat)
    BY DEF TypeOK
  <2>2. /\ <<p, "In", c>> \in Vc
        /\ Waits[<<p, "In", c>>] = inVc[p][c] /\ Reads[<<p, "In", c>>] = got[p][c]
    BY VcAt
  <2> QED BY <2>1, <2>2, Zenon
<1>2. PICK l \in Nat, m \in Nat : l = Len(a) /\ m = Len(b)
  BY LenProperties
<1>3. /\ a \o b \in Seq(Nat) /\ Len(a \o b) = l + m
      /\ \A n \in 1..l + m : (a \o b)[n] = IF n <= l THEN a[n] ELSE b[n - l]
  BY <1>2, ConcatProperties
<1>4. j \in 1..l + m /\ k \in 1..l + m
  BY <1>1, <1>3, LenProperties
<1>5. DOMAIN a = 1..l /\ DOMAIN b = 1..m
  BY <1>2, LenProperties
<1>6. PICK x, y : x = (a \o b)[j] /\ y = (a \o b)[k] /\ sent[x] = sent[y]
  BY <1>1
<1>7. \/ k <= l /\ j \in 1..l /\ k \in 1..l /\ x = a[j] /\ y = a[k]
      \/ j <= l /\ j \in 1..l /\ k - l \in 1..m /\ x = a[j] /\ y = b[k - l]
      \/ j - l \in 1..m /\ k - l \in 1..m /\ j - l < k - l /\ x = b[j - l] /\ y = b[k - l]
  <2>1. CASE k <= l
    <3>1. j <= l /\ j \in 1..l /\ k \in 1..l
      BY <1>2, <1>4, <2>1
    <3> QED BY <1>3, <1>4, <1>6, <2>1, <3>1
  <2>2. CASE j <= l /\ ~(k <= l)
    <3>1. j \in 1..l /\ k - l \in 1..m
      BY <1>2, <1>4, <2>2
    <3> QED BY <1>3, <1>4, <1>6, <2>2, <3>1
  <2>3. CASE ~(j <= l)
    <3>1. j - l \in 1..m /\ k - l \in 1..m /\ j - l < k - l /\ ~(k <= l)
      BY <1>2, <1>4, <2>3
    <3> QED BY <1>3, <1>4, <1>6, <2>3, <3>1
  <2> QED BY <2>1, <2>2, <2>3
<1>8. x \in Passed(Reads, Waits, v) /\ y \in Passed(Reads, Waits, v)
  <2>1. \A n \in 1..l : a[n] \in Range(a)
    BY <1>5 DEF Range
  <2>2. \A n \in 1..m : b[n] \in Range(b)
    BY <1>5 DEF Range
  <2> QED BY <1>1, <1>7, <2>1, <2>2 DEF Passed
<1>9. x \in DOMAIN sent /\ y \in DOMAIN sent
  <2>1. DOMAIN sent = 1..Len(sent)
    BY LenProperties DEF TypeOK
  <2> QED BY <1>8, <2>1 DEF OrderInv, Accepted
<1>10. PICK i \in Injections : sent[x] = Sender(i)
  BY <1>9 DEF OrderInv, FromSenders
<1>11. PICK N : N = Stream(i) /\ x \in N /\ y \in N
  BY <1>6, <1>9, <1>10 DEF Stream
<1>12. EachRises(N, Reads, Waits)
  BY <1>11 DEF OrderInv, StreamInLine, InLine
<1>13. Rising(N, a) /\ Rising(N, b) /\ Below(N, Range(a), Range(b))
  BY <1>1, <1>12 DEF EachRises
<1>14. x < y
  <2>1. CASE k <= l /\ j \in 1..l /\ k \in 1..l /\ x = a[j] /\ y = a[k]
    BY <1>2, <1>11, <1>13, <2>1 DEF Rising
  <2>2. CASE j <= l /\ j \in 1..l /\ k - l \in 1..m /\ x = a[j] /\ y = b[k - l]
    <3>1. x \in Range(a) /\ y \in Range(b)
      BY <1>5, <2>2 DEF Range
    <3> QED BY <1>11, <1>13, <3>1 DEF Below
  <2>3. CASE j - l \in 1..m /\ k - l \in 1..m /\ j - l < k - l /\ x = b[j - l] /\ y = b[k - l]
    BY <1>2, <1>11, <1>13, <2>3 DEF Rising
  <2> QED BY <1>7, <2>1, <2>2, <2>3
<1> QED BY <1>1, <1>6, <1>14

\* The invariant holds in every reachable state of the loops.
LEMMA SpecOrderInv == PathsDoNotRejoin /\ LoopSpec => []OrderInv
<1> SUFFICES ASSUME PathsDoNotRejoin
             PROVE  LoopSpec => []OrderInv
  OBVIOUS
<1>1. LoopInit => OrderInv
  BY InitOrder
<1> QED BY <1>1, NextOrder, SpecIInv, PTL DEF LoopSpec

\* For every mesh, depth and client, on routes that form a tree for every stream:
\* whatever stalls, merges and multicasts there are, a CE gets the wavelets of a
\* stream in the order in which they were injected, and none of them twice.
THEOREM StreamsStayInOrder ==
    ASSUME PathsDoNotRejoin
    PROVE  LoopSpec => []InOrder
<1>1. LoopSpec => []OrderInv
  BY SpecOrderInv, PTL
<1>2. LoopSpec => []TypeOK
  BY TypeCorrect
<1> QED BY <1>1, <1>2, InLineInOrder, PTL

=============================================================================
