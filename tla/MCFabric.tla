------------------------------ MODULE MCFabric ------------------------------
(***************************************************************************)
(* A 3 x 2 mesh with two streams that merge at PE (1, 0), a multicast that *)
(* also turns north, and an east edge that may be configured to multicast  *)
(* north and off the mesh.                                                 *)
(***************************************************************************)
EXTENDS Fabric

MCInjections ==
    { <<<<0, 0>>, 0, {"East", "North"}>>,
      <<<<1, 1>>, 0, {"South"}>>,
      <<<<1, 0>>, 0, {"Ramp"}>> }

MCRoutes ==
    { <<<<1, 0>>, 0, "West", {"East"}>>,
      <<<<2, 0>>, 0, "West", {"East", "North"}>> }

\* The branches of the tree along which the wavelets of an injection travel: all
\* come through PE (1, 0), but for the copies that (0, 0) sends north.
MCBranches(i) ==
    LET trunk == <<<<<<1, 0>>, "In", 0>>, <<<<1, 0>>, "East", 0>>, <<<<2, 0>>, "In", 0>>>>
        ends == {<<<<<<2, 0>>, "East", 0>>>>,
                 <<<<<<2, 0>>, "North", 0>>, <<<<2, 1>>, "In", 0>>>>}
        Start(d) == <<<<i[1], d, i[2]>>>>
    IN  {Start(d) \o trunk \o e : d \in i[3] \ {"North"}, e \in ends}
            \cup {Start(d) \o <<<<Hop(i[1], d), "In", i[2]>>>> : d \in i[3] \cap {"North"}}

\* The paths of no stream rejoin.
ASSUME MCFabricAssumption ==
    \A i \in Injections :
        LET Steps(b) == {k \in (1..Len(b)) \X (1..Len(b)) : k[1] < k[2]}
        IN  IsTree(i, UNION {Range(b) : b \in MCBranches(i)},
                   UNION {{<<b[k[1]], b[k[2]]>> : k \in Steps(b)} : b \in MCBranches(i)})
=============================================================================
