----------------------------- MODULE MCGridLoop -----------------------------
(***************************************************************************)
(* Three streams meet at PE (1, 0) of a 3 x 2 mesh (eastbound, southbound  *)
(* and from its own RAMP), which may forward them all to the east edge;    *)
(* the east edge may forward off the mesh.                                 *)
(***************************************************************************)
EXTENDS GridLoop

MCInjections ==
    { <<<<0, 0>>, 0, {"East"}>>,
      <<<<1, 1>>, 0, {"South", "East"}>>,
      <<<<1, 0>>, 0, {"Ramp"}>> }

MCRoutes ==
    { <<<<1, 0>>, 0, "West", {"East"}>>,
      <<<<2, 0>>, 0, "West", {"East", "North"}>> }
=============================================================================
