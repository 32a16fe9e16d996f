---------------------------- MODULE MCFabricLive ----------------------------
(***************************************************************************)
(* Colors 0 and 1 share the links of a 3 x 1 row.  The east end reads      *)
(* color 0 for ever; color 1 may never be read and fills up.               *)
(***************************************************************************)
EXTENDS Fabric

MCInjections == {<<0, 0>>} \X {0, 1} \X {{"East"}}

MCRoutes == {<<1, 0>>} \X {0, 1} \X {"West"} \X {{"East"}}

MCReaders == {<<<<2, 0>>, 0>>}
=============================================================================
