--------------------------- MODULE MCSummaRoutes ----------------------------
(* One A wavelet and one B wavelet on a 3 x 3 mesh. *)
EXTENDS SummaRoutes

MCInjections == { <<<<0, 0>>, 0, {"East"}>>, <<<<2, 2>>, 1, {"South"}>> }
=============================================================================
