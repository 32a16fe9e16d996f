--------------------------- MODULE MCKernelCache ---------------------------
(***************************************************************************)
(* A tuner and a server that share a cache directory, two GPUs, one op.    *)
(***************************************************************************)
EXTENDS KernelCache, TLC

CONSTANTS tuner, server, c1, c2

MCGpus == {<<"gfx1101">>, <<"gfx942">>}
MCOps == {<<"matmul">>}
MCEntries == {[best |-> c1, validated |-> TRUE], [best |-> c2, validated |-> FALSE]}
gfx942 == [gpu |-> <<"gfx942">>, op |-> <<"matmul">>]
MCTuningDocs == {Empty, gfx942 :> [best |-> c1, validated |-> TRUE]}

=============================================================================
