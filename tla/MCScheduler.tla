---------------------------- MODULE MCScheduler ----------------------------
(***************************************************************************)
(* One PE with a compute task on two colors, a data task that shares one   *)
(* of them and binds it twice, and two one-shot local tasks, one of which  *)
(* has the id of the sharing task, registered in any order and in any      *)
(* number: before the sharing task is registered the compute task owns its *)
(* colors, and of the two with one id a client reaches the first.          *)
(***************************************************************************)
EXTENDS Scheduler

CONSTANTS x, y

MCColors == {x, y}

MCTaskSpecs == {
    [id |-> 2, kind |-> "Data", inputs |-> <<x, y>>, once |-> FALSE],
    [id |-> 1, kind |-> "Data", inputs |-> <<y, y>>, once |-> FALSE],
    [id |-> 3, kind |-> "Local", inputs |-> <<>>, once |-> TRUE],
    [id |-> 1, kind |-> "Local", inputs |-> <<>>, once |-> TRUE]}

=============================================================================
