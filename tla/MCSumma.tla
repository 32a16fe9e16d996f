------------------------------ MODULE MCSumma ------------------------------
(***************************************************************************)
(* A 3 x 3 mesh with one or two rows and columns per PE, k up to 6 and     *)
(* every preferred slab width up to 4: panels of 1 to 12 elements (VCs     *)
(* hold 4), 1 to 6 steps, slabs that do and do not divide k.               *)
(***************************************************************************)
EXTENDS Summa

MCShapes == [n : {3, 6}, k : 1..6, tileK : 0..4]

=============================================================================
