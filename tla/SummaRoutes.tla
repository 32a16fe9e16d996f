---------------------------- MODULE SummaRoutes -----------------------------
(***************************************************************************)
(* The fabric with the routes that ConfigureSummaRoutes sets on a square   *)
(* mesh before any traffic: A colors are received from the west and        *)
(* re-emitted east and to the RAMP, B colors from the north and re-emitted *)
(* south and to the RAMP; the far edge taps only.                          *)
(***************************************************************************)
EXTENDS Fabric

CONSTANTS AColors, BColors  \* the data colors; together they are Colors

Route(rx, tx) == [has |-> TRUE, rx |-> rx, tx |-> tx]

ConfigureSummaRoutes ==
    [p \in PE |-> [c \in Colors |->
        IF c \in AColors
        THEN Route("West", IF p[1] < Width - 1 THEN {"East", "Ramp"} ELSE {"Ramp"})
        ELSE Route("North", IF p[2] > 0 THEN {"South", "Ramp"} ELSE {"Ramp"})]]

RoutedInit ==
    /\ inVc = [p \in PE |-> [c \in Colors |-> <<>>]]
    /\ outVc = [p \in PE |-> [d \in Dir |-> [c \in Colors |-> <<>>]]]
    /\ config = ConfigureSummaRoutes
    /\ dropped = 0
    /\ sent = <<>>
    /\ got = [p \in PE |-> [c \in Colors |-> <<>>]]
    /\ fell = {}
    /\ born = 0

RoutedSpec == RoutedInit /\ [][Next]_vars

\* "A colors forward West -> East (| Ramp for the local tap; the east edge taps
\* only)" (Summa.h): a broadcast hands each CE of the row one copy of a wavelet.
TapsOnce ==
    \A p \in PE, c \in Colors :
        LET seen == got[p][c] \o inVc[p][c]
        IN  \A i, j \in DOMAIN seen : i # j => seen[i] # seen[j]
=============================================================================
