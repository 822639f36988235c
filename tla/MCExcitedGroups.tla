--------------------------- MODULE MCExcitedGroups ---------------------------
(* A corridor of turfs: every turf has the ones before and after it as its   *)
(* neighbours.                                                               *)
EXTENDS ExcitedGroups

Corridor(n) ==
  [t \in 1 .. n |-> IF t = 1 THEN <<2>> ELSE IF t = n THEN <<n - 1>>
                    ELSE <<t + 1, t - 1>>]
Corridor3 == Corridor(3)
=============================================================================
