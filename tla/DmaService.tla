---------------------------- MODULE DmaService ----------------------------
(***************************************************************************)
(* What the DMA promises its callers, whoever else uses it: transfers      *)
(* complete in the order in which they were launched, and a blocking copy  *)
(* only returns when its own transfer, and so every earlier one, is        *)
(* complete.                                                               *)
(***************************************************************************)
EXTENDS Naturals

CONSTANTS
    Harts,       \* callers
    Capacity     \* transfers launched and not complete, at most

VARIABLES
    outstanding, \* number of transfers launched and not complete
    waiting,     \* harts in a blocking copy
    ahead        \* transfers up to a waiting hart's own that are not complete

vars == <<outstanding, waiting, ahead>>

Init == outstanding = 0 /\ waiting = {} /\ ahead = [h \in Harts |-> 0]

Launch(h) ==
    /\ h \notin waiting /\ outstanding < Capacity
    /\ outstanding' = outstanding + 1
    /\ \/ waiting' = waiting \union {h} /\ ahead' = [ahead EXCEPT ![h] = outstanding + 1]
       \/ UNCHANGED <<waiting, ahead>>

Complete ==
    /\ outstanding > 0
    /\ outstanding' = outstanding - 1
    /\ ahead' = [h \in Harts |-> IF ahead[h] > 0 THEN ahead[h] - 1 ELSE 0]
    /\ UNCHANGED waiting

Return(h) ==
    /\ h \in waiting /\ ahead[h] = 0
    /\ waiting' = waiting \ {h}
    /\ UNCHANGED <<outstanding, ahead>>

Next == (\E h \in Harts : Launch(h) \/ Return(h)) \/ Complete

Spec == Init /\ [][Next]_vars
=============================================================================
