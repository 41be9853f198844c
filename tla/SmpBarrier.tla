----------------------------- MODULE SmpBarrier -----------------------------
(***************************************************************************)
(* What smp_pause and smp_resume promise to the stage they launch: one     *)
(* entry point is published, every hart arrives, and only then do harts    *)
(* enter that entry point, each exactly once.  The detailed protocol is    *)
(* SmpBoot.                                                                *)
(***************************************************************************)
EXTENDS Integers

CONSTANTS Harts,     \* the harts of the SoC
          Entries,   \* the possible entry points of the next stage
          NoEntry    \* "not published" / "not launched"

VARIABLES entry,     \* the published entry point
          arrived,   \* the harts that have reached the barrier
          launched   \* where each hart entered the next stage

vars == <<entry, arrived, launched>>

Init == /\ entry = NoEntry
        /\ arrived = {}
        /\ launched = [h \in Harts |-> NoEntry]

Publish(a) == /\ entry = NoEntry
              /\ entry' = a
              /\ UNCHANGED <<arrived, launched>>

Arrive(h) == /\ entry # NoEntry
             /\ h \notin arrived
             /\ arrived' = arrived \union {h}
             /\ UNCHANGED <<entry, launched>>

Launch(h) == /\ arrived = Harts
             /\ launched[h] = NoEntry
             /\ launched' = [launched EXCEPT ![h] = entry]
             /\ UNCHANGED <<entry, arrived>>

Next == \/ \E a \in Entries : Publish(a)
        \/ \E h \in Harts : Arrive(h) \/ Launch(h)

Spec == Init /\ [][Next]_vars
=============================================================================
