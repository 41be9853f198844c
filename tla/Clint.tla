-------------------------------- MODULE Clint --------------------------------
(***************************************************************************)
(* Time keeping with the CLINT, sw/lib/dif/clint.c.                        *)
(*                                                                         *)
(* mtime is a 64-bit counter of the reference clock, read in two 32-bit    *)
(* halves while it runs.  Every access of the hart takes some core cycles, *)
(* and the reference clock ticks every Ratio of them.                      *)
(***************************************************************************)
EXTENDS Integers

CONSTANTS LowMod,     \* 2^32: values of the low half of mtime
          Ratio,      \* core cycles per tick of the reference clock
          Latencies,  \* core cycles one step of the hart may take
          NumTicks,   \* ref_freq / ref_time_inv
          Delays,     \* arguments of clint_spin_ticks and clint_sleep_ticks
          Targets,    \* arguments of clint_spin_until and clint_sleep_until
          LastCall,   \* bound: the call is made at this cycle or the step after
          MaxCycle    \* bound on the cycles modelled

\* The clocks run, and of the accesses one is the slowest.
ASSUME ClintAssumption ==
    /\ {LowMod, Ratio, NumTicks} \subseteq Nat \ {0}
    /\ Latencies \subseteq Nat \ {0}
    /\ \E d \in Latencies : \A e \in Latencies : e <= d
    /\ Delays \union Targets \union {LastCall, MaxCycle} \subseteq Nat

VARIABLES cycle,   \* mcycle of the hart
          phase,   \* offset of the reference clock
          pc,      \* where the hart is
          half,    \* the high half read, while the low one is not
          tgt,     \* value waited for
          due,     \* the time the caller expects the call to have waited for
          start,   \* start_mcycle and start_mtime
          end,     \* end_mcycle and end_mtime
          cmp,     \* mtimecmp: high and low half
          last,    \* the call that returned
          torn     \* the call read halves of different times

callVars == <<tgt, due, start, end>>
vars == <<cycle, phase, pc, half, callVars, cmp, last, torn>>

mtime == (cycle + phase) \div Ratio
None == -1

\* Places at which clint_get_mtime is called.
ReadPlaces == {"spin", "spin_from", "sleep", "sleep_from", "freq_now", "freq_start",
               "freq_end"}

Init == /\ cycle = 0 /\ phase \in 0 .. Ratio - 1
        /\ pc = "idle" /\ half = None
        /\ tgt = 0 /\ due = 0 /\ start = <<0, 0>> /\ end = <<0, 0>>
        /\ cmp = <<0, 0>> /\ last = "none" /\ torn = FALSE

Elapse == /\ \E d \in Latencies : cycle' = cycle + d
          /\ cycle' <= MaxCycle
          /\ UNCHANGED phase

\* One call is made, at any time up to LastCall.
Ready == pc = "idle" /\ last = "none"

\* The call returns.
Finish(call) == pc' = "idle" /\ last' = call

-----------------------------------------------------------------------------
(* clint_get_mtime.                                                        *)

ReadHigh == /\ pc \in ReadPlaces /\ half = None
            /\ half' = mtime \div LowMod
            /\ Elapse
            /\ UNCHANGED <<pc, callVars, cmp, last, torn>>

\* Variant for TLC: the low half is read first.
ReadTimeLowFirst == ((mtime + 1) \div LowMod) * LowMod + (mtime % LowMod)

\* The value returned once the low half is read as well.
ReadTime == half * LowMod + (mtime % LowMod)

ReadLow(place) == /\ pc = place /\ half # None
                  /\ half' = None
                  /\ torn' = (torn \/ half # mtime \div LowMod)
                  /\ Elapse

-----------------------------------------------------------------------------
(* clint_spin_until and clint_spin_ticks.                                  *)

CallSpinUntil(t) == /\ Ready
                    /\ pc' = "spin" /\ tgt' = t /\ due' = t
                    /\ torn' = FALSE
                    /\ Elapse
                    /\ UNCHANGED <<half, start, end, cmp, last>>

CallTicks(place, n) == /\ Ready
                       /\ pc' = place /\ tgt' = n /\ due' = mtime + n
                       /\ torn' = FALSE
                       /\ Elapse
                       /\ UNCHANGED <<half, start, end, cmp, last>>

\* The deadline of a relative wait.
FromNow(place, next) == /\ ReadLow(place)
                        /\ tgt' = ReadTime + tgt
                        /\ pc' = next
                        /\ UNCHANGED <<due, start, end, cmp, last>>

\* Variant for TLC: the loop waits for exactly the target.
SpinNotEqual == /\ ReadLow("spin")
                /\ IF ReadTime # tgt THEN UNCHANGED <<pc, last>> ELSE Finish("spin_until")
                /\ UNCHANGED <<callVars, cmp>>

Spin == /\ ReadLow("spin")
        /\ IF ReadTime < tgt THEN UNCHANGED <<pc, last>> ELSE Finish("spin_until")
        /\ UNCHANGED <<callVars, cmp>>

-----------------------------------------------------------------------------
(* clint_get_core_freq.                                                    *)

CallFreq == /\ Ready
            /\ pc' = "freq_now" /\ due' = mtime
            /\ torn' = FALSE
            /\ Elapse
            /\ UNCHANGED <<half, tgt, start, end, cmp, last>>

FreqNow == /\ ReadLow("freq_now")
           /\ end' = <<0, ReadTime>>
           /\ pc' = "cycle_start"
           /\ UNCHANGED <<tgt, due, start, cmp, last>>

\* get_mcycle at the head of either loop.
ReadCycle == /\ pc \in {"cycle_start", "cycle_end"}
             /\ IF pc = "cycle_start"
                THEN pc' = "freq_start" /\ start' = <<cycle, start[2]>> /\ UNCHANGED end
                ELSE pc' = "freq_end" /\ end' = <<cycle, end[2]>> /\ UNCHANGED start
             /\ Elapse
             /\ UNCHANGED <<half, tgt, due, cmp, last, torn>>

\* Variant for TLC: the first loop does not wait for a tick.
FreqStartAtOnce == /\ ReadLow("freq_start")
                   /\ start' = <<start[1], ReadTime>>
                   /\ pc' = "cycle_end"
                   /\ UNCHANGED <<tgt, due, end, cmp, last>>

FreqStart == /\ ReadLow("freq_start")
             /\ start' = <<start[1], ReadTime>>
             /\ pc' = IF ReadTime = end[2] THEN "cycle_start" ELSE "cycle_end"
             /\ UNCHANGED <<tgt, due, end, cmp, last>>

FreqEnd == /\ ReadLow("freq_end")
           /\ end' = <<end[1], ReadTime>>
           /\ IF ReadTime < start[2] + NumTicks THEN pc' = "cycle_end" /\ UNCHANGED last
              ELSE Finish("get_core_freq")
           /\ UNCHANGED <<tgt, due, start, cmp>>

-----------------------------------------------------------------------------
(* clint_sleep_until, clint_sleep_ticks and clint_set_mtimecmpx.           *)

CallSleepUntil(t) == /\ Ready
                     /\ pc' = "sleep" /\ tgt' = t /\ due' = t
                     /\ torn' = FALSE
                     /\ Elapse
                     /\ UNCHANGED <<half, start, end, cmp, last>>

\* The code returns at once if the time has NOT yet come.
Sleep == /\ ReadLow("sleep")
         /\ IF ReadTime < tgt THEN Finish("sleep_until")
            ELSE pc' = "cmp_high" /\ UNCHANGED last
         /\ UNCHANGED <<callVars, cmp>>

\* The comparison value, high half first.
SetCompare ==
    /\ pc \in {"cmp_high", "cmp_low"}
    /\ IF pc = "cmp_high" THEN pc' = "cmp_low" /\ cmp' = <<tgt \div LowMod, cmp[2]>>
       ELSE pc' = "wfi" /\ cmp' = <<cmp[1], tgt % LowMod>>
    /\ Elapse
    /\ UNCHANGED <<half, callVars, last, torn>>

TimerInterrupt == mtime >= cmp[1] * LowMod + cmp[2]

\* wfi ends when the timer interrupt is pending.
WakeUp == /\ pc = "wfi" /\ TimerInterrupt
          /\ Finish("sleep_until")
          /\ Elapse
          /\ UNCHANGED <<half, callVars, cmp, torn>>

\* Time passes before the call.
Idle == /\ Ready /\ cycle < LastCall
        /\ Elapse
        /\ UNCHANGED <<pc, half, callVars, cmp, last, torn>>

Rest == pc = "idle" /\ last # "none" /\ UNCHANGED vars

-----------------------------------------------------------------------------
Hart == \/ ReadHigh
        \/ FromNow("spin_from", "spin") \/ Spin
        \/ FreqNow \/ ReadCycle \/ FreqStart \/ FreqEnd
        \/ FromNow("sleep_from", "sleep") \/ Sleep \/ SetCompare \/ WakeUp

Next == \/ Hart
        \/ \E t \in Targets : CallSpinUntil(t) \/ CallSleepUntil(t)
        \/ \E n \in Delays : CallTicks("spin_from", n) \/ CallTicks("sleep_from", n)
        \/ CallFreq
        \/ Idle
        \/ Rest

Spec == Init /\ [][Next]_vars

FairSpec == Spec /\ WF_vars(Hart)
-----------------------------------------------------------------------------
SlowestStep == CHOOSE d \in Latencies : \A e \in Latencies : e <= d

\* A spin never ends before its target, whatever halves it read; a relative
\* one never before its ticks have passed, unless the read it started from
\* straddled a rollover of the low half (clint.c:14-26).
SpinWaits == last = "spin_until" => mtime >= tgt /\ (torn \/ mtime >= due)

\* The cycles and the ticks clint_get_core_freq divides cover the same
\* time, up to one turn of its loops, unless a read was torn
\* (clint.c:28-44).
FreqAccurate ==
    (last = "get_core_freq" /\ ~torn)
    => end[1] - start[1] - Ratio * (end[2] - start[2]) \in -3 * SlowestStep .. 3 * SlowestStep

\* Every call returns: reads straddling a rollover and targets already past
\* included (clint.c:19-69).
CallsReturn == pc # "idle" ~> last # "none"
=============================================================================
