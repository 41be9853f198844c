----------------------------- MODULE Clint_proofs -----------------------------
(***************************************************************************)
(* Proof that no spin ends early and that the frequency measured is right  *)
(* up to a turn of the loops, for any width of the counter's halves, any   *)
(* clocks and any latency of the accesses.                                 *)
(***************************************************************************)
EXTENDS Clint, TLAPS

Places == ReadPlaces \union {"idle", "cycle_start", "cycle_end", "cmp_high", "cmp_low", "wfi"}

Types == /\ cycle \in Nat /\ phase \in Nat /\ pc \in Places
         /\ tgt \in Nat /\ due \in Nat /\ torn \in BOOLEAN

\* The high half was right when it was read, so it is not too large now.
HalfPast == half # None => half \in Nat /\ half <= mtime \div LowMod

\* A spin's target is not before the time the caller expects, which for a
\* relative one is counted from the call.
TargetDue == /\ pc = "spin" => torn \/ due <= tgt
             /\ pc = "spin_from" => due <= mtime + tgt

IInv == Types /\ HalfPast /\ TargetDue /\ SpinWaits /\ (last # "none" => pc = "idle")

-----------------------------------------------------------------------------
(* Counters.                                                               *)

LEMMA Division ==
  ASSUME NEW m \in Nat \ {0}, NEW a \in Nat
  PROVE  a \div m \in Nat /\ a % m \in Nat /\ a = m * (a \div m) + (a % m) /\ a % m < m
  OBVIOUS

LEMMA DivMonotone ==
  ASSUME NEW m \in Nat \ {0}, NEW a \in Nat, NEW b \in Nat, a <= b
  PROVE  a \div m <= b \div m
  <1> DEFINE q == a \div m
             r == b \div m
  <1>1. /\ q \in Nat /\ r \in Nat /\ a % m \in Nat /\ b % m \in Nat /\ b % m < m
        /\ a = m * q + (a % m) /\ b = m * r + (b % m)
    BY Division
  <1>2. ASSUME q >= r + 1 PROVE FALSE
    <2> HIDE DEF q, r
    <2>1. m * q >= m * (r + 1)
      BY <1>1, <1>2
    <2>2. m * (r + 1) = m * r + m /\ m * r \in Nat
      BY <1>1
    <2>3. a >= m * r + m /\ b < m * r + m
      BY <1>1, <2>1, <2>2
    <2> QED
      BY <2>2, <2>3
  <1> QED
    BY <1>1, <1>2

\* Sums of times, for terms of two states.
LEMMA Sums ==
  ASSUME NEW a \in Nat, NEW b \in Nat, NEW p \in Nat, a <= b
  PROVE  a + p \in Nat /\ b + p \in Nat /\ a + p <= b + p
  OBVIOUS

LEMMA Transitive ==
  ASSUME NEW a \in Nat, NEW b \in Nat, NEW c \in Nat, a <= b, b <= c
  PROVE  a <= c
  OBVIOUS

LEMMA Constants == Ratio \in Nat \ {0} /\ LowMod \in Nat \ {0}
                   /\ Latencies \subseteq Nat /\ Delays \subseteq Nat /\ Targets \subseteq Nat
  BY ClintAssumption

LEMMA TimeIsNat == ASSUME Types PROVE mtime \in Nat
  BY Constants, Division DEF Types, mtime

\* Time only goes forward.
LEMMA Forward ==
  ASSUME Types, Elapse
  PROVE  cycle' \in Nat /\ phase' = phase /\ mtime' \in Nat /\ mtime <= mtime'
         /\ mtime \div LowMod <= mtime' \div LowMod
  <1>1. /\ cycle \in Nat /\ cycle' \in Nat /\ cycle <= cycle'
        /\ phase \in Nat /\ phase' = phase
    BY Constants DEF Types, Elapse
  <1>2. cycle + phase \in Nat /\ cycle' + phase \in Nat /\ cycle + phase <= cycle' + phase
    BY <1>1, Sums
  <1>3. mtime \in Nat /\ mtime' \in Nat /\ mtime <= mtime'
    <2>1. mtime = (cycle + phase) \div Ratio /\ mtime' = (cycle' + phase) \div Ratio
      BY <1>1 DEF mtime
    <2> QED
      BY <1>2, <2>1, Constants, Division, DivMonotone
  <1>4. mtime \div LowMod <= mtime' \div LowMod
    BY <1>3, Constants, DivMonotone
  <1> QED
    BY <1>1, <1>3, <1>4

\* A value put together from both halves is not in the future, and is the
\* current time if the halves belong together.
LEMMA ReadTimePast ==
  ASSUME Types, HalfPast, half # None
  PROVE  ReadTime \in Nat /\ ReadTime <= mtime /\ (half = mtime \div LowMod => ReadTime = mtime)
  <1> DEFINE t == mtime
             h == half
  <1>1. t \in Nat /\ LowMod \in Nat \ {0} /\ h \in Nat /\ h <= t \div LowMod
    BY TimeIsNat, Constants DEF HalfPast
  <1>2. t \div LowMod \in Nat /\ t % LowMod \in Nat /\ t = LowMod * (t \div LowMod) + (t % LowMod)
    BY <1>1, Division
  <1>3. h * LowMod + (t % LowMod) \in Nat /\ h * LowMod <= LowMod * (t \div LowMod)
    <2> HIDE DEF t, h
    <2> QED
      BY <1>1, <1>2
  <1>4. h = t \div LowMod => h * LowMod = LowMod * (t \div LowMod)
    BY <1>1, <1>2
  <1>5. ReadTime = h * LowMod + (t % LowMod)
    BY DEF ReadTime
  <1> HIDE DEF t, h
  <1>6. ReadTime \in Nat /\ ReadTime <= t /\ (h = t \div LowMod => ReadTime = t)
    BY <1>1, <1>2, <1>3, <1>4, <1>5
  <1> QED
    BY <1>6 DEF t, h

-----------------------------------------------------------------------------
(* Steps.                                                                  *)

\* What a step that reads the low half does to the rest.
LEMMA ReadLowStep ==
  ASSUME IInv, NEW place, ReadLow(place)
  PROVE  /\ pc = place /\ half' = None
         /\ cycle' \in Nat /\ phase' = phase /\ mtime' \in Nat /\ mtime <= mtime'
         /\ ReadTime \in Nat /\ ReadTime <= mtime
         /\ torn' \in BOOLEAN /\ (~torn' => ReadTime = mtime) /\ (torn => torn')
  <1>1. Types /\ HalfPast /\ Elapse /\ half # None /\ pc = place /\ half' = None
    BY DEF IInv, ReadLow
  <1>2. torn' = (torn \/ half # mtime \div LowMod)
    BY DEF ReadLow
  <1>3. torn' \in BOOLEAN /\ (~torn' => half = mtime \div LowMod) /\ (torn => torn')
    BY <1>2, Zenon
  <1> QED
    BY <1>1, <1>3, Forward, ReadTimePast

\* The other steps keep or reset the half.
LEMMA HalfKept ==
  ASSUME IInv, Elapse, half' = half PROVE HalfPast'
  <1>1. mtime \in Nat /\ mtime' \in Nat /\ mtime \div LowMod <= mtime' \div LowMod
    BY Forward, TimeIsNat DEF IInv
  <1>2. mtime \div LowMod \in Nat /\ mtime' \div LowMod \in Nat
    BY <1>1, Constants, Division
  <1>3. half # None => half \in Nat /\ half <= mtime \div LowMod
    BY DEF IInv, HalfPast
  <1>4. half # None => half <= mtime' \div LowMod
    BY <1>1, <1>2, <1>3, Transitive
  <1> QED
    BY <1>3, <1>4 DEF HalfPast

LEMMA InitInv == Init => IInv
  <1> SUFFICES ASSUME Init PROVE IInv
    OBVIOUS
  <1>1. Types
    <2>1. cycle \in Nat /\ phase \in Nat /\ tgt \in Nat /\ due \in Nat /\ pc \in Places
      BY Constants DEF Init, Places
    <2>2. torn \in BOOLEAN
      BY Zenon DEF Init
    <2> QED
      BY <2>1, <2>2 DEF Types
  <1> QED
    BY <1>1 DEF Init, IInv, HalfPast, TargetDue, SpinWaits

\* A step that reads no time and ends no call.
LEMMA Quiet ==
  ASSUME IInv, Elapse, half' = half, last' = last, last = "none", pc' \in Places,
         tgt' \in Nat, due' \in Nat, torn' \in BOOLEAN,
         pc' = "spin" => torn' \/ due' <= tgt',
         pc' = "spin_from" => due' <= mtime' + tgt'
  PROVE  IInv'
  <1>1. Types'
    BY Forward DEF IInv, Types
  <1> QED
    BY <1>1, HalfKept DEF IInv, TargetDue, SpinWaits

LEMMA ReadHighPreserves == ASSUME IInv, ReadHigh PROVE IInv'
  <1>1. Elapse /\ half = None /\ half' = mtime \div LowMod /\ pc' = pc /\ pc \in ReadPlaces
        /\ UNCHANGED <<tgt, due, last, torn>>
    BY DEF ReadHigh, callVars
  <1>2. Types /\ cycle' \in Nat /\ phase' = phase /\ mtime \in Nat /\ mtime' \in Nat
        /\ mtime <= mtime' /\ mtime \div LowMod <= mtime' \div LowMod
    BY <1>1, Forward, TimeIsNat DEF IInv
  <1>3. Types'
    BY <1>1, <1>2 DEF Types
  <1>4. HalfPast'
    BY <1>1, <1>2, Constants, Division DEF HalfPast
  <1>5. last = "none"
    BY <1>1 DEF IInv, ReadPlaces
  <1>6. TargetDue'
    <2>1. /\ tgt \in Nat /\ due \in Nat /\ (pc = "spin" => torn \/ due <= tgt)
          /\ (pc = "spin_from" => due <= mtime + tgt)
      BY DEF IInv, Types, TargetDue
    <2>2. mtime + tgt \in Nat /\ mtime' + tgt \in Nat /\ mtime + tgt <= mtime' + tgt
      BY <1>2, <2>1, Sums
    <2>3. pc = "spin_from" => due <= mtime' + tgt
      BY <2>1, <2>2, Transitive
    <2> QED
      BY <1>1, <2>1, <2>3 DEF TargetDue
  <1> QED
    BY <1>1, <1>3, <1>4, <1>5, <1>6 DEF IInv, SpinWaits

\* The calls.
LEMMA CallPreserves ==
  ASSUME IInv, \/ \E t \in Targets : CallSpinUntil(t) \/ CallSleepUntil(t)
               \/ \E n \in Delays : CallTicks("spin_from", n) \/ CallTicks("sleep_from", n)
               \/ CallFreq
  PROVE  IInv'
  <1> USE DEF Places, ReadPlaces
  <1>1. ASSUME NEW t \in Targets, CallSpinUntil(t) \/ CallSleepUntil(t) PROVE IInv'
    <2>1. Elapse /\ pc' \in {"spin", "sleep"} /\ tgt' = t /\ due' = t /\ torn' = FALSE
          /\ UNCHANGED <<half, last>> /\ last = "none" /\ t \in Nat
      BY <1>1, Constants DEF CallSpinUntil, CallSleepUntil, Ready
    <2>2. pc' \in Places /\ tgt' \in Nat /\ due' \in Nat /\ due' <= tgt' /\ pc' # "spin_from"
      BY <2>1
    <2>3. torn' \in BOOLEAN
      BY <2>1, Zenon
    <2> QED
      BY <2>1, <2>2, <2>3, Quiet
  <1>2. ASSUME NEW n \in Delays, CallTicks("spin_from", n) \/ CallTicks("sleep_from", n) PROVE IInv'
    <2>1. Elapse /\ pc' \in {"spin_from", "sleep_from"} /\ tgt' = n /\ due' = mtime + n
          /\ torn' = FALSE /\ UNCHANGED <<half, last>> /\ last = "none" /\ n \in Nat
      BY <1>2, Constants DEF CallTicks, Ready
    <2>2. mtime \in Nat /\ mtime' \in Nat /\ mtime <= mtime'
      BY <2>1, Forward, TimeIsNat DEF IInv
    <2>3. due' \in Nat /\ due' <= mtime' + tgt'
      <3>1. mtime + n \in Nat /\ mtime + n <= mtime' + n
        BY <2>1, <2>2, Sums
      <3> QED
        BY <2>1, <3>1
    <2> QED
      BY <2>1, <2>3, Quiet
  <1>3. CASE CallFreq
    <2>1. Elapse /\ pc' = "freq_now" /\ due' = mtime /\ torn' = FALSE
          /\ UNCHANGED <<half, last, tgt>> /\ last = "none" /\ mtime \in Nat /\ tgt \in Nat
      BY <1>3, TimeIsNat DEF CallFreq, Ready, IInv, Types
    <2> QED
      BY <2>1, Quiet
  <1> QED
    BY <1>1, <1>2, <1>3

\* A read of the time that does not end a spin.
LEMMA ReadPreserves ==
  ASSUME IInv, NEW place \in ReadPlaces, ReadLow(place), pc' \in Places \ {"spin_from"},
         tgt' \in Nat, due' = due, last' \in {"none", "sleep_until", "get_core_freq"},
         last' # "none" => pc' = "idle",
         pc' = "spin" => torn' \/ due <= tgt'
  PROVE  IInv'
  <1>1. half' = None /\ cycle' \in Nat /\ phase' = phase /\ torn' \in BOOLEAN
    BY ReadLowStep
  <1>2. Types'
    BY <1>1 DEF IInv, Types
  <1> QED
    BY <1>1, <1>2 DEF IInv, HalfPast, TargetDue, SpinWaits

LEMMA FromNowPreserves ==
  ASSUME IInv, FromNow("spin_from", "spin") \/ FromNow("sleep_from", "sleep")
  PROVE  IInv'
  <1>1. CASE FromNow("spin_from", "spin")
    <2>1. ReadLow("spin_from") /\ tgt' = ReadTime + tgt /\ pc' = "spin" /\ due' = due
          /\ last' = last
      BY <1>1 DEF FromNow
    <2>2. pc = "spin_from" /\ ReadTime \in Nat /\ (~torn' => ReadTime = mtime)
      BY <2>1, ReadLowStep
    <2>3. tgt \in Nat /\ due \in Nat /\ due <= mtime + tgt /\ last = "none"
      BY <2>2 DEF IInv, Types, TargetDue
    <2>4. tgt' \in Nat /\ (torn' \/ due <= tgt')
      BY <2>1, <2>2, <2>3
    <2> QED
      BY <2>1, <2>3, <2>4, ReadPreserves DEF Places, ReadPlaces
  <1>2. CASE FromNow("sleep_from", "sleep")
    <2>1. ReadLow("sleep_from") /\ tgt' = ReadTime + tgt /\ pc' = "sleep" /\ due' = due
          /\ last' = last
      BY <1>2 DEF FromNow
    <2>2. pc = "sleep_from" /\ ReadTime \in Nat
      BY <2>1, ReadLowStep
    <2>3. tgt \in Nat /\ last = "none"
      BY <2>2 DEF IInv, Types
    <2> QED
      BY <2>1, <2>2, <2>3, ReadPreserves DEF Places, ReadPlaces
  <1> QED
    BY <1>1, <1>2

\* The loop ends when the value read has reached the target, and the time has
\* reached the value read.
LEMMA SpinPreserves == ASSUME IInv, Spin PROVE IInv'
  <1>1. ReadLow("spin") /\ tgt' = tgt /\ due' = due
    BY DEF Spin, callVars
  <1>2. /\ pc = "spin" /\ half' = None /\ cycle' \in Nat /\ phase' = phase
        /\ mtime' \in Nat /\ mtime <= mtime' /\ ReadTime \in Nat /\ ReadTime <= mtime
        /\ torn' \in BOOLEAN /\ (torn => torn')
    BY <1>1, ReadLowStep
  <1>3. tgt \in Nat /\ due \in Nat /\ last = "none" /\ (torn \/ due <= tgt) /\ mtime \in Nat
    BY <1>2, TimeIsNat DEF IInv, Types, TargetDue
  <1>4. CASE ReadTime < tgt
    <2>1. pc' = "spin" /\ last' = "none"
      BY <1>2, <1>3, <1>4 DEF Spin
    <2> QED
      BY <1>1, <1>3, <2>1, <1>2, ReadPreserves DEF Places, ReadPlaces
  <1>5. CASE ~(ReadTime < tgt)
    <2>1. pc' = "idle" /\ last' = "spin_until"
      BY <1>5 DEF Spin, Finish
    <2>2. mtime' >= tgt' /\ (torn' \/ mtime' >= due')
      BY <1>1, <1>2, <1>3, <1>5
    <2>3. Types'
      BY <1>1, <1>2, <1>3, <2>1 DEF IInv, Types, Places
    <2> QED
      BY <1>2, <2>1, <2>2, <2>3 DEF IInv, HalfPast, TargetDue, SpinWaits
  <1> QED
    BY <1>4, <1>5

\* The rest of the steps make no spin.
LEMMA OthersPreserve ==
  ASSUME IInv, FreqNow \/ ReadCycle \/ FreqStart \/ FreqEnd \/ Sleep \/ SetCompare \/ WakeUp
               \/ Idle \/ Rest
  PROVE  IInv'
  <1> USE DEF Places, ReadPlaces
  <1>0. tgt \in Nat /\ due \in Nat /\ torn \in BOOLEAN /\ (last # "none" => pc = "idle")
    BY DEF IInv, Types
  <1>1. ASSUME FreqNow \/ FreqStart \/ FreqEnd \/ Sleep PROVE IInv'
    <2>1. PICK place \in ReadPlaces : ReadLow(place)
      BY <1>1 DEF FreqNow, FreqStart, FreqEnd, Sleep
    <2>2. tgt' = tgt /\ due' = due
      BY <1>1 DEF FreqNow, FreqStart, FreqEnd, Sleep, callVars
    <2>3. last = "none"
      BY <1>0, <2>1 DEF ReadLow
    <2>4. /\ pc' \in {"cycle_start", "cycle_end", "cmp_high", "idle"}
          /\ last' \in {"none", "sleep_until", "get_core_freq"} /\ (last' # "none" => pc' = "idle")
      BY <1>1, <2>3 DEF FreqNow, FreqStart, FreqEnd, Sleep, Finish
    <2> QED
      BY <1>0, <2>1, <2>2, <2>4, ReadPreserves
  <1>2. ASSUME ReadCycle \/ SetCompare \/ Idle PROVE IInv'
    <2>1. /\ Elapse /\ UNCHANGED <<half, last, tgt, due, torn>>
          /\ pc' \in {"freq_start", "freq_end", "cmp_low", "wfi", "idle"} /\ last = "none"
      BY <1>0, <1>2 DEF ReadCycle, SetCompare, Idle, Ready, callVars
    <2> QED
      BY <1>0, <2>1, Quiet
  <1>3. CASE WakeUp
    <2>1. /\ Elapse /\ UNCHANGED <<half, tgt, due, torn>>
          /\ pc' = "idle" /\ last' = "sleep_until"
      BY <1>3 DEF WakeUp, Finish, callVars
    <2>2. Types'
      BY <1>0, <2>1, Forward DEF IInv, Types
    <2> QED
      BY <2>1, <2>2, HalfKept DEF IInv, TargetDue, SpinWaits
  <1>4. CASE Rest
    BY <1>4 DEF Rest, vars, callVars, IInv, Types, HalfPast, TargetDue, SpinWaits, mtime
  <1> QED
    BY <1>1, <1>2, <1>3, <1>4

THEOREM Invariance == Spec => []IInv
  <1>1. IInv /\ [Next]_vars => IInv'
    <2> SUFFICES ASSUME IInv, [Next]_vars PROVE IInv'
      OBVIOUS
    <2>1. CASE UNCHANGED vars
      BY <2>1 DEF vars, callVars, IInv, Types, HalfPast, TargetDue, SpinWaits, mtime
    <2> QED
      BY <2>1, ReadHighPreserves, CallPreserves, FromNowPreserves, SpinPreserves,
         OthersPreserve DEF Next, Hart
  <1> QED
    BY <1>1, InitInv, PTL DEF Spec

\* clint_spin_until and clint_spin_ticks never return early, for any counter
\* width, clock ratio and access latencies (clint.c:14-26).
THEOREM SpinCorrect == Spec => []SpinWaits
  <1>1. IInv => SpinWaits
    BY DEF IInv
  <1> QED
    BY <1>1, Invariance, PTL

-----------------------------------------------------------------------------
(* The measurement of the frequency.                                       *)

\* Cycles since the last read of mcycle: those of that step, and of the read of
\* the high half if it is done.
Slack == IF half = None THEN SlowestStep ELSE 2 * SlowestStep

\* The cycle count p[1] was read about when the tick p[2] began.
TickBegan(p) == /\ p[1] + phase < Ratio * p[2] + SlowestStep
                /\ Ratio * p[2] <= p[1] + phase + 2 * SlowestStep

\* The first loop keeps a cycle count of the tick before the one it ends with,
\* the second one of the ticks before the last.
Timing ==
    /\ pc \in {"cycle_start", "freq_start"} => end[2] <= mtime
    /\ pc = "cycle_start" => cycle + phase < Ratio * (end[2] + 1) + SlowestStep
    /\ pc = "freq_start" => /\ start[1] + phase < Ratio * (end[2] + 1) + SlowestStep
                            /\ cycle <= start[1] + Slack
    /\ pc \in {"cycle_end", "freq_end"} \/ last = "get_core_freq" => TickBegan(start)
    /\ pc = "cycle_end" => cycle + phase < Ratio * (start[2] + NumTicks) + SlowestStep
    /\ pc = "freq_end" => /\ end[1] + phase < Ratio * (start[2] + NumTicks) + SlowestStep
                          /\ cycle <= end[1] + Slack
    /\ last = "get_core_freq" => TickBegan(end)

FreqInv == /\ start \in Nat \X Nat /\ end \in Nat \X Nat
           /\ pc \in {"cycle_start", "cycle_end"} => half = None
           /\ torn \/ Timing

LEMMA Slowest == SlowestStep \in Nat \ {0} /\ \A e \in Latencies : e <= SlowestStep
  <1>1. \E d \in Latencies : \A e \in Latencies : e <= d
    BY ClintAssumption
  <1>2. SlowestStep \in Latencies /\ \A e \in Latencies : e <= SlowestStep
    BY <1>1 DEF SlowestStep
  <1> QED
    BY <1>2, ClintAssumption

\* A step takes at most the slowest step's time.
LEMMA StepTime ==
  ASSUME Types, Elapse
  PROVE  cycle \in Nat /\ cycle' \in Nat /\ phase \in Nat /\ phase' = phase
         /\ cycle' <= cycle + SlowestStep
  BY Slowest, Constants DEF Types, Elapse

LEMMA Scale ==
  ASSUME NEW a \in Nat, NEW b \in Nat, a <= b
  PROVE  Ratio * a \in Nat /\ Ratio * b \in Nat /\ Ratio * a <= Ratio * b
  BY Constants

LEMMA TickBounds ==
  ASSUME Types
  PROVE  /\ mtime \in Nat /\ Ratio * mtime \in Nat
         /\ Ratio * mtime <= cycle + phase /\ cycle + phase < Ratio * (mtime + 1)
  <1> DEFINE x == cycle + phase
             t == mtime
  <1>1. x \in Nat /\ t = x \div Ratio
    BY DEF Types, mtime
  <1>2. /\ t \in Nat /\ x % Ratio \in Nat /\ x = Ratio * t + (x % Ratio) /\ x % Ratio < Ratio
    BY <1>1, Constants, Division
  <1> HIDE DEF x, t
  <1>3. t \in Nat /\ Ratio * t \in Nat /\ Ratio * t <= x /\ x < Ratio * (t + 1)
    BY <1>2, Constants
  <1> QED
    BY <1>3 DEF x, t

\* A time read whole is the tick of the read.
LEMMA WholeRead ==
  ASSUME IInv, NEW place, ReadLow(place), ~torn'
  PROVE  /\ ~torn /\ ReadTime \in Nat /\ ReadTime = mtime
         /\ Ratio * ReadTime <= cycle + phase /\ cycle + phase < Ratio * (ReadTime + 1)
         /\ cycle' <= cycle + SlowestStep
  <1>1. Types /\ Elapse
    BY DEF IInv, ReadLow
  <1>2. ~torn /\ ReadTime = mtime /\ ReadTime \in Nat
    BY ReadLowStep
  <1> QED
    BY <1>1, <1>2, StepTime, TickBounds

LEMMA FreqInit == Init => FreqInv
  BY DEF Init, FreqInv, Timing

\* A step to a place outside the measurement.
LEMMA FreqElsewhere ==
  ASSUME FreqInv, pc' \notin {"cycle_start", "freq_start", "cycle_end", "freq_end"},
         last' # "get_core_freq", start' = start, end' \in Nat \X Nat
  PROVE  FreqInv'
  BY DEF FreqInv, Timing

LEMMA FreqReadHigh == ASSUME IInv, FreqInv, ReadHigh PROVE FreqInv'
  <1>1. /\ Elapse /\ half = None /\ half' = mtime \div LowMod /\ pc' = pc /\ pc \in ReadPlaces
        /\ UNCHANGED <<start, end, last, torn>> /\ Types
    BY DEF ReadHigh, callVars, IInv
  <1>2. last = "none" /\ pc # "cycle_start" /\ pc # "cycle_end"
    BY <1>1 DEF IInv, ReadPlaces
  <1>3. mtime \in Nat /\ mtime' \in Nat /\ mtime <= mtime'
    BY <1>1, Forward, TimeIsNat
  <1>4. half' # None
    BY <1>1, <1>3, Constants, Division DEF None
  <1>5. /\ cycle \in Nat /\ cycle' \in Nat /\ phase \in Nat /\ phase' = phase
        /\ cycle' <= cycle + SlowestStep /\ SlowestStep \in Nat
    BY <1>1, StepTime, Slowest
  <1>6. Slack = SlowestStep /\ Slack' = 2 * SlowestStep
    BY <1>1, <1>4 DEF Slack
  <1>7. start[1] \in Nat /\ end[1] \in Nat /\ end[2] \in Nat
    BY DEF FreqInv
  <1>8. ASSUME Timing PROVE Timing'
    <2>1. pc = "freq_start" => end[2] <= mtime'
      BY <1>3, <1>7, <1>8, Transitive DEF Timing
    <2>2. ASSUME NEW a \in Nat, cycle <= a + Slack PROVE cycle' <= a + Slack'
      BY <1>5, <1>6, <2>2
    <2>3. pc = "freq_start" => cycle' <= start[1] + Slack'
      BY <1>7, <1>8, <2>2 DEF Timing
    <2>4. pc = "freq_end" => cycle' <= end[1] + Slack'
      BY <1>7, <1>8, <2>2 DEF Timing
    <2> QED
      BY <1>1, <1>2, <1>5, <1>8, <2>1, <2>3, <2>4 DEF Timing, TickBegan
  <1> QED
    BY <1>1, <1>2, <1>8 DEF FreqInv

\* The cycle count read at the head of either loop.
LEMMA FreqReadCycle == ASSUME IInv, FreqInv, ReadCycle PROVE FreqInv'
  <1>1. Elapse /\ Types /\ half' = half /\ half = None /\ last' = last /\ torn' = torn
        /\ last = "none"
    BY DEF ReadCycle, IInv, FreqInv
  <1>2. /\ cycle \in Nat /\ cycle' \in Nat /\ phase \in Nat /\ phase' = phase
        /\ cycle' <= cycle + SlowestStep /\ SlowestStep \in Nat
    BY <1>1, StepTime, Slowest
  <1>3. Slack' = SlowestStep
    BY <1>1 DEF Slack
  <1>4. mtime \in Nat /\ mtime' \in Nat /\ mtime <= mtime'
    BY <1>1, Forward, TimeIsNat
  <1>5. start \in Nat \X Nat /\ end \in Nat \X Nat
    BY DEF FreqInv
  <1>6. CASE pc = "cycle_start"
    <2>1. pc' = "freq_start" /\ start' = <<cycle, start[2]>> /\ end' = end
      BY <1>6 DEF ReadCycle
    <2>2. start' \in Nat \X Nat /\ start'[1] = cycle
      BY <1>2, <1>5, <2>1
    <2>3. ASSUME Timing PROVE Timing'
      <3>1. end[2] <= mtime /\ cycle + phase < Ratio * (end[2] + 1) + SlowestStep
        BY <1>6, <2>3 DEF Timing
      <3>2. end[2] <= mtime'
        BY <1>4, <1>5, <3>1, Transitive
      <3> QED
        BY <1>1, <1>2, <1>3, <2>1, <2>2, <3>1, <3>2 DEF Timing
    <2> QED
      BY <1>1, <1>5, <2>1, <2>2, <2>3 DEF FreqInv
  <1>7. CASE pc # "cycle_start"
    <2>1. pc = "cycle_end" /\ pc' = "freq_end" /\ end' = <<cycle, end[2]>> /\ start' = start
      BY <1>7 DEF ReadCycle
    <2>2. end' \in Nat \X Nat /\ end'[1] = cycle
      BY <1>2, <1>5, <2>1
    <2>3. ASSUME Timing PROVE Timing'
      <3>1. TickBegan(start) /\ cycle + phase < Ratio * (start[2] + NumTicks) + SlowestStep
        BY <2>1, <2>3 DEF Timing
      <3> QED
        BY <1>1, <1>2, <1>3, <2>1, <2>2, <3>1 DEF Timing, TickBegan
    <2> QED
      BY <1>1, <1>5, <2>1, <2>2, <2>3 DEF FreqInv
  <1> QED
    BY <1>6, <1>7

\* Times read in one tick and used in the step after.
LEMMA InTick ==
  ASSUME NEW c \in Nat, NEW d \in Nat, NEW p \in Nat, NEW b \in Nat, NEW s \in Nat,
         c + p < b, d <= c + s
  PROVE  d + p < b + s
  OBVIOUS

LEMMA FreqNowPreserves == ASSUME IInv, FreqInv, FreqNow PROVE FreqInv'
  <1>1. /\ ReadLow("freq_now") /\ end' = <<0, ReadTime>> /\ pc' = "cycle_start"
        /\ start' = start /\ last' = last
    BY DEF FreqNow
  <1>2. /\ half' = None /\ ReadTime \in Nat /\ mtime' \in Nat /\ mtime \in Nat
        /\ ReadTime <= mtime' /\ last = "none" /\ torn' \in BOOLEAN
    <2>1. half' = None /\ ReadTime \in Nat /\ ReadTime <= mtime /\ mtime <= mtime'
          /\ mtime' \in Nat /\ pc = "freq_now" /\ torn' \in BOOLEAN
      BY <1>1, ReadLowStep
    <2>2. mtime \in Nat
      BY TimeIsNat DEF IInv
    <2> QED
      BY <2>1, <2>2, Transitive DEF IInv
  <1>3. end' \in Nat \X Nat /\ end'[2] = ReadTime
    BY <1>1, <1>2
  <1>4. ASSUME ~torn' PROVE Timing'
    <2>1. /\ cycle + phase < Ratio * (ReadTime + 1) /\ cycle' <= cycle + SlowestStep
      BY <1>1, <1>4, WholeRead
    <2>2. /\ cycle \in Nat /\ cycle' \in Nat /\ phase \in Nat /\ phase' = phase
          /\ SlowestStep \in Nat /\ Ratio * (ReadTime + 1) \in Nat
      BY <1>1, <1>2, StepTime, Slowest, Scale DEF IInv, ReadLow
    <2>3. cycle' + phase < Ratio * (ReadTime + 1) + SlowestStep
      BY <2>1, <2>2, InTick
    <2> QED
      BY <1>1, <1>2, <1>3, <2>2, <2>3 DEF Timing
  <1> QED
    BY <1>1, <1>2, <1>3, <1>4 DEF FreqInv

\* A tick seen at the end of a loop began during its last turn.
LEMMA TurnOfLoop ==
  ASSUME NEW a \in Nat, NEW c \in Nat, NEW p \in Nat, NEW s \in Nat, NEW before \in Nat,
         NEW t \in Nat, a + p < Ratio * before + s, c <= a + 2 * s, before <= t,
         Ratio * t <= c + p
  PROVE  a + p < Ratio * t + s /\ Ratio * t <= a + p + 2 * s
  <1>1. Ratio * before \in Nat /\ Ratio * t \in Nat /\ Ratio * before <= Ratio * t
    BY Scale
  <1> QED
    BY <1>1

LEMMA FreqStartPreserves == ASSUME IInv, FreqInv, FreqStart PROVE FreqInv'
  <1>1. /\ ReadLow("freq_start") /\ start' = <<start[1], ReadTime>> /\ end' = end
        /\ last' = last /\ pc' = IF ReadTime = end[2] THEN "cycle_start" ELSE "cycle_end"
    BY DEF FreqStart
  <1>2. /\ pc = "freq_start" /\ half # None /\ half' = None /\ ReadTime \in Nat
        /\ torn' \in BOOLEAN /\ mtime' \in Nat /\ mtime <= mtime' /\ last = "none"
        /\ mtime \in Nat
    BY <1>1, ReadLowStep, TimeIsNat DEF IInv, ReadLow
  <1>3. start \in Nat \X Nat /\ end \in Nat \X Nat
    BY DEF FreqInv
  <1>4. start' \in Nat \X Nat /\ start'[1] = start[1] /\ start'[2] = ReadTime
    BY <1>1, <1>2, <1>3
  <1>5. ASSUME ~torn' PROVE Timing'
    <2>1. /\ ~torn /\ ReadTime = mtime /\ cycle' <= cycle + SlowestStep
          /\ Ratio * ReadTime <= cycle + phase /\ cycle + phase < Ratio * (ReadTime + 1)
      BY <1>1, <1>5, WholeRead
    <2>2. /\ cycle \in Nat /\ cycle' \in Nat /\ phase \in Nat /\ phase' = phase
          /\ SlowestStep \in Nat /\ Ratio * (ReadTime + 1) \in Nat
      BY <1>1, <1>2, StepTime, Slowest, Scale DEF IInv, ReadLow
    <2>3. /\ end[2] <= mtime /\ start[1] + phase < Ratio * (end[2] + 1) + SlowestStep
          /\ cycle <= start[1] + 2 * SlowestStep
      BY <1>2, <2>1 DEF FreqInv, Timing, Slack
    <2>4. cycle' + phase < Ratio * (ReadTime + 1) + SlowestStep
      BY <2>1, <2>2, InTick
    <2>5. CASE ReadTime = end[2]
      <3>1. pc' = "cycle_start" /\ end[2] <= mtime'
        BY <1>1, <1>2, <1>3, <2>3, <2>5, Transitive
      <3> QED
        BY <1>1, <1>2, <2>2, <2>4, <2>5, <3>1 DEF Timing
    <2>6. CASE ReadTime # end[2]
      <3>1. pc' = "cycle_end" /\ end[2] + 1 \in Nat /\ end[2] + 1 <= ReadTime
        BY <1>1, <1>2, <1>3, <2>1, <2>3, <2>6
      <3>2. /\ start[1] + phase < Ratio * ReadTime + SlowestStep
            /\ Ratio * ReadTime <= start[1] + phase + 2 * SlowestStep
        BY <1>2, <1>3, <2>1, <2>2, <2>3, <3>1, TurnOfLoop
      <3>3. TickBegan(start)'
        BY <1>4, <2>2, <3>2 DEF TickBegan
      <3>4. cycle' + phase < Ratio * (ReadTime + NumTicks) + SlowestStep
        <4>1. ReadTime + 1 <= ReadTime + NumTicks /\ ReadTime + NumTicks \in Nat
          BY <1>2, ClintAssumption
        <4>2. /\ Ratio * (ReadTime + NumTicks) \in Nat
              /\ Ratio * (ReadTime + 1) <= Ratio * (ReadTime + NumTicks)
          BY <1>2, <4>1, Scale
        <4>3. cycle + phase < Ratio * (ReadTime + NumTicks)
          BY <2>1, <2>2, <4>2
        <4> QED
          BY <2>1, <2>2, <4>2, <4>3, InTick
      <3> QED
        BY <1>1, <1>2, <1>4, <2>2, <3>1, <3>3, <3>4 DEF Timing
    <2> QED
      BY <2>5, <2>6
  <1> QED
    BY <1>1, <1>2, <1>3, <1>4, <1>5 DEF FreqInv

LEMMA FreqEndPreserves == ASSUME IInv, FreqInv, FreqEnd PROVE FreqInv'
  <1>1. /\ ReadLow("freq_end") /\ end' = <<end[1], ReadTime>> /\ start' = start
        /\ ReadTime < start[2] + NumTicks => pc' = "cycle_end" /\ last' = last
        /\ ~(ReadTime < start[2] + NumTicks) => pc' = "idle" /\ last' = "get_core_freq"
    BY DEF FreqEnd, Finish
  <1>2. /\ pc = "freq_end" /\ half # None /\ half' = None /\ ReadTime \in Nat
        /\ torn' \in BOOLEAN /\ last = "none"
    BY <1>1, ReadLowStep DEF IInv, ReadLow
  <1>3. start \in Nat \X Nat /\ end \in Nat \X Nat
    BY DEF FreqInv
  <1>4. end' \in Nat \X Nat /\ end'[1] = end[1] /\ end'[2] = ReadTime
    BY <1>1, <1>2, <1>3
  <1>5. ASSUME ~torn' PROVE Timing'
    <2>1. /\ ~torn /\ cycle' <= cycle + SlowestStep
          /\ Ratio * ReadTime <= cycle + phase /\ cycle + phase < Ratio * (ReadTime + 1)
      BY <1>1, <1>5, WholeRead
    <2>2. /\ cycle \in Nat /\ cycle' \in Nat /\ phase \in Nat /\ phase' = phase
          /\ SlowestStep \in Nat /\ start[2] + NumTicks \in Nat
      BY <1>1, <1>3, StepTime, Slowest, ClintAssumption DEF IInv, ReadLow
    <2>3. /\ TickBegan(start) /\ cycle <= end[1] + 2 * SlowestStep
          /\ end[1] + phase < Ratio * (start[2] + NumTicks) + SlowestStep
      BY <1>2, <2>1 DEF FreqInv, Timing, Slack
    <2>4. TickBegan(start)'
      BY <1>1, <2>2, <2>3 DEF TickBegan
    <2>5. CASE ReadTime < start[2] + NumTicks
      <3>1. ReadTime + 1 \in Nat /\ ReadTime + 1 <= start[2] + NumTicks
        BY <1>2, <2>2, <2>5
      <3>2. /\ Ratio * (ReadTime + 1) \in Nat /\ Ratio * (start[2] + NumTicks) \in Nat
            /\ Ratio * (ReadTime + 1) <= Ratio * (start[2] + NumTicks)
        BY <2>2, <3>1, Scale
      <3>3. cycle + phase < Ratio * (start[2] + NumTicks)
        BY <2>1, <2>2, <3>2
      <3>4. cycle' + phase < Ratio * (start[2] + NumTicks) + SlowestStep
        BY <2>1, <2>2, <3>2, <3>3, InTick
      <3> QED
        BY <1>1, <1>2, <2>2, <2>4, <2>5, <3>4 DEF Timing
    <2>6. CASE ~(ReadTime < start[2] + NumTicks)
      <3>1. start[2] + NumTicks <= ReadTime
        BY <1>2, <2>2, <2>6
      <3>2. /\ end[1] + phase < Ratio * ReadTime + SlowestStep
            /\ Ratio * ReadTime <= end[1] + phase + 2 * SlowestStep
        BY <1>2, <1>3, <2>1, <2>2, <2>3, <3>1, TurnOfLoop
      <3>3. TickBegan(end)'
        BY <1>4, <2>2, <3>2 DEF TickBegan
      <3> QED
        BY <1>1, <2>4, <2>6, <3>3 DEF Timing
    <2> QED
      BY <2>5, <2>6
  <1> QED
    BY <1>1, <1>2, <1>3, <1>4, <1>5 DEF FreqInv

LEMMA FreqStep == IInv /\ FreqInv /\ [Next]_vars => FreqInv'
  <1> SUFFICES ASSUME IInv, FreqInv, [Next]_vars PROVE FreqInv'
    OBVIOUS
  <1>0. start \in Nat \X Nat /\ end \in Nat \X Nat /\ (last = "none" \/ pc = "idle")
    BY DEF FreqInv, IInv
  <1>1. CASE UNCHANGED vars \/ Rest
    BY <1>1 DEF Rest, vars, callVars, FreqInv, Timing, TickBegan, Slack, mtime
  <1>2. ASSUME \/ \E t \in Targets : CallSpinUntil(t) \/ CallSleepUntil(t)
               \/ \E n \in Delays : CallTicks("spin_from", n) \/ CallTicks("sleep_from", n)
               \/ CallFreq \/ Idle
        PROVE  FreqInv'
    <2>1. /\ last = "none" /\ last' = last /\ UNCHANGED <<start, end>>
          /\ pc' \in {"spin", "sleep", "spin_from", "sleep_from", "freq_now", "idle"}
      BY <1>2 DEF CallSpinUntil, CallSleepUntil, CallTicks, CallFreq, Idle, Ready, callVars
    <2> QED
      BY <1>0, <2>1, FreqElsewhere
  <1>3. ASSUME \/ FromNow("spin_from", "spin") \/ Spin \/ FromNow("sleep_from", "sleep")
               \/ Sleep \/ SetCompare \/ WakeUp
        PROVE  FreqInv'
    <2>1. /\ last = "none" /\ last' \in {"none", "spin_until", "sleep_until"}
          /\ UNCHANGED <<start, end>>
          /\ pc' \in {"spin", "sleep", "idle", "cmp_high", "cmp_low", "wfi"}
      BY <1>0, <1>3 DEF FromNow, Spin, Sleep, SetCompare, WakeUp, ReadLow, Finish, callVars
    <2> QED
      BY <1>0, <2>1, FreqElsewhere
  <1> QED
    BY <1>1, <1>2, <1>3, FreqReadHigh, FreqReadCycle, FreqNowPreserves, FreqStartPreserves,
       FreqEndPreserves DEF Next, Hart

\* Between two ticks lie as many cycles as the clocks say, up to a turn.
LEMMA Measured ==
  ASSUME NEW a \in Nat, NEW b \in Nat, NEW t \in Nat, NEW u \in Nat, NEW p \in Nat,
         NEW s \in Nat,
         a + p < Ratio * t + s, Ratio * t <= a + p + 2 * s,
         b + p < Ratio * u + s, Ratio * u <= b + p + 2 * s
  PROVE  b - a - Ratio * (u - t) \in -3 * s .. 3 * s
  <1>1. Ratio * t \in Nat /\ Ratio * u \in Nat /\ Ratio * (u - t) = Ratio * u - Ratio * t
    BY Constants
  <1> QED
    BY <1>1

LEMMA FreqFromInv == IInv /\ FreqInv => FreqAccurate
  <1> SUFFICES ASSUME IInv, FreqInv, last = "get_core_freq", ~torn
               PROVE  end[1] - start[1] - Ratio * (end[2] - start[2])
                          \in -3 * SlowestStep .. 3 * SlowestStep
    BY DEF FreqAccurate
  <1>1. /\ start[1] \in Nat /\ start[2] \in Nat /\ end[1] \in Nat /\ end[2] \in Nat
        /\ phase \in Nat /\ SlowestStep \in Nat
    BY Slowest DEF IInv, FreqInv, Types
  <1>2. TickBegan(start) /\ TickBegan(end)
    BY DEF FreqInv, Timing
  <1> QED
    BY <1>1, <1>2, Measured DEF TickBegan

\* clint_get_core_freq divides a number of cycles by a number of ticks that
\* cover the same time up to three steps of the hart, for any counter width,
\* clocks and latencies, when no read was torn (clint.c:28-44).
THEOREM FreqCorrect == Spec => []FreqAccurate
  <1>1. Spec => []FreqInv
    BY FreqInit, FreqStep, Invariance, PTL DEF Spec
  <1> QED
    BY <1>1, Invariance, FreqFromInv, PTL
=============================================================================
