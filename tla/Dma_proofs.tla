----------------------------- MODULE Dma_proofs -----------------------------
(***************************************************************************)
(* Proofs about Dma for any callers, any depth of the job FIFO and any     *)
(* identifiers that outnumber the transfers launched and not complete.     *)
(***************************************************************************)
EXTENDS Dma, TLAPS

\* Identifiers are counted from the completed one on, and wrap.
Ahead(i) == IF done_id + i < IdMod THEN done_id + i ELSE done_id + i - IdMod

\* The next identifier is behind those of the transfers not complete.
Numbered == next_id = Ahead(Len(jobs) + 1)

Configures(h) == step[h] # Idle /\ step[h] # Spin

\* A transfer under way belongs to a call that was made and launched it.
Launched == \A i \in 1 .. Len(jobs) : \A h \in Harts :
              jobs[i][1] = h => /\ jobs[i][2] <= call[h].no
                                /\ Configures(h) => jobs[i][2] < call[h].no

\* A call launches one transfer.
Distinct == \A i, j \in 1 .. Len(jobs) : jobs[i] = jobs[j] => i = j

\* A waiting hart holds the identifier of its transfer.
Held == \A h \in Harts : \A i \in 1 .. Len(jobs) :
          step[h] = Spin /\ jobs[i] = Arg(call[h]) => tf_id[h] = Ahead(i)

IInv == TypeOK /\ Numbered /\ Launched /\ Distinct /\ Held

-----------------------------------------------------------------------------
USE DmaAssumption DEF Capacity, Idle, Spin

LEMMA NoTyped == ASSUME TypeOK, NEW g \in Harts PROVE call[g].no \in Nat
  <1>1. call[g] \in Calls
    BY DEF TypeOK
  <1> QED
    BY <1>1 DEF Calls

LEMMA JobTyped == ASSUME TypeOK, NEW i \in 1 .. Len(jobs) PROVE jobs[i][2] \in Nat
  <1>1. jobs \in Seq(Args)
    BY DEF TypeOK
  <1>2. jobs[i] \in Args
    BY <1>1
  <1> QED
    BY <1>2 DEF Args

LEMMA OrderLen == \A b \in BOOLEAN : Len(Order(b)) \in {5, 7}
  BY DEF Order

LEMMA OrderRegisters ==
  ASSUME NEW b \in BOOLEAN, NEW i \in 1 .. Len(Order(b)), Order(b)[i] # "conf"
  PROVE  Order(b)[i] \in Registers
  <1>1. CASE b = TRUE
    <2>1. i \in 1 .. 7
      BY <1>1 DEF Order
    <2> QED
      BY <1>1, <2>1 DEF Order, Registers
  <1>2. CASE b = FALSE
    <2>1. i \in 1 .. 5
      BY <1>2 DEF Order
    <2> QED
      BY <1>2, <2>1 DEF Order, Registers
  <1> QED
    BY <1>1, <1>2

LEMMA AheadInRange ==
  ASSUME TypeOK, NEW i \in 1 .. Capacity + 1 PROVE Ahead(i) \in 0 .. IdMod - 1
  BY DEF TypeOK, Ahead

LEMMA IncInRange == ASSUME NEW d \in 0 .. IdMod - 1 PROVE Inc(d) \in 0 .. IdMod - 1
  BY DEF Inc

LEMMA IncAhead == ASSUME TypeOK, NEW i \in 1 .. Capacity PROVE Inc(Ahead(i)) = Ahead(i + 1)
  BY DEF TypeOK, Ahead, Inc

LEMMA InitIInv == Init => IInv
  <1> SUFFICES ASSUME Init PROVE IInv
    OBVIOUS
  <1>1. TypeOK
    <2>1. call \in [Harts -> Calls] /\ \A h \in Harts : call[h].by = h
      BY DEF Init, Calls
    <2>2. jobs \in Seq(Args) /\ Len(jobs) <= Capacity
      BY DEF Init
    <2>3. next_id \in 0 .. IdMod - 1 /\ done_id \in 0 .. IdMod - 1
      BY DEF Init, Inc
    <2>4. step \in [Harts -> Idle .. Spin] /\ \A h \in Harts : step[h] = Idle
      BY DEF Init
    <2>5. regs \in [Registers -> Args \union {None}] /\ conf \in BOOLEAN
      BY DEF Init
    <2>6. tf_id \in [Harts -> 0 .. IdMod - 1]
      BY DEF Init
    <2>7. lone \in [Harts -> BOOLEAN] /\ overtaken \in [Harts -> BOOLEAN]
      BY Zenon DEF Init
    <2> QED
      BY <2>1, <2>2, <2>3, <2>4, <2>5, <2>6, <2>7 DEF TypeOK
  <1>2. Numbered
    BY DEF Init, Numbered, Ahead, Inc
  <1>3. Launched /\ Distinct /\ Held
    BY DEF Init, Launched, Distinct, Held
  <1> QED
    BY <1>1, <1>2, <1>3 DEF IInv

LEMMA CallPreserves ==
  ASSUME IInv, NEW h \in Harts, NEW twod \in BOOLEAN, NEW blk \in BOOLEAN, Call(h, twod, blk)
  PROVE  IInv'
  <1>1. TypeOK'
    BY OrderLen DEF IInv, TypeOK, Call, Calls
  <1>2. Numbered'
    BY DEF IInv, Numbered, Ahead, Call
  <1>3. Launched'
    <2> SUFFICES ASSUME NEW i \in 1 .. Len(jobs), NEW g \in Harts, jobs[i][1] = g
                 PROVE  jobs[i][2] <= call'[g].no /\ (Configures(g)' => jobs[i][2] < call'[g].no)
      BY DEF Launched, Call
    <2>1. jobs[i][2] \in Nat /\ call[g].no \in Nat
      BY NoTyped, JobTyped DEF IInv
    <2>2. jobs[i][2] <= call[g].no /\ (Configures(g) => jobs[i][2] < call[g].no)
      BY DEF IInv, Launched
    <2>3. CASE g = h
      <3>1. call'[g].no = call[g].no + 1
        BY <2>3 DEF IInv, TypeOK, Call
      <3> QED
        BY <2>1, <2>2, <3>1
    <2>4. CASE g # h
      <3>1. call'[g] = call[g] /\ step'[g] = step[g]
        BY <2>4 DEF IInv, TypeOK, Call
      <3> QED
        BY <2>2, <3>1 DEF Configures
    <2> QED
      BY <2>3, <2>4
  <1>4. Distinct'
    BY DEF IInv, Distinct, Call
  <1>5. Held'
    BY DEF IInv, TypeOK, Held, Ahead, Arg, Call, Calls
  <1> QED
    BY <1>1, <1>2, <1>3, <1>4, <1>5 DEF IInv

LEMMA WriteRegPreserves == ASSUME IInv, NEW h \in Harts, WriteReg(h) PROVE IInv'
  <1> USE DEF WriteReg, Configuring
  <1>1. TypeOK'
    <2>1. step'[h] \in 1 .. Len(Order(call[h].twod)) + 1
      BY OrderLen DEF IInv, TypeOK, Calls
    <2>2. Arg(call[h]) \in Args
      BY DEF IInv, TypeOK, Calls, Arg, Args
    <2>3. regs' \in [Registers -> Args \union {None}] /\ conf' \in BOOLEAN
      BY <2>2, OrderRegisters DEF IInv, TypeOK, Calls
    <2>4. /\ step' \in [Harts -> Idle .. Spin]
          /\ \A g \in Harts : g # h => step'[g] = step[g]
      <3>1. call[h].twod \in BOOLEAN
        BY DEF IInv, TypeOK, Calls
      <3>2. step[h] + 1 \in 2 .. 8
        BY <3>1, OrderLen
      <3>3. step \in [Harts -> Idle .. Spin]
        BY DEF IInv, TypeOK
      <3>4. step' = [step EXCEPT ![h] = @ + 1]
        OBVIOUS
      <3> QED
        BY <3>2, <3>3, <3>4
    <2>5. lone' \in [Harts -> BOOLEAN]
      BY DEF IInv, TypeOK
    <2> QED
      BY <2>1, <2>3, <2>4, <2>5 DEF IInv, TypeOK
  <1>2. Numbered' /\ Distinct'
    BY DEF IInv, Numbered, Distinct, Ahead
  <1>3. /\ \A g \in Harts : step'[g] # step[g] => Configures(g)
        /\ \A g \in Harts : step'[g] = Spin => step[g] = Spin
    <2>1. call[h].twod \in BOOLEAN
      BY DEF IInv, TypeOK, Calls
    <2>2. step[h] \in 1 .. 7
      BY <2>1, OrderLen
    <2> QED
      BY <2>2 DEF IInv, TypeOK, Configures
  <1>4. Launched'
    BY <1>3 DEF IInv, TypeOK, Launched, Configures
  <1>5. Held'
    BY <1>3 DEF IInv, Held, Ahead
  <1> QED
    BY <1>1, <1>2, <1>4, <1>5 DEF IInv

LEMMA AtLaunchConfigures == ASSUME IInv, NEW h \in Harts, AtLaunch(h) PROVE Configures(h)
  <1>1. call[h].twod \in BOOLEAN
    BY DEF IInv, TypeOK, Calls
  <1>2. Len(Order(call[h].twod)) \in {5, 7}
    BY <1>1, OrderLen
  <1>3. step[h] = Len(Order(call[h].twod)) + 1
    BY DEF AtLaunch
  <1>4. \A k \in {5, 7} : k + 1 # 0 /\ k + 1 # 9
    OBVIOUS
  <1> QED
    BY <1>2, <1>3, <1>4, Zenon DEF Configures

\* What a transfer launched now is to the others and to its own call.
LEMMA LaunchPreserves == ASSUME IInv, NEW h \in Harts, ReadNextId(h) PROVE IInv'
  <1> USE DEF ReadNextId
  <1> DEFINE n == Len(jobs) + 1
  <1>1. /\ Arg(call[h]) = <<h, call[h].no>> /\ Arg(call[h]) \in Args
        /\ call[h].no \in Nat /\ call[h].blk \in BOOLEAN
    BY DEF IInv, TypeOK, Calls, Arg, Args
  <1>2. /\ jobs' \in Seq(Args) /\ Len(jobs') = n /\ n \in 1 .. Capacity
        /\ jobs'[n] = Arg(call[h]) /\ \A i \in 1 .. n - 1 : jobs'[i] = jobs[i]
    BY <1>1 DEF IInv, TypeOK
  <1>3. Configures(h)
    BY AtLaunchConfigures
  <1>4. \A i \in 1 .. n - 1 : jobs'[i] # jobs'[n]
    <2> SUFFICES ASSUME NEW i \in 1 .. n - 1, jobs[i] = Arg(call[h]) PROVE FALSE
      BY <1>2
    <2>1. i \in 1 .. Len(jobs)
      BY <1>2 DEF IInv, TypeOK
    <2>2. jobs[i][1] = h /\ jobs[i][2] = call[h].no
      BY <1>1
    <2> QED
      BY <1>1, <1>3, <2>1, <2>2 DEF IInv, Launched
  <1>5. TypeOK'
    <2>1. next_id' \in 0 .. IdMod - 1
      BY IncInRange DEF IInv, TypeOK
    <2>2. tf_id' \in [Harts -> 0 .. IdMod - 1]
      BY DEF IInv, TypeOK
    <2>3. /\ step' \in [Harts -> Idle .. Spin]
          /\ \A g \in Harts : step'[g] = step[g] \/ step'[g] \in {Idle, Spin}
      BY <1>1 DEF IInv, TypeOK
    <2>4. overtaken' \in [Harts -> BOOLEAN]
      OBVIOUS
    <2> QED
      BY <1>2, <2>1, <2>2, <2>3, <2>4 DEF IInv, TypeOK
  <1>6. Numbered'
    <2>1. next_id' = Ahead(n + 1)
      BY <1>2, IncAhead DEF IInv, Numbered
    <2> QED
      BY <1>2, <2>1 DEF Numbered, Ahead
  <1>7. Launched'
    <2> SUFFICES ASSUME NEW i \in 1 .. n, NEW g \in Harts, jobs'[i][1] = g
                 PROVE  /\ jobs'[i][2] <= call[g].no
                        /\ Configures(g)' => jobs'[i][2] < call[g].no
      BY <1>2 DEF Launched
    <2>1. ~Configures(h)' /\ (g # h => (Configures(g)' => Configures(g)))
      BY <1>1 DEF IInv, TypeOK, Configures
    <2>2. CASE i = n
      BY <1>1, <1>2, <2>1, <2>2
    <2>3. CASE i # n
      <3>1. i \in 1 .. Len(jobs) /\ jobs'[i] = jobs[i]
        BY <1>2, <2>3 DEF IInv, TypeOK
      <3> QED
        BY <2>1, <3>1 DEF IInv, Launched
    <2> QED
      BY <2>2, <2>3
  <1>8. Distinct'
    <2> SUFFICES ASSUME NEW i \in 1 .. n, NEW j \in 1 .. n, jobs'[i] = jobs'[j] PROVE i = j
      BY <1>2 DEF Distinct
    <2>1. CASE i # n /\ j # n
      <3>1. i \in 1 .. Len(jobs) /\ j \in 1 .. Len(jobs) /\ jobs[i] = jobs[j]
        BY <1>2, <2>1 DEF IInv, TypeOK
      <3> QED
        BY <3>1 DEF IInv, Distinct
    <2>2. CASE i = n \/ j = n
      BY <1>2, <1>4, <2>2
    <2> QED
      BY <2>1, <2>2
  <1>9. Held'
    <2> SUFFICES ASSUME NEW g \in Harts, NEW i \in 1 .. n, step'[g] = Spin,
                        jobs'[i] = Arg(call[g])
                 PROVE  tf_id'[g] = Ahead(i)
      BY <1>2 DEF Held, Ahead
    <2>1. CASE g = h
      <3>1. i = n
        BY <1>2, <1>4, <2>1
      <3>2. tf_id'[g] = next_id
        BY <2>1 DEF IInv, TypeOK
      <3> QED
        BY <3>1, <3>2 DEF IInv, Numbered
    <2>2. CASE g # h
      <3>1. Arg(call[g]) # Arg(call[h])
        BY <2>2, <1>1 DEF IInv, TypeOK, Arg
      <3>2. i \in 1 .. Len(jobs) /\ jobs'[i] = jobs[i]
        BY <1>2, <3>1 DEF IInv, TypeOK
      <3>3. step[g] = Spin /\ tf_id'[g] = tf_id[g]
        BY <2>2 DEF IInv, TypeOK
      <3> QED
        BY <3>2, <3>3 DEF IInv, Held
    <2> QED
      BY <2>1, <2>2
  <1> QED
    BY <1>5, <1>6, <1>7, <1>8, <1>9 DEF IInv

LEMMA RetirePreserves == ASSUME IInv, Retire PROVE IInv'
  <1> USE DEF Retire
  <1>1. /\ Len(jobs) \in 1 .. Capacity /\ jobs' \in Seq(Args) /\ Len(jobs') = Len(jobs) - 1
        /\ \A i \in 1 .. Len(jobs') : jobs'[i] = jobs[i + 1]
    BY DEF IInv, TypeOK
  <1>2. \A i \in 1 .. Capacity : Ahead(i)' = Ahead(i + 1)
    BY DEF IInv, TypeOK, Ahead, Inc
  <1>3. TypeOK'
    <2>1. done_id' \in 0 .. IdMod - 1
      BY IncInRange DEF IInv, TypeOK
    <2>2. Len(jobs') <= Capacity
      BY <1>1
    <2> QED
      BY <1>1, <2>1, <2>2 DEF IInv, TypeOK
  <1>4. Numbered'
    BY <1>1, <1>2 DEF IInv, Numbered
  <1>5. Launched'
    <2> SUFFICES ASSUME NEW i \in 1 .. Len(jobs'), NEW g \in Harts, jobs'[i][1] = g
                 PROVE  /\ jobs'[i][2] <= call[g].no
                        /\ Configures(g) => jobs'[i][2] < call[g].no
      BY DEF Launched, Configures
    <2>1. i + 1 \in 1 .. Len(jobs)
      BY <1>1
    <2> QED
      BY <1>1, <2>1 DEF IInv, Launched
  <1>6. Distinct'
    <2> SUFFICES ASSUME NEW i \in 1 .. Len(jobs'), NEW j \in 1 .. Len(jobs'),
                        jobs'[i] = jobs'[j]
                 PROVE  i = j
      BY DEF Distinct
    <2>1. i + 1 \in 1 .. Len(jobs) /\ j + 1 \in 1 .. Len(jobs)
      BY <1>1
    <2>2. i + 1 = j + 1
      BY <1>1, <2>1 DEF IInv, Distinct
    <2> QED
      BY <2>2
  <1>7. Held'
    <2> SUFFICES ASSUME NEW g \in Harts, NEW i \in 1 .. Len(jobs'), step[g] = Spin,
                        jobs'[i] = Arg(call[g])
                 PROVE  tf_id[g] = Ahead(i)'
      BY DEF Held
    <2>1. i + 1 \in 1 .. Len(jobs) /\ i \in 1 .. Capacity
      BY <1>1
    <2> QED
      BY <1>1, <1>2, <2>1 DEF IInv, Held
  <1> QED
    BY <1>3, <1>4, <1>5, <1>6, <1>7 DEF IInv

LEMMA PollDonePreserves == ASSUME IInv, NEW h \in Harts, PollDone(h) PROVE IInv'
  <1> USE DEF PollDone
  <1>1. TypeOK'
    BY DEF IInv, TypeOK
  <1>2. Numbered' /\ Distinct'
    BY DEF IInv, Numbered, Distinct, Ahead
  <1>3. Launched'
    BY DEF IInv, TypeOK, Launched, Configures
  <1>4. Held'
    BY DEF IInv, TypeOK, Held, Ahead
  <1> QED
    BY <1>1, <1>2, <1>3, <1>4 DEF IInv

LEMMA NextPreserves == IInv /\ [Next]_vars => IInv'
  <1> SUFFICES ASSUME IInv, [Next]_vars PROVE IInv'
    OBVIOUS
  <1>1. ASSUME NEW h \in Harts, WriteReg(h) PROVE IInv'
    BY <1>1, WriteRegPreserves
  <1>2. ASSUME NEW h \in Harts, ReadNextId(h) PROVE IInv'
    BY <1>2, LaunchPreserves
  <1>3. ASSUME NEW h \in Harts, PollDone(h) PROVE IInv'
    BY <1>3, PollDonePreserves
  <1>4. ASSUME NEW h \in Harts, NEW twod \in BOOLEAN, NEW blk \in BOOLEAN, Call(h, twod, blk)
        PROVE  IInv'
    BY <1>4, CallPreserves
  <1>5. CASE Retire
    BY <1>5, RetirePreserves
  <1>6. CASE UNCHANGED vars
    BY <1>6 DEF vars, IInv, TypeOK, Numbered, Ahead, Launched, Configures, Distinct, Held
  <1> QED
    BY <1>1, <1>2, <1>3, <1>4, <1>5, <1>6 DEF Next, Proceed

LEMMA Invariance == Spec => []IInv
  <1> QED
    BY InitIInv, NextPreserves, PTL DEF Spec

\* The registers, the job FIFO and the identifiers keep their ranges, the
\* FIFO never holds more than fits, and a call is at one of its writes
\* (dma.h:79-119, cheshire_idma_wrap.sv:168-199).
THEOREM TypeCorrect == Spec => []TypeOK
  <1>1. IInv => TypeOK
    BY DEF IInv
  <1> QED
    BY <1>1, Invariance, PTL

-----------------------------------------------------------------------------
(* The registers at the launch.                                            *)

\* A register holds what a call asks for.
Holds(c, r) == IF r = "conf" THEN conf = c.twod
               ELSE regs[r] = IF r = "reps" /\ ~c.twod THEN None ELSE Arg(c)

\* While no other hart writes a register, those written so far hold.
RegInv == \A h \in Harts :
            Configures(h) /\ lone[h]
            => \A i \in 1 .. Len(Order(call[h].twod)) :
                  i < step[h] => Holds(call[h], Order(call[h].twod)[i])

LEMMA OrderDistinct ==
  ASSUME NEW b \in BOOLEAN, NEW i \in 1 .. Len(Order(b)), NEW j \in 1 .. Len(Order(b)),
         Order(b)[i] = Order(b)[j]
  PROVE  i = j
  <1>1. CASE b = TRUE
    <2>1. i \in 1 .. 7 /\ j \in 1 .. 7
      BY <1>1 DEF Order
    <2> QED
      BY <1>1, <2>1 DEF Order
  <1>2. CASE b = FALSE
    <2>1. i \in 1 .. 5 /\ j \in 1 .. 5
      BY <1>2 DEF Order
    <2> QED
      BY <1>2, <2>1 DEF Order
  <1> QED
    BY <1>1, <1>2

LEMMA InitRegInv == Init => RegInv
  BY DEF Init, RegInv, Configures

LEMMA CallRegInv ==
  ASSUME IInv, RegInv, NEW h \in Harts, NEW twod \in BOOLEAN, NEW blk \in BOOLEAN,
         Call(h, twod, blk)
  PROVE  RegInv'
  <1> SUFFICES ASSUME NEW g \in Harts, Configures(g)', lone'[g],
                      NEW i \in 1 .. Len(Order(call'[g].twod)), i < step'[g]
               PROVE  Holds(call[g], Order(call[g].twod)[i])'
    BY DEF RegInv
  <1>1. CASE g = h
    <2>1. step'[g] = 1
      BY <1>1 DEF Call, IInv, TypeOK
    <2> QED
      BY <2>1
  <1>2. CASE g # h
    <2>1. call'[g] = call[g] /\ step'[g] = step[g] /\ lone'[g] = lone[g]
      BY <1>2 DEF Call, IInv, TypeOK
    <2>2. regs' = regs /\ conf' = conf
      BY DEF Call
    <2>3. Holds(call[g], Order(call[g].twod)[i])
      BY <2>1 DEF RegInv, Configures
    <2> QED
      BY <2>1, <2>2, <2>3 DEF Holds, Arg
  <1> QED
    BY <1>1, <1>2

LEMMA WriteRegRegInv == ASSUME IInv, RegInv, NEW h \in Harts, WriteReg(h) PROVE RegInv'
  <1> SUFFICES ASSUME NEW g \in Harts, Configures(g)', lone'[g],
                      NEW i \in 1 .. Len(Order(call'[g].twod)), i < step'[g]
               PROVE  Holds(call[g], Order(call[g].twod)[i])'
    BY DEF RegInv
  <1> DEFINE r == Order(call[h].twod)[step[h]]
  <1>1. g = h /\ lone[h]
    BY Zenon DEF WriteReg
  <1>2. call' = call /\ step'[h] = step[h] + 1 /\ step[h] \in 1 .. Len(Order(call[h].twod))
    BY DEF WriteReg, Configuring, IInv, TypeOK
  <1>3. call[h].twod \in BOOLEAN
    BY DEF IInv, TypeOK, Calls
  <1>4. Configures(h)
    <2>1. step[h] \in 1 .. 7
      BY <1>3, OrderLen DEF WriteReg, Configuring
    <2> QED
      BY <2>1 DEF Configures
  <1>5. /\ r = "conf" => conf' = call[h].twod /\ regs' = regs
        /\ r # "conf" => conf' = conf /\ \A q \in Registers \ {r} : regs'[q] = regs[q]
        /\ r # "conf" => regs'[r] = IF r = "reps" /\ ~call[h].twod THEN None ELSE Arg(call[h])
    BY <1>2, <1>3, OrderRegisters DEF WriteReg, IInv, TypeOK
  <1>6. CASE i = step[h]
    BY <1>1, <1>2, <1>5, <1>6 DEF Holds, Arg
  <1>7. CASE i # step[h]
    <2>1. i < step[h] /\ i \in 1 .. Len(Order(call[h].twod))
      BY <1>1, <1>2, <1>7, OrderLen, <1>3
    <2>2. Holds(call[h], Order(call[h].twod)[i])
      BY <1>1, <1>4, <2>1 DEF RegInv
    <2>3. Order(call[h].twod)[i] # r
      BY <1>2, <1>3, <1>7, <2>1, OrderDistinct
    <2>4. Order(call[h].twod)[i] # "conf" => Order(call[h].twod)[i] \in Registers
      BY <1>3, <2>1, OrderRegisters
    <2> QED
      BY <1>1, <1>2, <1>5, <2>2, <2>3, <2>4 DEF Holds, Arg
  <1> QED
    BY <1>6, <1>7

LEMMA NextRegInv == ASSUME IInv, RegInv, [Next]_vars PROVE RegInv'
  <1>1. ASSUME NEW h \in Harts, ReadNextId(h) PROVE RegInv'
    <2>1. /\ regs' = regs /\ conf' = conf /\ call' = call /\ lone' = lone
          /\ \A g \in Harts : Configures(g)' => step'[g] = step[g]
      BY <1>1 DEF ReadNextId, Configures, IInv, TypeOK, Calls
    <2> QED
      BY <2>1 DEF RegInv, Configures, Holds, Arg
  <1>2. ASSUME NEW h \in Harts, PollDone(h) PROVE RegInv'
    <2>1. /\ regs' = regs /\ conf' = conf /\ call' = call /\ lone' = lone
          /\ \A g \in Harts : Configures(g)' => step'[g] = step[g]
      BY <1>2 DEF PollDone, Configures, IInv, TypeOK
    <2> QED
      BY <2>1 DEF RegInv, Configures, Holds, Arg
  <1>3. CASE Retire
    BY <1>3 DEF Retire, RegInv, Configures, Holds, Arg
  <1>4. CASE UNCHANGED vars
    BY <1>4 DEF vars, RegInv, Configures, Holds, Arg
  <1> QED
    BY <1>1, <1>2, <1>3, <1>4, CallRegInv, WriteRegRegInv DEF Next, Proceed

LEMMA OrderComplete ==
  /\ Order(FALSE)[1] = "src" /\ Order(FALSE)[2] = "dst" /\ Order(FALSE)[3] = "len"
  /\ Order(FALSE)[5] = "conf" /\ Len(Order(FALSE)) = 5
  /\ Order(TRUE)[1] = "src" /\ Order(TRUE)[2] = "dst" /\ Order(TRUE)[3] = "len"
  /\ Order(TRUE)[4] = "conf" /\ Order(TRUE)[5] = "sstride" /\ Order(TRUE)[6] = "dstride"
  /\ Order(TRUE)[7] = "reps" /\ Len(Order(TRUE)) = 7
  BY DEF Order

\* A hart that is alone at the registers launches what it was asked for,
\* whatever earlier calls left there (dma.h:79-109).
THEOREM LaunchesAsAsked == Spec => []LaunchedAsAsked
  <1>1. IInv /\ RegInv => LaunchedAsAsked
    <2> SUFFICES ASSUME IInv, RegInv, NEW h \in Harts, AtLaunch(h), lone[h]
                 PROVE  Configured(call[h])
      BY DEF LaunchedAsAsked
    <2>1. call[h].twod \in BOOLEAN
      BY DEF IInv, TypeOK, Calls
    <2>2. step[h] = Len(Order(call[h].twod)) + 1
      BY DEF AtLaunch
    <2>3. \A i \in 1 .. Len(Order(call[h].twod)) : Holds(call[h], Order(call[h].twod)[i])
      BY <2>1, <2>2, AtLaunchConfigures, OrderLen DEF RegInv
    <2>4. CASE call[h].twod = TRUE
      <3>1. \A i \in 1 .. 7 : Holds(call[h], Order(TRUE)[i])
        BY <2>3, <2>4, OrderComplete
      <3>2. /\ Holds(call[h], Order(TRUE)[1]) /\ Holds(call[h], Order(TRUE)[2])
            /\ Holds(call[h], Order(TRUE)[3]) /\ Holds(call[h], Order(TRUE)[4])
            /\ Holds(call[h], Order(TRUE)[5]) /\ Holds(call[h], Order(TRUE)[6])
            /\ Holds(call[h], Order(TRUE)[7])
        <4>1. \A k \in {1, 2, 3, 4, 5, 6, 7} : k \in 1 .. 7
          OBVIOUS
        <4> QED
          BY <3>1, <4>1, Zenon
      <3>3. /\ Holds(call[h], "src") /\ Holds(call[h], "dst") /\ Holds(call[h], "len")
            /\ Holds(call[h], "conf") /\ Holds(call[h], "sstride")
            /\ Holds(call[h], "dstride") /\ Holds(call[h], "reps")
        BY <3>2, OrderComplete, Zenon
      <3> QED
        BY <2>4, <3>3 DEF Configured, Holds
    <2>5. CASE call[h].twod = FALSE
      <3>1. \A i \in 1 .. 5 : Holds(call[h], Order(FALSE)[i])
        BY <2>3, <2>5, OrderComplete
      <3>2. /\ Holds(call[h], Order(FALSE)[1]) /\ Holds(call[h], Order(FALSE)[2])
            /\ Holds(call[h], Order(FALSE)[3]) /\ Holds(call[h], Order(FALSE)[5])
        <4>1. \A k \in {1, 2, 3, 5} : k \in 1 .. 5
          OBVIOUS
        <4> QED
          BY <3>1, <4>1, Zenon
      <3>3. /\ Holds(call[h], "src") /\ Holds(call[h], "dst") /\ Holds(call[h], "len")
            /\ Holds(call[h], "conf")
        BY <3>2, OrderComplete, Zenon
      <3> QED
        BY <2>5, <3>3 DEF Configured, Holds
    <2> QED
      BY <2>1, <2>4, <2>5
  <1>2. Init => RegInv
    BY InitRegInv
  <1>3. IInv /\ RegInv /\ [Next]_vars => RegInv'
    BY NextRegInv
  <1> QED
    BY <1>1, <1>2, <1>3, Invariance, PTL DEF Spec

-----------------------------------------------------------------------------
(* The refinement.                                                         *)

LEMMA IndexOfIs ==
  ASSUME NEW q, NEW e
  PROVE  /\ \A i \in 1 .. Len(q) : q[i] = e /\ (\A j \in 1 .. Len(q) : q[j] = e => j = i)
                                   => IndexOf(q, e) = i
         /\ (\A i \in 1 .. Len(q) : q[i] # e) => IndexOf(q, e) = 0
  <1> DEFINE at == {i \in 1 .. Len(q) : q[i] = e}
  <1>1. ASSUME NEW i \in 1 .. Len(q), q[i] = e, \A j \in 1 .. Len(q) : q[j] = e => j = i
        PROVE  IndexOf(q, e) = i
    <2>1. at = {i}
      BY <1>1
    <2>2. IndexOf(q, e) = CHOOSE j \in at : TRUE
      BY <2>1 DEF IndexOf
    <2> QED
      BY <2>1, <2>2
  <1>2. ASSUME \A i \in 1 .. Len(q) : q[i] # e PROVE IndexOf(q, e) = 0
    <2>1. at = {}
      BY <1>2
    <2> QED
      BY <2>1 DEF IndexOf
  <1> QED
    BY <1>1, <1>2

\* The place of a hart's transfer is where it is, or 0.
LEMMA PlaceIs ==
  ASSUME IInv, NEW h \in Harts
  PROVE  /\ \A i \in 1 .. Len(jobs) : jobs[i] = Arg(call[h]) => Place(h) = i
         /\ (\A i \in 1 .. Len(jobs) : jobs[i] # Arg(call[h])) => Place(h) = 0
  BY IndexOfIs DEF IInv, Distinct, Place

LEMMA PlaceIsNext ==
  ASSUME IInv', NEW h \in Harts
  PROVE  /\ \A i \in 1 .. Len(jobs') : jobs'[i] = Arg(call'[h]) => Place(h)' = i
         /\ (\A i \in 1 .. Len(jobs') : jobs'[i] # Arg(call'[h])) => Place(h)' = 0
  BY IndexOfIs DEF IInv, Distinct, Place, Arg

\* While a waiting hart's transfer is not complete, the completed identifier
\* is not its own: as many transfers ahead as fit do not make it wrap.
LEMMA HeldUntilComplete ==
  ASSUME IInv, NEW h \in Harts, step[h] = Spin, done_id = tf_id[h]
  PROVE  Place(h) = 0
  <1> SUFFICES ASSUME NEW i \in 1 .. Len(jobs), jobs[i] = Arg(call[h]) PROVE FALSE
    BY PlaceIs
  <1>1. tf_id[h] = Ahead(i)
    BY DEF IInv, Held
  <1>2. i \in 1 .. Capacity /\ done_id \in 0 .. IdMod - 1
    BY DEF IInv, TypeOK
  <1> QED
    BY <1>1, <1>2 DEF Ahead

LEMMA InitService == Init => Service!Init
  BY DEF Init, Service!Init, Waiting, AheadOf

\* A step that leaves the FIFO, the waiting harts and their calls alone is a
\* stutter of the service.
LEMMA Stutters ==
  ASSUME jobs' = jobs, Waiting' = Waiting, \A h \in Waiting : call'[h] = call[h]
  PROVE  UNCHANGED Service!vars
  <1>1. \A h \in Waiting : Place(h)' = Place(h)
    BY Zenon DEF Place, Arg
  <1>2. AheadOf' = AheadOf
    BY <1>1 DEF AheadOf
  <1> QED
    BY <1>2 DEF Service!vars

LEMMA CallStutters ==
  ASSUME IInv, NEW h \in Harts, NEW twod \in BOOLEAN, NEW blk \in BOOLEAN, Call(h, twod, blk)
  PROVE  UNCHANGED Service!vars
  <1>1. Waiting' = Waiting /\ h \notin Waiting
    BY DEF Call, Waiting, IInv, TypeOK
  <1>2. \A g \in Waiting : call'[g] = call[g]
    BY <1>1 DEF Call, Waiting, IInv, TypeOK
  <1>3. jobs' = jobs
    BY DEF Call
  <1> QED
    BY <1>1, <1>2, <1>3, Stutters

LEMMA WriteRegStutters ==
  ASSUME IInv, NEW h \in Harts, WriteReg(h) PROVE UNCHANGED Service!vars
  <1>1. step[h] \in 1 .. 7
    <2>1. call[h].twod \in BOOLEAN
      BY DEF IInv, TypeOK, Calls
    <2> QED
      BY <2>1, OrderLen DEF WriteReg, Configuring
  <1>2. Waiting' = Waiting
    BY <1>1 DEF WriteReg, Waiting, IInv, TypeOK
  <1>3. jobs' = jobs /\ call' = call
    BY DEF WriteReg
  <1> QED
    BY <1>2, <1>3, Stutters

LEMMA LaunchIsLaunch == ASSUME IInv, IInv', NEW h \in Harts, ReadNextId(h) PROVE Service!Launch(h)
  <1> DEFINE n == Len(jobs) + 1
  <1>1. /\ jobs' = Append(jobs, Arg(call[h])) /\ jobs \in Seq(Args) /\ Arg(call[h]) \in Args
        /\ call' = call /\ Len(jobs) < Capacity /\ call[h].blk \in BOOLEAN
    BY DEF IInv, TypeOK, ReadNextId, Calls, Arg, Args
  <1>2. Len(jobs') = n /\ jobs'[n] = Arg(call[h]) /\ \A i \in 1 .. n - 1 : jobs'[i] = jobs[i]
    BY <1>1
  <1>3. h \notin Waiting
    BY AtLaunchConfigures DEF Waiting, Configures, ReadNextId
  <1>4. ASSUME NEW g \in Harts \ {h} PROVE Place(g)' = Place(g)
    <2>1. Arg(call[g]) # Arg(call[h])
      BY DEF IInv, TypeOK, Arg
    <2>2. CASE \E i \in 1 .. Len(jobs) : jobs[i] = Arg(call[g])
      <3>1. PICK i \in 1 .. Len(jobs) : jobs[i] = Arg(call[g])
        BY <2>2
      <3>2. i \in 1 .. Len(jobs') /\ jobs'[i] = Arg(call'[g])
        BY <1>1, <1>2, <3>1
      <3> QED
        BY <3>1, <3>2, PlaceIs, PlaceIsNext
    <2>3. CASE \A i \in 1 .. Len(jobs) : jobs[i] # Arg(call[g])
      <3>1. \A i \in 1 .. Len(jobs') : jobs'[i] # Arg(call'[g])
        BY <1>1, <1>2, <2>1, <2>3
      <3> QED
        BY <2>3, <3>1, PlaceIs, PlaceIsNext
    <2> QED
      BY <2>2, <2>3
  <1>5. Place(h)' = n
    BY <1>1, <1>2, PlaceIsNext
  <1>6. CASE call[h].blk
    <2>1. Waiting' = Waiting \union {h}
      BY <1>6 DEF Waiting, ReadNextId, IInv, TypeOK
    <2>2. AheadOf' = [AheadOf EXCEPT ![h] = n]
      BY <1>3, <1>4, <1>5, <2>1 DEF AheadOf
    <2> QED
      BY <1>1, <1>2, <1>3, <2>1, <2>2 DEF Service!Launch
  <1>7. CASE ~call[h].blk
    <2>1. Waiting' = Waiting
      BY <1>3, <1>7 DEF Waiting, ReadNextId, IInv, TypeOK
    <2>2. AheadOf' = AheadOf
      BY <1>3, <1>4, <2>1 DEF AheadOf
    <2> QED
      BY <1>1, <1>2, <1>3, <2>1, <2>2 DEF Service!Launch
  <1> QED
    BY <1>1, <1>6, <1>7

LEMMA PollDoneReturns == ASSUME IInv, NEW h \in Harts, PollDone(h) PROVE Service!Return(h)
  <1>1. h \in Waiting /\ AheadOf[h] = 0
    BY HeldUntilComplete DEF PollDone, Waiting, AheadOf
  <1>2. Waiting' = Waiting \ {h}
    BY DEF PollDone, Waiting, IInv, TypeOK
  <1>3. \A g \in Harts : Place(g)' = Place(g)
    BY Zenon DEF PollDone, Place, Arg
  <1>4. AheadOf' = AheadOf
    BY <1>1, <1>2, <1>3 DEF AheadOf
  <1>5. jobs' = jobs
    BY DEF PollDone
  <1> QED
    BY <1>1, <1>2, <1>4, <1>5 DEF Service!Return

LEMMA RetireCompletes == ASSUME IInv, IInv', Retire PROVE Service!Complete
  <1>1. /\ Len(jobs) \in Nat \ {0} /\ Len(jobs') = Len(jobs) - 1 /\ call' = call
        /\ \A i \in 1 .. Len(jobs') : jobs'[i] = jobs[i + 1]
    BY DEF Retire, IInv, TypeOK
  <1>2. Waiting' = Waiting
    BY DEF Retire, Waiting
  <1>3. ASSUME NEW g \in Harts PROVE Place(g)' = IF Place(g) > 0 THEN Place(g) - 1 ELSE 0
    <2>1. CASE \E i \in 2 .. Len(jobs) : jobs[i] = Arg(call[g])
      <3>1. PICK i \in 2 .. Len(jobs) : jobs[i] = Arg(call[g])
        BY <2>1
      <3>2. i - 1 \in 1 .. Len(jobs') /\ jobs'[i - 1] = Arg(call'[g]) /\ i \in 1 .. Len(jobs)
        BY <1>1, <3>1
      <3>3. Place(g) = i /\ Place(g)' = i - 1
        BY <3>1, <3>2, PlaceIs, PlaceIsNext
      <3> QED
        BY <3>2, <3>3
    <2>2. CASE \A i \in 2 .. Len(jobs) : jobs[i] # Arg(call[g])
      <3>1. \A i \in 1 .. Len(jobs') : jobs'[i] # Arg(call'[g])
        BY <1>1, <2>2
      <3>2. Place(g)' = 0
        BY <3>1, PlaceIsNext
      <3>3. Place(g) \in {0, 1}
        <4>1. CASE jobs[1] = Arg(call[g])
          BY <1>1, <4>1, PlaceIs
        <4>2. CASE jobs[1] # Arg(call[g])
          BY <1>1, <2>2, <4>2, PlaceIs
        <4> QED
          BY <4>1, <4>2
      <3> QED
        BY <3>2, <3>3
    <2> QED
      BY <2>1, <2>2
  <1>4. AheadOf' = [h \in Harts |-> IF AheadOf[h] > 0 THEN AheadOf[h] - 1 ELSE 0]
    BY <1>2, <1>3 DEF AheadOf
  <1> QED
    BY <1>1, <1>2, <1>4 DEF Service!Complete

LEMMA StepService == IInv /\ IInv' /\ [Next]_vars => [Service!Next]_(Service!vars)
  <1> SUFFICES ASSUME IInv, IInv', [Next]_vars PROVE [Service!Next]_(Service!vars)
    OBVIOUS
  <1>1. ASSUME NEW h \in Harts, WriteReg(h) PROVE UNCHANGED Service!vars
    BY <1>1, WriteRegStutters
  <1>2. ASSUME NEW h \in Harts, ReadNextId(h) PROVE Service!Next
    BY <1>2, LaunchIsLaunch DEF Service!Next
  <1>3. ASSUME NEW h \in Harts, PollDone(h) PROVE Service!Next
    BY <1>3, PollDoneReturns DEF Service!Next
  <1>4. ASSUME NEW h \in Harts, NEW twod \in BOOLEAN, NEW blk \in BOOLEAN, Call(h, twod, blk)
        PROVE  UNCHANGED Service!vars
    BY <1>4, CallStutters
  <1>5. CASE Retire
    BY <1>5, RetireCompletes DEF Service!Next
  <1>6. CASE UNCHANGED vars
    <2>1. jobs' = jobs /\ step' = step /\ call' = call
      BY <1>6 DEF vars
    <2>2. Waiting' = Waiting
      BY <2>1 DEF Waiting
    <2> QED
      BY <2>1, <2>2, Stutters
  <1> QED
    BY <1>1, <1>2, <1>3, <1>4, <1>5, <1>6 DEF Next, Proceed

\* Whatever other harts launch meanwhile and however identifiers wrap, a
\* blocking copy returns only when its transfer is complete (dma.h:89-93,
\* 111-119; cheshire_idma_wrap.sv:186-199).
THEOREM Implements == Spec => RefinesService
  <1>1. Init => Service!Init
    BY InitService
  <1>2. IInv /\ IInv' /\ [Next]_vars => [Service!Next]_(Service!vars)
    BY StepService
  <1> QED
    BY <1>1, <1>2, Invariance, PTL DEF Spec, RefinesService, Service!Spec
=============================================================================
