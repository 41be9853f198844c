-------------------------------- MODULE Dma --------------------------------
(***************************************************************************)
(* The DMA driver (sw/include/dif/dma.h) and the front of the DMA that     *)
(* hw/cheshire_idma_wrap.sv puts together: one set of configuration        *)
(* registers for all harts, a job FIFO, and counters of the transfers      *)
(* launched and completed.  Reading the first counter launches.            *)
(*                                                                         *)
(* Nothing keeps harts from calling the driver at the same time.  A value  *)
(* in a register is the call that wrote it, so that a transfer shows whose *)
(* arguments it was launched with.                                         *)
(***************************************************************************)
EXTENDS Integers, Sequences, FiniteSetsExt

CONSTANTS
    Harts,        \* callers
    JobFifoDepth, \* jobs waiting for the transfer under way
    IdMod,        \* values of an identifier, 2^IdCounterWidth
    MaxCalls      \* bound on the calls of all harts

Capacity == JobFifoDepth + 1

ASSUME DmaAssumption ==
    /\ JobFifoDepth \in Nat /\ IdMod \in Nat /\ MaxCalls \in Nat
    /\ IdMod > Capacity

VARIABLES
    regs, conf,   \* the configuration registers; of conf, the bit for two dimensions
    jobs,         \* transfers launched and not complete; the first is under way
    next_id, done_id,
    step,         \* hart -> the write its call is at, Idle or Spin
    call,         \* hart -> its latest call
    tf_id,        \* hart -> identifier its latest launch returned
    lone,         \* history: no other hart wrote a register during the call
    overtaken     \* history: another launch since the hart's own

vars == <<regs, conf, jobs, next_id, done_id, step, call, tf_id, lone, overtaken>>

Idle == 0
Spin == 9
None == <<0, 0>>
Calls == [by : Harts, no : Nat, twod : BOOLEAN, blk : BOOLEAN]

\* Variant for TLC: a one-dimensional copy leaves the configuration alone.
OrderNoConf(twod) == IF twod
                     THEN <<"src", "dst", "len", "conf", "sstride", "dstride", "reps">>
                     ELSE <<"src", "dst", "len", "reps">>

\* Registers in the order in which a call writes them.
Order(twod) == IF twod
               THEN <<"src", "dst", "len", "conf", "sstride", "dstride", "reps">>
               ELSE <<"src", "dst", "len", "reps", "conf">>
Registers == {"src", "dst", "len", "sstride", "dstride", "reps"}

\* The argument of a call in a register.
Arg(c) == <<c.by, c.no>>
Args == Harts \X Nat

TypeOK ==
    /\ regs \in [Registers -> Args \union {None}] /\ conf \in BOOLEAN
    /\ jobs \in Seq(Args) /\ Len(jobs) <= Capacity
    /\ next_id \in 0 .. IdMod - 1 /\ done_id \in 0 .. IdMod - 1
    /\ step \in [Harts -> Idle .. Spin]
    /\ \A h \in Harts : step[h] \in {Idle, Spin} \union (1 .. Len(Order(call[h].twod)) + 1)
    /\ call \in [Harts -> Calls] /\ \A h \in Harts : call[h].by = h
    /\ tf_id \in [Harts -> 0 .. IdMod - 1]
    /\ lone \in [Harts -> BOOLEAN] /\ overtaken \in [Harts -> BOOLEAN]

Inc(id) == IF id = IdMod - 1 THEN 0 ELSE id + 1

\* The first transfer has the identifier that the completed count then gets.
Init ==
    /\ regs = [r \in Registers |-> None] /\ conf = FALSE
    /\ jobs = <<>> /\ done_id = 0 /\ next_id = Inc(0)
    /\ step = [h \in Harts |-> Idle]
    /\ call = [h \in Harts |-> [by |-> h, no |-> 0, twod |-> FALSE, blk |-> FALSE]]
    /\ tf_id = [h \in Harts |-> 0]
    /\ lone = [h \in Harts |-> TRUE] /\ overtaken = [h \in Harts |-> FALSE]

-----------------------------------------------------------------------------
(* The driver.                                                             *)

NumCalls == MapThenSumSet(LAMBDA h : call[h].no, Harts)

Call(h, twod, blk) ==
    /\ step[h] = Idle /\ NumCalls < MaxCalls
    /\ call' = [call EXCEPT ![h] = [by |-> h, no |-> @.no + 1, twod |-> twod, blk |-> blk]]
    /\ step' = [step EXCEPT ![h] = 1]
    /\ lone' = [lone EXCEPT ![h] = TRUE]
    /\ UNCHANGED <<regs, conf, jobs, next_id, done_id, tf_id, overtaken>>

Configuring(h) == step[h] \in 1 .. Len(Order(call[h].twod))

AtLaunch(h) == step[h] = Len(Order(call[h].twod)) + 1

\* A one-dimensional copy has no repetitions and clears the bit for them.
WriteReg(h) ==
    /\ Configuring(h)
    /\ LET r == Order(call[h].twod)[step[h]]
       IN  IF r = "conf"
           THEN conf' = call[h].twod /\ UNCHANGED regs
           ELSE /\ regs' = [regs EXCEPT ![r] = IF r = "reps" /\ ~call[h].twod THEN None
                                              ELSE Arg(call[h])]
                /\ UNCHANGED conf
    /\ step' = [step EXCEPT ![h] = @ + 1]
    /\ lone' = [g \in Harts |-> lone[g] /\ g = h]
    /\ UNCHANGED <<jobs, next_id, done_id, call, tf_id, overtaken>>

\* Variant for TLC: the read does not wait.
ReadNextIdAtOnce(h) ==
    /\ AtLaunch(h)
    /\ jobs' = Append(jobs, Arg(call[h]))
    /\ tf_id' = [tf_id EXCEPT ![h] = next_id]
    /\ next_id' = Inc(next_id)
    /\ step' = [step EXCEPT ![h] = IF call[h].blk THEN Spin ELSE Idle]
    /\ overtaken' = [g \in Harts |-> g # h]
    /\ UNCHANGED <<regs, conf, done_id, call, lone>>

\* Reading the identifier launches what is in the registers; while the job
\* FIFO is full, the read waits.
ReadNextId(h) ==
    /\ AtLaunch(h) /\ Len(jobs) < Capacity
    /\ jobs' = Append(jobs, Arg(call[h]))
    /\ tf_id' = [tf_id EXCEPT ![h] = next_id]
    /\ next_id' = Inc(next_id)
    /\ step' = [step EXCEPT ![h] = IF call[h].blk THEN Spin ELSE Idle]
    /\ overtaken' = [g \in Harts |-> g # h]
    /\ UNCHANGED <<regs, conf, done_id, call, lone>>

\* Variant for TLC: waits until the count has reached the identifier.
PollDoneReached(h) ==
    /\ step[h] = Spin /\ done_id >= tf_id[h]
    /\ step' = [step EXCEPT ![h] = Idle]
    /\ UNCHANGED <<regs, conf, jobs, next_id, done_id, call, tf_id, lone, overtaken>>

\* A poll that finds another identifier changes nothing.
PollDone(h) ==
    /\ step[h] = Spin /\ done_id = tf_id[h]
    /\ step' = [step EXCEPT ![h] = Idle]
    /\ UNCHANGED <<regs, conf, jobs, next_id, done_id, call, tf_id, lone, overtaken>>

-----------------------------------------------------------------------------
(* The wrapper.                                                            *)

\* Variant for TLC: a transfer only completes once another one waits.
RetireBehind ==
    /\ Len(jobs) > 1
    /\ jobs' = Tail(jobs)
    /\ done_id' = Inc(done_id)
    /\ UNCHANGED <<regs, conf, next_id, step, call, tf_id, lone, overtaken>>

Retire ==
    /\ jobs # <<>>
    /\ jobs' = Tail(jobs)
    /\ done_id' = Inc(done_id)
    /\ UNCHANGED <<regs, conf, next_id, step, call, tf_id, lone, overtaken>>

-----------------------------------------------------------------------------
Proceed(h) == WriteReg(h) \/ ReadNextId(h) \/ PollDone(h)

Next == \/ \E h \in Harts : Proceed(h) \/ \E twod, blk \in BOOLEAN : Call(h, twod, blk)
        \/ Retire

Spec == Init /\ [][Next]_vars

FairSpec == Spec /\ WF_vars(Retire) /\ \A h \in Harts : WF_vars(Proceed(h))

-----------------------------------------------------------------------------
\* The registers ask for the transfer of a call; a one-dimensional one does
\* not look at strides and repetitions.
Configured(c) ==
    /\ conf = c.twod
    /\ \A r \in {"src", "dst", "len"} : regs[r] = Arg(c)
    /\ c.twod => \A r \in {"sstride", "dstride", "reps"} : regs[r] = Arg(c)

\* What a call launches is what it was asked for, whatever calls were made
\* before it and left in the registers, unless another hart wrote one of
\* them during the call (dma.h:79-86, 99-108).
LaunchedAsAsked == \A h \in Harts : AtLaunch(h) /\ lone[h] => Configured(call[h])

\* Place of a hart's latest transfer among those not complete, or 0.
IndexOf(q, e) == LET at == {i \in 1 .. Len(q) : q[i] = e}
                 IN  IF at = {} THEN 0 ELSE CHOOSE i \in at : TRUE
Place(h) == IndexOf(jobs, Arg(call[h]))

Waiting == {h \in Harts : step[h] = Spin}
AheadOf == [h \in Harts |-> IF h \in Waiting THEN Place(h) ELSE 0]

Service == INSTANCE DmaService
             WITH outstanding <- Len(jobs), waiting <- Waiting,
                  ahead <- AheadOf

\* A blocking copy returns only when its own transfer is complete, although
\* identifiers wrap and harts do not coordinate (dma.h:90-93, 114-118;
\* cheshire_idma_wrap.sv:271-280).
RefinesService == Service!Spec

\* It does return, unless another launch overtakes it: its identifier may
\* then be gone before it is polled (dma.h:91, 116).
BlockingReturns == \A h \in Harts : (step[h] = Spin) ~> (step[h] # Spin \/ overtaken[h])
=============================================================================
