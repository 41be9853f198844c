------------------------------- MODULE SmpBoot -------------------------------
(***************************************************************************)
(* The multi-hart hand-over of the boot ROM: smp_pause and smp_resume of   *)
(* sw/include/smp.h, as _start and boot_next_stage of                      *)
(* hw/bootrom/cheshire_bootrom.S expand them.                              *)
(*                                                                         *)
(* All harts leave reset together.  The non-SMP hart runs the boot ROM;    *)
(* the others sleep.  When the boot ROM has found a next stage, the        *)
(* non-SMP hart writes its address into two 32-bit scratch registers,      *)
(* fences, and raises the software interrupt (CLINT msip) of every hart in *)
(* index order, its own included.  Each hart waits for its interrupt,      *)
(* clears it, then waits in index order for every msip register to read 0, *)
(* reads the address back and jumps.                                       *)
(*                                                                         *)
(* The scratch registers and the CLINT are different I/O devices.  Stores  *)
(* to one are not ordered with stores to the other unless a fence          *)
(* separates them, so a scratch store is first "posted" and performed      *)
(* later.  Accesses of a hart to the CLINT alone are performed in program  *)
(* order and are one step each.                                            *)
(***************************************************************************)
EXTENDS Integers, FiniteSets

CONSTANTS NumHarts,       \* regs.NUM_INT_HARTS
          Half,           \* values of a 32-bit half of an address
          NoEntry,        \* not an address
          MaxIpis         \* bound on the interrupts the next stage sends

ASSUME SmpAssumption == /\ NumHarts \in Nat \ {0}
                        /\ Half # {}
                        /\ NoEntry \notin Half \X Half
                        /\ MaxIpis \in Nat

Harts == 0 .. NumHarts - 1

\* Variant for TLC: the build overrides NONSMP_HART.
OverriddenHart == 1

\* The hart that runs the boot ROM (NONSMP_HART).
NonSmpHart == 0

Entries == Half \X Half      \* <<scratch[5], scratch[4]>>

VARIABLES pc,       \* where each hart is
          arg,      \* a0 of boot_next_stage: the next stage's address
          posted,   \* scratch registers whose store is not yet performed
          scratch,  \* regs.SCRATCH[4] and regs.SCRATCH[5]
          msip,     \* CLINT software-interrupt registers
          idx,      \* each hart's position in its current walk over msip
          upper,    \* t1: the upper half read back by each hart
          target,   \* the address each hart jumped to
          ipis      \* interrupts sent by the next stage so far

vars == <<pc, arg, posted, scratch, msip, idx, upper, target, ipis>>

\* Places only the non-SMP hart visits, before it has raised any interrupt.
BootPlaces == {"main", "store_lo", "store_hi", "fence"}
\* Places of a hart that has consumed its interrupt.
PastScan == {"load_hi", "load_lo", "jumped"}
Consumed == {"scan"} \union PastScan
Places == {"reset", "raise", "wfi", "clear"} \union BootPlaces \union Consumed

TypeOK == /\ pc \in [Harts -> Places]
          /\ arg \in Entries \union {NoEntry}
          /\ posted \subseteq {4, 5}
          /\ scratch \in [{4, 5} -> Half]
          /\ msip \in [Harts -> {0, 1}]
          /\ idx \in [Harts -> Harts]
          /\ upper \in [Harts -> Half \union {NoEntry}]
          /\ target \in [Harts -> Entries \union {NoEntry}]
          /\ ipis \in 0 .. MaxIpis

\* The scratch registers survive a reset of the harts: any stale value.
Init == /\ pc = [h \in Harts |-> "reset"]
        /\ arg = NoEntry
        /\ posted = {}
        /\ scratch \in [{4, 5} -> Half]
        /\ msip = [h \in Harts |-> 0]
        /\ idx = [h \in Harts |-> 0]
        /\ upper = [h \in Harts |-> NoEntry]
        /\ target = [h \in Harts |-> NoEntry]
        /\ ipis = 0

Goto(h, place) == pc' = [pc EXCEPT ![h] = place]

-----------------------------------------------------------------------------
(* The boot ROM on the non-SMP hart.                                       *)

\* smp_pause: enable the software interrupt as wake-up source, then sleep
\* unless this is the non-SMP hart.
SmpPause(h) == /\ pc[h] = "reset"
               /\ Goto(h, IF h = NonSmpHart THEN "main" ELSE "wfi")
               /\ UNCHANGED <<arg, posted, scratch, msip, idx, upper, target, ipis>>

\* main found a next stage and calls boot_next_stage(a).  It may never do so.
CallNextStage(a) == /\ pc[NonSmpHart] = "main"
                    /\ arg' = a
                    /\ Goto(NonSmpHart, "store_lo")
                    /\ UNCHANGED <<posted, scratch, msip, idx, upper, target, ipis>>

StoreLo == /\ pc[NonSmpHart] = "store_lo"
           /\ posted' = posted \union {4}
           /\ Goto(NonSmpHart, "store_hi")
           /\ UNCHANGED <<arg, scratch, msip, idx, upper, target, ipis>>

StoreHi == /\ pc[NonSmpHart] = "store_hi"
           /\ posted' = posted \union {5}
           /\ Goto(NonSmpHart, "fence")
           /\ UNCHANGED <<arg, scratch, msip, idx, upper, target, ipis>>

\* A posted scratch store is performed.
Perform(r) == /\ r \in posted
              /\ posted' = posted \ {r}
              /\ scratch' = [scratch EXCEPT ![r] = IF r = 4 THEN arg[2] ELSE arg[1]]
              /\ UNCHANGED <<pc, arg, msip, idx, upper, target, ipis>>

\* Variant for TLC: no fence between the scratch stores and the interrupts.
FenceOmitted == /\ pc[NonSmpHart] = "fence"
                /\ Goto(NonSmpHart, "raise")
                /\ idx' = [idx EXCEPT ![NonSmpHart] = 0]
                /\ UNCHANGED <<arg, posted, scratch, msip, upper, target, ipis>>

\* Variant for TLC: the non-SMP hart does not interrupt itself.
FenceSkippingSelf == /\ pc[NonSmpHart] = "fence"
                     /\ posted = {}
                     /\ Goto(NonSmpHart, "raise")
                     /\ idx' = [idx EXCEPT ![NonSmpHart] = 1]
                     /\ UNCHANGED <<arg, posted, scratch, msip, upper, target, ipis>>

\* fence: wait until all earlier stores are performed.
Fence == /\ pc[NonSmpHart] = "fence"
         /\ posted = {}
         /\ Goto(NonSmpHart, "raise")
         /\ idx' = [idx EXCEPT ![NonSmpHart] = 0]
         /\ UNCHANGED <<arg, posted, scratch, msip, upper, target, ipis>>

\* Variant for TLC: the loop closes with ble instead of blt.
AdvanceTooFar(h, stay, leave) ==
    \/ /\ idx[h] + 1 <= NumHarts
       /\ idx' = [idx EXCEPT ![h] = @ + 1]
       /\ Goto(h, stay)
    \/ /\ idx[h] + 1 > NumHarts
       /\ UNCHANGED idx
       /\ Goto(h, leave)

\* The last position of a walk leaves the index where it is.
Advance(h, stay, leave) ==
    \/ /\ idx[h] + 1 < NumHarts
       /\ idx' = [idx EXCEPT ![h] = @ + 1]
       /\ Goto(h, stay)
    \/ /\ idx[h] + 1 >= NumHarts
       /\ UNCHANGED idx
       /\ Goto(h, leave)

\* Raise the next hart's interrupt.
RaiseIpi == /\ pc[NonSmpHart] = "raise"
            /\ msip' = [msip EXCEPT ![idx[NonSmpHart]] = 1]
            /\ Advance(NonSmpHart, "raise", "wfi")
            /\ UNCHANGED <<arg, posted, scratch, upper, target, ipis>>

-----------------------------------------------------------------------------
(* smp_resume from label 2 on, executed by every hart.                     *)

\* Variant for TLC: wfi is trusted, mip is not read after it.
WakeUpUnchecked(h) == /\ pc[h] = "wfi"
                      /\ Goto(h, "clear")
                      /\ UNCHANGED <<arg, posted, scratch, msip, idx, upper, target, ipis>>

\* wfi returned and mip.MSIP is set; otherwise the hart sleeps again.
WakeUp(h) == /\ pc[h] = "wfi"
             /\ msip[h] = 1
             /\ Goto(h, "clear")
             /\ UNCHANGED <<arg, posted, scratch, msip, idx, upper, target, ipis>>

ClearIpi(h) == /\ pc[h] = "clear"
               /\ msip' = [msip EXCEPT ![h] = 0]
               /\ idx' = [idx EXCEPT ![h] = 0]
               /\ Goto(h, "scan")
               /\ UNCHANGED <<arg, posted, scratch, upper, target, ipis>>

\* Variant for TLC: the scan does not wait for the other harts.
ScanUnchecked(h) == /\ pc[h] = "scan"
                    /\ Advance(h, "scan", "load_hi")
                    /\ UNCHANGED <<arg, posted, scratch, msip, upper, target, ipis>>

\* Move past an msip register that reads 0; the hart spins while it reads 1.
Scan(h) == /\ pc[h] = "scan"
           /\ msip[idx[h]] = 0
           /\ Advance(h, "scan", "load_hi")
           /\ UNCHANGED <<arg, posted, scratch, msip, upper, target, ipis>>

LoadHi(h) == /\ pc[h] = "load_hi"
             /\ upper' = [upper EXCEPT ![h] = scratch[5]]
             /\ Goto(h, "load_lo")
             /\ UNCHANGED <<arg, posted, scratch, msip, idx, target, ipis>>

LoadLoAndJump(h) == /\ pc[h] = "load_lo"
                    /\ target' = [target EXCEPT ![h] = <<upper[h], scratch[4]>>]
                    /\ Goto(h, "jumped")
                    /\ UNCHANGED <<arg, posted, scratch, msip, idx, upper, ipis>>

-----------------------------------------------------------------------------
(* The next stage (external): harts that run it may use the same software  *)
(* interrupts while slower harts are still in smp_resume.                  *)

PayloadIpi(h, j) == /\ pc[h] = "jumped"
                    /\ ipis < MaxIpis
                    /\ msip' = [msip EXCEPT ![j] = 1]
                    /\ ipis' = ipis + 1
                    /\ UNCHANGED <<pc, arg, posted, scratch, idx, upper, target>>

PayloadHandler(h) == /\ pc[h] = "jumped"
                     /\ msip[h] = 1
                     /\ msip' = [msip EXCEPT ![h] = 0]
                     /\ UNCHANGED <<pc, arg, posted, scratch, idx, upper, target, ipis>>

-----------------------------------------------------------------------------
BootHart == StoreLo \/ StoreHi \/ Fence \/ RaiseIpi

Resume(h) == WakeUp(h) \/ ClearIpi(h) \/ Scan(h) \/ LoadHi(h) \/ LoadLoAndJump(h)

Next == \/ \E h \in Harts : SmpPause(h)
        \/ \E a \in Entries : CallNextStage(a)
        \/ BootHart
        \/ \E r \in {4, 5} : Perform(r)
        \/ \E h \in Harts : Resume(h)
        \/ \E h, j \in Harts : PayloadIpi(h, j)
        \/ \E h \in Harts : PayloadHandler(h)

Spec == Init /\ [][Next]_vars

\* Every hart keeps executing, posted stores are performed in the end, and
\* the next stage services its interrupts.
Fairness == /\ WF_vars(BootHart)
            /\ \A r \in {4, 5} : WF_vars(Perform(r))
            /\ \A h \in Harts : /\ WF_vars(SmpPause(h))
                                /\ WF_vars(Resume(h))
                                /\ WF_vars(PayloadHandler(h))

FairSpec == Spec /\ Fairness

-----------------------------------------------------------------------------
(* Properties.                                                             *)

\* The barrier holds: a hart past the scan of smp_resume finds every hart
\* awake with its interrupt consumed, so whatever interrupts it sends next
\* cannot be taken for the boot interrupt.
BarrierSafe == \A h, k \in Harts : pc[h] \in PastScan => pc[k] \in Consumed

\* Every hart enters the next stage at the address the boot ROM passed to
\* boot_next_stage: no stale and no half-updated address is ever used.
EntryAgreed == \A h \in Harts : target[h] # NoEntry => target[h] = arg

\* An interrupt sent by the next stage is never cleared by a hart that is
\* still in the boot ROM.
NoIpiSwallowed ==
    [][\A h \in Harts : msip[h] = 1 /\ msip'[h] = 0 /\ ipis > 0
                            => pc[h] = "jumped"]_vars

\* A hart still in smp_resume was interrupted by the next stage.
Stray == \E h \in Harts : pc[h] \in Consumed \ {"jumped"} /\ msip[h] = 1

\* Once boot_next_stage is called, every hart reaches the next stage, unless
\* the next stage interrupts one that is still on its way: that one may wait
\* for its own interrupt to vanish for ever (smp.h:45-49).
AllLaunch == (arg # NoEntry) ~> (Stray \/ \A h \in Harts : pc[h] = "jumped")

\* The protocol implements the abstract barrier: a hart arrives when it
\* consumes its interrupt.
Barrier == INSTANCE SmpBarrier
             WITH entry <- arg,
                  arrived <- {h \in Harts : pc[h] \in Consumed},
                  launched <- target

RefinesBarrier == Barrier!Spec

-----------------------------------------------------------------------------
(* The inductive invariant behind BarrierSafe and EntryAgreed.             *)

\* Only the non-SMP hart is ever in the boot ROM proper.
OneBootHart == \A h \in Harts : pc[h] \in BootPlaces \union {"raise"} => h = NonSmpHart

\* No interrupt before the first is raised, and nobody is awake.
QuietBefore ==
    pc[NonSmpHart] \in BootPlaces \union {"reset"} =>
        \A h \in Harts : msip[h] = 0 /\ (h = NonSmpHart \/ pc[h] \in {"reset", "wfi"})

\* While interrupts are raised in index order, those at or above the index
\* are untouched, those below are pending or consumed, and the non-SMP
\* hart's own, raised first, keeps everybody at position 0 of the scan.
Raising ==
    pc[NonSmpHart] = "raise" =>
        /\ \A h \in Harts :
              /\ idx[NonSmpHart] <= h =>
                    msip[h] = 0 /\ (h = NonSmpHart \/ pc[h] \in {"reset", "wfi"})
              /\ h < idx[NonSmpHart] => msip[h] = 1 \/ pc[h] = "scan"
              /\ pc[h] = "scan" => idx[h] = 0
              /\ pc[h] \notin PastScan
        /\ 0 < idx[NonSmpHart] => msip[NonSmpHart] = 1

\* Afterwards every interrupt is pending or consumed.
RaisedAll ==
    pc[NonSmpHart] \in {"wfi", "clear"} \union Consumed =>
        \A h \in Harts : msip[h] = 1 \/ pc[h] \in Consumed

PendingUntilCleared == \A h \in Harts : pc[h] = "clear" => msip[h] = 1

\* A hart has checked every hart below its scan index.
Scanned == \A h, k \in Harts : pc[h] = "scan" /\ k < idx[h] => pc[k] \in Consumed

\* The address halves between the store and the jump.
Published(r) == scratch[r] = IF r = 4 THEN arg[2] ELSE arg[1]
AddressFlow ==
    /\ pc[NonSmpHart] \in {"reset", "main"} => posted = {} /\ arg = NoEntry
    /\ pc[NonSmpHart] \notin {"reset", "main"} => arg \in Entries
    /\ pc[NonSmpHart] = "store_lo" => posted = {}
    /\ pc[NonSmpHart] = "store_hi" => 5 \notin posted /\ (4 \in posted \/ Published(4))
    /\ pc[NonSmpHart] = "fence" => \A r \in {4, 5} : r \in posted \/ Published(r)
    /\ pc[NonSmpHart] \in {"raise", "wfi", "clear"} \union Consumed =>
          posted = {} /\ Published(4) /\ Published(5)
    /\ \A h \in Harts : /\ pc[h] = "load_lo" => upper[h] = arg[1]
                        /\ pc[h] = "jumped" <=> target[h] # NoEntry
                        /\ target[h] # NoEntry => target[h] = arg

\* The next stage interrupts only after everybody has consumed the boot
\* interrupt (inductive relative to IInv).
LateIpis == ipis > 0 => \A h \in Harts : pc[h] \in Consumed

IInv == /\ TypeOK
        /\ OneBootHart
        /\ QuietBefore
        /\ Raising
        /\ RaisedAll
        /\ PendingUntilCleared
        /\ Scanned
        /\ BarrierSafe
        /\ AddressFlow
=============================================================================
