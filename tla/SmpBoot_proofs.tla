---------------------------- MODULE SmpBoot_proofs ----------------------------
(***************************************************************************)
(* Proofs about SmpBoot for any number of harts, any address halves and    *)
(* any next-stage behaviour.                                               *)
(***************************************************************************)
EXTENDS SmpBoot, TLAPS

USE SmpAssumption DEF NonSmpHart

\* The conjuncts of IInv about control alone.
Control == /\ OneBootHart
           /\ QuietBefore
           /\ Raising
           /\ RaisedAll
           /\ PendingUntilCleared
           /\ Scanned
           /\ BarrierSafe

LEMMA ZeroIsHart == 0 \in Harts
  BY DEF Harts

\* The halves of an address are halves.
LEMMA EntryHalves == ASSUME NEW a \in Entries PROVE a[1] \in Half /\ a[2] \in Half
  BY DEF Entries

LEMMA InitIInv == Init => IInv
  <1> SUFFICES ASSUME Init PROVE IInv
    OBVIOUS
  <1> USE ZeroIsHart DEF Init, Places, BootPlaces, Consumed, PastScan
  <1>1. TypeOK
    BY DEF TypeOK, Harts
  <1>2. Control
    BY DEF Control, OneBootHart, QuietBefore, Raising, RaisedAll, PendingUntilCleared,
           Scanned, BarrierSafe, Harts
  <1>3. AddressFlow
    BY DEF AddressFlow, Published, Entries
  <1> QED
    BY <1>1, <1>2, <1>3, Zenon DEF IInv, Control

\* Where an address exists and where posted stores can be.
LEMMA PostedHasEntry == ASSUME IInv, posted # {} PROVE arg \in Entries
  BY ZeroIsHart DEF IInv, AddressFlow

LEMMA PastScanHasEntry ==
  ASSUME IInv, NEW h \in Harts, pc[h] \in PastScan
  PROVE  arg \in Entries /\ posted = {} /\ Published(4) /\ Published(5)
  <1>1. pc[0] \in Consumed
    BY ZeroIsHart DEF IInv, BarrierSafe
  <1> QED
    BY <1>1 DEF IInv, AddressFlow, Consumed, PastScan

LEMMA PausePreserves ==
  ASSUME IInv, NEW h \in Harts, SmpPause(h) PROVE IInv'
  <1> USE ZeroIsHart DEF SmpPause, Goto, Places, BootPlaces, Consumed, PastScan
  <1>1. TypeOK'
    BY DEF IInv, TypeOK
  <1>2. Control'
    BY DEF IInv, TypeOK, Control, OneBootHart, QuietBefore, Raising, RaisedAll,
           PendingUntilCleared, Scanned, BarrierSafe, Harts
  <1>3. AddressFlow'
    BY DEF IInv, TypeOK, AddressFlow, Published
  <1> QED
    BY <1>1, <1>2, <1>3, Zenon DEF IInv, Control

LEMMA CallPreserves ==
  ASSUME IInv, NEW a \in Entries, CallNextStage(a) PROVE IInv'
  <1> USE ZeroIsHart DEF CallNextStage, Goto, Places, BootPlaces, Consumed, PastScan
  <1>1. TypeOK'
    BY DEF IInv, TypeOK
  <1>2. Control'
    BY DEF IInv, TypeOK, Control, OneBootHart, QuietBefore, Raising, RaisedAll,
           PendingUntilCleared, Scanned, BarrierSafe, Harts
  <1>3. AddressFlow'
    BY DEF IInv, TypeOK, AddressFlow, Published, QuietBefore
  <1> QED
    BY <1>1, <1>2, <1>3, Zenon DEF IInv, Control

LEMMA StorePreserves ==
  ASSUME IInv, StoreLo \/ StoreHi PROVE IInv'
  <1> USE ZeroIsHart DEF StoreLo, StoreHi, Goto, Places, BootPlaces, Consumed, PastScan
  <1>1. TypeOK'
    BY DEF IInv, TypeOK
  <1>2. Control'
    <2>1. CASE StoreLo
      BY <2>1 DEF IInv, TypeOK, Control, OneBootHart, QuietBefore, Raising, RaisedAll,
             PendingUntilCleared, Scanned, BarrierSafe, Harts
    <2>2. CASE StoreHi
      BY <2>2 DEF IInv, TypeOK, Control, OneBootHart, QuietBefore, Raising, RaisedAll,
             PendingUntilCleared, Scanned, BarrierSafe, Harts
    <2> QED
      BY <2>1, <2>2
  <1>3. AddressFlow'
    BY DEF IInv, TypeOK, AddressFlow, Published
  <1> QED
    BY <1>1, <1>2, <1>3, Zenon DEF IInv, Control

LEMMA PerformPreserves ==
  ASSUME IInv, NEW r \in {4, 5}, Perform(r) PROVE IInv'
  <1> USE ZeroIsHart DEF Perform
  <1>0. arg \in Entries /\ arg[1] \in Half /\ arg[2] \in Half
    BY PostedHasEntry, EntryHalves
  <1>1. TypeOK'
    BY <1>0 DEF IInv, TypeOK
  <1>2. Control'
    BY DEF IInv, Control, OneBootHart, QuietBefore, Raising, RaisedAll,
           PendingUntilCleared, Scanned, BarrierSafe
  <1>3. AddressFlow'
    BY <1>0 DEF IInv, TypeOK, AddressFlow, Published
  <1> QED
    BY <1>1, <1>2, <1>3, Zenon DEF IInv, Control

LEMMA FencePreserves ==
  ASSUME IInv, Fence PROVE IInv'
  <1> USE ZeroIsHart DEF Fence, Goto, Places, BootPlaces, Consumed, PastScan
  <1>1. TypeOK'
    BY DEF IInv, TypeOK
  <1>2. Control'
    BY DEF IInv, TypeOK, Control, OneBootHart, QuietBefore, Raising, RaisedAll,
           PendingUntilCleared, Scanned, BarrierSafe, Harts
  <1>3. AddressFlow'
    BY DEF IInv, TypeOK, AddressFlow, Published
  <1> QED
    BY <1>1, <1>2, <1>3, Zenon DEF IInv, Control

\* The two ways to take a step of a walk over the msip registers.
LEMMA AdvanceCases ==
  ASSUME TypeOK, NEW h \in Harts, NEW stay, NEW leave, Advance(h, stay, leave)
  PROVE  \/ /\ idx[h] + 1 \in Harts
            /\ idx' = [idx EXCEPT ![h] = idx[h] + 1]
            /\ pc' = [pc EXCEPT ![h] = stay]
         \/ /\ idx[h] = NumHarts - 1
            /\ idx' = idx
            /\ pc' = [pc EXCEPT ![h] = leave]
  <1>1. idx[h] \in 0 .. NumHarts - 1
    BY DEF TypeOK, Harts
  <1> QED
    BY <1>1 DEF Advance, Goto, Harts

\* While interrupts are raised nobody has left the scan, so a raised
\* interrupt cannot hit a hart that consumed an earlier one.
LEMMA RaisePreserves ==
  ASSUME IInv, RaiseIpi PROVE IInv'
  <1> USE ZeroIsHart DEF Places, BootPlaces, Consumed, PastScan
  <1>0. TypeOK /\ pc[0] = "raise" /\ msip' = [msip EXCEPT ![idx[0]] = 1]
        /\ Advance(0, "raise", "wfi") /\ UNCHANGED <<arg, posted, scratch, upper, target, ipis>>
    BY DEF IInv, RaiseIpi
  <1>1. CASE /\ idx[0] + 1 \in Harts
             /\ idx' = [idx EXCEPT ![0] = idx[0] + 1]
             /\ pc' = [pc EXCEPT ![0] = "raise"]
    <2>1. TypeOK'
      BY <1>0, <1>1 DEF TypeOK
    <2>2. Control'
      BY <1>0, <1>1 DEF IInv, TypeOK, Control, OneBootHart, QuietBefore, Raising, RaisedAll,
             PendingUntilCleared, Scanned, BarrierSafe, Harts
    <2>3. AddressFlow'
      BY <1>0, <1>1 DEF IInv, TypeOK, AddressFlow, Published
    <2> QED
      BY <2>1, <2>2, <2>3, Zenon DEF IInv, Control
  <1>2. CASE /\ idx[0] = NumHarts - 1
             /\ idx' = idx
             /\ pc' = [pc EXCEPT ![0] = "wfi"]
    <2>1. TypeOK'
      BY <1>0, <1>2 DEF TypeOK
    <2>2. Control'
      BY <1>0, <1>2 DEF IInv, TypeOK, Control, OneBootHart, QuietBefore, Raising, RaisedAll,
             PendingUntilCleared, Scanned, BarrierSafe, Harts
    <2>3. AddressFlow'
      BY <1>0, <1>2 DEF IInv, TypeOK, AddressFlow, Published
    <2> QED
      BY <2>1, <2>2, <2>3, Zenon DEF IInv, Control
  <1> QED
    BY <1>0, <1>1, <1>2, AdvanceCases

LEMMA WakeUpPreserves ==
  ASSUME IInv, NEW h \in Harts, WakeUp(h) PROVE IInv'
  <1> USE ZeroIsHart DEF WakeUp, Goto, Places, BootPlaces, Consumed, PastScan
  <1>1. TypeOK'
    BY DEF IInv, TypeOK
  <1>2. Control'
    BY DEF IInv, TypeOK, Control, OneBootHart, QuietBefore, Raising, RaisedAll,
           PendingUntilCleared, Scanned, BarrierSafe, Harts
  <1>3. AddressFlow'
    BY DEF IInv, TypeOK, AddressFlow, Published
  <1> QED
    BY <1>1, <1>2, <1>3, Zenon DEF IInv, Control

LEMMA ClearPreserves ==
  ASSUME IInv, NEW h \in Harts, ClearIpi(h) PROVE IInv'
  <1> USE ZeroIsHart DEF ClearIpi, Goto, Places, BootPlaces, Consumed, PastScan
  <1>1. TypeOK'
    BY DEF IInv, TypeOK
  <1>2. Control'
    BY DEF IInv, TypeOK, Control, OneBootHart, QuietBefore, Raising, RaisedAll,
           PendingUntilCleared, Scanned, BarrierSafe, Harts
  <1>3. AddressFlow'
    BY DEF IInv, TypeOK, AddressFlow, Published
  <1> QED
    BY <1>1, <1>2, <1>3, Zenon DEF IInv, Control

\* A hart that reads 0 at its scan index saw a consumed interrupt.
LEMMA ScannedIsConsumed ==
  ASSUME IInv, NEW h \in Harts, Scan(h) PROVE pc[idx[h]] \in Consumed /\ pc[0] # "raise"
  <1> USE ZeroIsHart DEF Scan, BootPlaces, Consumed, PastScan
  <1>1. idx[h] \in Harts
    BY DEF IInv, TypeOK
  <1>2. pc[0] # "raise"
    <2> SUFFICES ASSUME pc[0] = "raise" PROVE FALSE
      OBVIOUS
    <2>1. idx[h] = 0 /\ ~(0 < idx[0])
      BY DEF IInv, Raising
    <2>2. idx[0] = 0 /\ h # 0
      BY <2>1 DEF IInv, TypeOK, Harts
    <2>3. pc[h] \in {"reset", "wfi"}
      BY <2>2 DEF IInv, Raising, Harts
    <2> QED
      BY <2>3
  <1>3. pc[0] \notin BootPlaces \union {"reset"}
    BY DEF IInv, QuietBefore
  <1>4. pc[0] \in {"wfi", "clear"} \union Consumed
    BY <1>2, <1>3 DEF IInv, TypeOK, Places
  <1> QED
    BY <1>1, <1>2, <1>4 DEF IInv, RaisedAll, TypeOK

LEMMA ScanPreserves ==
  ASSUME IInv, NEW h \in Harts, Scan(h) PROVE IInv'
  <1> USE ZeroIsHart DEF Places, BootPlaces, Consumed, PastScan
  <1>0. TypeOK /\ pc[h] = "scan" /\ Advance(h, "scan", "load_hi")
        /\ UNCHANGED <<arg, posted, scratch, msip, upper, target, ipis>>
        /\ pc[idx[h]] \in Consumed /\ pc[0] # "raise"
    BY ScannedIsConsumed DEF IInv, Scan
  <1>1. CASE /\ idx[h] + 1 \in Harts
             /\ idx' = [idx EXCEPT ![h] = idx[h] + 1]
             /\ pc' = [pc EXCEPT ![h] = "scan"]
    <2>1. TypeOK'
      BY <1>0, <1>1 DEF TypeOK
    <2>2. Control'
      BY <1>0, <1>1 DEF IInv, TypeOK, Control, OneBootHart, QuietBefore, Raising, RaisedAll,
             PendingUntilCleared, Scanned, BarrierSafe, Harts
    <2>3. AddressFlow'
      BY <1>0, <1>1 DEF IInv, TypeOK, AddressFlow, Published
    <2> QED
      BY <2>1, <2>2, <2>3, Zenon DEF IInv, Control
  <1>2. CASE /\ idx[h] = NumHarts - 1
             /\ idx' = idx
             /\ pc' = [pc EXCEPT ![h] = "load_hi"]
    <2>1. TypeOK'
      BY <1>0, <1>2 DEF TypeOK
    <2>2. \A k \in Harts : pc[k] \in Consumed
      BY <1>0, <1>2 DEF IInv, TypeOK, Scanned, Harts
    <2>3. Control'
      BY <1>0, <1>2, <2>2 DEF IInv, TypeOK, Control, OneBootHart, QuietBefore, Raising, RaisedAll,
             PendingUntilCleared, Scanned, BarrierSafe, Harts
    <2>4. AddressFlow'
      BY <1>0, <1>2 DEF IInv, TypeOK, AddressFlow, Published
    <2> QED
      BY <2>1, <2>3, <2>4, Zenon DEF IInv, Control
  <1> QED
    BY <1>0, <1>1, <1>2, AdvanceCases

LEMMA LoadHiPreserves ==
  ASSUME IInv, NEW h \in Harts, LoadHi(h) PROVE IInv'
  <1> USE ZeroIsHart DEF LoadHi, Goto, Places, BootPlaces, Consumed, PastScan
  <1>0. arg \in Entries /\ posted = {} /\ Published(5)
    BY PastScanHasEntry
  <1>1. TypeOK'
    BY DEF IInv, TypeOK
  <1>2. Control'
    BY DEF IInv, TypeOK, Control, OneBootHart, QuietBefore, Raising, RaisedAll,
           PendingUntilCleared, Scanned, BarrierSafe, Harts
  <1>3. AddressFlow'
    BY <1>0 DEF IInv, TypeOK, AddressFlow, Published
  <1> QED
    BY <1>1, <1>2, <1>3, Zenon DEF IInv, Control

LEMMA JumpPreserves ==
  ASSUME IInv, NEW h \in Harts, LoadLoAndJump(h) PROVE IInv'
  <1> USE ZeroIsHart DEF LoadLoAndJump, Goto, Places, BootPlaces, Consumed, PastScan
  <1>0. arg \in Entries /\ posted = {} /\ Published(4)
    BY PastScanHasEntry
  <1>a. <<upper[h], scratch[4]>> = arg
    BY <1>0 DEF IInv, AddressFlow, Published, Entries
  <1>1. TypeOK'
    BY <1>0, <1>a DEF IInv, TypeOK
  <1>2. Control'
    BY DEF IInv, TypeOK, Control, OneBootHart, QuietBefore, Raising, RaisedAll,
           PendingUntilCleared, Scanned, BarrierSafe, Harts
  <1>b. target' = [target EXCEPT ![h] = arg] /\ arg # NoEntry
    BY <1>0, <1>a DEF Entries
  <1>3. AddressFlow'
    BY <1>0, <1>b DEF IInv, TypeOK, AddressFlow, Published
  <1> QED
    BY <1>1, <1>2, <1>3, Zenon DEF IInv, Control

\* The next stage runs only when every hart has consumed its interrupt.
LEMMA PayloadPreserves ==
  ASSUME IInv, NEW h \in Harts, NEW j \in Harts, PayloadIpi(h, j) \/ PayloadHandler(h)
  PROVE  IInv'
  <1> USE ZeroIsHart DEF PayloadIpi, PayloadHandler, Places, BootPlaces, Consumed, PastScan
  <1>0. \A k \in Harts : pc[k] \in Consumed
    BY DEF IInv, BarrierSafe
  <1>1. TypeOK'
    BY DEF IInv, TypeOK
  <1>2. Control'
    BY <1>0 DEF IInv, TypeOK, Control, OneBootHart, QuietBefore, Raising, RaisedAll,
           PendingUntilCleared, Scanned, BarrierSafe, Harts
  <1>3. AddressFlow'
    BY DEF IInv, TypeOK, AddressFlow, Published
  <1> QED
    BY <1>1, <1>2, <1>3, Zenon DEF IInv, Control

\* Every step, stuttering included, preserves the inductive invariant.
LEMMA StepIInv == IInv /\ [Next]_vars => IInv'
  <1> SUFFICES ASSUME IInv, [Next]_vars PROVE IInv'
    OBVIOUS
  <1>1. ASSUME NEW h \in Harts, SmpPause(h) PROVE IInv'
    BY <1>1, PausePreserves
  <1>2. ASSUME NEW a \in Entries, CallNextStage(a) PROVE IInv'
    BY <1>2, CallPreserves
  <1>3. CASE BootHart
    BY <1>3, StorePreserves, FencePreserves, RaisePreserves DEF BootHart
  <1>4. ASSUME NEW r \in {4, 5}, Perform(r) PROVE IInv'
    BY <1>4, PerformPreserves
  <1>5. ASSUME NEW h \in Harts, Resume(h) PROVE IInv'
    BY <1>5, WakeUpPreserves, ClearPreserves, ScanPreserves, LoadHiPreserves, JumpPreserves
       DEF Resume
  <1>6. ASSUME NEW h \in Harts, NEW j \in Harts, PayloadIpi(h, j) PROVE IInv'
    BY <1>6, PayloadPreserves
  <1>7. ASSUME NEW h \in Harts, PayloadHandler(h) PROVE IInv'
    BY <1>7, PayloadPreserves
  <1>8. CASE UNCHANGED vars
    BY <1>8 DEF vars, IInv, TypeOK, OneBootHart, QuietBefore, Raising, RaisedAll,
       PendingUntilCleared, Scanned, BarrierSafe, AddressFlow, Published
  <1> QED
    BY <1>1, <1>2, <1>3, <1>4, <1>5, <1>6, <1>7, <1>8 DEF Next

\* The inductive invariant holds of every behaviour.
THEOREM Invariance == Spec => []IInv
  BY InitIInv, StepIInv, PTL DEF Spec

\* Type correctness for any number of harts.
THEOREM TypeCorrect == Spec => []TypeOK
  <1>1. IInv => TypeOK
    BY DEF IInv
  <1> QED
    BY <1>1, Invariance, PTL

\* The barrier of smp_resume holds for any number of harts, whatever
\* interrupts the next stage sends.
THEOREM BarrierCorrect == Spec => []BarrierSafe
  <1>1. IInv => BarrierSafe
    BY DEF IInv
  <1> QED
    BY <1>1, Invariance, PTL

\* No hart ever jumps to a stale or half-updated address.
THEOREM EntryCorrect == Spec => []EntryAgreed
  <1>1. IInv => EntryAgreed
    BY DEF IInv, AddressFlow, EntryAgreed
  <1> QED
    BY <1>1, Invariance, PTL

LEMMA LateStep == IInv /\ LateIpis /\ [Next]_vars => LateIpis'
  <1> SUFFICES ASSUME IInv, LateIpis, [Next]_vars PROVE LateIpis'
    OBVIOUS
  <1> USE DEF LateIpis, Consumed, PastScan
  <1>1. ASSUME NEW h \in Harts, SmpPause(h) PROVE LateIpis'
    BY <1>1 DEF SmpPause, Goto, IInv, TypeOK
  <1>2. ASSUME NEW a \in Entries, CallNextStage(a) PROVE LateIpis'
    BY <1>2, ZeroIsHart DEF CallNextStage, Goto
  <1>3. CASE StoreLo \/ StoreHi \/ Fence
    BY <1>3, ZeroIsHart DEF StoreLo, StoreHi, Fence
  <1>4. CASE RaiseIpi
    BY <1>4, ZeroIsHart DEF RaiseIpi
  <1>5. ASSUME NEW r \in {4, 5}, Perform(r) PROVE LateIpis'
    BY <1>5 DEF Perform
  <1>6. ASSUME NEW h \in Harts, WakeUp(h) \/ ClearIpi(h) PROVE LateIpis'
    BY <1>6 DEF WakeUp, ClearIpi
  <1>7. ASSUME NEW h \in Harts, Scan(h) PROVE LateIpis'
    <2>1. pc' = [pc EXCEPT ![h] = "scan"] \/ pc' = [pc EXCEPT ![h] = "load_hi"]
      BY <1>7 DEF Scan, Advance, Goto
    <2> QED
      BY <1>7, <2>1 DEF Scan, IInv, TypeOK
  <1>8. ASSUME NEW h \in Harts, LoadHi(h) \/ LoadLoAndJump(h) PROVE LateIpis'
    BY <1>8 DEF LoadHi, LoadLoAndJump, Goto, IInv, TypeOK
  <1>9. ASSUME NEW h \in Harts, NEW j \in Harts, PayloadIpi(h, j) PROVE LateIpis'
    BY <1>9 DEF PayloadIpi, IInv, BarrierSafe
  <1>10. ASSUME NEW h \in Harts, PayloadHandler(h) PROVE LateIpis'
    BY <1>10 DEF PayloadHandler
  <1>11. CASE UNCHANGED vars
    BY <1>11 DEF vars
  <1> QED
    BY <1>1, <1>2, <1>3, <1>4, <1>5, <1>6, <1>7, <1>8, <1>9, <1>10, <1>11
       DEF Next, BootHart, Resume

THEOREM LateCorrect == Spec => []LateIpis
  <1>1. Init => LateIpis
    BY DEF Init, LateIpis
  <1> QED
    BY <1>1, LateStep, Invariance, PTL DEF Spec

\* An interrupt register falls only when its own hart clears it.
LEMMA FallingIpi ==
  ASSUME IInv, [Next]_vars, NEW h \in Harts, msip[h] = 1, msip'[h] = 0
  PROVE  pc[h] \in {"clear", "jumped"}
  <1> USE DEF IInv, TypeOK
  <1>1. ASSUME NEW g \in Harts, SmpPause(g) PROVE FALSE
    BY <1>1 DEF SmpPause
  <1>2. ASSUME NEW a \in Entries, CallNextStage(a) PROVE FALSE
    BY <1>2 DEF CallNextStage
  <1>3. CASE BootHart
    BY <1>3 DEF BootHart, StoreLo, StoreHi, Fence, RaiseIpi
  <1>4. ASSUME NEW r \in {4, 5}, Perform(r) PROVE FALSE
    BY <1>4 DEF Perform
  <1>5. ASSUME NEW g \in Harts, Resume(g) PROVE pc[h] = "clear"
    BY <1>5 DEF Resume, WakeUp, ClearIpi, Scan, LoadHi, LoadLoAndJump
  <1>6. ASSUME NEW g \in Harts, NEW j \in Harts, PayloadIpi(g, j) PROVE FALSE
    BY <1>6 DEF PayloadIpi
  <1>7. ASSUME NEW g \in Harts, PayloadHandler(g) PROVE pc[h] = "jumped"
    BY <1>7 DEF PayloadHandler
  <1>8. CASE UNCHANGED vars
    BY <1>8 DEF vars
  <1> QED
    BY <1>1, <1>2, <1>3, <1>4, <1>5, <1>6, <1>7, <1>8 DEF Next

\* No interrupt of the next stage is taken for the boot interrupt.
THEOREM IpiCorrect == Spec => NoIpiSwallowed
  <1>1. ASSUME IInv, LateIpis, [Next]_vars,
               NEW h \in Harts, msip[h] = 1, msip'[h] = 0, ipis > 0
        PROVE  pc[h] = "jumped"
    <2>1. pc[h] \in {"clear", "jumped"}
      BY <1>1, FallingIpi
    <2>2. pc[h] \in Consumed
      BY <1>1 DEF LateIpis
    <2> QED
      BY <2>1, <2>2 DEF Consumed, PastScan
  <1>2. IInv /\ LateIpis /\ [Next]_vars =>
          [\A h \in Harts : msip[h] = 1 /\ msip'[h] = 0 /\ ipis > 0 => pc[h] = "jumped"]_vars
    BY <1>1
  <1> QED
    BY <1>2, Invariance, LateCorrect, PTL DEF Spec, NoIpiSwallowed

-----------------------------------------------------------------------------
(* Refinement of the abstract barrier.                                     *)

USE DEF Barrier!Publish, Barrier!Arrive, Barrier!Launch

LEMMA InitRefines == Init => Barrier!Init
  BY DEF Init, Barrier!Init, Consumed, PastScan

\* A step that leaves the published entry, the arrived harts and the jump
\* targets alone is a stutter of the barrier.
LEMMA StutterRefines ==
  ASSUME UNCHANGED <<arg, target>>,
         \A h \in Harts : pc'[h] \in Consumed <=> pc[h] \in Consumed
  PROVE  UNCHANGED Barrier!vars
  BY DEF Barrier!vars

LEMMA StepRefines == IInv /\ [Next]_vars => [Barrier!Next]_(Barrier!vars)
  <1> SUFFICES ASSUME IInv, [Next]_vars PROVE Barrier!Next \/ UNCHANGED Barrier!vars
    OBVIOUS
  <1> USE ZeroIsHart DEF IInv, TypeOK
  <1>1. ASSUME NEW h \in Harts, SmpPause(h) PROVE UNCHANGED Barrier!vars
    BY <1>1, StutterRefines DEF SmpPause, Goto, Consumed, PastScan
  <1>2. ASSUME NEW a \in Entries, CallNextStage(a) PROVE Barrier!Publish(a)
    <2>1. arg = NoEntry
      BY <1>2 DEF CallNextStage, AddressFlow
    <2>2. \A h \in Harts : pc'[h] \in Consumed <=> pc[h] \in Consumed
      BY <1>2 DEF CallNextStage, Goto, Consumed, PastScan
    <2> QED
      BY <1>2, <2>1, <2>2 DEF CallNextStage
  <1>3. CASE StoreLo \/ StoreHi \/ Fence
    BY <1>3, StutterRefines DEF StoreLo, StoreHi, Fence, Goto, Consumed, PastScan
  <1>4. CASE RaiseIpi
    <2>1. pc[0] = "raise" /\ UNCHANGED <<arg, target>>
          /\ (pc' = [pc EXCEPT ![0] = "raise"] \/ pc' = [pc EXCEPT ![0] = "wfi"])
      BY <1>4 DEF RaiseIpi, Advance, Goto
    <2> QED
      BY <2>1, StutterRefines DEF Consumed, PastScan
  <1>5. ASSUME NEW r \in {4, 5}, Perform(r) PROVE UNCHANGED Barrier!vars
    BY <1>5, StutterRefines DEF Perform
  <1>6. ASSUME NEW h \in Harts, WakeUp(h) PROVE UNCHANGED Barrier!vars
    BY <1>6, StutterRefines DEF WakeUp, Goto, Consumed, PastScan
  <1>7. ASSUME NEW h \in Harts, ClearIpi(h) PROVE Barrier!Arrive(h)
    <2>1. arg # NoEntry
      <3>1. pc[0] \notin {"reset", "main"}
        BY <1>7 DEF ClearIpi, PendingUntilCleared, QuietBefore, BootPlaces
      <3>2. arg \in Entries
        BY <3>1 DEF AddressFlow
      <3> QED
        BY <3>2 DEF Entries
    <2>2. pc[h] = "clear" /\ pc' = [pc EXCEPT ![h] = "scan"] /\ UNCHANGED <<arg, target>>
      BY <1>7 DEF ClearIpi, Goto
    <2>3. {k \in Harts : pc'[k] \in Consumed} = {k \in Harts : pc[k] \in Consumed} \union {h}
      BY <2>2 DEF Consumed, PastScan
    <2> QED
      BY <2>1, <2>2, <2>3 DEF Consumed, PastScan
  <1>8. ASSUME NEW h \in Harts, Scan(h) PROVE UNCHANGED Barrier!vars
    <2>1. pc[h] = "scan" /\ UNCHANGED <<arg, target>>
          /\ (pc' = [pc EXCEPT ![h] = "scan"] \/ pc' = [pc EXCEPT ![h] = "load_hi"])
      BY <1>8 DEF Scan, Advance, Goto
    <2> QED
      BY <2>1, StutterRefines DEF Consumed, PastScan
  <1>9. ASSUME NEW h \in Harts, LoadHi(h) PROVE UNCHANGED Barrier!vars
    BY <1>9, StutterRefines DEF LoadHi, Goto, Consumed, PastScan
  <1>10. ASSUME NEW h \in Harts, LoadLoAndJump(h) PROVE Barrier!Launch(h)
    <2>1. pc[h] = "load_lo" /\ pc' = [pc EXCEPT ![h] = "jumped"] /\ UNCHANGED arg
          /\ target' = [target EXCEPT ![h] = <<upper[h], scratch[4]>>]
      BY <1>10 DEF LoadLoAndJump, Goto
    <2>2. \A k \in Harts : pc[k] \in Consumed
      BY <2>1 DEF BarrierSafe, PastScan
    <2>3. <<upper[h], scratch[4]>> = arg
      BY <2>1, PastScanHasEntry DEF AddressFlow, Published, Entries, PastScan
    <2>4. target[h] = NoEntry
      BY <2>1 DEF AddressFlow
    <2>5. \A k \in Harts : pc'[k] \in Consumed
      BY <2>1, <2>2 DEF Consumed, PastScan
    <2> QED
      BY <2>1, <2>2, <2>3, <2>4, <2>5
  <1>11. ASSUME NEW h \in Harts, NEW j \in Harts, PayloadIpi(h, j)
         PROVE  UNCHANGED Barrier!vars
    BY <1>11, StutterRefines DEF PayloadIpi
  <1>12. ASSUME NEW h \in Harts, PayloadHandler(h) PROVE UNCHANGED Barrier!vars
    BY <1>12, StutterRefines DEF PayloadHandler
  <1>13. CASE UNCHANGED vars
    BY <1>13, StutterRefines DEF vars
  <1> QED
    BY <1>1, <1>2, <1>3, <1>4, <1>5, <1>6, <1>7, <1>8, <1>9, <1>10, <1>11, <1>12, <1>13
       DEF Next, BootHart, Resume, Barrier!Next

\* smp_pause and smp_resume implement the abstract barrier.
THEOREM BootRefinesBarrier == Spec => RefinesBarrier
  BY InitRefines, StepRefines, Invariance, PTL DEF Spec, Barrier!Spec, RefinesBarrier
=============================================================================
