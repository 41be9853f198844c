----------------------------- MODULE SdCard_proofs -----------------------------
(***************************************************************************)
(* Proofs about SdCard for any block size, disk, budgets, requests and     *)
(* faults: a read keeps to its buffer; a call that succeeds leaves the     *)
(* card released, has read the bytes it was asked for, and has written     *)
(* every block it was given; and no call goes on for longer than its polls *)
(* allow.                                                                  *)
(***************************************************************************)
EXTENDS SdCard, TLAPS

Requests == Reads \union RawReads \union Writes \union {NoReq}
InitSet == {"CMD0", "CMD8", "CMD55", "ACMD41", "CMD58", "CMD16"}
Waits == {"CMD12", "wait", "stop"}

Types == /\ req \in Requests /\ b \in Nat
         /\ pc \in {"off", "idle", "send", "r1", "r1b", "token", "block", "wblock", "free"}
         /\ owes \in {"none", "one", "many", "write"}
         /\ sel \in BOOLEAN /\ busy \in BOOLEAN /\ alive \in BOOLEAN

\* The command that can be under way at each place, and what its request is.
Commands ==
    /\ pc \in {"send", "r1"} => cmd \in InitSet \union ReadCmds \union WriteCmds \union Waits
    /\ pc = "send" => cmd # "wait"
    /\ pc = "r1b" => cmd \in Waits
    /\ pc \in {"token", "block"} => cmd \in ReadCmds /\ b < LenBlocks(req)
    /\ pc = "wblock" => cmd \in WriteCmds \union {"wait"}
    /\ pc \in {"send", "r1", "token", "block"} /\ cmd \in ReadCmds =>
          /\ req \in Reads \union RawReads /\ req.len > 0
          /\ cmd = "CMD17" <=> LenBlocks(req) = 1
    /\ pc \in {"send", "r1", "wblock"} /\ cmd \in WriteCmds => req \in Writes /\ req.len > 0
    /\ pc \in {"send", "r1", "r1b", "wblock"} /\ cmd \in {"wait", "stop"} => req \in Writes /\ req.len > 0
    /\ pc \in {"send", "r1", "r1b"} /\ cmd = "CMD12" => req \in Reads \union RawReads /\ LenBlocks(req) > 1

\* A card is only busy while the driver waits for it, or after the call failed.
BusyKnown == busy => \/ pc \in {"r1", "r1b"} /\ cmd \in Waits
                     \/ pc = "idle" /\ ret = "error" /\ req.op # "sig"

\* The card's transfer is over when the driver takes it to be.
TransferOver ==
    /\ pc \in {"off", "free"} \/ (pc = "idle" /\ ret = "ok") => owes = "none"
    /\ pc \in {"send", "r1"} /\ cmd \in InitSet => owes = "none"
    /\ pc \in {"send", "r1", "token", "block"} /\ cmd = "CMD17" => owes \in {"none", "one"}
    /\ pc = "idle" /\ ret = "error" /\ req.op = "sig" => owes \in {"none", "one"}
    /\ pc = "r1" /\ cmd = "CMD12" => owes = "none" \/ ~alive
    /\ pc = "r1" /\ cmd = "stop" => owes = "none" \/ (~alive /\ ~busy)
    /\ pc = "r1b" /\ cmd # "wait" => owes = "none"
    /\ pc \in {"r1", "r1b"} /\ cmd = "wait" /\ LenBlocks(req) = 1 => owes = "none"

Deselected == pc = "idle" /\ ret = "ok" => ~sel

IInv == Types /\ Commands /\ BusyKnown /\ TransferOver /\ Deselected /\ BufferFenced

-----------------------------------------------------------------------------
(* Geometry.                                                               *)

LEMMA Division ==
  ASSUME NEW m \in Nat \ {0}, NEW a \in Nat
  PROVE  a \div m \in Nat /\ a % m \in 0 .. m - 1 /\ a = m * (a \div m) + (a % m)
  OBVIOUS

LEMMA Unique ==
  ASSUME NEW m \in Nat \ {0}, NEW x \in Int, NEW y \in Int,
         NEW c \in 0 .. m - 1, NEW d \in 0 .. m - 1, m * x + c = m * y + d
  PROVE  x = y
  <1>1. ASSUME NEW u \in Int, NEW v \in Int, u + 1 <= v PROVE m * u + m <= m * v
    <2>1. m * (u + 1) <= m * v
      BY <1>1
    <2>2. m * (u + 1) = m * u + m
      OBVIOUS
    <2> QED
      BY <2>1, <2>2
  <1>2. m * x \in Int /\ m * y \in Int
    OBVIOUS
  <1>3. ~(x + 1 <= y)
    BY <1>1, <1>2
  <1>4. ~(y + 1 <= x)
    BY <1>1, <1>2
  <1> QED
    BY <1>3, <1>4

LEMMA Constants ==
  /\ BlockSize \in Nat \ {0} /\ NoBusy \in BOOLEAN
  /\ \A r \in Reads \union RawReads \union Writes : r.addr \in Nat /\ r.len \in Nat
  /\ \A r \in Reads \union RawReads : r.op # "write"
  /\ \A w \in Writes : w.op = "write"
  BY SdAssumption

\* The last block of a read ends where the read does.
LEMMA Geometry ==
  ASSUME NEW r \in Reads \union RawReads, r.len > 0
  PROVE  /\ LenBlocks(r) \in Nat \ {0} /\ FirstOffs(r) \in 0 .. BlockSize - 1
         /\ LastLen(r) \in 1 .. BlockSize
         /\ BlockSize * (LenBlocks(r) - 1) + LastLen(r) = FirstOffs(r) + r.len
  <1> DEFINE m == BlockSize
             a == r.addr
             n == r.len
             f == a % m
             t == (a + n) % m
             q0 == a \div m
             q1 == (a + n) \div m
             k == (n + f + m - 1) \div m
             s == (n + f + m - 1) % m
  <1>1. m \in Nat \ {0} /\ a \in Nat /\ n \in Nat \ {0} /\ r.op # "write"
    BY Constants
  <1>2. /\ q0 \in Nat /\ f \in 0 .. m - 1 /\ a = m * q0 + f
        /\ q1 \in Nat /\ t \in 0 .. m - 1 /\ a + n = m * q1 + t
    <2>1. a + n \in Nat
      BY <1>1
    <2> HIDE DEF m, a, n
    <2> QED
      BY <1>1, <2>1, Division
  <1>3. k \in Nat /\ s \in 0 .. m - 1 /\ n + f + m - 1 = m * k + s
    <2>1. n + f + m - 1 \in Nat
      <3> HIDE DEF m, a, n, f
      <3> QED
        BY <1>1, <1>2
    <2> HIDE DEF m, a, n, f
    <2> QED
      BY <1>1, <2>1, Division
  <1>4. LenBlocks(r) = k /\ FirstOffs(r) = f /\ LastLen(r) = IF t = 0 THEN m ELSE t
    BY <1>1 DEF LenBlocks, FirstOffs, LastLen
  <1> HIDE DEF m, a, n, f, t, q0, q1, k, s
  <1>5. m * (q1 - q0) = m * q1 - m * q0 /\ m * (q1 - q0 + 1) = m * q1 - m * q0 + m
        /\ m * (k - 1) = m * k - m /\ m * q0 \in Int /\ m * q1 \in Int /\ m * k \in Int
    BY <1>1, <1>2, <1>3
  <1>6. k # 0
    BY <1>1, <1>2, <1>3
  <1>7. CASE t = 0
    <2>1. m * (q1 - q0) + (m - 1) = m * k + s
      BY <1>1, <1>2, <1>3, <1>5, <1>7
    <2>2. k = q1 - q0
      BY <1>1, <1>2, <1>3, <2>1, Unique
    <2>3. m * (k - 1) + m = f + n
      BY <1>1, <1>2, <1>3, <1>5, <1>7, <2>2
    <2> QED
      BY <1>1, <1>2, <1>3, <1>4, <1>6, <1>7, <2>3 DEF m, n
  <1>8. CASE t # 0
    <2>1. m * (q1 - q0 + 1) + (t - 1) = m * k + s
      BY <1>1, <1>2, <1>3, <1>5, <1>8
    <2>2. k = q1 - q0 + 1
      BY <1>1, <1>2, <1>3, <1>8, <2>1, Unique
    <2>3. m * (k - 1) + t = f + n
      BY <1>1, <1>2, <1>3, <1>5, <1>8, <2>2
    <2> QED
      BY <1>1, <1>2, <1>3, <1>4, <1>6, <1>8, <2>3 DEF m, n
  <1> QED
    BY <1>7, <1>8

LEMMA SignatureInOneBlock ==
  ASSUME NEW r \in Reads \union RawReads, r.op = "sig"
  PROVE  LenBlocks(r) = 1
  <1> DEFINE m == BlockSize
             f == FirstOffs(r)
             n == r.len
             k == LenBlocks(r)
  <1>1. m \in Nat \ {0} /\ n \in Nat /\ n > 0 /\ f + n <= m
    BY SdAssumption DEF FirstOffs
  <1>2. k \in Nat \ {0} /\ LastLen(r) \in 1 .. m /\ f \in 0 .. m - 1 /\ m * (k - 1) + LastLen(r) = f + n
    BY <1>1, Geometry
  <1> HIDE DEF m, f, n, k
  <1>3. ASSUME k >= 2 PROVE FALSE
    <2>1. m * (k - 1) >= m /\ m * (k - 1) \in Int
      BY <1>1, <1>2, <1>3
    <2> QED
      BY <1>1, <1>2, <2>1
  <1> QED
    BY <1>2, <1>3 DEF k

\* A block's part lies inside the buffer.
LEMMA PartInside ==
  ASSUME NEW r \in Reads \union RawReads, r.len > 0, NEW n \in Nat, n < LenBlocks(r),
         NEW i \in Int,
         i - (n * BlockSize - FirstOffs(r)) \in Part(r, n)[1] .. Part(r, n)[2] - 1
  PROVE  i \in 0 .. r.len - 1
  <1> DEFINE m == BlockSize
             f == FirstOffs(r)
             k == LenBlocks(r)
             t == LastLen(r)
             len == r.len
             x == n * m
  <1>1. /\ m \in Nat \ {0} /\ k \in Nat \ {0} /\ f \in 0 .. m - 1 /\ t \in 1 .. m
        /\ m * (k - 1) + t = f + len /\ len \in Nat
    BY Geometry, Constants
  <1>2. i - (x - f) >= (IF n = 0 THEN f ELSE 0) /\ i - (x - f) <= (IF n = k - 1 THEN t ELSE m) - 1
    BY <1>1 DEF Part
  <1>3. n < k
    OBVIOUS
  <1> HIDE DEF f, m, k, t, len
  <1>4. x \in Nat /\ (n = 0 => x = 0) /\ (n > 0 => x >= m)
    BY <1>1
  <1>5. n = k - 1 => x = m * (k - 1)
    BY <1>1
  <1>6. n # k - 1 => x + m <= m * (k - 1)
    <2> SUFFICES ASSUME n # k - 1 PROVE x + m <= m * (k - 1)
      OBVIOUS
    <2>1. n + 1 <= k - 1
      BY <1>1, <1>3
    <2>2. m * (n + 1) <= m * (k - 1)
      BY <1>1, <2>1
    <2>3. m * (n + 1) = x + m
      BY <1>1
    <2> QED
      BY <2>2, <2>3
  <1>7. m * (k - 1) \in Int
    BY <1>1
  <1> HIDE DEF x
  <1>8. 0 <= i
    BY <1>1, <1>2, <1>4
  <1>9. i <= len - 1
    BY <1>1, <1>2, <1>3, <1>4, <1>5, <1>6, <1>7
  <1> QED
    BY <1>1, <1>8, <1>9 DEF len

-----------------------------------------------------------------------------
(* Commands.                                                               *)

LEMMA InitInv == Init => IInv
  <1> SUFFICES ASSUME Init PROVE IInv
    OBVIOUS
  <1>1. req = NoReq /\ pc = "off" /\ owes = "none" /\ b = 0 /\ ret = "none"
        /\ (\A i \in Window : buf[i] = Old)
    BY DEF Init
  <1>2. sel = FALSE /\ busy = FALSE /\ alive = TRUE
    BY Zenon DEF Init
  <1>3. Types
    <2>1. sel \in BOOLEAN /\ busy \in BOOLEAN /\ alive \in BOOLEAN
      BY <1>2, Zenon
    <2> QED
      BY <1>1, <2>1 DEF Types, Requests
  <1> QED
    BY <1>1, <1>2, <1>3 DEF IInv, Commands, BusyKnown, TransferOver, Deselected, BufferFenced

\* Reads are not writes.
LEMMA Names ==
  ASSUME cmd \in InitSet \union ReadCmds \union WriteCmds \union Waits
  PROVE  /\ cmd \in ReadCmds <=> cmd \in {"CMD17", "CMD18"}
         /\ cmd \in WriteCmds <=> cmd \in {"CMD24", "CMD25"}
         /\ cmd \in Waits <=> cmd \in {"CMD12", "wait", "stop"}
  BY DEF ReadCmds, WriteCmds, Waits

LEMMA BufferKept == ASSUME BufferFenced, UNCHANGED <<buf, req>> PROVE BufferFenced'
  BY DEF BufferFenced

\* A poll, or the card's own steps: the driver stays where it is.
LEMMA SamePlace ==
  ASSUME IInv, UNCHANGED <<pc, cmd, req, b, buf, ret, sel>>, owes' = owes,
         alive' \in BOOLEAN, busy' \in BOOLEAN, busy' => busy, alive' => alive
  PROVE  IInv'
  <1>1. Types'
    BY DEF IInv, Types
  <1>2. Commands'
    BY DEF IInv, Commands
  <1>3. BusyKnown' /\ TransferOver' /\ Deselected'
    BY DEF IInv, BusyKnown, TransferOver, Deselected
  <1> QED
    BY <1>1, <1>2, <1>3, BufferKept DEF IInv

\* An error return.
LEMMA FailPreserves ==
  ASSUME IInv, pc \in {"r1", "r1b", "token", "block", "wblock"}, Fail,
         UNCHANGED <<req, cmd, sel, alive>>, b' \in Nat, busy' \in BOOLEAN,
         busy' => busy \/ pc = "wblock",
         owes' \in {"none", "one", "many", "write"}, owes' \in {owes, "none"},
         BufferFenced'
  PROVE  IInv'
  <1>1. pc' = "idle" /\ ret' = "error"
    BY DEF Fail
  <1>2. Types'
    BY <1>1 DEF IInv, Types
  <1>3. Commands' /\ Deselected'
    BY <1>1 DEF Commands, Deselected, ReadCmds, WriteCmds
  <1>4. /\ req \in Writes => req.op # "sig"
        /\ req \in Reads \union RawReads /\ LenBlocks(req) > 1 => req.op # "sig"
        /\ req \in Reads \union RawReads /\ req.op = "sig" => LenBlocks(req) = 1
    BY Constants, SignatureInOneBlock
  <1>5. busy' => req.op # "sig"
    BY <1>4 DEF IInv, BusyKnown, Commands, Waits, WriteCmds
  <1>6. req.op = "sig" => owes \in {"none", "one"}
    BY <1>4 DEF IInv, Commands, TransferOver, Waits, WriteCmds, ReadCmds, InitSet
  <1>7. BusyKnown' /\ TransferOver'
    BY <1>1, <1>5, <1>6 DEF BusyKnown, TransferOver
  <1> QED
    BY <1>2, <1>3, <1>7 DEF IInv

-----------------------------------------------------------------------------
(* Steps.                                                                  *)

LEMMA SendCmdPreserves == ASSUME IInv, SendCmd PROVE IInv'
  <1>1. pc = "send" /\ pc' = "r1" /\ UNCHANGED <<cmd, req, b, buf, ret, alive>> /\ sel' = TRUE
        /\ CardHears(cmd)
    BY DEF SendCmd
  <1>2. ~busy
    BY <1>1 DEF IInv, BusyKnown
  <1>3. cmd \in InitSet \union ReadCmds \union WriteCmds \union Waits
    BY <1>1 DEF IInv, Commands
  <1>4. CASE ~alive \/ (owes # "none" /\ cmd \notin {"CMD12", "stop"})
    <2>1. owes' = owes /\ busy' = busy
      BY <1>1, <1>4 DEF CardHears
    <2>2. Types'
      BY <1>1, <2>1 DEF IInv, Types
    <2>3. Commands'
      BY <1>1 DEF IInv, Commands
    <2>4. TransferOver'
      BY <1>1, <1>2, <1>4, <2>1 DEF IInv, Commands, TransferOver, InitSet, WriteCmds
    <2> QED
      BY <1>1, <1>2, <2>1, <2>2, <2>3, <2>4, BufferKept DEF IInv, BusyKnown, Deselected
  <1>5. CASE alive /\ ~(owes # "none" /\ cmd \notin {"CMD12", "stop"})
    <2>1. /\ cmd \in {"CMD12", "stop"} => owes' = "none" /\ busy' \in BOOLEAN
          /\ cmd = "CMD17" => owes' = "one"
          /\ cmd = "CMD18" => owes' = "many"
          /\ cmd \in WriteCmds => owes' = "write"
          /\ cmd \notin {"CMD12", "stop", "CMD17", "CMD18"} \union WriteCmds => owes' = "none"
          /\ cmd \notin {"CMD12", "stop"} => ~busy' /\ busy' \in BOOLEAN
      BY <1>1, <1>2, <1>5, Constants DEF CardHears, WriteCmds
    <2>2. owes' \in {"none", "one", "many", "write"} /\ busy' \in BOOLEAN
      BY <1>3, <2>1 DEF WriteCmds
    <2>3. Types'
      BY <1>1, <2>2 DEF IInv, Types
    <2>4. Commands'
      BY <1>1 DEF IInv, Commands
    <2>5. BusyKnown'
      BY <1>1, <2>1 DEF BusyKnown, Waits
    <2>6. TransferOver'
      BY <1>1, <2>1 DEF IInv, Commands, TransferOver, InitSet, WriteCmds
    <2> QED
      BY <1>1, <2>3, <2>4, <2>5, <2>6, BufferKept DEF IInv, Deselected
  <1> QED
    BY <1>4, <1>5

\* Budgets that run out, errors and polls.
LEMMA PollsPreserve ==
  ASSUME IInv, R1Timeout \/ R1Gap \/ BusyTimeout \/ BusyPoll \/ TokenTimeout \/ TokenGap
               \/ TokenError \/ CardReady \/ CardDone \/ CardDies
  PROVE  IInv'
  <1>1. busy \in BOOLEAN /\ alive \in BOOLEAN /\ owes \in {"none", "one", "many", "write"} /\ b \in Nat
        /\ BufferFenced
    BY DEF IInv, Types
  <1>2. ASSUME R1Timeout \/ BusyTimeout \/ TokenTimeout \/ TokenError PROVE IInv'
    <2>1. /\ Fail /\ pc \in {"r1", "r1b", "token"} /\ owes' \in {owes, "none"}
          /\ UNCHANGED <<req, cmd, b, buf, sel, alive, busy>>
      BY <1>2 DEF R1Timeout, BusyTimeout, TokenTimeout, TokenError, cardVars
    <2>2. owes' \in {"none", "one", "many", "write"} /\ BufferFenced'
      BY <1>1, <2>1, BufferKept
    <2> QED
      BY <1>1, <2>1, <2>2, FailPreserves
  <1>3. ASSUME R1Gap \/ BusyPoll \/ TokenGap \/ CardReady PROVE IInv'
    <2>1. UNCHANGED <<pc, cmd, req, b, buf, ret, sel, owes, alive, busy>>
      BY <1>3 DEF R1Gap, BusyPoll, TokenGap, CardReady, drvVars, cardVars
    <2> QED
      BY <1>1, <2>1, SamePlace
  <1>4. CASE CardDone
    <2>1. UNCHANGED <<pc, cmd, req, b, buf, ret, sel, owes, alive>> /\ busy' = FALSE
      BY <1>4 DEF CardDone, drvVars
    <2> QED
      BY <1>1, <2>1, SamePlace
  <1>5. CASE CardDies
    <2>1. UNCHANGED <<pc, cmd, req, b, buf, ret, sel, owes, busy>> /\ alive' = FALSE
      BY <1>5 DEF CardDies, drvVars
    <2> QED
      BY <1>1, <2>1, SamePlace
  <1> QED
    BY <1>2, <1>3, <1>4, <1>5

LEMMA InitNextKnown ==
  ASSUME NEW c \in InitSet \ {"CMD16"}
  PROVE  InitNext(c) \in InitSet
  <1>1. DOMAIN InitCmds = 1 .. 6 /\ \A i \in 1 .. 6 : InitCmds[i] \in InitSet
    BY DEF InitCmds, InitSet
  <1>2. \E i \in 1 .. 5 : InitCmds[i] = c
    BY DEF InitCmds, InitSet
  <1>3. InitCmds[6] # c
    BY DEF InitCmds
  <1>4. \A i \in 1 .. 6 : InitCmds[i] = c => i \in 1 .. 5
    BY <1>3
  <1> DEFINE k == CHOOSE i \in DOMAIN InitCmds : InitCmds[i] = c
  <1>5. k \in 1 .. 6 /\ InitCmds[k] = c
    BY <1>1, <1>2
  <1>6. k + 1 \in 1 .. 6
    <2> HIDE DEF k
    <2>1. k \in 1 .. 5
      BY <1>4, <1>5
    <2> QED
      BY <2>1
  <1> QED
    BY <1>1, <1>6 DEF InitNext

LEMMA InitResponsePreserves ==
  ASSUME IInv, NEW r, InitResponse(r) PROVE IInv'
  <1>1. pc = "r1" /\ cmd \in InitSet /\ sel' = FALSE /\ UNCHANGED <<req, b, buf, owes, busy, alive>>
    BY DEF InitResponse, InitCmds, InitSet
  <1>2. owes = "none" /\ ~busy
    BY <1>1 DEF IInv, TransferOver, BusyKnown, Waits, InitSet
  <1>3. \/ pc' = "idle" /\ ret' \in {"error", "ok"}
        \/ pc' = "send" /\ cmd' \in InitSet
    <2>1. CASE cmd = "CMD16"
      BY <2>1 DEF InitResponse, Fail
    <2>2. CASE cmd # "CMD16"
      <3>1. InitNext(cmd) \in InitSet /\ "CMD55" \in InitSet
        BY <1>1, <2>2, InitNextKnown DEF InitSet
      <3> QED
        BY <2>2, <3>1 DEF InitResponse, Fail
    <2> QED
      BY <2>1, <2>2
  <1>4. Types'
    BY <1>1, <1>3 DEF IInv, Types
  <1>5. Commands'
    BY <1>3 DEF Commands, InitSet, ReadCmds, WriteCmds
  <1>6. BusyKnown' /\ TransferOver' /\ Deselected'
    BY <1>1, <1>2, <1>3 DEF BusyKnown, TransferOver, Deselected, InitSet
  <1> QED
    BY <1>1, <1>4, <1>5, <1>6, BufferKept DEF IInv

LEMMA ResponsesPreserve ==
  ASSUME IInv, DataResponse \/ BusyResponse PROVE IInv'
  <1>1. CASE DataResponse
    <2>1. /\ pc = "r1" /\ cmd \in ReadCmds \union WriteCmds /\ b' = 0
          /\ UNCHANGED <<cmd, req, buf, ret, sel, owes, busy, alive>>
          /\ pc' = IF cmd \in ReadCmds THEN "token" ELSE "wblock"
      BY <1>1 DEF DataResponse, cardVars
    <2>2. ~busy
      BY <2>1 DEF IInv, BusyKnown, Waits, ReadCmds, WriteCmds
    <2>3. cmd \in ReadCmds => LenBlocks(req) \in Nat \ {0}
      BY <2>1, Geometry DEF IInv, Commands
    <2>4. Types'
      BY <2>1 DEF IInv, Types
    <2>5. Commands'
      BY <2>1, <2>3 DEF IInv, Commands, ReadCmds, WriteCmds
    <2>6. BusyKnown' /\ TransferOver' /\ Deselected'
      BY <2>1, <2>2 DEF IInv, BusyKnown, TransferOver, Deselected
    <2> QED
      BY <2>1, <2>4, <2>5, <2>6, BufferKept DEF IInv
  <1>2. CASE BusyResponse
    <2>1. /\ pc = "r1" /\ cmd \in Waits /\ pc' = "r1b"
          /\ cmd = "CMD12" => alive
          /\ cmd # "CMD12" => busy
          /\ UNCHANGED <<cmd, req, b, buf, ret, sel, owes, busy, alive>>
      BY <1>2 DEF BusyResponse, cardVars, Waits
    <2>2. Types'
      BY <2>1 DEF IInv, Types
    <2>3. Commands'
      BY <2>1 DEF IInv, Commands
    <2>4. BusyKnown' /\ TransferOver' /\ Deselected'
      BY <2>1 DEF IInv, BusyKnown, TransferOver, Deselected, Waits
    <2> QED
      BY <2>1, <2>2, <2>3, <2>4, BufferKept DEF IInv
  <1> QED
    BY <1>1, <1>2

LEMMA BusyOverPreserves == ASSUME IInv, BusyOver PROVE IInv'
  <1>1. /\ pc = "r1b" /\ ~busy /\ UNCHANGED <<req, buf, ret, sel, owes, busy, alive>>
        /\ \/ cmd = "wait" /\ b' = b + 1 /\ pc' = "wblock" /\ cmd' = cmd
           \/ cmd = "wait" /\ cmd' = "stop" /\ pc' = "send" /\ b' = b
           \/ (cmd # "wait" \/ LenBlocks(req) = 1) /\ pc' = "free" /\ UNCHANGED <<cmd, b>>
    BY DEF BusyOver, cardVars
  <1>2. b \in Nat /\ b + 1 \in Nat
    BY DEF IInv, Types
  <1>3. Types'
    BY <1>1, <1>2 DEF IInv, Types
  <1>4. Commands'
    BY <1>1 DEF IInv, Commands, ReadCmds, WriteCmds, Waits
  <1>5. cmd # "wait" \/ LenBlocks(req) = 1 => owes = "none"
    BY <1>1 DEF IInv, TransferOver
  <1>6. BusyKnown' /\ TransferOver' /\ Deselected'
    BY <1>1, <1>5 DEF BusyKnown, TransferOver, Deselected, InitSet
  <1> QED
    BY <1>1, <1>3, <1>4, <1>6, BufferKept DEF IInv

LEMMA FreePreserves == ASSUME IInv, Free PROVE IInv'
  <1>1. pc = "free" /\ pc' = "idle" /\ ret' = "ok" /\ sel' = FALSE
        /\ UNCHANGED <<cmd, req, b, buf, owes, busy, alive>>
    BY DEF Free
  <1>2. owes = "none" /\ ~busy
    BY <1>1 DEF IInv, TransferOver, BusyKnown
  <1>3. Types'
    BY <1>1 DEF IInv, Types
  <1>4. Commands' /\ BusyKnown' /\ TransferOver' /\ Deselected'
    BY <1>1, <1>2 DEF Commands, BusyKnown, TransferOver, Deselected
  <1> QED
    BY <1>1, <1>3, <1>4, BufferKept DEF IInv

LEMMA TokenPreserves == ASSUME IInv, Token PROVE IInv'
  <1>1. pc = "token" /\ pc' = "block" /\ UNCHANGED <<cmd, req, b, buf, ret, sel, owes, busy, alive>>
    BY DEF Token, cardVars
  <1>2. Types'
    BY <1>1 DEF IInv, Types
  <1>3. Commands'
    BY <1>1 DEF IInv, Commands
  <1>4. BusyKnown' /\ TransferOver' /\ Deselected'
    BY <1>1 DEF IInv, BusyKnown, TransferOver, Deselected
  <1> QED
    BY <1>1, <1>2, <1>3, <1>4, BufferKept DEF IInv

\* Only the bytes of the block that were asked for are stored.
LEMMA ReadBlockFenced ==
  ASSUME IInv, NEW good, ReadBlock(good) PROVE BufferFenced'
  <1> DEFINE part == Part(req, b)
             dst == b * BlockSize - FirstOffs(req)
  <1>1. pc = "block" /\ req' = req /\ req \in Reads \union RawReads /\ req.len > 0
        /\ b \in Nat /\ b < LenBlocks(req)
    BY DEF IInv, Commands, Types, ReadBlock
  <1>2. buf' = buf \/ buf' = CopyBlock(at, dst, part[1], part[2], good)
    BY DEF ReadBlock
  <1>3. ASSUME NEW i \in Window, i \notin 0 .. req.len - 1,
               buf' = CopyBlock(at, dst, part[1], part[2], good)
        PROVE  buf'[i] = buf[i]
    <2>1. i - dst \notin part[1] .. part[2] - 1
      <3>1. i \in Int
        BY DEF Window
      <3> QED
        BY <1>1, <1>3, <3>1, PartInside
    <2> HIDE DEF part, dst
    <2> QED
      BY <1>3, <2>1 DEF CopyBlock
  <1> QED
    BY <1>1, <1>2, <1>3 DEF IInv, BufferFenced

LEMMA ReadBlockPreserves ==
  ASSUME IInv, NEW good \in BOOLEAN, ReadBlock(good) PROVE IInv'
  <1>1. /\ pc = "block" /\ UNCHANGED <<req, sel, busy, alive>>
        /\ owes' = IF owes = "one" THEN "none" ELSE owes
        /\ b \in Nat /\ cmd \in ReadCmds /\ req \in Reads \union RawReads /\ req.len > 0
        /\ b < LenBlocks(req) /\ (cmd = "CMD17" <=> LenBlocks(req) = 1)
        /\ BufferFenced'
    BY ReadBlockFenced DEF IInv, Commands, Types, ReadBlock
  <1>2. CASE good = FALSE
    <2>1. Fail /\ UNCHANGED <<cmd, b>>
      BY <1>2 DEF ReadBlock
    <2>2. busy \in BOOLEAN /\ owes \in {"none", "one", "many", "write"}
      BY DEF IInv, Types
    <2>3. busy' \in BOOLEAN /\ owes' \in {"none", "one", "many", "write"} /\ owes' \in {owes, "none"}
      BY <1>1, <2>2
    <2> QED
      BY <1>1, <2>1, <2>3, FailPreserves
  <1>3. CASE good = TRUE
    <2> DEFINE last == b + 1 = LenBlocks(req)
               k == LenBlocks(req)
    <2>1. /\ b' = b + 1 /\ ret' = ret
          /\ pc' = CASE ~last -> "token"
                     [] last /\ k > 1 -> "send"
                     [] OTHER -> "free"
          /\ cmd' = IF last /\ k > 1 THEN "CMD12" ELSE cmd
      BY <1>3 DEF ReadBlock
    <2>2. k \in Nat \ {0}
      BY <1>1, Geometry
    <2> HIDE DEF k
    <2>3. \/ ~last /\ pc' = "token" /\ cmd' = cmd /\ b + 1 < k /\ k # 1
          \/ pc' = "send" /\ cmd' = "CMD12" /\ k > 1
          \/ pc' = "free" /\ cmd' = cmd /\ k = 1
      BY <1>1, <2>1, <2>2 DEF k
    <2>4. Types'
      <3>1. b + 1 \in Nat
        BY <1>1
      <3> QED
        BY <1>1, <2>1, <2>3, <3>1 DEF IInv, Types
    <2>5. cmd \in {"CMD17", "CMD18"} /\ ~busy
      BY <1>1 DEF ReadCmds, IInv, BusyKnown
    <2>6. Commands'
      BY <1>1, <2>1, <2>3, <2>5 DEF Commands, k, ReadCmds, WriteCmds, Waits
    <2>7. k = 1 => owes' = "none"
      BY <1>1, <2>5 DEF IInv, TransferOver, k
    <2>8. BusyKnown' /\ TransferOver' /\ Deselected'
      BY <1>1, <2>1, <2>3, <2>5, <2>7 DEF BusyKnown, TransferOver, Deselected, InitSet, k
    <2> QED
      BY <1>1, <2>4, <2>6, <2>8 DEF IInv
  <1> QED
    BY <1>2, <1>3

LEMMA WriteBlockPreserves ==
  ASSUME IInv, NEW taken \in BOOLEAN, WriteBlock(taken) PROVE IInv'
  <1>1. pc = "wblock" /\ UNCHANGED <<req, b, buf, sel, alive>> /\ CardTakes(taken)
    BY DEF WriteBlock, CardTakes
  <1>2. busy \in BOOLEAN /\ owes \in {"none", "one", "many", "write"} /\ b \in Nat /\ BufferFenced
    BY DEF IInv, Types
  <1>3. busy' \in BOOLEAN
    <2>1. busy' \in (IF ~alive THEN {busy} ELSE IF taken /\ ~NoBusy THEN {TRUE} ELSE BOOLEAN)
      BY <1>1 DEF CardTakes
    <2> QED
      BY <1>2, <2>1, Zenon
  <1>4. owes' = IF taken /\ LenBlocks(req) = 1 THEN "none" ELSE owes
    BY <1>1 DEF CardTakes
  <1>5. BufferFenced'
    BY <1>1, <1>2, BufferKept
  <1>6. CASE taken = FALSE
    <2>1. Fail /\ cmd' = cmd /\ owes' = owes
      BY <1>4, <1>6 DEF WriteBlock
    <2> QED
      BY <1>1, <1>2, <1>3, <1>5, <2>1, FailPreserves
  <1>7. CASE taken = TRUE
    <2>1. cmd' = "wait" /\ pc' = "r1" /\ ret' = ret
      BY <1>7 DEF WriteBlock
    <2>2. req \in Writes /\ req.len > 0
      BY <1>1 DEF IInv, Commands
    <2>3. Types'
      BY <1>1, <1>2, <1>3, <1>4, <2>1 DEF IInv, Types
    <2>4. Commands'
      BY <1>1, <2>1, <2>2 DEF Commands, ReadCmds, WriteCmds, Waits
    <2>5. BusyKnown' /\ TransferOver' /\ Deselected'
      BY <1>1, <1>4, <1>7, <2>1 DEF BusyKnown, TransferOver, Deselected, Waits, InitSet
    <2> QED
      BY <1>5, <2>3, <2>4, <2>5 DEF IInv
  <1> QED
    BY <1>6, <1>7

LEMMA CallInitPreserves == ASSUME IInv, CallInit PROVE IInv'
  <1>1. pc = "off" /\ pc' = "send" /\ cmd' = "CMD0"
        /\ UNCHANGED <<req, b, buf, ret, sel, owes, busy, alive>>
    BY DEF CallInit, cardVars
  <1>2. Types'
    BY <1>1 DEF IInv, Types
  <1>3. Commands'
    BY <1>1 DEF Commands, InitSet, ReadCmds, WriteCmds
  <1>4. BusyKnown' /\ TransferOver' /\ Deselected'
    BY <1>1 DEF IInv, BusyKnown, TransferOver, Deselected
  <1> QED
    BY <1>1, <1>2, <1>3, <1>4, BufferKept DEF IInv

\* A call with or without length, from a state in which one may be made.
LEMMA CallPreserves ==
  ASSUME IInv, NEW r \in Reads \union RawReads \union Writes, pc = "idle",
         \/ r \in Reads \union RawReads /\ Call(r, "CMD17", "CMD18")
         \/ r \in Writes /\ Call(r, "CMD24", "CMD25"),
         ret = "ok" \/ (ret = "error" /\ req.op = "sig" /\ r \in RawReads)
  PROVE  IInv'
  <1>1. req' = r /\ b' = 0 /\ buf' = [i \in Window |-> Old]
        /\ UNCHANGED <<sel, owes, busy, alive>> /\ r.len \in Nat
    BY Constants DEF Call, cardVars
  <1>2. ~busy /\ owes \in {"none", "one"} /\ (ret = "ok" => owes = "none" /\ ~sel)
    BY DEF IInv, BusyKnown, TransferOver, Deselected
  <1>3. BufferFenced'
    BY <1>1 DEF BufferFenced
  <1>4. CASE r.len = 0
    <2>1. ret' = "ok" /\ UNCHANGED <<pc, cmd>> /\ ret = "ok"
      BY <1>4, SdAssumption DEF Call
    <2>2. Types'
      BY <1>1, <2>1 DEF IInv, Types, Requests
    <2> QED
      BY <1>1, <1>2, <1>3, <2>1, <2>2 DEF IInv, Commands, BusyKnown, TransferOver, Deselected
  <1>5. CASE r.len > 0
    <2>1. pc' = "send" /\ ret' = "none"
      BY <1>5 DEF Call
    <2>2. Types'
      BY <1>1, <2>1 DEF IInv, Types, Requests
    <2>3. ASSUME r \in Reads \union RawReads, Call(r, "CMD17", "CMD18") PROVE IInv'
      <3>1. LenBlocks(r) \in Nat \ {0}
        BY <1>5, <2>3, Geometry
      <3>2. cmd' \in {"CMD17", "CMD18"} /\ (cmd' = "CMD17" <=> LenBlocks(r) = 1)
        BY <1>5, <2>3, <3>1 DEF Call
      <3>3. Commands'
        BY <1>1, <1>5, <2>1, <2>3, <3>2 DEF Commands, ReadCmds, WriteCmds
      <3>4. BusyKnown' /\ TransferOver' /\ Deselected'
        BY <1>1, <1>2, <2>1, <3>2 DEF BusyKnown, TransferOver, Deselected, InitSet
      <3> QED
        BY <1>3, <2>2, <3>3, <3>4 DEF IInv
    <2>4. ASSUME r \in Writes, Call(r, "CMD24", "CMD25") PROVE IInv'
      <3>1. cmd' \in {"CMD24", "CMD25"}
        BY <1>5, <2>4 DEF Call
      <3>2. Commands'
        BY <1>1, <1>5, <2>1, <2>4, <3>1 DEF Commands, ReadCmds, WriteCmds
      <3>3. BusyKnown' /\ TransferOver' /\ Deselected'
        BY <1>1, <1>2, <2>1, <3>1 DEF BusyKnown, TransferOver, Deselected, InitSet
      <3> QED
        BY <1>3, <2>2, <3>2, <3>3 DEF IInv
    <2> QED
      BY <2>3, <2>4
  <1> QED
    BY <1>1, <1>4, <1>5

-----------------------------------------------------------------------------
THEOREM Invariance == Spec => []IInv
  <1>1. IInv /\ [Next]_vars => IInv'
    <2> SUFFICES ASSUME IInv, [Next]_vars PROVE IInv'
      OBVIOUS
    <2>1. ASSUME \E r \in Reads : CallRead(r) PROVE IInv'
      BY <2>1, CallPreserves DEF CallRead
    <2>2. ASSUME \E r \in RawReads : CallRawRead(r) PROVE IInv'
      BY <2>2, CallPreserves DEF CallRawRead
    <2>3. ASSUME \E w \in Writes : CallWrite(w) PROVE IInv'
      BY <2>3, CallPreserves DEF CallWrite
    <2>4. CASE Driver
      BY <2>4, SendCmdPreserves, PollsPreserve, InitResponsePreserves, ResponsesPreserve,
         BusyOverPreserves, FreePreserves, TokenPreserves, ReadBlockPreserves,
         WriteBlockPreserves DEF Driver
    <2>5. CASE UNCHANGED vars
      <3>1. UNCHANGED <<pc, cmd, req, b, buf, ret, sel, owes, alive, busy>>
        BY <2>5 DEF vars, drvVars, cardVars
      <3> QED
        BY <3>1, SamePlace DEF IInv, Types
    <2> QED
      BY <2>1, <2>2, <2>3, <2>4, <2>5, CallInitPreserves, PollsPreserve DEF Next
  <1> QED
    BY <1>1, InitInv, PTL DEF Spec

\* A read stores nothing before or behind the caller's buffer, whatever its
\* offset and length and whatever the card does (spi_sdcard.c:239-303).
THEOREM ReadsFenced == Spec => []BufferFenced
  <1>1. IInv => BufferFenced
    BY DEF IInv
  <1> QED
    BY <1>1, Invariance, PTL

\* A call that returns 0 has released the card, for any card, also after a
\* signature read that failed (spi_sdcard.c:117-150, 286, 349).
THEOREM CardReleased == Spec => []Released
  <1>1. IInv => Released
    BY DEF IInv, TransferOver, Deselected, Released
  <1> QED
    BY <1>1, Invariance, PTL
-----------------------------------------------------------------------------
(* What the calls transfer.                                                *)

\* The first n blocks of a read are in the buffer, those of a write on the disk.
ReadDone(n) == \A i \in 0 .. req.len - 1 :
                 i < n * BlockSize - FirstOffs(req)
                 => buf[i] = <<disk[(req.addr + i) \div BlockSize], req.addr + i>>
WriteDone(n) == \A i \in 0 .. n - 1 : disk[req.addr + i] = i

Complete == /\ IsRead(req) => ReadDone(LenBlocks(req))
            /\ req.op = "write" => WriteDone(req.len)

\* Only a signature read leaves a transfer behind, of a block that the call
\* after it may take for its own first one.
Starting == /\ pc = "send" /\ cmd \in {"CMD17"} \union WriteCmds => owes = "none"
            /\ pc = "send" /\ cmd = "CMD18" => owes \in {"none", "one"}
            /\ pc = "off" \/ (pc \in {"send", "r1"} /\ cmd \in InitSet) => req = NoReq

\* Blocks read; r1 comes before the count is reset.
Taken == IF pc = "r1" THEN 0 ELSE b

Reading ==
    pc \in {"r1", "token", "block"} /\ cmd \in ReadCmds
    => /\ owes = "one" => Taken = 0 /\ (cmd = "CMD17" => at = Block(req))
       /\ owes = "many" => at = Block(req) + Taken /\ ReadDone(Taken)
       /\ owes # "write" /\ (pc = "block" => owes # "none")

Writing ==
    /\ pc = "r1" /\ cmd \in WriteCmds /\ owes = "write" => at = req.addr
    /\ pc = "wblock" => /\ b < req.len /\ WriteDone(b)
                        /\ owes = "write" => at = req.addr + b
    /\ pc \in {"r1", "r1b"} /\ cmd = "wait" => /\ b < req.len /\ WriteDone(b + 1)
                                              /\ at = req.addr + (b + 1)

Finished == \/ pc \in {"send", "r1", "r1b"} /\ cmd \in {"CMD12", "stop"}
            \/ pc = "free"
            \/ pc = "idle" /\ ret = "ok"

DataInv == /\ disk \in [Blocks -> Int]
           /\ Starting /\ Reading /\ Writing
           /\ Finished => Complete

\* A raw copy is of several blocks, a write of as many as it says.
LEMMA Lengths ==
  /\ \A r \in RawReads : r.len > 0 /\ LenBlocks(r) > 1
  /\ \A w \in Writes : LenBlocks(w) = w.len
  <1>1. ASSUME NEW r \in RawReads PROVE r.len > 0 /\ LenBlocks(r) > 1
    <2> DEFINE m == BlockSize
               k == LenBlocks(r)
               f == FirstOffs(r)
               n == r.len
    <2>1. m \in Nat \ {0} /\ n \in Nat /\ n > m /\ n > 0
      BY Constants, SdAssumption
    <2>2. /\ k \in Nat \ {0} /\ f \in 0 .. m - 1 /\ LastLen(r) \in 1 .. m
          /\ m * (k - 1) + LastLen(r) = f + n
      BY <2>1, Geometry
    <2> HIDE DEF m, k, f, n
    <2>3. k # 1
      <3> SUFFICES ASSUME k = 1 PROVE FALSE
        OBVIOUS
      <3>1. m * (k - 1) = 0
        BY <2>1
      <3> QED
        BY <2>1, <2>2, <3>1
    <2> QED
      BY <2>1, <2>2, <2>3 DEF k, n
  <1> QED
    BY <1>1, Constants DEF LenBlocks

\* The blocks of a read reach to its end.
LEMMA AllBlocks ==
  ASSUME NEW r \in Reads \union RawReads, r.len > 0
  PROVE  r.len <= LenBlocks(r) * BlockSize - FirstOffs(r)
  <1> DEFINE m == BlockSize
             k == LenBlocks(r)
             f == FirstOffs(r)
             n == r.len
             t == LastLen(r)
  <1>1. /\ m \in Nat \ {0} /\ n \in Nat /\ k \in Nat \ {0} /\ f \in 0 .. m - 1 /\ t \in 1 .. m
        /\ m * (k - 1) + t = f + n
    BY Geometry, Constants
  <1> HIDE DEF m, k, f, n, t
  <1>2. m * (k - 1) = k * m - m /\ k * m \in Int
    BY <1>1
  <1>3. n <= k * m - f
    BY <1>1, <1>2
  <1> QED
    BY <1>3 DEF m, k, f, n

\* Where the bytes of a block belong: those of block n of a read, as far as
\* they are asked for, are the part that is copied, and come from the card's
\* block that holds them.
LEMMA PartCovers ==
  ASSUME NEW r \in Reads \union RawReads, r.len > 0, NEW n \in Nat, n < LenBlocks(r),
         NEW i \in 0 .. r.len - 1, i < (n + 1) * BlockSize - FirstOffs(r),
         ~(i < n * BlockSize - FirstOffs(r))
  PROVE  /\ i - (n * BlockSize - FirstOffs(r)) \in Part(r, n)[1] .. Part(r, n)[2] - 1
         /\ (Block(r) + n) * BlockSize + i - (n * BlockSize - FirstOffs(r)) = r.addr + i
         /\ (r.addr + i) \div BlockSize = Block(r) + n
  <1> DEFINE m == BlockSize
             f == FirstOffs(r)
             k == LenBlocks(r)
             t == LastLen(r)
             len == r.len
             a == r.addr
             q == Block(r)
             x == n * m
             y == (n + 1) * m
  <1>1. /\ m \in Nat \ {0} /\ k \in Nat \ {0} /\ f \in 0 .. m - 1 /\ t \in 1 .. m
        /\ m * (k - 1) + t = f + len /\ len \in Nat /\ a \in Nat
    BY Geometry, Constants
  <1>2. q \in Nat /\ a = m * q + f
    <2>1. a \div m \in Nat /\ a = m * (a \div m) + (a % m)
      <3> HIDE DEF a, m
      <3> QED
        BY <1>1, Division
    <2> QED
      BY <2>1 DEF Block, FirstOffs
  <1>3. n < k /\ i < y - f /\ ~(i < x - f) /\ i <= len - 1 /\ i \in Nat
    BY <1>1
  <1> HIDE DEF f, k, t, len, a, q
  <1>4. x \in Nat /\ y = x + m /\ (n = 0 => x = 0) /\ (n = k - 1 => m * (k - 1) = x)
        /\ (q + n) * m = m * q + x /\ m * q \in Nat /\ m * (q + n) = m * q + x
    BY <1>1, <1>2
  <1> HIDE DEF x, y, m
  <1>5. i - (x - f) \in 0 .. m - 1
    BY <1>1, <1>3, <1>4
  <1>6. n = 0 => i - (x - f) >= f
    BY <1>1, <1>3, <1>4
  <1>7. n = k - 1 => i - (x - f) <= t - 1
    BY <1>1, <1>3, <1>4
  <1>8. i - (x - f) \in (IF n = 0 THEN f ELSE 0) .. (IF n = k - 1 THEN t ELSE m) - 1
    BY <1>1, <1>5, <1>6, <1>7
  <1>9. (q + n) * m + i - (x - f) = a + i
    BY <1>1, <1>2, <1>3, <1>4
  <1>10. (a + i) \div m = q + n
    <2> DEFINE c == i - (x - f)
               z == a + i
    <2>1. z \in Nat /\ m * (q + n) + c = z /\ c \in 0 .. m - 1 /\ q + n \in Int
      BY <1>1, <1>2, <1>3, <1>4, <1>5
    <2> HIDE DEF c, z
    <2>2. z \div m \in Nat /\ z % m \in 0 .. m - 1 /\ z = m * (z \div m) + (z % m)
      BY <1>1, <2>1, Division
    <2>3. z \div m = q + n
      <3> DEFINE u == z \div m
                 v == z % m
      <3> HIDE DEF u, v
      <3>1. u \in Int /\ v \in 0 .. m - 1 /\ m * (q + n) + c = m * u + v
        BY <2>1, <2>2 DEF u, v
      <3>2. q + n = u
        BY <1>1, <2>1, <3>1, Unique
      <3> QED
        BY <3>2 DEF u
    <2> QED
      BY <2>3 DEF z
  <1> QED
    BY <1>8, <1>9, <1>10 DEF Part, f, k, t, a, q, x, m

\* A block more has been read.
LEMMA BlockRead ==
  ASSUME IInv, ReadBlock(TRUE), at = Block(req) + b, ReadDone(b)
  PROVE  ReadDone(b)'
  <1> DEFINE part == Part(req, b)
             dst == b * BlockSize - FirstOffs(req)
  <1>1. req' = req /\ disk' = disk /\ req \in Reads \union RawReads /\ req.len > 0
        /\ b \in Nat /\ b < LenBlocks(req)
    BY DEF IInv, Commands, Types, ReadBlock
  <1>2. buf' = CopyBlock(at, dst, part[1], part[2], TRUE)
    BY DEF ReadBlock
  <1>3. ASSUME NEW i \in 0 .. req.len - 1, i < (b + 1) * BlockSize - FirstOffs(req)
        PROVE  buf'[i] = <<disk[(req.addr + i) \div BlockSize], req.addr + i>>
    <2>1. i \in Window
      <3>1. req.len <= BufLen /\ BufLen \in Nat /\ req.len \in Nat /\ BlockSize \in Nat
        BY <1>1, SdAssumption, Constants
      <3> QED
        BY <3>1 DEF Window
    <2>2. buf'[i] = IF i - dst \in part[1] .. part[2] - 1
                    THEN <<disk[at], at * BlockSize + i - dst>> ELSE buf[i]
      <3> HIDE DEF part, dst
      <3> QED
        BY <1>2, <2>1 DEF CopyBlock
    <2>3. CASE i < b * BlockSize - FirstOffs(req)
      <3>1. buf[i] = <<disk[(req.addr + i) \div BlockSize], req.addr + i>>
        BY <2>3 DEF ReadDone
      <3>2. i - dst \notin part[1] .. part[2] - 1
        <4>1. part[1] \in Nat /\ part[2] \in Nat /\ dst \in Int
          BY <1>1, Geometry, Constants DEF Part
        <4>2. i < dst
          BY <2>3
        <4> HIDE DEF part, dst
        <4> QED
          BY <4>1, <4>2
      <3> QED
        BY <2>2, <3>1, <3>2
    <2>4. CASE ~(i < b * BlockSize - FirstOffs(req))
      <3>1. /\ i - dst \in part[1] .. part[2] - 1
            /\ (Block(req) + b) * BlockSize + i - dst = req.addr + i
            /\ (req.addr + i) \div BlockSize = Block(req) + b
        BY <1>1, <1>3, <2>4, PartCovers
      <3> HIDE DEF part, dst
      <3> QED
        BY <2>2, <3>1
    <2> QED
      BY <2>3, <2>4
  <1>4. b' = b + 1
    BY DEF ReadBlock
  <1> QED
    BY <1>1, <1>3, <1>4 DEF ReadDone

-----------------------------------------------------------------------------
LEMMA InitData == Init => DataInv
  BY DEF Init, DataInv, Starting, Reading, Writing, Finished, Own, Blocks, ReadCmds, WriteCmds

\* A poll, or a step of the card that leaves the transfer alone.
LEMMA StillData ==
  ASSUME DataInv, UNCHANGED <<pc, cmd, req, b, buf, ret, owes, at, disk>> PROVE DataInv'
  BY DEF DataInv, Starting, Reading, Writing, Finished, Complete, ReadDone, WriteDone, Taken

LEMMA FailData ==
  ASSUME Fail, disk' \in [Blocks -> Int] PROVE DataInv'
  BY DEF Fail, DataInv, Starting, Reading, Writing, Finished

LEMMA CompleteKept ==
  ASSUME Complete, UNCHANGED <<req, buf, disk>> PROVE Complete'
  BY DEF Complete, ReadDone, WriteDone

LEMMA SendCmdData == ASSUME IInv, DataInv, SendCmd PROVE DataInv'
  <1>1. /\ pc = "send" /\ pc' = "r1" /\ UNCHANGED <<cmd, req, b, buf, ret, disk>>
        /\ CardHears(cmd)
    BY DEF SendCmd
  <1>2. ~busy /\ owes \in {"none", "one", "many", "write"} /\ cmd # "wait"
    BY <1>1 DEF IInv, BusyKnown, Types, Commands
  <1>3. /\ cmd = "CMD18" => owes \in {"none", "one"}
        /\ cmd \in {"CMD17"} \union WriteCmds => owes = "none"
        /\ cmd \in InitSet => req = NoReq
    BY <1>1 DEF DataInv, Starting
  <1>4. \/ UNCHANGED <<owes, at>>
        \/ /\ cmd = "CMD17" => owes' = "one"
           /\ cmd = "CMD18" => owes' = "many"
           /\ cmd \in WriteCmds => owes' = "write"
           /\ at' = IF cmd \in ReadCmds \union WriteCmds
                    THEN IF req.op = "write" THEN req.addr ELSE Block(req)
                    ELSE at
    BY <1>1 DEF CardHears, WriteCmds
  <1>5. cmd \in ReadCmds => /\ req \in Reads \union RawReads /\ req.op # "write"
                            /\ Block(req) + 0 = Block(req)
    <2>1. ASSUME cmd \in ReadCmds PROVE req \in Reads \union RawReads /\ req.op # "write"
      BY <1>1, <2>1, Constants DEF IInv, Commands
    <2>2. ASSUME req \in Reads \union RawReads PROVE Block(req) \in Int
      BY <2>2, Constants DEF Block
    <2> QED
      BY <2>1, <2>2
  <1>6. cmd \in WriteCmds => req.op = "write"
    BY <1>1, Constants DEF IInv, Commands
  <1>7. cmd \in ReadCmds => ReadDone(0)'
    <2> SUFFICES ASSUME cmd \in ReadCmds,
                        NEW i \in 0 .. req'.len - 1, i < 0 * BlockSize - FirstOffs(req')
                 PROVE  FALSE
      BY DEF ReadDone
    <2>1. req' = req /\ FirstOffs(req) \in Nat
      BY <1>1, <1>5, Constants, Division DEF FirstOffs
    <2> QED
      BY <2>1, Constants
  <1>8. Starting' /\ disk' \in [Blocks -> Int]
    BY <1>1, <1>3 DEF DataInv, Starting
  <1>9. Reading'
    <2> SUFFICES ASSUME cmd \in ReadCmds PROVE Reading'
      BY <1>1 DEF Reading
    <2>1. Taken' = 0 /\ pc' # "block" /\ Block(req') = Block(req)
      BY <1>1 DEF Taken
    <2>2. CASE UNCHANGED <<owes, at>>
      <3>1. cmd' \in {"CMD17", "CMD18"} /\ owes' \in {"none", "one"}
            /\ (cmd' = "CMD17" => owes' = "none")
        BY <1>1, <1>3, <2>2 DEF ReadCmds
      <3> QED
        BY <2>1, <3>1 DEF Reading
    <2>3. CASE ~UNCHANGED <<owes, at>>
      <3>1. at' = Block(req) /\ (cmd = "CMD17" => owes' = "one") /\ (cmd = "CMD18" => owes' = "many")
        BY <1>4, <1>5, <2>3
      <3> QED
        BY <1>1, <1>5, <1>7, <2>1, <3>1 DEF Reading, ReadCmds
    <2> QED
      BY <2>2, <2>3
  <1>10. Writing'
    <2>1. cmd \in WriteCmds /\ owes' = "write" => at' = req.addr
      BY <1>3, <1>4, <1>6
    <2> QED
      BY <1>1, <1>2, <2>1 DEF Writing
  <1>11. Finished' => Finished
    BY <1>1 DEF Finished
  <1> QED
    BY <1>1, <1>8, <1>9, <1>10, <1>11, CompleteKept DEF DataInv

LEMMA InitResponseData ==
  ASSUME IInv, DataInv, NEW r, InitResponse(r) PROVE DataInv'
  <1>1. pc = "r1" /\ cmd \in InitSet /\ UNCHANGED <<req, b, buf, owes, at, disk>>
    BY DEF InitResponse, InitCmds, InitSet
  <1>2. req' = NoReq
    BY <1>1 DEF DataInv, Starting
  <1>3. \/ pc' = "idle"
        \/ pc' = "send" /\ cmd' \in InitSet
    <2>1. CASE cmd = "CMD16"
      BY <2>1 DEF InitResponse, Fail
    <2>2. CASE cmd # "CMD16"
      <3>1. InitNext(cmd) \in InitSet /\ "CMD55" \in InitSet
        BY <1>1, <2>2, InitNextKnown DEF InitSet
      <3> QED
        BY <2>2, <3>1 DEF InitResponse, Fail
    <2> QED
      BY <2>1, <2>2
  <1>4. Complete'
    BY <1>2 DEF Complete, NoReq, IsRead
  <1>5. Starting' /\ Reading' /\ Writing'
    BY <1>2, <1>3 DEF Starting, Reading, Writing, InitSet, WriteCmds
  <1> QED
    BY <1>1, <1>4, <1>5 DEF DataInv

LEMMA DataResponseData == ASSUME IInv, DataInv, DataResponse PROVE DataInv'
  <1>1. /\ pc = "r1" /\ cmd \in ReadCmds \union WriteCmds /\ b' = 0
        /\ UNCHANGED <<cmd, req, buf, ret, owes, at, disk>>
        /\ pc' = IF cmd \in ReadCmds THEN "token" ELSE "wblock"
    BY DEF DataResponse, cardVars
  <1>2. CASE cmd \in ReadCmds
    <2>1. Taken = 0 /\ Taken' = 0 /\ pc' = "token"
      BY <1>1, <1>2 DEF Taken
    <2>2. Reading'
      <3>1. ReadDone(0) => ReadDone(0)'
        BY <1>1 DEF ReadDone
      <3> QED
        BY <1>1, <1>2, <2>1, <3>1 DEF DataInv, Reading
    <2> QED
      BY <1>1, <2>1, <2>2 DEF DataInv, Starting, Writing, Finished
  <1>3. CASE cmd \in WriteCmds
    <2>1. pc' = "wblock"
      BY <1>1, <1>3 DEF ReadCmds, WriteCmds
    <2>2. req \in Writes /\ req.len > 0 /\ req.addr + 0 = req.addr
      BY <1>1, <1>3, Constants DEF IInv, Commands
    <2>3. Writing'
      <3>1. WriteDone(b)'
        BY <1>1 DEF WriteDone
      <3> QED
        BY <1>1, <1>3, <2>1, <2>2, <3>1 DEF DataInv, Writing
    <2> QED
      BY <1>1, <2>1, <2>3 DEF DataInv, Starting, Reading, Finished
  <1> QED
    BY <1>1, <1>2, <1>3

LEMMA BusyResponseData == ASSUME DataInv, BusyResponse PROVE DataInv'
  <1>1. /\ pc = "r1" /\ cmd \in {"CMD12", "wait", "stop"} /\ pc' = "r1b"
        /\ UNCHANGED <<cmd, req, b, buf, ret, owes, at, disk>>
    BY DEF BusyResponse, cardVars
  <1>2. Finished' => Finished
    BY <1>1 DEF Finished
  <1>3. Writing'
    BY <1>1 DEF DataInv, Writing, WriteDone
  <1> QED
    BY <1>1, <1>2, <1>3, CompleteKept DEF DataInv, Starting, Reading, ReadCmds

LEMMA BusyOverData == ASSUME IInv, DataInv, BusyOver PROVE DataInv'
  <1>1. pc = "r1b" /\ UNCHANGED <<req, buf, ret, owes, at, disk>> /\ cmd \in Waits
    BY DEF BusyOver, cardVars, IInv, Commands
  <1>2. cmd = "wait" => /\ req \in Writes /\ LenBlocks(req) = req.len /\ req.op = "write"
                        /\ b < req.len /\ WriteDone(b + 1) /\ at = req.addr + (b + 1)
    BY <1>1, Lengths, Constants DEF IInv, Commands, DataInv, Writing
  <1>3. b \in Nat
    BY DEF IInv, Types
  <1>4. CASE cmd = "wait" /\ b + 1 < LenBlocks(req) /\ b' = b + 1 /\ pc' = "wblock" /\ cmd' = cmd
    <2>1. WriteDone(b)'
      BY <1>1, <1>2, <1>4 DEF WriteDone
    <2>2. Writing'
      BY <1>1, <1>2, <1>4, <2>1 DEF Writing
    <2> QED
      BY <1>1, <1>4, <2>2 DEF DataInv, Starting, Reading, Finished
  <1>5. ASSUME cmd = "wait", b + 1 >= LenBlocks(req) PROVE Complete'
    <2>1. req.len = b + 1 /\ req.op = "write"
      BY <1>2, <1>3, <1>5, Constants
    <2>2. WriteDone(req.len)'
      BY <1>1, <1>2, <1>5, <2>1 DEF WriteDone
    <2> QED
      BY <1>1, <2>1, <2>2 DEF Complete, IsRead
  <1>6. CASE cmd = "wait" /\ b + 1 >= LenBlocks(req) /\ cmd' = "stop" /\ pc' = "send"
    BY <1>1, <1>5, <1>6 DEF DataInv, Starting, Reading, Writing, WriteCmds, InitSet
  <1>7. CASE (cmd # "wait" \/ LenBlocks(req) = 1) /\ pc' = "free"
    <2>1. Complete'
      <3>1. CASE cmd = "wait"
        BY <1>2, <1>3, <1>5, <1>7, <3>1
      <3>2. CASE cmd # "wait"
        BY <1>1, <3>2, CompleteKept DEF DataInv, Finished, Waits
      <3> QED
        BY <3>1, <3>2
    <2> QED
      BY <1>1, <1>7, <2>1 DEF DataInv, Starting, Reading, Writing
  <1> QED
    BY <1>4, <1>6, <1>7 DEF BusyOver

LEMMA FreeData == ASSUME DataInv, Free PROVE DataInv'
  <1>1. pc = "free" /\ pc' = "idle" /\ UNCHANGED <<req, buf, disk>>
    BY DEF Free
  <1>2. Complete'
    BY <1>1, CompleteKept DEF DataInv, Finished
  <1> QED
    BY <1>1, <1>2 DEF DataInv, Starting, Reading, Writing

LEMMA TokenData == ASSUME DataInv, Token PROVE DataInv'
  <1>1. /\ pc = "token" /\ pc' = "block" /\ owes \in {"one", "many"}
        /\ UNCHANGED <<cmd, req, b, buf, ret, owes, at, disk>>
    BY DEF Token, cardVars
  <1>2. Taken' = Taken /\ (ReadDone(Taken) => ReadDone(Taken)')
    BY <1>1 DEF Taken, ReadDone
  <1>3. Reading'
    BY <1>1, <1>2 DEF DataInv, Reading
  <1> QED
    BY <1>1, <1>3 DEF DataInv, Starting, Writing, Finished

LEMMA ReadBlockData ==
  ASSUME IInv, DataInv, NEW good \in BOOLEAN, ReadBlock(good) PROVE DataInv'
  <1>1. /\ pc = "block" /\ UNCHANGED <<req, disk>> /\ at' = at + 1
        /\ owes' = IF owes = "one" THEN "none" ELSE owes
        /\ b \in Nat /\ cmd \in ReadCmds /\ req \in Reads \union RawReads /\ req.len > 0
        /\ b < LenBlocks(req) /\ (cmd = "CMD17" <=> LenBlocks(req) = 1)
    BY DEF IInv, Commands, Types, ReadBlock
  <1>2. disk' \in [Blocks -> Int]
    BY <1>1 DEF DataInv
  <1>3. CASE good = FALSE
    BY <1>2, <1>3, FailData DEF ReadBlock
  <1>4. CASE good = TRUE
    <2> DEFINE last == b + 1 = LenBlocks(req)
               k == LenBlocks(req)
    <2>1. /\ b' = b + 1 /\ ret' = ret
          /\ pc' = CASE ~last -> "token"
                     [] last /\ k > 1 -> "send"
                     [] OTHER -> "free"
          /\ cmd' = IF last /\ k > 1 THEN "CMD12" ELSE cmd
      BY <1>4 DEF ReadBlock
    <2>2. k \in Nat \ {0} /\ Block(req) \in Int
      BY <1>1, Geometry, Constants DEF Block
    <2>3. /\ cmd \in {"CMD17", "CMD18"} /\ owes \in {"one", "many"}
          /\ owes = "one" => b = 0 /\ (cmd = "CMD17" => at = Block(req))
          /\ owes = "many" => at = Block(req) + b /\ ReadDone(b)
          /\ cmd = "CMD17" => owes = "one"
      <3>1. Taken = b
        BY <1>1 DEF Taken
      <3>2. cmd = "CMD17" => owes \in {"none", "one"}
        BY <1>1 DEF IInv, TransferOver
      <3>3. owes \in {"none", "one", "many", "write"}
        BY DEF IInv, Types
      <3> QED
        BY <1>1, <3>1, <3>2, <3>3 DEF DataInv, Reading, ReadCmds
    <2>4. owes = "many" \/ cmd = "CMD17" => ReadDone(b)'
      <3>1. CASE owes = "many"
        BY <1>4, <2>3, <3>1, BlockRead
      <3>2. CASE cmd = "CMD17"
        <4>1. b = 0 /\ at = Block(req) + b
          BY <2>2, <2>3, <3>2
        <4>2. FirstOffs(req) \in Nat
          BY <1>1, Geometry
        <4>3. ReadDone(b)
          BY <1>1, <4>1, <4>2, Constants DEF ReadDone
        <4> QED
          BY <1>4, <4>1, <4>3, BlockRead
      <3> QED
        BY <3>1, <3>2
    <2> HIDE DEF k
    <2>5. CASE ~last
      <3>1. pc' = "token" /\ cmd' = cmd /\ k # 1
        BY <1>1, <2>1, <2>2, <2>5 DEF k
      <3>2. cmd = "CMD18" /\ owes' \in {"none", "many"} /\ (owes' = "many" => owes = "many")
        BY <1>1, <2>3, <3>1 DEF k
      <3>3. owes = "many" => at' = Block(req) + (b + 1)
        BY <1>1, <2>2, <2>3
      <3>4. Reading'
        <4>1. Taken' = b' /\ Block(req') = Block(req)
          BY <1>1, <3>1 DEF Taken
        <4>2. owes = "many" => ReadDone(Taken)'
          BY <2>4, <4>1 DEF ReadDone
        <4> QED
          BY <2>1, <3>1, <3>2, <3>3, <4>1, <4>2 DEF Reading
      <3> QED
        BY <1>2, <3>1, <3>4 DEF DataInv, Starting, Writing, Finished
    <2>6. CASE last
      <3>1. \/ pc' = "send" /\ cmd' = "CMD12"
            \/ pc' = "free"
        BY <2>1, <2>6 DEF k
      <3>2. owes = "many" \/ cmd = "CMD17"
        BY <1>1, <2>2, <2>3, <2>6 DEF k
      <3>3. LenBlocks(req)' = b'
        BY <1>1, <2>1, <2>6
      <3>4. ReadDone(LenBlocks(req))'
        BY <2>4, <3>2, <3>3 DEF ReadDone
      <3>5. req.op # "write"
        BY <1>1, Constants
      <3>6. Complete'
        BY <1>1, <3>4, <3>5 DEF Complete
      <3> QED
        BY <1>2, <3>1, <3>6 DEF DataInv, Starting, Reading, Writing, InitSet, ReadCmds, WriteCmds
    <2> QED
      BY <2>5, <2>6
  <1> QED
    BY <1>3, <1>4

LEMMA WriteBlockData ==
  ASSUME IInv, DataInv, NEW taken \in BOOLEAN, WriteBlock(taken) PROVE DataInv'
  <1>1. pc = "wblock" /\ UNCHANGED <<req, b, buf>> /\ CardTakes(taken)
    BY DEF WriteBlock
  <1>2. /\ req \in Writes /\ req.addr \in Nat /\ req.len \in Nat
        /\ b \in Nat /\ disk \in [Blocks -> Int]
        /\ b < req.len /\ WriteDone(b) /\ (owes = "write" => at = req.addr + b)
    BY <1>1, Constants DEF IInv, Types, Commands, DataInv, Writing
  <1>3. CASE taken = FALSE
    BY <1>1, <1>2, <1>3, FailData DEF WriteBlock, CardTakes
  <1>4. CASE taken = TRUE
    <2>1. /\ cmd' = "wait" /\ pc' = "r1" /\ at = req.addr + b /\ at < NumBlocks
          /\ disk' = [disk EXCEPT ![at] = b] /\ at' = at + 1
      BY <1>1, <1>2, <1>4 DEF WriteBlock, CardTakes
    <2>2. at \in Blocks
      BY <1>2, <2>1, SdAssumption DEF Blocks
    <2>3. disk' \in [Blocks -> Int] /\ disk'[at] = b
          /\ \A k \in Blocks : k # at => disk'[k] = disk[k]
      BY <1>2, <2>1, <2>2
    <2>4. WriteDone(b + 1)'
      <3> SUFFICES ASSUME NEW i \in 0 .. b PROVE disk'[req.addr + i] = i
        BY <1>1, <1>2 DEF WriteDone
      <3>1. CASE i = b
        BY <2>1, <2>3, <3>1
      <3>2. CASE i # b
        <4>1. i \in 0 .. b - 1 /\ i < b
          BY <1>2, <3>2
        <4>2. req.addr + i < at /\ req.addr + i \in Nat /\ at \in Nat
          BY <1>2, <2>1, <4>1
        <4>3. req.addr + i \in Blocks
          BY <2>2, <4>2, SdAssumption DEF Blocks
        <4> QED
          BY <1>2, <2>3, <4>1, <4>2, <4>3 DEF WriteDone
      <3> QED
        BY <3>1, <3>2
    <2>5. at' = req.addr + (b + 1)
      BY <1>2, <2>1
    <2>6. Writing'
      BY <1>1, <1>2, <2>1, <2>4, <2>5 DEF Writing, WriteCmds
    <2> QED
      BY <2>1, <2>3, <2>6 DEF DataInv, Starting, Reading, Finished, InitSet, ReadCmds
  <1> QED
    BY <1>3, <1>4

LEMMA CallInitData == ASSUME DataInv, CallInit PROVE DataInv'
  <1>1. pc = "off" /\ pc' = "send" /\ cmd' = "CMD0" /\ UNCHANGED <<req, disk>>
    BY DEF CallInit, cardVars
  <1>2. req' = NoReq
    BY <1>1 DEF DataInv, Starting
  <1> QED
    BY <1>1, <1>2 DEF DataInv, Starting, Reading, Writing, Finished, InitSet, WriteCmds

LEMMA CallData ==
  ASSUME IInv, DataInv, NEW r \in Reads \union RawReads \union Writes, pc = "idle",
         \/ r \in Reads \union RawReads /\ Call(r, "CMD17", "CMD18")
         \/ r \in Writes /\ Call(r, "CMD24", "CMD25"),
         ret = "ok" \/ (ret = "error" /\ req.op = "sig" /\ r \in RawReads)
  PROVE  DataInv'
  <1>1. req' = r /\ b' = 0 /\ UNCHANGED <<owes, at, disk>> /\ r.len \in Nat
    BY Constants DEF Call, cardVars
  <1>2. /\ owes \in {"none", "one"} /\ (owes = "one" => r \in RawReads)
        /\ disk' \in [Blocks -> Int]
    BY <1>1 DEF IInv, TransferOver, DataInv
  <1>3. CASE r.len = 0
    <2>1. pc' = "idle"
      BY <1>3 DEF Call
    <2>2. Complete'
      <3>1. \A n : ReadDone(n)'
        BY <1>1, <1>3 DEF ReadDone
      <3>2. WriteDone(0)'
        BY DEF WriteDone
      <3> QED
        BY <1>1, <1>3, <3>1, <3>2 DEF Complete
    <2> QED
      BY <1>2, <2>1, <2>2 DEF DataInv, Starting, Reading, Writing
  <1>4. CASE r.len > 0
    <2>1. pc' = "send"
      BY <1>4 DEF Call
    <2>2. CASE r \in Reads \union RawReads /\ Call(r, "CMD17", "CMD18")
      <3>1. cmd' \in {"CMD17", "CMD18"} /\ (cmd' = "CMD17" => r \notin RawReads)
        BY <1>4, <2>2, Lengths DEF Call
      <3> QED
        BY <1>1, <1>2, <2>1, <3>1
           DEF DataInv, Starting, Reading, Writing, Finished, InitSet, WriteCmds
    <2>3. CASE r \in Writes /\ Call(r, "CMD24", "CMD25")
      <3>1. cmd' \in {"CMD24", "CMD25"}
        BY <1>4, <2>3 DEF Call
      <3>2. r \notin RawReads
        BY <2>3, Constants
      <3> QED
        BY <1>1, <1>2, <2>1, <3>1, <3>2
           DEF DataInv, Starting, Reading, Writing, Finished, InitSet, WriteCmds
    <2> QED
      BY <2>2, <2>3
  <1> QED
    BY <1>1, <1>3, <1>4

THEOREM DataInvariance == Spec => []DataInv
  <1>1. IInv /\ DataInv /\ [Next]_vars => DataInv'
    <2> SUFFICES ASSUME IInv, DataInv, [Next]_vars PROVE DataInv'
      OBVIOUS
    <2>1. ASSUME \E r \in Reads : CallRead(r) PROVE DataInv'
      BY <2>1, CallData DEF CallRead
    <2>2. ASSUME \E r \in RawReads : CallRawRead(r) PROVE DataInv'
      BY <2>2, CallData DEF CallRawRead
    <2>3. ASSUME \E w \in Writes : CallWrite(w) PROVE DataInv'
      BY <2>3, CallData DEF CallWrite
    <2>4. ASSUME R1Timeout \/ BusyTimeout \/ TokenTimeout \/ TokenError PROVE DataInv'
      <3>1. Fail /\ disk' = disk
        BY <2>4 DEF R1Timeout, BusyTimeout, TokenTimeout, TokenError, cardVars
      <3> QED
        BY <3>1, FailData DEF DataInv
    <2>5. ASSUME R1Gap \/ BusyPoll \/ TokenGap \/ CardReady \/ CardDone \/ CardDies
                 \/ UNCHANGED vars
          PROVE  DataInv'
      <3>1. UNCHANGED <<pc, cmd, req, b, buf, ret, owes, at, disk>>
        BY <2>5 DEF R1Gap, BusyPoll, TokenGap, CardReady, CardDone, CardDies, vars, drvVars, cardVars
      <3> QED
        BY <3>1, StillData
    <2>6. CASE Driver
      BY <2>4, <2>5, <2>6, SendCmdData, InitResponseData, DataResponseData, BusyResponseData,
         BusyOverData, FreeData, TokenData, ReadBlockData, WriteBlockData DEF Driver
    <2> QED
      BY <2>1, <2>2, <2>3, <2>5, <2>6, CallInitData DEF Next
  <1> QED
    BY <1>1, InitData, Invariance, PTL DEF Spec

\* A read that returns 0 has delivered exactly the bytes asked for, for any
\* offset and length, any card that corrupts, rejects or stops answering, and
\* also after a signature read that failed (spi_sdcard.c:239-303, gpt.c:18).
THEOREM ReadsCorrect == Spec => []ReadCorrect
  <1>1. IInv /\ DataInv => ReadCorrect
    <2> SUFFICES ASSUME IInv, DataInv, pc = "idle", ret = "ok", IsRead(req),
                        NEW i \in 0 .. req.len - 1
                 PROVE  buf[i] = <<disk[(req.addr + i) \div BlockSize], req.addr + i>>
      BY DEF ReadCorrect
    <2>1. req \in Reads \union RawReads /\ req.len > 0
      <3>1. req \in Reads \union RawReads
        BY Constants DEF IInv, Types, Requests, IsRead, NoReq
      <3> QED
        BY <3>1, Constants
    <2>2. ReadDone(LenBlocks(req))
      BY DEF DataInv, Finished, Complete
    <2>3. i < LenBlocks(req) * BlockSize - FirstOffs(req)
      <3>1. LenBlocks(req) * BlockSize - FirstOffs(req) \in Int
        BY <2>1, Geometry, Constants
      <3> QED
        BY <2>1, <3>1, AllBlocks, Constants
    <2> QED
      BY <2>2, <2>3 DEF ReadDone
  <1> QED
    BY <1>1, Invariance, DataInvariance, PTL

\* A write that returns 0 has stored every block of the image, each in its
\* place (spi_sdcard.c:313-350).
THEOREM WritesCorrect == Spec => []WriteCorrect
  <1>1. DataInv => WriteCorrect
    BY DEF DataInv, Finished, Complete, WriteDone, WriteCorrect
  <1> QED
    BY <1>1, DataInvariance, PTL

\* A block of the disk only changes in a write, to the block of the image that
\* belongs there.
Confined == \A k \in Blocks : disk'[k] # disk[k] =>
               /\ req \in Writes /\ pc = "wblock" /\ b < req.len
               /\ k = req.addr + b /\ disk'[k] = b

\* Also a write that fails half way, or is still under way, has changed no
\* block outside the range its caller gave, and none inside to anything but
\* what belongs there (spi_sdcard.c:318-340).
THEOREM WritesConfined == Spec => [][Confined]_vars
  <1>1. IInv /\ DataInv /\ [Next]_vars => [Confined]_vars
    <2> SUFFICES ASSUME IInv, DataInv, Next, NEW k \in Blocks, disk'[k] # disk[k]
                 PROVE  /\ req \in Writes /\ pc = "wblock" /\ b < req.len
                        /\ k = req.addr + b /\ disk'[k] = b
      BY DEF Confined
    <2>1. PICK taken \in BOOLEAN : WriteBlock(taken)
      <3>1. CASE Driver
        BY <3>1 DEF Driver, SendCmd, R1Timeout, R1Gap, InitResponse, DataResponse, BusyResponse,
           BusyTimeout, BusyPoll, BusyOver, Free, TokenTimeout, TokenGap, TokenError, Token,
           ReadBlock, cardVars
      <3>2. ASSUME NEW r, NEW c, NEW m, Call(r, c, m) PROVE FALSE
        BY <3>2 DEF Call, cardVars
      <3>3. ASSUME CallInit \/ CardReady \/ CardDone \/ CardDies PROVE FALSE
        BY <3>3 DEF CallInit, CardReady, CardDone, CardDies, cardVars
      <3> QED
        BY <3>1, <3>2, <3>3 DEF Next, CallRead, CallRawRead, CallWrite
    <2>2. taken /\ owes = "write" /\ disk' = [disk EXCEPT ![at] = b] /\ pc = "wblock"
      BY <2>1 DEF WriteBlock, CardTakes
    <2>3. req \in Writes /\ b < req.len /\ at = req.addr + b /\ DOMAIN disk = Blocks
      BY <2>2 DEF IInv, Commands, DataInv, Writing
    <2>4. k = at /\ disk'[k] = b
      BY <2>2, <2>3
    <2> QED
      BY <2>2, <2>3, <2>4
  <1> QED
    BY <1>1, Invariance, DataInvariance, PTL DEF Spec

-----------------------------------------------------------------------------
(* How long a call may take.                                               *)

\* More steps than the polls of a command and of a block take together.
Turn == RespPolls + BusyPolls + DataPolls + 8

Initialising == pc \in {"send", "r1"} /\ cmd \in InitSet

\* Turns left: one for the command, one for every block, two for the end.
Left == CASE pc \in {"send", "r1"} /\ cmd \in ReadCmds \union WriteCmds -> LenBlocks(req) + 2
          [] pc \in {"token", "block", "wblock"} \/ (pc \in {"r1", "r1b"} /\ cmd = "wait")
               -> LenBlocks(req) - b + 1
          [] pc \in {"send", "r1", "r1b"} /\ cmd \in {"CMD12", "stop"} -> 1
          [] OTHER -> 0

\* Steps left of the turn.
Within == CASE pc = "send" -> Turn - 1
            [] pc = "wblock" -> RespPolls + BusyPolls + 6
            [] pc = "r1" -> BusyPolls + 4 + timeout
            [] pc = "r1b" -> 3 + timeout
            [] pc = "token" -> 2 + timeout
            [] pc \in {"block", "free"} -> 1
            [] OTHER -> 0

Remaining == Left * Turn + Within

Clock == /\ pc = "r1" => timeout \in 1 .. RespPolls
         /\ pc = "r1b" => timeout \in 1 .. BusyPolls
         /\ pc = "token" => timeout \in 1 .. DataPolls

\* No call goes on: every step of the driver brings the end of the call
\* nearer, and no step of the card takes it further away.
Nearer == /\ Driver /\ ~Initialising => Remaining' \in 0 .. Remaining - 1
          /\ CardReady \/ CardDone \/ CardDies => UNCHANGED Remaining

Bounded == Remaining \in 0 .. (LenBlocks(req) + 3) * Turn - 1

LEMMA Budgets == /\ RespPolls \in Nat \ {0} /\ BusyPolls \in Nat \ {0} /\ DataPolls \in Nat \ {0}
                 /\ Turn \in Nat /\ Turn = RespPolls + BusyPolls + DataPolls + 8
  BY SdAssumption DEF Turn

LEMMA Lexicographic ==
  ASSUME NEW t \in Nat, NEW x \in Nat, NEW y \in Nat, NEW u \in 0 .. t - 1, NEW v \in 0 .. t - 1,
         y < x \/ (y = x /\ v < u)
  PROVE  y * t + v \in 0 .. (x * t + u) - 1
  <1>1. x * t \in Nat /\ y * t \in Nat
    OBVIOUS
  <1>2. y < x => y * t + t <= x * t
    <2> SUFFICES ASSUME y < x PROVE y * t + t <= x * t
      OBVIOUS
    <2>1. (y + 1) * t <= x * t
      OBVIOUS
    <2>2. (y + 1) * t = y * t + t
      OBVIOUS
    <2> QED
      BY <2>1, <2>2
  <1> QED
    BY <1>1, <1>2

LEMMA Ticks == Spec => []Clock
  <1>1. Init => Clock
    BY DEF Init, Clock
  <1>2. Clock /\ [Next]_vars => Clock'
    <2> SUFFICES ASSUME Clock, [Next]_vars PROVE Clock'
      OBVIOUS
    <2>1. ASSUME R1Timeout \/ BusyTimeout \/ TokenTimeout \/ TokenError PROVE Clock'
      BY <2>1 DEF R1Timeout, BusyTimeout, TokenTimeout, TokenError, Fail, Clock
    <2>2. ASSUME R1Gap \/ BusyPoll \/ TokenGap PROVE Clock'
      BY <2>2, Budgets DEF R1Gap, BusyPoll, TokenGap, Clock
    <2>3. ASSUME SendCmd \/ DataResponse \/ BusyResponse \/ BusyOver \/ Free \/ Token PROVE Clock'
      BY <2>3, Budgets DEF SendCmd, DataResponse, BusyResponse, BusyOver, Free, Token, Clock
    <2>4. ASSUME NEW r, InitResponse(r) PROVE Clock'
      <3>1. pc' \in {"idle", "send"}
        BY <2>4 DEF InitResponse, Fail
      <3> QED
        BY <3>1 DEF Clock
    <2>5. ASSUME NEW good \in BOOLEAN, ReadBlock(good) PROVE Clock'
      <3>1. pc' \in {"idle", "send", "free"} \/ (pc' = "token" /\ timeout' = DataPolls)
        <4>1. CASE good = FALSE
          BY <2>5, <4>1 DEF ReadBlock, Fail
        <4>2. CASE good = TRUE
          BY <2>5, <4>2 DEF ReadBlock
        <4> QED
          BY <4>1, <4>2
      <3> QED
        BY <3>1, Budgets DEF Clock
    <2>6. ASSUME NEW taken \in BOOLEAN, WriteBlock(taken) PROVE Clock'
      <3>1. pc' = "idle" \/ (pc' = "r1" /\ timeout' = RespPolls)
        BY <2>6 DEF WriteBlock, Fail
      <3> QED
        BY <3>1, Budgets DEF Clock
    <2>7. CASE Driver
      BY <2>1, <2>2, <2>3, <2>4, <2>5, <2>6, <2>7 DEF Driver
    <2>8. ASSUME NEW r, NEW c, NEW m, pc = "idle", Call(r, c, m) PROVE Clock'
      BY <2>8 DEF Call, Clock
    <2>9. ASSUME CallInit \/ CardReady \/ CardDone \/ CardDies \/ UNCHANGED vars PROVE Clock'
      BY <2>9 DEF CallInit, CardReady, CardDone, CardDies, vars, drvVars, Clock
    <2> QED
      BY <2>7, <2>8, <2>9 DEF Next, CallRead, CallRawRead, CallWrite
  <1> QED
    BY <1>1, <1>2, PTL DEF Spec

\* Turns and steps left are numbers of turns and steps.
Phases == /\ LenBlocks(req) \in Nat /\ b \in Nat
          /\ Left \in 0 .. LenBlocks(req) + 2 /\ Within \in 0 .. Turn - 1
          /\ Clock /\ Commands
          /\ pc \in {"token", "block", "wblock"} \/ (pc \in {"r1", "r1b"} /\ cmd = "wait")
               => b < LenBlocks(req)

LEMMA InPhase == Spec => []Phases
  <1>1. IInv /\ DataInv /\ Clock => Phases
    <2> SUFFICES ASSUME IInv, DataInv, Clock PROVE Phases
      OBVIOUS
    <2> DEFINE k == LenBlocks(req)
    <2>1. k \in Nat /\ b \in Nat
      <3>1. CASE req \in Reads \union RawReads \union Writes
        <4>1. req.addr \in Nat /\ req.len \in Nat
          BY <3>1, Constants
        <4>2. FirstOffs(req) \in Nat /\ (req.op # "write" => k = (req.len + FirstOffs(req) + BlockSize - 1) \div BlockSize)
          BY <4>1, Constants, Division DEF FirstOffs, LenBlocks
        <4>3. req.op = "write" => k = req.len
          BY DEF LenBlocks
        <4> DEFINE z == req.len + FirstOffs(req) + BlockSize - 1
        <4>4. z \in Nat
          BY <4>1, <4>2, Constants
        <4> HIDE DEF z
        <4>5. z \div BlockSize \in Nat
          BY <4>4, Constants, Division
        <4> QED
          BY <4>1, <4>2, <4>3, <4>5 DEF IInv, Types, z
      <3>2. CASE req = NoReq
        <4>1. 0 \in Nat /\ BlockSize - 1 \in Nat
          BY Constants
        <4>2. 0 % BlockSize = 0 /\ (BlockSize - 1) \div BlockSize \in Nat
          BY <4>1, Constants, Division
        <4>3. 0 + 0 + BlockSize - 1 = BlockSize - 1
          BY Constants
        <4> QED
          BY <3>2, <4>2, <4>3 DEF LenBlocks, FirstOffs, NoReq, IInv, Types
      <3> QED
        BY <3>1, <3>2 DEF IInv, Types, Requests
    <2>2. pc \in {"token", "block", "wblock"} \/ (pc \in {"r1", "r1b"} /\ cmd = "wait") => b < k
      <3>1. pc \in {"token", "block"} => b < k
        BY DEF IInv, Commands
      <3>2. pc = "wblock" \/ (pc \in {"r1", "r1b"} /\ cmd = "wait") => b < req.len /\ k = req.len
        BY Lengths DEF IInv, Commands, DataInv, Writing
      <3> QED
        BY <3>1, <3>2
    <2> HIDE DEF k
    <2>3. Left \in 0 .. k + 2
      BY <2>1, <2>2 DEF Left, k
    <2>4. Within \in 0 .. Turn - 1
      BY Budgets DEF Within, Clock
    <2>5. Commands
      BY DEF IInv, Commands
    <2> QED
      BY <2>1, <2>2, <2>3, <2>4, <2>5 DEF Phases, k
  <1> QED
    BY <1>1, Invariance, DataInvariance, Ticks, PTL

LEMMA DriverNearer ==
  ASSUME Phases, Phases', Driver, ~Initialising
  PROVE  Left' < Left \/ (Left' = Left /\ Within' < Within)
  <1> DEFINE Down == Left' < Left \/ (Left' = Left /\ Within' < Within)
             k == LenBlocks(req)
  <1>1. k \in Nat /\ b \in Nat /\ Commands
    BY DEF Phases
  <1> HIDE DEF k
  <1>2. ASSUME SendCmd PROVE Down
    <2>1. pc = "send" /\ pc' = "r1" /\ UNCHANGED <<cmd, req, b>> /\ timeout' = RespPolls
      BY <1>2 DEF SendCmd
    <2>2. cmd \in ReadCmds \union WriteCmds \union Waits /\ cmd # "wait"
      BY <2>1, <1>1 DEF Commands, Initialising
    <2>3. Left' = Left
      BY <2>1, <2>2 DEF Left, Waits
    <2>4. Within' < Within
      BY <2>1, Budgets DEF Within
    <2> QED
      BY <2>3, <2>4
  <1>3. ASSUME Fail, pc \in {"r1", "r1b", "token", "block", "wblock"} PROVE Down
    <2>1. pc' = "idle"
      BY <1>3 DEF Fail
    <2>2. Left' = 0 /\ Within' = 0
      BY <2>1 DEF Left, Within
    <2>3. Within > 0
      BY <1>3, Budgets DEF Within, Phases, Clock
    <2>4. Left \in Nat
      BY <1>1 DEF Phases
    <2> QED
      BY <2>2, <2>3, <2>4
  <1>4. ASSUME R1Gap \/ BusyPoll \/ TokenGap PROVE Down
    <2>1. pc \in {"r1", "r1b", "token"} /\ UNCHANGED <<pc, cmd, req, b>> /\ timeout' = timeout - 1
      BY <1>4 DEF R1Gap, BusyPoll, TokenGap
    <2>2. Left' = Left
      BY <2>1 DEF Left
    <2>3. Within' < Within
      BY <2>1, Budgets DEF Within, Phases, Clock
    <2> QED
      BY <2>2, <2>3
  <1>5. ASSUME DataResponse PROVE Down
    <2>1. /\ pc = "r1" /\ cmd \in ReadCmds \union WriteCmds /\ b' = 0 /\ req' = req
          /\ pc' \in {"token", "wblock"}
      BY <1>5 DEF DataResponse
    <2>2. Left = k + 2
      BY <2>1 DEF Left, k, ReadCmds, WriteCmds
    <2>3. Left' = k - b' + 1
      BY <2>1 DEF Left, k
    <2> QED
      BY <1>1, <2>1, <2>2, <2>3
  <1>6. ASSUME BusyResponse PROVE Down
    <2>1. /\ pc = "r1" /\ pc' = "r1b" /\ cmd \in {"CMD12", "wait", "stop"} /\ timeout > 1
          /\ timeout' = BusyPolls /\ UNCHANGED <<cmd, req, b>>
      BY <1>6 DEF BusyResponse
    <2>2. Left' = Left
      BY <2>1 DEF Left, ReadCmds, WriteCmds
    <2>3. Within' < Within
      BY <2>1, Budgets DEF Within, Phases, Clock
    <2> QED
      BY <2>2, <2>3
  <1>7. ASSUME BusyOver PROVE Down
    <2>1. pc = "r1b" /\ req' = req /\ cmd \in Waits /\ timeout \in Nat
      BY <1>1, <1>7, Budgets DEF BusyOver, Phases, Clock, Commands
    <2>2. CASE cmd = "wait" /\ b' = b + 1 /\ pc' = "wblock"
      <3>1. Left = k - b + 1 /\ Left' = k - (b + 1) + 1
        BY <2>1, <2>2 DEF Left, k, ReadCmds, WriteCmds
      <3> QED
        BY <1>1, <3>1
    <2>3. CASE cmd = "wait" /\ cmd' = "stop" /\ pc' = "send"
      <3>1. Left = k - b + 1 /\ Left' = 1 /\ b < k
        BY <2>1, <2>3 DEF Left, k, ReadCmds, WriteCmds, Phases
      <3> QED
        BY <1>1, <3>1
    <2>4. CASE pc' = "free"
      <3>1. Left' = 0
        BY <2>4 DEF Left
      <3>2. Left > 0
        <4>1. CASE cmd = "wait"
          <5>1. Left = k - b + 1 /\ b < k
            BY <2>1, <4>1 DEF Left, k, ReadCmds, WriteCmds, Phases
          <5> QED
            BY <1>1, <5>1
        <4>2. CASE cmd \in {"CMD12", "stop"}
          BY <2>1, <4>2 DEF Left
        <4> QED
          BY <2>1, <4>1, <4>2 DEF Waits
      <3> QED
        BY <3>1, <3>2
    <2> QED
      BY <1>7, <2>2, <2>3, <2>4 DEF BusyOver
  <1>8. ASSUME Free PROVE Down
    <2>1. pc = "free" /\ pc' = "idle"
      BY <1>8 DEF Free
    <2> QED
      BY <2>1 DEF Left, Within
  <1>9. ASSUME Token PROVE Down
    <2>1. pc = "token" /\ pc' = "block" /\ UNCHANGED <<req, b>> /\ timeout > 1
      BY <1>9 DEF Token
    <2>2. Left' = Left /\ Within' = 1 /\ Within = 2 + timeout
      BY <2>1 DEF Left, Within
    <2> QED
      BY <2>1, <2>2, Budgets DEF Phases, Clock
  <1>10. ASSUME NEW good \in BOOLEAN, ReadBlock(good) PROVE Down
    <2>1. pc = "block" /\ req' = req /\ b < k /\ cmd \in ReadCmds /\ Left = k - b + 1
      BY <1>1, <1>10 DEF ReadBlock, Commands, Left, k
    <2>2. CASE good = FALSE
      BY <1>3, <1>10, <2>1, <2>2 DEF ReadBlock
    <2>3. CASE good = TRUE
      <3>1. \/ pc' = "token" /\ b' = b + 1
            \/ pc' = "send" /\ cmd' = "CMD12"
            \/ pc' = "free"
        BY <1>10, <2>3 DEF ReadBlock
      <3>2. CASE pc' = "token" /\ b' = b + 1
        <4>1. Left' = k - (b + 1) + 1
          BY <2>1, <3>2 DEF Left, k
        <4> QED
          BY <1>1, <2>1, <4>1
      <3>3. CASE pc' = "send" /\ cmd' = "CMD12"
        <4>1. Left' = 1
          BY <3>3 DEF Left, ReadCmds, WriteCmds
        <4> QED
          BY <1>1, <2>1, <4>1
      <3>4. CASE pc' = "free"
        <4>1. Left' = 0
          BY <3>4 DEF Left
        <4> QED
          BY <1>1, <2>1, <4>1
      <3> QED
        BY <3>1, <3>2, <3>3, <3>4
    <2> QED
      BY <2>2, <2>3
  <1>11. ASSUME NEW taken \in BOOLEAN, WriteBlock(taken) PROVE Down
    <2>1. pc = "wblock" /\ UNCHANGED <<req, b>>
      BY <1>11 DEF WriteBlock
    <2>2. CASE taken = FALSE
      BY <1>3, <1>11, <2>1, <2>2 DEF WriteBlock
    <2>3. CASE taken = TRUE
      <3>1. pc' = "r1" /\ cmd' = "wait" /\ timeout' = RespPolls
        BY <1>11, <2>3 DEF WriteBlock
      <3>2. Left' = Left
        BY <2>1, <3>1 DEF Left, ReadCmds, WriteCmds
      <3>3. Within' < Within
        BY <2>1, <3>1, Budgets DEF Within
      <3> QED
        BY <3>2, <3>3
    <2> QED
      BY <2>2, <2>3
  <1>12. ASSUME NEW r, InitResponse(r) PROVE FALSE
    BY <1>12 DEF InitResponse, Initialising, InitCmds, InitSet
  <1>13. ASSUME R1Timeout \/ BusyTimeout \/ TokenTimeout \/ TokenError PROVE Down
    BY <1>3, <1>13 DEF R1Timeout, BusyTimeout, TokenTimeout, TokenError
  <1> QED
    BY <1>2, <1>4, <1>5, <1>6, <1>7, <1>8, <1>9, <1>10, <1>11, <1>12, <1>13 DEF Driver

LEMMA EachNearer ==
  ASSUME Phases, Phases', [Next]_vars PROVE [Nearer]_vars
  <1>1. /\ Turn \in Nat /\ LenBlocks(req) \in Nat /\ LenBlocks(req)' \in Nat
        /\ Left \in 0 .. LenBlocks(req) + 2 /\ Within \in 0 .. Turn - 1
        /\ Left' \in 0 .. LenBlocks(req)' + 2 /\ Within' \in 0 .. Turn - 1
    BY Budgets DEF Phases
  <1>2. Left \in Nat /\ Left' \in Nat
    BY <1>1
  <1>3. Driver /\ ~Initialising => Remaining' \in 0 .. Remaining - 1
    <2> SUFFICES ASSUME Driver, ~Initialising PROVE Remaining' \in 0 .. Remaining - 1
      OBVIOUS
    <2>1. Left' < Left \/ (Left' = Left /\ Within' < Within)
      BY DriverNearer
    <2>2. Left' * Turn + Within' \in 0 .. (Left * Turn + Within) - 1
      BY <1>1, <1>2, <2>1, Lexicographic
    <2>3. Turn' = Turn
      BY DEF Turn
    <2>4. Remaining = Left * Turn + Within /\ Remaining' = Left' * Turn + Within'
      BY <2>3 DEF Remaining
    <2> QED
      BY <2>2, <2>4, Zenon
  <1>4. CardReady \/ CardDone \/ CardDies => UNCHANGED Remaining
    <2> SUFFICES ASSUME CardReady \/ CardDone \/ CardDies PROVE UNCHANGED Remaining
      OBVIOUS
    <2>1. UNCHANGED <<pc, cmd, req, b, timeout>>
      BY DEF CardReady, CardDone, CardDies, drvVars
    <2> QED
      BY <2>1 DEF Remaining, Left, Within
  <1> QED
    BY <1>3, <1>4 DEF Nearer

\* Every read and write returns within a number of steps of the driver that is
\* known when it is called, whatever the card does: at most the polls of a
\* command and a block (RespPolls, BusyPolls and DataPolls, spi_sdcard.c:130,
\* 140, 254) for each of its blocks and three times more.  The budget never
\* restarts; what runs without one is the repetition of ACMD41 (:177-178).
THEOREM CallsBounded == Spec => []Bounded /\ [][Nearer]_vars
  <1>1. Phases => Bounded
    <2> SUFFICES ASSUME Phases PROVE Bounded
      OBVIOUS
    <2> DEFINE k == LenBlocks(req)
    <2>1. Turn \in Nat /\ k \in Nat /\ Left \in 0 .. k + 2 /\ Within \in 0 .. Turn - 1
      BY Budgets DEF Phases
    <2> HIDE DEF k
    <2>2. Left * Turn \in Nat /\ Left * Turn <= (k + 2) * Turn
      BY <2>1
    <2>3. (k + 3) * Turn = (k + 2) * Turn + Turn
      BY <2>1
    <2> QED
      BY <2>1, <2>2, <2>3 DEF Bounded, Remaining, k
  <1>2. Phases /\ Phases' /\ [Next]_vars => [Nearer]_vars
    BY EachNearer
  <1> QED
    BY <1>1, <1>2, InPhase, PTL DEF Spec
=============================================================================
