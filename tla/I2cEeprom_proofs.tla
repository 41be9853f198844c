--------------------------- MODULE I2cEeprom_proofs ---------------------------
(***************************************************************************)
(* Proofs about I2cEeprom for any FIFO depth, device size and accesses:    *)
(* the format FIFO never overflows, the I2C host is never disabled in the  *)
(* middle of an entry, and a read keeps to its buffer and returns the      *)
(* EEPROM's bytes.                                                         *)
(***************************************************************************)
EXTENDS I2cEeprom, SequenceTheorems, TLAPS

Places == {"idle", "levels", "spin", "fill", "receive"}
IsSeq(q) == \E S : q \in Seq(S)

Types ==
    /\ pc \in Places /\ call \in Accesses /\ offs \in Nat
    /\ chunk \in Nat \X (0 .. Depth) /\ (pc # "idle" => chunk[2] > 0)
    /\ enabled \in BOOLEAN /\ IsSeq(fmt)

\* The driver only fills a queue it has seen empty, and only disables the
\* host while it does so.
QueueEmpty == pc \in {"spin", "fill"} => fmt = <<>>
HostHeld == ~enabled => pc = "fill" /\ Idle

\* The chunks of a read lie within its reach.
ChunkInside == ~call.write /\ pc # "idle" => chunk[1] + chunk[2] <= Reach(call)

Fenced == ~call.write => \A i \in Slots : i >= Reach(call) => buf[i] = Untouched

IInv == Types /\ QueueEmpty /\ HostHeld /\ FmtFits /\ ChunkInside /\ Fenced

Queued == QueueEmpty /\ HostHeld /\ FmtFits

-----------------------------------------------------------------------------
LEMMA Constants ==
  /\ Depth \in Nat /\ Depth > 0 /\ BlockSize \in Nat /\ BlockSize > 0 /\ ByteMod \in Nat /\ ByteMod > 0
  /\ HalfFill \in Nat /\ HalfFill + 4 <= Depth
  <1>1. ByteMod * ByteMod > 0
    BY I2cAssumption
  <1> QED
    BY <1>1, I2cAssumption DEF BlockSize, HalfFill

LEMMA AccessFields ==
  ASSUME NEW c \in Accesses
  PROVE  c.write \in BOOLEAN /\ c.addr \in Nat /\ c.len \in Nat /\ c.len > 0
  BY I2cAssumption

LEMMA FirstLenInRange ==
  ASSUME NEW c \in Accesses PROVE FirstLen(c) \in 1 .. Depth
  BY Constants, AccessFields DEF FirstLen

\* A chunk has a byte and fits into the FIFO, and into what is left.
LEMMA ChunkLenInRange ==
  ASSUME NEW c \in Accesses, NEW done \in Nat, done < c.len
  PROVE  ChunkLen(c, done) \in 1 .. Depth /\ done + ChunkLen(c, done) <= c.len
  BY Constants, AccessFields DEF ChunkLen, Lesser

LEMMA Triple == ASSUME NEW x, NEW y, NEW z PROVE IsSeq(<<x, y, z>>) /\ Len(<<x, y, z>>) = 3
  <1>1. <<x, y, z>> \in Seq({x, y, z})
    OBVIOUS
  <1> QED
    BY <1>1 DEF IsSeq

LEMMA Pair == ASSUME NEW x, NEW y PROVE IsSeq(<<x, y>>) /\ Len(<<x, y>>) = 2
  <1>1. <<x, y>> \in Seq({x, y})
    OBVIOUS
  <1> QED
    BY <1>1 DEF IsSeq

LEMMA Single == ASSUME NEW x PROVE IsSeq(<<x>>) /\ Len(<<x>>) = 1
  <1>1. <<x>> \in Seq({x})
    OBVIOUS
  <1> QED
    BY <1>1 DEF IsSeq

LEMMA Joined ==
  ASSUME NEW s, NEW t, IsSeq(s), IsSeq(t)
  PROVE  IsSeq(s \o t) /\ Len(s \o t) = Len(s) + Len(t)
  <1>1. PICK S : s \in Seq(S)
    BY DEF IsSeq
  <1>2. PICK T : t \in Seq(T)
    BY DEF IsSeq
  <1>3. s \in Seq(S \union T) /\ t \in Seq(S \union T)
    BY <1>1, <1>2
  <1>4. s \o t \in Seq(S \union T) /\ Len(s \o t) = Len(s) + Len(t)
    BY <1>3
  <1> QED
    BY <1>4 DEF IsSeq

LEMMA Shortened ==
  ASSUME NEW s, IsSeq(s), s # <<>>
  PROVE  IsSeq(Tail(s)) /\ Len(Tail(s)) = Len(s) - 1
  <1>1. PICK S : s \in Seq(S)
    BY DEF IsSeq
  <1>2. Tail(s) \in Seq(S) /\ Len(Tail(s)) = Len(s) - 1
    BY <1>1
  <1> QED
    BY <1>2 DEF IsSeq

LEMMA Tabulated ==
  ASSUME NEW n \in Nat, NEW f, f = [b \in 1 .. n |-> f[b]]
  PROVE  IsSeq(f) /\ Len(f) = n
  <1> DEFINE S == {f[b] : b \in 1 .. n}
  <1>1. \A b \in 1 .. n : f[b] \in S
    OBVIOUS
  <1> HIDE DEF S
  <1>2. f \in Seq(S) /\ Len(f) = n
    BY <1>1
  <1> QED
    BY <1>2 DEF IsSeq

LEMMA LenInNat == ASSUME NEW s, IsSeq(s) PROVE Len(s) \in Nat
  BY DEF IsSeq

LEMMA AddressEntries ==
  ASSUME NEW a, NEW stop
  PROVE  IsSeq(Address(a, stop)) /\ Len(Address(a, stop)) = 3
  BY Triple DEF Address

\* What a chunk of a write queues fits into an empty FIFO.
LEMMA WriteEntriesFit ==
  ASSUME NEW at, NEW n \in 1 .. Depth
  PROVE  IsSeq(WriteEntries(at, n)) /\ Len(WriteEntries(at, n)) <= Depth
  <1> DEFINE m == Lesser(n - 1, HalfFill)
             body == [b \in 1 .. m |-> Entry("data", Source(at + b - 1), FALSE)]
             head == Address(call.addr + at, FALSE)
             end == <<Entry("data", Source(at + n - 1), FALSE)>>
  <1>1. m \in Nat /\ m <= HalfFill
    BY Constants DEF Lesser
  <1>2. IsSeq(body) /\ Len(body) = m
    <2>1. body = [b \in 1 .. m |-> body[b]]
      OBVIOUS
    <2> HIDE DEF m, body
    <2> QED
      BY <1>1, <2>1, Tabulated
  <1>3. IsSeq(head) /\ Len(head) = 3
    BY AddressEntries
  <1>4. IsSeq(end) /\ Len(end) = 1
    BY Single
  <1>5. WriteEntries(at, n) = head \o body \o end
    BY DEF WriteEntries
  <1> HIDE DEF m, body, head, end
  <1>6. IsSeq(head \o body) /\ Len(head \o body) = 3 + m
    BY <1>2, <1>3, Joined
  <1>7. IsSeq(head \o body \o end) /\ Len(head \o body \o end) = 3 + m + 1
    BY <1>4, <1>6, Joined
  <1> QED
    BY <1>1, <1>5, <1>7, Constants

LEMMA ReadEntriesFit ==
  ASSUME NEW a, NEW x, NEW y
  PROVE  IsSeq(Address(a, TRUE) \o <<x, y>>) /\ Len(Address(a, TRUE) \o <<x, y>>) <= Depth
  <1> DEFINE head == Address(a, TRUE)
             end == <<x, y>>
  <1>1. IsSeq(head) /\ Len(head) = 3
    BY AddressEntries
  <1>2. IsSeq(end) /\ Len(end) = 2
    BY Pair
  <1> HIDE DEF head, end
  <1>3. IsSeq(head \o end) /\ Len(head \o end) = Len(head) + Len(end)
    BY <1>1, <1>2, Joined
  <1>4. Depth >= 5
    BY I2cAssumption
  <1>5. IsSeq(head \o end) /\ Len(head \o end) <= Depth
    BY <1>1, <1>2, <1>3, <1>4, Constants
  <1> QED
    BY <1>5, Zenon DEF head, end

-----------------------------------------------------------------------------
LEMMA InitIInv == Init => IInv
  <1> SUFFICES ASSUME Init PROVE IInv
    OBVIOUS
  <1>1. Types
    <2>1. IsSeq(<<>>)
      <3>1. <<>> \in Seq({})
        OBVIOUS
      <3> QED
        BY <3>1 DEF IsSeq
    <2> QED
      BY <2>1, Constants DEF Init, Types, Places, Untouched
  <1>2. Queued
    BY Constants DEF Init, Queued, QueueEmpty, HostHeld, FmtFits, Idle
  <1>3. ChunkInside /\ Fenced
    BY DEF Init, ChunkInside, Fenced
  <1> QED
    BY <1>1, <1>2, <1>3 DEF IInv, Queued

LEMMA AccessPreserves == ASSUME IInv, NEW c \in Accesses, Access(c) PROVE IInv'
  <1> USE DEF Access
  <1>1. ChunkLen(c, 0) \in 1 .. Depth /\ ChunkLen(c, 0) <= c.len
    <2>1. 0 < c.len
      BY AccessFields
    <2> QED
      BY <2>1, ChunkLenInRange
  <1>2. /\ chunk'[1] = 0
        /\ chunk' \in Nat \X (0 .. Depth) /\ chunk'[2] > 0 /\ offs' \in Nat
    BY <1>1, Constants, FirstLenInRange
  <1>3. Types'
    BY <1>2 DEF IInv, Types, Places, Untouched, bus
  <1>4. Queued'
    BY DEF IInv, Queued, QueueEmpty, HostHeld, FmtFits, Idle, bus
  <1>5. ChunkInside'
    BY <1>1, <1>2, AccessFields, FirstLenInRange, Constants DEF ChunkInside, Reach, FirstLen
  <1>6. Fenced'
    BY DEF Fenced
  <1> QED
    BY <1>3, <1>4, <1>5, <1>6 DEF IInv, Queued

\* The chunk that follows lies behind the bytes already handed out.
LEMMA NextChunkInRange ==
  ASSUME Types, NextChunk
  PROVE  /\ chunk' \in Nat \X (0 .. Depth) /\ offs' \in Nat /\ pc' \in {"idle", "levels"}
         /\ pc' = "levels" => chunk'[2] > 0 /\ chunk'[1] + chunk'[2] <= call.len
  <1>1. CASE offs < call.len
    <2>1. ChunkLen(call, offs) \in 1 .. Depth /\ offs + ChunkLen(call, offs) <= call.len
      BY <1>1, ChunkLenInRange DEF Types
    <2> QED
      BY <1>1, <2>1, Constants DEF NextChunk, Types
  <1>2. CASE ~(offs < call.len)
    BY <1>2 DEF NextChunk, Types
  <1> QED
    BY <1>1, <1>2

LEMMA LevelsPreserves == ASSUME IInv, Levels PROVE IInv'
  <1>1. Types'
    BY DEF IInv, Types, Levels, Places, bus
  <1>2. Queued'
    BY DEF IInv, Queued, Levels, QueueEmpty, HostHeld, FmtFits, Idle, bus
  <1>3. ChunkInside' /\ Fenced'
    BY DEF IInv, Levels, ChunkInside, Fenced, Reach, FirstLen
  <1> QED
    BY <1>1, <1>2, <1>3 DEF IInv, Queued

LEMMA DisablePreserves == ASSUME IInv, Disable PROVE IInv'
  <1>1. Types'
    BY DEF IInv, Types, Disable, Places
  <1>2. Queued'
    BY DEF IInv, Queued, Disable, QueueEmpty, HostHeld, FmtFits, Idle
  <1>3. ChunkInside' /\ Fenced'
    BY DEF IInv, Disable, ChunkInside, Fenced, Reach, FirstLen
  <1> QED
    BY <1>1, <1>2, <1>3 DEF IInv, Queued

LEMMA FillWritePreserves == ASSUME IInv, FillWrite PROVE IInv'
  <1> USE DEF FillWrite
  <1>1. IsSeq(fmt') /\ Len(fmt') <= Depth
    BY WriteEntriesFit DEF IInv, Types
  <1>2. /\ chunk' \in Nat \X (0 .. Depth) /\ offs' \in Nat /\ pc' \in {"idle", "levels"}
        /\ pc' = "levels" => chunk'[2] > 0
    <2>1. CASE chunk[2] > HalfFill
      BY <2>1, Constants DEF IInv, Types
    <2>2. CASE ~(chunk[2] > HalfFill)
      BY <2>2, NextChunkInRange DEF IInv
    <2> QED
      BY <2>1, <2>2
  <1>3. Types'
    BY <1>1, <1>2 DEF IInv, Types, Places
  <1>4. Queued'
    BY <1>1, <1>2 DEF Queued, QueueEmpty, HostHeld, FmtFits
  <1>5. ChunkInside' /\ Fenced'
    BY DEF ChunkInside, Fenced, Reach, FirstLen
  <1> QED
    BY <1>3, <1>4, <1>5 DEF IInv, Queued

LEMMA FillReadPreserves == ASSUME IInv, FillRead PROVE IInv'
  <1> USE DEF FillRead
  <1>1. IsSeq(fmt') /\ Len(fmt') <= Depth
    BY ReadEntriesFit
  <1>2. Types'
    BY <1>1 DEF IInv, Types, Places
  <1>3. Queued'
    BY <1>1 DEF Queued, QueueEmpty, HostHeld, FmtFits
  <1>4. ChunkInside' /\ Fenced'
    BY DEF IInv, ChunkInside, Fenced, Reach, FirstLen
  <1> QED
    BY <1>2, <1>3, <1>4 DEF IInv, Queued

LEMMA ReceivePreserves == ASSUME IInv, Receive PROVE IInv'
  <1> USE DEF Receive
  <1>1. /\ chunk' \in Nat \X (0 .. Depth) /\ offs' \in Nat /\ pc' \in {"idle", "levels"}
        /\ pc' = "levels" => chunk'[2] > 0 /\ chunk'[1] + chunk'[2] <= call.len
    BY NextChunkInRange DEF IInv
  <1>2. Types'
    BY <1>1 DEF IInv, Types, Places
  <1>3. Queued'
    BY <1>1 DEF IInv, Queued, QueueEmpty, HostHeld, FmtFits, Idle
  <1>4. ChunkInside'
    <2>1. call.len \in Nat /\ FirstLen(call) \in Nat /\ call \in Accesses
      BY AccessFields, FirstLenInRange DEF IInv, Types
    <2>2. call.len <= Reach(call) /\ Reach(call) \in Nat
      BY <2>1 DEF Reach
    <2>3. Reach(call') = Reach(call) /\ call'.write = call.write
      BY DEF Reach, FirstLen
    <2>4. ASSUME pc' = "levels" PROVE chunk'[1] + chunk'[2] <= Reach(call)
      <3>1. chunk'[1] \in Nat /\ chunk'[2] \in Nat
        BY <1>2 DEF Types
      <3> QED
        BY <1>1, <2>1, <2>2, <2>4, <3>1
    <2> QED
      BY <1>1, <2>3, <2>4 DEF ChunkInside
  <1>5. Fenced'
    <2> SUFFICES ASSUME ~call.write, NEW i \in Slots, i >= Reach(call) PROVE buf'[i] = Untouched
      BY DEF Fenced, Reach, FirstLen
    <2>1. buf[i] = Untouched
      BY DEF IInv, Fenced
    <2>2. i - chunk[1] \notin 0 .. chunk[2] - 1
      <3>1. chunk[1] + chunk[2] <= Reach(call)
        BY DEF IInv, ChunkInside
      <3>2. chunk[1] \in Nat /\ chunk[2] \in Nat /\ Reach(call) \in Nat /\ i \in Int
        BY AccessFields, FirstLenInRange DEF Reach, IInv, Types, Slots
      <3> QED
        BY <3>1, <3>2
    <2> QED
      BY <2>1, <2>2
  <1> QED
    BY <1>2, <1>3, <1>4, <1>5 DEF IInv, Queued

LEMMA HostPreserves == ASSUME IInv, Host PROVE IInv'
  <1>1. UNCHANGED driver /\ enabled' = enabled /\ enabled
    BY DEF Host, HostTake, HostSent, HostReceived
  <1>2. fmt' = fmt \/ (fmt # <<>> /\ fmt' = Tail(fmt))
    BY DEF Host, HostTake, HostSent, HostReceived
  <1>3. IsSeq(fmt') /\ Len(fmt') <= Depth /\ (fmt = <<>> => fmt' = <<>>)
    <2>1. IsSeq(fmt) /\ Len(fmt) \in Nat /\ Len(fmt) <= Depth
      BY LenInNat DEF IInv, Types, FmtFits
    <2>2. CASE fmt # <<>> /\ fmt' = Tail(fmt)
      <3>1. IsSeq(Tail(fmt)) /\ Len(Tail(fmt)) = Len(fmt) - 1
        BY <2>1, <2>2, Shortened
      <3> QED
        BY <2>1, <2>2, <3>1, Constants
    <2>3. CASE fmt' = fmt
      BY <2>1, <2>3
    <2> QED
      BY <1>2, <2>2, <2>3
  <1>4. Types'
    BY <1>1, <1>3 DEF IInv, Types, driver
  <1>5. Queued'
    BY <1>1, <1>3 DEF IInv, Queued, QueueEmpty, HostHeld, FmtFits, driver
  <1>6. ChunkInside' /\ Fenced'
    BY <1>1 DEF IInv, ChunkInside, Fenced, Reach, FirstLen, driver
  <1> QED
    BY <1>4, <1>5, <1>6 DEF IInv, Queued

LEMMA StutterPreserves == ASSUME IInv, UNCHANGED vars PROVE IInv'
  BY DEF IInv, vars, driver, bus, Types, QueueEmpty, HostHeld, FmtFits, ChunkInside, Fenced,
         Reach, FirstLen, Idle

\* The queue, the driver's place and the chunk being handled stay in step,
\* whatever the host does meanwhile.
THEOREM Invariance == Spec => []IInv
  <1>1. IInv /\ [Next]_vars => IInv'
    <2> SUFFICES ASSUME IInv, [Next]_vars PROVE IInv'
      OBVIOUS
    <2>1. ASSUME NEW c \in Accesses, Access(c) PROVE IInv'
      BY <2>1, AccessPreserves
    <2>2. CASE Levels
      BY <2>2, LevelsPreserves
    <2>3. CASE Disable
      BY <2>3, DisablePreserves
    <2>4. CASE FillWrite
      BY <2>4, FillWritePreserves
    <2>5. CASE FillRead
      BY <2>5, FillReadPreserves
    <2>6. CASE Receive
      BY <2>6, ReceivePreserves
    <2>7. CASE Host
      BY <2>7, HostPreserves
    <2>8. CASE UNCHANGED vars
      BY <2>8, StutterPreserves
    <2> QED
      BY <2>1, <2>2, <2>3, <2>4, <2>5, <2>6, <2>7, <2>8 DEF Next, Driver, Rest
  <1> QED
    BY InitIInv, <1>1, PTL DEF Spec

\* The format FIFO never holds more than its depth and the host is never
\* disabled while it sends an entry, for every depth and every access
\* (i2c_24fc1025.c:49-54, 65-71).
THEOREM FifosCorrect == Spec => []FifosSound
  <1>1. IInv => FifosSound
    BY DEF IInv, HostHeld, FifosSound, NothingCut
  <1> QED
    BY <1>1, Invariance, PTL

\* No read writes behind its buffer, except for the short ones between two
\* FIFO boundaries, which end at the second (i2c_24fc1025.c:102-116).
THEOREM ReadsFenced == Spec => []BufferFenced
  <1>1. IInv => BufferFenced
    BY DEF IInv, Fenced, BufferFenced
  <1> QED
    BY <1>1, Invariance, PTL

-----------------------------------------------------------------------------
(* What reads return.                                                      *)

\* The entries of a write and of an address.
PlainEntry == [op : {"start", "high", "low", "data"}, data : Int, stop : BOOLEAN]

\* The EEPROM keeps its shape.
Memory(m) == m = [a \in 0 .. 2 * BlockSize - 1 |-> m[a]]
RomFields == /\ rom = [mem |-> rom.mem, block |-> rom.block, at |-> rom.at,
                       pending |-> rom.pending]
             /\ Memory(rom.mem)

Quiet == Idle /\ fmt = <<>>

\* Outside the wait of a read, no entry of a read is under way; a chunk is
\* queued on a quiet bus.
NoReadQueued == /\ IsSeq(rx)
                /\ pc = "fill" => Quiet
                /\ pc # "receive" => /\ rx = <<>> /\ fmt \in Seq(PlainEntry)
                                    /\ busy \in PlainEntry \union {Sending}

\* The byte i of a read, in the lower block.
ByteOf(i) == rom.mem[(call.addr + i) % BlockSize]

\* The entries of a chunk of a read.
ReadEntries == LET addr == call.addr + chunk[1]
               IN  Address(addr, TRUE) \o <<Entry("start", CtrlByte(addr) + 1, FALSE),
                                            Entry("read", chunk[2], FALSE)>>

\* The EEPROM and the RX FIFO once the first k entries are sent.
Sent(k) == /\ k \in 1 .. 4 => rom.block = 0 /\ rom.pending = <<>>
           /\ k = 2 => rom.at = (((call.addr + chunk[1]) \div ByteMod) % ByteMod) * ByteMod
           /\ k \in 3 .. 4 => rom.at = (call.addr + chunk[1]) % BlockSize
           /\ k < 5 => rx = <<>>
           /\ k = 5 => Len(rx) = chunk[2]

\* The last entry, while its bytes come in.
Reading == /\ busy = Entry("read", chunk[2] - Len(rx), FALSE) /\ Len(rx) < chunk[2]
           /\ rom.block = 0 /\ rom.at = (call.addr + chunk[1] + Len(rx)) % BlockSize

\* The transfer of a chunk is somewhere along its entries, and what came in is
\* the bytes asked for.
Transfer == /\ \E k \in 0 .. 5 : /\ fmt = SubSeq(ReadEntries, k + 1, 5)
                                 /\ \/ Idle /\ Sent(k)
                                    \/ k \in 1 .. 4 /\ busy = ReadEntries[k] /\ Sent(k - 1)
                                    \/ k = 5 /\ Reading
            /\ \A j \in 1 .. Len(rx) : rx[j] = ByteOf(chunk[1] + (j - 1))

\* The chunks of a read follow each other without a gap.
NoGap == pc # "idle" => IF offs < call.len THEN chunk[1] + chunk[2] = offs
                        ELSE chunk[1] + chunk[2] >= call.len

\* Bytes of the access received by now.
Handed == IF pc # "idle" THEN chunk[1] ELSE IF calls = 0 THEN 0 ELSE call.len

ReadInv == /\ RomFields /\ NoReadQueued
           /\ pc = "receive" => ~call.write /\ Transfer
           /\ ~call.write => /\ NoGap
                             /\ pc # "receive" /\ Handed > 0 => Quiet
                             /\ \A i \in Slots : i < Handed => buf[i] = ByteOf(i)

-----------------------------------------------------------------------------
(* Addresses.                                                              *)

LEMMA LongestFits == ASSUME NEW c \in Accesses PROVE c.len <= Longest /\ Longest \in Nat
  <1>1. PICK d \in Accesses : \A e \in Accesses : e.len <= d.len
    BY I2cAssumption
  <1>2. d.len \in {e.len : e \in Accesses}
    BY <1>1
  <1>3. Longest \in {e.len : e \in Accesses} /\ \A e \in Accesses : e.len <= Longest
    BY <1>1, <1>2 DEF Longest
  <1> QED
    BY <1>3, AccessFields

\* The block bit never gets through.
LEMMA CtrlConstant == ASSUME NEW a \in Nat PROVE CtrlByte(a) = 160
  <1>1. a \div BlockSize \in Nat
    BY Constants
  <1>2. ASSUME NEW b \in Nat PROVE (160 + (b % 2) * 2^15) % 256 = 160
    <2>1. 2^15 = 32768 /\ (b % 2 = 0 \/ b % 2 = 1)
      OBVIOUS
    <2> QED
      BY <2>1
  <1> QED
    BY <1>1, <1>2 DEF CtrlByte

LEMMA Division ==
  ASSUME NEW a \in Nat, NEW m \in Nat, m > 0
  PROVE  a \div m \in Nat /\ a % m \in 0 .. m - 1 /\ a = m * (a \div m) + (a % m)
  OBVIOUS

LEMMA Remainder ==
  ASSUME NEW m \in Nat, m > 0, NEW q \in Nat, NEW r \in 0 .. m - 1
  PROVE  (m * q + r) % m = r
  <1> DEFINE a == m * q + r
             p == a \div m
             s == a % m
  <1>1. a \in Nat
    OBVIOUS
  <1>2. p \in Nat /\ s \in 0 .. m - 1 /\ m * q + r = m * p + s
    BY <1>1, Division
  <1> HIDE DEF p, s
  <1>3. ASSUME p >= q + 1 PROVE FALSE
    <2>1. m * p >= m * (q + 1)
      BY <1>2, <1>3
    <2>2. m * (q + 1) = m * q + m /\ m * q \in Nat /\ m * p \in Nat
      BY <1>2
    <2> QED
      BY <1>2, <2>1, <2>2
  <1>4. ASSUME q >= p + 1 PROVE FALSE
    <2>1. m * q >= m * (p + 1)
      BY <1>2, <1>4
    <2>2. m * (p + 1) = m * p + m /\ m * q \in Nat /\ m * p \in Nat
      BY <1>2
    <2> QED
      BY <1>2, <2>1, <2>2
  <1>5. p = q
    BY <1>2, <1>3, <1>4
  <1>6. s = r
    BY <1>2, <1>5
  <1> QED
    BY <1>6 DEF s

\* The two address bytes name the byte of the block.
LEMMA AddressBytes ==
  ASSUME NEW a \in Nat
  PROVE  ((a \div ByteMod) % ByteMod) * ByteMod + (a % ByteMod) = a % BlockSize
  <1> DEFINE q == a \div ByteMod
             r == a % ByteMod
             h == q % ByteMod
             t == q \div ByteMod
  <1>1. q \in Nat /\ r \in 0 .. ByteMod - 1 /\ a = ByteMod * q + r
    BY Constants, Division
  <1>2. t \in Nat /\ h \in 0 .. ByteMod - 1 /\ q = ByteMod * t + h
    BY <1>1, Constants, Division
  <1> HIDE DEF q, r, h, t
  <1>3. a = BlockSize * t + (h * ByteMod + r)
    <2>1. ByteMod * (ByteMod * t + h) = BlockSize * t + h * ByteMod
      BY <1>2, Constants DEF BlockSize
    <2>2. BlockSize * t \in Nat /\ h * ByteMod \in Nat /\ r \in Nat /\ ByteMod * q \in Nat
      BY <1>1, <1>2, Constants
    <2> QED
      BY <1>1, <1>2, <2>1, <2>2
  <1>4. h * ByteMod + r \in 0 .. BlockSize - 1
    <2>1. h * ByteMod <= (ByteMod - 1) * ByteMod /\ h * ByteMod \in Nat
      BY <1>2, Constants
    <2>2. (ByteMod - 1) * ByteMod = BlockSize - ByteMod
      BY Constants DEF BlockSize
    <2> QED
      BY <1>1, <2>1, <2>2, Constants
  <1>5. a % BlockSize = h * ByteMod + r
    BY <1>2, <1>3, <1>4, Constants, Remainder
  <1> QED
    BY <1>5 DEF q, r, h

\* The address wraps around in its block.
LEMMA NextAddress ==
  ASSUME NEW a \in Nat PROVE ((a % BlockSize) + 1) % BlockSize = (a + 1) % BlockSize
  <1> DEFINE q == a \div BlockSize
             r == a % BlockSize
             m == BlockSize
  <1>1. q \in Nat /\ r \in 0 .. m - 1 /\ a = m * q + r /\ m \in Nat /\ m > 0
    BY Constants, Division
  <1> HIDE DEF q, r, m
  <1>2. m * q \in Nat
    BY <1>1
  <1>3. CASE r + 1 <= m - 1
    <2>1. a + 1 = m * q + (r + 1) /\ r + 1 \in 0 .. m - 1
      BY <1>1, <1>2, <1>3
    <2>2. (a + 1) % m = r + 1
      BY <1>1, <2>1, Remainder
    <2>3. r + 1 = m * 0 + (r + 1)
      BY <1>1
    <2>4. (r + 1) % m = r + 1
      BY <1>1, <2>1, <2>3, Remainder
    <2> QED
      BY <2>2, <2>4, Zenon DEF r, m
  <1>4. CASE ~(r + 1 <= m - 1)
    <2>1. r + 1 = m
      BY <1>1, <1>4
    <2>2. m * (q + 1) = m * q + m /\ q + 1 \in Nat
      BY <1>1
    <2>3. a + 1 = m * (q + 1) + 0 /\ r + 1 = m * 1 + 0 /\ 0 \in 0 .. m - 1
      BY <1>1, <1>2, <2>1, <2>2
    <2>4. (a + 1) % m = 0 /\ (r + 1) % m = 0
      BY <1>1, <2>2, <2>3, Remainder
    <2> QED
      BY <2>4, Zenon DEF r, m
  <1> QED
    BY <1>3, <1>4

-----------------------------------------------------------------------------
(* Entries and queues.                                                     *)

LEMMA TripleIn ==
  ASSUME NEW S, NEW x \in S, NEW y \in S, NEW z \in S PROVE <<x, y, z>> \in Seq(S)
  OBVIOUS

LEMMA TabulatedIn ==
  ASSUME NEW S, NEW n \in Nat, NEW f, f = [b \in 1 .. n |-> f[b]],
         \A b \in 1 .. n : f[b] \in S
  PROVE  f \in Seq(S)
  OBVIOUS

LEMMA SingleIn == ASSUME NEW S, NEW x \in S PROVE <<x>> \in Seq(S)
  OBVIOUS

LEMMA JoinFive ==
  ASSUME NEW a, NEW b, NEW c, NEW d, NEW e
  PROVE  <<a, b, c>> \o <<d, e>> = <<a, b, c, d, e>>
  <1> DEFINE S == {a, b, c, d, e}
             s == <<a, b, c>>
             t == <<d, e>>
             u == <<a, b, c, d, e>>
  <1>1. s \in Seq(S) /\ t \in Seq(S) /\ u \in Seq(S) /\ Len(s) = 3 /\ Len(t) = 2 /\ Len(u) = 5
    OBVIOUS
  <1>2. /\ s[1] = a /\ s[2] = b /\ s[3] = c /\ t[1] = d /\ t[2] = e
        /\ u[1] = a /\ u[2] = b /\ u[3] = c /\ u[4] = d /\ u[5] = e
    OBVIOUS
  <1> HIDE DEF S, s, t, u
  <1>3. /\ s \o t \in Seq(S) /\ Len(s \o t) = 5
        /\ \A i \in 1 .. 5 : (s \o t)[i] = IF i <= 3 THEN s[i] ELSE t[i - 3]
    <2>1. /\ s \o t \in Seq(S) /\ Len(s \o t) = Len(s) + Len(t)
          /\ \A i \in 1 .. Len(s) + Len(t) :
                 (s \o t)[i] = IF i <= Len(s) THEN s[i] ELSE t[i - Len(s)]
      BY <1>1, ConcatProperties
    <2> QED
      BY <1>1, <2>1
  <1>4. ASSUME NEW i \in 1 .. 5 PROVE (s \o t)[i] = u[i]
    <2>1. i = 1 \/ i = 2 \/ i = 3 \/ i = 4 \/ i = 5
      OBVIOUS
    <2> QED
      BY <2>1, <1>2, <1>3
  <1>5. s \o t = u
    BY <1>1, <1>3, <1>4, SeqEqual
  <1> QED
    BY <1>5 DEF s, t, u

LEMMA AddressPlain ==
  ASSUME NEW a \in Nat, NEW stop \in BOOLEAN PROVE Address(a, stop) \in Seq(PlainEntry)
  <1>1. CtrlByte(a) \in Int /\ (a \div ByteMod) % ByteMod \in Int /\ a % ByteMod \in Int
    BY CtrlConstant, Constants
  <1>2. ASSUME NEW op \in {"start", "high", "low", "data"}, NEW d \in Int, NEW st \in BOOLEAN
        PROVE  Entry(op, d, st) \in PlainEntry
    BY DEF Entry, PlainEntry
  <1>3. /\ Entry("start", CtrlByte(a), FALSE) \in PlainEntry
        /\ Entry("high", (a \div ByteMod) % ByteMod, FALSE) \in PlainEntry
        /\ Entry("low", a % ByteMod, stop) \in PlainEntry
    BY <1>1, <1>2
  <1> QED
    BY <1>3, TripleIn DEF Address

LEMMA WriteEntriesPlain ==
  ASSUME NEW at \in Nat, NEW n \in 1 .. Depth, call \in Accesses
  PROVE  WriteEntries(at, n) \in Seq(PlainEntry)
  <1> DEFINE m == Lesser(n - 1, HalfFill)
             body == [b \in 1 .. m |-> Entry("data", Source(at + b - 1), FALSE)]
             head == Address(call.addr + at, FALSE)
             end == <<Entry("data", Source(at + n - 1), FALSE)>>
  <1>1. ASSUME NEW d \in Int PROVE Entry("data", Source(d), FALSE) \in PlainEntry
    BY <1>1, Constants DEF Entry, PlainEntry, Source
  <1>2. m \in Nat
    BY Constants DEF Lesser
  <1>3. body \in Seq(PlainEntry)
    <2>1. \A b \in 1 .. m : at + b - 1 \in Int
      BY <1>2
    <2>2. \A b \in 1 .. m : Entry("data", Source(at + b - 1), FALSE) \in PlainEntry
      BY <1>1, <2>1
    <2> HIDE DEF m
    <2>3. body = [b \in 1 .. m |-> body[b]] /\ \A b \in 1 .. m : body[b] \in PlainEntry
      BY <2>2
    <2> HIDE DEF body
    <2> QED
      BY <1>2, <2>3, TabulatedIn
  <1>4. end \in Seq(PlainEntry)
    <2>1. at + n - 1 \in Int
      OBVIOUS
    <2>2. Entry("data", Source(at + n - 1), FALSE) \in PlainEntry
      BY <1>1, <2>1
    <2> QED
      BY <2>2, SingleIn
  <1>5. head \in Seq(PlainEntry)
    <2>1. call.addr + at \in Nat
      BY AccessFields
    <2> QED
      BY <2>1, AddressPlain
  <1>6. WriteEntries(at, n) = head \o body \o end
    BY DEF WriteEntries
  <1> HIDE DEF body, head, end
  <1> QED
    BY <1>3, <1>4, <1>5, <1>6

\* The address of the chunk.
At == call.addr + chunk[1]

LEMMA ChunkFields ==
  ASSUME Types
  PROVE  /\ At \in Nat /\ chunk[1] \in Nat /\ chunk[2] \in 0 .. Depth /\ call.addr \in Nat
         /\ call.len \in Nat /\ call.write \in BOOLEAN /\ (pc # "idle" => chunk[2] > 0)
  BY AccessFields DEF Types, At

LEMMA FiveEntries ==
  ASSUME Types
  PROVE  /\ IsSeq(ReadEntries) /\ Len(ReadEntries) = 5
         /\ ReadEntries[1] = Entry("start", 160, FALSE)
         /\ ReadEntries[2] = Entry("high", (At \div ByteMod) % ByteMod, FALSE)
         /\ ReadEntries[3] = Entry("low", At % ByteMod, TRUE)
         /\ ReadEntries[4] = Entry("start", 161, FALSE)
         /\ ReadEntries[5] = Entry("read", chunk[2], FALSE)
  <1> DEFINE e1 == Entry("start", 160, FALSE)
             e2 == Entry("high", (At \div ByteMod) % ByteMod, FALSE)
             e3 == Entry("low", At % ByteMod, TRUE)
             e4 == Entry("start", 161, FALSE)
             e5 == Entry("read", chunk[2], FALSE)
  <1>1. CtrlByte(At) = 160 /\ CtrlByte(At) + 1 = 161
    BY ChunkFields, CtrlConstant
  <1>2. ReadEntries = <<e1, e2, e3>> \o <<e4, e5>>
    BY <1>1 DEF ReadEntries, Address, At
  <1> HIDE DEF e1, e2, e3, e4, e5
  <1>3. <<e1, e2, e3>> \o <<e4, e5>> = <<e1, e2, e3, e4, e5>>
    BY JoinFive
  <1>4. <<e1, e2, e3, e4, e5>> \in Seq({e1, e2, e3, e4, e5})
    OBVIOUS
  <1>5. IsSeq(ReadEntries) /\ Len(ReadEntries) = 5
    BY <1>2, <1>3, <1>4 DEF IsSeq
  <1>6. /\ ReadEntries[1] = e1 /\ ReadEntries[2] = e2 /\ ReadEntries[3] = e3
        /\ ReadEntries[4] = e4 /\ ReadEntries[5] = e5
    BY <1>2, <1>3
  <1> QED
    BY <1>5, <1>6 DEF e1, e2, e3, e4, e5

\* The rest of a queue.
LEMMA RestOfQueue ==
  ASSUME NEW q, IsSeq(q), Len(q) = 5, NEW k \in 0 .. 5
  PROVE  /\ Len(SubSeq(q, k + 1, 5)) = 5 - k
         /\ k < 5 => /\ SubSeq(q, k + 1, 5) # <<>>
                     /\ Head(SubSeq(q, k + 1, 5)) = q[k + 1]
                     /\ Tail(SubSeq(q, k + 1, 5)) = SubSeq(q, k + 2, 5)
         /\ k = 5 => SubSeq(q, k + 1, 5) = <<>>
         /\ k = 0 => SubSeq(q, k + 1, 5) = q
  <1>1. PICK S : q \in Seq(S)
    BY DEF IsSeq
  <1> DEFINE s == SubSeq(q, k + 1, 5)
             t == SubSeq(q, k + 2, 5)
  <1>2. \A i \in 1 .. 5 : q[i] \in S
    <2>1. \A i \in 1 .. Len(q) : q[i] \in S
      BY <1>1, ElementOfSeq
    <2> QED
      BY <2>1
  <1>3. /\ s \in Seq(S) /\ Len(s) = 5 - k
        /\ \A i \in 1 .. 5 - k : s[i] = q[k + i]
    <2>1. \A i \in k + 1 .. 5 : q[i] \in S
      BY <1>2
    <2> QED
      BY <2>1, SubSeqProperties
  <1>4. /\ t \in Seq(S) /\ Len(t) = IF k < 5 THEN 4 - k ELSE 0
        /\ \A i \in 1 .. 4 - k : t[i] = q[k + i + 1]
    <2>1. \A i \in k + 2 .. 5 : q[i] \in S
      BY <1>2
    <2>2. /\ t \in Seq(S) /\ Len(t) = IF k + 2 <= 5 THEN 5 - (k + 2) + 1 ELSE 0
          /\ \A i \in 1 .. 5 - (k + 2) + 1 : t[i] = q[k + 2 + i - 1]
      BY <2>1, SubSeqProperties
    <2> QED
      BY <2>2
  <1> HIDE DEF s, t
  <1>5. ASSUME k < 5 PROVE s # <<>> /\ Head(s) = q[k + 1] /\ Tail(s) = t
    <2>1. s # <<>> /\ Head(s) = s[1] /\ s[1] = q[k + 1]
      BY <1>3, <1>5
    <2>2. /\ Tail(s) \in Seq(S) /\ Len(Tail(s)) = 4 - k
          /\ \A i \in 1 .. 4 - k : Tail(s)[i] = s[i + 1]
      BY <1>3, <1>5, <2>1, HeadTailProperties
    <2>3. \A i \in 1 .. 4 - k : Tail(s)[i] = t[i]
      <3> TAKE i \in 1 .. 4 - k
      <3>1. i + 1 \in 1 .. 5 - k /\ k + (i + 1) = k + i + 1
        OBVIOUS
      <3> QED
        BY <1>3, <1>4, <2>2, <3>1
    <2> QED
      BY <1>4, <1>5, <2>1, <2>2, <2>3, SeqEqual
  <1>6. k = 5 => s = <<>>
    BY <1>3
  <1>7. ASSUME k = 0 PROVE s = q
    <2>1. Len(s) = Len(q) /\ \A i \in 1 .. Len(s) : s[i] = q[i]
      BY <1>3, <1>7
    <2> QED
      BY <1>1, <1>3, <2>1, SeqEqual
  <1> QED
    BY <1>3, <1>5, <1>6, <1>7, Zenon DEF s, t

LEMMA Appended ==
  ASSUME NEW q, IsSeq(q), NEW e
  PROVE  /\ IsSeq(Append(q, e)) /\ Len(Append(q, e)) = Len(q) + 1 /\ Len(q) \in Nat
         /\ \A j \in 1 .. Len(q) : Append(q, e)[j] = q[j]
         /\ Append(q, e)[Len(q) + 1] = e
  <1>1. PICK S : q \in Seq(S)
    BY DEF IsSeq
  <1>2. q \in Seq(S \union {e})
    BY <1>1
  <1>3. /\ Append(q, e) \in Seq(S \union {e}) /\ Len(Append(q, e)) = Len(q) + 1 /\ Len(q) \in Nat
        /\ \A j \in 1 .. Len(q) : Append(q, e)[j] = q[j]
        /\ Append(q, e)[Len(q) + 1] = e
    BY <1>2
  <1> QED
    BY <1>3 DEF IsSeq

LEMMA EmptyIsSeq == IsSeq(<<>>) /\ Len(<<>>) = 0
  <1>1. <<>> \in Seq({})
    OBVIOUS
  <1> QED
    BY <1>1 DEF IsSeq

-----------------------------------------------------------------------------
(* The EEPROM.                                                             *)

Rom(m, b, a, p) == [mem |-> m, block |-> b, at |-> a, pending |-> p]

LEMMA AcceptStart ==
  ASSUME RomFields, NEW d, NEW st
  PROVE  Accepted(rom, Entry("start", d, st)) = Rom(rom.mem, (d \div 8) % 2, rom.at, <<>>)
  BY DEF RomFields, Accepted, Entry, Rom

LEMMA AcceptHigh ==
  ASSUME RomFields, NEW d, NEW st
  PROVE  Accepted(rom, Entry("high", d, st))
             = Rom(rom.mem, rom.block, d * ByteMod, rom.pending)
  BY DEF RomFields, Accepted, Entry, Rom

LEMMA AcceptLow ==
  ASSUME RomFields, NEW d, NEW st
  PROVE  Accepted(rom, Entry("low", d, st))
             = Rom(rom.mem, rom.block, rom.at + d, rom.pending)
  BY DEF RomFields, Accepted, Entry, Rom

LEMMA AcceptData ==
  ASSUME RomFields, NEW d, NEW st
  PROVE  Accepted(rom, Entry("data", d, st))
             = Rom(rom.mem, rom.block, (rom.at + 1) % BlockSize, Append(rom.pending, d))
  BY DEF RomFields, Accepted, Entry, Rom

Overwrite(r, n) == [r EXCEPT !.mem = n, !.pending = <<>>]

LEMMA Overwritten ==
  ASSUME NEW r, NEW m, NEW b, NEW a, NEW p, r = Rom(m, b, a, p), NEW n
  PROVE  Overwrite(r, n) = Rom(n, b, a, <<>>)
  <1>1. [r EXCEPT !.mem = n] = Rom(n, b, a, p)
    BY DEF Rom
  <1>2. [Rom(n, b, a, p) EXCEPT !.pending = <<>>] = Rom(n, b, a, <<>>)
    BY DEF Rom
  <1>3. Overwrite(r, n) = [[r EXCEPT !.mem = n] EXCEPT !.pending = <<>>]
    BY DEF Rom, Overwrite
  <1> QED
    BY <1>1, <1>2, <1>3

\* A stop stores nothing when nothing is kept.
LEMMA StoreNothing ==
  ASSUME NEW r, NEW m, Memory(m), NEW b, NEW a, r = Rom(m, b, a, <<>>) PROVE Stored(r) = r
  <1>1. r.mem = m /\ r.pending = <<>> /\ DOMAIN r.mem = 0 .. 2 * BlockSize - 1
    BY DEF Rom, Memory
  <1>2. Len(r.pending) - 1 = -1
    BY <1>1, EmptyIsSeq
  <1>3. \A i : i \notin 0 .. -1
    OBVIOUS
  <1>4. Stored(r) = Overwrite(r, [x \in DOMAIN r.mem |-> r.mem[x]])
    BY <1>2, <1>3 DEF Stored, Overwrite
  <1>5. [x \in DOMAIN r.mem |-> r.mem[x]] = m
    BY <1>1 DEF Memory
  <1>6. Overwrite(r, m) = r
    BY Overwritten
  <1> QED
    BY <1>4, <1>5, <1>6

LEMMA StoredFields ==
  ASSUME NEW r, NEW m, Memory(m), NEW b, NEW a, NEW p, r = Rom(m, b, a, p)
  PROVE  \E n : Stored(r) = Rom(n, b, a, <<>>) /\ Memory(n)
  <1> DEFINE n == [x \in DOMAIN r.mem |->
                    LET i == x - (r.block * BlockSize + r.at) + Len(r.pending)
                    IN  IF i \in 0 .. Len(r.pending) - 1 THEN r.pending[i + 1] ELSE r.mem[x]]
  <1>1. DOMAIN r.mem = 0 .. 2 * BlockSize - 1
    BY DEF Rom, Memory
  <1>2. Stored(r) = Overwrite(r, n)
    BY DEF Stored, Overwrite
  <1>3. Memory(n)
    BY <1>1 DEF Memory
  <1> HIDE DEF n
  <1>4. Overwrite(r, n) = Rom(n, b, a, <<>>)
    BY Overwritten
  <1> QED
    BY <1>2, <1>3, <1>4

\* Whatever entry it takes, the EEPROM keeps its shape.
LEMMA SentFields == ASSUME RomFields, HostSent, busy \in PlainEntry PROVE RomFields'
  <1> DEFINE mm == rom.mem
  <1>1. PICK op \in {"start", "high", "low", "data"}, d \in Int, st \in BOOLEAN :
             busy = Entry(op, d, st)
    BY DEF PlainEntry, Entry
  <1>2. Memory(mm)
    BY DEF RomFields
  <1>3. \E b, a, p : Accepted(rom, busy) = Rom(mm, b, a, p)
    BY <1>1, AcceptStart, AcceptHigh, AcceptLow, AcceptData
  <1>4. PICK b, a, p : Accepted(rom, busy) = Rom(mm, b, a, p)
    BY <1>3
  <1>5. rom' = Rom(mm, b, a, p) \/ rom' = Stored(Rom(mm, b, a, p))
    BY <1>4 DEF HostSent
  <1> HIDE DEF mm
  <1>6. PICK n, q : rom' = Rom(n, b, a, q) /\ Memory(n)
    <2>1. CASE rom' = Rom(mm, b, a, p)
      BY <1>2, <2>1
    <2>2. CASE rom' = Stored(Rom(mm, b, a, p))
      <3>1. \E n : Stored(Rom(mm, b, a, p)) = Rom(n, b, a, <<>>) /\ Memory(n)
        BY <1>2, StoredFields
      <3> QED
        BY <2>2, <3>1
    <2> QED
      BY <1>5, <2>1, <2>2
  <1> QED
    BY <1>6 DEF RomFields, Rom

-----------------------------------------------------------------------------
(* Steps of the driver.                                                    *)

LEMMA ReadInit == Init => ReadInv
  <1> SUFFICES ASSUME Init PROVE ReadInv
    OBVIOUS
  <1>1. RomFields
    BY DEF Init, RomFields, Memory
  <1>2. NoReadQueued
    BY EmptyIsSeq DEF Init, NoReadQueued
  <1>3. Handed = 0 /\ NoGap /\ Slots \subseteq Nat
    BY DEF Init, Handed, NoGap, Slots
  <1>4. \A i \in Slots : ~(i < 0)
    BY <1>3
  <1> QED
    BY <1>1, <1>2, <1>3, <1>4 DEF Init, ReadInv

\* The entries and the EEPROM stay the same while the bus rests.
LEMMA BusKept ==
  ASSUME ReadInv, UNCHANGED <<busy, rom, rx>> PROVE RomFields' /\ IsSeq(rx)' /\ (Idle => Idle')
  BY DEF ReadInv, RomFields, NoReadQueued, Idle

LEMMA AccessReads == ASSUME IInv, ReadInv, NEW c \in Accesses, Access(c) PROVE ReadInv'
  <1>1. /\ UNCHANGED bus /\ pc = "idle" /\ pc' = "levels" /\ call' = c
        /\ chunk' = <<0, IF c.addr % Depth # 0 THEN FirstLen(c) ELSE ChunkLen(c, 0)>>
        /\ offs' = IF c.addr % Depth # 0 THEN chunk'[2] ELSE Depth
    BY DEF Access
  <1>2. RomFields' /\ NoReadQueued'
    BY <1>1 DEF ReadInv, RomFields, NoReadQueued, bus
  <1>3. NoGap'
    <2>1. CASE c.addr % Depth # 0
      <3>1. chunk'[1] = 0 /\ chunk'[2] = FirstLen(c) /\ offs' = FirstLen(c)
        BY <1>1, <2>1
      <3>2. FirstLen(c) \in Int /\ c.len \in Int
        BY FirstLenInRange, AccessFields
      <3> QED
        BY <1>1, <3>1, <3>2 DEF NoGap
    <2>2. CASE c.addr % Depth = 0
      <3>1. chunk'[1] = 0 /\ chunk'[2] = ChunkLen(c, 0) /\ offs' = Depth
        BY <1>1, <2>2
      <3>2. /\ Depth < c.len => ChunkLen(c, 0) = Depth
            /\ ~(Depth < c.len) => ChunkLen(c, 0) = c.len
        BY Constants, AccessFields DEF ChunkLen, Lesser
      <3> QED
        BY <1>1, <3>1, <3>2, Constants, AccessFields DEF NoGap
    <2> QED
      BY <2>1, <2>2
  <1>4. Handed' = 0 /\ \A i \in Slots : ~(i < 0)
    BY <1>1 DEF Handed, Slots
  <1> QED
    BY <1>1, <1>2, <1>3, <1>4 DEF ReadInv, Slots

\* The bytes of the access before stay where they are.
LEMMA BytesKept ==
  ASSUME UNCHANGED <<call, rom>> PROVE \A i : ByteOf(i)' = ByteOf(i)
  BY DEF ByteOf

LEMMA LevelsReads == ASSUME IInv, ReadInv, Levels \/ Disable PROVE ReadInv'
  <1>1. /\ UNCHANGED <<call, offs, chunk, calls, buf, fmt, rx, busy, rom>>
        /\ \/ pc = "levels" /\ pc' = "spin"
           \/ pc = "spin" /\ pc' = "fill" /\ Idle
    BY DEF Levels, Disable, bus
  <1>2. RomFields'
    BY <1>1, BusKept
  <1>3. pc' = "fill" => Quiet'
    BY <1>1 DEF IInv, QueueEmpty, Quiet, Idle
  <1>4. NoReadQueued'
    BY <1>1, <1>3 DEF ReadInv, NoReadQueued
  <1>5. /\ pc # "idle" /\ pc' # "idle" /\ pc # "receive" /\ pc' # "receive"
        /\ Handed' = Handed /\ Quiet' = Quiet /\ NoGap' = NoGap
    BY <1>1, Zenon DEF Handed, Quiet, Idle, NoGap
  <1>6. \A i : ByteOf(i)' = ByteOf(i)
    BY <1>1, BytesKept
  <1> QED
    BY <1>1, <1>2, <1>4, <1>5, <1>6 DEF ReadInv, Slots

LEMMA FillWriteReads == ASSUME IInv, ReadInv, FillWrite PROVE ReadInv'
  <1>1. /\ pc = "fill" /\ call.write /\ fmt' = WriteEntries(chunk[1], chunk[2])
        /\ UNCHANGED <<call, calls, buf, rx, busy, rom>>
        /\ pc' \in {"levels", "idle"}
    BY DEF FillWrite, NextChunk
  <1>2. RomFields'
    BY <1>1, BusKept
  <1>3. fmt' \in Seq(PlainEntry)
    <2>1. chunk[1] \in Nat /\ chunk[2] \in 1 .. Depth /\ call \in Accesses
      BY <1>1, Constants DEF IInv, Types
    <2> QED
      BY <1>1, <2>1, WriteEntriesPlain
  <1>4. NoReadQueued'
    BY <1>1, <1>3 DEF ReadInv, NoReadQueued
  <1> QED
    BY <1>1, <1>2, <1>4 DEF ReadInv

LEMMA FillReadReads == ASSUME IInv, ReadInv, FillRead PROVE ReadInv'
  <1>1. /\ pc = "fill" /\ ~call.write /\ fmt' = ReadEntries /\ pc' = "receive"
        /\ UNCHANGED <<call, offs, chunk, calls, buf, rx, busy, rom>>
    BY DEF FillRead, ReadEntries
  <1>2. RomFields' /\ NoReadQueued' /\ rx = <<>> /\ Idle
    BY <1>1, BusKept DEF ReadInv, NoReadQueued, Quiet
  <1>3. Transfer'
    <2>1. ReadEntries' = ReadEntries
      BY <1>1 DEF ReadEntries
    <2>2. SubSeq(ReadEntries, 0 + 1, 5) = ReadEntries
      BY FiveEntries, RestOfQueue DEF IInv
    <2>3. fmt' = SubSeq(ReadEntries', 0 + 1, 5)
      BY <1>1, <2>1, <2>2
    <2>4. Idle' /\ rx' = <<>>
      BY <1>1, <1>2 DEF Idle
    <2>5. Sent(0)'
      BY <2>4 DEF Sent
    <2>6. 1 .. Len(rx') = {}
      BY <2>4, EmptyIsSeq
    <2> QED
      BY <2>3, <2>4, <2>5, <2>6 DEF Transfer
  <1>4. Handed' = Handed /\ NoGap' = NoGap
    BY <1>1, Zenon DEF Handed, NoGap
  <1>5. \A i : ByteOf(i)' = ByteOf(i)
    BY <1>1, BytesKept
  <1> QED
    BY <1>1, <1>2, <1>3, <1>4, <1>5 DEF ReadInv, Slots

-----------------------------------------------------------------------------
(* Receiving a chunk.                                                      *)

\* When the chunk is there, its transfer is over.
LEMMA ReceivedAll ==
  ASSUME IInv, ReadInv, pc = "receive", Received
  PROVE  Idle /\ fmt = <<>> /\ Len(rx) = chunk[2]
  <1>1. Transfer /\ chunk[2] \in Nat /\ chunk[2] > 0 /\ Len(rx) >= chunk[2] /\ Len(rx) \in Nat
    BY ChunkFields, LenInNat DEF ReadInv, NoReadQueued, Received, IInv
  <1>2. PICK k \in 0 .. 5 : /\ fmt = SubSeq(ReadEntries, k + 1, 5)
                            /\ \/ Idle /\ Sent(k)
                               \/ k \in 1 .. 4 /\ busy = ReadEntries[k] /\ Sent(k - 1)
                               \/ k = 5 /\ Reading
    BY <1>1 DEF Transfer
  <1>3. ASSUME Reading PROVE FALSE
    <2>1. Len(rx) < chunk[2]
      BY <1>3 DEF Reading
    <2> QED
      BY <1>1, <2>1
  <1>4. rx # <<>>
    BY <1>1, EmptyIsSeq
  <1>5. k = 5 /\ Idle /\ Sent(k)
    BY <1>2, <1>3, <1>4 DEF Sent
  <1>6. fmt = <<>>
    BY <1>2, <1>5, FiveEntries, RestOfQueue DEF IInv
  <1> QED
    BY <1>5, <1>6 DEF Sent

LEMMA ReceiveReads == ASSUME IInv, ReadInv, Receive PROVE ReadInv'
  <1>1. /\ pc = "receive" /\ Received /\ NextChunk /\ UNCHANGED <<call, calls, fmt, busy, rom>>
        /\ rx' = SubSeq(rx, chunk[2] + 1, Len(rx))
        /\ buf' = [i \in Slots |-> IF i - chunk[1] \in 0 .. chunk[2] - 1
                                   THEN rx[i - chunk[1] + 1] ELSE buf[i]]
    BY DEF Receive
  <1>2. Idle /\ fmt = <<>> /\ Len(rx) = chunk[2] /\ Transfer /\ ~call.write
    BY <1>1, ReceivedAll DEF ReadInv
  <1>3. /\ At \in Nat /\ chunk[1] \in Nat /\ chunk[2] \in Nat /\ call.len \in Nat
        /\ offs \in Nat /\ call \in Accesses
    BY ChunkFields DEF IInv, Types
  <1>4. rx' = <<>>
    BY <1>1, <1>2, <1>3, SubSeqEmpty
  <1>5. pc' \in {"idle", "levels"} /\ Quiet'
    BY <1>1, <1>2, NextChunkInRange DEF Quiet, Idle, IInv
  <1>6. RomFields' /\ NoReadQueued'
    <2>1. RomFields'
      BY <1>1 DEF ReadInv, RomFields
    <2>2. fmt' \in Seq(PlainEntry)
      BY <1>1, <1>2
    <2>3. busy' = Sending /\ IsSeq(rx')
      BY <1>4, <1>5, EmptyIsSeq DEF Quiet, Idle
    <2> QED
      BY <1>4, <1>5, <2>1, <2>2, <2>3 DEF NoReadQueued
  <1>7. \A i \in Slots : i < chunk[1] => buf[i] = ByteOf(i)
    BY <1>1, <1>2 DEF ReadInv, Handed
  <1>8. \A i \in Slots : i < chunk[1] + chunk[2] => buf'[i] = ByteOf(i)
    <2> SUFFICES ASSUME NEW i \in Slots, i < chunk[1] + chunk[2] PROVE buf'[i] = ByteOf(i)
      OBVIOUS
    <2>1. i \in Int
      BY DEF Slots
    <2>2. CASE i < chunk[1]
      <3>1. i - chunk[1] \notin 0 .. chunk[2] - 1
        BY <1>3, <2>1, <2>2
      <3> QED
        BY <1>1, <1>7, <2>2, <3>1
    <2>3. CASE ~(i < chunk[1])
      <3>1. /\ i - chunk[1] \in 0 .. chunk[2] - 1 /\ i - chunk[1] + 1 \in 1 .. chunk[2]
            /\ chunk[1] + ((i - chunk[1] + 1) - 1) = i
        BY <1>3, <2>1, <2>3
      <3>2. rx[i - chunk[1] + 1] = ByteOf(i)
        BY <1>2, <3>1 DEF Transfer
      <3> QED
        BY <1>1, <3>1, <3>2
    <2> QED
      BY <2>2, <2>3
  <1>9. NoGap' /\ (Handed' <= chunk[1] + chunk[2])
    <2>1. NoGap
      BY <1>2 DEF ReadInv
    <2>2. CASE offs < call.len
      <3>1. /\ chunk' = <<offs, ChunkLen(call, offs)>> /\ offs' = offs + Depth /\ pc' = "levels"
            /\ call' = call
        BY <1>1, <2>2 DEF NextChunk
      <3>2. chunk[1] + chunk[2] = offs
        BY <1>1, <2>1, <2>2 DEF NoGap
      <3>3. /\ offs + Depth < call.len => ChunkLen(call, offs) = Depth
            /\ ~(offs + Depth < call.len) => ChunkLen(call, offs) = call.len - offs
        BY <1>3, Constants DEF ChunkLen, Lesser
      <3>4. NoGap'
        BY <1>3, <3>1, <3>3, Constants DEF NoGap
      <3> QED
        BY <1>3, <3>1, <3>2, <3>4 DEF Handed
    <2>3. CASE ~(offs < call.len)
      <3>1. pc' = "idle" /\ call' = call
        BY <1>1, <2>3 DEF NextChunk
      <3>2. chunk[1] + chunk[2] >= call.len
        BY <1>1, <2>1, <2>3 DEF NoGap
      <3> QED
        BY <1>3, <3>1, <3>2 DEF Handed, NoGap
    <2> QED
      BY <2>2, <2>3
  <1>10. \A i : ByteOf(i)' = ByteOf(i)
    BY <1>1, BytesKept
  <1>11. \A i \in Slots : i < Handed' => buf'[i] = ByteOf(i)'
    <2> SUFFICES ASSUME NEW i \in Slots, i < Handed' PROVE buf'[i] = ByteOf(i)'
      OBVIOUS
    <2>1. Handed' \in Int
      <3>1. chunk'[1] \in Nat /\ call'.len \in Nat
        BY <1>1, <1>3, NextChunkInRange DEF IInv
      <3> QED
        BY <3>1 DEF Handed
    <2>2. i \in Int /\ chunk[1] + chunk[2] \in Int
      BY <1>3 DEF Slots
    <2>3. i < chunk[1] + chunk[2]
      <3> DEFINE h == Handed'
                 b == chunk[1] + chunk[2]
      <3>1. h \in Int /\ h <= b /\ i < h /\ b \in Int
        BY <1>9, <2>1, <2>2
      <3> HIDE DEF h, b
      <3>2. i < b
        BY <2>2, <3>1
      <3> QED
        BY <3>2 DEF b
    <2> QED
      BY <1>8, <1>10, <2>3
  <1> QED
    BY <1>1, <1>2, <1>5, <1>6, <1>9, <1>11 DEF ReadInv, Slots

-----------------------------------------------------------------------------
(* Steps of the host.                                                      *)

\* Outside the wait of a read, the bus is only at work before the first chunk.
LEMMA BusBefore ==
  ASSUME IInv, ReadInv, pc # "receive", ~Quiet, UNCHANGED driver,
         RomFields', NoReadQueued'
  PROVE  ReadInv'
  <1>1. pc' = pc /\ call' = call /\ buf' = buf /\ Handed' = Handed /\ NoGap' = NoGap
    BY Zenon DEF driver, Handed, NoGap
  <1>2. ~call.write => ~(Handed > 0) /\ NoGap
    BY DEF ReadInv
  <1>3. Handed \in Int
    BY ChunkFields DEF IInv, Handed
  <1>4. ~call.write => \A i \in Slots : ~(i < Handed)
    BY <1>2, <1>3 DEF Slots
  <1> QED
    BY <1>1, <1>2, <1>4 DEF ReadInv, Slots

LEMMA TakeReads == ASSUME IInv, ReadInv, HostTake PROVE ReadInv'
  <1>1. /\ Idle /\ fmt # <<>> /\ busy' = Head(fmt) /\ fmt' = Tail(fmt)
        /\ UNCHANGED driver /\ UNCHANGED <<rx, rom>>
        /\ UNCHANGED <<pc, call, offs, chunk, calls, buf>>
    BY DEF HostTake, driver
  <1>2. RomFields' /\ ~Quiet /\ IsSeq(rx')
    BY <1>1 DEF ReadInv, RomFields, Quiet, NoReadQueued
  <1>3. CASE pc # "receive"
    <2>1. fmt \in Seq(PlainEntry) /\ rx = <<>> /\ pc # "fill"
      BY <1>2, <1>3 DEF ReadInv, NoReadQueued
    <2>2. Head(fmt) \in PlainEntry /\ Tail(fmt) \in Seq(PlainEntry)
      BY <1>1, <2>1, HeadTailProperties
    <2>3. NoReadQueued'
      BY <1>1, <1>2, <1>3, <2>1, <2>2 DEF NoReadQueued
    <2> QED
      BY <1>1, <1>2, <1>3, <2>3, BusBefore
  <1>4. CASE pc = "receive"
    <2>1. Transfer /\ ~call.write /\ chunk[2] \in Nat /\ chunk[2] > 0 /\ At \in Nat
      BY <1>4, ChunkFields DEF ReadInv, IInv
    <2>2. PICK k \in 0 .. 5 : /\ fmt = SubSeq(ReadEntries, k + 1, 5)
                              /\ \/ Idle /\ Sent(k)
                                 \/ k \in 1 .. 4 /\ busy = ReadEntries[k] /\ Sent(k - 1)
                                 \/ k = 5 /\ Reading
      BY <2>1 DEF Transfer
    <2>3. /\ IsSeq(ReadEntries) /\ Len(ReadEntries) = 5
          /\ ReadEntries[1].op # "none" /\ ReadEntries[2].op # "none"
          /\ ReadEntries[3].op # "none" /\ ReadEntries[4].op # "none"
          /\ ReadEntries[5] = Entry("read", chunk[2], FALSE)
      BY FiveEntries DEF IInv, Entry
    <2>4. k < 5 /\ Sent(k)
      <3>1. k # 5
        BY <1>1, <2>2, <2>3, RestOfQueue
      <3>2. busy.op = "none"
        BY <1>1 DEF Idle, Sending
      <3>3. k \in 1 .. 4 => ReadEntries[k].op # "none"
        <4>1. k \in 1 .. 4 => k = 1 \/ k = 2 \/ k = 3 \/ k = 4
          OBVIOUS
        <4> QED
          BY <2>3, <4>1
      <3> QED
        BY <2>2, <3>1, <3>2, <3>3
    <2>5. busy' = ReadEntries[k + 1] /\ fmt' = SubSeq(ReadEntries, k + 2, 5)
      BY <1>1, <2>2, <2>3, <2>4, RestOfQueue
    <2>6. ReadEntries' = ReadEntries /\ Sent(k)' = Sent(k)
      BY <1>1, Zenon DEF ReadEntries, Sent
    <2>7. \A i : ByteOf(i)' = ByteOf(i)
      BY <1>1, BytesKept
    <2>8. rx = <<>> /\ rx' = <<>> /\ Len(rx) = 0 /\ 1 .. Len(rx') = {}
      BY <1>1, <2>4, EmptyIsSeq DEF Sent
    <2>9. k + 1 = 5 => Reading'
      <3> SUFFICES ASSUME k + 1 = 5 PROVE Reading'
        OBVIOUS
      <3>1. k = 4 /\ rom.block = 0 /\ rom.at = At % BlockSize
        BY <2>2, <2>4 DEF Sent, At
      <3>2. busy' = Entry("read", chunk[2], FALSE)
        BY <2>3, <2>5, <3>1
      <3>3. chunk[2] - 0 = chunk[2] /\ At + 0 = At
        BY <2>1
      <3> QED
        BY <1>1, <2>1, <2>8, <3>1, <3>2, <3>3 DEF Reading, At
    <2>10. Transfer'
      <3>1. k + 1 \in 0 .. 5 /\ (k + 1) + 1 = k + 2 /\ (k + 1) - 1 = k
        BY <2>2, <2>4
      <3>2. fmt' = SubSeq(ReadEntries', (k + 1) + 1, 5)
        BY <2>5, <2>6, <3>1
      <3>3. \/ k + 1 \in 1 .. 4 /\ busy' = ReadEntries'[k + 1] /\ Sent((k + 1) - 1)'
            \/ k + 1 = 5 /\ Reading'
        BY <2>2, <2>4, <2>5, <2>6, <2>9, <3>1
      <3> QED
        BY <2>8, <3>1, <3>2, <3>3 DEF Transfer
    <2>11. NoReadQueued' /\ Handed' = Handed /\ NoGap' = NoGap
      BY <1>1, <1>2, <1>4, Zenon DEF NoReadQueued, Handed, NoGap
    <2> QED
      BY <1>1, <1>2, <1>4, <2>1, <2>7, <2>10, <2>11 DEF ReadInv, Slots
  <1> QED
    BY <1>3, <1>4

\* An entry of a read, other than the last, does its part and stores nothing.
LEMMA EntrySent ==
  ASSUME IInv, ReadInv, HostSent, pc = "receive", NEW k \in 1 .. 4, busy = ReadEntries[k],
         Sent(k - 1)
  PROVE  Sent(k)' /\ RomFields' /\ rom'.mem = rom.mem
  <1> DEFINE m == rom.mem
             b == rom.block
             a == rom.at
             p == rom.pending
  <1>1. RomFields /\ Memory(m) /\ At \in Nat
    BY ChunkFields DEF ReadInv, RomFields, IInv
  <1>2. UNCHANGED driver /\ rx' = rx /\ rx = <<>> /\ At' = At
    BY DEF HostSent, Sent, driver, At
  <1>3. rom' = IF busy.stop THEN Stored(Accepted(rom, busy)) ELSE Accepted(rom, busy)
    BY DEF HostSent
  <1>4. k > 1 => b = 0 /\ p = <<>>
    BY DEF Sent
  <1>5. ASSUME NEW x, NEW y, rom' = Rom(m, x, y, <<>>)
        PROVE  RomFields' /\ rom'.mem = rom.mem /\ rom'.block = x /\ rom'.at = y
               /\ rom'.pending = <<>>
    BY <1>1, <1>5 DEF RomFields, Rom
  <1>6. CASE k = 1
    <2>1. busy = Entry("start", 160, FALSE)
      BY <1>6, FiveEntries DEF IInv
    <2>2. (160 \div 8) % 2 = 0
      OBVIOUS
    <2>3. rom' = Rom(m, 0, a, <<>>)
      BY <1>1, <1>3, <2>1, <2>2, AcceptStart DEF Entry
    <2> QED
      BY <1>2, <1>5, <1>6, <2>3 DEF Sent
  <1>7. CASE k = 2
    <2> DEFINE h == (At \div ByteMod) % ByteMod
    <2>1. busy = Entry("high", h, FALSE)
      BY <1>7, FiveEntries DEF IInv
    <2>2. rom' = Rom(m, 0, h * ByteMod, <<>>)
      BY <1>1, <1>3, <1>4, <1>7, <2>1, AcceptHigh DEF Entry
    <2>3. RomFields' /\ rom'.mem = rom.mem /\ rom'.block = 0 /\ rom'.at = h * ByteMod
          /\ rom'.pending = <<>>
      BY <1>5, <2>2
    <2> QED
      BY <1>2, <1>7, <2>3 DEF Sent, At
  <1>8. CASE k = 3
    <2>1. busy = Entry("low", At % ByteMod, TRUE)
      BY <1>8, FiveEntries DEF IInv
    <2>2. a = ((At \div ByteMod) % ByteMod) * ByteMod
      BY <1>8 DEF Sent, At
    <2>3. a + (At % ByteMod) = At % BlockSize
      BY <1>1, <2>2, AddressBytes
    <2>4. Accepted(rom, busy) = Rom(m, 0, At % BlockSize, <<>>)
      <3>1. Accepted(rom, busy) = Rom(m, b, a + (At % ByteMod), p)
        BY <1>1, <2>1, AcceptLow
      <3> QED
        BY <1>4, <1>8, <2>3, <3>1
    <2>5. rom' = Rom(m, 0, At % BlockSize, <<>>)
      BY <1>1, <1>3, <2>1, <2>4, StoreNothing DEF Entry
    <2>6. RomFields' /\ rom'.mem = rom.mem /\ rom'.block = 0 /\ rom'.at = At % BlockSize
          /\ rom'.pending = <<>>
      BY <1>5, <2>5
    <2> QED
      BY <1>2, <1>8, <2>6 DEF Sent, At
  <1>9. CASE k = 4
    <2>1. busy = Entry("start", 161, FALSE)
      BY <1>9, FiveEntries DEF IInv
    <2>2. (161 \div 8) % 2 = 0 /\ a = At % BlockSize
      BY <1>9 DEF Sent, At
    <2>3. rom' = Rom(m, 0, At % BlockSize, <<>>)
      BY <1>1, <1>3, <2>1, <2>2, AcceptStart DEF Entry
    <2>4. RomFields' /\ rom'.mem = rom.mem /\ rom'.block = 0 /\ rom'.at = At % BlockSize
          /\ rom'.pending = <<>>
      BY <1>5, <2>3
    <2> QED
      BY <1>2, <1>9, <2>4 DEF Sent, At
  <1>10. k = 1 \/ k = 2 \/ k = 3 \/ k = 4
    OBVIOUS
  <1> QED
    BY <1>6, <1>7, <1>8, <1>9, <1>10

LEMMA SentReads == ASSUME IInv, ReadInv, HostSent PROVE ReadInv'
  <1>1. /\ busy.op \in {"start", "high", "low", "data"} /\ busy' = Sending
        /\ UNCHANGED driver /\ UNCHANGED <<fmt, rx>>
        /\ UNCHANGED <<pc, call, offs, chunk, calls, buf>>
    BY DEF HostSent, driver
  <1>2. busy # Sending /\ ~Idle /\ ~Quiet
    BY <1>1 DEF Sending, Idle, Quiet
  <1>3. CASE pc # "receive"
    <2>1. busy \in PlainEntry
      BY <1>2, <1>3 DEF ReadInv, NoReadQueued
    <2>2. RomFields'
      BY <2>1, SentFields DEF ReadInv
    <2>3. NoReadQueued'
      BY <1>1, <1>2, <1>3 DEF ReadInv, NoReadQueued
    <2> QED
      BY <1>1, <1>2, <1>3, <2>2, <2>3, BusBefore
  <1>4. CASE pc = "receive"
    <2>1. Transfer /\ ~call.write
      BY <1>4 DEF ReadInv
    <2>2. PICK k \in 0 .. 5 : /\ fmt = SubSeq(ReadEntries, k + 1, 5)
                              /\ \/ Idle /\ Sent(k)
                                 \/ k \in 1 .. 4 /\ busy = ReadEntries[k] /\ Sent(k - 1)
                                 \/ k = 5 /\ Reading
      BY <2>1 DEF Transfer
    <2>3. ~Reading
      BY <1>1 DEF Reading, Entry
    <2>4. k \in 1 .. 4 /\ busy = ReadEntries[k] /\ Sent(k - 1)
      BY <1>2, <2>2, <2>3
    <2>5. Sent(k)' /\ RomFields' /\ rom'.mem = rom.mem
      BY <1>4, <2>4, EntrySent
    <2>6. rx = <<>> /\ rx' = <<>> /\ 1 .. Len(rx') = {}
      BY <1>1, <2>4, EmptyIsSeq DEF Sent
    <2>7. ReadEntries' = ReadEntries
      BY <1>1 DEF ReadEntries
    <2>8. Transfer'
      <3>1. fmt' = SubSeq(ReadEntries', k + 1, 5) /\ Idle'
        BY <1>1, <2>2, <2>7 DEF Idle
      <3> QED
        BY <2>5, <2>6, <3>1 DEF Transfer
    <2>9. \A i : ByteOf(i)' = ByteOf(i)
      BY <1>1, <2>5 DEF ByteOf
    <2>10. NoReadQueued' /\ Handed' = Handed /\ NoGap' = NoGap
      <3>1. IsSeq(rx')
        BY <2>6, EmptyIsSeq
      <3> QED
        BY <1>1, <1>4, <3>1, Zenon DEF NoReadQueued, Handed, NoGap
    <2> QED
      BY <1>1, <1>4, <2>1, <2>5, <2>8, <2>9, <2>10 DEF ReadInv, Slots
  <1> QED
    BY <1>3, <1>4

\* A byte comes in from the address after the last one's.
LEMMA ReceivedReads == ASSUME IInv, ReadInv, HostReceived PROVE ReadInv'
  <1>1. /\ busy.op = "read" /\ rx' = Append(rx, rom.mem[rom.block * BlockSize + rom.at])
        /\ rom' = [rom EXCEPT !.at = (@ + 1) % BlockSize]
        /\ busy' = IF busy.data = 1 THEN Sending ELSE [busy EXCEPT !.data = @ - 1]
        /\ UNCHANGED driver /\ fmt' = fmt
        /\ UNCHANGED <<pc, call, offs, chunk, calls, buf>>
    BY DEF HostReceived, driver
  <1>2. pc = "receive"
    BY <1>1 DEF ReadInv, NoReadQueued, PlainEntry, Sending
  <1>3. /\ Transfer /\ ~call.write /\ RomFields /\ IsSeq(rx)
        /\ At \in Nat /\ chunk[1] \in Nat /\ chunk[2] \in Nat /\ call.addr \in Nat
    BY <1>2, ChunkFields DEF ReadInv, NoReadQueued, IInv
  <1> DEFINE n == Len(rx)
  <1>4. /\ IsSeq(rx') /\ Len(rx') = n + 1 /\ n \in Nat
        /\ \A j \in 1 .. n : rx'[j] = rx[j]
        /\ rx'[n + 1] = rom.mem[rom.block * BlockSize + rom.at]
    BY <1>1, <1>3, Appended
  <1>5. PICK k \in 0 .. 5 : /\ fmt = SubSeq(ReadEntries, k + 1, 5)
                            /\ \/ Idle /\ Sent(k)
                               \/ k \in 1 .. 4 /\ busy = ReadEntries[k] /\ Sent(k - 1)
                               \/ k = 5 /\ Reading
    BY <1>3 DEF Transfer
  <1>6. k = 5 /\ Reading
    <2>1. ~Idle
      BY <1>1 DEF Idle, Sending
    <2>2. k \in 1 .. 4 => ReadEntries[k].op # "read"
      <3>1. k \in 1 .. 4 => k = 1 \/ k = 2 \/ k = 3 \/ k = 4
        OBVIOUS
      <3>2. /\ ReadEntries[1].op # "read" /\ ReadEntries[2].op # "read"
            /\ ReadEntries[3].op # "read" /\ ReadEntries[4].op # "read"
        BY FiveEntries DEF IInv, Entry
      <3> QED
        BY <3>1, <3>2
    <2> QED
      BY <1>1, <1>5, <2>1, <2>2
  <1>7. /\ busy = Entry("read", chunk[2] - n, FALSE) /\ n < chunk[2]
        /\ rom.block = 0 /\ rom.at = (At + n) % BlockSize
    BY <1>6 DEF Reading, At
  <1>8. /\ rom'.mem = rom.mem /\ rom'.block = 0 /\ RomFields'
        /\ rom'.at = (((At + n) % BlockSize) + 1) % BlockSize
    BY <1>1, <1>3, <1>7 DEF RomFields
  <1>9. rom'.at = (At + (n + 1)) % BlockSize
    <2>1. At + n \in Nat /\ (At + n) + 1 = At + (n + 1)
      BY <1>3, <1>4
    <2> QED
      BY <1>8, <2>1, NextAddress
  <1>10. \A i : ByteOf(i)' = ByteOf(i)
    BY <1>1, <1>8 DEF ByteOf
  <1>11. rx'[n + 1] = ByteOf(chunk[1] + n)
    <2>1. (At + n) % BlockSize \in Nat /\ At + n = call.addr + (chunk[1] + n)
      BY <1>3, <1>4, Constants DEF At
    <2>2. 0 * BlockSize + ((At + n) % BlockSize) = (At + n) % BlockSize
      BY <2>1, Constants
    <2> QED
      BY <1>4, <1>7, <2>1, <2>2 DEF ByteOf
  <1>12. \A j \in 1 .. Len(rx') : rx'[j] = ByteOf(chunk[1] + (j - 1))'
    <2> SUFFICES ASSUME NEW j \in 1 .. n + 1 PROVE rx'[j] = ByteOf(chunk[1] + (j - 1))
      BY <1>1, <1>4, <1>10
    <2>1. CASE j = n + 1
      <3>1. j - 1 = n
        BY <1>4, <2>1
      <3> QED
        BY <1>11, <2>1, <3>1
    <2>2. CASE j # n + 1
      <3>1. j \in 1 .. n
        BY <1>4, <2>2
      <3> QED
        BY <1>3, <1>4, <3>1 DEF Transfer
    <2> QED
      BY <2>1, <2>2
  <1>13. Transfer'
    <2>1. ReadEntries' = ReadEntries /\ At' = At
      BY <1>1 DEF ReadEntries, At
    <2>2. fmt' = SubSeq(ReadEntries', 5 + 1, 5)
      BY <1>1, <1>5, <1>6, <2>1
    <2>3. (Idle /\ Sent(5))' \/ Reading'
      <3>1. CASE chunk[2] - n = 1
        <4>1. busy' = Sending
          BY <1>1, <1>7, <3>1 DEF Entry
        <4>2. Len(rx') = chunk[2]
          BY <1>3, <1>4, <3>1
        <4> QED
          BY <1>1, <4>1, <4>2 DEF Idle, Sent
      <3>2. CASE chunk[2] - n # 1
        <4>1. busy' = Entry("read", (chunk[2] - n) - 1, FALSE)
          BY <1>1, <1>7, <3>2 DEF Entry
        <4>2. (chunk[2] - n) - 1 = chunk[2] - Len(rx') /\ Len(rx') < chunk[2]
          BY <1>3, <1>4, <1>7, <3>2
        <4>3. rom'.at = (At + Len(rx')) % BlockSize
          BY <1>4, <1>9
        <4> QED
          BY <1>1, <1>8, <4>1, <4>2, <4>3 DEF Reading, At
      <3> QED
        BY <3>1, <3>2
    <2>4. 5 \in 0 .. 5
      OBVIOUS
    <2> QED
      BY <1>1, <1>12, <2>2, <2>3, <2>4 DEF Transfer
  <1>14. NoReadQueued' /\ Handed' = Handed /\ NoGap' = NoGap
    BY <1>1, <1>2, <1>4, Zenon DEF NoReadQueued, Handed, NoGap
  <1> QED
    BY <1>1, <1>2, <1>3, <1>8, <1>10, <1>13, <1>14 DEF ReadInv, Slots

LEMMA ReadStep == IInv /\ ReadInv /\ [Next]_vars => ReadInv'
  <1> SUFFICES ASSUME IInv, ReadInv, [Next]_vars PROVE ReadInv'
    OBVIOUS
  <1>1. ASSUME NEW c \in Accesses, Access(c) PROVE ReadInv'
    BY <1>1, AccessReads
  <1>2. CASE Driver
    BY <1>2, LevelsReads, FillWriteReads, FillReadReads, ReceiveReads DEF Driver
  <1>3. CASE Host
    BY <1>3, TakeReads, SentReads, ReceivedReads DEF Host
  <1>4. CASE UNCHANGED vars
    <2>1. UNCHANGED <<pc, call, offs, chunk, calls, buf, fmt, rx, busy, rom>>
      BY <1>4 DEF vars, driver, bus
    <2>2. RomFields' /\ NoReadQueued'
      BY <2>1 DEF ReadInv, RomFields, NoReadQueued, Quiet, Idle
    <2>3. \A i : ByteOf(i)' = ByteOf(i)
      BY <2>1, BytesKept
    <2>4. ReadEntries' = ReadEntries /\ \A k : Sent(k)' = Sent(k)
      BY <2>1, Zenon DEF ReadEntries, Sent
    <2>5. Reading' = Reading /\ Idle' = Idle
      BY <2>1, Zenon DEF Reading, Idle
    <2>6. Transfer => Transfer'
      BY <2>1, <2>3, <2>4, <2>5 DEF Transfer
    <2>7. Handed' = Handed /\ Quiet' = Quiet /\ NoGap' = NoGap
      BY <2>1, Zenon DEF Handed, Quiet, NoGap, Idle
    <2> QED
      BY <2>1, <2>2, <2>3, <2>6, <2>7 DEF ReadInv, Slots
  <1> QED
    BY <1>1, <1>2, <1>3, <1>4 DEF Next, Rest

LEMMA ReadFromInv == IInv /\ ReadInv => ReadCorrect
  <1> SUFFICES ASSUME IInv, ReadInv, pc = "idle", calls > 0, ~call.write,
                      call.addr + call.len <= BlockSize, NEW i \in 0 .. call.len - 1
               PROVE  buf[i] = rom.mem[call.addr + i]
    BY DEF ReadCorrect, Done
  <1>1. call \in Accesses /\ call.len \in Nat /\ call.addr \in Nat
    BY ChunkFields DEF IInv, Types
  <1>2. i \in Slots
    BY <1>1, LongestFits, Constants DEF Slots
  <1>3. Handed = call.len /\ i < call.len
    BY <1>1 DEF Handed
  <1>4. buf[i] = ByteOf(i)
    BY <1>2, <1>3 DEF ReadInv
  <1>5. call.addr + i \in 0 .. BlockSize - 1
    BY <1>1, Constants
  <1>6. (call.addr + i) % BlockSize = call.addr + i
    BY <1>5, Constants
  <1> QED
    BY <1>4, <1>6 DEF ByteOf

\* A read of the lower block returns the EEPROM's bytes, for every FIFO depth,
\* every size of the device and all accesses before it, ended or not
\* (i2c_24fc1025.c:46-116).
THEOREM ReadsCorrect == Spec => []ReadCorrect
  <1>1. Spec => []ReadInv
    BY ReadInit, ReadStep, Invariance, PTL DEF Spec
  <1> QED
    BY <1>1, Invariance, ReadFromInv, PTL
=============================================================================
