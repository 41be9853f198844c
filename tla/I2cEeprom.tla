------------------------------ MODULE I2cEeprom ------------------------------
(***************************************************************************)
(* The 24FC1025 EEPROM driver, sw/lib/hal/i2c_24fc1025.c.                  *)
(*                                                                         *)
(* The hart queues format entries for the I2C host while the host is       *)
(* disabled, then lets it run the transfer on its own.  The host takes an  *)
(* entry off the queue before it is done sending it.  The EEPROM keeps the *)
(* bytes of a write and stores them only at a stop condition; a start      *)
(* drops them.  It is not part of the repository: see its datasheet.       *)
(***************************************************************************)
EXTENDS Integers, Sequences

CONSTANTS Depth,    \* I2C_PARAM_FIFO_DEPTH, 64
          ByteMod,  \* values of an address byte, 256
          Accesses, \* the calls: records [write, addr, len]
          MaxCalls  \* bound on the calls of a run

\* Depth divides the page (assertion 0x13) and holds half of itself next to
\* the three entries that carry the address and the last byte; one of the
\* accesses is the longest.
ASSUME I2cAssumption ==
    /\ {Depth, ByteMod, MaxCalls} \subseteq Nat \ {0}
    /\ Depth % 2 = 0 /\ Depth \div 2 + 4 <= Depth
    /\ (ByteMod * ByteMod) % Depth = 0
    /\ \A c \in Accesses : /\ c.write \in BOOLEAN
                           /\ c.addr \in Nat /\ c.len \in Nat \ {0}
                           /\ c.addr + c.len <= 2 * ByteMod * ByteMod
    /\ \E c \in Accesses : \A d \in Accesses : d.len <= c.len

VARIABLES pc,      \* where the driver is
          call,    \* the access being made, or made last
          offs,    \* bytes of it handed to the chunks so far
          chunk,   \* the chunk: <<offset in the buffer, length>>
          calls,   \* accesses made so far
          buf,     \* destination of a read
          enabled, \* the host is enabled
          fmt,     \* FMT FIFO
          rx,      \* RX FIFO
          busy,    \* entry the host is sending
          rom      \* EEPROM: its bytes, block, address, and the bytes not yet stored

driver == <<pc, call, offs, chunk, calls, buf>>
bus == <<fmt, rx, busy, rom, enabled>>
vars == <<driver, bus>>

BlockSize == ByteMod * ByteMod
Lesser(a, b) == IF a <= b THEN a ELSE b
Longest == CHOOSE n \in {c.len : c \in Accesses} : \A c \in Accesses : c.len <= n
Slots == 0 .. Longest + Depth - 1
Untouched == -1

\* The bytes of the source buffer of a write.
Source(i) == 2 * BlockSize + i

Sending == [op |-> "none"]
Idle == busy = Sending

\* i2c_24fc1025_init has emptied the FIFOs and enabled the host.
Init == /\ pc = "idle" /\ call \in Accesses /\ offs = 0 /\ chunk = <<0, 0>> /\ calls = 0
        /\ buf = [i \in Slots |-> Untouched]
        /\ enabled = TRUE /\ fmt = <<>> /\ rx = <<>> /\ busy = Sending
        /\ rom = [mem |-> [a \in 0 .. 2 * BlockSize - 1 |-> a],
                  block |-> 0, at |-> 0, pending |-> <<>>]

-----------------------------------------------------------------------------
(* Cutting an access into chunks: __i2c_24fc1025_access.                   *)

\* Up to the first FIFO boundary, whatever the length asked for.
FirstLen(c) == Depth - (c.addr % Depth)

\* Variant for TLC: every chunk fills the FIFO.
ChunkLenWhole(c, done) == Depth

ChunkLen(c, done) == Lesser(Depth, c.len - done)

Access(c) == /\ pc = "idle" /\ calls < MaxCalls
             /\ call' = c /\ calls' = calls + 1
             /\ buf' = [i \in Slots |-> Untouched]
             /\ LET n == IF c.addr % Depth # 0 THEN FirstLen(c) ELSE ChunkLen(c, 0)
                IN  /\ chunk' = <<0, n>>
                    /\ offs' = IF c.addr % Depth # 0 THEN n ELSE Depth
             /\ pc' = "levels"
             /\ UNCHANGED bus

\* After a chunk: the next one, or the return.
NextChunk == IF offs < call.len
             THEN /\ chunk' = <<offs, ChunkLen(call, offs)>>
                  /\ offs' = offs + Depth
                  /\ pc' = "levels"
             ELSE pc' = "idle" /\ UNCHANGED <<chunk, offs>>

-----------------------------------------------------------------------------
(* One chunk: __i2c_24fc1025_access_chunk.                                 *)

Levels == /\ pc = "levels"
          /\ fmt = <<>> /\ rx = <<>>
          /\ pc' = "spin"
          /\ UNCHANGED <<call, offs, chunk, calls, buf, bus>>

\* Variant for TLC: the host is disabled without the delay.
DisableAtOnce == /\ pc = "spin"
                 /\ enabled' = FALSE
                 /\ pc' = "fill"
                 /\ UNCHANGED <<call, offs, chunk, calls, buf, fmt, rx, busy, rom>>

\* The delay of one tick of the reference clock is longer than the host
\* needs for the entry it took last.
Disable == /\ pc = "spin"
           /\ Idle
           /\ enabled' = FALSE
           /\ pc' = "fill"
           /\ UNCHANGED <<call, offs, chunk, calls, buf, fmt, rx, busy, rom>>

Entry(op, data, stop) == [op |-> op, data |-> data, stop |-> stop]

\* The control byte as it leaves the FIFO, 8 bits wide.
CtrlByte(addr) == (160 + ((addr \div BlockSize) % 2) * 2^15) % 256

\* Variant for TLC: the low address byte goes first.
AddressLowFirst(addr, stop) == <<Entry("start", CtrlByte(addr), FALSE),
                                 Entry("high", addr % ByteMod, FALSE),
                                 Entry("low", (addr \div ByteMod) % ByteMod, stop)>>

Address(addr, stop) == <<Entry("start", CtrlByte(addr), FALSE),
                         Entry("high", (addr \div ByteMod) % ByteMod, FALSE),
                         Entry("low", addr % ByteMod, stop)>>

HalfFill == Depth \div 2

\* All bytes but the last, at most half the FIFO of them, then the last.
WriteEntries(at, n) ==
    Address(call.addr + at, FALSE)
    \o [b \in 1 .. Lesser(n - 1, HalfFill) |-> Entry("data", Source(at + b - 1), FALSE)]
    \o <<Entry("data", Source(at + n - 1), FALSE)>>

\* Queue a half transfer, and go on with the next one or the next chunk.
FillWrite == /\ pc = "fill" /\ call.write
             /\ fmt' = WriteEntries(chunk[1], chunk[2])
             /\ enabled' = TRUE
             /\ IF chunk[2] > HalfFill
                THEN /\ chunk' = <<chunk[1] + chunk[2], chunk[2] - HalfFill>>
                     /\ pc' = "levels" /\ UNCHANGED offs
                ELSE NextChunk
             /\ UNCHANGED <<call, calls, buf, rx, busy, rom>>

FillRead == /\ pc = "fill" /\ ~call.write
            /\ LET addr == call.addr + chunk[1]
               IN  fmt' = Address(addr, TRUE) \o
                          <<Entry("start", CtrlByte(addr) + 1, FALSE),
                            Entry("read", chunk[2], FALSE)>>
            /\ enabled' = TRUE
            /\ pc' = "receive"
            /\ UNCHANGED <<call, offs, chunk, calls, buf, rx, busy, rom>>

\* Variant for TLC: the wait ends past the level asked for.
ReceivedMore == Len(rx) > chunk[2]

Received == Len(rx) >= chunk[2]

\* Once the chunk is received, it is moved to memory.
Receive == /\ pc = "receive"
           /\ Received
           /\ buf' = [i \in Slots |-> IF i - chunk[1] \in 0 .. chunk[2] - 1
                                      THEN rx[i - chunk[1] + 1] ELSE buf[i]]
           /\ rx' = SubSeq(rx, chunk[2] + 1, Len(rx))
           /\ NextChunk
           /\ UNCHANGED <<call, calls, fmt, busy, rom, enabled>>

-----------------------------------------------------------------------------
(* The I2C host and the EEPROM.                                            *)

HostTake == /\ enabled /\ Idle /\ fmt # <<>>
            /\ busy' = Head(fmt) /\ fmt' = Tail(fmt)
            /\ UNCHANGED <<driver, rx, rom, enabled>>

\* The EEPROM at the stop condition: the bytes kept are stored.
Stored(r) == [r EXCEPT !.mem = [a \in DOMAIN r.mem |->
                 LET i == a - (r.block * BlockSize + r.at) + Len(r.pending)
                 IN  IF i \in 0 .. Len(r.pending) - 1 THEN r.pending[i + 1] ELSE r.mem[a]],
                       !.pending = <<>>]

\* The EEPROM at a byte; its block bit is bit 3 of the control byte.
Accepted(r, e) ==
    CASE e.op = "start" -> [r EXCEPT !.block = (e.data \div 8) % 2, !.pending = <<>>]
      [] e.op = "high" -> [r EXCEPT !.at = e.data * ByteMod]
      [] e.op = "low" -> [r EXCEPT !.at = @ + e.data]
      [] e.op = "data" -> [r EXCEPT !.pending = Append(@, e.data), !.at = (@ + 1) % BlockSize]

HostSent == /\ enabled /\ busy.op \in {"start", "high", "low", "data"}
            /\ rom' = LET r == Accepted(rom, busy) IN IF busy.stop THEN Stored(r) ELSE r
            /\ busy' = Sending
            /\ UNCHANGED <<driver, fmt, rx, enabled>>

\* A byte of a read; the last one ends the entry.
HostReceived ==
    /\ enabled /\ busy.op = "read" /\ Len(rx) < Depth
    /\ rx' = Append(rx, rom.mem[rom.block * BlockSize + rom.at])
    /\ rom' = [rom EXCEPT !.at = (@ + 1) % BlockSize]
    /\ busy' = IF busy.data = 1 THEN Sending ELSE [busy EXCEPT !.data = @ - 1]
    /\ UNCHANGED <<driver, fmt, enabled>>

-----------------------------------------------------------------------------
Driver == Levels \/ Disable \/ FillWrite \/ FillRead \/ Receive
Host == HostTake \/ HostSent \/ HostReceived

\* Nothing is left to do.
Rest == pc = "idle" /\ calls = MaxCalls /\ Idle /\ fmt = <<>> /\ UNCHANGED vars

Next == (\E c \in Accesses : Access(c)) \/ Driver \/ Host \/ Rest

Spec == Init /\ [][Next]_vars

FairSpec == Spec /\ WF_vars(Driver) /\ WF_vars(Host)

-----------------------------------------------------------------------------
Done == pc = "idle" /\ calls > 0

\* A read returns the bytes at its address, across FIFO boundaries, with
\* the host still ending the accesses before it; the upper block of the
\* device is left out, since CtrlByte never selects it (i2c_24fc1025.c:46-116).
ReadCorrect == (Done /\ ~call.write /\ call.addr + call.len <= BlockSize)
               => \A i \in 0 .. call.len - 1 : buf[i] = rom.mem[call.addr + i]

\* The bytes a read may change: those asked for, but up to the next FIFO
\* boundary if it starts and ends between two.
Reach(c) == IF c.addr % Depth # 0 /\ FirstLen(c) > c.len THEN FirstLen(c) ELSE c.len

\* A read changes nothing behind its buffer.  Excepted is the overrun of a
\* short read between two FIFO boundaries, like that of gpt.c:27: it is read
\* up to the second boundary, whatever length was asked for, but no further
\* (i2c_24fc1025.c:102-107).
BufferFenced == ~call.write => \A i \in Slots : i >= Reach(call) => buf[i] = Untouched

FmtFits == Len(fmt) <= Depth
NothingCut == enabled \/ Idle

\* The FMT FIFO never overflows ("Fill at most half the FIFO immediately to
\* avoid overflow", i2c_24fc1025.c:65), and the host is not disabled in the
\* middle of an entry, although the FIFO levels the driver waits for do not
\* show it (lines 49-54).
FifosSound == FmtFits /\ NothingCut

\* Every access returns (i2c_24fc1025.c:49-51, 85-87).
CallsReturn == pc # "idle" ~> pc = "idle"

\* What a write queued is in the EEPROM once the bus is quiet again: the
\* comments promise "*two* writes of half-block size", the last byte of each
\* sent "with stop bit" (i2c_24fc1025.c:64-71).
WriteLands == (Done /\ call.write /\ Idle /\ fmt = <<>>)
              => \A i \in 0 .. call.len - 1 : rom.mem[call.addr + i] = Source(i)
=============================================================================
