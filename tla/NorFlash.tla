------------------------------ MODULE NorFlash ------------------------------
(***************************************************************************)
(* Writing and reading a boot disk in SPI NOR flash: the driver            *)
(* sw/lib/hal/spi_s25fs512s.c, the flash tool sw/boot/flash.c that calls   *)
(* it, the script util/flash_disk.sh that starts the tool, and the flash   *)
(* itself, which is external: it erases sectors or, unless told otherwise, *)
(* their quarters, has small sectors at one end of its memory or none, may *)
(* fail any erase or program and then stay busy, and takes an address      *)
(* behind its end for one from its beginning, or for none of its own.      *)
(*                                                                         *)
(* Addresses count pages, the unit of programming.  A page of the flash    *)
(* holds the number of the page of the tool's buffer programmed into it.   *)
(***************************************************************************)
EXTENDS Integers, Sequences

CONSTANTS
    NumSectors,  \* sectors of the flash (256)
    Sector,      \* pages of a sector (1024)
    Block,       \* pages erased at once unless configured otherwise (256)
    Subs,        \* small sectors (8), here of one page each
    Align,       \* sectors after which small ones are looked for (64)
    SectorBytes, \* bytes of a sector; more than any number of sectors given
    Images,      \* sizes of disk images, in pages
    Copies,      \* numbers of sectors given to the script; 0: none given
    Reads,       \* reads, <<address, length>>
    Chunk,       \* longest read transaction (4 * RX FIFO depth)
    SpiFreqs, CoreFreq, \* SPI clocks in MHz a handle may ask for, core clock
    MaxFaults,   \* bound on erases and programs that fail
    MaxCalls     \* bound on tool runs and reads

ASSUME NorAssumption ==
    /\ {NumSectors, Sector, SectorBytes, Chunk} \subseteq Nat \ {0}
    /\ Block \in 1 .. Sector /\ Sector % Block = 0 /\ Subs \in 1 .. Block
    /\ Align \in Nat \ {0, 1} /\ NumSectors % Align = 0
    /\ Images \subseteq Nat /\ Copies \subseteq 0 .. SectorBytes - 1
    /\ \A r \in Reads : {r[1], r[2]} \subseteq Nat /\ r[1] + r[2] <= NumSectors * Sector

VARIABLES
    pc,          \* "idle", "wen", "issue", "poll" or "read"
    req,         \* the tool's arguments, or the read
    spi_freq,    \* of the device handle
    cmd,         \* command being issued: operation, sector of the call, index
    offs, buf,   \* read: bytes done, and where each byte came from
    ret,         \* result of the last call
    calls,
    flash,       \* external: contents
    overlay,     \* external: where small sectors are, "bottom", "top", "none"
    erase256,    \* external: CR3V asks for erases of whole sectors
    wraps,       \* external: ignores the address bits it does not have
    wel, wip, err, \* external: status register
    faults,      \* history: erases and programs that failed
    before       \* history: contents when the call began

device == <<flash, overlay, erase256, wraps, wel, wip, err, faults>>
vars == <<pc, req, spi_freq, cmd, offs, buf, ret, calls, device, before>>

Size == NumSectors * Sector
Pages == 0 .. Size - 1
SectorOps == {"sub", "erase", "prog"}
Old == -1
Blank == -2
Mixed == -3  \* neither what was there nor what was to be

Enter4B == [op |-> "4bam", s |-> 0, i |-> 0]
\* Variant for TLC: rounds down.
SectorsDown(img, copy) == IF copy = 0 THEN img \div Sector ELSE (copy \div SectorBytes) + 1

\* The script's rounded-up size, from the image or from the number it was
\* given.
Sectors(img, copy) == IF copy = 0 THEN (img \div Sector) + 1 ELSE (copy \div SectorBytes) + 1

\* Nothing compares a run with the size of the flash: its last sector may lie
\* behind the end.
Runs == [op : {"flash"}, sector : 0 .. NumSectors - 1, img : Images, copy : Copies]

Init ==
    /\ pc = "idle" /\ ret = "none" /\ calls = 0 /\ spi_freq = 0
    /\ req = [op |-> "none"] /\ cmd = Enter4B /\ offs = 0 /\ buf = <<>>
    /\ flash = [a \in Pages |-> Old] /\ overlay \in {"bottom", "top", "none"}
    /\ erase256 \in BOOLEAN /\ wraps \in BOOLEAN /\ wel = FALSE /\ wip = FALSE /\ err = FALSE
    /\ faults = 0 /\ before = flash

-----------------------------------------------------------------------------
(* The flash.                                                              *)

Overlay == CASE overlay = "bottom" -> 0 .. Subs - 1
             [] overlay = "top" -> NumSectors * Sector - Subs .. NumSectors * Sector - 1
             [] overlay = "none" -> {}

\* Pages around one that an erase covers; small sectors keep out.
Unit(a) == LET size == IF erase256 THEN Sector ELSE Block
               first == a - (a % size)
           IN  (first .. first + size - 1) \ Overlay

Fill(A, v) == [a \in Pages |-> IF a \in A THEN v ELSE flash[a]]

-----------------------------------------------------------------------------
(* The driver.                                                             *)

\* Variant for TLC: the loop includes its limit.
num_sectorsInclusive == Sectors(req.img, req.copy) + 1

num_sectors == Sectors(req.img, req.copy)
SectorAddr(s) == (req.sector + s) * Sector

\* Small sectors may be at the beginning or at the end of a sector.
Alignment(s) == (req.sector + s) % Align
SubAddr(s) == SectorAddr(s) + IF Alignment(s) = Align - 1 THEN Sector - Subs ELSE 0

Command(op, s, i) == [op |-> op, s |-> s, i |-> i]

\* Address of a command.
Target(c) == CASE c.op = "sub" -> SubAddr(c.s) + c.i
               [] c.op = "erase" -> SectorAddr(c.s)
               [] c.op = "prog" -> SectorAddr(c.s) + c.i

\* The first command for a sector; regular ones have no small sectors.
StartSector(s) == IF Alignment(s) \in {0, Align - 1} THEN Command("sub", s, 0)
                  ELSE Command("erase", s, 0)

\* The command after one that is complete; num_sectors of them: the end.
After(c) ==
    CASE c.op = "4bam" -> Command("cr3v", 0, 0)
      [] c.op = "cr3v" -> StartSector(0)
      [] c.op = "sub" -> IF c.i < Subs - 1 THEN [c EXCEPT !.i = @ + 1] ELSE Command("erase", c.s, 0)
      [] c.op = "erase" -> Command("prog", c.s, 0)
      [] c.op = "prog" -> IF c.i < Sector - 1 THEN [c EXCEPT !.i = @ + 1] ELSE StartSector(c.s + 1)

Return(r) == /\ pc' = "idle" /\ ret' = r
             /\ UNCHANGED <<req, spi_freq, cmd, offs, buf, calls, device, before>>

Min2(a, b) == IF a < b THEN a ELSE b

FreqLegal(f) == f > 0 /\ f <= CoreFreq

\* The clock of the tool's own handle.
ToolFreq == Min2(40, CoreFreq \div 4)

\* A call on a handle with a clock: one that is not legal is rejected when the
\* handle is initialised, and one that is too fast for the commands of the call
\* before any of them.
Start(r, f, limit, at) ==
    /\ pc = "idle" /\ calls < MaxCalls
    /\ calls' = calls + 1 /\ req' = r /\ before' = flash /\ spi_freq' = f
    /\ IF FreqLegal(f) /\ f < limit THEN pc' = at /\ ret' = "none"
                                   ELSE pc' = "idle" /\ ret' = "error"

\* The tool, then the driver from its first command.
main(r) == /\ Start(r, ToolFreq, 100, "wen")
           /\ cmd' = Enter4B
           /\ UNCHANGED <<offs, buf, device>>

set_wen ==
    /\ pc = "wen"
    /\ wel' = (wel \/ ~wip)
    /\ pc' = "issue"
    /\ UNCHANGED <<req, spi_freq, cmd, offs, buf, ret, calls, before,
                   flash, overlay, erase256, wraps, wip, err, faults>>

\* The page that a command reaches.
Reached(c) == Target(c) % Size

\* Small sectors exist only where the flash has them; elsewhere their erase
\* has no effect.
Accepted == /\ ~wip /\ wel
            /\ cmd.op \in SectorOps => wraps \/ Target(cmd) \in Pages
            /\ cmd.op = "sub" => Reached(cmd) \in Overlay

\* The driver never clears an error; the flash may with a command, or not, and
\* takes none while it has one.
Issue ==
    /\ pc = "issue"
    /\ err' \in {err, FALSE}
    /\ IF cmd.op = "4bam"
       THEN pc' = "wen" /\ cmd' = After(cmd) /\ UNCHANGED wip
       ELSE pc' = "poll" /\ wip' = (wip \/ (Accepted /\ ~err')) /\ UNCHANGED cmd
    /\ UNCHANGED <<req, spi_freq, offs, buf, ret, calls, before,
                   flash, overlay, erase256, wraps, wel, faults>>

\* The flash is done.  CR3V is sent as a read: what the flash takes from the
\* line, which nobody drives, may be any value.
Complete ==
    /\ wip /\ ~err /\ wip' = FALSE /\ wel' = FALSE
    /\ CASE cmd.op = "cr3v" -> erase256' \in BOOLEAN /\ UNCHANGED flash
         [] cmd.op = "sub" -> flash' = Fill({Reached(cmd)}, Blank) /\ UNCHANGED erase256
         [] cmd.op = "erase" -> flash' = Fill(Unit(Reached(cmd)), Blank) /\ UNCHANGED erase256
         [] cmd.op = "prog" ->
              /\ flash' = Fill({Reached(cmd)},
                               IF flash[Reached(cmd)] = Blank THEN cmd.s * Sector + cmd.i ELSE Mixed)
              /\ UNCHANGED erase256
    /\ UNCHANGED <<pc, req, spi_freq, cmd, offs, buf, ret, calls, overlay, wraps, err, faults, before>>

\* An erase or a program fails, and the status says so.  The flash may stay
\* busy then, until the error is cleared.
Fail ==
    /\ wip /\ ~err /\ cmd.op # "cr3v" /\ faults < MaxFaults
    /\ wip' \in BOOLEAN /\ wel' = FALSE /\ err' = TRUE /\ faults' = faults + 1
    /\ flash' = Fill(IF cmd.op = "erase" THEN Unit(Reached(cmd)) ELSE {Reached(cmd)}, Mixed)
    /\ UNCHANGED <<pc, req, spi_freq, cmd, offs, buf, ret, calls, overlay, erase256, wraps, before>>

\* Variant for TLC: the status is read once.
poll_wipOnce ==
    /\ pc = "poll"
    /\ \/ err /\ Return("error")
       \/ /\ ~err /\ After(cmd).s >= num_sectors /\ Return("ok")
       \/ /\ ~err /\ After(cmd).s < num_sectors
          /\ cmd' = After(cmd) /\ pc' = "wen"
          /\ UNCHANGED <<req, spi_freq, offs, buf, ret, calls, device, before>>

\* Variant for TLC: an error bit keeps the loop going.
poll_wipAnyBit ==
    /\ pc = "poll" /\ ~wip /\ ~err
    /\ \/ /\ After(cmd).s >= num_sectors /\ Return("ok")
       \/ /\ After(cmd).s < num_sectors
          /\ cmd' = After(cmd) /\ pc' = "wen"
          /\ UNCHANGED <<req, spi_freq, offs, buf, ret, calls, device, before>>

\* A poll that finds the flash busy changes nothing.
poll_wip ==
    /\ pc = "poll" /\ ~wip
    /\ \/ err /\ Return("error")
       \/ /\ ~err /\ After(cmd).s >= num_sectors /\ Return("ok")
       \/ /\ ~err /\ After(cmd).s < num_sectors
          /\ cmd' = After(cmd) /\ pc' = "wen"
          /\ UNCHANGED <<req, spi_freq, offs, buf, ret, calls, device, before>>

single_read(r, f) ==
    /\ Start([op |-> "read", addr |-> r[1], len |-> r[2]], f, 50, "read")
    /\ offs' = 0 /\ buf' = <<>>
    /\ UNCHANGED <<cmd, device>>

\* Variant for TLC: every chunk is read from the first address.
single_read_chunkSame ==
    /\ pc = "read"
    /\ LET n == Min2(Chunk, req.len - offs)
       IN  buf' = buf \o [i \in 1 .. n |-> flash[req.addr + i - 1]]
    /\ offs' = offs + Chunk
    /\ IF offs' < req.len THEN UNCHANGED <<pc, ret>> ELSE pc' = "idle" /\ ret' = "ok"
    /\ UNCHANGED <<req, spi_freq, cmd, calls, device, before>>

single_read_chunk ==
    /\ pc = "read"
    /\ LET n == Min2(Chunk, req.len - offs)
       IN  buf' = buf \o [i \in 1 .. n |-> flash[req.addr + offs + i - 1]]
    /\ offs' = offs + Chunk
    /\ IF offs' < req.len THEN UNCHANGED <<pc, ret>> ELSE pc' = "idle" /\ ret' = "ok"
    /\ UNCHANGED <<req, spi_freq, cmd, calls, device, before>>

-----------------------------------------------------------------------------
Driver == set_wen \/ Issue \/ poll_wip \/ single_read_chunk
Device == Complete \/ Fail

Next == (\E r \in Runs : main(r)) \/ (\E r \in Reads, f \in SpiFreqs : single_read(r, f)) \/ Driver \/ Device

Spec == Init /\ [][Next]_vars

FairSpec == Spec /\ WF_vars(Driver) /\ WF_vars(Device)

-----------------------------------------------------------------------------
Done(op) == pc = "idle" /\ req.op = op /\ ret = "ok"

\* Pages of the image that a run stores: a run given a number of sectors
\* stores the first of them only (util/flash_disk.sh:22-23 takes the number for
\* bytes).
Asked == IF req.copy = 0 THEN req.img ELSE Min2(req.img, Sector)

\* What lies inside the flash of the image is there.  An image that fills all
\* of a flash that ignores address bits is excepted: its first sector is
\* overwritten by the one sector that the script has more.
OnDisk == (wraps => num_sectors <= NumSectors)
          => \A p \in 0 .. Asked - 1 :
                 req.sector * Sector + p \in Pages => flash[req.sector * Sector + p] = p

\* A run of the tool that reports 0 has the image on the disk (flash.c:59-96,
\* util/flash_disk.sh:22-23, spi_s25fs512s.c:95-186), with small sectors at
\* either end, sectors behind the end and after a run that failed, if the
\* flash erases whole sectors; with the exceptions of Asked and OnDisk.
ImageStored == (Done("flash") /\ erase256) => OnDisk

\* Sectors a run may change: those asked for, or those of the image; the
\* script has one more if they divide evenly (util/flash_disk.sh:23).
Expected == IF req.copy > 0 THEN req.copy
            ELSE ((req.img + Sector - 1) \div Sector) + IF req.img % Sector = 0 THEN 1 ELSE 0

\* Sectors behind the end are the first ones of a flash that ignores address
\* bits.
Written == {a % Size : a \in req.sector * Sector .. (req.sector + Expected) * Sector - 1}

\* Nothing else on the disk changes, whatever fails and whatever the flash
\* erases at once (the addresses at spi_s25fs512s.c:98-110, 133 and 148).
OthersKept == (req.op = "flash") => \A a \in Pages \ Written : flash[a] = before[a]

\* The flash ignores a command while it is busy, so the driver sends none
\* (poll_wip, spi_s25fs512s.c:72-83); it sends none without write enable
\* ("before *every* program", line 85); and if the flash erases whole sectors,
\* a page that it programs is erased.  A flash that erases quarters is
\* excepted: the driver programs pages of it that are not (line 173).
CommandsTake ==
    /\ wip => pc = "poll"
    /\ pc = "issue" => wel
    /\ (pc = "issue" /\ cmd.op = "prog" /\ erase256 /\ (wraps \/ Target(cmd) \in Pages))
       => flash[Reached(cmd)] = Blank

\* A read that returns 0 has the contents of the flash, however it is cut
\* into chunks (spi_s25fs512s.c:63-66).
ReadCorrect == Done("read")
               => buf = [i \in 1 .. req.len |-> flash[req.addr + i - 1]]

\* Every call returns, one whose erase or program fails included, unless the
\* flash stays busy after the failure: the poll of spi_s25fs512s.c:74-80 has
\* no bound of its own and nothing clears the error.
CallsReturn == (pc # "idle") ~> (pc = "idle" \/ (wip /\ err))

\* A run of the tool that reports 0 has stored the image, whatever the flash
\* was configured to erase before ("Set CR3V to ensure everything is
\* configured correctly", spi_s25fs512s.c:165).
StoredAsConfigured == Done("flash") => OnDisk
=============================================================================
