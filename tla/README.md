# Cheshire in TLA+

This directory specifies the part of Cheshire that decides whether the SoC
boots: the multi-hart hand-over, the passive and the autonomous boot modes, the
drivers they read through, how a boot disk is written and a program preloaded,
the DMA all harts share, and the address map all of them rely on. The modules
are checked with TLC on small instances, and their safety invariants are also
proved for every value of the constants. `PROJECT.json` lists components,
runs, the line ranges each definition stands for, hazards and theorems.

    tlc -config SmpBoot.cfg MCSmpBoot     # any run: <name>.cfg on its MC module
    tlapm SmpBoot_proofs.tla              # the proofs of one module

## 1. The system

Cheshire is a Linux-capable RISC-V SoC: 1 to 31 CVA6 harts, a last-level cache
that doubles as scratchpad, and peripherals behind an AXI crossbar and a
register demultiplexer. The repository holds the RTL that puts it together
(`hw/`), the boot ROM (`hw/bootrom`), bare-metal software (`sw/`), the
simulation environment (`target/sim`) and an FPGA target (`target/xilinx`).
Cores, crossbar, cache and peripherals are submodules and not part of it.

| part | state | operations | what makes it correct |
|---|---|---|---|
| `smp_pause`, `smp_resume` (`sw/include/smp.h`) | CLINT msip of each hart, scratch[4..5], each hart's loop index | sleep, raise, wake, clear, scan, jump | nobody leaves before all have arrived; all jump to one address; later interrupts are not taken for the boot interrupt |
| boot ROM `main`, `boot_passive` (`hw/bootrom`) | scratch[0..2], UART | poll flag and UART, claim, launch, exit | only what the host asked for is run, and only when it is completely loaded |
| UART debug server (`sw/lib/hal/uart_debug.c`) | command being served | READ, WRITE, EXEC | stays in step with its host for any data |
| hosts (`target/sim/src/vip_cheshire_soc.sv`) | transfer in progress | JTAG, UART and serial-link preload, wait for exit | get the exit code |
| SD card driver (`spi_sdcard.c`) | chip select, poll budgets, block index | init, read, write | 0 means done; nothing outside the buffer or the range; every call returns |
| EEPROM driver (`i2c_24fc1025.c`) | I2C FIFOs, host enable | read, write in FIFO-sized chunks | no overflow, no cut byte, the right bytes |
| NOR driver (`spi_s25fs512s.c`) and flash tool (`flash.c`, `flash_disk.sh`) | erase and program progress | read, flash sectors | the whole image and nothing else is written; erased before programmed; polls end |
| partition search (`gpt.c`) | partition index, chosen range | signature, header, entries, copy | first viable partition, never more than fits |
| zero-stage loader (`zsl.c`) | global pointer, copies made | load device tree and firmware, launch | enters only complete firmware, right global pointer in each code |
| CLINT driver (`clint.c`) | mtime halves, mtimecmp | spin, sleep, measure the frequency | waits long enough, measures correctly, returns |
| DMA driver and wrapper (`dma.h`, `cheshire_idma_wrap.sv`) | configuration registers, job FIFO, identifiers | configure, launch, poll | the transfer launched is the one configured; a blocking copy returns when its own is complete |
| ELF loader and preload tasks (`elfloader.cpp`, VIP) | sections and contents of all files so far | load, fetch a section, write it in bursts | memory holds the program, and nothing else changes |
| interconnect tables (`cheshire_pkg.sv`), top level (`cheshire_soc.sv`) | none: generated from the configuration | decode, route, answer | the documented device answers at its address in every configuration |

How the parts interact. All harts start in the boot ROM. Hart 0 runs `main`,
which measures the clock with the CLINT driver and enters passive boot or one
of three autonomous modes; the others sleep in `smp_pause`. Passive boot and its
host share the scratch registers, the memory and the UART. Autonomous boot
passes the driver's read function to the partition search, and, through the
scratch registers, on to the zero-stage loader, which calls back into the boot
ROM. Whatever is found is entered through `boot_next_stage`, on all harts. The
program entered returns its exit code in scratch[2], which the host polls.

The hard behaviours: harts and hosts polling registers others write in several
steps; interrupts that are cleared by the wrong party; posted stores to
different devices; one register (scratch[2]) used as launch flag and exit code;
a byte stream without framing; devices that stop answering, fail in the middle
or are left in the middle of a transfer by an error return; a counter read in
halves; FIFOs filled by software and emptied by hardware; registers of one DMA
used by several harts; identifiers that wrap; memory that must be erased in other
units than it is written in; a loader whose state outlives a file; unsigned
arithmetic on disk data; tables numbered by counting what is present. `PROJECT.json`,
"hazards", has each at its line.

## 2. Modules

One module per part, each with an `MC` module that defines the larger constants
for TLC. Definitions keep the names of the code where it has one. A definition
commented "Variant for TLC" is not part of the specification: it is a definition
changed the way a plausible bug would change it, used to see that a property can
fail.

| module | models | a state is | a step is |
|---|---|---|---|
| `SmpBarrier` | what the hand-over promises | who has arrived, who was launched where | publish, arrive, launch |
| `SmpBoot` | `smp.h`, `_start`, `boot_next_stage` | a place per hart, msip, scratch registers, stores still posted | one access of one hart to the CLINT or the scratch registers |
| `*_proofs` | theorems about the module of that name (section 4); `Tables_proofs` about `GptBoot`, `Preload` and `SocMap` | | |
| `Selection` | entries of a table selected by position, for `Preload` and `SocMap` | | |
| `PassiveBoot` | `boot_passive`, debug server, `uart.c`, hosts, exit of `crt0.S` | hart 0, host, both UART directions, scratch, memory | one poll, one token on the UART, one register write |
| `SdCard` | `spi_sdcard.c` and an external card | driver place and budget, card selection and open transfer, buffer as provenance of each byte | one command, poll or block |
| `GptBoot` | `gpt.c`, `zsl.c` | disk table, search, place, global pointer, range copied per search | entering or leaving one call of the read function |
| `Clint` | `clint.c` | cycle counter, offset of the reference clock, half read | one access of the hart, of variable latency |
| `I2cEeprom` | `i2c_24fc1025.c`, external I2C host and device | chunk, FIFOs, entry being sent, device contents | one driver phase, or one entry or byte of the host |
| `Preload` | `elfloader.cpp` and the three preload tasks of the VIP | the loader's globals, section and position being written, memory | one file read, one section fetched, one write or burst |
| `DmaService` | what the DMA promises its callers | transfers outstanding, and how many of them a waiting hart waits for | launch, complete, return |
| `Dma` | `dma.h` and the front of `cheshire_idma_wrap.sv` | configuration registers, job FIFO, both identifiers, a place per hart | one register access of one hart, or a transfer completing |
| `NorFlash` | `spi_s25fs512s.c`, `flash.c`, `flash_disk.sh`, external flash | command being issued, contents of each page, status register | one command, poll or chunk; the flash completing or failing |
| `SocMap` | `gen_axi_out`, `gen_reg_out`, `gen_cva6_cfg`, the two decoders of `cheshire_soc.sv` | configuration and one access | issue, crossbar decode, demultiplexer decode |

Abstractions that matter to a reader of the code:

* `SmpBoot`: a scratch store is posted and performed later, since scratch
  registers and CLINT are different devices; the fence waits for it. Accesses of
  one hart to the CLINT are in order. Harts past the jump are the external next
  stage and may send interrupts to any hart and handle their own. The scratch
  registers start with any value: they are not reset with the harts.
* `PassiveBoot`: a 64-bit argument or the return value is one token on the UART,
  any other byte one token. The host waits for nothing before it sends, and no token is
  lost: a token takes longer on the line than the server needs for one. The program is a
  function from addresses to bytes.
  A program started by the debugger returns into whatever call of `boot_passive`
  was interrupted. After `boot_next_stage` the code returns to its own `ret`
  (`cheshire_bootrom.S:107`): place "spin".
* `SdCard`: a byte of the buffer is the block and offset it came from, so that
  `ReadCorrect` compares provenance; bytes before and behind the buffer are
  watched. The outcome of CMD8's undefined 40-bit shift is a choice between what
  the compilers at hand make of it.
* `GptBoot`: a disk is a partition table; its read function delivers or fails
  (`SdCard` is one). Block numbers wrap as the code's unsigned ones do.
* `Clint`: mtime is derived from the cycle counter, so the two clocks drift in no
  way but through the offset, of which every value is checked.
* `I2cEeprom`: the delay before the host is disabled lasts until the entry being
  sent is done, as the code's one tick of the reference clock intends.
* `Preload`: a byte of a file is named after the file and the address it is for.
  A preload task writes behind a section what its buffer holds there, zero bytes.
  No task checks that a section is aligned. What the debug module makes of an access
  that is not is not in the repository: `JtagUnaligned` lets it write at the address or
  at its word, or refuse.
* `Dma`: a value in a register is the call that wrote it, so that a transfer shows
  whose arguments it was launched with. Harts are not coordinated; calls of one
  hart follow each other.
* `NorFlash`: addresses count pages. A page holds the page of the image programmed
  into it, or `Blank`, or `Mixed` if it was programmed without having been erased
  or an error left it undefined. The flash has its small sectors at either end or
  nowhere, erases sectors or quarters of them, and is busy for any time; after an error
  it may stay busy. An address behind its end is one at its beginning for a flash that
  ignores the bits it does not have (`wraps`), and is not taken by another.
* `SocMap`: configurations are records of the fields of `cheshire_cfg_t` that the
  tables depend on; addresses are in units of 16 bytes. `Documented` restates
  the table of `docs/um/arch.md` and is the only part not taken from the code.

## 3. Runs

`pass` runs check everything listed; `violation` runs state what a comment or
document says and show the code doing otherwise.

| run | instance | checks | shows |
|---|---|---|---|
| `smp` | 3 harts, 2 values per half address, 2 later interrupts; 5 624 states | `TypeOK BarrierSafe EntryAgreed NoIpiSwallowed RefinesBarrier AllLaunch` | the hand-over, and its refinement of `SmpBarrier` |
| `passive` | 5 kinds of host, 3 bytes of program, 4 transfers, 3-bit registers, every return value; 2 163 states | `LaunchSound ProtocolInStep ExitReported HostDone` | each path of passive boot from reset to the exit code |
| `sd` | 3 blocks of 2 bytes, every alignment, budgets of 2 and 3 polls, all faults; 4 765 states | `ReadCorrect BufferFenced WriteCorrect Released CallsReturn` | reads and writes against a failing card |
| `gpt` | all disks of up to 3 partitions of 9 kinds, empty and inverted ones included, signed or not, limits 3, 1 and 4 blocks, block numbers mod 16, reads and copies that fail; 43 990 states | `BootChoice FirmwareComplete GpDiscipline` | choice, size and completeness of what is booted |
| `clint` | low half mod 4, 9 cycles per tick, steps of 1 or 2 cycles; 149 270 states | `SpinWaits FreqAccurate CallsReturn` | time keeping across rollovers |
| `i2c` | FIFO of 8, blocks of 16 bytes, 2 accesses; 8 679 states | `ReadCorrect BufferFenced FifosSound CallsReturn` | accesses that overlap with the host's work |
| `i2c_write` | writes | `WriteLands` violated | nothing is stored without a stop condition |
| `soc_map` | 139 configurations, 77 addresses; 28 912 states | `Delivered Answered AttributesSound` | the address map in every configuration with up to two features missing, or all but one |
| `preload` | 13 files of up to 3 segments, words of 2 and bursts of 4 bytes, 2 preloads; 86 590 states | `ImageLoaded Footprint StopsOnlyFor` | two programs loaded one after the other, over any path |
| `dma` | 2 harts, a job FIFO of 1, 3 identifiers, 4 calls; 778 851 states | `TypeOK LaunchedAsAsked RefinesService BlockingReturns` | launches and blocking copies of harts that do not coordinate |
| `nor` | 3 sectors of 4 pages, quarters of 2, small sectors at either end or none, a flash that ignores address bits or not, 1 fault after which it stays busy or not, 2 calls; 1 492 796 states | `ImageStored OthersKept CommandsTake ReadCorrect CallsReturn` | runs of the flash tool and reads, against a flash that may fail |
| `nor_cr3v` | as above | `StoredAsConfigured` violated | a flash configured for smaller erases keeps that configuration, and the image is not stored |

Every property of a pass run is also run against a changed definition that
breaks it ("mutants").

### Bounds, and why they are enough

* *Harts* 3: the barrier's cases are a hart below, at and above a walk's index,
  and one hart that is neither the raising nor the scanning one. The proof covers
  the rest. `MaxIpis` 2: one interrupt that strands a hart and one after it.
* *Half addresses* 2 values: enough to tell a stale or half-updated address from
  the right one.
* *Registers of 3 bits* in `PassiveBoot`: end marker, launch flag and the bit that is
  lost; even and odd return values. `MaxTyped` 3 bytes: an ACK, a command byte and one
  more. `MaxPrint` 2.
* *Blocks of 2 bytes* in `SdCard`: each block is whole, cut at the front or cut
  at the back; three of them have a first, a middle and a last one. The poll
  budgets only need to be long enough to be left with polls and without.
* *Disks* in `GptBoot`: a viable partition can be before, behind or between others;
  partitions are under, at and over each limit, empty, inverted or of another type,
  the first one included.
* *LowMod* 4, *Ratio* 9 in `Clint`: a read straddles a rollover at every offset,
  and the loop turn of at most 6 cycles is shorter than a tick, as in the system,
  where a tick is thousands of cycles. `LastCall` covers a whole period of the
  low half, and `MaxCycle` leaves room for the longest call.
* *Depth* 8 in `I2cEeprom`: half the FIFO, the address and the last byte just
  fit, as in the code with 64. Two accesses: the second starts with what the
  first left in the host.
* *Files* in `Preload`: segments adjacent, apart, in falling order and at one
  address twice, in one file and in two; with and without zero bytes; whole and
  partial words and bursts; files that are damaged or none. Two preloads: what the
  first leaves in the loader meets the second. The proof covers any files, numbers of
  preloads and sizes.
* *Dma*: two harts and a third transfer fill the FIFO, and 3 identifiers wrap within
  4 calls; they are one more than transfers fit in, the least the code allows. The
  proof covers any number of each.
* *NorFlash*: 3 sectors, the first and the last of which are the ones small sectors
  are looked for in; images below, at and above the size of a sector, and one that fills
  the flash; one fault,
  after which the second run starts on what the first left.
* *Addresses* of `SocMap`: first and last unit of every region. Configurations
  with 1, 3 and 30 cores, and one in which an external device backs the SPM. The
  proof covers any configuration and address.

### Fairness

Each liveness property names its assumptions in `FairSpec`; all are weak.

* `SmpBoot`: every hart keeps executing, a posted store is performed, and the next
  stage services its interrupts. `AllLaunch` excepts harts that the next stage
  interrupts before they arrive: the code does strand them (section 5).
* `PassiveBoot`: hart and host keep running, and the program returns. `HostDone` is
  claimed for hosts that wait for the UART to be set up.
* `SdCard`: the driver runs, and the card finishes its initialisation. The card is
  otherwise free to stop answering, so termination rests on the poll budgets.
* `Clint`: the hart runs; time passes with it.
* `I2cEeprom`: driver and I2C host run.
* `Dma`: every hart proceeds, and transfers complete. `BlockingReturns` excepts a
  hart whose launch another one overtook (section 5).
* `NorFlash`: the driver runs, and the flash ends what it does, well or with an
  error. `CallsReturn` excepts a flash that stays busy after an error (section 5).

`SocMap` has no liveness: an access is two combinational decodes; `Preload` and
`GptBoot` have none: their steps go through finite tables and files. Deadlock is
checked in `soc_map`, `clint` and `i2c`; the other configurations say why their
system may stop.

## 4. Proofs

`SmpBoot_proofs` proves, from `SmpAssumption` only (at least one hart, a nonempty
set of address halves, a `NoEntry` that is no address, a bound in `Nat`):

| theorem | states |
|---|---|
| `Invariance` | `Spec => []IInv` |
| `TypeCorrect` | `Spec => []TypeOK` |
| `BarrierCorrect` | `Spec => []BarrierSafe` |
| `EntryCorrect` | `Spec => []EntryAgreed` |
| `IpiCorrect` | `Spec => NoIpiSwallowed` |
| `BootRefinesBarrier` | `Spec => RefinesBarrier` |

`BarrierSafe` is not inductive: a hart may pass the scan because every register it
reads is 0, and only the history says whether 0 means "consumed" or "not yet
raised". `IInv` records it. Interrupts are raised from index 0 up, so the non-SMP
hart's own is pending until it has raised all others (`Raising`), and everybody is
kept at position 0 of the scan meanwhile; after that, each register is 1 or its
hart has consumed the interrupt (`RaisedAll`), so a 0 read by the scan means
consumed (`Scanned`), and consumed is for ever. `QuietBefore` covers the time
before the first interrupt, `PendingUntilCleared` the two steps of waking up, and
`AddressFlow` follows the two halves of the address from the call through the
posted stores and the fence to each hart's jump. `LateIpis` needs `IInv` and in
turn gives `NoIpiSwallowed`. The refinement maps the harts that consumed their
interrupt to the abstract `arrived`; every step but `CallNextStage`, `ClearIpi` and
`LoadLoAndJump` is a stutter. The proof has a lemma per action and, below it, a
step for types, control and addresses.

`PassiveBoot_proofs`, from `PassiveAssumption` (an image every byte of which some
transfer writes, and no transfer leaves; no byte read back before it was written;
exit registers whose range is a multiple of
four; an entry point other than 0; no opcodes typed on a terminal, no EOC byte printed):

| theorem | states |
|---|---|
| `LaunchCorrect` | `Spec => []LaunchSound` |
| `ExitCorrect` | `Spec => []ExitReported` |
| `ProtocolCorrect` | `Spec => []ProtocolInStep` |

The five hosts share the hart's steps but never meet, so `IInv` is one invariant per
kind. `Slink` says which of the two writers of the scratch registers has the turn: the
host before the flag, the hart after it. `Jtag` tells even from odd return values:
after the program returned, the boot ROM polls a register that holds an exit code, and
bit 1 of an odd value's is the launch flag (`ExitValue`), so that the hart may run
once more, which `OddReturn` excepts in `LaunchSound`. For the UART hosts, `Reading`
and `Writing` count: what the server has yet to send or to receive, what is on the
line and what the host has taken or sent always add up to the length of the transfer,
which is why the server is back at its command loop, and both directions empty,
whenever the host starts the next one. `StoredSoFar` collects the transfers into the
image, and `Output` says that the first EOC byte the host meets is followed by the
return value. `Line` adds the contents to the counts, and is inductive relative to
`IInv`: what the host got is a prefix of what it reads and what is on the line the
next part (`Echo`), and the answer to EXEC comes before anything the program prints
(`AckFirst`); there the guard of `ProgramInits` is needed, a FIFO reset that came
sooner could drop the answer.

`Dma_proofs`, from `DmaAssumption` (natural bounds, and more identifiers than
transfers fit into FIFO and data mover):

| theorem | states |
|---|---|
| `TypeCorrect` | `Spec => []TypeOK` |
| `LaunchesAsAsked` | `Spec => []LaunchedAsAsked` |
| `Implements` | `Spec => RefinesService` |

The identifiers in the FIFO are consecutive modulo `IdMod` and end at the last one
given out (`Numbered`); as they are fewer than `IdMod` they differ (`Distinct`), which
is where the assumption is used: with fewer identifiers a hart would take a later
transfer for its own. A hart past its launch waits for one of them or for one that is
complete (`Launched`, `Held`). `RegInv` adds that the registers a hart has written
hold its arguments until another hart writes, of which `LaunchedAsAsked` follows. The
refinement maps a waiting hart to the place of its transfer in the FIFO (`AheadOf`).

`Tables_proofs` is about the three components that go by tables. For `GptBoot`, from
`GptAssumption` (limits below the range of block numbers, no partition so near the end
of the range that adding a limit wraps: byte addresses of 64 bits, `gpt.c:81`, end far
before it):

| theorem | states |
|---|---|
| `PointersCorrect` | `Spec => []GpDiscipline` |
| `BootCorrect` | `Spec => []BootChoice` |
| `FirmwareCorrect` | `Spec => []FirmwareComplete` |

`Pointers` says whose global pointer is in use where, and that scratch[3] holds the
boot ROM's whenever the loader can come to read. `Search` says that no entry passed
over is viable and what is left to fall back on, so that the search ends with the
first viable partition (`Found`); `FitsViable` shows that the code's wrapping test
agrees with the definition of viable, and `WholeCopied` and `RomCopied` that the
wrapping length is the right one. `Loaded` carries that through the copies. `gpt.c:48`
does the same sums unsigned: an inverted first partition that is left to be run is
copied without a limit, and `BootChoice` excepts it (`Unlimited`).

For `Preload`, from `PreloadAssumption` (bursts of whole words, programs that fit into
memory):

| theorem | states |
|---|---|
| `PreloadInvariance` | `PreloadSpec => []PInv` |
| `ImageCorrect` | `PreloadSpec => []ImageLoaded` |
| `FootprintCorrect` | `PreloadSpec => []Footprint` |
| `StopsCorrect` | `PreloadSpec => []StopsOnlyFor` |

`Sections` says that the last sections of the loader are the present file's, and that
the contents of an address no earlier file used are those of the file's first segment
for it; `Buffer` that the section being written has them, padded with zero bytes.
`Memory` is the induction over the writes: the first `off - Lead` bytes of the present
section and all of those before it are in memory. A write behind the end of its
section spoils nothing that counts: the sections it can reach come later in the file,
and so do their writes. That is why `ImageLoaded` is stated for files in rising order.
Unaligned sections over JTAG may write anywhere near, and the three properties say
nothing of such programs (`ByWords`). The proof needed `StopsOnlyFor` corrected: two
segments at one address share the contents of the first, so that a simulation also
stops when those are longer than the second's memory; a file of the run shows it.

For `SocMap`, from `SocAssumption`: the LLC has its output connected; regions lie as
`docs/um/arch.md` has them and do not overlap (`PlacedApart`); ports and rules can be
numbered in the widths the code has for them (`Countable`), which the code does not
check; and the 4 KiB of the error reporters hold a table of them:

| theorem | states |
|---|---|
| `MapInvariance` | `MapSpec => []MapInv` |
| `AccessDelivered` | `MapSpec => []Delivered` |
| `AccessAnswered` | `MapSpec => []Answered` |
| `AttributesCorrect` | `MapSpec => []AttributesSound` |

No invariant of the two decode steps is enough by itself: it is the tables that have
to be right. The proof characterises them in four steps. Port lists have no device
twice, so a device has one port and a port one device, whatever features were left
out (`Distinct`, `AtIs`, `RegPortIs`). The rules of each map are then exactly those of
the places that the devices present have (`AxiMapIs`, `RegMapIs`), each leading to a
port where that device and nothing else is connected (`AxiRuleRoutes`,
`RegRuleRoutes`). Places of different devices are disjoint, and the demultiplexer's lie
inside the two kinds of region the crossbar sends there (`AxiApart`, `RegApart`), so
that no rule overrides another, and an access lands at the one device that owns its
address or at an error responder (`DestinationIs`); of the error reporters, only those
of an absent VGA controller or DMA lead to nobody. Finally that device is the one a
reader of `arch.md` expects (`OwnerPlaced`, `PlacedOwner`). `MapInv` connects this
with the steps of an access. Without `PlacedApart` the order of the rules would decide;
without `Countable` a port number wraps, as it does for 31 cores (section 5).

`Selection` is there for these proofs. What `SelectSeq` and the folds do is not to be
had from their definitions with the provers at hand, and an induction theorem cannot be
instantiated; `Select` is a recursive function of the length, and its properties
(`Selected`) follow by `Induction` over it. That lemma is stated for a set in place of a
predicate, and follows from `LeastMember`, hence from the library's theorem that
strict inclusion of finite sets is well-founded.

`I2cEeprom_proofs`, from `I2cAssumption` (an even depth with room for half a FIFO and
the address, a page of whole FIFOs, accesses inside the device and one of them the
longest, since the caller's buffer is as long as that):

| theorem | states |
|---|---|
| `FifosCorrect` | `Spec => []FifosSound` |
| `ReadsFenced` | `Spec => []BufferFenced` |
| `ReadsCorrect` | `Spec => []ReadCorrect` |

The driver fills a queue only after it has seen it empty (`QueueEmpty`) and holds the
host only while it does so and no entry is being sent (`HostHeld`); `ChunkInside` says
that every chunk of a read ends within what the read may change (`Reach`): its buffer,
or for a short read between two FIFO boundaries what lies up to the second. For the
contents, `ReadInv` is inductive relative to `IInv`. `Transfer` says where the host is
along the five entries of a chunk, what the EEPROM made of those before (`Sent`), and
that what came in so far is the next bytes of the device; it holds from the moment the
entries are queued, because the bus is then quiet: an earlier write has been sent to
its last entry (`NoReadQueued`). `NoGap` says that the chunks of a read follow each
other, whichever of them ends at a FIFO boundary.

`Clint_proofs`, from `ClintAssumption` (a nonzero clock ratio, counter width and
number of ticks; an access takes a cycle at least, and one of them is the slowest):

| theorem | states |
|---|---|
| `SpinCorrect` | `Spec => []SpinWaits` |
| `FreqCorrect` | `Spec => []FreqAccurate` |

The high half a read holds is never larger
than the one of the present time (`HalfPast`), so that a finished read is at most the
present time; and a spin's target is no earlier than what its caller expects
(`TargetDue`), except when the relative one started on a torn read. `FreqInv` follows
the two loops of the measurement: the count a loop keeps was read in the tick before
the one it ends with (`Timing`), hence within one slow access before the tick began
and two behind it (`TickBegan`); the difference of two such counts is off by three.
Without a slowest access no bound holds.

`SdCard_proofs`, from `SdAssumption` (nonzero block size and budgets, requests inside
the disk, a signature read inside one block and a raw copy of more than one as `gpt.c`
asks for them, a window that covers every read):

| theorem | states |
|---|---|
| `ReadsFenced` | `Spec => []BufferFenced` |
| `CardReleased` | `Spec => []Released` |
| `ReadsCorrect` | `Spec => []ReadCorrect` |
| `WritesCorrect` | `Spec => []WriteCorrect` |
| `WritesConfined` | `Spec => [][Confined]_vars` |
| `CallsBounded` | `Spec => []Bounded /\ [][Nearer]_vars` |

`Geometry` and `PartInside` are about the sums in `spi_sdcard.c:262-298`: whatever the
alignment, each block's part of the read falls inside the buffer. `Commands` says
which command can be under way at each place, `BusyKnown` that the card is busy only
while the driver waits for it or after a failure, and `TransferOver` that the card
has ended its transfer wherever the driver takes it to have. A signature read may
fail in the middle and the raw read after it still succeeds; that this leaves nothing
behind needs the assumption that the signature lies in one block.

`DataInv` adds the contents, inductive relative to `IInv`: while the card sends, the
block it is at is the one the driver counts, and all before it are in the buffer
(`Reading`, `ReadDone`); while it takes blocks, the same of the disk (`Writing`,
`WriteDone`); and where the driver only ends the transfer, everything is done
(`Finished`, `Complete`). `WritesConfined` follows for writes that fail: the card and
the driver count the same block, so that no other one changes. `PartCovers` is the
other half of `PartInside`: the parts leave out no byte that was asked for, and byte
`i` of the read comes from byte `addr + i` of the card. The raw copy after a signature
read that failed is where the assumption on its length is needed: the card may still
owe the signature's block, and a raw copy of one block would take it for its own and
succeed; one of several takes it for its first block, waits in vain for the second and
fails. The code copies 96 blocks (`params.h:40`).

`CallsBounded` is the safety part of `CallsReturn`: `Remaining` counts the turns a read
or a write has left (one for its command, one for every block, two for the end) and
the steps left of the present one, which the three poll budgets bound. Every step of
the driver lowers it and none of the card raises it, a card that dies included. The
initialisation is left out: `while (ret)` in `spi_sdcard.c:173-178` repeats ACMD41
without a budget.

`NorFlash_proofs`, from `NorAssumption` (a geometry in which erase blocks divide
sectors and small sectors fit an erase block, `Align` sectors more than one, counts
of sectors below `SectorBytes`, reads inside the flash):

| theorem | states |
|---|---|
| `StoresImage` | `Spec => []ImageStored` |
| `KeepsOthers` | `Spec => []OthersKept` |
| `CommandsAccepted` | `Spec => []CommandsTake` |
| `ReadsRight` | `Spec => []ReadCorrect` |

`Progress` says what the flash holds before each command (`Ready`): the sectors before
the current one are stored, small sectors and then the whole sector erased, pages
stored up to the present one and blank behind it; and the same of the next command
once the present one is complete without an error. `SubReady`, `EraseReady` and
`ProgReady` lead from one to the next. `OverlayPlace` is why the driver's guess works:
small sectors at the beginning are in sector 0 and those at the end in the last one,
which the modulus in `spi_s25fs512s.c:99` finds if it divides the number of sectors. A run
whose extra sector lies behind the end of a flash that ignores address bits comes to
sector 0 last: what it writes there is inside `Written`, and `OnDisk` excepts the image
it overwrites.
`Sizes` relates the two sums of `flash_disk.sh:19-23` with the sectors a reader
expects, and `UnitInside` keeps every erase inside one sector.

Only model-checked: the liveness properties. TLAPS has no ENABLED, which fairness
needs; `CallsBounded` is what remains of one without it. They are `AllLaunch`,
`HostDone`, `CallsReturn` of the drivers and `BlockingReturns`; each has a run. All
invariants of the runs, the action properties and the two refinements are proved. The
findings of section 5 are counterexamples and stay with TLC.

## 5. What was found

With a run of their own (`PROJECT.json`, "findings"):

* EEPROM writes are not ended by a stop condition (`i2c_24fc1025.c:71`).
* CR3V of the NOR flash is received, not sent (`spi_s25fs512s.c:173`): a flash that
  erases quarters keeps doing so, and the tool reports success for an image it
  programmed over pages that were not erased.

Stated as exceptions of properties, or seen while reading the code:

* A program started over JTAG that returns an odd value leaves bit 1 of scratch[2]
  set; the boot ROM takes it for its launch flag (`cheshire_bootrom.c:29`), enters
  whatever is at an entry point nobody set, and takes the exit code back before the host
  may have seen it. Odd values are among the inputs; `LaunchSound` and `HostDone` except
  them by name (`OddReturn`).
* The check of CMD0's and CMD8's responses accepts wrong ones
  (`spi_sdcard.c:155-162`); the model accepts them too.
* The loader enters firmware whose copy failed (`zsl.c:44`); `FirmwareComplete`
  excepts failed copies.
* `clint_sleep_until` tests its time the wrong way round (`clint.c:56`).
* The debug server's answer to EXEC is still being sent when the program starts
  (`uart_debug.c:66`); a program that called `uart_init` at once would clear it, and
  its host would wait for ever. Those of the repository measure the clock first,
  which takes longer than the answer.
* A next stage that interrupts a hart still in `smp_resume` strands it
  (`smp.h:45-49`); `AllLaunch` excepts this.
* Exit codes lose their top bit in the register (`crt0.S:127`); `ExitReported` says so.
* Short EEPROM reads between two FIFO boundaries overrun their buffer up to the second
  one (`i2c_24fc1025.c:102`; `gpt.c:27` makes such a read), and `BufferFenced` bounds
  them by it (`Reach`); the upper block is never addressed (line 57).
* `docs/um/arch.md:7` allows 31 cores; the table of error reporters ends at 30
  (`cheshire_pkg.sv:429`), and with the CLIC port numbers end earlier.
* The executable range of the SPM does not reach its uncached alias
  (`cheshire_pkg.sv:504`), which `docs/um/arch.md:73` marks executable, and no
  non-idempotent rule covers the Serial Link (`cheshire_pkg.sv:499-502`), which
  `arch.md:88` does not mark idempotent. `DocumentedAttributes` compares every other
  flag, and excepts these two.
* The reporters of an absent VGA controller or DMA keep their addresses but nobody
  answers there (`cheshire_soc.sv:1503`): the one exception of `Answered`, which covers
  the holes of the register map and those behind the last reporter.
* A card that answers but never gets ready keeps the SD driver in its ACMD41 loop
  (`spi_sdcard.c:174`); one that is no longer busy when first asked makes the wait
  fail with its block written (line 142); an answer on the last poll is a timeout
  (line 134). Calls end with an error in the last two, with what they stored intact.
* An inverted first partition is copied without a limit (`gpt.c:48`), although
  `gpt.c:34` says that at most the limit is; `BootChoice` excepts it (`Unlimited`).
* A reference clock below 2500 Hz leaves `clint_get_core_freq` without a tick to
  divide by (`clint.c:30`). Between the two writes of a comparison value a spurious
  interrupt may be pending (`clint.c:51`).
* `crt0.S:39` saves the global pointer after overwriting it; an odd scratch[0] left
  by a disk boot makes a preloaded loader use a stale read function (`zsl.c:77`).
* The VIP takes any printed byte 0x14 for the end of the run
  (`vip_cheshire_soc.sv:488`).
* The JTAG preload writes one word behind each section (`vip_cheshire_soc.sv:341`),
  the serial-link preload fills up its last beat; `Footprint` allows for it. Over the
  serial link, an aligned section of whole bursts ends in an empty burst, which
  stops the simulation (lines 898, 808), and the last bytes of an unaligned section
  may be lost. Over JTAG, an unaligned section is written with unaligned accesses.
* An address an earlier file used keeps its first contents (`elfloader.cpp:163`,
  141). A file cut off in its program headers is reported as loaded: nothing is written,
  and the entry point is that of the last program (lines 224-227). Zero bytes behind a
  section's data are preloaded, although the warning at line 244 says otherwise, but a
  segment without any data in the file is not (line 237). `ImageLoaded` names all of
  these, and `StopsOnlyFor` a segment whose data lies outside the file (line 238).
* Two harts that configure the DMA at the same time launch a mixture of their
  arguments (`dma.h:79-86`), and a hart whose transfer is overtaken between two polls
  never sees its identifier (line 91): `LaunchedAsAsked` and `BlockingReturns` except
  both.
* `flash_disk.sh:23` rounds up by a whole sector when the size is a multiple of one,
  and divides a number of sectors it is given by the bytes of one; `Expected` and
  `Asked` say so. An image that ends with the flash thus gets one sector behind the
  end: a flash that ignores address bits writes it over sector 0, the image's own if
  it fills the flash, and the tool reports success; `OnDisk` excepts that image. With
  the EEPROM as target the tool ignores sector and length.
* The poll of the NOR driver (`spi_s25fs512s.c:74`) looks at the error bits only when
  the flash is not busy: one that stays busy after an error never ends it. `Fail` lets
  the flash do either, and `CallsReturn` excepts the one that stays busy.
* `docs/um/sw.md:58` launches on bit 0 of scratch[2], the code on bit 1; line 66
  has EXEC answered with a second ACK, the code sends EOC.

## 6. Not modelled

* Straight-line set-up of registers (stack, FPU, cache ways, clock dividers): no
  state a property depends on.
* Message texts and formatting; the console is only tokens.
* IP that is not part of the repository (cores, crossbar, cache, peripherals,
  AXI-RT, CLIC), and the tests that merely configure it.
* Generated code: the boot ROM image, the register file, the USB netlist.
* The instruction tracer and analysis scripts: they observe.
* The FPGA top level: wiring.
* Traps inside the read function, and what `crt0.S` does around `main` except for
  `_exit`: it clears memory and saves registers, without a choice or another party.
* The opcodes and the dummy cycles of the flash commands, the symbol tables of the
  ELF loader, the data mover behind the DMA's job FIFO (not part of the repository),
  the manager side of the crossbar (`gen_axi_in`, `gen_cva6_id_map`: numbering of
  ports only).

## 7. Plan

In this order; each module with the runs and theorems named.

1. `SmpBarrier`, `SmpBoot`, proofs — done.
2. `PassiveBoot`, proofs — done.
3. `SdCard`, proofs — done.
4. `GptBoot`, proofs — done.
5. `Clint`, proofs — done.
6. `I2cEeprom`, proofs — done.
7. `SocMap`, proofs — done.
8. `DmaService`, `Dma`, proofs — done.
9. `NorFlash`, proofs — done.
10. `Preload`, proofs — done.
11. Manager side of `SocMap`: `gen_axi_in` and `gen_cva6_id_map`.
12. `Crt0`: context saved around a program that returns, trap wrapper, bss.
