------------------------------ MODULE Preload ------------------------------
(***************************************************************************)
(* Loading programs from the simulation: the ELF loader of                 *)
(* target/sim/src/elfloader.cpp and the three preload tasks of             *)
(* target/sim/src/vip_cheshire_soc.sv that fetch its sections and write    *)
(* them through JTAG, the serial link or the UART debug server.  The       *)
(* loader keeps its state in globals, over all files it is given.          *)
(*                                                                         *)
(* A byte of a file is named after the file and the address it is for.     *)
(***************************************************************************)
EXTENDS Integers, Sequences, Selection

CONSTANTS
    Word,        \* bytes of a JTAG write and of a serial-link beat (8)
    Burst,       \* bytes of a serial-link or UART write (1024, 256)
    MemTop,      \* last byte of memory
    Files,       \* files a user may load, records of FileType
    Hosts,       \* preload paths, a subset of {"jtag", "uart", "slink"}
    MaxPreloads  \* bound on the files loaded in one simulation

Addr == 0 .. MemTop

\* A program header, as far as the loader looks at it.
SegmentType == [load : BOOLEAN, addr : Addr, filesz : Nat, memsz : Nat]

\* A file: whether it starts like an ELF file, whether its program header
\* table and its segments' data lie inside it.
FileType == [id : Nat, elf : BOOLEAN, table : BOOLEAN, fits : BOOLEAN, entry : Addr,
             segs : Seq(SegmentType)]

\* Segments that become sections; those without data in the file do not.
Loadable(s) == s.load /\ s.memsz > 0 /\ s.filesz > 0

\* Programs fit into memory.
ASSUME PreloadAssumption ==
    /\ Word \in Nat \ {0} /\ Burst \in Nat \ {0} /\ Burst % Word = 0
    /\ MemTop \in Nat /\ MaxPreloads \in Nat
    /\ Hosts \subseteq {"jtag", "uart", "slink"}
    /\ Files \subseteq FileType
    /\ \A f \in Files : \A i \in 1 .. Len(f.segs) :
          Loadable(f.segs[i]) => f.segs[i].addr + f.segs[i].memsz <= MemTop + 1

VARIABLES
    sections,    \* address and size of each section, of all files so far
    mems,        \* address -> contents
    section_index,
    entry,
    host, file, preloads, \* the preload under way, and how many there were
    task,        \* "idle", "sections", "write", or "fatal": simulation over
    cur, bf, off, \* section being written, its buffer, and the loop index
    got,         \* entry point the last preload returned
    mem,         \* the SoC's memory
    before       \* history: memory, and addresses known, before this preload

loader == <<sections, mems, section_index, entry>>
preloadVars == <<loader, host, file, preloads, task, cur, bf, off, got, mem, before>>

\* Bytes of no file.
Zero == <<0, 0>>
Old == <<0, 1>>
NoFile == [id |-> 0, elf |-> FALSE, table |-> FALSE, fits |-> FALSE, entry |-> 0, segs |-> <<>>]

PreloadInit ==
    /\ sections = <<>> /\ mems = <<>> /\ section_index = 0 /\ entry = 0
    /\ host \in Hosts /\ file = NoFile /\ preloads = 0
    /\ task = "idle"
    /\ cur = [addr |-> 0, len |-> 0] /\ bf = <<>> /\ off = 0
    /\ got = 0
    /\ mem = [a \in Addr |-> Old]
    /\ before = [mem |-> mem, known |-> {}]

-----------------------------------------------------------------------------
(* The loader.                                                             *)

Segs(f) == Select(f.segs, {i \in 1 .. Len(f.segs) : Loadable(f.segs[i])})

NewSections(f) == [i \in 1 .. Len(Segs(f)) |->
                      [addr |-> Segs(f)[i].addr, len |-> Segs(f)[i].memsz]]

Data(f, s) == [i \in 1 .. s.filesz |-> <<f.id, s.addr + i - 1>>]

\* The first of a file's segments for address a.
First(f, a) == CHOOSE i \in 1 .. Len(Segs(f)) :
                  Segs(f)[i].addr = a /\ \A j \in 1 .. i - 1 : Segs(f)[j].addr # a

\* Insertion into the map: contents already there stay, another file's or
\* those of an earlier segment of this one.
write(f) ==
    [a \in DOMAIN mems \union {Segs(f)[i].addr : i \in 1 .. Len(Segs(f))} |->
        IF a \in DOMAIN mems THEN mems[a] ELSE Data(f, Segs(f)[First(f, a)])]

\* The symbol tables are then searched, which leaves nothing behind.  A file
\* cut off in its program headers leaves the loader as it was, silently.
load_elf(f) ==
    IF ~f.table THEN UNCHANGED loader
    ELSE /\ entry' = f.entry
         /\ sections' = sections \o NewSections(f)
         /\ mems' = write(f)
         /\ UNCHANGED section_index

\* Variant for TLC: the buffer is not initialised.
read_sectionDirty(data, len) == [i \in 0 .. len - 1 |-> IF i < Len(data) THEN data[i + 1] ELSE Old]

\* The memory image of a section; a buffer is allocated with zero bytes.
read_section(data, len) == [i \in 0 .. len - 1 |-> IF i < Len(data) THEN data[i + 1] ELSE Zero]

-----------------------------------------------------------------------------
(* The preload tasks.                                                      *)

\* Linked programs start sections at multiples of 16; only the serial-link
\* task is made for others, but none of them checks.
Aligned(f) == \A i \in 1 .. Len(Segs(f)) : Segs(f)[i].addr % Word = 0

read_elf(h, f) ==
    /\ task = "idle" /\ preloads < MaxPreloads
    /\ host' = h /\ file' = f /\ preloads' = preloads + 1
    /\ before' = [mem |-> mem, known |-> DOMAIN mems]
    /\ IF f.elf /\ (f.table => f.fits)
       THEN load_elf(f) /\ task' = "sections"
       ELSE UNCHANGED loader /\ task' = "fatal"
    /\ UNCHANGED <<cur, bf, off, got, mem>>

get_section ==
    /\ task = "sections" /\ section_index < Len(sections)
    /\ section_index' = section_index + 1
    /\ cur' = sections[section_index + 1]
    /\ LET data == mems[cur'.addr]
       IN  IF Len(data) > cur'.len
           THEN task' = "fatal" /\ UNCHANGED <<bf, off>>
           ELSE task' = "write" /\ bf' = read_section(data, cur'.len) /\ off' = 0
    /\ UNCHANGED <<sections, mems, entry, host, file, preloads, got, mem, before>>

Min2(a, b) == IF a < b THEN a ELSE b

\* Variant for TLC: the last write is as long as the others.
UartSpanWhole == off .. off + Burst - 1

\* Variant for TLC: an incomplete beat is not counted.
BeatsWhole == Min2(Burst \div Word, (cur.len + (cur.addr % Word) - off) \div Word)

\* Positions in the section that the next write covers, by path.
JtagSpan == off .. off + Word - 1

UartSpan == off .. Min2(off + Burst, cur.len) - 1

\* The first beat starts bus_offset bytes early, with these bytes masked.
bus_offset == cur.addr % Word
Beats == Min2(Burst \div Word, (cur.len + bus_offset - off + Word - 1) \div Word)

SlinkSpan == {i \in off - bus_offset .. off + Beats * Word - 1 - bus_offset : i >= 0}

\* Memory with these positions of the section written at an address.  Bytes
\* behind the buffer read as 0.
Over(base, span) ==
    [a \in Addr |-> IF a - base \in span THEN IF a - base < cur.len THEN bf[a - base] ELSE Zero
                    ELSE mem[a]]

\* The loops count up to and including the length.
Counted(step) ==
    /\ off' = off + step
    /\ task' = IF off' <= cur.len THEN "write" ELSE "sections"

JtagWrite ==
    /\ task = "write" /\ host = "jtag" /\ cur.addr % Word = 0
    /\ mem' = Over(cur.addr, JtagSpan) /\ Counted(Word)
    /\ UNCHANGED <<loader, host, file, preloads, cur, bf, got, before>>

\* What the debug module makes of an access that is not aligned is not in the
\* repository: it writes at that address or at the word's, or refuses, which
\* the task may notice.
JtagUnaligned ==
    /\ task = "write" /\ host = "jtag" /\ cur.addr % Word # 0
    /\ mem' \in {mem, Over(cur.addr, JtagSpan), Over(cur.addr - (cur.addr % Word), JtagSpan)}
    /\ Counted(Word) \/ (task' = "fatal" /\ UNCHANGED off)
    /\ UNCHANGED <<loader, host, file, preloads, cur, bf, got, before>>

UartWrite ==
    /\ task = "write" /\ host = "uart"
    /\ mem' = Over(cur.addr, UartSpan) /\ Counted(Burst)
    /\ UNCHANGED <<loader, host, file, preloads, cur, bf, got, before>>

SlinkWrite ==
    /\ task = "write" /\ host = "slink" /\ Beats > 0
    /\ mem' = Over(cur.addr, SlinkSpan) /\ Counted(Burst)
    /\ UNCHANGED <<loader, host, file, preloads, cur, bf, got, before>>

\* Zero-length write requested.
EmptyBurst ==
    /\ task = "write" /\ host = "slink" /\ Beats = 0
    /\ task' = "fatal"
    /\ UNCHANGED <<loader, host, file, preloads, cur, bf, off, got, mem, before>>

get_entry ==
    /\ task = "sections" /\ section_index = Len(sections)
    /\ got' = entry /\ task' = "idle"
    /\ UNCHANGED <<loader, host, file, preloads, cur, bf, off, mem, before>>

PreloadNext ==
    \/ \E h \in Hosts, f \in Files : read_elf(h, f)
    \/ get_section \/ JtagWrite \/ JtagUnaligned \/ UartWrite \/ SlinkWrite \/ EmptyBurst
    \/ get_entry

PreloadSpec == PreloadInit /\ [][PreloadNext]_preloadVars

-----------------------------------------------------------------------------
Ordered(f) == \A i \in 1 .. Len(Segs(f)), j \in 1 .. Len(Segs(f)) :
                 i < j => Segs(f)[i].addr + Segs(f)[i].memsz <= Segs(f)[j].addr

\* Segments that nothing loaded earlier has an address in common with.
Fresh(f) == \A i \in 1 .. Len(Segs(f)) : Segs(f)[i].addr \notin before.known

\* Over the serial link, the end of a section with an offset may fall behind
\* the last burst.
TailReached(s) == (s.memsz % Burst) + (s.addr % Word) <= Burst

\* Over JTAG, the sections start at words: the properties say nothing of
\* other programs there.
ByWords == host = "jtag" => Aligned(file)

\* A preload that completes has written the program it was given, also the
\* zero bytes behind a segment's data, of which elfloader.cpp:244 warns that
\* they "will NOT be preloaded", whatever was loaded earlier and although
\* every path writes behind the end of a section: later sections win.
\* Excepted are unaligned sections over JTAG, segments in falling order, an
\* address that an earlier file used, whose contents stay, lost ends over the
\* serial link, segments without any data in the file, which are not written
\* (elfloader.cpp:237), and a file cut off in its program headers: it
\* completes with nothing written and the entry point of the last program
\* (elfloader.cpp:224-227).  (elfloader.cpp:157-248, vip_cheshire_soc.sv:341,
\* 532, 898-921.)
ImageLoaded ==
    (/\ task = "idle" /\ preloads > 0 /\ file.table
     /\ ByWords /\ Ordered(file) /\ Fresh(file)) =>
      /\ got = file.entry
      /\ \A i \in 1 .. Len(file.segs) :
            LET s == file.segs[i]
            IN  (Loadable(s) /\ (host = "slink" => TailReached(s))) =>
                  \A o \in 0 .. s.memsz - 1 :
                     mem[s.addr + o] = IF o < s.filesz THEN <<file.id, s.addr + o>> ELSE Zero

\* Bytes behind a section that a path may change: JTAG writes one word more
\* than there are, the serial link fills up its last beat
\* (vip_cheshire_soc.sv:341, 910, 820).
Slack == CASE host = "jtag" -> Word [] host = "slink" -> Word - 1 [] host = "uart" -> 0

\* Nothing else in memory changes, programs loaded earlier included.
\* Excepted are unaligned sections over JTAG.
Footprint ==
    ByWords => \A a \in Addr : mem[a] # before.mem[a] =>
       \E i \in 1 .. Len(Segs(file)) :
          a \in Segs(file)[i].addr .. Segs(file)[i].addr + Segs(file)[i].memsz - 1 + Slack

\* The simulation is only stopped for a file that is none, for one with a
\* segment whose data lies outside it, for one that uses an address an
\* earlier file used, for a segment with more data than memory, its own or
\* that of an earlier segment at its address, by an aligned section of whole
\* bursts over the serial link, which ends in an empty one, and over JTAG by
\* an unaligned section (elfloader.cpp:238, vip_cheshire_soc.sv:254, 331,
\* 336, 808).
StopsOnlyFor ==
    (task = "fatal" /\ ByWords) =>
      \/ ~file.elf \/ ~file.fits \/ ~Fresh(file)
      \/ \E i \in 1 .. Len(Segs(file)) :
            LET s == Segs(file)[i]
            IN  \/ \E j \in 1 .. i : Segs(file)[j].addr = s.addr /\ Segs(file)[j].filesz > s.memsz
                \/ host = "slink" /\ s.memsz % Burst = 0 /\ s.addr % Word = 0
=============================================================================
