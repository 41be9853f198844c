-------------------------------- MODULE SocMap --------------------------------
(***************************************************************************)
(* How an access finds its device: the crossbar and register-demultiplexer *)
(* maps that cheshire_pkg.sv generates from the configuration (gen_axi_out *)
(* and gen_reg_out), the ports to which cheshire_soc.sv connects the       *)
(* devices, and the memory attributes it gives the cores (gen_cva6_cfg).   *)
(*                                                                         *)
(* Ports are numbered by counting the devices present, so that every       *)
(* feature that is left out shifts the ports behind it, while addresses    *)
(* are fixed.  Addresses are in units of 16 bytes, the last hexadecimal    *)
(* digit of the source's.                                                  *)
(***************************************************************************)
EXTENDS Integers, Sequences, FiniteSetsExt, Selection

CONSTANTS Cfgs,       \* the configurations: see CfgType
          Addrs,      \* addresses accessed
          PortMod,    \* 2^6: values of aw_bt, the type of a port number
          TableSize   \* 2^5: entries of the tables of per-core ports

AxiFeatures == <<"LlcOutConnect", "Dma", "SerialLink">>
RegFeatures == <<"Bootrom", "LlcNotBypass", "Uart", "I2c", "SpiHost", "Gpio", "SerialLink",
                 "Vga", "Usb", "IrqRouter", "AxiRt">>
Features == {AxiFeatures[i] : i \in 1 .. Len(AxiFeatures)} \union
            {RegFeatures[i] : i \in 1 .. Len(RegFeatures)} \union {"Clic", "BusErr"}

\* Ranges <<first address, address behind the last>> of the memory behind the
\* LLC and of the Serial Link, sizes of the SPM and of the external region
\* that is cached, and the rules for external devices.
Rules == Seq([idx : Nat, start : Nat, end : Nat])
CfgType == [cores : 1 .. TableSize - 1, feats : SUBSET Features, spm : Nat, llcOut : Nat \X Nat,
            slink : Nat \X Nat, cieLen : Nat, cieOnTop : BOOLEAN, axiExt : Rules,
            regExt : Rules]

AmSpm == \h1000000

Apart(p, q) == p[2] <= q[1] \/ q[2] <= p[1]
Externals(c) == c.axiExt \o c.regExt
RangeOf(rule) == <<rule.start, rule.end>>

\* The layout the documentation asks for (docs/um/arch.md:78-88): memory and
\* Serial Link behind the external on-chip region, external devices behind
\* the reserved blocks, and no two regions in common.  Without the LLC,
\* external devices may back the SPM (cheshire_pkg.sv:352-354).
PlacedApart(c) ==
    /\ c.spm <= \h400000 /\ c.cieLen <= \h6000000
    /\ \h8000000 <= c.llcOut[1] /\ \h8000000 <= c.slink[1] /\ Apart(c.llcOut, c.slink)
    /\ \A i \in 1 .. Len(Externals(c)) :
          LET r == RangeOf(Externals(c)[i])
          IN  /\ AmSpm <= r[1]
              /\ "LlcNotBypass" \in c.feats => \h1800000 <= r[1]
              /\ "LlcOutConnect" \in c.feats => Apart(r, c.llcOut)
              /\ "SerialLink" \in c.feats => Apart(r, c.slink)
              /\ \A j \in 1 .. Len(Externals(c)) : i # j => Apart(r, RangeOf(Externals(c)[j]))

\* Ports and rules can be numbered; the code does not check it.
MaxAxiPorts == 2 + Len(AxiFeatures)
MaxRegPorts(c) == 4 + Len(RegFeatures) + (IF "Clic" \in c.feats THEN c.cores ELSE 0)
                  + (IF "BusErr" \in c.feats THEN c.cores + 2 ELSE 0)
Countable(c) ==
    /\ \A i \in 1 .. Len(c.axiExt) : MaxAxiPorts + c.axiExt[i].idx < PortMod
    /\ \A i \in 1 .. Len(c.regExt) : MaxRegPorts(c) + c.regExt[i].idx < PortMod
    /\ MaxAxiPorts + 2 + Len(Externals(c)) < PortMod
    /\ MaxRegPorts(c) + Len(c.regExt) <= PortMod
    /\ "BusErr" \in c.feats => c.cores + 2 <= TableSize

\* "LLC only exists if its output is connected" (cheshire_soc.sv:1783).  The
\* 4 KiB of the error reporters have room for a table of them.
ASSUME SocAssumption ==
    /\ PortMod \in Nat \ {0} /\ TableSize \in 1 .. 64
    /\ Addrs \subseteq Nat
    /\ Cfgs \subseteq CfgType
    /\ \A c \in Cfgs : /\ "LlcNotBypass" \in c.feats => "LlcOutConnect" \in c.feats
                       /\ PlacedApart(c) /\ Countable(c)

VARIABLES cfg,      \* the configuration
          at,       \* where the access is
          addr,     \* its address
          port,     \* the port it was sent to
          reached   \* the devices connected there

mapVars == <<cfg, at, addr, port, reached>>

None == -1

MapInit == cfg \in Cfgs /\ at = "idle" /\ addr = 0 /\ port = 0 /\ reached = {}

-----------------------------------------------------------------------------
(* The generated tables.                                                   *)

Enabled(c, list) == Select(list, {i \in 1 .. Len(list) : list[i] \in c.feats})
Alone(list) == [i \in 1 .. Len(list) |-> <<list[i], 0>>]
Copies(c, name, n) == IF name \in c.feats THEN [i \in 1 .. n |-> <<name, i - 1>>] ELSE <<>>
IfEnabled(c, f, rules) == IF f \in c.feats THEN rules ELSE <<>>

\* Ports of the crossbar in order, then those of the demultiplexer.
AxiPorts(c) == Alone(<<"Dbg", "RegDemux">> \o Enabled(c, AxiFeatures))
RegPorts(c) ==
    Alone(<<"Err", "Clint", "Plic", "Regs">> \o Enabled(c, RegFeatures))
    \o Copies(c, "Clic", c.cores) \o Copies(c, "BusErr", 2 + c.cores)

PortOf(ports, device) == CHOOSE i \in 0 .. Len(ports) - 1 : ports[i + 1] = device

Rule(idx, start, end) == [idx |-> idx % PortMod, start |-> start, end |-> end]
External(base, rules) ==
    [i \in 1 .. Len(rules) |-> Rule(base + rules[i].idx, rules[i].start, rules[i].end)]

\* The map's length is a port number as well.
Table(rules) == SubSeq(rules, 1, Len(rules) % PortMod)

AxiMap(c) ==
    LET to(f) == PortOf(AxiPorts(c), <<f, 0>>)
    IN  Table(<<Rule(0, 0, \h4000), Rule(1, \h0200000, \h0C00000)>>
              \o IfEnabled(c, "LlcOutConnect",
                     <<Rule(to("LlcOutConnect"), c.llcOut[1], c.llcOut[2])>>)
              \o IfEnabled(c, "LlcNotBypass",
                     <<Rule(to("LlcOutConnect"), AmSpm, AmSpm + c.spm),
                       Rule(to("LlcOutConnect"), AmSpm + \h400000, AmSpm + \h400000 + c.spm)>>)
              \o IfEnabled(c, "Dma", <<Rule(to("Dma"), \h0100000, \h0100100)>>)
              \o IfEnabled(c, "SerialLink", <<Rule(to("SerialLink"), c.slink[1], c.slink[2])>>)
              \o External(Len(AxiPorts(c)), c.axiExt)
              \o [i \in 1 .. Len(c.regExt) |->
                     Rule(1, c.regExt[i].start, c.regExt[i].end)])

\* First address and size of a device of the demultiplexer.
Region(device) ==
    LET j == device[2]
    IN  CASE device[1] = "Clint" -> <<\h0204000, \h4000>>
          [] device[1] = "Plic" -> <<\h0400000, \h400000>>
          [] device[1] = "Regs" -> <<\h0300000, \h100>>
          [] device[1] = "Bootrom" -> <<\h0200000, \h4000>>
          [] device[1] = "LlcNotBypass" -> <<\h0300100, \h100>>
          [] device[1] = "Uart" -> <<\h0300200, \h100>>
          [] device[1] = "I2c" -> <<\h0300300, \h100>>
          [] device[1] = "SpiHost" -> <<\h0300400, \h100>>
          [] device[1] = "Gpio" -> <<\h0300500, \h100>>
          [] device[1] = "SerialLink" -> <<\h0300600, \h100>>
          [] device[1] = "Vga" -> <<\h0300700, \h100>>
          [] device[1] = "Usb" -> <<\h0300800, \h100>>
          [] device[1] = "IrqRouter" -> <<\h0208000, \h4000>>
          [] device[1] = "AxiRt" -> <<\h020c000, \h4000>>
          [] device[1] = "Clic" -> <<\h0800000 + j * \h4000, \h4000>>
          [] device[1] = "BusErr" -> <<\h0300900 + j * 4, 4>>

\* Variant for TLC: the counter is advanced after the rule is written.
RegMapLate(c) ==
    LET ports == RegPorts(c)
        rule(i) == Rule(i - 1, Region(ports[i + 1])[1],
                        Region(ports[i + 1])[1] + Region(ports[i + 1])[2])
    IN  Table([i \in 1 .. Len(ports) - 1 |-> rule(i)] \o External(Len(ports), c.regExt))

RegMap(c) ==
    LET ports == RegPorts(c)
        rule(i) == Rule(i, Region(ports[i + 1])[1],
                        Region(ports[i + 1])[1] + Region(ports[i + 1])[2])
    IN  Table([i \in 1 .. Len(ports) - 1 |-> rule(i)] \o External(Len(ports), c.regExt))

-----------------------------------------------------------------------------
(* The interconnect.                                                       *)

\* A later rule overrides an earlier one; None if there is no match.
Decoded(rules, a) ==
    LET matching == {i \in 1 .. Len(rules) : rules[i].start <= a /\ a < rules[i].end}
    IN  IF matching = {} THEN None ELSE rules[Max(matching)].idx

\* An error reporter is there only with the manager it watches.
Present(c, device) == CASE device = <<"BusErr", 0>> -> "Vga" \in c.feats
                        [] device = <<"BusErr", 1>> -> "Dma" \in c.feats
                        [] OTHER -> TRUE

ExternalAt(n, rules, p) ==
    {<<"External", rules[i].idx>> : i \in {j \in 1 .. Len(rules) : n + rules[j].idx = p}}

\* What is connected to port p, by the tables' entries.
At(ports, p) == {ports[i] : i \in {j \in 1 .. Len(ports) : (j - 1) % PortMod = p}}
AxiDevices(c, p) == At(AxiPorts(c), p) \union ExternalAt(Len(AxiPorts(c)), c.axiExt, p)
RegDevices(c, p) == {d \in At(RegPorts(c), p) : Present(c, d) /\ d[2] < TableSize}
                    \union ExternalAt(Len(RegPorts(c)), c.regExt, p)

Issue(a) == /\ at \in {"idle", "done"}
            /\ at' = "xbar" /\ addr' = a /\ port' = 0 /\ reached' = {}
            /\ UNCHANGED cfg

\* No default port: an access without a rule is answered by the crossbar.
XbarDecode ==
    /\ at = "xbar"
    /\ LET p == Decoded(AxiMap(cfg), addr)
       IN  CASE p = None -> at' = "done" /\ reached' = {<<"DecodeError", 0>>} /\ UNCHANGED port
             [] p = 1 -> at' = "demux" /\ port' = p /\ UNCHANGED reached
             [] OTHER -> at' = "done" /\ port' = p /\ reached' = AxiDevices(cfg, p)
    /\ UNCHANGED <<cfg, addr>>

\* Variant for TLC: the decoder has no default port.
DefaultPortOff == None

\* The error slave.
DefaultPort == 0

DemuxDecode ==
    /\ at = "demux"
    /\ LET p == Decoded(RegMap(cfg), addr)
       IN  port' = IF p = None THEN DefaultPort ELSE p
    /\ reached' = RegDevices(cfg, port')
    /\ at' = "done"
    /\ UNCHANGED <<cfg, addr>>

-----------------------------------------------------------------------------
(* Memory attributes of the cores: <<first address, length>> of the rules. *)

Within(a, ranges) == \E r \in ranges : r[1] <= a /\ a < r[1] + r[2]

CieBase(c) == IF c.cieOnTop THEN \h8000000 - c.cieLen ELSE \h2000000

NoCieBase(c) == IF c.cieOnTop THEN \h2000000 ELSE \h2000000 + c.cieLen

LlcOut(c) == <<c.llcOut[1], c.llcOut[2] - c.llcOut[1]>>

\* Variant for TLC: the low region is as long as the first reserved block.
NonIdempotentShort(c, a) == Within(a, {<<0, \h0200000>>, <<NoCieBase(c), \h6000000 - c.cieLen>>})

NonIdempotent(c, a) == Within(a, {<<0, \h1000000>>, <<NoCieBase(c), \h6000000 - c.cieLen>>})
Executable(c, a) == Within(a, {<<0, \h4000>>, <<\h0200000, \h4000>>, <<AmSpm, 2 * c.spm>>,
                               LlcOut(c), <<CieBase(c), c.cieLen>>})
Cached(c, a) == Within(a, {<<AmSpm, c.spm>>, LlcOut(c), <<CieBase(c), c.cieLen>>})

-----------------------------------------------------------------------------
MapNext == (\E a \in Addrs : Issue(a)) \/ XbarDecode \/ DemuxDecode

MapSpec == MapInit /\ [][MapNext]_mapVars

-----------------------------------------------------------------------------
(* The memory map as documented: docs/um/arch.md:36-88.  <<feature, first  *)
(* address, size, flags>>; the ports of the two memories are the LLC's.    *)

Documented(c) ==
    {<<"Dbg", 0, \h4000, {"E"}>>, <<"Dma", \h0100000, \h100, {}>>,
     <<"Bootrom", \h0200000, \h4000, {"E"}>>, <<"Clint", \h0204000, \h4000, {}>>,
     <<"IrqRouter", \h0208000, \h4000, {}>>, <<"AxiRt", \h020C000, \h4000, {}>>,
     <<"Regs", \h0300000, \h100, {}>>, <<"LlcNotBypass", \h0300100, \h100, {}>>,
     <<"Uart", \h0300200, \h100, {}>>, <<"I2c", \h0300300, \h100, {}>>,
     <<"SpiHost", \h0300400, \h100, {}>>, <<"Gpio", \h0300500, \h100, {}>>,
     <<"SerialLink", \h0300600, \h100, {}>>, <<"Vga", \h0300700, \h100, {}>>,
     <<"Usb", \h0300800, \h100, {}>>, <<"BusErr", \h0300900, \h100, {}>>,
     <<"Plic", \h0400000, \h400000, {}>>, <<"Clic", \h0800000, \h400000, {}>>,
     <<"LlcOutConnect", c.llcOut[1], c.llcOut[2] - c.llcOut[1], {"C", "I", "E"}>>,
     <<"SerialLink", c.slink[1], c.slink[2] - c.slink[1], {}>>}

Holds(entry, a) == entry[2] <= a /\ a < entry[2] + entry[3]
Always == {"Dbg", "Clint", "Plic", "Regs"}

\* Devices a reader of the documentation expects at address a.
Unit(e, a) == CASE e[1] = "Clic" -> (a - e[2]) \div \h4000
                [] e[1] = "BusErr" -> (a - e[2]) \div 4
                [] OTHER -> 0
DocumentedAt(c, a) ==
    {<<e[1], Unit(e, a)>> :
        e \in {d \in Documented(c) : Holds(d, a) /\ d[1] \in Always \union c.feats}}
SpmAt(c, a) ==
    {<<"LlcOutConnect", 0>> : s \in {t \in {AmSpm, AmSpm + \h400000} :
        t <= a /\ a < t + c.spm /\ "LlcNotBypass" \in c.feats}}
ExternalFor(rules, a) ==
    {<<"External", rules[i].idx>> :
        i \in {j \in 1 .. Len(rules) : rules[j].start <= a /\ a < rules[j].end}}
Owner(c, a) == DocumentedAt(c, a) \union SpmAt(c, a)
               \union ExternalFor(c.axiExt, a) \union ExternalFor(c.regExt, a)

\* Per-core devices exist for the cores there are.
Existing(c, d) == CASE d[1] = "Clic" -> d[2] < c.cores
                    [] d[1] = "BusErr" -> d[2] < 2 + c.cores /\ Present(c, d)
                    [] OTHER -> TRUE

\* An access to a device's documented address reaches that device and no
\* other, whatever features are left out (cheshire_pkg.sv:342-441,
\* cheshire_soc.sv:395-435).
Delivered == (at = "done" /\ \E d \in Owner(cfg, addr) : Existing(cfg, d))
             => reached = {d \in Owner(cfg, addr) : Existing(cfg, d)}

\* Every access is answered, by a device, the error slave or the crossbar;
\* also those between and behind the devices, as in the holes behind the
\* last error reporter (cheshire_soc.sv:390-403).  The reporters of a VGA
\* controller or DMA that is left out are excepted: their rules stay and
\* lead to a port without a device (cheshire_soc.sv:1503).
Answered == (at = "done" /\ \A d \in Owner(cfg, addr) : d[1] = "BusErr" => Present(cfg, d))
            => reached # {}

ExternalSplit ==
    (at = "done" /\ \h2000000 <= addr /\ addr < \h8000000)
    => /\ Cached(cfg, addr) = ~NonIdempotent(cfg, addr)
       /\ Executable(cfg, addr) = Cached(cfg, addr)

\* The two rows of the SPM (arch.md:71-73) complete the documented flags.
Attributed(c) == Documented(c) \union
    {<<"CachedSpm", AmSpm, c.spm, {"C", "I", "E"}>>,
     <<"UncachedSpm", AmSpm + \h400000, c.spm, {"I", "E"}>>}

DocumentedAttributes ==
    \A e \in Attributed(cfg) :
        (at = "done" /\ Holds(e, addr))
        => /\ Cached(cfg, addr) <=> "C" \in e[4]
           /\ Executable(cfg, addr) => "E" \in e[4]
           /\ "E" \in e[4] => Executable(cfg, addr) \/ e[1] = "UncachedSpm"
           /\ "I" \in e[4] => ~NonIdempotent(cfg, addr)
           /\ ~NonIdempotent(cfg, addr) => "I" \in e[4] \/ e[2] = cfg.slink[1]

\* Registers are neither cached nor read speculatively, only the two ROMs
\* among them hold code, DRAM and the cached SPM are plain memory and the
\* uncached SPM is idempotent (cheshire_pkg.sv:483-509).  The external
\* on-chip region splits into one part that is cached, idempotent and
\* executable and one that is none of these, with no address between them
\* ("exactly one ... CIE and one non-CIE region", cheshire_pkg.sv:71-75).
\* Two documented flags are excepted, since the code does not set them: no
\* non-idempotent rule covers the region of the Serial Link (:499-502,
\* arch.md:88), and the executable rule of twice the SPM's size does not
\* reach the uncached SPM unless the SPM is large (:504-505, arch.md:73).
AttributesSound == DocumentedAttributes /\ ExternalSplit
=============================================================================
