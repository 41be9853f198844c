----------------------------- MODULE PassiveBoot -----------------------------
(***************************************************************************)
(* The passive boot mode, from reset to the reported return value.         *)
(*                                                                         *)
(* Hart 0 runs boot_passive (hw/bootrom/cheshire_bootrom.c), which polls   *)
(* the launch flag in scratch register 2 and the UART, and                 *)
(* uart_debug_serve (sw/lib/hal/uart_debug.c) once an ACK byte came in.    *)
(* The host side is one of the three preload tasks of                      *)
(* target/sim/src/vip_cheshire_soc.sv:                                     *)
(*   "slink"  writes memory, the entry point and the flag over AXI,        *)
(*   "jtag"   halts the hart, loads memory and resumes it at the entry,    *)
(*   "uart"   talks to the debug server, and waits long enough before;     *)
(* or "early", a UART host that does not wait for the server to be set up, *)
(* or "term", a terminal on the console whose user types anything.         *)
(* The preloaded program is external; its crt0 (sw/lib/crt0.S) reports the *)
(* return value in scratch register 2 and returns to its caller.           *)
(*                                                                         *)
(* A UART byte is <<"byte", b>>; a 64-bit argument and the 32-bit return   *)
(* value, which the code sends byte by byte, are one token <<"word", w>>.  *)
(***************************************************************************)
EXTENDS Integers, Sequences

CONSTANTS Hosts,        \* the kinds of host to consider
          Jobs,         \* UART transfers: [op, addr, data] or [op, addr, len]
          Image,        \* the loaded program: a function from addresses to bytes
          Entry,        \* its entry point <<high, low>>
          Rets,         \* values the program may return
          RegWidth,     \* width of a scratch register
          TypedBytes,   \* bytes a terminal user may type
          MaxTyped,     \* bound on the bytes typed
          PrintBytes,   \* bytes the program may print
          MaxPrint      \* bound on the bytes it prints

TransferLen(j) == IF j.op = "READ" THEN j.len ELSE Len(j.data)
Addresses(j) == j.addr .. j.addr + TransferLen(j) - 1

\* The transfers write every byte of the image, and nothing else; what is read
\* back was written before.  The user of a terminal types no opcode, and the
\* program prints no EOC byte.  It does not start at address 0, where the debug
\* module is (hw/cheshire_pkg.sv:276).
ASSUME PassiveAssumption ==
    /\ Hosts \subseteq {"slink", "jtag", "uart", "early", "term"}
    /\ RegWidth \in Nat /\ 2 ^ RegWidth \in Nat \ {0} /\ (2 ^ RegWidth) % 4 = 0
    /\ Rets \subseteq 0 .. 2 ^ RegWidth - 1
    /\ Image = [a \in DOMAIN Image |-> Image[a]] /\ Entry = <<Entry[1], Entry[2]>>
    /\ Entry # <<0, 0>>
    /\ Len(Jobs) \in Nat
    /\ \A i \in 1 .. Len(Jobs) :
         /\ Jobs[i].op \in {"READ", "WRITE"} /\ {Jobs[i].addr, TransferLen(Jobs[i])} \subseteq Nat
         /\ Addresses(Jobs[i]) \subseteq DOMAIN Image
         /\ Jobs[i].op = "WRITE" =>
              \A k \in 1 .. TransferLen(Jobs[i]) : Jobs[i].data[k] = Image[Jobs[i].addr + k - 1]
    /\ \A a \in DOMAIN Image :
         \E i \in 1 .. Len(Jobs) : Jobs[i].op = "WRITE" /\ a \in Addresses(Jobs[i])
    /\ \A i \in 1 .. Len(Jobs) : Jobs[i].op = "READ" =>
         \A a \in Addresses(Jobs[i]) :
           \E h \in 1 .. i - 1 : Jobs[h].op = "WRITE" /\ a \in Addresses(Jobs[h])
    /\ TypedBytes \cap {"READ", "WRITE", "EXEC"} = {} /\ "EOC" \notin PrintBytes
    /\ {MaxPrint, MaxTyped} \subseteq Nat

VARIABLES kind,      \* which host is connected
          pc,        \* where hart 0 is
          via,       \* how the running program was started
          entry,     \* where it was started
          cmd,       \* addr and remaining length of the command being served
          ret,       \* value returned by the program
          printed,   \* bytes printed so far
          scratch,   \* regs.SCRATCH[0..2]
          mem,       \* memory the program is loaded to
          rx, tx,    \* UART towards the hart and towards the host
          host,      \* where the host is
          job, pos,  \* the host's current transfer and its progress
          got,       \* bytes the host read back in the current transfer
          exit       \* the host's exit code

hartVars == <<pc, via, entry, cmd, ret, printed>>
hostVars == <<host, job, pos, got, exit>>
vars == <<kind, hartVars, scratch, mem, rx, tx, hostVars>>

Byte(b) == <<"byte", b>>
Word(w) == <<"word", w>>

Unloaded == "junk"
None == "none"
NoCmd == [addr |-> 0, len |-> 0]

Max32 == 2 ^ RegWidth

\* The exit register written by _exit of crt0 and of the boot ROM.
ExitReg(r) == (2 * r + 1) % Max32

Init == /\ kind \in Hosts
        /\ pc = "init" /\ via = None /\ entry = <<0, 0>> /\ cmd = NoCmd
        /\ ret = 0 /\ printed = 0
        /\ scratch = [i \in 0 .. 2 |-> 0]
        /\ mem = [a \in DOMAIN Image |-> Unloaded]
        /\ rx = <<>> /\ tx = <<>>
        /\ host = "start" /\ job = 1 /\ pos = 0 /\ got = <<>> /\ exit = 0

-----------------------------------------------------------------------------
(* The hart's side of the UART (sw/lib/dif/uart.c).  Divisor and line      *)
(* settings are data; a write only waits for the transmitter, a read for   *)
(* as many tokens as it takes.                                             *)

\* Both FIFOs are cleared; what has left the transmitter is with the host.
uart_init == rx' = <<>> /\ \E n \in 0 .. Len(tx) : tx' = SubSeq(tx, 1, n)

uart_read_ready == rx # <<>>

uart_read_str(n) == Len(rx) >= n /\ rx' = SubSeq(rx, n + 1, Len(rx))

uart_read == uart_read_str(1)

uart_write_str(tokens) == tx' = tx \o tokens

uart_write(token) == uart_write_str(<<token>>)

-----------------------------------------------------------------------------
(* boot_passive.                                                           *)

\* uart_debug_init sets up the UART and clears its FIFO.
InitUart == /\ pc = "init"
            /\ uart_init
            /\ pc' = "poll_scratch"
            /\ UNCHANGED <<kind, via, entry, cmd, ret, printed, scratch, mem, hostVars>>

LaunchFlag == (scratch[2] \div 2) % 2 = 1

PollScratch == /\ pc = "poll_scratch"
               /\ pc' = IF LaunchFlag THEN "claim" ELSE "poll_uart"
               /\ UNCHANGED <<kind, via, entry, cmd, ret, printed, scratch, mem, rx, tx, hostVars>>

\* uart_debug_check consumes the byte it looks at.
PollUart == /\ pc = "poll_uart"
            /\ \/ /\ uart_read_ready /\ uart_read
                  /\ pc' = IF Head(rx) = Byte("ACK") THEN "serve" ELSE "poll_scratch"
               \/ /\ ~uart_read_ready
                  /\ pc' = "poll_scratch"
                  /\ UNCHANGED rx
            /\ UNCHANGED <<kind, via, entry, cmd, ret, printed, scratch, mem, tx, hostVars>>

\* The flag is taken back, then the program at scratch[1:0] is started.
Claim == /\ pc = "claim"
         /\ scratch' = [scratch EXCEPT ![2] = 0]
         /\ entry' = <<scratch[1], scratch[0]>>
         /\ via' = "slink"
         /\ pc' = "run"
         /\ UNCHANGED <<kind, cmd, ret, printed, mem, rx, tx, hostVars>>

-----------------------------------------------------------------------------
(* uart_debug_serve.                                                       *)

ServeAck == /\ pc = "serve"
            /\ uart_write(Byte("ACK"))
            /\ pc' = "cmd"
            /\ UNCHANGED <<kind, via, entry, cmd, ret, printed, scratch, mem, rx, hostVars>>

\* READ and WRITE: take opcode, address and length, acknowledge.
ServeTransfer(op, place) ==
    /\ pc = "cmd"
    /\ uart_read_str(3) /\ Head(rx) = Byte(op)
    /\ cmd' = [addr |-> rx[2][2], len |-> rx[3][2]]
    /\ uart_write(Byte("ACK"))
    /\ pc' = place
    /\ UNCHANGED <<kind, via, entry, ret, printed, scratch, mem, hostVars>>

ServeRead == ServeTransfer("READ", "read")

\* Variant for TLC: the server skips the data of a WRITE.
ServeWriteQuiet == ServeTransfer("WRITE", "cmd")

ServeWrite == ServeTransfer("WRITE", "write")

\* Send the bytes read, then EOT.
ReadByte == /\ pc = "read"
            /\ \/ /\ cmd.len > 0
                  /\ uart_write(Byte(mem[cmd.addr]))
                  /\ cmd' = [addr |-> cmd.addr + 1, len |-> cmd.len - 1]
                  /\ UNCHANGED pc
               \/ /\ cmd.len = 0
                  /\ uart_write(Byte("EOT"))
                  /\ pc' = "cmd"
                  /\ UNCHANGED cmd
            /\ UNCHANGED <<kind, via, entry, ret, printed, scratch, mem, rx, hostVars>>

\* Store the bytes received, then send EOT.
WriteByte == /\ pc = "write"
             /\ \/ /\ cmd.len > 0
                   /\ uart_read
                   /\ mem' = [mem EXCEPT ![cmd.addr] = Head(rx)[2]]
                   /\ cmd' = [addr |-> cmd.addr + 1, len |-> cmd.len - 1]
                   /\ UNCHANGED <<pc, tx>>
                \/ /\ cmd.len = 0
                   /\ uart_write(Byte("EOT"))
                   /\ pc' = "cmd"
                   /\ UNCHANGED <<cmd, mem, rx>>
             /\ UNCHANGED <<kind, via, entry, ret, printed, scratch, hostVars>>

ServeExec == /\ pc = "cmd"
             /\ uart_read_str(2) /\ Head(rx) = Byte("EXEC")
             /\ entry' = rx[2][2]
             /\ uart_write(Byte("ACK"))
             /\ via' = "uart"
             /\ pc' = "run"
             /\ UNCHANGED <<kind, cmd, ret, printed, scratch, mem, hostVars>>

\* An unknown command ends the server, and main, with return value 1.
ServeUnknown == /\ pc = "cmd"
                /\ uart_read /\ Head(rx) \notin {Byte("READ"), Byte("WRITE"), Byte("EXEC")}
                /\ scratch' = [scratch EXCEPT ![2] = ExitReg(1)]
                /\ pc' = "exited"
                /\ UNCHANGED <<kind, via, entry, cmd, ret, printed, mem, tx, hostVars>>

\* The program returned to the server: report it, leave main, and let _exit
\* of the boot ROM record the value once more.
ReportReturn == /\ pc = "eoc"
                /\ uart_write_str(<<Byte("EOC"), Word(ret)>>)
                /\ scratch' = [scratch EXCEPT ![2] = ExitReg(ret)]
                /\ pc' = "exited"
                /\ UNCHANGED <<kind, via, entry, cmd, ret, printed, mem, rx, hostVars>>
-----------------------------------------------------------------------------
(* The program (external) and its crt0.                                    *)

ProgramPrints(b) == /\ pc = "run"
                    /\ printed < MaxPrint
                    /\ printed' = printed + 1
                    /\ uart_write(Byte(b))
                    /\ UNCHANGED <<kind, pc, via, entry, cmd, ret, scratch, mem, rx, hostVars>>

\* A program sets the UART up itself.  It measures the clock for that, which
\* takes four times as long as the server's answer needs on the line.
ProgramInits == /\ pc = "run" /\ host # "ackx"
                /\ uart_init
                /\ UNCHANGED <<kind, pc, via, entry, cmd, ret, printed, scratch, mem, hostVars>>

\* A program started by the debugger returns through the link register the
\* halted boot ROM code had: the pending call seems to return r.
ResumePlaces(r) == {"init", "poll_scratch", "poll_uart"}
                     \union (IF r # 0 THEN {"serve"} ELSE {})

ReturnPlaces(r) == CASE via = "slink" -> {"spin"}
                     [] via = "uart"  -> {"eoc"}
                     [] via = "jtag"  -> ResumePlaces(r)

\* Whatever else lies at a wrong entry point is not known to return.
ProgramReturns(r, reg) == /\ pc = "run" /\ entry = Entry
                          /\ ret' = r
                          /\ scratch' = [scratch EXCEPT ![2] = reg]
                          /\ pc' \in ReturnPlaces(r)
                          /\ UNCHANGED <<kind, via, entry, cmd, printed, mem, rx, tx, hostVars>>

\* Variant for TLC: the return value is not marked as an exit.
ProgramExitUnmarked(r) == ProgramReturns(r, (2 * r) % Max32)

\* _exit of crt0 records the return value and returns to the caller.  After
\* boot_next_stage that is a ret instruction that returns to itself.
ProgramExit(r) == ProgramReturns(r, ExitReg(r))

-----------------------------------------------------------------------------
(* The serial-link host: slink_elf_run and slink_wait_for_eoc.             *)

SlinkLoad == /\ kind = "slink" /\ host = "start"
             /\ mem' = Image
             /\ host' = "hi"
             /\ UNCHANGED <<kind, hartVars, scratch, rx, tx, job, pos, got, exit>>

SlinkScratch(from, i, value, to) ==
    /\ host = from
    /\ scratch' = [scratch EXCEPT ![i] = value]
    /\ host' = to
    /\ UNCHANGED <<kind, hartVars, mem, rx, tx, job, pos, got, exit>>

\* Variant for TLC: the launch flag is written before the entry point's low half.
SlinkLaunchEarly == \/ SlinkScratch("hi", 1, Entry[1], "lo")
                    \/ SlinkScratch("lo", 2, 2, "go")
                    \/ SlinkScratch("go", 0, Entry[2], "poll")

SlinkLaunch == \/ SlinkScratch("hi", 1, Entry[1], "lo")
               \/ SlinkScratch("lo", 0, Entry[2], "go")
               \/ SlinkScratch("go", 2, 2, "poll")

\* Variant for TLC: the end marker is not shifted out of the exit code.
PollExitUnshifted == /\ host = "poll"
                     /\ scratch[2] % 2 = 1
                     /\ exit' = scratch[2]
                     /\ host' = "done"
                     /\ UNCHANGED <<kind, hartVars, scratch, mem, rx, tx, job, pos, got>>

\* Poll bit 0 of scratch[2], also the JTAG host's jtag_wait_for_eoc.
PollExit == /\ host = "poll"
            /\ scratch[2] % 2 = 1
            /\ exit' = scratch[2] \div 2
            /\ host' = "done"
            /\ UNCHANGED <<kind, hartVars, scratch, mem, rx, tx, job, pos, got>>

-----------------------------------------------------------------------------
(* The JTAG host: jtag_elf_run.                                            *)

JtagHalt == /\ kind = "jtag" /\ host = "start"
            /\ pc \in {"init", "poll_scratch", "poll_uart"}
            /\ pc' = "halted"
            /\ host' = "load"
            /\ UNCHANGED <<kind, via, entry, cmd, ret, printed, scratch, mem, rx, tx, job, pos, got, exit>>

JtagLoad == /\ host = "load"
            /\ mem' = Image
            /\ host' = "resume"
            /\ UNCHANGED <<kind, hartVars, scratch, rx, tx, job, pos, got, exit>>

JtagResume == /\ host = "resume"
              /\ entry' = Entry
              /\ via' = "jtag"
              /\ pc' = "run"
              /\ host' = "poll"
              /\ UNCHANGED <<kind, cmd, ret, printed, scratch, mem, rx, tx, job, pos, got, exit>>

-----------------------------------------------------------------------------
(* The UART host: uart_debug_elf_run_and_wait and uart_debug_rw.           *)

\* Waits for nothing.  The line takes longer to bring a token than the server
\* needs for the one before, so none is lost.
HostSend(tokens, to) == /\ rx' = rx \o tokens
                        /\ host' = to
                        /\ UNCHANGED <<kind, hartVars, scratch, mem, tx>>

\* "Wait some time for boot ROM to settle (no way to query this ...)".
UartChallenge == /\ kind \in {"uart", "early"} /\ host = "start"
                 /\ kind = "uart" => pc # "init"
                 /\ HostSend(<<Byte("ACK")>>, "ack0")
                 /\ UNCHANGED <<job, pos, got, exit>>

UartHeader == /\ host = "job" /\ job <= Len(Jobs)
              /\ HostSend(<<Byte(Jobs[job].op), Word(Jobs[job].addr),
                            Word(TransferLen(Jobs[job]))>>, "ack")
              /\ pos' = 0 /\ got' = <<>>
              /\ UNCHANGED <<job, exit>>

UartSendByte == /\ host = "data" /\ Jobs[job].op = "WRITE" /\ pos < TransferLen(Jobs[job])
                /\ HostSend(<<Byte(Jobs[job].data[pos + 1])>>, "data")
                /\ pos' = pos + 1
                /\ UNCHANGED <<job, got, exit>>

UartDataDone == /\ host = "data" /\ pos = TransferLen(Jobs[job])
                /\ host' = "eot"
                /\ UNCHANGED <<kind, hartVars, scratch, mem, rx, tx, job, pos, got, exit>>

UartExec == /\ host = "job" /\ job > Len(Jobs)
            /\ HostSend(<<Byte("EXEC"), Word(Entry)>>, "ackx")
            /\ UNCHANGED <<job, pos, got, exit>>

\* The reader process takes a byte off the line and hands it to a waiting
\* uart_boot_scoop; an unawaited byte is printed.
\* uart_boot_scoop_expect ends the simulation on any
\* other byte than the expected one: such a host takes no further step.
HostTake(token) == /\ tx # <<>>
                   /\ Head(tx) = token
                   /\ tx' = Tail(tx)
                   /\ UNCHANGED <<kind, hartVars, scratch, mem, rx>>

Expect(from, token, to) == /\ host = from
                           /\ HostTake(token)
                           /\ host' = to
                           /\ UNCHANGED <<pos, got, exit>>

UartAck == /\ \/ Expect("ack0", Byte("ACK"), "job")
              \/ Expect("ack", Byte("ACK"), "data")
              \/ Expect("ackx", Byte("ACK"), "wait_eoc")
           /\ UNCHANGED job

UartEot == /\ Expect("eot", Byte("EOT"), "job")
           /\ job' = job + 1

UartReadByte == /\ host = "data" /\ Jobs[job].op = "READ" /\ pos < TransferLen(Jobs[job])
                /\ tx # <<>> /\ HostTake(Head(tx))
                /\ got' = Append(got, Head(tx)[2])
                /\ pos' = pos + 1
                /\ UNCHANGED <<host, job, exit>>

UartEoc == /\ Expect("wait_eoc", Byte("EOC"), "ret")
           /\ UNCHANGED job

UartPrint == /\ host = "wait_eoc"
             /\ tx # <<>> /\ Head(tx) # Byte("EOC") /\ HostTake(Head(tx))
             /\ UNCHANGED hostVars

UartReturn == /\ host = "ret"
              /\ tx # <<>> /\ HostTake(Head(tx))
              /\ exit' = IF Head(tx)[1] = "word" THEN Head(tx)[2] ELSE Max32 - 1
              /\ host' = "done"
              /\ UNCHANGED <<job, pos, got>>

-----------------------------------------------------------------------------
(* A terminal (external): pos counts the bytes typed.                      *)

TerminalType(b) == /\ kind = "term" /\ pos < MaxTyped
                   /\ HostSend(<<Byte(b)>>, host)
                   /\ pos' = pos + 1
                   /\ UNCHANGED <<job, got, exit>>

-----------------------------------------------------------------------------
Hart == \/ InitUart \/ PollScratch \/ PollUart \/ Claim
        \/ ServeAck \/ ServeRead \/ ServeWrite \/ ReadByte \/ WriteByte
        \/ ServeExec \/ ServeUnknown \/ ReportReturn

Returns == \E r \in Rets : ProgramExit(r)

Host == \/ SlinkLoad \/ SlinkLaunch \/ PollExit
        \/ JtagHalt \/ JtagLoad \/ JtagResume
        \/ UartChallenge \/ UartHeader \/ UartSendByte \/ UartDataDone \/ UartExec
        \/ UartAck \/ UartEot \/ UartReadByte \/ UartEoc \/ UartPrint \/ UartReturn

Next == \/ Hart
        \/ Returns \/ ProgramInits
        \/ Host
        \/ \E b \in PrintBytes : ProgramPrints(b)
        \/ \E b \in TypedBytes : TerminalType(b)

Spec == Init /\ [][Next]_vars

\* The hart and the host keep running, and the program returns.
FairSpec == Spec /\ WF_vars(Hart) /\ WF_vars(Host) /\ WF_vars(Returns)

-----------------------------------------------------------------------------
(* Properties.                                                             *)

\* A program that the debugger started has returned an odd value: its lowest
\* bit, shifted up by _exit (crt0.S:127-130), is the launch flag of the boot
\* ROM (cheshire_bootrom.c:29), to which such a program returns.
OddReturn == kind = "jtag" /\ ret % 2 = 1

\* Whatever the preload path, the hart only ever runs the program the host
\* asked for, completely loaded: no torn entry point, no byte missing when the
\* EXEC command or the flag arrives, and no launch of its own, except after an
\* OddReturn, when it may start whatever lies at the unset entry point.
LaunchSound == pc = "run" => mem = Image /\ (entry = Entry \/ OddReturn)

\* The command parser stays in step with a host that follows the protocol,
\* whatever the transferred bytes are: it never meets an unknown command,
\* the host never receives a byte it does not expect, and a READ returns the
\* bytes that were written (uart_debug.c:40-78, vip_cheshire_soc.sv:497-519).
ProtocolInStep ==
    /\ kind # "term" /\ pc = "exited" => via = "uart"
    /\ tx # <<>> => /\ host \in {"ack0", "ack", "ackx"} => Head(tx) = Byte("ACK")
                    /\ host = "eot" => Head(tx) = Byte("EOT")
                    /\ host = "job" => FALSE
    /\ host = "eot" /\ Jobs[job].op = "READ" =>
         got = [i \in 1 .. Jobs[job].len |-> Image[Jobs[job].addr + i - 1]]

\* The exit code a host reports is the value its program returned; through
\* the register, which also holds the end marker, all but its top bit.
ExitReported == host = "done" =>
    /\ via # None
    /\ exit = IF via = "uart" THEN ret ELSE ret % (Max32 \div 2)

\* Every host gets an exit code in the end, unless its challenge came before
\* the UART was set up; after an OddReturn the boot ROM may have taken the exit
\* code back (cheshire_bootrom.c:31) before the host has seen it.
HostDone == kind \in {"slink", "jtag", "uart"} => <>(host = "done" \/ OddReturn)
=============================================================================
