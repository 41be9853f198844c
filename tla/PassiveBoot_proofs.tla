-------------------------- MODULE PassiveBoot_proofs --------------------------
(***************************************************************************)
(* Proofs about PassiveBoot for any program, entry point, sequence of UART *)
(* transfers and return values: only what the host asked for is run, and   *)
(* only when it is completely loaded; the host reports what it returned;   *)
(* and a UART host and the server stay in step.                            *)
(***************************************************************************)
EXTENDS PassiveBoot, SequenceTheorems, TLAPS

Polling == {"init", "poll_scratch", "poll_uart"}

Bytes == {"ACK", "EOT", "EOC", "READ", "WRITE", "EXEC", Unloaded}
           \union PrintBytes \union TypedBytes \union {Image[a] : a \in DOMAIN Image}
Words == Nat \union {Entry} \union Rets
Tokens == {Byte(b) : b \in Bytes} \union {Word(w) : w \in Words}
Typed == {Byte(b) : b \in TypedBytes}

\* scratch[2] after the program returned r, and what a host makes of it.
Exited(r) == scratch[2] = ExitReg(r)
Reported(r) == r % (Max32 \div 2)

Types == DOMAIN scratch = 0 .. 2

Slink ==
    /\ host \in {"start", "hi", "lo", "go", "poll", "done"} /\ rx = <<>>
    /\ host \in {"start", "hi", "lo", "go"} => pc \in Polling /\ scratch[2] = 0
    /\ host # "start" => mem = Image
    /\ host \in {"lo", "go", "poll", "done"} => scratch[1] = Entry[1]
    /\ host \in {"go", "poll", "done"} => scratch[0] = Entry[2]
    /\ host \in {"poll", "done"} =>
          \/ pc \in Polling \union {"claim"} /\ scratch[2] = 2
          \/ pc = "run" /\ via = "slink" /\ entry = Entry /\ scratch[2] = 0
          \/ pc = "spin" /\ via = "slink" /\ ret \in Rets /\ Exited(ret)
    /\ host = "done" => pc = "spin" /\ exit = Reported(ret)

Jtag ==
    /\ host \in {"start", "load", "resume", "poll", "done"} /\ rx = <<>>
    /\ scratch[0] = 0 /\ scratch[1] = 0
    /\ host = "start" => pc \in Polling /\ scratch[2] = 0
    /\ host \in {"load", "resume"} => pc = "halted" /\ scratch[2] = 0
    /\ host \in {"resume", "poll", "done"} => mem = Image
    /\ host \in {"poll", "done"} =>
          \/ pc = "run" /\ via = "jtag" /\ entry = Entry /\ scratch[2] = 0 /\ host = "poll"
          \/ /\ pc \in Polling \union {"serve", "cmd"} /\ via = "jtag"
             /\ ret \in Rets /\ Exited(ret)
          \/ pc = "claim" /\ via = "jtag" /\ ret \in Rets /\ ret % 2 = 1 /\ Exited(ret)
          \/ pc = "run" /\ via = "slink" /\ entry = <<0, 0>> /\ ret % 2 = 1 /\ scratch[2] = 0
    /\ host = "done" => exit = Reported(ret)

Term ==
    /\ host = "start" /\ rx \in Seq(Typed)
    /\ pc \in Polling \union {"serve", "cmd", "exited"}
    /\ pc # "exited" => scratch[2] = 0

-----------------------------------------------------------------------------
(* The UART hosts.                                                         *)

Challenge ==
    \/ /\ pc \in Polling /\ tx = <<>>
       /\ rx = <<>> \/ (Len(rx) = 1 /\ rx[1] = Byte("ACK"))
    \/ pc = "serve" /\ rx = <<>> /\ tx = <<>>
    \/ pc = "cmd" /\ rx = <<>> /\ Len(tx) = 1 /\ tx[1] = Byte("ACK")

\* A header that is under way.
Header(j) == /\ pc = "cmd" /\ host = "ack" /\ Len(rx) = 3 /\ tx = <<>>
             /\ rx[1] = Byte(j.op) /\ rx[2] = Word(j.addr) /\ rx[3] = Word(TransferLen(j))

\* Tokens the server has sent before the data: its acknowledgement.
Acks == IF host = "ack" THEN 1 ELSE 0

\* Bytes the server has yet to send, or to receive, are counted by cmd.len.
Reading(j) ==
    \/ Header(j)
    \/ /\ pc = "read" /\ rx = <<>> /\ cmd.len \in 0 .. TransferLen(j)
       /\ cmd.addr = j.addr + (TransferLen(j) - cmd.len)
       /\ Len(tx) = Acks + (TransferLen(j) - cmd.len) - pos
    \/ /\ pc = "cmd" /\ rx = <<>>
       /\ Len(tx) = Acks + TransferLen(j) - pos + 1 /\ tx[Len(tx)] = Byte("EOT")

Loaded(A) == \A a \in A : mem[a] = Image[a]

Writing(j) ==
    \/ Header(j)
    \/ /\ pc = "write" /\ cmd.len \in TransferLen(j) - pos .. TransferLen(j)
       /\ cmd.addr = j.addr + (TransferLen(j) - cmd.len)
       /\ Len(rx) = pos - (TransferLen(j) - cmd.len) /\ Len(tx) = Acks
       /\ \A k \in 1 .. Len(rx) : rx[k] = Byte(j.data[(TransferLen(j) - cmd.len) + k])
       /\ Loaded(j.addr .. cmd.addr - 1)
    \/ /\ pc = "cmd" /\ rx = <<>> /\ pos = TransferLen(j)
       /\ Len(tx) = Acks + 1 /\ tx[Len(tx)] = Byte("EOT")
       /\ Loaded(Addresses(j))

Transfer(j) == /\ pos \in 0 .. TransferLen(j)
               /\ host = "ack" => pos = 0
               /\ host = "eot" => pos = TransferLen(j)
               /\ host = "ack" /\ tx # <<>> => tx[1] = Byte("ACK")
               /\ j.op = "READ" => Reading(j)
               /\ j.op = "WRITE" => Writing(j)

\* The EXEC command under way, and what the program sends until it is over.
Launch == /\ pc = "cmd" /\ host = "ackx" /\ Len(rx) = 2 /\ tx = <<>>
          /\ rx[1] = Byte("EXEC") /\ rx[2] = Word(Entry)

Output ==
    \/ /\ pc \in {"run", "eoc"} /\ host \in {"ackx", "wait_eoc"}
       /\ \A k \in 1 .. Len(tx) : tx[k] # Byte("EOC")
    \/ /\ pc = "exited" /\ host \in {"ackx", "wait_eoc"} /\ Len(tx) >= 2
       /\ tx[Len(tx) - 1] = Byte("EOC") /\ tx[Len(tx)] = Word(ret)
       /\ \A k \in 1 .. Len(tx) - 2 : tx[k] # Byte("EOC")
    \/ pc = "exited" /\ host = "ret" /\ Len(tx) = 1 /\ tx[1] = Word(ret)
    \/ pc = "exited" /\ host = "done" /\ exit = ret

Setup == {"start", "ack0"}
Transfers == {"ack", "data", "eot"}
After == {"ackx", "wait_eoc", "ret", "done"}

UartTypes ==
    /\ host \in Setup \union {"job"} \union Transfers \union After
    /\ rx \in Seq(Tokens) /\ tx \in Seq(Tokens)
    /\ DOMAIN mem = DOMAIN Image /\ \A a \in DOMAIN mem : mem[a] \in Bytes
    /\ mem = [a \in DOMAIN mem |-> mem[a]]
    /\ job \in 1 .. Len(Jobs) + 1
    /\ pc \notin {"eoc", "exited"} => scratch[2] = 0

Beginning == /\ host \in Setup => job = 1
             /\ host = "start" => pc \in Polling /\ rx = <<>> /\ tx = <<>>
             /\ host = "ack0" => Challenge
             /\ host = "job" => pc = "cmd" /\ rx = <<>> /\ tx = <<>>

InTransfer == host \in Transfers => job <= Len(Jobs) /\ Transfer(Jobs[job])

StoredSoFar == host \notin After =>
    \A i \in 1 .. job - 1 : Jobs[i].op = "WRITE" => Loaded(Addresses(Jobs[i]))

Launched == host \in After =>
    /\ mem = Image
    /\ Launch \/ (via = "uart" /\ entry = Entry /\ (pc # "run" => ret \in Rets) /\ Output)

Uart == UartTypes /\ Beginning /\ InTransfer /\ StoredSoFar /\ Launched

IInv == /\ kind \in {"slink", "jtag", "uart", "early", "term"} /\ Types
        /\ kind = "slink" => Slink
        /\ kind = "jtag" => Jtag
        /\ kind = "term" => Term
        /\ kind \in {"uart", "early"} => Uart

-----------------------------------------------------------------------------
(* The exit register.                                                      *)

LEMMA Remainder ==
  ASSUME NEW m \in Nat \ {0}, NEW a \in 0 .. 2 * m - 1
  PROVE  a % m = IF a < m THEN a ELSE a - m
  OBVIOUS

LEMMA ExitValue ==
  ASSUME NEW r \in Rets
  PROVE  /\ ExitReg(r) \in Nat /\ ExitReg(r) \div 2 = Reported(r)
         /\ (ExitReg(r) \div 2) % 2 = r % 2 /\ r % 2 \in {0, 1}
  <1> DEFINE m == Max32
             q == m \div 4
  <1>1. m \in Nat \ {0} /\ m % 4 = 0 /\ r \in 0 .. m - 1
    BY PassiveAssumption DEF Max32
  <1> HIDE DEF m
  <1>2. q \in Nat \ {0} /\ m = 4 * q /\ m \div 2 = 2 * q
    BY <1>1
  <1> HIDE DEF q
  <1>3. r \in Nat /\ r < 4 * q
    BY <1>1, <1>2
  <1> DEFINE c == 2 * r + 1
  <1>4. c \in 0 .. 2 * m - 1 /\ c = 2 * r + 1
    BY <1>1
  <1> HIDE DEF c
  <1>5. c % m = IF c < m THEN c ELSE c - m
    BY <1>1, <1>4, Remainder
  <1>6. r % (2 * q) = IF r < 2 * q THEN r ELSE r - 2 * q
    <2>1. 2 * q \in Nat \ {0} /\ r \in 0 .. 2 * (2 * q) - 1
      BY <1>2, <1>3
    <2> QED
      BY <2>1, Remainder
  <1>7. ExitReg(r) = c % m /\ Reported(r) = r % (2 * q)
    BY <1>2 DEF ExitReg, Reported, m, c
  <1>8. CASE r < 2 * q
    <2>1. ExitReg(r) = 2 * r + 1 /\ Reported(r) = r
      BY <1>2, <1>3, <1>4, <1>6, <1>7, <1>8, <1>5
    <2> QED
      BY <1>3, <2>1
  <1>9. CASE ~(r < 2 * q)
    <2>1. ExitReg(r) = 2 * (r - 2 * q) + 1 /\ Reported(r) = r - 2 * q
      BY <1>2, <1>3, <1>4, <1>6, <1>7, <1>9, <1>5
    <2>2. r - 2 * q \in Nat /\ (r - 2 * q) % 2 = r % 2
      BY <1>2, <1>3, <1>9
    <2> QED
      BY <2>1, <2>2
  <1> QED
    BY <1>8, <1>9

-----------------------------------------------------------------------------
(* Steps of hart 0 outside of a transfer.                                  *)

Untouched == UNCHANGED <<kind, via, entry, ret, scratch, mem, host, exit>>

\* Polls, and the program's use of the UART, change nothing but it.
LEMMA QuietSteps ==
  /\ InitUart => Untouched /\ pc = "init" /\ pc' = "poll_scratch" /\ rx' = <<>>
  /\ PollScratch => /\ Untouched /\ pc = "poll_scratch" /\ UNCHANGED <<rx, tx>>
                    /\ pc' = IF LaunchFlag THEN "claim" ELSE "poll_uart"
  /\ PollUart /\ rx = <<>> => /\ Untouched /\ pc = "poll_uart" /\ UNCHANGED rx
                              /\ pc' = "poll_scratch"
  /\ ServeAck => Untouched /\ pc = "serve" /\ pc' = "cmd" /\ UNCHANGED rx
  /\ ProgramInits => Untouched /\ pc = "run" /\ UNCHANGED pc /\ rx' = <<>>
  /\ \A b : ProgramPrints(b) => Untouched /\ pc = "run" /\ UNCHANGED <<pc, rx>>
  BY DEF InitUart, PollScratch, PollUart, ServeAck, ProgramInits, ProgramPrints, Untouched,
         hostVars, uart_init, uart_read_ready

\* Nothing is read from an empty UART.
LEMMA NothingToRead ==
  ASSUME rx = <<>>
  PROVE  ~(ServeRead \/ ServeWrite \/ ServeExec \/ ServeUnknown)
  BY DEF ServeRead, ServeWrite, ServeTransfer, ServeExec, ServeUnknown, uart_read, uart_read_str

Remote == \/ UartChallenge \/ UartHeader \/ UartSendByte \/ UartDataDone \/ UartExec
          \/ UartAck \/ UartEot \/ UartReadByte \/ UartEoc \/ UartPrint \/ UartReturn
          \/ \E b \in TypedBytes : TerminalType(b)

LEMMA NotRemote ==
  ASSUME kind \in {"slink", "jtag"},
         host \in {"start", "hi", "lo", "go", "load", "resume", "poll", "done"}
  PROVE  ~Remote
  BY DEF Remote, UartChallenge, UartHeader, UartSendByte, UartDataDone, UartExec, UartAck,
         UartEot, UartReadByte, UartEoc, UartPrint, UartReturn, TerminalType, Expect

LEMMA ReturnStep ==
  ASSUME Returns, Types
  PROVE  /\ pc = "run" /\ entry = Entry
         /\ ret' \in Rets
         /\ Exited(ret)' /\ pc' \in ReturnPlaces(ret') /\ Types'
         /\ UNCHANGED <<kind, via, entry, mem, rx, tx, host, exit, job>>
         /\ scratch'[2] = ExitReg(ret')
  BY DEF Returns, ProgramExit, ProgramReturns, Exited, Types, hostVars, ExitReg, Max32

-----------------------------------------------------------------------------
(* The serial-link host.                                                   *)

LEMMA SlinkPreserved ==
  ASSUME Types, kind = "slink", Slink, Next
  PROVE  Types' /\ Slink' /\ kind' = kind
  <1>1. rx = <<>> /\ ~Remote /\ ~(ServeRead \/ ServeWrite \/ ServeExec \/ ServeUnknown)
    BY NothingToRead, NotRemote DEF Slink
  <1>2. pc \in Polling \union {"claim", "run", "spin"}
    BY DEF Slink, Polling
  <1>3. ASSUME Untouched, rx' = <<>>,
               \/ UNCHANGED pc
               \/ pc \in Polling /\ pc' \in Polling
               \/ pc \in Polling /\ pc' = "claim" /\ scratch[2] = 2
        PROVE  Types' /\ Slink' /\ kind' = kind
    BY <1>3 DEF Untouched, Types, Slink, Polling, Exited
  <1>4. CASE InitUart \/ PollScratch \/ PollUart \/ ServeAck \/ ProgramInits
             \/ \E b \in PrintBytes : ProgramPrints(b)
    <2>1. LaunchFlag /\ pc \in Polling => scratch[2] = 2
      BY DEF LaunchFlag, Slink, Polling
    <2> QED
      BY <1>1, <1>2, <1>3, <1>4, <2>1, QuietSteps DEF Polling
  <1>5. CASE Claim
    <2>1. /\ pc = "claim" /\ pc' = "run" /\ via' = "slink" /\ entry' = <<scratch[1], scratch[0]>>
          /\ scratch' = [scratch EXCEPT ![2] = 0] /\ UNCHANGED <<kind, mem, rx, host, exit>>
      BY <1>5 DEF Claim, hostVars
    <2>2. host = "poll"
      BY <2>1 DEF Slink, Polling
    <2>3. entry' = Entry
      BY <2>1, <2>2, PassiveAssumption DEF Slink
    <2> QED
      BY <2>1, <2>2, <2>3 DEF Types, Slink
  <1>6. CASE Returns
    <2>1. /\ pc = "run" /\ ret' \in Rets
          /\ Exited(ret)' /\ pc' \in ReturnPlaces(ret') /\ Types'
          /\ UNCHANGED <<kind, via, entry, mem, rx, host, exit>>
          /\ ReturnPlaces(ret') = {"spin"}
      BY <1>6, ReturnStep DEF Slink, Polling, ReturnPlaces
    <2>2. via = "slink" /\ host = "poll"
      BY <2>1 DEF Slink, Polling
    <2>3. \A i \in {0, 1} : scratch'[i] = scratch[i]
      BY <1>6 DEF Returns, ProgramExit, ProgramReturns, Types
    <2> QED
      BY <2>1, <2>2, <2>3 DEF Slink
  <1>7. CASE SlinkLoad
    BY <1>7 DEF SlinkLoad, hartVars, Types, Slink
  <1>8. CASE SlinkLaunch
    <2>1. CASE SlinkScratch("hi", 1, Entry[1], "lo")
      BY <2>1 DEF SlinkScratch, hartVars, Types, Slink
    <2>2. CASE SlinkScratch("lo", 0, Entry[2], "go")
      BY <2>2 DEF SlinkScratch, hartVars, Types, Slink
    <2>3. CASE SlinkScratch("go", 2, 2, "poll")
      BY <2>3 DEF SlinkScratch, hartVars, Types, Slink
    <2> QED
      BY <1>8, <2>1, <2>2, <2>3 DEF SlinkLaunch
  <1>9. CASE PollExit
    <2>1. /\ host = "poll" /\ scratch[2] % 2 = 1 /\ exit' = scratch[2] \div 2 /\ host' = "done"
          /\ UNCHANGED <<kind, pc, via, entry, ret, scratch, mem, rx>>
      BY <1>9 DEF PollExit, hartVars
    <2>2. pc = "spin" /\ ret \in Rets /\ Exited(ret)
      BY <2>1 DEF Slink
    <2>3. exit' = Reported(ret)
      BY <2>1, <2>2, ExitValue DEF Exited
    <2> QED
      BY <2>1, <2>2, <2>3 DEF Types, Slink, Exited, Reported
  <1>10. ~(ReadByte \/ WriteByte \/ ReportReturn \/ JtagHalt \/ JtagLoad \/ JtagResume)
    BY <1>2 DEF ReadByte, WriteByte, ReportReturn, JtagHalt, JtagLoad, JtagResume, Slink, Polling
  <1> QED
    BY <1>1, <1>4, <1>5, <1>6, <1>7, <1>8, <1>9, <1>10 DEF Next, Hart, Host, Remote

-----------------------------------------------------------------------------
(* The JTAG host.                                                          *)

LEMMA JtagPreserved ==
  ASSUME Types, kind = "jtag", Jtag, Next
  PROVE  Types' /\ Jtag' /\ kind' = kind
  <1>1. rx = <<>> /\ ~Remote /\ ~(ServeRead \/ ServeWrite \/ ServeExec \/ ServeUnknown)
    BY NothingToRead, NotRemote DEF Jtag
  <1>2. pc \in Polling \union {"halted", "run", "serve", "cmd", "claim"}
    BY DEF Jtag, Polling
  <1>3. ASSUME Untouched, rx' = <<>>,
               \/ UNCHANGED pc
               \/ pc \in Polling /\ pc' \in Polling
               \/ pc = "serve" /\ pc' = "cmd"
               \/ pc \in Polling /\ pc' = "claim" /\ LaunchFlag
        PROVE  Types' /\ Jtag' /\ kind' = kind
    <2>1. LaunchFlag /\ pc \in Polling =>
            host \in {"poll", "done"} /\ via = "jtag" /\ ret \in Rets /\ Exited(ret)
      BY DEF LaunchFlag, Jtag, Polling
    <2>2. LaunchFlag /\ pc \in Polling => ret % 2 = 1
      BY <2>1, ExitValue DEF LaunchFlag, Exited
    <2> QED
      BY <1>3, <2>1, <2>2 DEF Untouched, Types, Jtag, Polling, Exited, Reported
  <1>4. CASE InitUart \/ PollScratch \/ PollUart \/ ServeAck \/ ProgramInits
             \/ \E b \in PrintBytes : ProgramPrints(b)
    BY <1>1, <1>2, <1>3, <1>4, QuietSteps DEF Polling
  <1>5. CASE Returns
    <2>1. /\ pc = "run" /\ entry = Entry /\ ret' \in Rets
          /\ Exited(ret)' /\ pc' \in ReturnPlaces(ret') /\ Types'
          /\ UNCHANGED <<kind, via, entry, mem, rx, host, exit>>
      BY <1>5, ReturnStep
    <2>2. via = "jtag" /\ host = "poll"
      BY <2>1, PassiveAssumption DEF Jtag, Polling
    <2>3. pc' \in Polling \union {"serve"}
      BY <2>1, <2>2 DEF ReturnPlaces, ResumePlaces, Polling
    <2>4. \A i \in {0, 1} : scratch'[i] = scratch[i]
      BY <1>5 DEF Returns, ProgramExit, ProgramReturns, Types
    <2> QED
      BY <2>1, <2>2, <2>3, <2>4 DEF Jtag
  <1>6. CASE PollExit
    <2>1. /\ host = "poll" /\ scratch[2] % 2 = 1 /\ exit' = scratch[2] \div 2 /\ host' = "done"
          /\ UNCHANGED <<kind, pc, via, entry, ret, scratch, mem, rx>>
      BY <1>6 DEF PollExit, hartVars
    <2>2. pc # "run" /\ ret \in Rets /\ Exited(ret)
      BY <2>1 DEF Jtag, Polling
    <2>3. exit' = Reported(ret)
      BY <2>1, <2>2, ExitValue DEF Exited
    <2> QED
      BY <2>1, <2>2, <2>3 DEF Types, Jtag, Exited, Reported
  <1>7. CASE JtagHalt \/ JtagLoad \/ JtagResume
    BY <1>7 DEF JtagHalt, JtagLoad, JtagResume, hartVars, Types, Jtag, Polling
  <1>8. CASE Claim
    <2>1. /\ pc = "claim" /\ pc' = "run" /\ via' = "slink" /\ entry' = <<scratch[1], scratch[0]>>
          /\ scratch' = [scratch EXCEPT ![2] = 0] /\ UNCHANGED <<kind, ret, mem, rx, host, exit>>
      BY <1>8 DEF Claim, hostVars
    <2> QED
      BY <2>1 DEF Types, Jtag, Polling, Reported
  <1>9. ~(ReadByte \/ WriteByte \/ ReportReturn \/ SlinkLoad \/ SlinkLaunch)
    BY <1>2 DEF ReadByte, WriteByte, ReportReturn, SlinkLoad, SlinkLaunch, SlinkScratch,
                Jtag, Polling
  <1> QED
    BY <1>1, <1>4, <1>5, <1>6, <1>7, <1>8, <1>9 DEF Next, Hart, Host, Remote

-----------------------------------------------------------------------------
(* A terminal.                                                             *)

\* What is left of a sequence whose first m elements were taken.
LEMMA Rest ==
  ASSUME NEW S, NEW s \in Seq(S), NEW m \in Nat, m <= Len(s)
  PROVE  /\ SubSeq(s, m + 1, Len(s)) \in Seq(S)
         /\ Len(SubSeq(s, m + 1, Len(s))) = Len(s) - m
         /\ \A k \in 1 .. Len(s) - m : SubSeq(s, m + 1, Len(s))[k] = s[m + k]
  <1>1. Len(s) \in Nat /\ m + 1 \in Int /\ \A i \in m + 1 .. Len(s) : s[i] \in S
    OBVIOUS
  <1> QED
    BY <1>1, SubSeqProperties

LEMMA Empty ==
  ASSUME NEW S, NEW s \in Seq(S)
  PROVE  Len(s) \in Nat /\ (Len(s) = 0 <=> s = <<>>)
  OBVIOUS

LEMMA Added ==
  ASSUME NEW S, NEW s \in Seq(S), NEW e \in S
  PROVE  /\ s \o <<e>> \in Seq(S) /\ Len(s \o <<e>>) = Len(s) + 1
         /\ \A k \in 1 .. Len(s) : (s \o <<e>>)[k] = s[k]
         /\ (s \o <<e>>)[Len(s) + 1] = e
  OBVIOUS

LEMMA TermPreserved ==
  ASSUME Types, kind = "term", Term, Next
  PROVE  Types' /\ Term' /\ kind' = kind
  <1>1. rx \in Seq(Typed) /\ host = "start" /\ pc \in Polling \union {"serve", "cmd", "exited"}
        /\ Len(rx) \in Nat /\ (rx = <<>> <=> Len(rx) = 0)
    BY Empty DEF Term
  <1>2. ASSUME Untouched, rx' \in Seq(Typed), pc' \in Polling \union {"serve", "cmd"},
               pc # "exited"
        PROVE  Types' /\ Term' /\ kind' = kind
    BY <1>2 DEF Untouched, Types, Term, Polling
  <1>3. CASE InitUart \/ PollScratch \/ ServeAck
    <2>1. ~LaunchFlag \/ pc = "exited"
      BY DEF LaunchFlag, Term
    <2>2. <<>> \in Seq(Typed)
      OBVIOUS
    <2> QED
      BY <1>1, <1>2, <1>3, <2>1, <2>2, QuietSteps DEF Polling
  <1>4. CASE PollUart
    <2>1. CASE uart_read_ready /\ uart_read
      <3>1. rx' \in Seq(Typed)
        <4>1. 1 <= Len(rx) /\ rx' = SubSeq(rx, 1 + 1, Len(rx))
          BY <2>1 DEF uart_read, uart_read_str
        <4> QED
          BY <1>1, <4>1, Rest
      <3>2. Untouched /\ pc = "poll_uart" /\ pc' \in {"serve", "poll_scratch"}
        BY <1>4, <2>1 DEF PollUart, Untouched, hostVars, uart_read_ready
      <3> QED
        BY <1>2, <3>1, <3>2 DEF Polling
    <2>2. CASE rx = <<>>
      BY <1>1, <1>2, <1>4, <2>2, QuietSteps DEF Polling
    <2> QED
      BY <1>4, <2>1, <2>2 DEF PollUart, uart_read_ready
  <1>5. CASE ServeUnknown
    <2>1. /\ rx' = SubSeq(rx, 1 + 1, Len(rx)) /\ 1 <= Len(rx) /\ pc' = "exited"
          /\ scratch' = [scratch EXCEPT ![2] = ExitReg(1)] /\ UNCHANGED <<kind, host>>
      BY <1>5 DEF ServeUnknown, uart_read, uart_read_str, hostVars
    <2>2. rx' \in Seq(Typed)
      BY <1>1, <2>1, Rest
    <2> QED
      BY <1>1, <2>1, <2>2 DEF Types, Term
  <1>6. ~(ServeRead \/ ServeWrite \/ ServeExec)
    <2>1. ASSUME Len(rx) >= 1, NEW op \in {"READ", "WRITE", "EXEC"} PROVE Head(rx) # Byte(op)
      <3>1. Head(rx) \in Typed
        BY <1>1, <2>1
      <3> QED
        BY <3>1, PassiveAssumption DEF Typed, Byte
    <2>2. ASSUME NEW n \in {2, 3}, uart_read_str(n) PROVE Len(rx) >= 1
      BY <1>1, <2>2 DEF uart_read_str
    <2> QED
      BY <2>1, <2>2 DEF ServeRead, ServeWrite, ServeTransfer, ServeExec
  <1>7. CASE \E b \in TypedBytes : TerminalType(b)
    <2>1. PICK b \in TypedBytes : TerminalType(b)
      BY <1>7
    <2>2. rx' = rx \o <<Byte(b)>> /\ host' = host /\ UNCHANGED <<kind, pc, scratch>>
      BY <2>1 DEF TerminalType, HostSend, hartVars
    <2>3. rx' \in Seq(Typed)
      <3>1. Byte(b) \in Typed
        BY DEF Typed
      <3> QED
        BY <1>1, <2>2, <3>1, Added
    <2> QED
      BY <1>1, <2>2, <2>3 DEF Types, Term
  <1>8. ~Host
    BY <1>1 DEF Host, SlinkLoad, SlinkLaunch, SlinkScratch, PollExit, JtagHalt, JtagLoad,
       JtagResume, UartChallenge, UartHeader, UartSendByte, UartDataDone, UartExec, UartAck,
       UartEot, UartReadByte, UartEoc, UartPrint, UartReturn, Expect
  <1>9. ~(Claim \/ ReadByte \/ WriteByte \/ ReportReturn \/ Returns \/ ProgramInits
          \/ \E b \in PrintBytes : ProgramPrints(b))
    BY <1>1 DEF Claim, ReadByte, WriteByte, ReportReturn, Returns, ProgramExit, ProgramReturns,
       ProgramInits, ProgramPrints, Polling
  <1> QED
    BY <1>3, <1>4, <1>5, <1>6, <1>7, <1>8, <1>9 DEF Next, Hart

-----------------------------------------------------------------------------
(* The UART hosts: from reset to the first transfer.                       *)

LEMMA TailIs ==
  ASSUME NEW S, NEW s \in Seq(S), s # <<>>
  PROVE  /\ Len(s) \in Nat \ {0} /\ Head(s) = s[1] /\ Tail(s) \in Seq(S)
         /\ Len(Tail(s)) = Len(s) - 1
         /\ \A k \in 1 .. Len(s) - 1 : Tail(s)[k] = s[k + 1]
  BY HeadTailProperties

LEMMA IsToken ==
  /\ \A b \in Bytes : Byte(b) \in Tokens
  /\ \A w \in Words : Word(w) \in Tokens
  /\ {"ACK", "EOT", "EOC", "READ", "WRITE", "EXEC"} \subseteq Bytes /\ PrintBytes \subseteq Bytes
  /\ Entry \in Words /\ Nat \subseteq Words /\ Rets \subseteq Words
  /\ \A a \in DOMAIN Image : Image[a] \in Bytes
  BY DEF Tokens, Bytes, Words

LEMMA JobFacts ==
  ASSUME NEW i \in 1 .. Len(Jobs)
  PROVE  /\ Jobs[i].op \in {"READ", "WRITE"} /\ Jobs[i].addr \in Nat
         /\ TransferLen(Jobs[i]) \in Nat /\ Addresses(Jobs[i]) \subseteq DOMAIN Image
         /\ Jobs[i].op = "WRITE" =>
              \A k \in 1 .. TransferLen(Jobs[i]) : Jobs[i].data[k] = Image[Jobs[i].addr + k - 1]
  BY PassiveAssumption

LEMMA SetupPreserved ==
  ASSUME Types, kind \in {"uart", "early"}, Uart, host \in Setup, Next
  PROVE  Types' /\ Uart' /\ kind' = kind
  <1>1. /\ job = 1 /\ scratch[2] = 0 /\ rx \in Seq(Tokens) /\ tx \in Seq(Tokens)
        /\ host = "start" => pc \in Polling /\ rx = <<>> /\ tx = <<>>
        /\ host = "ack0" => Challenge
        /\ host \in {"start", "ack0"} /\ pc \in Polling \union {"serve", "cmd"}
        /\ pc = "cmd" => rx = <<>>
    BY DEF Uart, UartTypes, Beginning, Challenge, Setup, Polling
  <1>2. ~LaunchFlag
    BY <1>1 DEF LaunchFlag
  <1>3. ASSUME UNCHANGED <<kind, scratch, mem, job>>, rx' \in Seq(Tokens), tx' \in Seq(Tokens),
               host' \in Setup \union {"job"},
               host' = "start" => pc' \in Polling /\ rx' = <<>> /\ tx' = <<>>,
               host' = "ack0" => Challenge',
               host' = "job" => pc' = "cmd" /\ rx' = <<>> /\ tx' = <<>>
        PROVE  Types' /\ Uart' /\ kind' = kind
    <2>1. pc' \notin {"eoc", "exited"}
      BY <1>3 DEF Setup, Challenge, Polling
    <2>2. UartTypes'
      BY <1>1, <1>3, <2>1 DEF Uart, UartTypes
    <2>3. Beginning'
      BY <1>1, <1>3 DEF Beginning, Setup
    <2>4. host' \notin Transfers /\ host' \notin After /\ host \notin After
      BY <1>1, <1>3 DEF Transfers, After, Setup
    <2>5. StoredSoFar'
      BY <1>3, <2>4 DEF Uart, StoredSoFar, Loaded
    <2> QED
      BY <1>3, <2>2, <2>3, <2>4, <2>5 DEF Uart, Types, InTransfer, Launched
  <1>4. CASE InitUart
    <2>1. /\ pc = "init" /\ pc' = "poll_scratch" /\ UNCHANGED <<kind, scratch, mem, job, host>>
          /\ rx' = <<>> /\ \E n \in 0 .. Len(tx) : tx' = SubSeq(tx, 1, n)
      BY <1>4 DEF InitUart, uart_init, hostVars
    <2>2. tx = <<>>
      BY <1>1, <2>1 DEF Challenge, Polling
    <2>3. tx' = <<>>
      <3>1. \E n \in 0 .. 0 : tx' = SubSeq(tx, 1, n)
        BY <2>1, <2>2
      <3>2. SubSeq(tx, 1, 0) = <<>>
        BY SubSeqEmpty
      <3> QED
        BY <3>1, <3>2
    <2>4. <<>> \in Seq(Tokens)
      OBVIOUS
    <2> QED
      BY <1>1, <1>3, <2>1, <2>3, <2>4 DEF Challenge, Polling, Setup
  <1>5. CASE PollScratch
    <2>1. /\ pc = "poll_scratch" /\ pc' = "poll_uart"
          /\ UNCHANGED <<kind, scratch, mem, job, host, rx, tx>>
      BY <1>2, <1>5 DEF PollScratch, hostVars
    <2> QED
      BY <1>1, <1>3, <2>1 DEF Challenge, Polling, Setup
  <1>6. CASE PollUart
    <2>1. pc = "poll_uart" /\ UNCHANGED <<kind, scratch, mem, job, host, tx>>
      BY <1>6 DEF PollUart, hostVars
    <2>2. CASE rx = <<>>
      <3>1. pc' = "poll_scratch" /\ rx' = rx
        BY <1>6, <2>2 DEF PollUart, uart_read_ready
      <3> QED
        BY <1>1, <1>3, <2>1, <2>2, <3>1 DEF Challenge, Polling, Setup
    <2>3. CASE rx # <<>>
      <3>1. host = "ack0" /\ Len(rx) = 1 /\ rx[1] = Byte("ACK")
        BY <1>1, <2>1, <2>3 DEF Challenge, Polling
      <3>2. rx' = SubSeq(rx, 1 + 1, Len(rx)) /\ pc' = "serve"
        <4>1. Head(rx) = rx[1]
          BY <1>1, <2>3, TailIs
        <4> QED
          BY <1>6, <2>3, <3>1, <4>1 DEF PollUart, uart_read_ready, uart_read, uart_read_str
      <3>3. rx' = <<>>
        BY <3>1, <3>2, SubSeqEmpty
      <3>4. tx = <<>>
        BY <1>1, <2>1, <3>1 DEF Challenge
      <3> QED
        BY <1>1, <1>3, <2>1, <3>1, <3>2, <3>3, <3>4 DEF Challenge, Setup
    <2> QED
      BY <2>2, <2>3
  <1>7. CASE ServeAck
    <2>1. /\ pc = "serve" /\ pc' = "cmd" /\ tx' = tx \o <<Byte("ACK")>>
          /\ UNCHANGED <<kind, scratch, mem, job, host, rx>>
      BY <1>7 DEF ServeAck, uart_write, uart_write_str, hostVars
    <2>2. host = "ack0" /\ rx = <<>> /\ tx = <<>>
      BY <1>1, <2>1 DEF Challenge, Polling
    <2>3. tx' \in Seq(Tokens) /\ Len(tx') = 1 /\ tx'[1] = Byte("ACK")
      BY <2>1, <2>2, IsToken
    <2> QED
      BY <1>1, <1>3, <2>1, <2>2, <2>3 DEF Challenge, Setup
  <1>8. CASE UartChallenge
    <2>1. /\ host = "start" /\ host' = "ack0" /\ rx' = rx \o <<Byte("ACK")>>
          /\ UNCHANGED <<kind, pc, scratch, mem, job, tx>>
      BY <1>8 DEF UartChallenge, HostSend, hartVars
    <2>2. rx' \in Seq(Tokens) /\ Len(rx') = 1 /\ rx'[1] = Byte("ACK")
      BY <1>1, <2>1, IsToken
    <2> QED
      BY <1>1, <1>3, <2>1, <2>2 DEF Challenge, Setup
  <1>9. CASE UartAck
    <2>1. /\ host = "ack0" /\ host' = "job" /\ tx # <<>> /\ tx' = Tail(tx)
          /\ UNCHANGED <<kind, pc, scratch, mem, job, rx>>
      BY <1>1, <1>9 DEF UartAck, Expect, HostTake, hartVars
    <2>2. pc = "cmd" /\ rx = <<>> /\ Len(tx) = 1
      BY <1>1, <2>1 DEF Challenge
    <2>3. tx' \in Seq(Tokens) /\ Len(tx') = 0
      BY <1>1, <2>1, <2>2, TailIs
    <2>4. tx' = <<>>
      BY <2>3, Empty
    <2> QED
      BY <1>1, <1>3, <2>1, <2>2, <2>3, <2>4 DEF Setup
  <1>10. ~(ServeRead \/ ServeWrite \/ ServeExec \/ ServeUnknown)
    <2>1. CASE pc = "cmd"
      BY <1>1, <2>1, NothingToRead
    <2>2. CASE pc # "cmd"
      BY <2>2 DEF ServeRead, ServeWrite, ServeTransfer, ServeExec, ServeUnknown
    <2> QED
      BY <2>1, <2>2
  <1>11. ~(Claim \/ ReadByte \/ WriteByte \/ ReportReturn \/ Returns \/ ProgramInits
           \/ \E b \in PrintBytes : ProgramPrints(b))
    BY <1>1 DEF Claim, ReadByte, WriteByte, ReportReturn, Returns, ProgramExit, ProgramReturns,
       ProgramInits, ProgramPrints, Polling
  <1>12. ~(\/ SlinkLoad \/ SlinkLaunch \/ PollExit \/ JtagHalt \/ JtagLoad \/ JtagResume
           \/ UartHeader \/ UartSendByte \/ UartDataDone \/ UartExec
           \/ UartEot \/ UartReadByte \/ UartEoc \/ UartPrint \/ UartReturn
           \/ \E b \in TypedBytes : TerminalType(b))
    BY <1>1 DEF SlinkLoad, SlinkLaunch, SlinkScratch, PollExit, JtagHalt, JtagLoad,
       JtagResume, UartHeader, UartSendByte, UartDataDone, UartExec,
       UartEot, UartReadByte, UartEoc, UartPrint, UartReturn, Expect, TerminalType
  <1> QED
    BY <1>4, <1>5, <1>6, <1>7, <1>8, <1>9, <1>10, <1>11, <1>12 DEF Next, Hart, Host

LEMMA JobPreserved ==
  ASSUME Types, kind \in {"uart", "early"}, Uart, host = "job", Next
  PROVE  Types' /\ Uart' /\ kind' = kind
  <1>1. pc = "cmd" /\ rx = <<>> /\ tx = <<>> /\ job \in 1 .. Len(Jobs) + 1
        /\ scratch[2] = 0 /\ Len(Jobs) \in Nat
    BY PassiveAssumption DEF Uart, UartTypes, Beginning
  <1>2. ~Hart
    <2>1. ~(ServeRead \/ ServeWrite \/ ServeExec \/ ServeUnknown)
      BY <1>1, NothingToRead
    <2> QED
      BY <1>1, <2>1 DEF Hart, InitUart, PollScratch, PollUart, Claim, ServeAck, ReadByte,
         WriteByte, ReportReturn
  <1>3. ~(Returns \/ ProgramInits \/ \E b \in PrintBytes : ProgramPrints(b))
    BY <1>1 DEF Returns, ProgramExit, ProgramReturns, ProgramInits, ProgramPrints
  <1>4. ~(\/ SlinkLoad \/ SlinkLaunch \/ PollExit \/ JtagHalt \/ JtagLoad \/ JtagResume
          \/ UartChallenge \/ UartSendByte \/ UartDataDone \/ UartAck
          \/ UartEot \/ UartReadByte \/ UartEoc \/ UartPrint \/ UartReturn
          \/ \E b \in TypedBytes : TerminalType(b))
    BY DEF SlinkLoad, SlinkLaunch, SlinkScratch, PollExit, JtagHalt, JtagLoad,
       JtagResume, UartChallenge, UartSendByte, UartDataDone, UartAck,
       UartEot, UartReadByte, UartEoc, UartPrint, UartReturn, Expect, TerminalType
  <1>5. CASE UartHeader
    <2> DEFINE j == Jobs[job]
    <2>1. /\ job <= Len(Jobs) /\ host' = "ack" /\ pos' = 0
          /\ rx' = rx \o <<Byte(j.op), Word(j.addr), Word(TransferLen(j))>>
          /\ UNCHANGED <<kind, pc, scratch, mem, tx, job>>
      BY <1>5 DEF UartHeader, HostSend, hartVars
    <2>2. job \in 1 .. Len(Jobs)
      BY <1>1, <2>1
    <2>3. j.op \in {"READ", "WRITE"} /\ j.addr \in Nat /\ TransferLen(j) \in Nat
      BY <2>2, JobFacts
    <2>4. rx' = <<Byte(j.op), Word(j.addr), Word(TransferLen(j))>>
      <3>1. Byte(j.op) \in Tokens /\ Word(j.addr) \in Tokens /\ Word(TransferLen(j)) \in Tokens
        BY <2>3, IsToken
      <3>2. <<Byte(j.op), Word(j.addr), Word(TransferLen(j))>> \in Seq(Tokens)
        BY <3>1
      <3> QED
        BY <1>1, <2>1, <3>2, ConcatEmptySeq
    <2>5. rx' \in Seq(Tokens)
      BY <2>3, <2>4, IsToken
    <2> HIDE DEF j
    <2>6. Header(j)'
      BY <1>1, <2>1, <2>4 DEF Header, j
    <2>7. Transfer(Jobs[job])'
      BY <1>1, <2>1, <2>3, <2>6 DEF Transfer, Reading, Writing, j
    <2>8. UartTypes' /\ Beginning' /\ Launched' /\ StoredSoFar'
      BY <1>1, <2>1, <2>5 DEF Uart, UartTypes, Beginning, Launched, StoredSoFar, Loaded, Setup,
         Transfers, After
    <2> QED
      BY <2>1, <2>7, <2>8 DEF Uart, InTransfer, Types
  <1>6. CASE UartExec
    <2>1. /\ job > Len(Jobs) /\ host' = "ackx" /\ rx' = rx \o <<Byte("EXEC"), Word(Entry)>>
          /\ UNCHANGED <<kind, pc, scratch, mem, tx, job>>
      BY <1>6 DEF UartExec, HostSend, hartVars
    <2>2. rx' = <<Byte("EXEC"), Word(Entry)>> /\ rx' \in Seq(Tokens)
      <3>1. <<Byte("EXEC"), Word(Entry)>> \in Seq(Tokens)
        BY IsToken
      <3> QED
        BY <1>1, <2>1, <3>1, ConcatEmptySeq
    <2>3. mem = Image
      <3>1. job - 1 = Len(Jobs) /\ host \notin After
        BY <1>1, <2>1 DEF After
      <3>2. \A a \in DOMAIN Image : mem[a] = Image[a]
        BY <3>1, PassiveAssumption DEF Uart, StoredSoFar, Loaded
      <3> QED
        BY <3>2, PassiveAssumption DEF Uart, UartTypes
    <2>4. Launch'
      BY <1>1, <2>1, <2>2 DEF Launch
    <2>5. UartTypes' /\ Beginning' /\ Launched' /\ StoredSoFar' /\ InTransfer'
      BY <1>1, <2>1, <2>2, <2>3, <2>4 DEF Uart, UartTypes, Beginning, Launched, StoredSoFar,
         InTransfer, Setup, Transfers, After
    <2> QED
      BY <2>1, <2>5 DEF Uart, Types
  <1> QED
    BY <1>2, <1>3, <1>4, <1>5, <1>6 DEF Next, Host

-----------------------------------------------------------------------------
(* The UART hosts: a transfer.                                             *)

InProgress == /\ Types /\ kind \in {"uart", "early"} /\ Uart /\ host \in Transfers

LEMMA TransferFacts ==
  ASSUME InProgress
  PROVE  /\ job \in 1 .. Len(Jobs) /\ rx \in Seq(Tokens) /\ tx \in Seq(Tokens)
         /\ Len(rx) \in Nat /\ Len(tx) \in Nat /\ Acks \in {0, 1}
         /\ host \in Transfers /\ pc \in {"cmd", "read", "write"} /\ scratch[2] = 0
         /\ Transfer(Jobs[job]) /\ Jobs[job].op \in {"READ", "WRITE"}
         /\ Jobs[job].addr \in Nat /\ TransferLen(Jobs[job]) \in Nat
         /\ Addresses(Jobs[job]) \subseteq DOMAIN Image /\ DOMAIN mem = DOMAIN Image
         /\ pc = "read" => Jobs[job].op = "READ"
         /\ pc = "write" => Jobs[job].op = "WRITE"
         /\ pc = "cmd" => rx = <<>> \/ Header(Jobs[job])
  <1>1. /\ job \in 1 .. Len(Jobs) /\ Transfer(Jobs[job]) /\ host \in Transfers
        /\ rx \in Seq(Tokens) /\ tx \in Seq(Tokens) /\ DOMAIN mem = DOMAIN Image
        /\ pc \notin {"eoc", "exited"} => scratch[2] = 0
    BY PassiveAssumption DEF InProgress, Uart, UartTypes, InTransfer
  <1>2. /\ Jobs[job].op \in {"READ", "WRITE"} /\ Jobs[job].addr \in Nat
        /\ TransferLen(Jobs[job]) \in Nat /\ Addresses(Jobs[job]) \subseteq DOMAIN Image
    BY <1>1, JobFacts
  <1>3. /\ pc \in {"cmd", "read", "write"}
        /\ pc = "read" => Jobs[job].op = "READ"
        /\ pc = "write" => Jobs[job].op = "WRITE"
        /\ pc = "cmd" => rx = <<>> \/ Header(Jobs[job])
    BY <1>1, <1>2 DEF Transfer, Reading, Writing, Header
  <1> QED
    BY <1>1, <1>2, <1>3 DEF Acks

\* What an action of a transfer has to establish; memory changes towards the
\* image only.
LEMMA StoreKept ==
  ASSUME InProgress, UNCHANGED <<kind, scratch, job>>, DOMAIN mem' = DOMAIN mem,
         mem' = [a \in DOMAIN mem' |-> mem'[a]],
         \A a \in DOMAIN mem : mem'[a] = mem[a] \/ mem'[a] = Image[a],
         rx' \in Seq(Tokens), tx' \in Seq(Tokens),
         pc' \in {"cmd", "read", "write"}, host' \in Transfers, Transfer(Jobs[job])'
  PROVE  Types' /\ Uart' /\ kind' = kind
  <1>1. /\ UartTypes /\ StoredSoFar /\ host \in Transfers /\ pc \notin {"eoc", "exited"}
        /\ job \in 1 .. Len(Jobs)
    BY TransferFacts DEF InProgress, Uart
  <1>2. /\ host' \notin Setup \union {"job"} /\ host' \notin After /\ host \notin After
    BY <1>1 DEF Transfers, Setup, After
  <1>3. UartTypes'
    <2>1. \A a \in DOMAIN mem' : mem'[a] \in Bytes
      BY <1>1, IsToken DEF UartTypes
    <2> QED
      BY <1>1, <2>1 DEF UartTypes
  <1>4. Beginning'
    BY <1>2 DEF Beginning, Setup
  <1>5. InTransfer'
    BY <1>1, PassiveAssumption DEF InTransfer
  <1>6. StoredSoFar'
    <2>1. ASSUME NEW i \in 1 .. job - 1, Jobs[i].op = "WRITE"
          PROVE  Loaded(Addresses(Jobs[i]))'
      <3>1. Addresses(Jobs[i]) \subseteq DOMAIN mem
        <4>1. i \in 1 .. Len(Jobs)
          BY <1>1, PassiveAssumption
        <4> QED
          BY <1>1, <4>1, JobFacts DEF UartTypes
      <3>2. Loaded(Addresses(Jobs[i]))
        BY <1>1, <1>2, <2>1 DEF StoredSoFar
      <3> QED
        BY <3>1, <3>2 DEF Loaded, Addresses, TransferLen
    <2> QED
      BY <2>1 DEF StoredSoFar
  <1>7. Launched'
    BY <1>2 DEF Launched
  <1> QED
    BY <1>3, <1>4, <1>5, <1>6, <1>7 DEF Uart, InProgress, Types

LEMMA TransferKept ==
  ASSUME InProgress, UNCHANGED <<kind, scratch, mem, job>>,
         rx' \in Seq(Tokens), tx' \in Seq(Tokens),
         pc' \in {"cmd", "read", "write"}, host' \in Transfers, Transfer(Jobs[job])'
  PROVE  Types' /\ Uart' /\ kind' = kind
  <1>1. mem = [a \in DOMAIN mem |-> mem[a]]
    BY DEF InProgress, Uart, UartTypes
  <1>2. mem' = [a \in DOMAIN mem' |-> mem'[a]]
    BY <1>1
  <1> QED
    BY <1>2, StoreKept

\* The server is given a header.
LEMMA ServeTransferPreserved ==
  ASSUME InProgress, ServeRead \/ ServeWrite
  PROVE  Types' /\ Uart' /\ kind' = kind
  <1> DEFINE j == Jobs[job]
             n == TransferLen(j)
  <1>1. /\ pc = "cmd" /\ Len(rx) >= 3 /\ rx' = SubSeq(rx, 3 + 1, Len(rx))
        /\ \/ Head(rx) = Byte("READ") /\ pc' = "read"
           \/ Head(rx) = Byte("WRITE") /\ pc' = "write"
        /\ cmd' = [addr |-> rx[2][2], len |-> rx[3][2]]
        /\ tx' = tx \o <<Byte("ACK")>>
        /\ UNCHANGED <<kind, scratch, mem, job, host, pos>>
    BY DEF ServeRead, ServeWrite, ServeTransfer, uart_read_str, uart_write, uart_write_str, hostVars
  <1>2. Header(j)
    BY <1>1, TransferFacts
  <1>3. /\ host = "ack" /\ pos = 0 /\ n \in Nat /\ j.addr \in Nat /\ j.op \in {"READ", "WRITE"}
        /\ cmd'.addr = j.addr /\ cmd'.len = n
    BY <1>1, <1>2, TransferFacts DEF Header, Word, Transfer
  <1>4. rx' = <<>>
    BY <1>1, <1>2, SubSeqEmpty DEF Header
  <1>5. tx' \in Seq(Tokens) /\ Len(tx') = 1 /\ tx'[1] = Byte("ACK")
    BY <1>1, <1>2, IsToken DEF Header
  <1>6. Head(rx) = Byte(j.op)
    BY <1>2, TransferFacts, TailIs DEF Header
  <1>7. pc' = IF j.op = "READ" THEN "read" ELSE "write"
    BY <1>1, <1>3, <1>6 DEF Byte
  <1> HIDE DEF n
  <1>8. j' = j /\ TransferLen(j)' = n /\ host' = "ack" /\ pos' = 0
    BY <1>1, <1>3 DEF n
  <1> HIDE DEF j
  <1>9. j.op = "READ" => Reading(j)'
    BY <1>3, <1>4, <1>5, <1>7, <1>8 DEF Reading, Acks, n
  <1>10. j.op = "WRITE" => Writing(j)'
    BY <1>3, <1>4, <1>5, <1>7, <1>8 DEF Writing, Acks, Loaded, n
  <1>11. Transfer(j)'
    BY <1>3, <1>5, <1>8, <1>9, <1>10 DEF Transfer, n
  <1>12. rx' \in Seq(Tokens) /\ host' \in Transfers /\ pc' \in {"cmd", "read", "write"}
    BY <1>4, <1>7, <1>8 DEF Transfers
  <1>13. Transfer(Jobs[job])'
    BY <1>11 DEF j
  <1> QED
    BY <1>1, <1>5, <1>12, <1>13, TransferKept

\* The first token stays first when another is appended.
LEMMA AckStays ==
  ASSUME InProgress, NEW t \in Tokens, tx' = tx \o <<t>>, UNCHANGED host,
         host = "ack" => tx # <<>>
  PROVE  /\ tx' \in Seq(Tokens) /\ Len(tx') = Len(tx) + 1 /\ tx'[Len(tx')] = t
         /\ host' = "ack" /\ tx' # <<>> => tx'[1] = Byte("ACK")
  <1>1. tx \in Seq(Tokens) /\ Len(tx) \in Nat /\ (tx = <<>> <=> Len(tx) = 0)
        /\ (host = "ack" /\ tx # <<>> => tx[1] = Byte("ACK"))
    BY TransferFacts, Empty DEF Transfer
  <1>2. /\ tx' \in Seq(Tokens) /\ Len(tx') = Len(tx) + 1 /\ tx'[Len(tx) + 1] = t
        /\ \A k \in 1 .. Len(tx) : tx'[k] = tx[k]
    BY <1>1, Added
  <1>3. host = "ack" => 1 \in 1 .. Len(tx)
    BY <1>1
  <1> QED
    BY <1>1, <1>2, <1>3

\* The counting of a READ and of a WRITE, one byte on: address a, n bytes, l of
\* them left, p passed by the host, k tokens besides.
LEMMA OneByteOn ==
  ASSUME NEW n \in Nat, NEW a \in Nat, NEW l \in 1 .. n, NEW p \in 0 .. n, NEW k \in {0, 1}
  PROVE  /\ l - 1 \in 0 .. n /\ (a + (n - l)) + 1 = a + (n - (l - 1))
         /\ (k + (n - l) - p) + 1 = k + (n - (l - 1)) - p
         /\ (p - (n - l)) - 1 = p - (n - (l - 1))
  OBVIOUS

LEMMA ReadBytePreserved ==
  ASSUME InProgress, ReadByte
  PROVE  Types' /\ Uart' /\ kind' = kind
  <1> DEFINE j == Jobs[job]
             n == TransferLen(j)
  <1>1. /\ pc = "read" /\ UNCHANGED <<kind, scratch, mem, job, host, pos, rx>>
    BY DEF ReadByte, hostVars
  <1>2. /\ Reading(j) /\ j.op = "READ" /\ n \in Nat /\ j.addr \in Nat /\ pos \in 0 .. n
        /\ host \in Transfers /\ (host = "ack" => pos = 0) /\ (host = "eot" => pos = n)
        /\ Acks \in {0, 1} /\ (host = "ack" => Acks = 1) /\ Len(tx) \in Nat /\ rx \in Seq(Tokens)
    BY <1>1, TransferFacts DEF Transfer, Acks
  <1>3. /\ rx = <<>> /\ cmd.len \in 0 .. n /\ cmd.addr = j.addr + (n - cmd.len)
        /\ Len(tx) = Acks + (n - cmd.len) - pos
    BY <1>1, <1>2 DEF Reading, Header
  <1>4. host = "ack" => tx # <<>>
    BY <1>2, <1>3, TransferFacts, Empty
  <1> HIDE DEF n
  <1>5. CASE cmd.len > 0
    <2>1. /\ tx' = tx \o <<Byte(mem[cmd.addr])>> /\ pc' = pc
          /\ cmd' = [addr |-> cmd.addr + 1, len |-> cmd.len - 1]
      BY <1>2, <1>3, <1>5 DEF ReadByte, uart_write, uart_write_str
    <2>2. Byte(mem[cmd.addr]) \in Tokens
      <3>1. cmd.addr \in Addresses(j)
        BY <1>2, <1>3, <1>5 DEF Addresses, n
      <3>2. mem[cmd.addr] \in Bytes
        BY <3>1, TransferFacts DEF InProgress, Uart, UartTypes
      <3> QED
        BY <3>2, IsToken
    <2>3. /\ tx' \in Seq(Tokens) /\ Len(tx') = Len(tx) + 1
          /\ host' = "ack" /\ tx' # <<>> => tx'[1] = Byte("ACK")
      BY <1>1, <1>4, <2>1, <2>2, AckStays
    <2>4. /\ cmd'.len = cmd.len - 1 /\ cmd'.addr = cmd.addr + 1 /\ Acks' = Acks
      BY <1>1, <2>1 DEF Acks
    <2>5. /\ cmd'.len \in 0 .. n /\ cmd'.addr = j.addr + (n - cmd'.len)
          /\ Len(tx') = Acks' + (n - cmd'.len) - pos
      <3>1. cmd.len \in 1 .. n
        BY <1>2, <1>3, <1>5
      <3>2. cmd'.addr = (j.addr + (n - cmd.len)) + 1 /\ Len(tx') = (Acks + (n - cmd.len) - pos) + 1
        BY <1>3, <2>3, <2>4
      <3> HIDE DEF j
      <3>3. /\ cmd.len - 1 \in 0 .. n /\ (j.addr + (n - cmd.len)) + 1 = j.addr + (n - (cmd.len - 1))
            /\ (Acks + (n - cmd.len) - pos) + 1 = Acks + (n - (cmd.len - 1)) - pos
        BY <1>2, <3>1, OneByteOn
      <3> QED
        BY <2>4, <3>2, <3>3, Zenon
    <2>6. Reading(j)'
      BY <1>1, <1>3, <2>1, <2>5 DEF Reading, n
    <2>7. Transfer(Jobs[job])'
      BY <1>1, <1>2, <2>3, <2>6 DEF Transfer, n
    <2> QED
      BY <1>1, <1>2, <2>1, <2>3, <2>7, TransferKept
  <1>6. CASE cmd.len = 0
    <2>1. tx' = tx \o <<Byte("EOT")>> /\ pc' = "cmd" /\ cmd' = cmd
      BY <1>6 DEF ReadByte, uart_write, uart_write_str
    <2>2. /\ tx' \in Seq(Tokens) /\ Len(tx') = Len(tx) + 1 /\ tx'[Len(tx')] = Byte("EOT")
          /\ host' = "ack" /\ tx' # <<>> => tx'[1] = Byte("ACK")
      BY <1>1, <1>4, <2>1, IsToken, AckStays
    <2>3. Len(tx') = Acks' + n - pos + 1
      BY <1>1, <1>2, <1>3, <1>6, <2>2 DEF Acks
    <2>4. Reading(j)'
      BY <1>1, <1>3, <2>1, <2>2, <2>3 DEF Reading, n
    <2>5. Transfer(Jobs[job])'
      BY <1>1, <1>2, <2>2, <2>4 DEF Transfer, n
    <2> QED
      BY <1>1, <1>2, <2>1, <2>2, <2>5, TransferKept
  <1> QED
    BY <1>2, <1>3, <1>5, <1>6

\* The next byte of a WRITE: r bytes have arrived, the first of them for c.
LEMMA NextStored ==
  ASSUME NEW n \in Nat, NEW a \in Nat, NEW p \in 0 .. n, NEW l \in n - p .. n, l > 0,
         NEW c, c = a + (n - l), NEW r, r = p - (n - l), r >= 1
  PROVE  /\ l \in 1 .. n /\ l - 1 \in n - p .. n /\ c \in a .. a + n - 1 /\ 1 \in 1 .. r
         /\ (n - l) + 1 \in 1 .. n /\ a + ((n - l) + 1) - 1 = c
         /\ c + 1 = a + (n - (l - 1)) /\ r - 1 = p - (n - (l - 1)) /\ (c + 1) - 1 = c
         /\ \A k \in 1 .. r - 1 :
              1 + k \in 1 .. r /\ (n - l) + (1 + k) = (n - (l - 1)) + k
         /\ \A b \in a .. c : b # c => b \in a .. c - 1 /\ b \in a .. a + n - 1
  OBVIOUS

LEMMA WriteBytePreserved ==
  ASSUME InProgress, WriteByte
  PROVE  Types' /\ Uart' /\ kind' = kind
  <1> DEFINE j == Jobs[job]
             n == TransferLen(j)
  <1>1. /\ pc = "write" /\ UNCHANGED <<kind, scratch, job, host, pos>>
    BY DEF WriteByte, hostVars
  <1>2. /\ Writing(j) /\ j.op = "WRITE" /\ n \in Nat /\ j.addr \in Nat /\ pos \in 0 .. n
        /\ host \in Transfers /\ (host = "ack" => pos = 0) /\ (host = "eot" => pos = n)
        /\ Acks \in {0, 1} /\ (host = "ack" => Acks = 1) /\ Len(tx) \in Nat
        /\ rx \in Seq(Tokens) /\ tx \in Seq(Tokens)
        /\ (host = "ack" /\ tx # <<>> => tx[1] = Byte("ACK")) /\ Acks' = Acks
    BY <1>1, TransferFacts DEF Transfer, Acks
  <1>3. /\ cmd.len \in n - pos .. n /\ cmd.addr = j.addr + (n - cmd.len)
        /\ Len(rx) = pos - (n - cmd.len) /\ Len(tx) = Acks
        /\ \A k \in 1 .. Len(rx) : rx[k] = Byte(j.data[(n - cmd.len) + k])
        /\ Loaded(j.addr .. cmd.addr - 1)
    BY <1>1, <1>2 DEF Writing, Header
  <1> HIDE DEF n
  <1>4. CASE cmd.len > 0
    <2>1. /\ Len(rx) >= 1 /\ rx' = SubSeq(rx, 1 + 1, Len(rx)) /\ UNCHANGED <<pc, tx>>
          /\ mem' = [mem EXCEPT ![cmd.addr] = Head(rx)[2]]
          /\ cmd' = [addr |-> cmd.addr + 1, len |-> cmd.len - 1]
      BY <1>2, <1>3, <1>4 DEF WriteByte, uart_read, uart_read_str
    <2>2. /\ cmd.len \in 1 .. n /\ cmd.len - 1 \in n - pos .. n
          /\ cmd.addr \in Addresses(j) /\ 1 \in 1 .. Len(rx) /\ (n - cmd.len) + 1 \in 1 .. n
          /\ j.addr + ((n - cmd.len) + 1) - 1 = cmd.addr
          /\ cmd.addr + 1 = j.addr + (n - (cmd.len - 1)) /\ (cmd.addr + 1) - 1 = cmd.addr
          /\ Len(rx) - 1 = pos - (n - (cmd.len - 1))
          /\ \A k \in 1 .. Len(rx) - 1 :
               1 + k \in 1 .. Len(rx) /\ (n - cmd.len) + (1 + k) = (n - (cmd.len - 1)) + k
          /\ \A b \in j.addr .. cmd.addr :
               b # cmd.addr => b \in j.addr .. cmd.addr - 1 /\ b \in Addresses(j)
      <3>1. Addresses(j) = j.addr .. j.addr + n - 1
        BY DEF Addresses, n
      <3> DEFINE a == j.addr
                 l == cmd.len
                 c == cmd.addr
                 r == Len(rx)
      <3>2. n \in Nat /\ a \in Nat /\ pos \in 0 .. n /\ l \in n - pos .. n /\ l > 0
            /\ c = a + (n - l) /\ r = pos - (n - l) /\ r >= 1
        BY <1>2, <1>3, <1>4, <2>1
      <3> HIDE DEF a, l, c, r
      <3>3. /\ l \in 1 .. n /\ l - 1 \in n - pos .. n /\ c \in a .. a + n - 1 /\ 1 \in 1 .. r
            /\ (n - l) + 1 \in 1 .. n /\ a + ((n - l) + 1) - 1 = c
            /\ c + 1 = a + (n - (l - 1)) /\ r - 1 = pos - (n - (l - 1)) /\ (c + 1) - 1 = c
            /\ \A k \in 1 .. r - 1 :
                 1 + k \in 1 .. r /\ (n - l) + (1 + k) = (n - (l - 1)) + k
            /\ \A b \in a .. c : b # c => b \in a .. c - 1 /\ b \in a .. a + n - 1
        BY <3>2, NextStored
      <3> QED
        BY <3>1, <3>3, Zenon DEF a, l, c, r
    <2>3. Head(rx)[2] = Image[cmd.addr] /\ cmd.addr \in DOMAIN mem
      <3>1. Head(rx) = rx[1] /\ rx[1] = Byte(j.data[(n - cmd.len) + 1])
        BY <1>2, <1>3, <2>1, <2>2, TailIs
      <3>2. j.data[(n - cmd.len) + 1] = Image[j.addr + ((n - cmd.len) + 1) - 1]
        BY <1>2, <2>2, TransferFacts, JobFacts DEF n
      <3> QED
        BY <2>2, <3>1, <3>2, TransferFacts DEF Byte
    <2>4. /\ DOMAIN mem' = DOMAIN mem /\ mem' = [a \in DOMAIN mem' |-> mem'[a]]
          /\ mem'[cmd.addr] = Image[cmd.addr]
          /\ \A a \in DOMAIN mem : a # cmd.addr => mem'[a] = mem[a]
      BY <2>1, <2>3
    <2>5. /\ rx' \in Seq(Tokens) /\ Len(rx') = Len(rx) - 1
          /\ \A k \in 1 .. Len(rx) - 1 : rx'[k] = rx[1 + k]
      <3>1. rx \in Seq(Tokens) /\ 1 \in Nat /\ 1 <= Len(rx)
        BY <1>2, <2>1
      <3> QED
        BY <2>1, <3>1, Rest
    <2>6. /\ cmd'.len = cmd.len - 1 /\ cmd'.addr = cmd.addr + 1
          /\ \A k \in 1 .. Len(rx) - 1 : rx'[k] = Byte(j.data[(n - (cmd.len - 1)) + k])
      <3>1. ASSUME NEW k \in 1 .. Len(rx) - 1
            PROVE  rx'[k] = Byte(j.data[(n - (cmd.len - 1)) + k])
        <4>1. rx'[k] = rx[1 + k] /\ rx[1 + k] = Byte(j.data[(n - cmd.len) + (1 + k)])
          BY <1>3, <2>2, <2>5, Zenon
        <4>2. (n - cmd.len) + (1 + k) = (n - (cmd.len - 1)) + k
          BY <2>2, Zenon
        <4> QED
          BY <4>1, <4>2, Zenon
      <3> QED
        BY <2>1, <3>1
    <2>7. Loaded(j.addr .. cmd.addr - 1)'
      <3>1. ASSUME NEW a \in j.addr .. cmd.addr PROVE mem'[a] = Image[a]
        <4>1. CASE a = cmd.addr
          BY <2>4, <4>1
        <4>2. CASE a # cmd.addr
          <5>1. a \in j.addr .. cmd.addr - 1 /\ a \in DOMAIN mem
            BY <2>2, <4>2, TransferFacts
          <5> QED
            BY <1>3, <2>4, <4>2, <5>1 DEF Loaded
        <4> QED
          BY <4>1, <4>2
      <3>2. j.addr .. cmd'.addr - 1 = j.addr .. cmd.addr
        BY <2>2, <2>6, Zenon
      <3>3. Jobs[job]' = Jobs[job]
        BY <1>1
      <3> QED
        BY <3>1, <3>2, <3>3 DEF Loaded
    <2>8. Writing(j)'
      <3>1. /\ cmd'.len \in n - pos .. n /\ cmd'.addr = j.addr + (n - cmd'.len)
            /\ Len(rx') = pos - (n - cmd'.len) /\ Len(tx') = Acks'
            /\ \A k \in 1 .. Len(rx') : rx'[k] = Byte(j.data[(n - cmd'.len) + k])
        BY <1>2, <1>3, <2>1, <2>2, <2>5, <2>6, Zenon
      <3> QED
        BY <1>1, <2>1, <2>7, <3>1 DEF Writing, n
    <2>9. Transfer(Jobs[job])'
      BY <1>1, <1>2, <2>1, <2>8 DEF Transfer, n
    <2>10. \A a \in DOMAIN mem : mem'[a] = mem[a] \/ mem'[a] = Image[a]
      BY <2>4
    <2> QED
      BY <1>1, <1>2, <2>1, <2>4, <2>5, <2>9, <2>10, StoreKept
  <1>5. CASE cmd.len = 0
    <2>1. tx' = tx \o <<Byte("EOT")>> /\ pc' = "cmd" /\ UNCHANGED <<cmd, mem, rx>>
      BY <1>5 DEF WriteByte, uart_write, uart_write_str
    <2>2. pos = n /\ rx = <<>> /\ cmd.addr = j.addr + n
      <3>1. pos = n /\ Len(rx) = 0 /\ cmd.addr = j.addr + n
        BY <1>2, <1>3, <1>5
      <3> QED
        BY <1>2, <3>1, Empty
    <2>3. host = "ack" => tx # <<>>
      <3>1. host = "ack" => Len(tx) = 1
        BY <1>2, <1>3
      <3>2. tx \in Seq(Tokens)
        BY <1>2
      <3> QED
        BY <3>1, <3>2, Empty
    <2>4. /\ tx' \in Seq(Tokens) /\ Len(tx') = Len(tx) + 1 /\ tx'[Len(tx')] = Byte("EOT")
          /\ host' = "ack" /\ tx' # <<>> => tx'[1] = Byte("ACK")
      BY <1>1, <2>1, <2>3, IsToken, AckStays
    <2>5. Loaded(Addresses(j))'
      <3>1. Addresses(j) = j.addr .. cmd.addr - 1
        <4>1. Addresses(j) = j.addr .. j.addr + n - 1
          BY DEF Addresses, n
        <4>2. (j.addr + n) - 1 = j.addr + n - 1
          BY <1>2
        <4> QED
          BY <2>2, <4>1, <4>2, Zenon
      <3>2. Loaded(Addresses(j))
        BY <1>3, <3>1, Zenon
      <3> QED
        BY <1>1, <2>1, <3>2 DEF Loaded, Addresses, TransferLen
    <2>6. Writing(j)'
      BY <1>1, <1>2, <1>3, <2>1, <2>2, <2>4, <2>5 DEF Writing, n
    <2>7. Transfer(Jobs[job])'
      BY <1>1, <1>2, <2>4, <2>6 DEF Transfer, n
    <2> QED
      BY <1>1, <1>2, <2>1, <2>4, <2>7, TransferKept
  <1> QED
    BY <1>2, <1>3, <1>4, <1>5

\* The host sends a byte, or finds that it has sent or received all of them.
LEMMA SendPreserved ==
  ASSUME InProgress, UartSendByte \/ UartDataDone
  PROVE  Types' /\ Uart' /\ kind' = kind
  <1> DEFINE j == Jobs[job]
             n == TransferLen(j)
  <1>1. /\ host = "data" /\ UNCHANGED <<kind, pc, cmd, scratch, mem, tx, job>>
        /\ pc \in {"cmd", "read", "write"} /\ tx \in Seq(Tokens) /\ rx \in Seq(Tokens)
        /\ j.op \in {"READ", "WRITE"} /\ n \in Nat /\ pos \in 0 .. n
        /\ Len(rx) \in Nat /\ Len(tx) \in Nat
    BY TransferFacts DEF UartSendByte, UartDataDone, HostSend, hartVars, Transfer
  <1>2. /\ j.op = "READ" => Reading(j) /\ ~Header(j)
        /\ j.op = "WRITE" => Writing(j) /\ ~Header(j)
    BY <1>1, TransferFacts DEF Transfer, Header
  <1>3. CASE UartSendByte
    <2>1. /\ j.op = "WRITE" /\ pos < n /\ rx' = rx \o <<Byte(j.data[pos + 1])>>
          /\ host' = "data" /\ pos' = pos + 1
      BY <1>3 DEF UartSendByte, HostSend
    <2>2. /\ pc = "write" /\ cmd.len \in n - pos .. n
          /\ cmd.addr = j.addr + (n - cmd.len)
          /\ Len(rx) = pos - (n - cmd.len) /\ Len(tx) = Acks
          /\ \A k \in 1 .. Len(rx) : rx[k] = Byte(j.data[(n - cmd.len) + k])
          /\ Loaded(j.addr .. cmd.addr - 1)
      BY <1>1, <1>2, <2>1 DEF Writing
    <2>3. Byte(j.data[pos + 1]) \in Tokens
      <3>1. /\ pos + 1 \in 1 .. n /\ j.addr \in Nat
            /\ j.addr + (pos + 1) - 1 \in j.addr .. j.addr + n - 1
        BY <1>1, <2>1, TransferFacts
      <3>2. /\ j.data[pos + 1] = Image[j.addr + (pos + 1) - 1]
            /\ j.addr + (pos + 1) - 1 \in DOMAIN Image
        BY <2>1, <3>1, TransferFacts, JobFacts DEF Addresses
      <3> QED
        BY <3>2, IsToken
    <2> HIDE DEF n
    <2>4. /\ rx' \in Seq(Tokens) /\ Len(rx') = Len(rx) + 1
          /\ \A k \in 1 .. Len(rx) : rx'[k] = rx[k]
          /\ rx'[Len(rx) + 1] = Byte(j.data[pos + 1])
      BY <1>1, <2>1, <2>3, Added
    <2>5. /\ cmd.len \in n - (pos + 1) .. n /\ Len(rx) + 1 = (pos + 1) - (n - cmd.len)
          /\ (n - cmd.len) + (Len(rx) + 1) = pos + 1 /\ pos + 1 \in 0 .. n
      BY <1>1, <2>1, <2>2
    <2>6. \A k \in 1 .. Len(rx) + 1 : rx'[k] = Byte(j.data[(n - cmd.len) + k])
      <3>1. ASSUME NEW k \in 1 .. Len(rx) + 1 PROVE rx'[k] = Byte(j.data[(n - cmd.len) + k])
        <4>1. k \in 1 .. Len(rx) \/ k = Len(rx) + 1
          BY <1>1
        <4> QED
          BY <2>2, <2>4, <2>5, <4>1, Zenon
      <3> QED
        BY <3>1
    <2>7. Writing(j)'
      <3>1. Acks' = Acks
        BY <1>1, <2>1 DEF Acks
      <3>2. Loaded(j.addr .. cmd.addr - 1)'
        BY <1>1, <2>2 DEF Loaded
      <3> QED
        BY <1>1, <2>1, <2>2, <2>4, <2>5, <2>6, <3>1, <3>2 DEF Writing, n
    <2>8. Transfer(Jobs[job])'
      BY <1>1, <2>1, <2>5, <2>7 DEF Transfer, n
    <2> QED
      BY <1>1, <2>1, <2>4, <2>8, TransferKept DEF Transfers
  <1>4. CASE UartDataDone
    <2>1. pos = n /\ host' = "eot" /\ UNCHANGED <<rx, pos>> /\ Acks' = Acks
      BY <1>1, <1>4 DEF UartDataDone, Acks
    <2>2. /\ j.op = "READ" => Reading(j)'
          /\ j.op = "WRITE" => Writing(j)'
      BY <1>1, <1>2, <2>1 DEF Reading, Writing, Loaded
    <2>3. Transfer(Jobs[job])'
      BY <1>1, <2>1, <2>2 DEF Transfer
    <2> QED
      BY <1>1, <2>1, <2>3, TransferKept DEF Transfers
  <1> QED
    BY <1>3, <1>4

\* The host takes the acknowledgement, or a byte of a READ.
LEMMA TakePreserved ==
  ASSUME InProgress, UartAck \/ UartReadByte
  PROVE  Types' /\ Uart' /\ kind' = kind
  <1> DEFINE j == Jobs[job]
             n == TransferLen(j)
  <1>1. /\ UNCHANGED <<kind, pc, cmd, scratch, mem, rx, job>> /\ tx # <<>> /\ tx' = Tail(tx)
        /\ pc \in {"cmd", "read", "write"} /\ tx \in Seq(Tokens) /\ rx \in Seq(Tokens)
        /\ j.op \in {"READ", "WRITE"} /\ n \in Nat /\ pos \in 0 .. n /\ host' = "data"
        /\ \/ host = "ack" /\ pos = 0 /\ pos' = pos /\ Acks = 1
           \/ host = "data" /\ j.op = "READ" /\ pos < n /\ pos' = pos + 1 /\ Acks = 0
    BY TransferFacts DEF UartAck, UartReadByte, Expect, HostTake, hartVars, Transfer, Transfers, Acks
  <1>2. /\ Len(tx) \in Nat \ {0} /\ tx' \in Seq(Tokens) /\ Len(tx') = Len(tx) - 1
        /\ \A k \in 1 .. Len(tx) - 1 : tx'[k] = tx[k + 1]
    BY <1>1, TailIs
  <1>3. /\ j.op = "READ" => Reading(j) /\ ~Header(j)
        /\ j.op = "WRITE" => Writing(j) /\ ~Header(j)
    BY <1>1, TransferFacts DEF Transfer, Header
  <1> HIDE DEF n
  <1>4. pos' \in 0 .. n /\ Acks' = 0 /\ Acks' - pos' = (Acks - pos) - 1
    BY <1>1 DEF Acks
  <1>5. ASSUME Len(tx) >= 2 PROVE tx'[Len(tx')] = tx[Len(tx)]
    <2>1. Len(tx) - 1 \in 1 .. Len(tx) - 1 /\ (Len(tx) - 1) + 1 = Len(tx)
      BY <1>2, <1>5
    <2> QED
      BY <1>2, <2>1
  <1>6. ASSUME j.op = "READ" PROVE Reading(j)'
    <2>1. CASE pc = "read"
      <3>1. /\ rx = <<>> /\ cmd.len \in 0 .. n /\ cmd.addr = j.addr + (n - cmd.len)
            /\ Len(tx) = Acks + (n - cmd.len) - pos
        BY <1>3, <1>6, <2>1 DEF Reading, n
      <3>2. Len(tx') = Acks' + (n - cmd.len) - pos'
        BY <1>1, <1>2, <1>4, <3>1
      <3> QED
        BY <1>1, <2>1, <3>1, <3>2 DEF Reading, n
    <2>2. CASE pc # "read"
      <3>1. pc = "cmd" /\ rx = <<>> /\ Len(tx) = Acks + n - pos + 1 /\ tx[Len(tx)] = Byte("EOT")
        BY <1>3, <1>6, <2>2 DEF Reading, n
      <3>2. Len(tx) >= 2 /\ Len(tx') = Acks' + n - pos' + 1
        BY <1>1, <1>2, <1>4, <3>1
      <3> QED
        BY <1>1, <1>5, <3>1, <3>2 DEF Reading, n
    <2> QED
      BY <2>1, <2>2
  <1>7. ASSUME j.op = "WRITE" PROVE Writing(j)'
    <2>1. host = "ack" /\ pos = 0 /\ pos' = pos /\ Acks = 1
      BY <1>1, <1>7
    <2>2. CASE pc = "write"
      <3>1. /\ cmd.len \in n - pos .. n /\ cmd.addr = j.addr + (n - cmd.len)
            /\ Len(rx) = pos - (n - cmd.len) /\ Len(tx) = Acks
            /\ \A k \in 1 .. Len(rx) : rx[k] = Byte(j.data[(n - cmd.len) + k])
            /\ Loaded(j.addr .. cmd.addr - 1)
        BY <1>3, <1>7, <2>2 DEF Writing, n
      <3>2. Loaded(j.addr .. cmd.addr - 1)' /\ Len(tx') = Acks'
        BY <1>1, <1>2, <1>4, <2>1, <3>1 DEF Loaded
      <3> QED
        BY <1>1, <2>1, <2>2, <3>1, <3>2 DEF Writing, n
    <2>3. CASE pc # "write"
      <3>1. /\ pc = "cmd" /\ rx = <<>> /\ pos = n /\ Len(tx) = Acks + 1
            /\ tx[Len(tx)] = Byte("EOT") /\ Loaded(Addresses(j))
        BY <1>3, <1>7, <2>3 DEF Writing, n
      <3>2. Loaded(Addresses(j))'
        BY <1>1, <3>1 DEF Loaded, Addresses, TransferLen
      <3>3. Len(tx) >= 2 /\ Len(tx') = Acks' + 1
        BY <1>1, <1>2, <1>4, <2>1, <3>1
      <3> QED
        BY <1>1, <1>5, <2>1, <3>1, <3>2, <3>3 DEF Writing, n
    <2> QED
      BY <2>2, <2>3
  <1>8. Transfer(Jobs[job])'
    BY <1>1, <1>4, <1>6, <1>7 DEF Transfer, n
  <1> QED
    BY <1>1, <1>2, <1>8, TransferKept DEF Transfers

\* The transfer ends, and with it the image is stored a little further.
LEMMA EotPreserved ==
  ASSUME InProgress, UartEot
  PROVE  Types' /\ Uart' /\ kind' = kind
  <1> DEFINE j == Jobs[job]
             n == TransferLen(j)
  <1>1. /\ host = "eot" /\ host' = "job" /\ tx # <<>> /\ tx' = Tail(tx) /\ job' = job + 1
        /\ UNCHANGED <<kind, pc, scratch, mem, rx>>
    BY DEF UartEot, Expect, HostTake, hartVars
  <1>2. /\ job \in 1 .. Len(Jobs) /\ j.op \in {"READ", "WRITE"} /\ n \in Nat /\ pos = n /\ Acks = 0
        /\ tx \in Seq(Tokens) /\ rx \in Seq(Tokens) /\ Len(tx) \in Nat \ {0}
        /\ UartTypes /\ StoredSoFar
    BY <1>1, TransferFacts, TailIs DEF Transfer, Acks, InProgress, Uart
  <1>3. /\ j.op = "READ" => Reading(j) /\ ~Header(j)
        /\ j.op = "WRITE" => Writing(j) /\ ~Header(j)
    BY <1>1, TransferFacts DEF Transfer, Header
  <1> HIDE DEF n
  <1>4. /\ pc = "cmd" /\ rx = <<>> /\ Len(tx) = 1
        /\ j.op = "WRITE" => Loaded(Addresses(j))
    <2>1. CASE j.op = "READ"
      <3>1. pc = "cmd" /\ rx = <<>> /\ Len(tx) = Acks + n - pos + 1
        BY <1>2, <1>3, <2>1 DEF Reading, n
      <3> QED
        BY <1>2, <2>1, <3>1
    <2>2. CASE j.op = "WRITE"
      BY <1>2, <1>3, <2>2 DEF Writing, n
    <2> QED
      BY <1>2, <2>1, <2>2
  <1>5. tx' = <<>> /\ tx' \in Seq(Tokens)
    BY <1>1, <1>2, <1>4, TailIs, Empty
  <1>6. job' \in 1 .. Len(Jobs) + 1
    BY <1>1, <1>2, PassiveAssumption
  <1>7. ASSUME NEW i \in 1 .. job' - 1, Jobs[i].op = "WRITE" PROVE Loaded(Addresses(Jobs[i]))
    <2>1. CASE i = job
      BY <1>4, <1>7, <2>1
    <2>2. CASE i # job
      <3>1. i \in 1 .. job - 1 /\ host \notin After
        BY <1>1, <1>2, <2>2 DEF After
      <3> QED
        BY <1>2, <1>7, <3>1 DEF StoredSoFar
    <2> QED
      BY <2>1, <2>2
  <1>8. UartTypes'
    BY <1>1, <1>2, <1>4, <1>5, <1>6 DEF UartTypes
  <1>9. Beginning' /\ InTransfer' /\ Launched'
    BY <1>1, <1>4, <1>5 DEF Beginning, InTransfer, Launched, Setup, Transfers, After
  <1>10. StoredSoFar'
    BY <1>1, <1>7 DEF StoredSoFar, Loaded
  <1> QED
    BY <1>1, <1>8, <1>9, <1>10 DEF Uart, InProgress, Types

LEMMA TransferSteps ==
  ASSUME InProgress, Next
  PROVE  \/ ServeRead \/ ServeWrite \/ ReadByte \/ WriteByte
         \/ UartSendByte \/ UartDataDone \/ UartAck \/ UartReadByte \/ UartEot
  <1>1. /\ host \in Transfers /\ pc \in {"cmd", "read", "write"} /\ rx \in Seq(Tokens)
        /\ kind \in {"uart", "early"}
        /\ pc = "cmd" => rx = <<>> \/ Header(Jobs[job])
        /\ Jobs[job].op \in {"READ", "WRITE"}
    BY TransferFacts DEF InProgress
  <1>2. ~(ServeExec \/ ServeUnknown)
    <2>1. CASE rx = <<>>
      BY <2>1, NothingToRead
    <2>2. CASE pc = "cmd" /\ rx # <<>>
      <3>1. Head(rx) = Byte(Jobs[job].op)
        BY <1>1, <2>2, TailIs DEF Header
      <3> QED
        BY <1>1, <3>1 DEF ServeExec, ServeUnknown, Byte
    <2> QED
      BY <2>1, <2>2 DEF ServeExec, ServeUnknown
  <1>3. ~(InitUart \/ PollScratch \/ PollUart \/ Claim \/ ServeAck \/ ReportReturn \/ Returns
          \/ ProgramInits \/ \E b \in PrintBytes : ProgramPrints(b))
    BY <1>1 DEF InitUart, PollScratch, PollUart, Claim, ServeAck, ReportReturn, Returns,
       ProgramExit, ProgramReturns, ProgramInits, ProgramPrints
  <1>4. ~(SlinkLoad \/ SlinkLaunch \/ PollExit \/ JtagHalt \/ JtagLoad \/ JtagResume
          \/ UartChallenge \/ UartHeader \/ UartExec \/ UartEoc \/ UartPrint \/ UartReturn
          \/ \E b \in TypedBytes : TerminalType(b))
    BY <1>1 DEF SlinkLoad, SlinkLaunch, SlinkScratch, PollExit, JtagHalt, JtagLoad, JtagResume,
       UartChallenge, UartHeader, UartExec, UartEoc, UartPrint, UartReturn, Expect, TerminalType,
       Transfers
  <1> QED
    BY <1>2, <1>3, <1>4 DEF Next, Hart, Host

LEMMA TransferPreserved ==
  ASSUME InProgress, Next
  PROVE  Types' /\ Uart' /\ kind' = kind
  BY TransferSteps, ServeTransferPreserved, ReadBytePreserved, WriteBytePreserved, SendPreserved,
     TakePreserved, EotPreserved

-----------------------------------------------------------------------------
(* The UART hosts: from the EXEC command to the exit code.                 *)

Returning == /\ Types /\ kind \in {"uart", "early"} /\ Uart /\ host \in After
             /\ via = "uart" /\ entry = Entry /\ (pc # "run" => ret \in Rets) /\ Output

LEMMA OutputKept ==
  ASSUME UartTypes, host \in After, mem = Image, Types',
         UNCHANGED <<kind, mem, job>>, rx' \in Seq(Tokens), tx' \in Seq(Tokens),
         host' \in After, pc' = "run" => scratch'[2] = 0,
         via' = "uart", entry' = Entry, pc' # "run" => ret' \in Rets, Output'
  PROVE  Types' /\ Uart' /\ kind' = kind
  <1>1. host' \notin Setup \union {"job"} \union Transfers /\ pc' \in {"run", "eoc", "exited"}
    BY DEF After, Setup, Transfers, Output
  <1>2. UartTypes'
    BY <1>1 DEF UartTypes
  <1>3. Beginning' /\ InTransfer' /\ StoredSoFar'
    BY <1>1 DEF Beginning, InTransfer, StoredSoFar, Setup
  <1>4. Launched'
    BY DEF Launched
  <1> QED
    BY <1>2, <1>3, <1>4 DEF Uart

LEMMA ReturningFacts ==
  ASSUME Types, kind \in {"uart", "early"}, Uart, host \in After
  PROVE  /\ UartTypes /\ mem = Image /\ rx \in Seq(Tokens) /\ tx \in Seq(Tokens)
         /\ Len(tx) \in Nat /\ Len(rx) \in Nat
         /\ (tx = <<>> <=> Len(tx) = 0) /\ (pc = "run" => scratch[2] = 0)
         /\ Launch \/ Returning
  <1>1. UartTypes /\ Launched
    BY DEF Uart
  <1>2. rx \in Seq(Tokens) /\ tx \in Seq(Tokens) /\ (pc = "run" => scratch[2] = 0)
    BY <1>1 DEF UartTypes
  <1>3. Len(tx) \in Nat /\ Len(rx) \in Nat /\ (tx = <<>> <=> Len(tx) = 0)
    BY <1>2, Empty
  <1>4. mem = Image /\ (Launch \/ Returning)
    BY <1>1 DEF Launched, Returning
  <1> QED
    BY <1>1, <1>2, <1>3, <1>4

LEMMA LaunchSteps ==
  ASSUME Types, kind \in {"uart", "early"}, Uart, host \in After, Launch, Next
  PROVE  ServeExec
  <1>1. /\ pc = "cmd" /\ host = "ackx" /\ Len(rx) = 2 /\ tx = <<>> /\ rx \in Seq(Tokens)
        /\ Head(rx) = Byte("EXEC") /\ rx[2] = Word(Entry)
    BY ReturningFacts, TailIs, Empty DEF Launch
  <1>2. ~(\/ InitUart \/ PollScratch \/ PollUart \/ Claim \/ ServeAck \/ ServeRead \/ ServeWrite
          \/ ReadByte \/ WriteByte \/ ServeUnknown \/ ReportReturn \/ Returns
          \/ ProgramInits \/ \E b \in PrintBytes : ProgramPrints(b))
    BY <1>1 DEF InitUart, PollScratch, PollUart, Claim, ServeAck, ServeRead, ServeWrite,
       ServeTransfer, ReadByte, WriteByte, ServeUnknown, ReportReturn, Returns, ProgramExit,
       ProgramReturns, ProgramInits, ProgramPrints, Byte
  <1>3. ~(Host \/ \E b \in TypedBytes : TerminalType(b))
    BY <1>1 DEF Host, SlinkLoad, SlinkLaunch, SlinkScratch, PollExit, JtagHalt, JtagLoad,
       JtagResume, UartChallenge, UartHeader, UartSendByte, UartDataDone, UartExec, UartAck,
       UartEot, UartReadByte, UartEoc, UartPrint, UartReturn, Expect, HostTake, TerminalType
  <1> QED
    BY <1>2, <1>3 DEF Next, Hart

LEMMA LaunchPreserved ==
  ASSUME Types, kind \in {"uart", "early"}, Uart, host \in After, Launch, Next
  PROVE  Types' /\ Uart' /\ kind' = kind
  <1>1. /\ pc = "cmd" /\ host = "ackx" /\ Len(rx) = 2 /\ tx = <<>> /\ rx \in Seq(Tokens)
        /\ Head(rx) = Byte("EXEC") /\ rx[2] = Word(Entry)
    BY ReturningFacts, TailIs, Empty DEF Launch
  <1>2. CASE ServeExec
    <2>1. /\ entry' = Entry /\ via' = "uart" /\ pc' = "run" /\ tx' = tx \o <<Byte("ACK")>>
          /\ rx' = SubSeq(rx, 2 + 1, Len(rx)) /\ UNCHANGED <<kind, scratch, mem, job, host>>
      BY <1>1, <1>2 DEF ServeExec, uart_read_str, uart_write, uart_write_str, hostVars, Word
    <2>2. rx' \in Seq(Tokens)
      <3>1. rx' = <<>>
        BY <1>1, <2>1, SubSeqEmpty
      <3> QED
        BY <3>1
    <2>3. tx' \in Seq(Tokens) /\ Len(tx') = 1 /\ tx'[1] = Byte("ACK")
      BY <1>1, <2>1, IsToken
    <2>4. Output'
      BY <1>1, <2>1, <2>3 DEF Output, Byte
    <2>5. scratch[2] = 0
      BY <1>1 DEF Uart, UartTypes
    <2> QED
      BY <1>1, <2>1, <2>2, <2>3, <2>4, <2>5, ReturningFacts, OutputKept DEF Types
  <1> QED
    BY <1>2, LaunchSteps

\* Steps of the hart once the program was started.
LEMMA ProgramPreserved ==
  ASSUME Returning, Hart \/ Returns \/ ProgramInits \/ \E b \in PrintBytes : ProgramPrints(b)
  PROVE  Types' /\ Uart' /\ kind' = kind
  <1>1. /\ UartTypes /\ mem = Image /\ rx \in Seq(Tokens) /\ tx \in Seq(Tokens) /\ Len(tx) \in Nat
        /\ (pc = "run" => scratch[2] = 0)
    BY ReturningFacts DEF Returning
  <1>2. /\ pc \in {"run", "eoc", "exited"} /\ host \in After /\ via = "uart" /\ entry = Entry
        /\ (pc # "run" => ret \in Rets) /\ Types
        /\ pc \in {"run", "eoc"} => /\ host \in {"ackx", "wait_eoc"}
                                  /\ \A k \in 1 .. Len(tx) : tx[k] # Byte("EOC")
    BY DEF Returning, Output
  <1>3. ASSUME pc' \in {"run", "eoc"}, pc \in {"run", "eoc"}, UNCHANGED host,
               \A k \in 1 .. Len(tx') : tx'[k] # Byte("EOC")
        PROVE  Output'
    BY <1>2, <1>3 DEF Output
  <1>4. CASE ReportReturn
    <2>1. /\ pc = "eoc" /\ pc' = "exited" /\ tx' = tx \o <<Byte("EOC"), Word(ret)>>
          /\ scratch' = [scratch EXCEPT ![2] = ExitReg(ret)]
          /\ UNCHANGED <<kind, via, entry, ret, mem, rx, job, host>>
      BY <1>4 DEF ReportReturn, uart_write_str, hostVars
    <2>2. Byte("EOC") \in Tokens /\ Word(ret) \in Tokens
      BY <1>2, <2>1, IsToken
    <2>3. /\ tx' \in Seq(Tokens) /\ Len(tx') = Len(tx) + 2
          /\ \A k \in 1 .. Len(tx) : tx'[k] = tx[k]
          /\ tx'[Len(tx) + 1] = Byte("EOC") /\ tx'[Len(tx) + 2] = Word(ret)
      BY <1>1, <2>1, <2>2
    <2>4. Len(tx') - 1 = Len(tx) + 1 /\ Len(tx') - 2 = Len(tx) /\ Len(tx') >= 2
      BY <1>1, <2>3
    <2>5. Output'
      <3>1. \A k \in 1 .. Len(tx') - 2 : tx'[k] # Byte("EOC")
        BY <1>2, <2>1, <2>3, <2>4
      <3> QED
        BY <1>2, <2>1, <2>3, <2>4, <3>1 DEF Output
    <2>6. Types'
      BY <1>2, <2>1 DEF Types
    <2> QED
      BY <1>1, <1>2, <2>1, <2>3, <2>5, <2>6, OutputKept
  <1>5. CASE Returns
    <2>1. /\ pc = "run" /\ ret' \in Rets /\ pc' = "eoc" /\ Types'
          /\ UNCHANGED <<kind, via, entry, mem, rx, tx, host, job>>
      BY <1>2, <1>5, ReturnStep DEF ReturnPlaces
    <2>2. Output'
      BY <1>2, <1>3, <2>1
    <2> QED
      BY <1>1, <1>2, <2>1, <2>2, OutputKept
  <1>6. CASE ProgramInits
    <2>1. /\ pc = "run" /\ rx' = <<>> /\ UNCHANGED <<kind, pc, via, entry, ret, scratch, mem, host, job>>
      BY <1>6 DEF ProgramInits, uart_init, hostVars
    <2>2. PICK n \in 0 .. Len(tx) : tx' = SubSeq(tx, 1, n)
      BY <1>6 DEF ProgramInits, uart_init
    <2>3. tx' \in Seq(Tokens) /\ \A k \in 1 .. Len(tx') : k \in 1 .. Len(tx) /\ tx'[k] = tx[k]
      BY <1>1, <2>2
    <2>4. Output'
      BY <1>2, <1>3, <2>1, <2>3
    <2>5. rx' \in Seq(Tokens)
      BY <2>1
    <2> QED
      BY <1>1, <1>2, <2>1, <2>3, <2>4, <2>5, OutputKept DEF Types
  <1>7. ASSUME NEW b \in PrintBytes, ProgramPrints(b) PROVE Types' /\ Uart' /\ kind' = kind
    <2>1. /\ pc = "run" /\ tx' = tx \o <<Byte(b)>>
          /\ UNCHANGED <<kind, pc, via, entry, ret, scratch, mem, rx, host, job>>
      BY <1>7 DEF ProgramPrints, uart_write, uart_write_str, hostVars
    <2>2. /\ tx' \in Seq(Tokens) /\ Len(tx') = Len(tx) + 1
          /\ \A k \in 1 .. Len(tx) : tx'[k] = tx[k]
          /\ tx'[Len(tx) + 1] = Byte(b)
      <3>1. Byte(b) \in Tokens
        BY IsToken
      <3> QED
        BY <1>1, <2>1, <3>1, Added
    <2>3. Byte(b) # Byte("EOC")
      BY PassiveAssumption DEF Byte
    <2>4. \A k \in 1 .. Len(tx') : tx'[k] # Byte("EOC")
      BY <1>1, <1>2, <2>1, <2>2, <2>3
    <2>5. Output'
      BY <1>2, <1>3, <2>1, <2>4
    <2> QED
      BY <1>1, <1>2, <2>1, <2>2, <2>5, OutputKept DEF Types
  <1>8. ~(\/ InitUart \/ PollScratch \/ PollUart \/ Claim \/ ServeAck \/ ServeRead \/ ServeWrite
          \/ ReadByte \/ WriteByte \/ ServeExec \/ ServeUnknown)
    BY <1>2 DEF InitUart, PollScratch, PollUart, Claim, ServeAck, ServeRead, ServeWrite,
       ServeTransfer, ReadByte, WriteByte, ServeExec, ServeUnknown
  <1> QED
    BY <1>4, <1>5, <1>6, <1>7, <1>8 DEF Hart

\* Steps of the host once the program was started.
LEMMA WaitPreserved ==
  ASSUME Returning, Host \/ \E b \in TypedBytes : TerminalType(b)
  PROVE  Types' /\ Uart' /\ kind' = kind
  <1>1. /\ UartTypes /\ mem = Image /\ rx \in Seq(Tokens) /\ tx \in Seq(Tokens) /\ Len(tx) \in Nat
        /\ (pc = "run" => scratch[2] = 0)
    BY ReturningFacts DEF Returning
  <1>2. /\ pc \in {"run", "eoc", "exited"} /\ host \in After /\ via = "uart" /\ entry = Entry
        /\ (pc # "run" => ret \in Rets) /\ Types /\ Output /\ kind \in {"uart", "early"}
    BY DEF Returning, Output
  <1>3. ASSUME UNCHANGED <<kind, pc, via, entry, ret, scratch, mem, rx, job>>,
               tx # <<>>, tx' = Tail(tx), host' \in After, Output'
        PROVE  Types' /\ Uart' /\ kind' = kind
    <2>1. tx' \in Seq(Tokens)
      BY <1>1, <1>3, TailIs
    <2> QED
      BY <1>1, <1>2, <1>3, <2>1, OutputKept DEF Types
  <1>4. CASE UartAck \/ UartPrint
    <2>1. /\ UNCHANGED <<kind, pc, via, entry, ret, scratch, mem, rx, job>>
          /\ tx # <<>> /\ tx' = Tail(tx) /\ host \in {"ackx", "wait_eoc"} /\ host' = "wait_eoc"
          /\ Head(tx) # Byte("EOC")
      BY <1>2, <1>4 DEF UartAck, UartPrint, Expect, HostTake, hartVars, hostVars, After, Byte
    <2>2. /\ Len(tx) \in Nat \ {0} /\ Head(tx) = tx[1] /\ Len(tx') = Len(tx) - 1
          /\ \A k \in 1 .. Len(tx) - 1 : tx'[k] = tx[k + 1]
      BY <1>1, <2>1, TailIs
    <2>3. Output'
      <3>1. CASE pc \in {"run", "eoc"}
        <4>1. \A k \in 1 .. Len(tx') : tx'[k] # Byte("EOC")
          BY <1>2, <2>2, <3>1 DEF Output
        <4> QED
          BY <2>1, <3>1, <4>1 DEF Output
      <3>2. CASE pc = "exited"
        <4>1. /\ Len(tx) >= 2 /\ tx[Len(tx) - 1] = Byte("EOC") /\ tx[Len(tx)] = Word(ret)
              /\ \A k \in 1 .. Len(tx) - 2 : tx[k] # Byte("EOC")
          BY <1>2, <2>1, <3>2 DEF Output
        <4>2. Len(tx) >= 3
          BY <2>1, <2>2, <4>1
        <4>3. /\ Len(tx') >= 2 /\ tx'[Len(tx') - 1] = Byte("EOC") /\ tx'[Len(tx')] = Word(ret)
              /\ \A k \in 1 .. Len(tx') - 2 : tx'[k] # Byte("EOC")
          BY <2>2, <4>1, <4>2
        <4> QED
          BY <2>1, <3>2, <4>3 DEF Output
      <3> QED
        BY <1>2, <3>1, <3>2
    <2> QED
      BY <1>3, <2>1, <2>3 DEF After
  <1>5. CASE UartEoc
    <2>1. /\ UNCHANGED <<kind, pc, via, entry, ret, scratch, mem, rx, job>>
          /\ tx # <<>> /\ tx' = Tail(tx) /\ host = "wait_eoc" /\ host' = "ret"
          /\ Head(tx) = Byte("EOC")
      BY <1>5 DEF UartEoc, Expect, HostTake, hartVars
    <2>2. /\ Len(tx) \in Nat \ {0} /\ Head(tx) = tx[1] /\ Len(tx') = Len(tx) - 1
          /\ \A k \in 1 .. Len(tx) - 1 : tx'[k] = tx[k + 1]
      BY <1>1, <2>1, TailIs
    <2>3. pc = "exited" /\ Len(tx) = 2 /\ tx[2] = Word(ret)
      BY <1>2, <2>1, <2>2 DEF Output
    <2>4. Len(tx') = 1 /\ tx'[1] = Word(ret)
      BY <2>2, <2>3
    <2>5. pc' = "exited" /\ host' = "ret" /\ Word(ret)' = Word(ret)
      BY <2>1, <2>3 DEF Word
    <2>6. Output'
      BY <2>4, <2>5 DEF Output
    <2> QED
      BY <1>3, <2>1, <2>6 DEF After
  <1>6. CASE UartReturn
    <2>1. /\ UNCHANGED <<kind, pc, via, entry, ret, scratch, mem, rx, job>>
          /\ tx # <<>> /\ tx' = Tail(tx) /\ host = "ret" /\ host' = "done"
          /\ exit' = IF Head(tx)[1] = "word" THEN Head(tx)[2] ELSE Max32 - 1
      BY <1>6 DEF UartReturn, HostTake, hartVars
    <2>2. pc = "exited" /\ Head(tx) = Word(ret)
      BY <1>1, <1>2, <2>1, TailIs DEF Output
    <2>3. exit' = ret
      BY <2>1, <2>2 DEF Word
    <2>4. Output'
      BY <2>1, <2>2, <2>3 DEF Output
    <2> QED
      BY <1>3, <2>1, <2>4 DEF After
  <1>7. ~(\/ SlinkLoad \/ SlinkLaunch \/ PollExit \/ JtagHalt \/ JtagLoad \/ JtagResume
          \/ UartChallenge \/ UartHeader \/ UartSendByte \/ UartDataDone \/ UartExec
          \/ UartEot \/ UartReadByte \/ \E b \in TypedBytes : TerminalType(b))
    BY <1>2 DEF SlinkLoad, SlinkLaunch, SlinkScratch, PollExit, JtagHalt, JtagLoad, JtagResume,
       UartChallenge, UartHeader, UartSendByte, UartDataDone, UartExec, UartEot, UartReadByte,
       Expect, TerminalType, After
  <1> QED
    BY <1>4, <1>5, <1>6, <1>7 DEF Host

-----------------------------------------------------------------------------
(* The invariant.                                                          *)

LEMMA InitInv == Init => IInv
  <1> SUFFICES ASSUME Init PROVE IInv
    OBVIOUS
  <1>1. kind \in {"slink", "jtag", "uart", "early", "term"} /\ Types /\ scratch[2] = 0
    BY PassiveAssumption DEF Init, Types
  <1>2. Slink /\ Jtag
    BY <1>1 DEF Init, Slink, Jtag, Polling
  <1>3. rx \in Seq(Typed) /\ rx \in Seq(Tokens) /\ tx \in Seq(Tokens)
    BY DEF Init
  <1>4. Term
    BY <1>1, <1>3 DEF Init, Term, Polling
  <1>5. UartTypes
    <2>1. job \in 1 .. Len(Jobs) + 1
      BY PassiveAssumption DEF Init
    <2>2. DOMAIN mem = DOMAIN Image /\ \A a \in DOMAIN mem : mem[a] \in Bytes
      BY DEF Init, Bytes
    <2>3. mem = [a \in DOMAIN mem |-> mem[a]]
      BY DEF Init
    <2> QED
      BY <1>1, <1>3, <2>1, <2>2, <2>3 DEF Init, UartTypes, Setup
  <1>6. Beginning /\ InTransfer /\ StoredSoFar /\ Launched
    BY DEF Init, Beginning, InTransfer, StoredSoFar, Launched, Setup, Transfers, After, Polling
  <1> QED
    BY <1>1, <1>2, <1>4, <1>5, <1>6 DEF IInv, Uart

LEMMA NextInv ==
  ASSUME IInv, Next
  PROVE  IInv' /\ kind' = kind
  <1>1. CASE kind = "slink"
    BY <1>1, SlinkPreserved DEF IInv
  <1>2. CASE kind = "jtag"
    BY <1>2, JtagPreserved DEF IInv
  <1>3. CASE kind = "term"
    BY <1>3, TermPreserved DEF IInv
  <1>4. CASE kind \in {"uart", "early"}
    <2>1. Types /\ Uart /\ host \in Setup \union {"job"} \union Transfers \union After
      BY <1>4 DEF IInv, Uart, UartTypes
    <2>2. Types' /\ Uart' /\ kind' = kind
      <3>1. CASE host \in Setup
        BY <1>4, <2>1, <3>1, SetupPreserved
      <3>2. CASE host = "job"
        BY <1>4, <2>1, <3>2, JobPreserved
      <3>3. CASE host \in Transfers
        BY <1>4, <2>1, <3>3, TransferPreserved DEF InProgress
      <3>4. CASE host \in After
        <4>1. Launch \/ Returning
          BY <1>4, <2>1, <3>4, ReturningFacts
        <4> QED
          BY <1>4, <2>1, <3>4, <4>1, LaunchPreserved, ProgramPreserved, WaitPreserved DEF Next
      <3> QED
        BY <2>1, <3>1, <3>2, <3>3, <3>4
    <2> QED
      BY <1>4, <2>2 DEF IInv
  <1> QED
    BY <1>1, <1>2, <1>3, <1>4 DEF IInv

LEMMA Invariance == Spec => []IInv
  <1>1. IInv /\ UNCHANGED vars => IInv'
    <2> SUFFICES ASSUME IInv, UNCHANGED vars PROVE IInv'
      OBVIOUS
    <2>1. Types' /\ (Slink => Slink') /\ (Jtag => Jtag') /\ (Term => Term')
      BY DEF IInv, vars, hartVars, hostVars, Types, Slink, Jtag, Term, Exited, Reported
    <2>2. UartTypes => UartTypes'
      BY DEF vars, hartVars, hostVars, UartTypes
    <2>3. Beginning => Beginning'
      BY DEF vars, hartVars, hostVars, Beginning, Challenge
    <2>4. InTransfer => InTransfer'
      BY DEF vars, hartVars, hostVars, InTransfer, Transfer, Reading, Writing, Header, Acks, Loaded,
         TransferLen, Addresses
    <2>5. (StoredSoFar => StoredSoFar') /\ (Launched => Launched')
      BY DEF vars, hartVars, hostVars, StoredSoFar, Launched, Loaded, Launch, Output, TransferLen,
         Addresses
    <2> QED
      BY <2>1, <2>2, <2>3, <2>4, <2>5 DEF IInv, Uart, vars
  <1> QED
    BY <1>1, InitInv, NextInv, PTL DEF Spec

\* Whatever the preload path, its interleaving with the polling hart, the
\* program, its entry point, its return value and the transfers: hart 0 runs
\* nothing but the program the host asked for, and only when every byte of it is
\* in memory; except that it launches on its own after a program that a debugger
\* started returned an odd value (boot_passive, uart_debug_serve and the three
\* preload tasks).
THEOREM LaunchCorrect == Spec => []LaunchSound
  <1>1. ASSUME IInv PROVE LaunchSound
    <2> SUFFICES ASSUME pc = "run" PROVE mem = Image /\ (entry = Entry \/ OddReturn)
      BY DEF LaunchSound
    <2>1. CASE kind = "slink"
      BY <1>1, <2>1 DEF IInv, Slink, Polling
    <2>2. CASE kind = "jtag"
      BY <1>1, <2>2 DEF IInv, Jtag, Polling, OddReturn
    <2>3. CASE kind = "term"
      BY <1>1, <2>3 DEF IInv, Term, Polling
    <2>4. CASE kind \in {"uart", "early"}
      <3>1. Types /\ Uart /\ host \in Setup \union {"job"} \union Transfers \union After
        BY <1>1, <2>4 DEF IInv, Uart, UartTypes
      <3>2. host \notin Setup \union {"job"}
        BY <3>1 DEF Uart, Beginning, Challenge, Setup, Polling
      <3>3. host \notin Transfers
        BY <2>4, <3>1, TransferFacts DEF InProgress
      <3>4. host \in After => entry = Entry /\ mem = Image
        BY <2>4, <3>1, ReturningFacts DEF Launch, Returning
      <3> QED
        BY <3>1, <3>2, <3>3, <3>4
    <2> QED
      BY <1>1, <2>1, <2>2, <2>3, <2>4 DEF IInv
  <1> QED
    BY <1>1, Invariance, PTL

\* A host that ends reports the value the program returned: the whole word
\* over the UART, all but its top bit through the exit register, which is
\* read once the program has written it and before anything else does; an odd
\* value returned to a debugger included, if the host gets to see it
\* (_exit of crt0.S, slink_wait_for_eoc, jtag_wait_for_eoc and
\* uart_debug_elf_run_and_wait).
THEOREM ExitCorrect == Spec => []ExitReported
  <1>1. ASSUME IInv PROVE ExitReported
    <2> SUFFICES ASSUME host = "done"
                 PROVE  via # None /\ exit = IF via = "uart" THEN ret ELSE Reported(ret)
      BY DEF ExitReported, Reported
    <2>1. CASE kind = "slink"
      BY <1>1, <2>1 DEF IInv, Slink, Polling, None
    <2>2. CASE kind = "jtag"
      BY <1>1, <2>2 DEF IInv, Jtag, None
    <2>3. CASE kind = "term"
      BY <1>1, <2>3 DEF IInv, Term
    <2>4. CASE kind \in {"uart", "early"}
      <3>1. Types /\ Uart /\ host \in After
        BY <1>1, <2>4 DEF IInv, After
      <3>2. Launch \/ Returning
        BY <2>4, <3>1, ReturningFacts
      <3> QED
        BY <3>2 DEF Launch, Returning, Output, None
    <2> QED
      BY <1>1, <2>1, <2>2, <2>3, <2>4 DEF IInv
  <1> QED
    BY <1>1, Invariance, PTL

-----------------------------------------------------------------------------
(* What is on the line.                                                    *)

Echoing == kind \in {"uart", "early"} /\ host \in Transfers /\ Jobs[job].op = "READ"

\* Bytes of the transfer the server has sent.
Served(j) == IF pc = "read" THEN TransferLen(j) - cmd.len ELSE TransferLen(j)

\* The host has the first bytes of the image, the following ones are on the line.
Echo(j) ==
    /\ got = [i \in 1 .. pos |-> Image[j.addr + i - 1]]
    /\ rx = <<>> => \A k \in 1 .. Served(j) - pos : tx[Acks + k] = Byte(Image[j.addr + (pos + k) - 1])

\* The server answers an EXEC command before the program prints.
AckFirst == kind \in {"uart", "early"} /\ host = "ackx" /\ pc # "cmd" =>
               tx # <<>> /\ tx[1] = Byte("ACK")

Line == (Echoing => Echo(Jobs[job])) /\ AckFirst

\* A READ finds what the WRITEs before it have stored.
LEMMA ReadsImage ==
  ASSUME InProgress, Jobs[job].op = "READ"
  PROVE  Loaded(Addresses(Jobs[job]))
  <1>1. job \in 1 .. Len(Jobs) /\ StoredSoFar /\ host \notin After
    BY TransferFacts DEF InProgress, Uart, Transfers, After
  <1>2. ASSUME NEW a \in Addresses(Jobs[job]) PROVE mem[a] = Image[a]
    <2>1. PICK h \in 1 .. job - 1 : Jobs[h].op = "WRITE" /\ a \in Addresses(Jobs[h])
      BY <1>1, PassiveAssumption
    <2> QED
      BY <1>1, <2>1 DEF StoredSoFar, Loaded
  <1> QED
    BY <1>2 DEF Loaded

\* A token is appended behind c and m others.
LEMMA Extended ==
  ASSUME NEW S, NEW s \in Seq(S), NEW e \in S, NEW c \in {0, 1}, NEW m \in Nat, Len(s) = c + m
  PROVE  \A k \in 1 .. m : (s \o <<e>>)[c + k] = s[c + k]
  OBVIOUS

\* The host appends one more byte to what it got.
LEMMA OneMore ==
  ASSUME NEW p \in Nat, NEW a \in Nat, NEW g, NEW x,
         g = [i \in 1 .. p |-> Image[a + i - 1]], x = Image[a + (p + 1) - 1]
  PROVE  Append(g, x) = [i \in 1 .. p + 1 |-> Image[a + i - 1]]
  <1> DEFINE S == {x} \union {Image[a + i - 1] : i \in 1 .. p}
             h == [i \in 1 .. p + 1 |-> Image[a + i - 1]]
  <1>1. g \in Seq(S) /\ Len(g) = p /\ x \in S
    <2>1. \A i \in 1 .. p : Image[a + i - 1] \in S
      OBVIOUS
    <2> HIDE DEF S
    <2>2. [i \in 1 .. p |-> Image[a + i - 1]] \in Seq(S)
      BY <2>1, IsASeq
    <2>3. x \in S
      BY DEF S
    <2> QED
      BY <2>2, <2>3
  <1>2. h \in Seq(S) /\ Len(h) = p + 1
    <2>1. \A i \in 1 .. p + 1 : Image[a + i - 1] \in S
      <3>1. ASSUME NEW i \in 1 .. p + 1 PROVE Image[a + i - 1] \in S
        <4>1. i \in 1 .. p \/ i = p + 1
          OBVIOUS
        <4> QED
          BY <4>1
      <3> QED
        BY <3>1
    <2>2. p + 1 \in Nat
      OBVIOUS
    <2> HIDE DEF S
    <2>3. [i \in 1 .. p + 1 |-> Image[a + i - 1]] \in Seq(S)
      BY <2>1, <2>2, IsASeq
    <2> QED
      BY <2>3
  <1>3. Append(g, x) \in Seq(S) /\ Len(Append(g, x)) = p + 1
    BY <1>1
  <1>4. ASSUME NEW i \in 1 .. p + 1 PROVE Append(g, x)[i] = h[i]
    <2>1. i \in 1 .. p \/ i = p + 1
      OBVIOUS
    <2> QED
      BY <1>1, <2>1
  <1> QED
    BY <1>2, <1>3, <1>4, SeqEqual

LEMMA EchoPreserved ==
  ASSUME InProgress, Echoing, Echo(Jobs[job]), Next, Echoing'
  PROVE  Echo(Jobs[job])'
  <1> DEFINE j == Jobs[job]
             n == TransferLen(j)
  <1>1. /\ j.op = "READ" /\ Reading(j) /\ n \in Nat /\ j.addr \in Nat /\ pos \in 0 .. n
        /\ Acks \in {0, 1} /\ tx \in Seq(Tokens) /\ Len(tx) \in Nat /\ pc \in {"cmd", "read"}
        /\ Loaded(Addresses(j)) /\ (Acks = 1 => pos = 0)
    BY TransferFacts, ReadsImage DEF Echoing, Transfer, Acks
  <1>2. /\ got = [i \in 1 .. pos |-> Image[j.addr + i - 1]]
        /\ rx = <<>> => \A k \in 1 .. Served(j) - pos : tx[Acks + k] = Byte(Image[j.addr + (pos + k) - 1])
    BY DEF Echo
  <1>3. ~Header(j) =>
          /\ rx = <<>> /\ Served(j) \in 0 .. n
          /\ pc = "read" => /\ Served(j) = n - cmd.len /\ cmd.len \in 0 .. n
                           /\ cmd.addr = j.addr + Served(j)
                           /\ Len(tx) = Acks + Served(j) - pos
          /\ pc = "cmd" => Served(j) = n /\ Len(tx) = Acks + n - pos + 1
    BY <1>1 DEF Reading, Served
  <1>4. CASE ServeRead
    <2>1. /\ pc = "cmd" /\ cmd' = [addr |-> rx[2][2], len |-> rx[3][2]] /\ pc' = "read"
          /\ Len(rx) >= 3 /\ UNCHANGED <<host, job, pos, got>>
      BY <1>4 DEF ServeRead, ServeTransfer, uart_read_str, hostVars
    <2>2. Header(j)
      BY <2>1, TransferFacts
    <2>3. cmd'.len = n /\ pos' = 0
      BY <2>1, <2>2, TransferFacts DEF Header, Word, Transfer
    <2>4. Served(j)' - pos' = 0
      BY <1>1, <2>1, <2>3 DEF Served
    <2> QED
      BY <1>2, <2>1, <2>4 DEF Echo
  <1>5. CASE ReadByte
    <2> DEFINE m == Served(j) - pos
    <2>1. /\ pc = "read" /\ UNCHANGED <<rx, host, job, pos, got>> /\ ~Header(j) /\ Acks' = Acks
      BY <1>5 DEF ReadByte, hostVars, Header, Acks
    <2>2. /\ Served(j) = n - cmd.len /\ cmd.len \in 0 .. n /\ cmd.addr = j.addr + Served(j)
          /\ Len(tx) = Acks + Served(j) - pos /\ rx = <<>>
      BY <1>3, <2>1
    <2>3. m \in Nat /\ Len(tx) = Acks + m
      BY <1>1, <2>2
    <2> HIDE DEF n
    <2>4. CASE cmd.len > 0
      <3>1. /\ tx' = tx \o <<Byte(mem[cmd.addr])>> /\ pc' = "read"
            /\ cmd' = [addr |-> cmd.addr + 1, len |-> cmd.len - 1]
        BY <1>5, <2>1, <2>4 DEF ReadByte, uart_write, uart_write_str
      <3>2. cmd.addr \in Addresses(j) /\ cmd.addr = j.addr + (pos + (m + 1)) - 1
        BY <1>1, <2>2, <2>4 DEF Addresses, n
      <3>3. mem[cmd.addr] = Image[cmd.addr] /\ Byte(mem[cmd.addr]) \in Tokens
        BY <1>1, <3>2, TransferFacts, IsToken DEF Loaded
      <3>4. Served(j)' - pos' = m + 1
        <4>1. Served(j)' = n - (cmd.len - 1)
          BY <2>1, <3>1 DEF Served, n
        <4> QED
          BY <1>1, <2>1, <2>2, <4>1
      <3>7. tx \in Seq(Tokens) /\ Acks \in {0, 1}
        BY <1>1
      <3> HIDE DEF m
      <3>5. /\ \A k \in 1 .. m : tx'[Acks + k] = tx[Acks + k]
            /\ tx'[Acks + (m + 1)] = Byte(mem[cmd.addr])
        <4> DEFINE e == Byte(mem[cmd.addr])
        <4>1. e \in Tokens /\ tx' = tx \o <<e>>
          BY <3>1, <3>3
        <4> HIDE DEF e
        <4>2. \A k \in 1 .. m : tx'[Acks + k] = tx[Acks + k]
          BY <2>3, <3>7, <4>1, Extended
        <4>3. tx'[Len(tx) + 1] = e
          BY <3>7, <4>1, Added
        <4>4. Len(tx) + 1 = Acks + (m + 1)
          BY <2>3, <3>7
        <4> QED
          BY <4>2, <4>3, <4>4, Zenon DEF e
      <3>6. ASSUME NEW k \in 1 .. m + 1 PROVE tx'[Acks + k] = Byte(Image[j.addr + (pos + k) - 1])
        <4>1. k \in 1 .. m \/ k = m + 1
          BY <2>3
        <4>2. k \in 1 .. m => tx[Acks + k] = Byte(Image[j.addr + (pos + k) - 1])
          BY <1>2, <2>2 DEF m
        <4> QED
          BY <3>2, <3>3, <3>5, <4>1, <4>2, Zenon
      <3> QED
        BY <1>2, <2>1, <3>4, <3>6 DEF Echo
    <2>5. CASE cmd.len = 0
      <3>1. tx' = tx \o <<Byte("EOT")>> /\ pc' = "cmd"
        BY <1>5, <2>5 DEF ReadByte, uart_write, uart_write_str
      <3>2. Served(j)' - pos' = m
        <4>1. Served(j)' = n
          BY <2>1, <3>1 DEF Served, n
        <4> QED
          BY <1>1, <2>1, <2>2, <2>5, <4>1
      <3>3. \A k \in 1 .. m : tx[Acks + k] = Byte(Image[j.addr + (pos + k) - 1])
        BY <1>2, <2>2
      <3> HIDE DEF m
      <3>4. \A k \in 1 .. m : tx'[Acks + k] = tx[Acks + k]
        <4> DEFINE e == Byte("EOT")
        <4>1. e \in Tokens /\ tx' = tx \o <<e>>
          BY <3>1, IsToken
        <4> HIDE DEF e
        <4>2. tx \in Seq(Tokens) /\ Acks \in {0, 1}
          BY <1>1
        <4> QED
          BY <2>3, <4>1, <4>2, Extended
      <3> QED
        BY <1>2, <2>1, <3>2, <3>3, <3>4 DEF Echo
    <2> QED
      BY <1>1, <2>2, <2>4, <2>5
  <1>6. CASE UartAck \/ UartReadByte
    <2>1. /\ UNCHANGED <<pc, cmd, rx, job>> /\ tx # <<>> /\ tx' = Tail(tx) /\ ~Header(j)
          /\ host' = "data" /\ Acks' = 0
          /\ \/ host = "ack" /\ pos = 0 /\ pos' = pos /\ Acks = 1 /\ got' = got
             \/ /\ host = "data" /\ pos < n /\ pos' = pos + 1 /\ Acks = 0
                /\ got' = Append(got, Head(tx)[2])
      BY <1>1, <1>6, TransferFacts DEF UartAck, UartReadByte, Expect, HostTake, hartVars, Transfers,
         Acks, Header, Transfer
    <2>2. /\ Served(j)' = Served(j) /\ Served(j) \in 0 .. n /\ rx = <<>>
          /\ \/ Len(tx) = Acks + Served(j) - pos
             \/ Served(j) = n /\ Len(tx) = Acks + n - pos + 1
      BY <1>1, <1>3, <2>1 DEF Served
    <2>3. /\ Head(tx) = tx[1] /\ Len(tx) \in Nat \ {0}
          /\ \A k \in 1 .. Len(tx) - 1 : Tail(tx)[k] = tx[k + 1]
      BY <1>1, <2>1, TailIs
    <2>4. \A k \in 1 .. Served(j) - pos : tx[Acks + k] = Byte(Image[j.addr + (pos + k) - 1])
      BY <1>2, <2>2
    <2> HIDE DEF n
    <2>5. CASE Acks = 1
      <3>1. pos = 0 /\ pos' = pos /\ got' = got
        BY <2>1, <2>5
      <3>2. ASSUME NEW k \in 1 .. Served(j) - pos PROVE tx'[k] = Byte(Image[j.addr + (pos + k) - 1])
        <4>1. k \in 1 .. Len(tx) - 1 /\ 1 + k = k + 1
          BY <1>1, <2>2, <2>5, <3>1
        <4> QED
          BY <2>1, <2>3, <2>4, <2>5, <4>1
      <3>3. \A k \in 1 .. Served(j)' - pos' : tx'[Acks' + k] = Byte(Image[j.addr + (pos' + k) - 1])
        <4>1. \A k \in 1 .. Served(j)' - pos' : Acks' + k = k
          BY <2>1
        <4> QED
          BY <2>2, <3>1, <3>2, <4>1, Zenon
      <3> QED
        BY <1>2, <2>1, <3>1, <3>3 DEF Echo
    <2>6. CASE Acks = 0
      <3>1. pos < n /\ pos' = pos + 1 /\ got' = Append(got, Head(tx)[2])
        BY <2>1, <2>6
      <3>2. 1 \in 1 .. Served(j) - pos /\ Acks + 1 = 1
        BY <1>1, <2>2, <2>3, <2>6, <3>1
      <3>3. Head(tx)[2] = Image[j.addr + (pos + 1) - 1]
        <4>1. tx[1] = Byte(Image[j.addr + (pos + 1) - 1])
          BY <2>4, <3>2, Zenon
        <4> QED
          BY <2>3, <4>1 DEF Byte
      <3>4. got' = [i \in 1 .. pos' |-> Image[j.addr + i - 1]]
        <4>1. pos \in Nat
          BY <1>1
        <4> QED
          BY <1>1, <1>2, <3>1, <3>3, <4>1, OneMore
      <3>5. ASSUME NEW k \in 1 .. Served(j) - (pos + 1)
            PROVE  tx'[k] = Byte(Image[j.addr + ((pos + 1) + k) - 1])
        <4>1. /\ k \in 1 .. Len(tx) - 1 /\ k + 1 \in 1 .. Served(j) - pos
              /\ Acks + (k + 1) = k + 1 /\ pos + (k + 1) = (pos + 1) + k
          BY <1>1, <2>2, <2>6
        <4> QED
          BY <2>1, <2>3, <2>4, <4>1, Zenon
      <3>6. \A k \in 1 .. Served(j)' - pos' : tx'[Acks' + k] = Byte(Image[j.addr + (pos' + k) - 1])
        <4>1. \A k \in 1 .. Served(j)' - pos' : Acks' + k = k
          BY <2>1
        <4> QED
          BY <2>2, <3>1, <3>5, <4>1, Zenon
      <3> QED
        BY <2>1, <3>4, <3>6 DEF Echo
    <2> QED
      BY <1>1, <2>5, <2>6
  <1>7. CASE UartDataDone
    <2>1. UNCHANGED <<pc, cmd, rx, tx, job, pos, got>> /\ host = "data" /\ host' = "eot"
      BY <1>7 DEF UartDataDone, hartVars
    <2>2. Acks' = Acks /\ Served(j)' = Served(j)
      BY <2>1 DEF Acks, Served, TransferLen
    <2> QED
      BY <1>2, <2>1, <2>2 DEF Echo
  <1>8. ~(ServeWrite \/ WriteByte \/ UartSendByte \/ UartEot)
    <2>1. ~ServeWrite
      <3>1. CASE rx = <<>>
        BY <3>1, NothingToRead
      <3>2. CASE pc = "cmd" /\ rx # <<>>
        <4>1. Head(rx) = Byte("READ")
          BY <1>1, <3>2, TransferFacts, TailIs DEF Header
        <4> QED
          BY <4>1 DEF ServeWrite, ServeTransfer, Byte
      <3> QED
        BY <3>1, <3>2 DEF ServeWrite, ServeTransfer
    <2> QED
      BY <1>1, <2>1 DEF WriteByte, UartSendByte, UartEot, Expect, Echoing, Transfers
  <1> QED
    BY <1>4, <1>5, <1>6, <1>7, <1>8, TransferSteps

LEMMA HostMoves ==
  ASSUME Next
  PROVE  /\ host' \in Transfers => host \in Transfers \/ UartHeader
         /\ host' = "ackx" => host = "ackx" \/ UartExec
  <1>1. CASE Hart \/ Returns \/ ProgramInits \/ \E b \in PrintBytes : ProgramPrints(b)
    BY <1>1 DEF Hart, InitUart, PollScratch, PollUart, Claim, ServeAck, ServeRead, ServeWrite,
       ServeTransfer, ReadByte, WriteByte, ServeExec, ServeUnknown, ReportReturn, Returns, ProgramExit,
       ProgramReturns, ProgramInits, ProgramPrints, hostVars
  <1>2. CASE Host \/ \E b \in TypedBytes : TerminalType(b)
    BY <1>2 DEF Host, SlinkLoad, SlinkLaunch, SlinkScratch, PollExit, JtagHalt, JtagLoad,
       JtagResume, UartChallenge, UartHeader, UartSendByte, UartDataDone, UartExec, UartAck,
       UartEot, UartReadByte, UartEoc, UartPrint, UartReturn, Expect, HostSend, TerminalType, hostVars,
       Transfers
  <1> QED
    BY <1>1, <1>2 DEF Next

LEMMA EchoingPreserved ==
  ASSUME IInv, Next, Echoing => Echo(Jobs[job]), Echoing'
  PROVE  Echo(Jobs[job])'
  <1>1. kind \in {"uart", "early"} /\ Types /\ Uart /\ IInv'
    BY NextInv DEF Echoing, IInv
  <1>2. CASE host \in Transfers
    <2>1. InProgress
      BY <1>1, <1>2 DEF InProgress
    <2>2. job' = job
      <3>1. UNCHANGED job \/ UartEot
        BY <2>1, TransferSteps DEF ServeRead, ServeWrite, ServeTransfer, ReadByte, WriteByte, UartSendByte,
           UartDataDone, UartAck, UartReadByte, hostVars
      <3>2. ~UartEot
        BY DEF UartEot, Expect, Echoing, Transfers
      <3> QED
        BY <3>1, <3>2
    <2>3. Echoing
      BY <1>1, <1>2, <2>2 DEF Echoing
    <2> QED
      BY <2>1, <2>3, EchoPreserved
  <1>3. CASE host \notin Transfers
    <2>1. UartHeader
      BY <1>3, HostMoves DEF Echoing
    <2>2. /\ host = "job" /\ pos' = 0 /\ got' = <<>> /\ UNCHANGED job
          /\ Len(rx') = Len(rx) + 3
      <3> DEFINE t == <<Byte(Jobs[job].op), Word(Jobs[job].addr), Word(TransferLen(Jobs[job]))>>
      <3>1. /\ host = "job" /\ pos' = 0 /\ got' = <<>> /\ UNCHANGED job /\ rx' = rx \o t
            /\ job <= Len(Jobs)
        BY <2>1 DEF UartHeader, HostSend
      <3>2. job \in 1 .. Len(Jobs) /\ rx \in Seq(Tokens)
        BY <1>1, <3>1, PassiveAssumption DEF Uart, UartTypes
      <3>3. t \in Seq(Tokens) /\ Len(t) = 3
        <4>1. Byte(Jobs[job].op) \in Tokens /\ Word(Jobs[job].addr) \in Tokens
              /\ Word(TransferLen(Jobs[job])) \in Tokens
          BY <3>2, JobFacts, IsToken
        <4> QED
          BY <4>1
      <3> HIDE DEF t
      <3>4. Len(rx \o t) = Len(rx) + 3
        <4>1. rx \in Seq(Tokens) /\ t \in Seq(Tokens)
          BY <3>2, <3>3
        <4>2. Len(rx \o t) = Len(rx) + Len(t)
          BY <4>1, ConcatProperties
        <4> QED
          BY <3>3, <4>2, Zenon
      <3> QED
        BY <3>1, <3>4
    <2>3. rx' # <<>>
      <3>1. Len(rx) \in Nat /\ Len(<<>>) = 0
        BY <1>1, Empty DEF Uart, UartTypes
      <3> QED
        BY <2>2, <3>1
    <2>4. got' = [i \in 1 .. pos' |-> Image[Jobs[job].addr + i - 1]]
      <3>1. 1 .. pos' = {}
        BY <2>2
      <3> QED
        BY <2>2, <3>1
    <2> QED
      BY <2>2, <2>3, <2>4 DEF Echo
  <1> QED
    BY <1>2, <1>3

LEMMA AckFirstPreserved ==
  ASSUME IInv, Next, AckFirst
  PROVE  AckFirst'
  <1> SUFFICES ASSUME kind' \in {"uart", "early"}, host' = "ackx", pc' # "cmd"
               PROVE  tx' # <<>> /\ tx'[1] = Byte("ACK")
    BY DEF AckFirst
  <1>1. kind \in {"uart", "early"} /\ Types /\ Uart
    BY NextInv DEF IInv
  <1>2. host = "ackx"
    <2>1. ~UartExec
      <3>1. UartExec => host = "job" /\ UNCHANGED pc
        BY DEF UartExec, HostSend, hartVars
      <3> QED
        BY <1>1, <3>1 DEF Uart, Beginning
    <2> QED
      BY <2>1, HostMoves
  <1>3. host \in After /\ tx \in Seq(Tokens) /\ (Launch \/ Returning)
    BY <1>1, <1>2, ReturningFacts DEF After
  <1>4. CASE Launch
    <2>1. ServeExec
      BY <1>1, <1>3, <1>4, LaunchSteps
    <2>2. tx = <<>> /\ tx' = tx \o <<Byte("ACK")>>
      BY <1>4, <2>1 DEF Launch, ServeExec, uart_write, uart_write_str
    <2>3. Len(tx') = 1 /\ tx'[1] = Byte("ACK")
      BY <2>2, IsToken
    <2> QED
      BY <2>3
  <1>5. CASE Returning
    <2>1. pc \in {"run", "eoc", "exited"}
      BY <1>5 DEF Returning, Output
    <2>2. tx # <<>> /\ tx[1] = Byte("ACK") /\ Len(tx) \in Nat \ {0}
      BY <1>1, <1>2, <1>3, <2>1, TailIs DEF AckFirst
    <2>3. ASSUME NEW t \in Seq(Tokens), tx' = tx \o t PROVE tx' # <<>> /\ tx'[1] = Byte("ACK")
      <3>1. (tx \o t)[1] = tx[1] /\ Len(tx \o t) >= 1
        BY <1>3, <2>2
      <3> QED
        BY <2>2, <2>3, <3>1
    <2>4. CASE ReportReturn
      <3>1. pc = "eoc" /\ tx' = tx \o <<Byte("EOC"), Word(ret)>>
        BY <2>4 DEF ReportReturn, uart_write_str
      <3>2. ret \in Rets
        BY <1>5, <3>1 DEF Returning
      <3>3. <<Byte("EOC"), Word(ret)>> \in Seq(Tokens)
        <4>1. Byte("EOC") \in Tokens /\ Word(ret) \in Tokens
          BY <3>2, IsToken
        <4> QED
          BY <4>1
      <3> QED
        BY <2>3, <3>1, <3>3
    <2>5. CASE \E b \in PrintBytes : ProgramPrints(b)
      <3>1. PICK b \in PrintBytes : ProgramPrints(b)
        BY <2>5
      <3>2. tx' = tx \o <<Byte(b)>>
        BY <3>1 DEF ProgramPrints, uart_write, uart_write_str
      <3>3. <<Byte(b)>> \in Seq(Tokens)
        <4>1. Byte(b) \in Tokens
          BY IsToken
        <4> QED
          BY <4>1
      <3> QED
        BY <2>3, <3>2, <3>3
    <2>6. CASE Returns
      BY <2>2, <2>6 DEF Returns, ProgramExit, ProgramReturns
    <2>7. ~ProgramInits /\ ~(Hart /\ ~ReportReturn)
      BY <1>2, <2>1 DEF ProgramInits, Hart, InitUart, PollScratch, PollUart, Claim, ServeAck, ServeRead,
         ServeWrite, ServeTransfer, ReadByte, WriteByte, ServeExec, ServeUnknown
    <2>8. ~(Host \/ \E b \in TypedBytes : TerminalType(b))
      BY <1>1, <1>2 DEF Host, SlinkLoad, SlinkLaunch, SlinkScratch, PollExit, JtagHalt, JtagLoad,
         JtagResume, UartChallenge, UartHeader, UartSendByte, UartDataDone, UartExec, UartAck,
         UartEot, UartReadByte, UartEoc, UartPrint, UartReturn, Expect, TerminalType
    <2> QED
      BY <2>4, <2>5, <2>6, <2>7, <2>8 DEF Next
  <1> QED
    BY <1>3, <1>4, <1>5

\* Hart and host stay in step for any sequence of transfers and whatever bytes
\* they carry: the server meets no unknown command, the host no byte it does
\* not expect, and a READ returns what was written (uart_debug.c:40-78,
\* vip_cheshire_soc.sv:497-519).
THEOREM ProtocolCorrect == Spec => []ProtocolInStep
  <1>1. Init => Line
    BY DEF Init, Line, Echoing, AckFirst, Transfers
  <1>2. IInv /\ Line /\ [Next]_vars => Line'
    <2> SUFFICES ASSUME IInv, Line, [Next]_vars PROVE Line'
      OBVIOUS
    <2>1. CASE Next
      BY <2>1, EchoingPreserved, AckFirstPreserved DEF Line
    <2>2. CASE UNCHANGED vars
      <3>1. (Echoing' => Echoing) /\ (AckFirst => AckFirst')
        BY <2>2 DEF vars, hartVars, hostVars, Echoing, AckFirst
      <3>2. Echo(Jobs[job]) => Echo(Jobs[job])'
        BY <2>2 DEF vars, hartVars, hostVars, Echo, Served, Acks, TransferLen
      <3> QED
        BY <3>1, <3>2 DEF Line
    <2> QED
      BY <2>1, <2>2
  <1>3. ASSUME IInv, Line PROVE ProtocolInStep
    <2>1. CASE kind = "slink"
      BY <1>3, <2>1 DEF IInv, Slink, Polling, ProtocolInStep
    <2>2. CASE kind = "jtag"
      BY <1>3, <2>2 DEF IInv, Jtag, Polling, ProtocolInStep
    <2>3. CASE kind = "term"
      BY <1>3, <2>3 DEF IInv, Term, ProtocolInStep
    <2>4. CASE kind \in {"uart", "early"}
      <3>1. Types /\ Uart /\ host \in Setup \union {"job"} \union Transfers \union After
            /\ tx \in Seq(Tokens)
        BY <1>3, <2>4 DEF IInv, Uart, UartTypes
      <3>2. pc = "exited" => via = "uart"
        <4>1. host \in Transfers => pc # "exited"
          BY <2>4, <3>1, TransferFacts DEF InProgress
        <4>2. host \in Setup \union {"job"} => pc # "exited"
          BY <3>1 DEF Uart, Beginning, Challenge, Setup, Polling
        <4>3. host \in After => (pc = "exited" => via = "uart")
          BY <2>4, <3>1, ReturningFacts DEF Launch, Returning
        <4> QED
          BY <3>1, <4>1, <4>2, <4>3
      <3>3. ASSUME tx # <<>>
            PROVE  /\ host \in {"ack0", "ack", "ackx"} => Head(tx) = Byte("ACK")
                   /\ host = "eot" => Head(tx) = Byte("EOT")
                   /\ host # "job"
        <4>1. Head(tx) = tx[1] /\ Len(tx) \in Nat \ {0}
          BY <3>1, <3>3, TailIs
        <4>2. host = "ack0" => tx[1] = Byte("ACK")
          BY <3>1, <3>3 DEF Uart, Beginning, Challenge, Setup
        <4>3. host # "job"
          BY <3>1, <3>3 DEF Uart, Beginning
        <4>4. host = "ack" => tx[1] = Byte("ACK")
          BY <2>4, <3>1, <3>3, TransferFacts DEF InProgress, Transfer, Transfers
        <4>5. ASSUME host = "ackx" PROVE tx[1] = Byte("ACK")
          <5>1. Launch \/ Returning
            BY <2>4, <3>1, <4>5, ReturningFacts DEF After
          <5>2. pc # "cmd"
            BY <3>3, <5>1 DEF Launch, Returning, Output
          <5> QED
            BY <1>3, <2>4, <4>5, <5>2 DEF Line, AckFirst
        <4>6. ASSUME host = "eot" PROVE tx[1] = Byte("EOT")
          <5> DEFINE j == Jobs[job]
                     n == TransferLen(j)
          <5>1. /\ j.op = "READ" => Reading(j)
                /\ j.op = "WRITE" => Writing(j)
                /\ j.op \in {"READ", "WRITE"} /\ n \in Nat /\ pos = n /\ Acks = 0 /\ ~Header(j)
            BY <2>4, <3>1, <4>6, TransferFacts DEF InProgress, Transfer, Transfers, Acks, Header
          <5> HIDE DEF n
          <5>2. CASE j.op = "READ"
            <6>1. \/ cmd.len \in 0 .. n /\ Len(tx) = Acks + (n - cmd.len) - pos
                  \/ Len(tx) = Acks + n - pos + 1 /\ tx[Len(tx)] = Byte("EOT")
              BY <5>1, <5>2 DEF Reading, n
            <6> QED
              BY <4>1, <5>1, <6>1
          <5>3. CASE j.op = "WRITE"
            <6>1. Len(tx) = Acks \/ (Len(tx) = Acks + 1 /\ tx[Len(tx)] = Byte("EOT"))
              BY <5>1, <5>3 DEF Writing
            <6> QED
              BY <4>1, <5>1, <6>1
          <5> QED
            BY <5>1, <5>2, <5>3
        <4> QED
          BY <4>1, <4>2, <4>3, <4>4, <4>5, <4>6
      <3>4. ASSUME host = "eot", Jobs[job].op = "READ"
            PROVE  got = [i \in 1 .. Jobs[job].len |-> Image[Jobs[job].addr + i - 1]]
        <4>1. pos = Jobs[job].len
          BY <2>4, <3>1, <3>4, TransferFacts DEF InProgress, Transfer, Transfers, TransferLen
        <4>2. Echo(Jobs[job])
          BY <1>3, <2>4, <3>4 DEF Line, Echoing, Transfers
        <4> QED
          BY <4>1, <4>2 DEF Echo
      <3> QED
        BY <3>2, <3>3, <3>4 DEF ProtocolInStep
    <2> QED
      BY <1>3, <2>1, <2>2, <2>3, <2>4 DEF IInv
  <1> QED
    BY <1>1, <1>2, <1>3, Invariance, PTL DEF Spec

=============================================================================
