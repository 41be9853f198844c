------------------------------- MODULE SdCard -------------------------------
(***************************************************************************)
(* The SD card driver, sw/lib/hal/spi_sdcard.c, against a card.            *)
(*                                                                         *)
(* The driver exchanges bytes with the card over SPI: it sends a command,  *)
(* polls for the response (every byte with its top bit set is a gap), for  *)
(* a start token before every block it reads, and for the end of a busy    *)
(* phase.  Each loop has a poll budget, and a call that runs out of it, or *)
(* meets a wrong byte, returns an error without releasing the card.        *)
(*                                                                         *)
(* The card is external.  It is selected or not, executes the commands it  *)
(* hears, may be slow, may corrupt a block it sends or reject one it gets, *)
(* and may stop answering for good.  A card that still owes data does not  *)
(* hear a new command, except the one that stops the transfer.             *)
(***************************************************************************)
EXTENDS Integers, Sequences

CONSTANTS BlockSize,    \* bytes in a block (512)
          NumBlocks,    \* blocks on the card
          RespPolls,    \* polls for a response (8)
          BusyPolls,    \* __spi_sdcard_r1b_timeout
          DataPolls,    \* __spi_sdcard_data_timeout
          Reads,        \* [op, addr, len] requests; op is "read", or "sig" for the
                        \* signature read, the one whose failure callers ignore
          RawReads,     \* the "raw" requests that follow a failed signature read
          Writes,       \* [op, addr, len] requests in blocks; op is "write"
          BufLen,       \* bytes watched from the start of the read buffer on
          Faults,       \* what may go wrong: "die", "corrupt", "reject", "wrong"
          NoBusy        \* a card may accept a block without a busy phase

\* The signature lies inside one block, a raw copy is of more than one
\* (gpt.c:15-18, 75-82 and the 96 blocks of params.h:40), and the window
\* covers what is read.
ASSUME SdAssumption ==
    /\ {BlockSize, NumBlocks, RespPolls, BusyPolls, DataPolls} \subseteq Nat \ {0}
    /\ \A r \in Reads \union RawReads \union Writes : {r.addr, r.len} \subseteq Nat
    /\ \A r \in Reads \union RawReads : r.addr + r.len <= BlockSize * NumBlocks
    /\ \A r \in Reads \union RawReads : r.op \in {"read", "sig", "raw"}
    /\ \A r \in Reads \union RawReads :
         r.op = "sig" => r.len > 0 /\ (r.addr % BlockSize) + r.len <= BlockSize
    /\ \A r \in RawReads : r.len > BlockSize
    /\ BufLen \in Nat /\ \A r \in Reads \union RawReads : r.len <= BufLen
    /\ \A w \in Writes : w.op = "write" /\ w.addr + w.len <= NumBlocks
    /\ NoBusy \in BOOLEAN

Blocks == 0 .. NumBlocks - 1
\* Offsets of the buffer's byte 0 from the block grid make this window two-sided.
Window == 0 - BlockSize .. BufLen

VARIABLES pc,       \* where the driver is
          cmd,      \* the command being executed
          req,      \* the caller's request
          b,        \* index of the current block
          timeout,  \* polls left
          buf,      \* the read buffer: which byte of the card lies where
          ret,      \* what the last call returned
          sel,      \* chip select is asserted
          owes,     \* the card's transfer: none, one block, many, or a write
          at,       \* the block it is at
          ready,    \* the card finished its initialisation
          busy,     \* the card holds its data line low
          alive,    \* the card still answers
          disk      \* contents of each block: its own or an image block

drvVars == <<pc, cmd, req, b, timeout, buf, ret>>
cardVars == <<sel, owes, at, ready, busy, alive, disk>>
vars == <<drvVars, cardVars>>

NoReq == [op |-> "none", addr |-> 0, len |-> 0]
\* Contents that are no image block, and the values of buffer bytes the card did not fill.
Own == -1
Old == <<-2, -1>>
Bad == <<-3, -1>>
InitCmds == <<"CMD0", "CMD8", "CMD55", "ACMD41", "CMD58", "CMD16">>
ReadCmds == {"CMD17", "CMD18"}
WriteCmds == {"CMD24", "CMD25"}
Init == /\ pc = "off" /\ cmd = "none" /\ req = NoReq /\ b = 0 /\ timeout = 0
        /\ buf = [i \in Window |-> Old]
        /\ ret = "none"
        /\ sel = FALSE /\ owes = "none" /\ at = 0 /\ ready = FALSE /\ busy = FALSE
        /\ alive = TRUE
        /\ disk = [k \in Blocks |-> Own]

-----------------------------------------------------------------------------
(* Geometry of a read request.                                             *)

Block(r) == r.addr \div BlockSize
FirstOffs(r) == r.addr % BlockSize
LastLen(r) == LET pte == (r.addr + r.len) % BlockSize
              IN  IF pte = 0 THEN BlockSize ELSE pte

\* Variant for TLC: the first block's offset is left out.
LenBlocksAligned(r) == IF r.op = "write" THEN r.len
                       ELSE (r.len + BlockSize - 1) \div BlockSize

LenBlocks(r) == IF r.op = "write" THEN r.len
                ELSE (r.len + FirstOffs(r) + BlockSize - 1) \div BlockSize

-----------------------------------------------------------------------------
(* The card (external).                                                    *)

\* A selected card that owes no data executes a command it hears.
CardHears(c) ==
    IF ~alive \/ busy \/ (owes # "none" /\ c \notin {"CMD12", "stop"})
    THEN UNCHANGED <<owes, at, ready, busy>>
    ELSE /\ owes' = CASE c = "CMD17" -> "one"
                      [] c = "CMD18" -> "many"
                      [] c \in WriteCmds -> "write"
                      [] OTHER -> "none"
         /\ at' = IF c \in ReadCmds \union WriteCmds
                  THEN IF req.op = "write" THEN req.addr ELSE Block(req)
                  ELSE at
         /\ ready' = (ready /\ c # "CMD0")
         /\ busy' \in CASE c = "CMD12" -> BOOLEAN
                        [] c = "stop" -> IF NoBusy THEN BOOLEAN ELSE {TRUE}
                        [] OTHER -> {FALSE}

CardReady == /\ ~ready
             /\ ready' = TRUE
             /\ UNCHANGED <<drvVars, sel, owes, at, busy, alive, disk>>

\* Unless NoBusy, a write keeps the card busy for a byte at least.
CardDone == /\ busy /\ alive
            /\ ~NoBusy => ~(pc = "r1" /\ cmd \in {"wait", "stop"})
            /\ busy' = FALSE
            /\ UNCHANGED <<drvVars, sel, owes, at, ready, alive, disk>>

CardDies == /\ "die" \in Faults /\ alive
            /\ alive' = FALSE
            /\ UNCHANGED <<drvVars, sel, owes, at, ready, busy, disk>>

\* Responses to a command of the initialisation: the R1 byte (1: idle) and
\* whether the rest of a longer response has the expected value.
Responses(c) ==
    CASE c = "ACMD41" -> [r1 : {IF ready THEN 0 ELSE 1}, tail : {TRUE}]
      [] c \in {"CMD58", "CMD16"} -> [r1 : {0}, tail : {TRUE}]
      [] OTHER -> [r1 : IF "wrong" \in Faults THEN {0, 1} ELSE {1},
                   tail : IF "wrong" \in Faults THEN BOOLEAN ELSE {TRUE}]

-----------------------------------------------------------------------------
(* __spi_sdcard_cmd.                                                       *)

\* Every error return leaves the card selected.
Fail == /\ pc' = "idle"
        /\ ret' = "error"

\* The command bytes are sent; CMD12's stuff byte is discarded.
SendCmd == /\ pc = "send"
           /\ sel' = TRUE
           /\ CardHears(cmd)
           /\ timeout' = RespPolls
           /\ pc' = "r1"
           /\ UNCHANGED <<cmd, req, b, buf, ret, alive, disk>>

\* A poll that uses up the budget fails, whatever byte it returns.
R1Timeout == /\ pc = "r1"
             /\ timeout = 1
             /\ timeout' = 0
             /\ Fail
             /\ UNCHANGED <<cmd, req, b, buf, cardVars>>

R1Gap == /\ pc = "r1"
         /\ timeout > 1
         /\ ~(cmd \in {"wait", "stop"} /\ busy)
         /\ timeout' = timeout - 1
         /\ UNCHANGED <<pc, cmd, req, b, buf, ret, cardVars>>

\* The position in the initialisation sequence follows the command.
InitNext(c) == LET i == CHOOSE i \in DOMAIN InitCmds : InitCmds[i] = c
               IN  InitCmds[i + 1]

\* __spi_sdcard_cmd_check returns the masked response on a mismatch, which is
\* an error only if it is not 0.  The 40-bit mask of CMD8 is an undefined
\* shift: it covers the R1 byte only, or all 64 bits of a word whose upper
\* bytes are not initialised.
CheckPasses(c, r) == CASE c = "CMD0" -> {r.r1 \in {0, 1}}
                       [] c = "CMD8" -> {r.r1 \in {0, 1}, FALSE}
                       [] c = "CMD16" -> {r.r1 = 0}
                       [] OTHER -> {TRUE}

\* A response arrives in time during initialisation: release the card, check
\* the response and go on.  ACMD41 is repeated until it returns 0.
InitResponse(r) ==
    /\ pc = "r1" /\ timeout > 1
    /\ cmd \in {InitCmds[i] : i \in DOMAIN InitCmds}
    /\ alive /\ r \in Responses(cmd)
    /\ sel' = FALSE
    /\ \E passes \in CheckPasses(cmd, r) :
         IF ~passes THEN Fail /\ UNCHANGED cmd
         ELSE IF cmd = "CMD16" THEN /\ pc' = "idle" /\ ret' = "ok"
                                    /\ UNCHANGED cmd
         ELSE /\ pc' = "send"
              /\ cmd' = IF cmd = "ACMD41" /\ r.r1 # 0 THEN "CMD55" ELSE InitNext(cmd)
              /\ UNCHANGED ret
    /\ timeout' = 0
    /\ UNCHANGED <<req, b, buf, owes, at, ready, busy, alive, disk>>

\* R1 of a data command: its error bits are not looked at.  Bytes of an
\* unfinished transfer may be taken for it.
DataResponse == /\ pc = "r1" /\ timeout > 1
                /\ cmd \in ReadCmds \union WriteCmds
                /\ alive
                /\ b' = 0
                /\ timeout' = DataPolls
                /\ pc' = IF cmd \in ReadCmds THEN "token" ELSE "wblock"
                /\ UNCHANGED <<cmd, req, buf, ret, cardVars>>

\* R1 of CMD12; for "wait" and "stop" the first busy byte is taken for it.
BusyResponse == /\ pc = "r1" /\ timeout > 1
                /\ cmd \in {"CMD12", "wait", "stop"}
                /\ cmd = "CMD12" => alive
                /\ cmd # "CMD12" => busy
                /\ timeout' = BusyPolls
                /\ pc' = "r1b"
                /\ UNCHANGED <<cmd, req, b, buf, ret, cardVars>>

BusyTimeout == /\ pc = "r1b"
               /\ timeout = 1
               /\ timeout' = 0
               /\ Fail
               /\ UNCHANGED <<cmd, req, b, buf, cardVars>>

\* Variant for TLC: the poll has no budget.
BusyPollForever == /\ pc = "r1b"
                   /\ busy
                   /\ timeout' = BusyPolls
                   /\ UNCHANGED <<pc, cmd, req, b, buf, ret, cardVars>>

BusyPoll == /\ pc = "r1b"
            /\ timeout > 1 /\ busy
            /\ timeout' = timeout - 1
            /\ UNCHANGED <<pc, cmd, req, b, buf, ret, cardVars>>

\* The busy phase is over: next block, or the end of the call.
BusyOver == /\ pc = "r1b"
            /\ timeout > 1 /\ ~busy
            /\ timeout' = 0
            /\ \/ /\ cmd = "wait" /\ b + 1 < LenBlocks(req)
                  /\ b' = b + 1
                  /\ pc' = "wblock"
                  /\ UNCHANGED cmd
               \/ /\ cmd = "wait" /\ b + 1 >= LenBlocks(req) /\ LenBlocks(req) > 1
                  /\ cmd' = "stop"
                  /\ pc' = "send"
                  /\ UNCHANGED b
               \/ /\ cmd # "wait" \/ LenBlocks(req) = 1
                  /\ pc' = "free"
                  /\ UNCHANGED <<cmd, b>>
            /\ UNCHANGED <<req, buf, ret, cardVars>>

\* Variant for TLC: the dummy cycles go to the card's own chip select.
FreeWrongCs == /\ pc = "free"
               /\ pc' = "idle"
               /\ ret' = "ok"
               /\ UNCHANGED <<cmd, req, b, timeout, buf, cardVars>>

\* __spi_sdcard_csfree deselects the card, and the call returns 0.
Free == /\ pc = "free"
        /\ sel' = FALSE
        /\ pc' = "idle"
        /\ ret' = "ok"
        /\ UNCHANGED <<cmd, req, b, timeout, buf, owes, at, ready, busy, alive, disk>>

-----------------------------------------------------------------------------
(* __spi_sdcard_read_blocks.                                               *)

TokenTimeout == /\ pc = "token"
                /\ timeout = 1
                /\ timeout' = 0
                /\ Fail
                /\ UNCHANGED <<cmd, req, b, buf, cardVars>>

TokenGap == /\ pc = "token"
            /\ timeout > 1
            /\ timeout' = timeout - 1
            /\ UNCHANGED <<pc, cmd, req, b, buf, ret, cardVars>>

\* A card that fails to read sends another token and no data.
TokenError == /\ pc = "token" /\ timeout > 1
              /\ "wrong" \in Faults /\ alive /\ owes \in {"one", "many"}
              /\ owes' = "none"
              /\ timeout' = 0
              /\ Fail
              /\ UNCHANGED <<cmd, req, b, buf, sel, at, ready, busy, alive, disk>>

Token == /\ pc = "token" /\ timeout > 1
         /\ alive /\ owes \in {"one", "many"} /\ at < NumBlocks
         /\ timeout' = 0
         /\ pc' = "block"
         /\ UNCHANGED <<cmd, req, b, buf, ret, cardVars>>

\* The bytes [from, to) of block k, stored where the block's byte 0 belongs at dst.
CopyBlock(k, dst, from, to, good) ==
    [i \in Window |-> IF i - dst \in from .. to - 1
                      THEN IF good THEN <<disk[k], k * BlockSize + i - dst>> ELSE Bad
                      ELSE buf[i]]

\* Variant for TLC: a partial block is copied whole.
PartUncut(r, n) == <<0, BlockSize>>

\* The part of block n of the request that belongs to the buffer.
Part(r, n) == << IF n = 0 THEN FirstOffs(r) ELSE 0,
                 IF n = LenBlocks(r) - 1 THEN LastLen(r) ELSE BlockSize >>

\* A partial block goes through the swap buffer and is copied after its CRC
\* was checked, a whole one is received in place.
ReadBlock(good) ==
    /\ pc = "block"
    /\ ~good => "corrupt" \in Faults
    /\ owes' = IF owes = "one" THEN "none" ELSE owes
    /\ at' = at + 1
    /\ LET part == Part(req, b)
           dst == b * BlockSize - FirstOffs(req)
           whole == part = <<0, BlockSize>>
           last == b + 1 = LenBlocks(req)
       IN  /\ buf' = IF good \/ whole
                     THEN CopyBlock(at, dst, part[1], part[2], good) ELSE buf
           /\ IF ~good THEN Fail /\ UNCHANGED <<cmd, b, timeout>>
              ELSE /\ b' = b + 1
                   /\ timeout' = IF last THEN 0 ELSE DataPolls
                   /\ pc' = CASE ~last -> "token"
                              [] last /\ LenBlocks(req) > 1 -> "send"
                              [] OTHER -> "free"
                   /\ cmd' = IF last /\ LenBlocks(req) > 1 THEN "CMD12" ELSE cmd
                   /\ UNCHANGED ret
    /\ UNCHANGED <<req, sel, ready, busy, alive, disk>>

-----------------------------------------------------------------------------
(* spi_sdcard_write_blocks.                                                *)

\* The card takes a block or not.
CardTakes(taken) ==
    /\ taken => alive /\ owes = "write" /\ at < NumBlocks
    /\ ~taken => ~alive \/ owes # "write" \/ "reject" \in Faults
    /\ disk' = IF taken THEN [disk EXCEPT ![at] = b] ELSE disk
    /\ at' = IF taken THEN at + 1 ELSE at
    /\ owes' = IF taken /\ LenBlocks(req) = 1 THEN "none" ELSE owes
    /\ busy' \in IF ~alive THEN {busy} ELSE IF taken /\ ~NoBusy THEN {TRUE} ELSE BOOLEAN
    /\ UNCHANGED <<sel, ready, alive>>

\* Variant for TLC: the data response is not checked.
WriteBlockUnchecked(taken) ==
    /\ pc = "wblock"
    /\ CardTakes(taken)
    /\ cmd' = "wait"
    /\ timeout' = RespPolls
    /\ pc' = "r1"
    /\ UNCHANGED <<req, b, buf, ret>>

\* Token, data and CRC are sent, and the data response is checked.
WriteBlock(taken) ==
    /\ pc = "wblock"
    /\ CardTakes(taken)
    /\ IF taken THEN /\ cmd' = "wait"
                     /\ timeout' = RespPolls
                     /\ pc' = "r1"
                     /\ UNCHANGED ret
       ELSE Fail /\ UNCHANGED <<cmd, timeout>>
    /\ UNCHANGED <<req, b, buf>>

-----------------------------------------------------------------------------
(* Calls.                                                                  *)

\* spi_sdcard_init configures the SPI host and starts __spi_sdcard_activate.
CallInit == /\ pc = "off"
            /\ pc' = "send"
            /\ cmd' = "CMD0"
            /\ UNCHANGED <<req, b, timeout, buf, ret, cardVars>>

\* A call without length returns at once.
Call(r, single, multiple) ==
    /\ req' = r
    /\ b' = 0
    /\ buf' = [i \in Window |-> Old]
    /\ IF r.len = 0 THEN /\ ret' = "ok"
                         /\ UNCHANGED <<pc, cmd>>
       ELSE /\ pc' = "send"
            /\ cmd' = IF LenBlocks(r) > 1 THEN multiple ELSE single
            /\ ret' = "none"
    /\ UNCHANGED <<timeout, cardVars>>

CallRead(r) == pc = "idle" /\ ret = "ok" /\ Call(r, "CMD17", "CMD18")

\* gpt_check_signature takes a failed read for a disk without signature.
CallRawRead(r) == /\ pc = "idle" /\ ret = "error" /\ req.op = "sig"
                  /\ Call(r, "CMD17", "CMD18")

CallWrite(w) == pc = "idle" /\ ret = "ok" /\ Call(w, "CMD24", "CMD25")

-----------------------------------------------------------------------------
Driver == \/ SendCmd \/ R1Timeout \/ R1Gap
          \/ \E r1 \in {0, 1}, tail \in BOOLEAN : InitResponse([r1 |-> r1, tail |-> tail])
          \/ DataResponse \/ BusyResponse \/ BusyTimeout \/ BusyPoll \/ BusyOver
          \/ Free \/ TokenTimeout \/ TokenGap \/ TokenError \/ Token
          \/ \E good \in BOOLEAN : ReadBlock(good)
          \/ \E taken \in BOOLEAN : WriteBlock(taken)

Next == \/ Driver
        \/ CallInit
        \/ \E r \in Reads : CallRead(r)
        \/ \E r \in RawReads : CallRawRead(r)
        \/ \E w \in Writes : CallWrite(w)
        \/ CardReady \/ CardDone \/ CardDies

Spec == Init /\ [][Next]_vars

\* The driver runs, and the card finishes its initialisation.
FairSpec == Spec /\ WF_vars(Driver) /\ WF_vars(CardReady)

-----------------------------------------------------------------------------
(* Properties.                                                             *)

IsRead(r) == r.op \in {"read", "sig", "raw"}

\* A read that returns 0 has delivered exactly the bytes asked for, also when
\* it starts and ends inside a block, and also after a signature read that
\* failed and left the card selected or in the middle of a transfer.
ReadCorrect == pc = "idle" /\ ret = "ok" /\ IsRead(req) =>
                 \A i \in 0 .. req.len - 1 :
                    buf[i] = <<disk[(req.addr + i) \div BlockSize], req.addr + i>>

\* A read never writes outside the caller's buffer, whether it succeeds,
\* fails or is still running.
BufferFenced == \A i \in Window : i \notin 0 .. req.len - 1 => buf[i] = Old

\* A write that returns 0 has stored every block of the image.
WriteCorrect == pc = "idle" /\ ret = "ok" /\ req.op = "write" =>
                  \A i \in 0 .. req.len - 1 : disk[req.addr + i] = i

\* A call that returns 0 leaves the card deselected and with no transfer open,
\* so that it hears the next command.
Released == pc = "idle" /\ ret = "ok" => ~sel /\ owes = "none"

\* Every call returns, even if the card stops answering at any point.
CallsReturn == (pc # "off") ~> (pc = "idle")
=============================================================================
