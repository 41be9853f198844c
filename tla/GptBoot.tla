------------------------------- MODULE GptBoot -------------------------------
(***************************************************************************)
(* Autonomous boot, from the disk's partition table to the firmware:       *)
(* gpt_boot_part_else_raw and gpt_find_partition (sw/lib/gpt.c) in the     *)
(* boot ROM, and the zero-stage loader (sw/boot/zsl.c), which reuses the   *)
(* boot ROM's read function for the device tree and the firmware.          *)
(*                                                                         *)
(* The read function (sw/lib/hal) either delivers the bytes asked for or   *)
(* returns an error; SdCard.tla models one of them.  It runs on the boot   *)
(* ROM's global pointer, which the loader has to switch to around a call.  *)
(*                                                                         *)
(* Block addresses are unsigned and wrap at LbaMod.                        *)
(***************************************************************************)
EXTENDS Integers, Sequences

CONSTANTS LbaMod,      \* 2^64
          MaxLbas,     \* largest partition each search accepts: [rom, dtb, fw]
          Disks        \* [signed, parts], parts a sequence of [begin, end, type]

\* A partition may be inverted.  None begins at the very end of the block
\* numbers: byte addresses of 64 bits (gpt.c:81) end far before it.
ASSUME GptAssumption ==
    /\ LbaMod \in Nat \ {0}
    /\ \A w \in {"rom", "dtb", "fw"} : MaxLbas[w] \in 1 .. LbaMod - 1
    /\ \A d \in Disks :
         /\ d.signed \in BOOLEAN
         /\ d.parts \in Seq([begin : Nat, end : 0 .. LbaMod - 1, type : STRING])
         /\ \A i \in 1 .. Len(d.parts), w \in {"rom", "dtb", "fw"} :
               d.parts[i].begin + MaxLbas[w] <= LbaMod

VARIABLES disk,      \* the boot disk
          who,       \* the search being made: boot ROM, device tree or firmware
          pc,        \* where the boot is
          inread,    \* the read function is running
          gp,        \* global pointer of the running code
          p,         \* partition being looked at
          dim,       \* its first and last block, as last read
          lba,       \* lba_begin and lba_end
          scratch,   \* regs.SCRATCH[0] (bit 0) and regs.SCRATCH[3]
          copied,    \* what each search copied: <<first block, number of blocks>>
          sigFailed  \* the read of the signature failed

vars == <<disk, who, pc, inread, gp, p, dim, lba, scratch, copied, sigFailed>>

Searches == {"rom", "dtb", "fw"}
PartType(w) == IF w = "rom" THEN "zsl" ELSE w
ReadPlaces == {"sig", "hdr", "entry", "guid", "copy"}
NoCopy == <<0, 0>>
Junk == <<0, -1>>
Preloaded == <<-1, 0>>

\* Power-up in an autonomous boot mode, or a loader that was preloaded with
\* its firmware, when SCRATCH[0] holds an (even) entry point.
Init == /\ disk \in Disks
        /\ \/ pc = "sig" /\ who = "rom" /\ gp = "rom"
              /\ copied = [w \in Searches |-> NoCopy]
           \/ pc = "main" /\ who = "dtb" /\ gp = "zsl"
              /\ copied = [w \in Searches |-> IF w = "rom" THEN NoCopy ELSE Preloaded]
        /\ inread = FALSE
        /\ p = 0 /\ dim = <<0, 0>> /\ lba = <<0, MaxLbas["rom"] - 1>>
        /\ scratch = [r0 |-> 0, r3 |-> "none"]
        /\ sigFailed = FALSE

Count == Len(disk.parts)

-----------------------------------------------------------------------------
(* The read function, called directly or through grread.                   *)

\* gprw leaves the pointer alone if the new one is null.
EnterRead == /\ pc \in ReadPlaces /\ ~inread
             /\ inread' = TRUE
             /\ gp' = IF who = "rom" \/ scratch.r3 = "none" THEN gp ELSE scratch.r3
             /\ UNCHANGED <<disk, who, pc, p, dim, lba, scratch, copied, sigFailed>>

Return(place) == /\ pc = place /\ inread
                 /\ inread' = FALSE
                 /\ gp' = IF who = "rom" THEN gp ELSE "zsl"
                 /\ UNCHANGED disk

\* A failed search ends main with an error, or the loader in a message.
ReadFails == /\ pc \in {"hdr", "entry", "guid"} \union (IF who = "rom" THEN {"copy"} ELSE {})
             /\ Return(pc)
             /\ pc' = IF who = "rom" THEN "error" ELSE "spin"
             /\ UNCHANGED <<who, p, dim, lba, scratch, copied, sigFailed>>

-----------------------------------------------------------------------------
(* gpt_check_signature and gpt_find_partition.                             *)

\* A failed read counts as no signature; a raw disk is copied from block 0.
CheckSignature(ok) == /\ Return("sig")
                      /\ sigFailed' = ~ok
                      /\ pc' = IF ok /\ disk.signed THEN "hdr" ELSE "copy"
                      /\ UNCHANGED <<who, p, dim, lba, scratch, copied>>

\* No viable partition: the boot ROM copies what lba holds.
Missing == pc' = IF who = "rom" THEN "copy" ELSE "spin"

ReadHeader == /\ Return("hdr")
              /\ p' = 0
              /\ IF Count > 0 THEN pc' = "entry" ELSE Missing
              /\ UNCHANGED <<who, dim, lba, scratch, copied, sigFailed>>

NextEntry == IF p + 1 < Count THEN pc' = "entry" /\ p' = p + 1
             ELSE Missing /\ UNCHANGED p

\* Variant for TLC: the end of the range is taken to be past it.
FitsExclusive(d) == (d[2] - d[1]) % LbaMod <= MaxLbas[who]

Fits(d) == (d[2] - d[1]) % LbaMod < MaxLbas[who]

\* At most MaxLbas blocks of the first partition.
FirstChunk(d) == LET limit == (d[1] + MaxLbas[who] - 1) % LbaMod
                 IN  <<d[1], IF d[2] <= limit THEN d[2] ELSE limit>>

ReadEntry == /\ Return("entry")
             /\ LET e == disk.parts[p + 1]
                    d == <<e.begin, e.end>>
                IN  /\ dim' = d
                    /\ lba' = IF p = 0 THEN FirstChunk(d) ELSE lba
                    /\ IF Fits(d) THEN pc' = "guid" /\ UNCHANGED p ELSE NextEntry
             /\ UNCHANGED <<who, scratch, copied, sigFailed>>

\* Variant for TLC: the search goes on, so that the last match counts.
MatchGuidLast == /\ Return("guid")
                 /\ lba' = IF disk.parts[p + 1].type = PartType(who) THEN dim ELSE lba
                 /\ IF p + 1 < Count THEN pc' = "entry" /\ p' = p + 1
                    ELSE pc' = "copy" /\ UNCHANGED p
                 /\ UNCHANGED <<who, dim, scratch, copied, sigFailed>>

MatchGuid == /\ Return("guid")
             /\ IF disk.parts[p + 1].type = PartType(who)
                THEN /\ lba' = dim
                     /\ pc' = "copy"
                     /\ UNCHANGED p
                ELSE /\ NextEntry
                     /\ UNCHANGED lba
             /\ UNCHANGED <<who, dim, scratch, copied, sigFailed>>

-----------------------------------------------------------------------------
(* gpt_boot_part_else_raw and load_part_or_spin.                           *)

NumLbas == (lba[2] - lba[1] + 1) % LbaMod

\* The loader does not look at what its copy returned.
Copy(ok) == /\ Return("copy")
            /\ ~ok => who # "rom"
            /\ copied' = [copied EXCEPT ![who] = IF ok THEN <<lba[1], NumLbas>> ELSE Junk]
            /\ CASE who = "rom" -> pc' = "handover" /\ UNCHANGED who
                 [] who = "dtb" -> pc' = "hdr" /\ who' = "fw"
                 [] who = "fw"  -> pc' = "launch" /\ UNCHANGED who
            /\ UNCHANGED <<p, dim, lba, scratch, sigFailed>>

\* What was copied is a whole zero-stage loader.
IsLoader == \E i \in 1 .. Count :
               /\ disk.parts[i].type = "zsl"
               /\ copied["rom"] = <<disk.parts[i].begin,
                                    disk.parts[i].end - disk.parts[i].begin + 1>>

\* Variant for TLC: the global pointer is not passed on.
HandoverNoGp == /\ pc = "handover"
                /\ scratch' = [r0 |-> 1, r3 |-> "none"]
                /\ pc' = IF IsLoader THEN "main" ELSE "payload"
                /\ gp' = "zsl"
                /\ UNCHANGED <<disk, who, inread, p, dim, lba, copied, sigFailed>>

\* The read function, its argument and the global pointer are published, and
\* the code is launched; its crt0 sets up its own global pointer.
Handover == /\ pc = "handover"
            /\ scratch' = [r0 |-> 1, r3 |-> gp]
            /\ pc' = IF IsLoader THEN "main" ELSE "payload"
            /\ gp' = "zsl"
            /\ UNCHANGED <<disk, who, inread, p, dim, lba, copied, sigFailed>>

\* main of the loader: nothing is loaded without a read function.
LoaderMain == /\ pc = "main"
              /\ IF scratch.r0 % 2 = 1 THEN pc' = "hdr" /\ who' = "dtb"
                 ELSE pc' = "launch" /\ UNCHANGED who
              /\ UNCHANGED <<disk, inread, gp, p, dim, lba, scratch, copied, sigFailed>>

LaunchFirmware == /\ pc = "launch"
                  /\ pc' = "firmware"
                  /\ UNCHANGED <<disk, who, inread, gp, p, dim, lba, scratch, copied, sigFailed>>

-----------------------------------------------------------------------------
Next == \/ EnterRead
        \/ ReadFails
        \/ \E ok \in BOOLEAN : CheckSignature(ok)
        \/ ReadHeader
        \/ ReadEntry
        \/ MatchGuid
        \/ \E ok \in BOOLEAN : Copy(ok)
        \/ Handover
        \/ LoaderMain
        \/ LaunchFirmware

Spec == Init /\ [][Next]_vars

-----------------------------------------------------------------------------
(* Properties.                                                             *)

Size(e) == e.end - e.begin + 1

\* Partitions a search may pick, by their definition: of the right type, not
\* inverted, and not too large.
Viable(w) == {i \in 1 .. Count : /\ disk.parts[i].type = PartType(w)
                                 /\ Size(disk.parts[i]) \in 1 .. MaxLbas[w]}

FirstViable(w) == CHOOSE i \in Viable(w) : \A j \in Viable(w) : i <= j
Whole(i) == <<disk.parts[i].begin, Size(disk.parts[i])>>

NoTable == sigFailed \/ ~disk.signed \/ Count = 0

RomCopy == IF NoTable THEN <<0, MaxLbas["rom"]>>
           ELSE IF Viable("rom") # {} THEN Whole(FirstViable("rom"))
           ELSE <<disk.parts[1].begin,
                  LET n == Size(disk.parts[1])
                  IN  IF n <= MaxLbas["rom"] THEN n ELSE MaxLbas["rom"]>>

\* The disk has no viable loader partition and its first one is inverted.
Unlimited == ~NoTable /\ Viable("rom") = {} /\ Size(disk.parts[1]) < 0

\* The boot ROM runs the first viable loader partition; without one the
\* beginning of the first partition, "at most a `max_lbas` chunk"
\* (gpt.c:34); without a partition or a readable signature the beginning of
\* the disk.  Excepted is an inverted first partition that is to be run: the
\* minimum of gpt.c:48 is its end, so that its length wraps and is copied
\* without a limit.
BootChoice ==
    pc \in {"handover", "main", "payload"} /\ copied["rom"] # NoCopy /\ ~Unlimited =>
      copied["rom"] = RomCopy

\* The firmware is only entered with itself and its device tree completely
\* loaded, each from the first viable partition of its type, unless a copy
\* failed, which the loader does not notice (zsl.c:33-51, 83-91).
FirmwareComplete ==
    pc = "firmware" => \A w \in {"dtb", "fw"} :
        \/ copied[w] \in {Preloaded, Junk}
        \/ Viable(w) # {} /\ copied[w] = Whole(FirstViable(w))

\* The read function always runs on the boot ROM's global pointer and the
\* loader always on its own, whoever calls it and whether or not it fails.
GpDiscipline == /\ inread => gp = "rom"
                /\ who # "rom" /\ ~inread => gp = "zsl"
=============================================================================
