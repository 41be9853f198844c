----------------------------- MODULE Tables_proofs -----------------------------
(***************************************************************************)
(* Proofs about the components that go by tables, for any disks, files,    *)
(* configurations and limits: the partition table that the boot loaders    *)
(* search (GptBoot), the program headers that the simulation loads an      *)
(* image by (Preload), and the address maps that lead an access to its     *)
(* device (SocMap).                                                        *)
(***************************************************************************)
EXTENDS GptBoot, Preload, SocMap, FiniteSetTheorems, SequenceTheorems, TLAPS

-----------------------------------------------------------------------------
(* The partition table search and the start of the firmware.               *)

Places == ReadPlaces \union
          {"handover", "main", "payload", "launch", "firmware", "error", "spin"}
Range2 == Int \X Int

Types == /\ disk \in Disks /\ who \in Searches /\ pc \in Places /\ inread \in BOOLEAN
         /\ scratch.r0 \in {0, 1} /\ sigFailed \in BOOLEAN
         /\ p \in Nat /\ dim \in Range2 /\ lba \in Range2
         /\ copied \in [Searches -> Range2]

\* Whose pointer is where, and that the loader has the boot ROM's to hand
\* whenever it can come to read.
Pointers ==
    /\ pc \in ReadPlaces \union {"handover"} /\ who = "rom" => gp = "rom"
    /\ who # "rom" /\ ~inread => gp = "zsl"
    /\ who # "rom" /\ pc \in ReadPlaces => scratch.r3 = "rom"
    /\ pc = "main" => gp = "zsl" /\ (scratch.r0 = 1 => scratch.r3 = "rom")
    /\ pc = "launch" => gp = "zsl"
    /\ pc = "handover" => who = "rom"
    /\ inread => gp = "rom" /\ pc \in ReadPlaces

Extent(i) == <<disk.parts[i].begin, disk.parts[i].end>>

\* The beginning of the first partition, as far as the boot ROM accepts it.
RomChunk == LET limit == (disk.parts[1].begin + MaxLbas["rom"] - 1) % LbaMod
            IN  <<disk.parts[1].begin,
                  IF disk.parts[1].end <= limit THEN disk.parts[1].end ELSE limit>>

\* What a search is to find.
Found(w) ==
    IF w = "rom" /\ NoTable THEN lba = <<0, MaxLbas["rom"] - 1>>
    ELSE \/ \E i \in Viable(w) : lba = Extent(i) /\ \A j \in 1 .. i - 1 : j \notin Viable(w)
         \/ w = "rom" /\ Viable(w) = {} /\ lba = RomChunk

\* A search has passed over no viable partition, and the boot ROM's has the
\* first one to fall back on.
Search ==
    /\ pc \in {"entry", "guid"} => p < Count /\ \A j \in 1 .. p : j \notin Viable(who)
    /\ pc = "guid" => dim = Extent(p + 1) /\ Fits(dim)
    /\ who = "rom" /\ pc \in {"hdr", "entry", "guid"} => ~sigFailed /\ disk.signed
    /\ who = "rom" /\ pc \in {"sig", "hdr"} => lba = <<0, MaxLbas["rom"] - 1>>
    /\ who = "rom" /\ (pc = "guid" \/ (pc = "entry" /\ p > 0)) => lba = RomChunk
    /\ pc = "copy" => Found(who)
    /\ pc = "sig" => who = "rom"

Good(w) == \/ copied[w] \in {Preloaded, Junk}
           \/ Viable(w) # {} /\ copied[w] = Whole(FirstViable(w))

\* What the copies made so far hold.
Loaded ==
    /\ copied["rom"] \in {NoCopy, RomCopy} \/ Unlimited
    /\ pc = "sig" => copied["rom"] = NoCopy
    /\ who = "fw" => Good("dtb")
    /\ pc \in {"launch", "firmware"} => Good("dtb") /\ Good("fw")
    /\ pc = "main" /\ scratch.r0 # 1 => copied["dtb"] = Preloaded /\ copied["fw"] = Preloaded

IInv == Types /\ Pointers /\ Search /\ Loaded

-----------------------------------------------------------------------------
(* Arithmetic of block numbers.                                            *)

LEMMA Mods ==
  ASSUME NEW m \in Nat \ {0}, NEW a \in Int
  PROVE  /\ 0 <= a /\ a < m => a % m = a
         /\ a < 0 /\ 0 - m <= a => a % m = a + m
  OBVIOUS

LEMMA Limits ==
  LbaMod \in Nat \ {0} /\ \A w \in Searches : MaxLbas[w] \in 1 .. LbaMod - 1
  BY GptAssumption DEF Searches

LEMMA SeqAt ==
  ASSUME NEW S, NEW q \in Seq(S), NEW i \in 1 .. Len(q)
  PROVE  q[i] \in S
  OBVIOUS

LEMMA DiskFacts ==
  ASSUME disk \in Disks
  PROVE  /\ Count \in Nat /\ disk.signed \in BOOLEAN
         /\ \A i \in 1 .. Count :
              /\ disk.parts[i].begin \in Nat /\ disk.parts[i].end \in 0 .. LbaMod - 1
              /\ \A w \in Searches : disk.parts[i].begin + MaxLbas[w] <= LbaMod
  <1>1. disk.parts \in Seq([begin : Nat, end : 0 .. LbaMod - 1, type : STRING])
    BY GptAssumption
  <1>2. disk.signed \in BOOLEAN
    BY GptAssumption, Zenon
  <1>3. ASSUME NEW i \in 1 .. Count PROVE disk.parts[i] \in [begin : Nat, end : 0 .. LbaMod - 1, type : STRING]
    BY <1>1, SeqAt, Zenon DEF Count
  <1>5. \A i \in 1 .. Count, w \in Searches : disk.parts[i].begin + MaxLbas[w] <= LbaMod
    BY GptAssumption DEF Count, Searches
  <1> QED
    BY <1>1, <1>2, <1>3, <1>5 DEF Count

\* The code's test and the definition of a viable partition agree.
LEMMA FitsViable ==
  ASSUME disk \in Disks, who \in Searches, NEW i \in 1 .. Count
  PROVE  Fits(Extent(i)) /\ disk.parts[i].type = PartType(who) <=> i \in Viable(who)
  <1> DEFINE b == disk.parts[i].begin
             e == disk.parts[i].end
             m == MaxLbas[who]
  <1>1. b \in Nat /\ e \in 0 .. LbaMod - 1 /\ b + m <= LbaMod /\ m \in 1 .. LbaMod - 1
        /\ LbaMod \in Nat \ {0}
    BY DiskFacts, Limits
  <1>2. (e - b) % LbaMod < m <=> e - b + 1 \in 1 .. m
    <2> HIDE DEF b, e, m
    <2>1. CASE e >= b
      <3>1. (e - b) % LbaMod = e - b
        BY <1>1, <2>1, Mods
      <3> QED
        BY <1>1, <2>1, <3>1
    <2>2. CASE e < b
      <3>1. (e - b) % LbaMod = e - b + LbaMod
        BY <1>1, <2>2, Mods
      <3> QED
        BY <1>1, <2>2, <3>1
    <2> QED
      BY <1>1, <2>1, <2>2
  <1> QED
    BY <1>2 DEF Fits, Extent, Viable, Size

LEMMA FirstFound ==
  ASSUME disk \in Disks, NEW w, NEW i \in Viable(w), \A j \in 1 .. i - 1 : j \notin Viable(w)
  PROVE  FirstViable(w) = i
  <1>1. Viable(w) \subseteq 1 .. Count /\ Count \in Nat
    BY DiskFacts DEF Viable
  <1>2. \A j \in Viable(w) : i <= j
    BY <1>1
  <1>3. \A k \in Viable(w) : (\A j \in Viable(w) : k <= j) => k = i
    BY <1>1, <1>2
  <1> QED
    BY <1>2, <1>3 DEF FirstViable

\* A viable partition is copied whole.
LEMMA WholeCopied ==
  ASSUME disk \in Disks, NEW w \in Searches, NEW i \in Viable(w), lba = Extent(i)
  PROVE  <<lba[1], NumLbas>> = Whole(i)
  <1>1. Size(disk.parts[i]) \in 1 .. MaxLbas[w] /\ MaxLbas[w] \in 1 .. LbaMod - 1
        /\ LbaMod \in Nat \ {0}
    BY Limits DEF Viable
  <1>2. lba[2] - lba[1] + 1 = Size(disk.parts[i])
    BY DEF Extent, Size
  <1>3. NumLbas = Size(disk.parts[i])
    BY <1>1, <1>2, Mods DEF NumLbas
  <1> QED
    BY <1>3 DEF Extent, Whole

LEMMA RomCopied ==
  ASSUME disk \in Disks, Found("rom"), ~Unlimited PROVE <<lba[1], NumLbas>> = RomCopy
  <1> DEFINE m == MaxLbas["rom"]
  <1>1. m \in 1 .. LbaMod - 1 /\ LbaMod \in Nat \ {0}
    BY Limits DEF Searches
  <1>2. CASE NoTable
    <2>1. lba = <<0, m - 1>>
      BY <1>2 DEF Found
    <2>2. NumLbas = m
      BY <1>1, <2>1, Mods DEF NumLbas
    <2> QED
      BY <1>2, <2>1, <2>2 DEF NoTable, RomCopy
  <1>3. CASE ~NoTable /\ Viable("rom") # {}
    <2>1. PICK i \in Viable("rom") : lba = Extent(i) /\ \A j \in 1 .. i - 1 : j \notin Viable("rom")
      BY <1>3 DEF Found
    <2>2. FirstViable("rom") = i
      BY <2>1, FirstFound
    <2>3. <<lba[1], NumLbas>> = Whole(i)
      BY <2>1, WholeCopied DEF Searches
    <2> QED
      BY <1>3, <2>2, <2>3 DEF NoTable, RomCopy
  <1>4. CASE ~NoTable /\ Viable("rom") = {}
    <2> DEFINE b == disk.parts[1].begin
               e == disk.parts[1].end
    <2>1. 1 \in 1 .. Count
      BY <1>4, DiskFacts DEF NoTable
    <2>2. b \in Nat /\ e \in 0 .. LbaMod - 1 /\ 0 <= e - b + 1 /\ b + m <= LbaMod
      BY <2>1, <1>4, DiskFacts, Limits DEF Searches, Unlimited, Size
    <2>3. lba = RomChunk
      BY <1>4 DEF Found
    <2> HIDE DEF m
    <2>4. (b + m - 1) % LbaMod = b + m - 1
      <3> HIDE DEF b, e
      <3>1. b + m - 1 \in Int /\ 0 <= b + m - 1 /\ b + m - 1 < LbaMod
        BY <1>1, <2>2
      <3> QED
        BY <1>1, <3>1, Mods
    <2>5. lba = <<b, IF e <= b + m - 1 THEN e ELSE b + m - 1>>
      BY <2>3, <2>4 DEF RomChunk, m
    <2>6. NumLbas = IF e - b + 1 <= m THEN e - b + 1 ELSE m
      <3>1. CASE e <= b + m - 1
        <4>1. lba[2] - lba[1] + 1 = e - b + 1
          BY <2>5, <3>1
        <4>2. (e - b + 1) % LbaMod = e - b + 1
          <5> HIDE DEF b, e
          <5>1. e - b + 1 \in Int /\ 0 <= e - b + 1 /\ e - b + 1 < LbaMod
            BY <1>1, <2>2, <3>1
          <5> QED
            BY <1>1, <5>1, Mods
        <4>3. e - b + 1 <= m
          BY <1>1, <2>2, <3>1
        <4> QED
          BY <4>1, <4>2, <4>3 DEF NumLbas
      <3>2. CASE ~(e <= b + m - 1)
        <4>1. lba[2] - lba[1] + 1 = m
          BY <1>1, <2>2, <2>5, <3>2
        <4>2. m % LbaMod = m
          BY <1>1, Mods
        <4>3. ~(e - b + 1 <= m)
          <5> HIDE DEF b, e
          <5> QED
            BY <1>1, <2>2, <3>2
        <4> QED
          BY <4>1, <4>2, <4>3 DEF NumLbas
      <3> QED
        BY <3>1, <3>2
    <2> QED
      BY <1>4, <2>5, <2>6 DEF NoTable, RomCopy, Size, m
  <1> QED
    BY <1>2, <1>3, <1>4

LEMMA FoundCopied ==
  ASSUME disk \in Disks, NEW w \in Searches, w # "rom", Found(w)
  PROVE  Viable(w) # {} /\ <<lba[1], NumLbas>> = Whole(FirstViable(w))
  <1>1. PICK i \in Viable(w) : lba = Extent(i) /\ \A j \in 1 .. i - 1 : j \notin Viable(w)
    BY DEF Found
  <1>2. FirstViable(w) = i
    BY <1>1, FirstFound
  <1> QED
    BY <1>1, <1>2, WholeCopied

\* What depends on the disk alone stays as it is.
LEMMA SameDisk ==
  ASSUME disk' = disk
  PROVE  /\ Count' = Count /\ RomChunk' = RomChunk
         /\ \A w : Viable(w)' = Viable(w) /\ FirstViable(w)' = FirstViable(w)
         /\ \A i : Whole(i)' = Whole(i) /\ Extent(i)' = Extent(i)
  BY Zenon DEF Count, RomChunk, Viable, FirstViable, Whole, Extent, Size

LEMMA NumLbasTyped ==
  ASSUME lba \in Range2 PROVE NumLbas \in Int
  BY Limits DEF NumLbas, Range2

-----------------------------------------------------------------------------
(* Types and pointers.                                                     *)

LEMMA InitTyped == Init => Types /\ Pointers
  <1> SUFFICES ASSUME Init PROVE Types /\ Pointers
    OBVIOUS
  <1>1. <<0, MaxLbas["rom"] - 1>> \in Range2
    BY Limits DEF Range2, Searches
  <1>2. copied \in [Searches -> Range2]
    <2>1. NoCopy \in Range2 /\ Preloaded \in Range2
      BY DEF NoCopy, Preloaded, Range2
    <2> QED
      BY <2>1 DEF Init
  <1>3. scratch.r0 = 0 /\ p = 0 /\ dim = <<0, 0>> /\ <<0, 0>> \in Range2
    BY DEF Init, Range2
  <1>4. disk \in Disks /\ who \in Searches /\ pc \in Places /\ scratch.r0 \in {0, 1}
        /\ p \in Nat /\ dim \in Range2 /\ lba \in Range2
    BY <1>1, <1>3 DEF Init, Places, ReadPlaces, Searches
  <1>5. inread \in BOOLEAN /\ sigFailed \in BOOLEAN
    BY Zenon DEF Init
  <1>6. Pointers
    BY <1>3 DEF Init, Pointers, ReadPlaces
  <1> QED
    BY <1>2, <1>4, <1>5, <1>6 DEF Types

LEMMA NextTyped ==
  ASSUME Types, Search, [Next]_vars
  PROVE  Types'
  <1> USE DEF Types, Places, ReadPlaces, Searches
  <1>1. CASE EnterRead
    BY <1>1 DEF EnterRead
  <1>2. CASE ReadFails
    BY <1>2 DEF ReadFails, Return
  <1>3. ASSUME NEW ok \in BOOLEAN, CheckSignature(ok) PROVE Types'
    BY <1>3, Zenon DEF CheckSignature, Return
  <1>4. CASE ReadHeader
    BY <1>4 DEF ReadHeader, Return, Missing
  <1>5. CASE ReadEntry
    <2> DEFINE part == disk.parts[p + 1]
    <2>1. part.begin \in Int /\ part.end \in Int /\ p \in Nat
      <3>1. p + 1 \in 1 .. Count
        BY <1>5, DiskFacts DEF ReadEntry, Return, Search
      <3> QED
        BY <3>1, DiskFacts
    <2>2. dim' = <<part.begin, part.end>> /\ lba' \in {FirstChunk(dim'), lba}
      BY <1>5 DEF ReadEntry
    <2> HIDE DEF part
    <2>3. FirstChunk(dim') \in Range2
      <3>1. (part.begin + MaxLbas[who] - 1) % LbaMod \in Int
        BY <2>1, Limits
      <3> QED
        BY <2>1, <2>2, <3>1 DEF FirstChunk, Range2
    <2>4. dim' \in Range2 /\ lba' \in Range2
      BY <2>1, <2>2, <2>3 DEF Range2
    <2>5. p' \in Nat /\ pc' \in {"entry", "guid", "copy", "spin"}
      BY <1>5, <2>1 DEF ReadEntry, NextEntry, Missing
    <2> QED
      BY <1>5, <2>4, <2>5 DEF ReadEntry, Return
  <1>6. CASE MatchGuid
    <2>1. lba' \in {dim, lba} /\ p' \in {p, p + 1} /\ pc' \in {"entry", "copy", "spin"}
      BY <1>6 DEF MatchGuid, NextEntry, Missing
    <2>2. lba' \in Range2 /\ p' \in Nat /\ pc' \in Places
      BY <2>1
    <2>3. UNCHANGED <<who, disk, dim, scratch, copied, sigFailed>> /\ inread' = FALSE
      BY <1>6 DEF MatchGuid, Return
    <2> QED
      BY <2>2, <2>3
  <1>7. ASSUME NEW ok \in BOOLEAN, Copy(ok) PROVE Types'
    <2>1. Junk \in Range2 /\ <<lba[1], NumLbas>> \in Range2
      BY NumLbasTyped DEF Range2, Junk
    <2>2. copied' \in [Searches -> Range2]
      BY <1>7, <2>1 DEF Copy
    <2>3. who' \in Searches /\ pc' \in {"handover", "hdr", "launch"}
      BY <1>7 DEF Copy
    <2> QED
      BY <1>7, <2>2, <2>3 DEF Copy, Return
  <1>8. CASE Handover
    BY <1>8 DEF Handover
  <1>9. CASE LoaderMain
    BY <1>9 DEF LoaderMain
  <1>10. CASE LaunchFirmware
    BY <1>10 DEF LaunchFirmware
  <1>11. CASE UNCHANGED vars
    BY <1>11 DEF vars
  <1> QED
    BY <1>1, <1>2, <1>3, <1>4, <1>5, <1>6, <1>7, <1>8, <1>9, <1>10, <1>11 DEF Next

LEMMA NextPointers ==
  ASSUME Types, Pointers, [Next]_vars
  PROVE  Pointers'
  <1> USE DEF Types, Places, ReadPlaces, Searches, Pointers
  <1>1. CASE EnterRead
    BY <1>1 DEF EnterRead
  <1>2. CASE ReadFails
    BY <1>2 DEF ReadFails, Return
  <1>3. ASSUME NEW ok \in BOOLEAN, CheckSignature(ok) PROVE Pointers'
    BY <1>3 DEF CheckSignature, Return
  <1>4. CASE ReadHeader
    BY <1>4 DEF ReadHeader, Return, Missing
  <1>5. CASE ReadEntry
    BY <1>5 DEF ReadEntry, Return, NextEntry, Missing
  <1>6. CASE MatchGuid
    BY <1>6 DEF MatchGuid, Return, NextEntry, Missing
  <1>7. ASSUME NEW ok \in BOOLEAN, Copy(ok) PROVE Pointers'
    BY <1>7 DEF Copy, Return
  <1>8. CASE Handover
    BY <1>8 DEF Handover
  <1>9. CASE LoaderMain
    BY <1>9 DEF LoaderMain
  <1>10. CASE LaunchFirmware
    BY <1>10 DEF LaunchFirmware
  <1>11. CASE UNCHANGED vars
    BY <1>11 DEF vars
  <1> QED
    BY <1>1, <1>2, <1>3, <1>4, <1>5, <1>6, <1>7, <1>8, <1>9, <1>10, <1>11 DEF Next

-----------------------------------------------------------------------------
(* The search.                                                             *)

\* The step to the next entry, from an entry that is not viable.
LEMMA NextEntrySearches ==
  ASSUME Types, NextEntry, UNCHANGED <<disk, who, sigFailed>>, p < Count,
         \A j \in 1 .. p + 1 : j \notin Viable(who),
         who = "rom" => lba' = RomChunk /\ ~sigFailed /\ disk.signed
  PROVE  Search'
  <1>1. Count \in Nat /\ p \in Nat /\ who \in Searches
    BY DiskFacts DEF Types
  <1>2. CASE p + 1 < Count
    <2>1. pc' = "entry" /\ p' = p + 1
      BY <1>2 DEF NextEntry
    <2> QED
      BY <1>1, <1>2, <2>1, SameDisk DEF Search
  <1>3. CASE ~(p + 1 < Count)
    <2>1. p + 1 = Count
      BY <1>1, <1>3
    <2>2. Viable(who) = {}
      BY <2>1 DEF Viable
    <2>3. pc' = IF who = "rom" THEN "copy" ELSE "spin"
      BY <1>3 DEF NextEntry, Missing
    <2>4. who = "rom" => ~NoTable
      BY <1>1, <2>1 DEF NoTable
    <2>5. who = "rom" => Found(who)'
      BY <2>2, <2>4, SameDisk DEF Found, NoTable
    <2> QED
      BY <2>3, <2>5 DEF Search
  <1> QED
    BY <1>2, <1>3

LEMMA NextSearch ==
  ASSUME Types, Search, [Next]_vars
  PROVE  Search'
  <1>1. CASE EnterRead
    BY <1>1, SameDisk DEF EnterRead, Search, Found, NoTable, Fits
  <1>2. CASE ReadFails
    BY <1>2 DEF ReadFails, Return, Search
  <1>3. ASSUME NEW ok \in BOOLEAN, CheckSignature(ok) PROVE Search'
    <2>1. who = "rom" /\ who' = "rom" /\ disk' = disk /\ lba' = <<0, MaxLbas["rom"] - 1>>
      BY <1>3 DEF CheckSignature, Return, Search
    <2>2. CASE ok /\ disk.signed
      <3>1. pc' = "hdr" /\ ~sigFailed'
        BY <1>3, <2>2 DEF CheckSignature
      <3> QED
        BY <2>1, <2>2, <3>1 DEF Search
    <2>3. CASE ~(ok /\ disk.signed)
      <3>1. pc' = "copy" /\ (sigFailed' \/ ~disk.signed)
        BY <1>3, <2>3 DEF CheckSignature
      <3> QED
        BY <2>1, <3>1 DEF Search, Found, NoTable
    <2> QED
      BY <2>2, <2>3
  <1>4. CASE ReadHeader
    <2>1. pc = "hdr" /\ p' = 0 /\ UNCHANGED <<disk, who, lba, sigFailed>> /\ Count \in Nat
      BY <1>4, DiskFacts DEF ReadHeader, Return, Types
    <2>2. CASE Count > 0
      <3>1. pc' = "entry"
        BY <1>4, <2>2 DEF ReadHeader
      <3> QED
        BY <2>1, <2>2, <3>1, SameDisk DEF Search
    <2>3. CASE ~(Count > 0)
      <3>1. pc' = (IF who = "rom" THEN "copy" ELSE "spin") /\ Count = 0
        BY <1>4, <2>1, <2>3 DEF ReadHeader, Missing
      <3> QED
        BY <2>1, <3>1, SameDisk DEF Search, Found, NoTable
    <2> QED
      BY <2>2, <2>3
  <1>5. CASE ReadEntry
    <2>1. pc = "entry" /\ UNCHANGED <<disk, who, sigFailed>>
      BY <1>5 DEF ReadEntry, Return
    <2>2. p < Count /\ p + 1 \in 1 .. Count /\ \A j \in 1 .. p : j \notin Viable(who)
      BY <2>1, DiskFacts DEF Search, Types
    <2>3. dim' = Extent(p + 1) /\ lba' = IF p = 0 THEN FirstChunk(Extent(p + 1)) ELSE lba
      BY <1>5 DEF ReadEntry, Extent
    <2>4. who = "rom" => lba' = RomChunk
      <3>1. who = "rom" => FirstChunk(Extent(1)) = RomChunk
        BY DEF FirstChunk, Extent, RomChunk
      <3>2. who = "rom" /\ p # 0 => lba = RomChunk
        BY <2>1 DEF Search, Types
      <3> QED
        BY <2>3, <3>1, <3>2
    <2>5. CASE Fits(Extent(p + 1))
      <3>1. pc' = "guid" /\ p' = p
        BY <1>5, <2>5 DEF ReadEntry, Extent
      <3>2. Extent(p + 1)' = dim' /\ Fits(dim)'
        BY <2>1, <2>3, <2>5, <3>1 DEF Fits, Extent
      <3>3. p' < Count' /\ \A j \in 1 .. p' : j \notin Viable(who)'
        BY <2>1, <2>2, <3>1, SameDisk
      <3>4. who = "rom" => ~sigFailed /\ disk.signed
        BY <2>1 DEF Search
      <3> QED
        BY <2>1, <2>4, <3>1, <3>2, <3>3, <3>4, SameDisk DEF Search
    <2>6. CASE ~Fits(Extent(p + 1))
      <3>1. NextEntry
        BY <1>5, <2>6 DEF ReadEntry, Extent
      <3>2. p + 1 \notin Viable(who)
        BY <2>2, <2>6, FitsViable DEF Types
      <3>3. \A j \in 1 .. p + 1 : j \notin Viable(who)
        BY <2>2, <3>2 DEF Types
      <3> QED
        BY <2>1, <2>2, <2>4, <3>1, <3>3, NextEntrySearches DEF Search
    <2> QED
      BY <2>5, <2>6
  <1>6. CASE MatchGuid
    <2>1. pc = "guid" /\ UNCHANGED <<disk, who, sigFailed>>
      BY <1>6 DEF MatchGuid, Return
    <2>2. p < Count /\ p + 1 \in 1 .. Count /\ \A j \in 1 .. p : j \notin Viable(who)
      BY <2>1, DiskFacts DEF Search, Types
    <2>3. dim = Extent(p + 1) /\ Fits(dim)
      BY <2>1 DEF Search
    <2>4. CASE disk.parts[p + 1].type = PartType(who)
      <3>1. pc' = "copy" /\ lba' = Extent(p + 1)
        BY <1>6, <2>3, <2>4 DEF MatchGuid
      <3>2. p + 1 \in Viable(who)
        BY <2>2, <2>3, <2>4, FitsViable DEF Types
      <3>3. \A j \in 1 .. (p + 1) - 1 : j \notin Viable(who)
        BY <2>2 DEF Types
      <3>4. who = "rom" => ~NoTable
        BY <2>1, <2>2, DiskFacts DEF Search, NoTable, Types
      <3>5. Found(who)'
        BY <2>1, <3>1, <3>2, <3>3, <3>4, SameDisk DEF Found, NoTable
      <3> QED
        BY <3>1, <3>5 DEF Search
    <2>5. CASE disk.parts[p + 1].type # PartType(who)
      <3>1. NextEntry /\ lba' = lba
        BY <1>6, <2>5 DEF MatchGuid
      <3>2. p + 1 \notin Viable(who)
        BY <2>5 DEF Viable
      <3>3. \A j \in 1 .. p + 1 : j \notin Viable(who)
        BY <2>2, <3>2 DEF Types
      <3>4. who = "rom" => lba = RomChunk /\ ~sigFailed /\ disk.signed
        BY <2>1 DEF Search
      <3> QED
        BY <2>1, <2>2, <3>1, <3>3, <3>4, NextEntrySearches
    <2> QED
      BY <2>4, <2>5
  <1>7. ASSUME NEW ok \in BOOLEAN, Copy(ok) PROVE Search'
    <2>1. \/ pc' = "hdr" /\ who' = "fw"
          \/ pc' \in {"handover", "launch"}
      BY <1>7 DEF Copy, Types, Searches
    <2> QED
      BY <2>1 DEF Search
  <1>8. CASE Handover
    BY <1>8 DEF Handover, Search
  <1>9. CASE LoaderMain
    BY <1>9 DEF LoaderMain, Search
  <1>10. CASE LaunchFirmware
    BY <1>10 DEF LaunchFirmware, Search
  <1>11. CASE UNCHANGED vars
    BY <1>11, SameDisk DEF vars, Search, Found, NoTable, Fits
  <1> QED
    BY <1>1, <1>2, <1>3, <1>4, <1>5, <1>6, <1>7, <1>8, <1>9, <1>10, <1>11 DEF Next

-----------------------------------------------------------------------------
(* What is loaded.                                                         *)

LEMMA SameLoaded ==
  ASSUME Loaded, UNCHANGED <<disk, who, copied, sigFailed>>, pc' # "sig" \/ pc = "sig",
         pc' \in {"launch", "firmware"} => Good("dtb") /\ Good("fw"),
         pc' = "main" => pc = "main" /\ scratch' = scratch
  PROVE  Loaded'
  <1>1. RomCopy' = RomCopy /\ (Unlimited' <=> Unlimited) /\ \A w : Good(w)' <=> Good(w)
    BY SameDisk, Zenon DEF RomCopy, Unlimited, NoTable, Good, Size
  <1> QED
    BY <1>1 DEF Loaded

LEMMA NextLoaded ==
  ASSUME Types, Pointers, Search, Loaded, [Next]_vars
  PROVE  Loaded'
  <1>1. CASE EnterRead
    BY <1>1, SameLoaded DEF EnterRead, ReadPlaces
  <1>2. CASE ReadFails
    BY <1>2, SameLoaded DEF ReadFails, Return
  <1>3. ASSUME NEW ok \in BOOLEAN, CheckSignature(ok) PROVE Loaded'
    <2>1. copied' = copied /\ copied["rom"] = NoCopy /\ who' = "rom"
      BY <1>3 DEF CheckSignature, Return, Loaded, Search
    <2>2. pc' \in {"hdr", "copy"}
      BY <1>3 DEF CheckSignature
    <2> QED
      BY <2>1, <2>2 DEF Loaded
  <1>4. CASE ReadHeader
    BY <1>4, SameLoaded DEF ReadHeader, Return, Missing
  <1>5. CASE ReadEntry
    BY <1>5, SameLoaded DEF ReadEntry, Return, NextEntry, Missing
  <1>6. CASE MatchGuid
    BY <1>6, SameLoaded DEF MatchGuid, Return, NextEntry, Missing
  <1>7. ASSUME NEW ok \in BOOLEAN, Copy(ok) PROVE Loaded'
    <2>1. pc = "copy" /\ Found(who) /\ UNCHANGED <<disk, sigFailed>>
          /\ copied' = [copied EXCEPT ![who] = IF ok THEN <<lba[1], NumLbas>> ELSE Junk]
      BY <1>7 DEF Copy, Return, Search
    <2>2. RomCopy' = RomCopy /\ (Unlimited' <=> Unlimited)
      BY <2>1, SameDisk, Zenon DEF RomCopy, Unlimited, NoTable, Size
    <2>3. CASE who = "rom"
      <3>1. pc' = "handover" /\ who' = "rom" /\ ok = TRUE
        BY <1>7, <2>3 DEF Copy
      <3>2. copied'["rom"] = RomCopy \/ Unlimited
        BY <2>1, <2>3, <3>1, RomCopied DEF Types, Searches
      <3> QED
        BY <2>2, <3>1, <3>2 DEF Loaded
    <2>4. CASE who # "rom"
      <3>1. copied'["rom"] \in {NoCopy, RomCopy} \/ Unlimited
        BY <2>1, <2>4 DEF Loaded, Types, Searches
      <3>2. \A w \in Searches : w = who => Good(w)'
        <4> SUFFICES ASSUME NEW w \in Searches, w = who PROVE Good(w)'
          OBVIOUS
        <4>1. disk \in Disks /\ w # "rom" /\ Found(w)
          BY <2>1, <2>4 DEF Types
        <4>2. Viable(w) # {} /\ <<lba[1], NumLbas>> = Whole(FirstViable(w))
          BY <4>1, FoundCopied, Zenon
        <4>3. copied'[w] \in {<<lba[1], NumLbas>>, Junk}
          BY <2>1 DEF Types
        <4>4. Viable(w)' # {} /\ Whole(FirstViable(w))' = Whole(FirstViable(w))
          BY <2>1, <4>2, SameDisk
        <4> QED
          BY <4>2, <4>3, <4>4 DEF Good
      <3>3. CASE who = "dtb"
        <4>1. pc' = "hdr" /\ who' = "fw"
          BY <1>7, <3>3 DEF Copy
        <4>2. Good("dtb")'
          BY <3>2, <3>3 DEF Searches
        <4> QED
          BY <2>2, <3>1, <4>1, <4>2 DEF Loaded
      <3>4. CASE who = "fw"
        <4>1. pc' = "launch" /\ who' = "fw"
          BY <1>7, <3>4 DEF Copy
        <4>2. copied'["dtb"] = copied["dtb"] /\ Good("dtb")
          BY <2>1, <3>4 DEF Loaded, Types, Searches
        <4>3. Good("dtb")'
          BY <2>1, <4>2, SameDisk DEF Good
        <4>4. Good("fw")'
          BY <3>2, <3>4 DEF Searches
        <4> QED
          BY <2>2, <3>1, <4>1, <4>3, <4>4 DEF Loaded
      <3> QED
        BY <2>4, <3>3, <3>4 DEF Types, Searches
    <2> QED
      BY <2>3, <2>4
  <1>8. CASE Handover
    <2>1. pc' \in {"main", "payload"} /\ scratch'.r0 = 1
          /\ UNCHANGED <<disk, who, copied, sigFailed>>
      BY <1>8 DEF Handover
    <2>2. RomCopy' = RomCopy /\ (Unlimited' <=> Unlimited) /\ \A w : Good(w)' <=> Good(w)
      BY <2>1, SameDisk, Zenon DEF RomCopy, Unlimited, NoTable, Good, Size
    <2> QED
      BY <2>1, <2>2 DEF Loaded
  <1>9. CASE LoaderMain
    <2>1. pc = "main" /\ UNCHANGED <<disk, copied, sigFailed>>
      BY <1>9 DEF LoaderMain
    <2>2. RomCopy' = RomCopy /\ (Unlimited' <=> Unlimited) /\ \A w : Good(w)' <=> Good(w)
      BY <2>1, SameDisk, Zenon DEF RomCopy, Unlimited, NoTable, Good, Size
    <2>3. CASE scratch.r0 = 1
      <3>1. pc' = "hdr" /\ who' = "dtb"
        BY <1>9, <2>3 DEF LoaderMain
      <3> QED
        BY <2>1, <2>2, <3>1 DEF Loaded
    <2>4. CASE scratch.r0 = 0
      <3>1. pc' = "launch" /\ who' = who
        BY <1>9, <2>4 DEF LoaderMain
      <3>2. Good("dtb") /\ Good("fw")
        BY <2>1, <2>4 DEF Loaded, Good
      <3> QED
        BY <2>1, <2>2, <3>1, <3>2 DEF Loaded
    <2> QED
      BY <2>3, <2>4 DEF Types
  <1>10. CASE LaunchFirmware
    BY <1>10, SameLoaded DEF LaunchFirmware, Loaded
  <1>11. CASE UNCHANGED vars
    BY <1>11, SameLoaded DEF vars, Loaded
  <1> QED
    BY <1>1, <1>2, <1>3, <1>4, <1>5, <1>6, <1>7, <1>8, <1>9, <1>10, <1>11 DEF Next

LEMMA InitInv == Init => IInv
  <1> SUFFICES ASSUME Init PROVE Search /\ Loaded
    BY InitTyped DEF IInv
  <1>1. Search
    BY DEF Init, Search
  <1>2. copied["rom"] = NoCopy
    BY DEF Init, Searches
  <1>3. pc = "main" => copied["dtb"] = Preloaded /\ copied["fw"] = Preloaded
    BY DEF Init, Searches
  <1>4. who # "fw" /\ pc \in {"sig", "main"}
    BY DEF Init
  <1> QED
    BY <1>1, <1>2, <1>3, <1>4 DEF Loaded

\* The inductive invariant of the table search and the start of the firmware.
THEOREM Invariance == Spec => []IInv
  <1>1. IInv /\ [Next]_vars => IInv'
    BY NextTyped, NextPointers, NextSearch, NextLoaded DEF IInv
  <1> QED
    BY <1>1, InitInv, PTL DEF Spec

-----------------------------------------------------------------------------
(* The theorems.                                                           *)

\* The read function runs on the boot ROM's global pointer and the loader on
\* its own (gprw of zsl.c), for any disk.
THEOREM PointersCorrect == Spec => []GpDiscipline
  <1>1. IInv => GpDiscipline
    BY DEF IInv, Pointers, GpDiscipline
  <1> QED
    BY <1>1, Invariance, PTL

\* The boot ROM copies the first viable loader partition whole, or else what
\* gpt_boot_part_else_raw promises, for any disk and limit; an inverted first
\* partition that is to be run is excepted (gpt.c:48).
THEOREM BootCorrect == Spec => []BootChoice
  <1>1. IInv => BootChoice
    BY DEF IInv, Loaded, BootChoice
  <1> QED
    BY <1>1, Invariance, PTL

\* The loader enters a firmware whose parts are complete, or whose copy failed.
THEOREM FirmwareCorrect == Spec => []FirmwareComplete
  <1>1. IInv => FirmwareComplete
    BY DEF IInv, Loaded, Good, FirmwareComplete
  <1> QED
    BY <1>1, Invariance, PTL

-----------------------------------------------------------------------------
(* Induction, and selections from a table.                                 *)

\* Every set of natural numbers that is not empty has a least one: of the
\* initial segments that end at a member, one is contained in no other.
LEMMA LeastMember ==
    ASSUME NEW T, T \subseteq Nat, T # {}
    PROVE  \E m \in T : \A n \in T : m <= n
  <1> DEFINE Below(n) == 1 .. n
             Segments == {Below(n) : n \in T}
             R == StrictSubsetOrdering(Nat)
             F == FiniteSubsetsOf(Nat)
  <1>1. Segments \subseteq F
    <2>1. \A n \in Nat : IsFiniteSet(1 .. n) /\ 1 .. n \subseteq Nat
      BY FS_Interval
    <2> QED BY <2>1 DEF FiniteSubsetsOf
  <1>2. IsWellFoundedOn(R, F)
    BY FS_StrictSubsetOrderingWellFounded
  <1>3. Segments # {}
    OBVIOUS
  <1>4. \E x \in Segments : \A y \in Segments : ~ (<<y, x>> \in R)
    <2> HIDE DEF Segments, R, F
    <2> QED BY <1>1, <1>2, <1>3, WFMin
  <1>5. PICK m \in T : \A n \in T : ~ (<<Below(n), Below(m)>> \in R)
    BY <1>4
  <1>6. ASSUME NEW n \in T, n < m PROVE FALSE
    <2>1. Below(n) \subseteq Below(m) /\ m \in Below(m) /\ m \notin Below(n) /\ Below(m) \subseteq Nat
      BY <1>6
    <2>2. <<Below(n), Below(m)>> \in R
      <3> HIDE DEF Below
      <3> QED BY <2>1 DEF StrictSubsetOrdering
    <2> QED BY <1>5, <2>2
  <1> QED BY <1>5, <1>6

\* Induction on the natural numbers, for a set.
LEMMA Induction ==
    ASSUME NEW S, 0 \in S, \A n \in Nat : n \in S => n + 1 \in S
    PROVE  Nat \subseteq S
  <1> SUFFICES ASSUME Nat \ S # {} PROVE FALSE
    OBVIOUS
  <1>1. PICK m \in Nat \ S : \A n \in Nat \ S : m <= n
    BY LeastMember
  <1>2. m # 0 /\ m - 1 \in Nat
    BY <1>1
  <1>3. m - 1 \in S
    BY <1>1, <1>2
  <1> QED BY <1>1, <1>2, <1>3

\* r is the entries of s at the first n positions that are in keep.
Selects(r, s, keep, n) ==
    \E f \in [1 .. Len(r) -> 1 .. n] :
        /\ \A k \in 1 .. Len(r) : f[k] \in keep /\ r[k] = s[f[k]]
        /\ \A j, k \in 1 .. Len(r) : j < k => f[j] < f[k]
        /\ \A i \in 1 .. n : i \in keep => \E k \in 1 .. Len(r) : f[k] = i

\* The recursive function of Select exists.
LEMMA SelectDefined ==
    ASSUME NEW s, NEW keep, Len(s) \in Nat
    PROVE  \E t : /\ t = [n \in 0 .. Len(s) |->
                             IF n = 0 THEN <<>>
                             ELSE IF n \in keep THEN Append(t[n - 1], s[n]) ELSE t[n - 1]]
                  /\ Select(s, keep) = t[Len(s)]
  <1> DEFINE Rec(t, m) == t = [n \in 0 .. m |->
                                 IF n = 0 THEN <<>>
                                 ELSE IF n \in keep THEN Append(t[n - 1], s[n]) ELSE t[n - 1]]
             Defined == {m \in Nat : \E t : Rec(t, m)}
  <1>1. 0 \in Defined
    <2>1. Rec([n \in 0 .. 0 |-> <<>>], 0)
      OBVIOUS
    <2> HIDE DEF Rec
    <2> QED BY <2>1
  <1>2. ASSUME NEW m \in Nat, m \in Defined PROVE m + 1 \in Defined
    <2>1. PICK t : Rec(t, m)
      BY <1>2
    <2> DEFINE last == IF m + 1 \in keep THEN Append(t[m], s[m + 1]) ELSE t[m]
               u == [n \in 0 .. m + 1 |-> IF n = m + 1 THEN last ELSE t[n]]
    <2>2. Rec(u, m + 1)
      <3>1. \A n \in 0 .. m : t[n] = IF n = 0 THEN <<>>
                                     ELSE IF n \in keep THEN Append(t[n - 1], s[n]) ELSE t[n - 1]
        BY <2>1
      <3>2. \A n \in 0 .. m : u[n] = t[n]
        OBVIOUS
      <3>3. u[m + 1] = last
        OBVIOUS
      <3>4. \A n \in 1 .. m + 1 : n - 1 \in 0 .. m
        OBVIOUS
      <3>5. u[m] = t[m]
        BY <3>2
      <3>6. ASSUME NEW n \in 0 .. m + 1
            PROVE  u[n] = IF n = 0 THEN <<>>
                          ELSE IF n \in keep THEN Append(u[n - 1], s[n]) ELSE u[n - 1]
        <4>1. CASE n = m + 1
          <5> HIDE DEF u
          <5>1. n # 0 /\ n - 1 = m
            BY <4>1
          <5> QED BY <4>1, <5>1, <3>3, <3>5
        <4>2. CASE n # m + 1
          <5> HIDE DEF u
          <5>1. n \in 0 .. m /\ u[n] = t[n]
            BY <4>2, <3>2
          <5>2. n # 0 => u[n - 1] = t[n - 1]
            BY <5>1, <3>2, <3>4
          <5> QED BY <5>1, <5>2, <3>1
        <4> QED BY <4>1, <4>2
      <3> QED BY <3>6
    <2> HIDE DEF Rec, u
    <2> QED BY <2>2
  <1>3. Len(s) \in Defined
    <2> HIDE DEF Defined
    <2> QED BY <1>1, <1>2, Induction
  <1>4. \E t : Rec(t, Len(s))
    BY <1>3
  <1> DEFINE c == CHOOSE t : Rec(t, Len(s))
  <1>5. Rec(c, Len(s))
    <2> HIDE DEF Rec
    <2> QED BY <1>4
  <1>6. Select(s, keep) = c[Len(s)]
    BY DEF Select
  <1> HIDE DEF c
  <1> QED BY <1>5, <1>6

\* Select returns the entries it is asked for, each once, in their order.
LEMMA Selected ==
    ASSUME NEW S, NEW s \in Seq(S), NEW keep
    PROVE  /\ Select(s, keep) \in Seq(S)
           /\ Selects(Select(s, keep), s, keep, Len(s))
  <1>1. Len(s) \in Nat
    OBVIOUS
  <1>2. PICK t : /\ t = [n \in 0 .. Len(s) |->
                           IF n = 0 THEN <<>>
                           ELSE IF n \in keep THEN Append(t[n - 1], s[n]) ELSE t[n - 1]]
                 /\ Select(s, keep) = t[Len(s)]
    BY <1>1, SelectDefined
  <1> DEFINE Right(n) == t[n] \in Seq(S) /\ Selects(t[n], s, keep, n)
             Upto == {n \in Nat : n <= Len(s) => Right(n)}
  <1>3. 0 \in Upto
    <2>1. t[0] = <<>>
      BY <1>1, <1>2
    <2>2. Selects(<<>>, s, keep, 0)
      <3>1. [k \in 1 .. Len(<<>>) |-> 0] \in [1 .. Len(<<>>) -> 1 .. 0]
        OBVIOUS
      <3>2. 1 .. Len(<<>>) = {} /\ 1 .. 0 = {}
        OBVIOUS
      <3> QED BY <3>1, <3>2, Zenon DEF Selects
    <2>3. <<>> \in Seq(S)
      OBVIOUS
    <2>4. Right(0)
      BY <2>1, <2>2, <2>3
    <2> HIDE DEF Right
    <2> QED BY <2>4
  <1>4. ASSUME NEW n \in Nat, n \in Upto PROVE n + 1 \in Upto
    <2> SUFFICES ASSUME n + 1 <= Len(s) PROVE Right(n + 1)
      OBVIOUS
    <2>1. t[n] \in Seq(S) /\ Selects(t[n], s, keep, n)
      BY <1>4, <1>1
    <2>2. t[n + 1] = IF n + 1 \in keep THEN Append(t[n], s[n + 1]) ELSE t[n]
      <3>1. n + 1 \in 0 .. Len(s) /\ n + 1 # 0 /\ (n + 1) - 1 = n
        BY <1>1
      <3> QED BY <3>1, <1>2
    <2> DEFINE r == t[n]
    <2>3. PICK f \in [1 .. Len(r) -> 1 .. n] :
            /\ \A k \in 1 .. Len(r) : f[k] \in keep /\ r[k] = s[f[k]]
            /\ \A j, k \in 1 .. Len(r) : j < k => f[j] < f[k]
            /\ \A i \in 1 .. n : i \in keep => \E k \in 1 .. Len(r) : f[k] = i
      BY <2>1 DEF Selects
    <2>4. CASE n + 1 \notin keep
      <3>1. t[n + 1] = r
        BY <2>2, <2>4
      <3>2. f \in [1 .. Len(r) -> 1 .. n + 1]
        <4>1. 1 .. n \subseteq 1 .. n + 1
          OBVIOUS
        <4> QED BY <4>1, <2>3
      <3>3. Selects(r, s, keep, n + 1)
        <4>1. \A i \in 1 .. n + 1 : i \in keep => i \in 1 .. n
          BY <2>4
        <4> HIDE DEF r
        <4> QED BY <3>2, <2>3, <4>1 DEF Selects
      <3> QED BY <3>1, <3>3, <2>1
    <2>5. CASE n + 1 \in keep
      <3> DEFINE q == Append(r, s[n + 1])
                 g == [k \in 1 .. Len(r) + 1 |-> IF k = Len(r) + 1 THEN n + 1 ELSE f[k]]
      <3>1. t[n + 1] = q
        BY <2>2, <2>5
      <3>2. s[n + 1] \in S
        BY <1>1
      <3>3. r \in Seq(S) /\ Len(r) \in Nat
        BY <2>1
      <3>4. /\ q \in Seq(S) /\ Len(q) = Len(r) + 1
            /\ \A k \in 1 .. Len(r) : q[k] = r[k]
            /\ q[Len(r) + 1] = s[n + 1]
        <4> HIDE DEF r
        <4> QED BY <3>2, <3>3
      <3> HIDE DEF q, r
      <3>5. \A k \in 1 .. Len(r) : g[k] = f[k] /\ f[k] \in 1 .. n
        BY <2>3, <3>3
      <3>6. g[Len(r) + 1] = n + 1
        BY <3>3
      <3>7. \A k \in 1 .. Len(r) + 1 : k = Len(r) + 1 \/ k \in 1 .. Len(r)
        BY <3>3
      <3>8. g \in [1 .. Len(q) -> 1 .. n + 1]
        BY <3>4, <3>5, <3>7
      <3> HIDE DEF g
      <3>9. \A k \in 1 .. Len(q) : g[k] \in keep /\ q[k] = s[g[k]]
        BY <3>4, <3>5, <3>6, <3>7, <2>3, <2>5
      <3>10. \A j, k \in 1 .. Len(q) : j < k => g[j] < g[k]
        <4> SUFFICES ASSUME NEW j \in 1 .. Len(q), NEW k \in 1 .. Len(q), j < k PROVE g[j] < g[k]
          OBVIOUS
        <4>1. j \in 1 .. Len(r)
          BY <3>3, <3>4
        <4>2. CASE k = Len(r) + 1
          BY <4>1, <4>2, <3>5, <3>6
        <4>3. CASE k \in 1 .. Len(r)
          BY <4>1, <4>3, <3>5, <2>3
        <4> QED BY <4>2, <4>3, <3>4, <3>7
      <3>11. \A i \in 1 .. n + 1 : i \in keep => \E k \in 1 .. Len(q) : g[k] = i
        <4> SUFFICES ASSUME NEW i \in 1 .. n + 1, i \in keep PROVE \E k \in 1 .. Len(q) : g[k] = i
          OBVIOUS
        <4>1. CASE i = n + 1
          BY <4>1, <3>3, <3>4, <3>6
        <4>2. CASE i # n + 1
          <5>1. PICK k \in 1 .. Len(r) : f[k] = i
            BY <4>2, <2>3
          <5>2. k \in 1 .. Len(q) /\ g[k] = i
            BY <5>1, <3>3, <3>4, <3>5
          <5> QED BY <5>2
        <4> QED BY <4>1, <4>2
      <3>12. Selects(q, s, keep, n + 1)
        BY <3>8, <3>9, <3>10, <3>11 DEF Selects
      <3> QED BY <3>1, <3>4, <3>12
    <2> QED BY <2>4, <2>5
  <1>5. Len(s) \in Upto
    <2> HIDE DEF Upto
    <2> QED BY <1>1, <1>3, <1>4, Induction
  <1> QED BY <1>1, <1>2, <1>5

-----------------------------------------------------------------------------
(* Loading an ELF file over the debug module or the serial link.           *)

\* Files whose segments become sections; any other stops the simulation or
\* is passed over.
Given(f) == f.elf /\ f.table /\ f.fits

Tasks == {"idle", "sections", "write", "fatal"}
Bytes == Nat \X Nat

PreloadTypes ==
    /\ file \in Files \union {NoFile} /\ host \in Hosts /\ task \in Tasks /\ preloads \in Nat
    /\ sections \in Seq([addr : Addr, len : Nat])
    /\ section_index \in 0 .. Len(sections)
    /\ \A a \in DOMAIN mems : mems[a] \in Seq(Bytes)
    /\ \A i \in 1 .. Len(sections) : sections[i].addr \in DOMAIN mems
    /\ mem \in [Addr -> Bytes]

\* Sections of earlier files.
Base == Len(sections) - Len(Segs(file))

\* A loader at rest has handed out every section; the present file's are the
\* last ones, with the contents that were inserted first for their addresses.
Sections ==
    /\ task = "idle" => section_index = Len(sections)
    /\ preloads = 0 => task = "idle" /\ mem = before.mem
    /\ task # "idle" => preloads > 0
    /\ (preloads > 0 /\ task # "fatal" /\ ~file.table) => section_index = Len(sections)
    /\ (preloads > 0 /\ task # "fatal" /\ file.table) =>
         /\ Given(file) /\ file \in Files
         /\ 0 <= Base /\ Base <= section_index
         /\ \A i \in 1 .. Len(Segs(file)) :
               LET s == Segs(file)[i]
               IN  /\ sections[Base + i] = [addr |-> s.addr, len |-> s.memsz]
                   /\ s.addr \in DOMAIN mems
                   /\ s.addr \notin before.known =>
                         mems[s.addr] = Data(file, Segs(file)[First(file, s.addr)])
         /\ entry = file.entry
    /\ (task = "idle" /\ preloads > 0) => got = entry

\* The segment whose section was handed out last.
Current == Segs(file)[section_index - Base]

Step == IF host = "jtag" THEN Word ELSE Burst

\* The section being written.
Buffer ==
    task = "write" =>
      /\ file.table /\ section_index > Base
      /\ cur = [addr |-> Current.addr, len |-> Current.memsz]
      /\ Len(mems[cur.addr]) <= cur.len
      /\ bf = read_section(mems[cur.addr], cur.len)
      /\ off \in Nat /\ off <= cur.len /\ off % Step = 0

Image(f, s, o) == IF o < s.filesz THEN <<f.id, s.addr + o>> ELSE Zero

\* The first n bytes of a segment are in memory.
In(s, n) == (host = "slink" => TailReached(s)) =>
            \A o \in 0 .. s.memsz - 1 : o < n => mem[s.addr + o] = Image(file, s, o)

\* How far the section being written has come.
Lead == IF host = "slink" THEN bus_offset ELSE 0

Memory ==
    (preloads > 0 /\ task # "fatal" /\ ByWords /\ file.table /\ Ordered(file) /\ Fresh(file)) =>
      \A i \in 1 .. section_index - Base :
         In(Segs(file)[i], IF task = "write" /\ i = section_index - Base
                           THEN off - Lead ELSE Segs(file)[i].memsz)

PInv == PreloadTypes /\ Sections /\ Buffer /\ Memory /\ Footprint /\ StopsOnlyFor

-----------------------------------------------------------------------------
(* Segments and spans.                                                     *)

LEMMA PreloadConstants ==
    /\ Word \in Nat \ {0} /\ Burst \in Nat \ {0} /\ Burst % Word = 0 /\ MemTop \in Nat
    /\ Hosts \subseteq {"jtag", "uart", "slink"}
    /\ \A f \in Files \union {NoFile} : f \in FileType
    /\ \A f \in Files \union {NoFile} : \A i \in 1 .. Len(f.segs) :
          Loadable(f.segs[i]) => f.segs[i].addr + f.segs[i].memsz <= MemTop + 1
  <1>1. NoFile \in FileType
    BY PreloadAssumption DEF NoFile, FileType, Addr
  <1>2. Len(NoFile.segs) = 0
    BY DEF NoFile
  <1> QED
    BY <1>1, <1>2, PreloadAssumption

\* The sections of a file are its segments with data.
LEMMA SegsAre ==
    ASSUME NEW f \in Files \union {NoFile}
    PROVE  /\ Len(Segs(f)) \in Nat
           /\ \A i \in 1 .. Len(Segs(f)) :
                /\ Segs(f)[i] \in SegmentType /\ Loadable(Segs(f)[i])
                /\ Segs(f)[i].addr + Segs(f)[i].memsz <= MemTop + 1
           /\ \A k \in 1 .. Len(f.segs) : Loadable(f.segs[k]) =>
                \E i \in 1 .. Len(Segs(f)) : Segs(f)[i] = f.segs[k]
  <1> DEFINE keep == {i \in 1 .. Len(f.segs) : Loadable(f.segs[i])}
             r == Segs(f)
  <1>1. f.segs \in Seq(SegmentType)
    BY PreloadConstants DEF FileType
  <1>2. r \in Seq(SegmentType) /\ Selects(r, f.segs, keep, Len(f.segs))
    BY <1>1, Selected DEF Segs
  <1>3. PICK g \in [1 .. Len(r) -> 1 .. Len(f.segs)] :
          /\ \A k \in 1 .. Len(r) : g[k] \in keep /\ r[k] = f.segs[g[k]]
          /\ \A i \in 1 .. Len(f.segs) : i \in keep => \E k \in 1 .. Len(r) : g[k] = i
    <2> HIDE DEF keep, r
    <2> QED BY <1>2 DEF Selects
  <1>4. Len(r) \in Nat
    BY <1>2
  <1>5. ASSUME NEW i \in 1 .. Len(r)
        PROVE  /\ r[i] \in SegmentType /\ Loadable(r[i])
               /\ r[i].addr + r[i].memsz <= MemTop + 1
    <2>1. r[i] \in SegmentType
      BY <1>2
    <2>2. g[i] \in 1 .. Len(f.segs) /\ Loadable(f.segs[g[i]]) /\ r[i] = f.segs[g[i]]
      BY <1>3
    <2> HIDE DEF r
    <2> QED BY <2>1, <2>2, PreloadConstants
  <1>6. ASSUME NEW k \in 1 .. Len(f.segs), Loadable(f.segs[k])
        PROVE  \E i \in 1 .. Len(r) : r[i] = f.segs[k]
    <2>1. k \in keep
      BY <1>6
    <2> HIDE DEF r, keep
    <2>2. PICK i \in 1 .. Len(r) : g[i] = k
      BY <1>3, <2>1
    <2> QED BY <2>2, <1>3
  <1> QED BY <1>4, <1>5, <1>6

\* The first segment for an address that a segment has.
LEMMA FirstIs ==
    ASSUME NEW f \in Files \union {NoFile}, NEW i \in 1 .. Len(Segs(f))
    PROVE  /\ First(f, Segs(f)[i].addr) \in 1 .. i
           /\ Segs(f)[First(f, Segs(f)[i].addr)].addr = Segs(f)[i].addr
  <1> DEFINE a == Segs(f)[i].addr
             T == {k \in 1 .. Len(Segs(f)) : Segs(f)[k].addr = a}
  <1>0. Len(Segs(f)) \in Nat
    BY SegsAre
  <1>1. T \subseteq Nat /\ i \in T
    BY <1>0
  <1>2. PICK m \in T : \A n \in T : m <= n
    <2> HIDE DEF T
    <2> QED BY <1>1, LeastMember
  <1>3. m \in 1 .. Len(Segs(f)) /\ Segs(f)[m].addr = a /\ \A j \in 1 .. m - 1 : Segs(f)[j].addr # a
    <2> SUFFICES ASSUME NEW j \in 1 .. m - 1, Segs(f)[j].addr = a PROVE FALSE
      BY <1>2
    <2>1. j \in T /\ j < m
      BY <1>0, <1>2
    <2> QED BY <2>1, <1>0, <1>2
  <1> DEFINE n == First(f, a)
  <1>4. n \in 1 .. Len(Segs(f)) /\ Segs(f)[n].addr = a /\ \A j \in 1 .. n - 1 : Segs(f)[j].addr # a
    BY <1>3 DEF First
  <1>5. n <= i
    <2> HIDE DEF n
    <2> QED BY <1>0, <1>4
  <1> QED BY <1>0, <1>4, <1>5

LEMMA DataIs ==
    ASSUME NEW f \in Files \union {NoFile}, NEW s \in SegmentType
    PROVE  Data(f, s) \in Seq(Bytes) /\ Len(Data(f, s)) = s.filesz
  <1>1. f.id \in Nat /\ s.filesz \in Nat /\ s.addr \in Nat
    BY PreloadConstants DEF FileType, SegmentType, Addr
  <1>2. \A i \in 1 .. s.filesz : <<f.id, s.addr + i - 1>> \in Bytes
    BY <1>1 DEF Bytes
  <1> QED BY <1>1, <1>2 DEF Data

LEMMA Quotient ==
    ASSUME NEW m \in Nat \ {0}, NEW a \in Nat
    PROVE  a \div m \in Nat /\ a % m \in 0 .. m - 1 /\ a = m * (a \div m) + (a % m)
  OBVIOUS

LEMMA Product ==
    ASSUME NEW m \in Nat \ {0}, NEW x \in Int, NEW y \in Int, x <= y
    PROVE  m * x \in Int /\ m * y \in Int /\ m * x <= m * y
  OBVIOUS

\* A burst of beats: as many as hold n bytes, or a whole one.
LEMMA BeatCount ==
    ASSUME NEW n \in Nat, NEW k, k = Min2(Burst \div Word, (n + Word - 1) \div Word)
    PROVE  /\ k \in Nat /\ k * Word \in Nat /\ k * Word <= Burst /\ k * Word <= n + Word - 1
           /\ k * Word = Burst \/ k * Word >= n
           /\ k = 0 => n = 0
  <1> DEFINE w == Word
             b == Burst
  <1>0. w \in Nat \ {0} /\ b \in Nat \ {0} /\ b % w = 0
    BY PreloadConstants
  <1> HIDE DEF w, b
  <1> SUFFICES ASSUME k = Min2(b \div w, (n + w - 1) \div w)
               PROVE  /\ k \in Nat /\ k * w \in Nat /\ k * w <= b /\ k * w <= n + w - 1
                      /\ k * w = b \/ k * w >= n
                      /\ k = 0 => n = 0
    BY DEF w, b
  <1>1. PICK q \in Nat : q = b \div w /\ b = w * q
    <2>1. b \div w \in Nat /\ b = w * (b \div w) + (b % w)
      BY <1>0, Quotient
    <2>2. b = w * (b \div w)
      BY <1>0, <2>1
    <2> QED BY <2>1, <2>2
  <1>2. n + w - 1 \in Nat
    BY <1>0
  <1>3. PICK r \in Nat : /\ r = (n + w - 1) \div w
                         /\ n + w - 1 = w * r + ((n + w - 1) % w) /\ (n + w - 1) % w \in 0 .. w - 1
    BY <1>0, <1>2, Quotient
  <1>4. w * q \in Nat /\ w * r \in Nat /\ q * w = w * q /\ r * w = w * r
    BY <1>0
  <1>5. w * r <= n + w - 1 /\ w * r >= n
    BY <1>0, <1>3, <1>4
  <1>6. q # 0
    BY <1>0, <1>1
  <1>7. r = 0 => w * r = 0
    BY <1>0
  <1>8. k = IF q < r THEN q ELSE r
    BY <1>1, <1>3 DEF Min2
  <1>9. CASE q < r
    <2>1. w * q <= w * r
      BY <1>9, <1>0, Product
    <2>2. k = q /\ k * w = w * q
      BY <1>4, <1>8, <1>9
    <2> QED BY <2>1, <2>2, <1>1, <1>4, <1>5, <1>6, <1>7, <1>0
  <1>10. CASE ~(q < r)
    <2>1. w * r <= w * q
      BY <1>10, <1>0, Product
    <2>2. k = r /\ k * w = w * r
      BY <1>4, <1>8, <1>10
    <2> QED BY <2>1, <2>2, <1>1, <1>4, <1>5, <1>6, <1>7, <1>0
  <1> QED BY <1>9, <1>10

LEMMA OneQuotient ==
    ASSUME NEW m \in Nat \ {0}, NEW x \in Int, NEW y \in Int,
           NEW c \in 0 .. m - 1, NEW d \in 0 .. m - 1, (m * x) + c = (m * y) + d
    PROVE  x = y /\ c = d
  <1>1. m * x \in Int /\ m * y \in Int
    OBVIOUS
  <1>2. ASSUME NEW u \in Int, NEW v \in Int, u + 1 <= v PROVE (m * u) + m <= m * v
    <2>1. m * (u + 1) <= m * v
      BY <1>2, Product
    <2>2. m * (u + 1) = (m * u) + m
      OBVIOUS
    <2> QED BY <2>1, <2>2
  <1>3. ~(x + 1 <= y)
    BY <1>1, <1>2
  <1>4. ~(y + 1 <= x)
    BY <1>1, <1>2
  <1> QED BY <1>1, <1>3, <1>4

\* The last multiple of m up to n is n less its remainder.
LEMMA LastMultiple ==
    ASSUME NEW m \in Nat \ {0}, NEW n \in Nat, NEW x \in Nat, x % m = 0, x <= n, n < x + m
    PROVE  n % m = n - x
  <1>1. PICK z \in Nat : x = m * z
    <2>1. x \div m \in Nat /\ x = (m * (x \div m)) + (x % m)
      BY Quotient
    <2>2. x = m * (x \div m)
      BY <2>1
    <2> QED BY <2>1, <2>2
  <1>2. PICK q \in Nat : n % m \in 0 .. m - 1 /\ n = (m * q) + (n % m)
    BY Quotient
  <1>3. PICK c \in 0 .. m - 1 : c = n % m /\ n = (m * q) + c
    BY <1>2
  <1>4. PICK d \in 0 .. m - 1 : d = n - x /\ n = (m * z) + d
    BY <1>1
  <1>5. (m * q) + c = (m * z) + d
    BY <1>3, <1>4
  <1>6. q \in Int /\ z \in Int
    OBVIOUS
  <1>7. c = d
    BY <1>5, <1>6, OneQuotient
  <1> QED
    BY <1>3, <1>4, <1>7

\* The section being written is one of the file's.
LEMMA CurrentIs ==
    ASSUME PreloadTypes, Sections, Buffer, task = "write"
    PROVE  /\ file \in Files /\ file \in Files \union {NoFile} /\ preloads > 0 /\ file.table
           /\ Len(Segs(file)) \in Nat /\ Base \in Nat /\ section_index \in Nat
           /\ section_index - Base \in 1 .. Len(Segs(file))
           /\ Current \in SegmentType /\ Loadable(Current)
           /\ Current.addr \in Nat /\ Current.memsz \in Nat \ {0} /\ Current.filesz \in Nat
           /\ Current.addr + Current.memsz <= MemTop + 1
           /\ cur.addr = Current.addr /\ cur.len = Current.memsz
  <1>1. file \in Files /\ preloads > 0 /\ file.table /\ 0 <= Base /\ Base <= section_index
    BY DEF Sections, Buffer
  <1>2. file \in Files \union {NoFile} /\ Len(Segs(file)) \in Nat
    BY <1>1, SegsAre
  <1>3. Len(sections) \in Nat /\ section_index \in 0 .. Len(sections)
    BY DEF PreloadTypes
  <1>4. section_index > Base /\ cur.addr = Current.addr /\ cur.len = Current.memsz
    BY DEF Buffer
  <1>5. section_index - Base \in 1 .. Len(Segs(file)) /\ Base \in Nat
    BY <1>1, <1>2, <1>3, <1>4 DEF Base
  <1>6. /\ Current \in SegmentType /\ Loadable(Current)
        /\ Current.addr + Current.memsz <= MemTop + 1
    BY <1>2, <1>5, SegsAre DEF Current
  <1>7. Current.addr \in Nat /\ Current.memsz \in Nat \ {0} /\ Current.filesz \in Nat
    BY <1>6, PreloadConstants DEF SegmentType, Addr, Loadable
  <1> QED BY <1>1, <1>2, <1>3, <1>4, <1>5, <1>6, <1>7

\* The three writes as one.
Span == CASE host = "jtag" -> JtagSpan
          [] host = "uart" -> UartSpan
          [] host = "slink" -> SlinkSpan

Advance == off + IF host = "jtag" THEN Word ELSE Burst

Write ==
    /\ task = "write" /\ off' = Advance
    /\ mem' = [a \in Addr |-> IF a - cur.addr \in Span
                              THEN IF a - cur.addr < cur.len THEN bf[a - cur.addr] ELSE Zero
                              ELSE mem[a]]
    /\ task' = IF Advance <= cur.len THEN "write" ELSE "sections"
    /\ UNCHANGED <<sections, mems, section_index, entry, host, file, preloads, cur, bf, got, before>>

LEMMA WritesAre == JtagWrite \/ UartWrite \/ SlinkWrite => Write
  <1>1. JtagWrite => Write
    BY DEF JtagWrite, Write, Span, Advance, Over, Counted, loader
  <1>2. UartWrite => Write
    BY DEF UartWrite, Write, Span, Advance, Over, Counted, loader
  <1>3. SlinkWrite => Write
    BY DEF SlinkWrite, Write, Span, Advance, Over, Counted, loader
  <1> QED BY <1>1, <1>2, <1>3

\* What a write covers: nothing before the section, little behind it, and
\* what it has to.
LEMMA SpanIs ==
    ASSUME PreloadTypes, Sections, Buffer, task = "write"
    PROVE  /\ \A i \in Span : i \in Nat /\ i <= cur.len - 1 + Slack
           /\ \A o \in 0 .. cur.len - 1 :
                (/\ off - Lead <= o
                 /\ \/ o < Advance - Lead
                    \/ Advance > cur.len /\ (host = "slink" => TailReached(Current)))
                => o \in Span
           /\ Advance \in Nat /\ Lead \in Nat /\ Advance % Step = 0
           /\ host = "slink" /\ Beats = 0 => Current.memsz % Burst = 0 /\ Current.addr % Word = 0
  <1>1. cur.addr \in Nat /\ cur.len \in Nat \ {0} /\ cur.addr = Current.addr /\ cur.len = Current.memsz
    BY CurrentIs
  <1>2. off \in Nat /\ off <= cur.len /\ off % Step = 0
    BY DEF Buffer
  <1>3. Word \in Nat \ {0} /\ Burst \in Nat \ {0} /\ Burst % Word = 0
    BY PreloadConstants
  <1>4. host \in {"jtag", "uart", "slink"}
    BY PreloadConstants DEF PreloadTypes
  <1>5. bus_offset \in 0 .. Word - 1
    BY <1>1, <1>3 DEF bus_offset
  <1>6. Step \in Nat \ {0} /\ Advance = off + Step /\ Advance \in Nat
    BY <1>2, <1>3 DEF Step, Advance
  <1>7. Advance % Step = 0
    <2>1. PICK q \in Nat : off = Step * q
      <3>1. off \div Step \in Nat /\ off = (Step * (off \div Step)) + (off % Step)
        BY <1>2, <1>6, Quotient
      <3>2. off = Step * (off \div Step)
        BY <1>2, <1>6, <3>1
      <3> QED BY <3>1, <3>2
    <2>2. PICK z \in Nat, c \in 0 .. Step - 1 : c = Advance % Step /\ Advance = (Step * z) + c
      BY <1>6, Quotient
    <2>3. Step * (q + 1) = (Step * q) + Step
      BY <1>6
    <2>4. (Step * z) + c = (Step * (q + 1)) + 0
      BY <1>6, <2>1, <2>2, <2>3
    <2>5. z \in Int /\ q + 1 \in Int /\ 0 \in 0 .. Step - 1
      BY <1>6
    <2>6. c = 0
      BY <1>6, <2>4, <2>5, OneQuotient
    <2> QED BY <2>2, <2>6
  <1>8. CASE host = "jtag"
    BY <1>1, <1>2, <1>3, <1>6, <1>7, <1>8 DEF Span, JtagSpan, Slack, Lead, Step
  <1>9. CASE host = "uart"
    BY <1>1, <1>2, <1>3, <1>6, <1>7, <1>9 DEF Span, UartSpan, Min2, Slack, Lead, Step
  <1>10. CASE host = "slink"
    <2> DEFINE n == cur.len + bus_offset - off
    <2>1. n \in Nat
      BY <1>1, <1>2, <1>5, <1>3
    <2>2. Beats = Min2(Burst \div Word, (n + Word - 1) \div Word)
      BY DEF Beats
    <2>3. /\ Beats \in Nat /\ Beats * Word \in Nat /\ Beats * Word <= n + Word - 1
          /\ Beats * Word = Burst \/ Beats * Word >= n
          /\ Beats = 0 => n = 0
      <3>1. \A m \in Nat : \A k : k = Min2(Burst \div Word, (m + Word - 1) \div Word) =>
               /\ k \in Nat /\ k * Word \in Nat /\ k * Word <= Burst /\ k * Word <= m + Word - 1
               /\ k * Word = Burst \/ k * Word >= m
               /\ k = 0 => m = 0
        BY BeatCount
      <3> HIDE DEF n
      <3> QED BY <2>1, <2>2, <3>1, Zenon
    <2> DEFINE b == Beats * Word
    <2>4. Span = {i \in off - bus_offset .. off + b - 1 - bus_offset : i >= 0}
      BY <1>10 DEF Span, SlinkSpan
    <2>5. Lead = bus_offset /\ Slack = Word - 1 /\ Step = Burst
      BY <1>10 DEF Lead, Slack, Step
    <2>6. Advance > cur.len => cur.len % Burst = cur.len - off
      BY <1>1, <1>2, <1>3, <1>6, <2>5, LastMultiple
    <2>7. TailReached(Current) => (cur.len % Burst) + bus_offset <= Burst
      BY <1>1 DEF TailReached, bus_offset
    <2>8. b \in Nat /\ b <= n + Word - 1 /\ (b = Burst \/ b >= n)
      BY <2>3
    <2> HIDE DEF b
    <2>9. \A i \in Span : i \in Nat /\ i <= cur.len - 1 + Slack
      BY <2>4, <2>5, <2>8, <1>1, <1>2, <1>3, <1>5
    <2>10. ASSUME NEW o \in 0 .. cur.len - 1, off - Lead <= o,
                  \/ o < Advance - Lead
                  \/ Advance > cur.len /\ TailReached(Current)
           PROVE  o \in Span
      <3>1. o < off + b - bus_offset
        <4>1. CASE b >= n
          BY <4>1, <2>8, <1>1, <1>2, <1>3, <1>5
        <4>2. CASE b = Burst
          BY <4>2, <2>5, <2>6, <2>7, <2>10, <1>1, <1>2, <1>3, <1>5, <1>6
        <4> QED BY <4>1, <4>2, <2>8
      <3> QED BY <3>1, <2>4, <2>5, <2>8, <2>10, <1>1, <1>2, <1>3, <1>5
    <2>11. Beats = 0 => Current.memsz % Burst = 0 /\ Current.addr % Word = 0
      <3> SUFFICES ASSUME Beats = 0 PROVE Current.memsz % Burst = 0 /\ Current.addr % Word = 0
        OBVIOUS
      <3>1. off = cur.len /\ bus_offset = 0
        BY <2>3, <1>1, <1>2, <1>3, <1>5
      <3> QED BY <3>1, <2>5, <1>1, <1>2 DEF bus_offset
    <2>12. Lead \in Nat
      BY <2>5, <1>5, <1>3
    <2> QED BY <2>9, <2>10, <2>11, <2>12, <1>6, <1>7, <1>10
  <1> QED BY <1>4, <1>8, <1>9, <1>10

-----------------------------------------------------------------------------
(* The invariant.                                                          *)

\* The invariant holds at the start.
LEMMA PreloadInitInv == PreloadInit => PInv
  <1> SUFFICES ASSUME PreloadInit PROVE PInv
    OBVIOUS
  <1>1. Zero \in Bytes /\ Old \in Bytes /\ 0 \in Addr
    BY PreloadConstants DEF Zero, Old, Bytes, Addr
  <1>2. Len(sections) = 0 /\ DOMAIN mems = {}
    BY DEF PreloadInit
  <1>3. PreloadTypes
    BY <1>1, <1>2 DEF PreloadInit, PreloadTypes, Tasks
  <1>4. Sections /\ Buffer /\ Memory
    BY <1>2 DEF PreloadInit, Sections, Buffer, Memory
  <1>5. Footprint /\ StopsOnlyFor
    BY DEF PreloadInit, Footprint, StopsOnlyFor
  <1> QED BY <1>3, <1>4, <1>5 DEF PInv

\* Starting a preload keeps the invariant: read_elf.
LEMMA ReadElfPreserves ==
    ASSUME PInv, NEW h \in Hosts, NEW f \in Files, read_elf(h, f)
    PROVE  PInv'
  <1> USE DEF PInv
  <1>1. /\ task = "idle" /\ section_index = Len(sections) /\ section_index \in Nat
        /\ file' = f /\ host' = h /\ mem' = mem /\ section_index' = section_index
        /\ preloads' = preloads + 1 /\ preloads' > 0 /\ preloads' \in Nat
        /\ before'.mem = mem /\ before'.known = DOMAIN mems
    BY DEF read_elf, load_elf, loader, Sections, PreloadTypes
  <1>2. Len(Segs(f)) \in Nat
    BY SegsAre
  <1>3. Footprint'
    BY <1>1 DEF Footprint
  <1>4. CASE task' = "fatal"
    <2>1. loader' = loader /\ ~(f.elf /\ (f.table => f.fits))
      BY <1>4 DEF read_elf
    <2>2. PreloadTypes'
      BY <1>1, <1>4, <2>1 DEF PreloadTypes, loader, Tasks
    <2>3. Sections' /\ Buffer' /\ Memory'
      BY <1>1, <1>4 DEF Sections, Buffer, Memory
    <2>4. StopsOnlyFor'
      <3>1. f \in FileType
        BY PreloadConstants
      <3> QED BY <1>1, <2>1, <3>1 DEF StopsOnlyFor, FileType
    <2> QED BY <1>3, <2>2, <2>3, <2>4
  <1>5. CASE task' # "fatal"
    <2>1. task' = "sections" /\ f.elf /\ (f.table => f.fits) /\ load_elf(f)
      BY <1>5 DEF read_elf
    <2>2. StopsOnlyFor' /\ Buffer'
      BY <2>1 DEF StopsOnlyFor, Buffer
    <2>3. CASE ~f.table
      <3>1. loader' = loader
        BY <2>1, <2>3 DEF load_elf
      <3>2. PreloadTypes'
        BY <1>1, <2>1, <3>1 DEF PreloadTypes, loader, Tasks
      <3>3. Sections' /\ Memory'
        BY <1>1, <2>1, <2>3, <3>1 DEF Sections, Memory, loader
      <3> QED BY <1>3, <2>2, <3>2, <3>3
    <2>4. CASE f.table
      <3> DEFINE n == Len(Segs(f))
      <3>1. entry' = f.entry /\ sections' = sections \o NewSections(f) /\ mems' = write(f)
        BY <2>1, <2>4 DEF load_elf
      <3>2. /\ NewSections(f) \in Seq([addr : Addr, len : Nat]) /\ Len(NewSections(f)) = n
            /\ \A i \in 1 .. n : NewSections(f)[i] = [addr |-> Segs(f)[i].addr, len |-> Segs(f)[i].memsz]
        BY <1>2, SegsAre DEF NewSections, SegmentType
      <3>3. /\ sections' \in Seq([addr : Addr, len : Nat]) /\ Len(sections') = Len(sections) + n
            /\ \A i \in 1 .. Len(sections) : sections'[i] = sections[i]
            /\ \A i \in 1 .. n : sections'[Len(sections) + i] = NewSections(f)[i]
        <4> HIDE DEF n
        <4>1. sections \in Seq([addr : Addr, len : Nat])
          BY DEF PreloadTypes
        <4> DEFINE R == [addr : Addr, len : Nat]
        <4> HIDE DEF R
        <4>2. /\ sections \o NewSections(f) \in Seq(R)
              /\ Len(sections \o NewSections(f)) = Len(sections) + Len(NewSections(f))
              /\ \A i \in 1 .. Len(sections) : (sections \o NewSections(f))[i] = sections[i]
              /\ \A i \in 1 .. Len(NewSections(f)) :
                    (sections \o NewSections(f))[Len(sections) + i] = NewSections(f)[i]
          <5>1. sections \in Seq(R) /\ NewSections(f) \in Seq(R)
            BY <3>2, <4>1 DEF R
          <5> QED BY <5>1, SMT
        <4> QED BY <3>1, <3>2, <4>2 DEF R
      <3>4. DOMAIN mems' = DOMAIN mems \union {Segs(f)[i].addr : i \in 1 .. n}
        BY <3>1 DEF write
      <3>5. \A a \in DOMAIN mems : mems'[a] = mems[a]
        BY <3>1 DEF write
      <3>6. \A i \in 1 .. n : Segs(f)[i].addr \notin DOMAIN mems =>
               mems'[Segs(f)[i].addr] = Data(f, Segs(f)[First(f, Segs(f)[i].addr)])
        BY <3>1 DEF write
      <3>7. \A i \in 1 .. n : Data(f, Segs(f)[First(f, Segs(f)[i].addr)]) \in Seq(Bytes)
        <4> SUFFICES ASSUME NEW i \in 1 .. n
                     PROVE  Data(f, Segs(f)[First(f, Segs(f)[i].addr)]) \in Seq(Bytes)
          OBVIOUS
        <4>1. First(f, Segs(f)[i].addr) \in 1 .. n
          BY <1>2, FirstIs
        <4> QED BY <4>1, SegsAre, DataIs
      <3>8. \A a \in DOMAIN mems' : mems'[a] \in Seq(Bytes)
        <4> SUFFICES ASSUME NEW a \in DOMAIN mems' PROVE mems'[a] \in Seq(Bytes)
          OBVIOUS
        <4>1. CASE a \in DOMAIN mems
          BY <4>1, <3>5 DEF PreloadTypes
        <4>2. CASE a \notin DOMAIN mems
          <5>1. PICK i \in 1 .. n : a = Segs(f)[i].addr
            BY <4>2, <3>4
          <5> QED BY <4>2, <5>1, <3>6, <3>7
        <4> QED BY <4>1, <4>2
      <3>9. \A i \in 1 .. Len(sections') : sections'[i].addr \in DOMAIN mems'
        <4> SUFFICES ASSUME NEW i \in 1 .. Len(sections') PROVE sections'[i].addr \in DOMAIN mems'
          OBVIOUS
        <4>1. CASE i \in 1 .. Len(sections)
          BY <4>1, <3>3, <3>4 DEF PreloadTypes
        <4>2. CASE i \notin 1 .. Len(sections)
          <5>1. PICK j \in 1 .. n : i = Len(sections) + j
            <6>1. i - Len(sections) \in 1 .. n /\ i = Len(sections) + (i - Len(sections))
              BY <4>2, <3>3, <1>1, <1>2
            <6> QED BY <6>1
          <5>2. sections'[i].addr = Segs(f)[j].addr
            <6>1. sections'[i] = NewSections(f)[j]
              BY <5>1, <3>3
            <6>2. NewSections(f)[j] = [addr |-> Segs(f)[j].addr, len |-> Segs(f)[j].memsz]
              BY <3>2
            <6> QED BY <6>1, <6>2
          <5> QED BY <5>2, <3>4
        <4> QED BY <4>1, <4>2
      <3>10. PreloadTypes'
        <4>1. section_index' \in 0 .. Len(sections')
          BY <1>1, <1>2, <3>3
        <4> QED BY <1>1, <2>1, <3>3, <3>8, <3>9, <4>1 DEF PreloadTypes, Tasks
      <3>11. Base' = Len(sections) /\ Base' = section_index'
        BY <1>1, <1>2, <3>3 DEF Base
      <3>12. Sections'
        <4>1. \A i \in 1 .. n :
               LET s == Segs(f)[i]
               IN  /\ sections'[Base' + i] = [addr |-> s.addr, len |-> s.memsz]
                   /\ s.addr \in DOMAIN mems'
                   /\ s.addr \notin before'.known =>
                         mems'[s.addr] = Data(f, Segs(f)[First(f, s.addr)])
          BY <1>1, <3>2, <3>3, <3>4, <3>6, <3>11
        <4>2. Given(f)
          BY <2>1, <2>4 DEF Given
        <4>3. 0 <= Base' /\ Base' <= section_index'
          BY <3>11, <1>1
        <4>4. task' = "sections" /\ file'.table /\ Given(file') /\ file' \in Files /\ entry' = file'.entry
          BY <1>1, <2>1, <2>4, <3>1, <4>2
        <4> QED BY <4>1, <4>3, <4>4, <1>1 DEF Sections
      <3>13. Memory'
        BY <3>11, <1>1 DEF Memory
      <3> QED BY <1>3, <2>2, <3>10, <3>12, <3>13
    <2> QED BY <2>3, <2>4
  <1> QED BY <1>4, <1>5

\* So does fetching the next section: get_section and read_section.
LEMMA GetSectionPreserves ==
    ASSUME PInv, get_section
    PROVE  PInv'
  <1> USE DEF PInv
  <1>1. /\ task = "sections" /\ preloads > 0 /\ section_index < Len(sections)
        /\ section_index \in Nat /\ Len(sections) \in Nat
        /\ section_index' = section_index + 1
        /\ cur' = sections[section_index + 1]
        /\ UNCHANGED <<sections, mems, entry, host, file, preloads, got, mem, before>>
    BY DEF get_section, Sections, PreloadTypes
  <1>2. /\ file.table /\ file \in Files /\ Given(file) /\ 0 <= Base /\ Base <= section_index
        /\ Len(Segs(file)) \in Nat /\ Base \in Nat /\ Base' = Base
    BY <1>1, SegsAre DEF Sections, Base
  <1> DEFINE k == section_index + 1 - Base
             s == Segs(file)[k]
  <1>3. k \in 1 .. Len(Segs(file)) /\ section_index + 1 = Base + k
    BY <1>1, <1>2 DEF Base
  <1>4. /\ cur' = [addr |-> s.addr, len |-> s.memsz] /\ s.addr \in DOMAIN mems
        /\ s.addr \notin before.known => mems[s.addr] = Data(file, Segs(file)[First(file, s.addr)])
    BY <1>1, <1>2, <1>3 DEF Sections
  <1>5. s \in SegmentType /\ s.memsz \in Nat /\ Loadable(s)
    BY <1>2, <1>3, SegsAre DEF SegmentType
  <1>6. Current' = s /\ section_index' - Base' = k
    BY <1>1, <1>2 DEF Current
  <1> HIDE DEF s
  <1>7. cur'.addr = s.addr /\ cur'.len = s.memsz
    BY <1>4
  <1>8. task' \in {"write", "fatal"}
    BY DEF get_section
  <1>9. PreloadTypes'
    BY <1>1, <1>8 DEF PreloadTypes, Tasks
  <1>10. Sections'
    BY <1>1, <1>2, <1>8 DEF Sections
  <1>11. Footprint'
    BY <1>1, SegsAre DEF Footprint, Slack, ByWords
  <1>12. Len(mems[s.addr]) \in Nat
    BY <1>4 DEF PreloadTypes
  <1>13. CASE Len(mems[s.addr]) > s.memsz
    <2>1. task' = "fatal"
      BY <1>7, <1>13 DEF get_section
    <2>2. Buffer' /\ Memory'
      BY <2>1 DEF Buffer, Memory
    <2>3. StopsOnlyFor'
      <3> SUFFICES ASSUME Fresh(file)
                   PROVE  \E i \in 1 .. Len(Segs(file)) : \E j \in 1 .. i :
                             /\ Segs(file)[j].addr = Segs(file)[i].addr
                             /\ Segs(file)[j].filesz > Segs(file)[i].memsz
        BY <1>1 DEF StopsOnlyFor, Fresh, ByWords
      <3> DEFINE j == First(file, s.addr)
      <3>1. j \in 1 .. k /\ Segs(file)[j].addr = s.addr
        BY <1>2, <1>3, FirstIs DEF s
      <3>2. s.addr \notin before.known
        BY <1>3 DEF Fresh, s
      <3>3. mems[s.addr] = Data(file, Segs(file)[j])
        BY <1>4, <3>2
      <3>4. Segs(file)[j].filesz \in Nat
        BY <1>2, <1>3, <3>1, SegsAre DEF SegmentType
      <3>5. Len(mems[s.addr]) = Segs(file)[j].filesz
        <4> HIDE DEF j
        <4>1. Segs(file)[j] \in SegmentType
          BY <1>2, <1>3, <3>1, SegsAre
        <4> QED BY <1>2, <3>3, <4>1, DataIs
      <3> HIDE DEF j
      <3> QED BY <1>3, <1>13, <3>1, <3>5 DEF s
    <2> QED BY <1>9, <1>10, <1>11, <2>2, <2>3
  <1>14. CASE ~(Len(mems[s.addr]) > s.memsz)
    <2>1. task' = "write" /\ bf' = read_section(mems[s.addr], s.memsz) /\ off' = 0
      BY <1>7, <1>14 DEF get_section
    <2>2. Buffer'
      <3>1. off' % Step' = 0
        BY <2>1, PreloadConstants DEF Step
      <3> QED BY <1>1, <1>2, <1>3, <1>4, <1>5, <1>6, <1>7, <1>12, <1>14, <2>1, <3>1 DEF Buffer
    <2>3. StopsOnlyFor'
      BY <2>1 DEF StopsOnlyFor
    <2>4. Memory'
      <3>1. Lead' \in Nat
        <4>1. s.addr % Word \in Nat
          BY <1>5, PreloadConstants DEF SegmentType, Addr
        <4> QED BY <4>1, <1>7 DEF Lead, bus_offset
      <3> SUFFICES ASSUME ByWords, Ordered(file), Fresh(file), NEW i \in 1 .. k,
                          host = "slink" => TailReached(Segs(file)[i]),
                          NEW o \in 0 .. Segs(file)[i].memsz - 1,
                          o < IF i = k THEN off' - Lead' ELSE Segs(file)[i].memsz
                   PROVE  mem[Segs(file)[i].addr + o] = Image(file, Segs(file)[i], o)
        BY <1>1, <1>6, <2>1 DEF Memory, ByWords, Fresh, Ordered, In
      <3>2. i # k
        <4> SUFFICES ASSUME i = k PROVE FALSE
          OBVIOUS
        <4>1. o < 0 - Lead'
          BY <2>1
        <4>2. o \in Int /\ 0 <= o
          OBVIOUS
        <4>3. \A x \in Nat : \A y \in Int : 0 <= y => ~(y < 0 - x)
          OBVIOUS
        <4> HIDE DEF k
        <4> QED BY <3>1, <4>1, <4>2, <4>3, Zenon
      <3>3. i \in 1 .. section_index - Base
        BY <3>2, <1>1, <1>2, <1>3
      <3> QED BY <3>2, <3>3, <1>1, <1>2 DEF Memory, In
    <2> QED BY <1>9, <1>10, <1>11, <2>2, <2>3, <2>4
  <1> QED BY <1>13, <1>14

\* The buffer holds bytes.
LEMMA BufferTyped ==
    ASSUME PreloadTypes, Sections, Buffer, task = "write"
    PROVE  \A i \in 0 .. cur.len - 1 : bf[i] \in Bytes
  <1> DEFINE data == mems[cur.addr]
  <1>1. bf = read_section(data, cur.len) /\ cur.len \in Nat /\ data \in Seq(Bytes)
    <2>1. /\ section_index - Base \in 1 .. Len(Segs(file)) /\ preloads > 0 /\ file.table
          /\ cur.addr = Current.addr /\ cur.len \in Nat
      BY CurrentIs
    <2>2. Current.addr \in DOMAIN mems
      BY <2>1 DEF Sections, Current
    <2>3. bf = read_section(data, cur.len)
      BY DEF Buffer
    <2> QED BY <2>1, <2>2, <2>3 DEF PreloadTypes
  <1> HIDE DEF data
  <1> SUFFICES ASSUME NEW i \in 0 .. cur.len - 1 PROVE bf[i] \in Bytes
    OBVIOUS
  <1>2. bf[i] = IF i < Len(data) THEN data[i + 1] ELSE Zero
    BY <1>1 DEF read_section
  <1>3. i < Len(data) => i + 1 \in 1 .. Len(data)
    BY <1>1
  <1>4. Zero \in Bytes
    BY DEF Zero, Bytes
  <1> QED BY <1>1, <1>2, <1>3, <1>4

\* So does writing the next word or burst.
LEMMA WritePreserves ==
    ASSUME PInv, Write
    PROVE  PInv'
  <1> USE DEF PInv
  <1>1. /\ task = "write" /\ off' = Advance
        /\ mem' = [a \in Addr |-> IF a - cur.addr \in Span
                                  THEN IF a - cur.addr < cur.len THEN bf[a - cur.addr] ELSE Zero
                                  ELSE mem[a]]
        /\ task' = IF Advance <= cur.len THEN "write" ELSE "sections"
        /\ UNCHANGED <<sections, mems, section_index, entry, host, file, preloads, cur, bf, got, before>>
    BY DEF Write
  <1> DEFINE k == section_index - Base
             s == Segs(file)[k]
             data == mems[s.addr]
  <1>2. /\ file \in Files /\ file \in Files \union {NoFile} /\ preloads > 0 /\ file.table
        /\ Len(Segs(file)) \in Nat /\ Base \in Nat /\ section_index \in Nat
        /\ k \in 1 .. Len(Segs(file)) /\ Current = s
        /\ s \in SegmentType /\ Loadable(s)
        /\ s.addr \in Nat /\ s.memsz \in Nat \ {0} /\ s.filesz \in Nat
        /\ s.addr + s.memsz <= MemTop + 1
        /\ cur.addr = s.addr /\ cur.len = s.memsz
    BY <1>1, CurrentIs DEF Current
  <1>3. /\ \A i \in Span : i \in Nat /\ i <= cur.len - 1 + Slack
        /\ \A o \in 0 .. cur.len - 1 :
             (/\ off - Lead <= o
              /\ \/ o < Advance - Lead
                 \/ Advance > cur.len /\ (host = "slink" => TailReached(Current)))
             => o \in Span
        /\ Advance \in Nat /\ Lead \in Nat /\ Advance % Step = 0
    BY <1>1, SpanIs
  <1>4. /\ bf = read_section(data, s.memsz) /\ Len(data) <= s.memsz
        /\ data \in Seq(Bytes) /\ s.addr \in DOMAIN mems
        /\ s.addr \notin before.known => data = Data(file, Segs(file)[First(file, s.addr)])
    BY <1>1, <1>2 DEF Buffer, Sections, PreloadTypes
  <1>5. Base' = Base /\ Current' = Current /\ Lead' = Lead /\ Step' = Step /\ k' = k
    BY <1>1 DEF Base, Current, Lead, Step, bus_offset
  <1> HIDE DEF k, s, data
  <1>6. \A i \in 0 .. s.memsz - 1 : bf[i] = IF i < Len(data) THEN data[i + 1] ELSE Zero
    BY <1>4 DEF read_section
  <1>7. PreloadTypes'
    <2>1. \A i \in 0 .. s.memsz - 1 : bf[i] \in Bytes
      BY <1>1, <1>2, BufferTyped
    <2>2. \A a \in Addr : mem'[a] \in Bytes
      <3> SUFFICES ASSUME NEW a \in Addr PROVE mem'[a] \in Bytes
        OBVIOUS
      <3>1. mem[a] \in Bytes /\ Zero \in Bytes
        BY DEF PreloadTypes, Zero, Bytes
      <3>2. CASE a - cur.addr \in Span /\ a - cur.addr < cur.len
        <4>1. a - cur.addr \in 0 .. s.memsz - 1
          BY <3>2, <1>2, <1>3
        <4> QED BY <4>1, <3>2, <2>1, <1>1
      <3>3. CASE ~(a - cur.addr \in Span /\ a - cur.addr < cur.len)
        BY <3>3, <3>1, <1>1
      <3> QED BY <3>2, <3>3
    <2>3. mem' \in [Addr -> Bytes]
      BY <1>1, <2>2
    <2>4. task' \in Tasks
      BY <1>1 DEF Tasks
    <2> QED BY <1>1, <2>3, <2>4 DEF PreloadTypes
  <1>8. Sections'
    BY <1>1, <1>2, <1>5 DEF Sections
  <1>9. Buffer'
    BY <1>1, <1>3, <1>5 DEF Buffer
  <1>10. Footprint'
    <2> SUFFICES ASSUME ByWords, NEW a \in Addr, mem'[a] # before.mem[a]
                 PROVE  \E i \in 1 .. Len(Segs(file)) :
                           a \in Segs(file)[i].addr .. Segs(file)[i].addr + Segs(file)[i].memsz - 1 + Slack
      BY <1>1 DEF Footprint, Slack, ByWords
    <2>1. CASE mem'[a] = mem[a]
      BY <2>1 DEF Footprint
    <2>2. CASE mem'[a] # mem[a]
      <3>1. a - cur.addr \in Span
        BY <2>2, <1>1
      <3>2. a - s.addr \in Nat /\ a - s.addr <= s.memsz - 1 + Slack
        BY <3>1, <1>2, <1>3
      <3>3. a \in Int /\ Slack \in Int
        BY PreloadConstants DEF Addr, Slack, PreloadTypes
      <3>4. a \in s.addr .. s.addr + s.memsz - 1 + Slack
        BY <3>2, <3>3, <1>2
      <3> QED BY <3>4, <1>2 DEF s
    <2> QED BY <2>1, <2>2
  <1>11. StopsOnlyFor'
    BY <1>1 DEF StopsOnlyFor
  <1>12. Memory'
    <2> SUFFICES ASSUME ByWords, Ordered(file), Fresh(file), NEW i \in 1 .. k,
                        host = "slink" => TailReached(Segs(file)[i]),
                        NEW o \in 0 .. Segs(file)[i].memsz - 1,
                        o < IF task' = "write" /\ i = k THEN Advance - Lead ELSE Segs(file)[i].memsz
                 PROVE  mem'[Segs(file)[i].addr + o] = Image(file, Segs(file)[i], o)
      BY <1>1, <1>5 DEF Memory, ByWords, Fresh, Ordered, In, k
    <2>1. i \in 1 .. Len(Segs(file)) /\ i \in Nat
      BY <1>2
    <2>2. /\ Segs(file)[i].addr \in Nat /\ Segs(file)[i].memsz \in Nat \ {0}
          /\ Segs(file)[i].addr + Segs(file)[i].memsz <= MemTop + 1
      BY <2>1, <1>2, SegsAre DEF SegmentType, Addr, Loadable
    <2>3. Segs(file)[i].addr + o \in Addr
      BY <2>2, PreloadConstants DEF Addr
    <2>4. CASE i # k
      <3>1. Segs(file)[i].addr + Segs(file)[i].memsz <= s.addr
        BY <2>1, <2>4, <1>2 DEF Ordered, s
      <3>2. (Segs(file)[i].addr + o) - cur.addr \notin Span
        <4>1. o \in Int /\ o < Segs(file)[i].memsz
          BY <2>2
        <4>2. (Segs(file)[i].addr + o) - cur.addr < 0
          <5>1. \A x \in Nat, y \in Nat, z \in Nat, w \in Int : x + y <= z /\ w < y => (x + w) - z < 0
            OBVIOUS
          <5>2. /\ Segs(file)[i].addr \in Nat /\ Segs(file)[i].memsz \in Nat /\ cur.addr \in Nat
                /\ Segs(file)[i].addr + Segs(file)[i].memsz <= cur.addr
            BY <3>1, <2>2, <1>2
          <5> QED BY <5>1, <5>2, <4>1, Zenon
        <4>3. (Segs(file)[i].addr + o) - cur.addr \notin Nat
          BY <4>2
        <4> QED BY <4>3, <1>3, Zenon
      <3>3. mem'[Segs(file)[i].addr + o] = mem[Segs(file)[i].addr + o]
        <4> DEFINE b == Segs(file)[i].addr + o
        <4>1. b \in Addr /\ b - cur.addr \notin Span
          BY <2>3, <3>2
        <4> HIDE DEF b
        <4>2. mem'[b] = mem[b]
          BY <4>1, <1>1
        <4> QED BY <4>2 DEF b
      <3>4. mem[Segs(file)[i].addr + o] = Image(file, Segs(file)[i], o)
        BY <2>4, <1>1, <1>2 DEF Memory, In, k
      <3> QED BY <3>3, <3>4
    <2>5. CASE i = k
      <3>1. Segs(file)[i] = s /\ o \in 0 .. cur.len - 1 /\ o \in Nat /\ o < s.memsz
        BY <2>5, <1>2 DEF s
      <3>2. (s.addr + o) - cur.addr = o
        BY <3>1, <1>2
      <3>3. mem'[s.addr + o] = IF o \in Span THEN bf[o] ELSE mem[s.addr + o]
        <4> DEFINE b == s.addr + o
        <4>1. b \in Addr /\ b - cur.addr = o /\ o < cur.len
          BY <3>1, <3>2, <2>3, <1>2
        <4> HIDE DEF b
        <4>2. mem'[b] = IF b - cur.addr \in Span
                        THEN IF b - cur.addr < cur.len THEN bf[b - cur.addr] ELSE Zero
                        ELSE mem[b]
          BY <4>1, <1>1, Zenon
        <4>3. mem'[b] = IF o \in Span THEN bf[o] ELSE mem[b]
          BY <4>1, <4>2
        <4> QED BY <4>3 DEF b
      <3>4. CASE o \in Span
        <4>1. First(file, s.addr) = k
          <5> DEFINE j == First(file, s.addr)
          <5>1. j \in 1 .. k /\ Segs(file)[j].addr = s.addr
            BY <1>2, FirstIs DEF s
          <5>2. j < k => Segs(file)[j].addr + Segs(file)[j].memsz <= s.addr
            BY <5>1, <1>2 DEF Ordered, s
          <5>3. Segs(file)[j].memsz \in Nat \ {0}
            BY <5>1, <1>2, SegsAre DEF SegmentType, Loadable
          <5> HIDE DEF j
          <5>4. j = k
            BY <5>1, <5>2, <5>3, <1>2
          <5> QED BY <5>4 DEF j
        <4>2. data = Data(file, s)
          <5>1. s.addr \notin before.known
            BY <1>2 DEF Fresh, s
          <5> QED BY <5>1, <4>1, <1>4 DEF s
        <4>3. Len(data) = s.filesz
          BY <4>2, <1>2, DataIs
        <4>4. o < s.filesz => data[o + 1] = <<file.id, s.addr + o>>
          <5> SUFFICES ASSUME o < s.filesz PROVE data[o + 1] = <<file.id, s.addr + o>>
            OBVIOUS
          <5>1. o + 1 \in 1 .. s.filesz
            BY <3>1, <1>2
          <5>2. data[o + 1] = <<file.id, s.addr + (o + 1) - 1>>
            BY <4>2, <5>1 DEF Data
          <5>3. s.addr + (o + 1) - 1 = s.addr + o
            BY <3>1, <1>2
          <5> QED BY <5>2, <5>3
        <4>5. bf[o] = IF o < s.filesz THEN data[o + 1] ELSE Zero
          BY <3>1, <4>3, <1>2, <1>6
        <4> QED BY <3>1, <3>3, <3>4, <4>4, <4>5 DEF Image
      <3>5. CASE o \notin Span
        <4>1. ~(/\ off - Lead <= o
                /\ \/ o < Advance - Lead
                   \/ Advance > cur.len /\ (host = "slink" => TailReached(Current)))
          BY <3>1, <3>5, <1>3
        <4>2. \/ o < Advance - Lead
              \/ Advance > cur.len /\ (host = "slink" => TailReached(Current))
          <5>1. CASE task' = "write"
            BY <5>1, <2>5
          <5>2. CASE task' # "write"
            BY <5>2, <3>1, <1>1, <1>2, <1>3
          <5> QED BY <5>1, <5>2
        <4>3. off \in Nat
          BY <1>1 DEF Buffer
        <4>4. o < off - Lead
          BY <4>1, <4>2, <4>3, <3>1, <1>3
        <4>5. mem[s.addr + o] = Image(file, s, o)
          BY <4>4, <3>1, <2>5, <1>1, <1>2 DEF Memory, In, k, s
        <4> QED BY <4>5, <3>1, <3>3, <3>5
      <3> QED BY <3>4, <3>5
    <2> QED BY <2>4, <2>5
  <1> QED BY <1>7, <1>8, <1>9, <1>10, <1>11, <1>12

\* So does an unaligned write over JTAG, of whose effect nothing is known.
LEMMA UnalignedPreserves ==
    ASSUME PInv, JtagUnaligned
    PROVE  PInv'
  <1> USE DEF PInv
  <1>1. /\ task = "write" /\ host = "jtag" /\ cur.addr % Word # 0
        /\ task' \in {"write", "sections", "fatal"}
        /\ task' = "write" => off' = off + Word /\ off' <= cur.len
        /\ UNCHANGED <<sections, mems, section_index, entry, host, file, preloads, cur, bf, got, before>>
    BY DEF JtagUnaligned, Counted, loader
  <1>2. /\ section_index - Base \in 1 .. Len(Segs(file)) /\ cur.addr = Current.addr
        /\ cur.addr \in Nat /\ cur.len \in Nat
    BY <1>1, CurrentIs
  <1>3. ~ByWords'
    BY <1>1, <1>2 DEF ByWords, Aligned, Current
  <1>4. \A b \in Int : Over(b, JtagSpan) \in [Addr -> Bytes]
    <2> SUFFICES ASSUME NEW b \in Int, NEW a \in Addr
                 PROVE  (IF a - b \in JtagSpan
                         THEN IF a - b < cur.len THEN bf[a - b] ELSE Zero
                         ELSE mem[a]) \in Bytes
      BY DEF Over
    <2>1. mem[a] \in Bytes /\ Zero \in Bytes
      BY DEF PreloadTypes, Zero, Bytes
    <2>2. ASSUME a - b \in JtagSpan, a - b < cur.len PROVE bf[a - b] \in Bytes
      <3>1. a \in Int /\ off \in Nat
        BY <1>1, PreloadConstants DEF Addr, Buffer
      <3>2. a - b \in 0 .. cur.len - 1
        BY <2>2, <3>1, <1>2 DEF JtagSpan
      <3>3. \A o \in 0 .. cur.len - 1 : bf[o] \in Bytes
        BY <1>1, BufferTyped
      <3> QED BY <3>2, <3>3, Zenon
    <2> QED BY <2>1, <2>2
  <1>5. mem' \in [Addr -> Bytes]
    <2>1. cur.addr - (cur.addr % Word) \in Int
      BY <1>2, PreloadConstants
    <2> QED BY <2>1, <1>2, <1>4 DEF JtagUnaligned, PreloadTypes
  <1>6. PreloadTypes'
    BY <1>1, <1>5 DEF PreloadTypes, Tasks
  <1>7. Sections'
    BY <1>1 DEF Sections, Base
  <1>8. Buffer'
    <2> SUFFICES ASSUME task' = "write" PROVE off' \in Nat /\ off' <= cur.len /\ off' % Step = 0
      BY <1>1 DEF Buffer, Base, Current, Step
    <2>1. off' = Advance
      BY <1>1 DEF Advance
    <2>2. Advance \in Nat /\ Advance % Step = 0
      BY <1>1, SpanIs
    <2> QED BY <2>1, <2>2, <1>1
  <1>9. Memory' /\ Footprint' /\ StopsOnlyFor'
    BY <1>3 DEF Memory, Footprint, StopsOnlyFor
  <1> QED BY <1>6, <1>7, <1>8, <1>9

\* So does the burst of no beats that stops the simulation.
LEMMA EmptyBurstPreserves ==
    ASSUME PInv, EmptyBurst
    PROVE  PInv'
  <1> USE DEF PInv
  <1>1. /\ task = "write" /\ host = "slink" /\ Beats = 0 /\ task' = "fatal"
        /\ UNCHANGED <<sections, mems, section_index, entry, host, file, preloads, mem, before>>
    BY DEF EmptyBurst, loader
  <1>2. PreloadTypes'
    BY <1>1 DEF PreloadTypes, Tasks
  <1>3. Sections' /\ Buffer' /\ Memory'
    BY <1>1 DEF Sections, Buffer, Memory
  <1>4. Footprint'
    BY <1>1 DEF Footprint, Slack, ByWords
  <1>5. StopsOnlyFor'
    <2>1. Current.memsz % Burst = 0 /\ Current.addr % Word = 0
      BY <1>1, SpanIs
    <2>2. section_index - Base \in 1 .. Len(Segs(file))
      BY <1>1, CurrentIs
    <2> QED BY <1>1, <2>1, <2>2 DEF StopsOnlyFor, Current, ByWords
  <1> QED BY <1>2, <1>3, <1>4, <1>5

\* So does the end of a load.
LEMMA GetEntryPreserves ==
    ASSUME PInv, get_entry
    PROVE  PInv'
  <1> USE DEF PInv
  <1>1. /\ task = "sections" /\ section_index = Len(sections) /\ task' = "idle" /\ got' = entry
        /\ UNCHANGED <<sections, mems, section_index, entry, host, file, preloads, mem, before>>
    BY DEF get_entry, loader
  <1>2. PreloadTypes'
    BY <1>1 DEF PreloadTypes, Tasks
  <1>3. Sections' /\ Buffer'
    BY <1>1 DEF Sections, Buffer, Base
  <1>4. Memory'
    <2> SUFFICES ASSUME ByWords, Ordered(file), Fresh(file), preloads > 0, file.table,
                        NEW i \in 1 .. section_index - Base,
                        host = "slink" => TailReached(Segs(file)[i]),
                        NEW o \in 0 .. Segs(file)[i].memsz - 1
                 PROVE  mem[Segs(file)[i].addr + o] = Image(file, Segs(file)[i], o)
      BY <1>1 DEF Memory, ByWords, Fresh, Ordered, In, Base
    <2>1. In(Segs(file)[i], Segs(file)[i].memsz)
      BY <1>1 DEF Memory
    <2>2. file \in Files
      BY <1>1 DEF Sections
    <2>3. Base >= 0 /\ section_index \in Nat /\ Len(Segs(file)) \in Nat /\ i \in 1 .. Len(Segs(file))
      BY <1>1, <2>2, SegsAre DEF Sections, PreloadTypes, Base
    <2>4. Segs(file)[i].memsz \in Nat
      BY <2>2, <2>3, SegsAre DEF SegmentType
    <2> QED BY <2>1, <2>4 DEF In
  <1>5. Footprint' /\ StopsOnlyFor'
    BY <1>1 DEF Footprint, Slack, StopsOnlyFor, ByWords
  <1> QED BY <1>2, <1>3, <1>4, <1>5

\* The inductive invariant of the three loaders. The sections not yet fetched
\* are the file's segments with data, the one being written has been read from
\* the contents known for its address, and what lies before the write position
\* is in memory.
THEOREM PreloadInvariance == PreloadSpec => []PInv
  <1>1. PInv /\ [PreloadNext]_preloadVars => PInv'
    <2> SUFFICES ASSUME PInv, [PreloadNext]_preloadVars PROVE PInv'
      OBVIOUS
    <2>1. ASSUME NEW h \in Hosts, NEW f \in Files, read_elf(h, f) PROVE PInv'
      BY <2>1, ReadElfPreserves
    <2>2. CASE UNCHANGED preloadVars
      <3>1. PreloadTypes' /\ Sections' /\ Buffer' /\ Memory'
        BY <2>2 DEF PInv, preloadVars, loader, PreloadTypes, Sections, Buffer, Memory, Base,
                    Current, Step, Lead, bus_offset, In, ByWords, Ordered, Fresh
      <3>2. Footprint' /\ StopsOnlyFor'
        BY <2>2 DEF PInv, preloadVars, Footprint, Slack, StopsOnlyFor, ByWords, Fresh
      <3> QED BY <3>1, <3>2 DEF PInv
    <2> QED
      BY <2>1, <2>2, GetSectionPreserves, WritesAre, WritePreserves, UnalignedPreserves,
         EmptyBurstPreserves, GetEntryPreserves DEF PreloadNext
  <1> QED
    BY <1>1, PreloadInitInv, PTL DEF PreloadSpec

\* A preload that completes has written the program it was given, with zero
\* bytes behind the segments' data, whatever was loaded earlier; the
\* exceptions are those of ImageLoaded, the file cut off in its headers and
\* segments without data among them (elfloader.cpp:157-248, vip_cheshire_soc.sv:341, 532, 898-921).
THEOREM ImageCorrect == PreloadSpec => []ImageLoaded
  <1>1. PInv => ImageLoaded
    <2> SUFFICES ASSUME PInv, task = "idle", preloads > 0, file.table, ByWords, Ordered(file), Fresh(file)
                 PROVE  /\ got = file.entry
                        /\ \A i \in 1 .. Len(file.segs) :
                             (/\ Loadable(file.segs[i])
                              /\ host = "slink" => TailReached(file.segs[i])) =>
                               \A o \in 0 .. file.segs[i].memsz - 1 :
                                  mem[file.segs[i].addr + o] = Image(file, file.segs[i], o)
      BY DEF ImageLoaded, Image
    <2>1. got = file.entry /\ file \in Files /\ section_index = Len(sections) /\ Len(sections) \in Nat
      BY DEF PInv, PreloadTypes, Sections
    <2>2. Len(Segs(file)) \in Nat /\ section_index - Base = Len(Segs(file))
      BY <2>1, SegsAre DEF Base
    <2>3. ASSUME NEW i \in 1 .. Len(file.segs), Loadable(file.segs[i]),
                 host = "slink" => TailReached(file.segs[i]),
                 NEW o \in 0 .. file.segs[i].memsz - 1
          PROVE  mem[file.segs[i].addr + o] = Image(file, file.segs[i], o)
      <3>1. PICK j \in 1 .. Len(Segs(file)) : Segs(file)[j] = file.segs[i]
        BY <2>1, <2>3, SegsAre
      <3>2. In(Segs(file)[j], Segs(file)[j].memsz)
        BY <2>2 DEF PInv, Memory
      <3>3. Segs(file)[j].memsz \in Nat
        BY <2>1, SegsAre DEF SegmentType
      <3> QED BY <2>3, <3>1, <3>2, <3>3 DEF In
    <2> QED BY <2>1, <2>3
  <1> QED
    BY <1>1, PreloadInvariance, PTL

\* A preload changes no memory but its sections and the few bytes behind them
\* that a path writes over, unaligned sections over JTAG excepted (vip_cheshire_soc.sv:341, 820, 910).
THEOREM FootprintCorrect == PreloadSpec => []Footprint
  BY PreloadInvariance, PTL DEF PInv

\* The simulation is only stopped by a file that is none, by a segment whose
\* data lies outside the file, by one that uses an earlier file's address, by
\* one with more data than memory, by an empty burst on the serial link, and
\* by an unaligned section over JTAG (elfloader.cpp:238,
\* vip_cheshire_soc.sv:254, 331, 336, 808).
THEOREM StopsCorrect == PreloadSpec => []StopsOnlyFor
  BY PreloadInvariance, PTL DEF PInv

-----------------------------------------------------------------------------
(* The interconnect: configurations, and the ports they give.              *)

\* What the assumptions say of a configuration.
LEMMA ConfigurationIs ==
    ASSUME NEW c \in Cfgs
    PROVE  /\ c.cores \in Nat \ {0} /\ c.cores < TableSize /\ TableSize \in Nat /\ TableSize <= 64
           /\ PortMod \in Nat \ {0}
           /\ c.spm \in Nat /\ c.cieLen \in Nat /\ c.cieOnTop \in BOOLEAN
           /\ c.llcOut[1] \in Nat /\ c.llcOut[2] \in Nat /\ c.slink[1] \in Nat /\ c.slink[2] \in Nat
           /\ c.axiExt \in Rules /\ c.regExt \in Rules
           /\ "LlcNotBypass" \in c.feats => "LlcOutConnect" \in c.feats
           /\ PlacedApart(c) /\ Countable(c)
  <1>1. c \in CfgType /\ PlacedApart(c) /\ Countable(c)
        /\ ("LlcNotBypass" \in c.feats => "LlcOutConnect" \in c.feats)
        /\ PortMod \in Nat \ {0} /\ TableSize \in 1 .. 64
    BY SocAssumption
  <1>2. c.llcOut \in Nat \X Nat /\ c.slink \in Nat \X Nat /\ c.cores \in 1 .. TableSize - 1
        /\ c.spm \in Nat /\ c.cieLen \in Nat /\ c.cieOnTop \in BOOLEAN
        /\ c.axiExt \in Rules /\ c.regExt \in Rules
    BY <1>1 DEF CfgType
  <1> QED BY <1>1, <1>2

\* The same for the regions of the documented layout.
LEMMA LayoutIs ==
    ASSUME NEW c \in Cfgs
    PROVE  /\ c.spm \in Nat /\ c.spm <= \h400000 /\ c.cieLen \in Nat /\ c.cieLen <= \h6000000
           /\ c.cieOnTop \in BOOLEAN
           /\ c.llcOut[1] \in Nat /\ c.llcOut[2] \in Nat /\ \h8000000 <= c.llcOut[1]
           /\ c.slink[1] \in Nat /\ c.slink[2] \in Nat /\ \h8000000 <= c.slink[1]
           /\ c.llcOut[2] <= c.slink[1] \/ c.slink[2] <= c.llcOut[1]
  BY ConfigurationIs, SMT DEF PlacedApart, Apart

\* The memory attributes as ranges of addresses.
LEMMA AttributesAre ==
    ASSUME NEW c \in Cfgs, NEW a \in Nat
    PROVE  /\ Cached(c, a) <=> \/ AmSpm <= a /\ a < AmSpm + c.spm
                               \/ c.llcOut[1] <= a /\ a < c.llcOut[2]
                               \/ CieBase(c) <= a /\ a < CieBase(c) + c.cieLen
           /\ Executable(c, a) <=> \/ a < \h4000
                                   \/ \h0200000 <= a /\ a < \h0204000
                                   \/ AmSpm <= a /\ a < AmSpm + 2 * c.spm
                                   \/ c.llcOut[1] <= a /\ a < c.llcOut[2]
                                   \/ CieBase(c) <= a /\ a < CieBase(c) + c.cieLen
           /\ NonIdempotent(c, a) <=> \/ a < \h1000000
                                      \/ NoCieBase(c) <= a /\ a < NoCieBase(c) + (\h6000000 - c.cieLen)
  <1>1. c.llcOut[1] \in Nat /\ c.llcOut[2] \in Nat /\ c.spm \in Nat /\ c.cieLen \in Nat
        /\ CieBase(c) \in Int /\ NoCieBase(c) \in Int
    BY ConfigurationIs DEF CieBase, NoCieBase
  <1>2. c.llcOut[1] + (c.llcOut[2] - c.llcOut[1]) = c.llcOut[2]
    BY <1>1
  <1>3. Cached(c, a) <=> \/ AmSpm <= a /\ a < AmSpm + c.spm
                         \/ c.llcOut[1] <= a /\ a < c.llcOut[2]
                         \/ CieBase(c) <= a /\ a < CieBase(c) + c.cieLen
    BY <1>1, <1>2 DEF Cached, Within, LlcOut
  <1>4. Executable(c, a) <=> \/ a < \h4000
                             \/ \h0200000 <= a /\ a < \h0204000
                             \/ AmSpm <= a /\ a < AmSpm + 2 * c.spm
                             \/ c.llcOut[1] <= a /\ a < c.llcOut[2]
                             \/ CieBase(c) <= a /\ a < CieBase(c) + c.cieLen
    BY <1>1, <1>2 DEF Executable, Within, LlcOut
  <1>5. NonIdempotent(c, a) <=> \/ a < \h1000000
                                \/ NoCieBase(c) <= a /\ a < NoCieBase(c) + (\h6000000 - c.cieLen)
    BY <1>1 DEF NonIdempotent, Within
  <1> QED BY <1>3, <1>4, <1>5

\* The external on-chip region has one part that is plain memory, and one
\* that is not.
LEMMA SplitSound ==
    ASSUME NEW c \in Cfgs, NEW a \in Nat, \h2000000 <= a, a < \h8000000
    PROVE  /\ Cached(c, a) = ~NonIdempotent(c, a)
           /\ Executable(c, a) = Cached(c, a)
  <1>1. Cached(c, a) \in BOOLEAN /\ Executable(c, a) \in BOOLEAN /\ NonIdempotent(c, a) \in BOOLEAN
    BY DEF Cached, Executable, NonIdempotent, Within
  <1>2. Cached(c, a) <=> ~NonIdempotent(c, a)
    BY AttributesAre, LayoutIs, SMT DEF CieBase, NoCieBase, AmSpm
  <1>3. Executable(c, a) <=> Cached(c, a)
    BY AttributesAre, LayoutIs, SMT DEF CieBase, AmSpm
  <1> QED BY <1>1, <1>2, <1>3

\* A region has the attributes its flags say, but for the two that the code
\* does not set.
Flagged(c, e, a) ==
    /\ Cached(c, a) <=> "C" \in e[4]
    /\ Executable(c, a) => "E" \in e[4]
    /\ "E" \in e[4] => Executable(c, a) \/ e[1] = "UncachedSpm"
    /\ "I" \in e[4] => ~NonIdempotent(c, a)
    /\ ~NonIdempotent(c, a) => "I" \in e[4] \/ e[2] = c.slink[1]

\* Each documented region has them.
LEMMA AttributedSound ==
    ASSUME NEW c \in Cfgs, NEW a \in Nat, NEW e \in Attributed(c), Holds(e, a)
    PROVE  Flagged(c, e, a)
  <1>1. CASE e = <<"LlcOutConnect", c.llcOut[1], c.llcOut[2] - c.llcOut[1], {"C", "I", "E"}>>
    <2>1. c.llcOut[1] <= a /\ a < c.llcOut[2]
      BY <1>1, LayoutIs, SMT DEF Holds
    <2>2. e[4] = {"C", "I", "E"}
      BY <1>1
    <2> QED BY <2>1, <2>2, AttributesAre, LayoutIs, SMT DEF NoCieBase, Flagged
  <1>2. CASE e = <<"Dbg", 0, \h4000, {"E"}>> \/ e = <<"Bootrom", \h0200000, \h4000, {"E"}>>
    <2>1. /\ e[4] = {"E"} /\ a < \h1000000
          /\ a < \h4000 \/ (\h0200000 <= a /\ a < \h0204000)
      BY <1>2 DEF Holds
    <2> QED BY <2>1, AttributesAre, LayoutIs, SMT DEF CieBase, AmSpm, Flagged
  <1>3. CASE e = <<"CachedSpm", AmSpm, c.spm, {"C", "I", "E"}>>
    <2>1. AmSpm <= a /\ a < AmSpm + c.spm
      BY <1>3 DEF Holds
    <2>2. e[4] = {"C", "I", "E"}
      BY <1>3
    <2> QED BY <2>1, <2>2, AttributesAre, LayoutIs, SMT DEF CieBase, NoCieBase, AmSpm, Flagged
  <1>4. CASE e = <<"UncachedSpm", AmSpm + \h400000, c.spm, {"I", "E"}>>
    <2>1. AmSpm + \h400000 <= a /\ a < AmSpm + \h400000 + c.spm
      BY <1>4 DEF Holds
    <2>2. e[4] = {"I", "E"} /\ e[1] = "UncachedSpm"
      BY <1>4
    <2> QED BY <2>1, <2>2, AttributesAre, LayoutIs, SMT DEF CieBase, NoCieBase, AmSpm, Flagged
  <1>5. CASE e = <<"SerialLink", c.slink[1], c.slink[2] - c.slink[1], {}>>
    <2>1. c.slink[1] <= a /\ a < c.slink[2]
      BY <1>5, LayoutIs, SMT DEF Holds
    <2>2. e[4] = {} /\ e[2] = c.slink[1]
      BY <1>5
    <2> QED BY <2>1, <2>2, AttributesAre, LayoutIs, SMT DEF CieBase, NoCieBase, AmSpm, Flagged, Apart
  <1>6. CASE /\ e \in Documented(c)
             /\ e # <<"LlcOutConnect", c.llcOut[1], c.llcOut[2] - c.llcOut[1], {"C", "I", "E"}>>
             /\ e # <<"Dbg", 0, \h4000, {"E"}>> /\ e # <<"Bootrom", \h0200000, \h4000, {"E"}>>
             /\ e # <<"SerialLink", c.slink[1], c.slink[2] - c.slink[1], {}>>
    <2>1. /\ e[4] = {} /\ \h4000 <= e[2] /\ e[2] + e[3] <= \h1000000 /\ e[2] \in Nat /\ e[3] \in Nat
          /\ e[2] + e[3] <= \h0200000 \/ \h0204000 <= e[2]
      BY <1>6 DEF Documented
    <2>2. /\ a < \h1000000 /\ \h4000 <= a
          /\ a < \h0200000 \/ \h0204000 <= a
      BY <2>1 DEF Holds
    <2> QED BY <2>1, <2>2, AttributesAre, LayoutIs, SMT DEF CieBase, AmSpm, Flagged
  <1> QED BY <1>1, <1>2, <1>3, <1>4, <1>5, <1>6, SMT DEF Attributed

-----------------------------------------------------------------------------
Distinct(s) == \A i, j \in 1 .. Len(s) : s[i] = s[j] => i = j

\* A selection is no longer than what it is made from.
LEMMA SelectionLength ==
    ASSUME NEW n \in Nat, NEW m \in Nat, NEW f \in [1 .. m -> 1 .. n],
           \A j, k \in 1 .. m : j < k => f[j] < f[k]
    PROVE  m <= n
  <1> DEFINE S == {k \in Nat : k \in 1 .. m => k <= f[k]}
  <1>1. 0 \in S
    OBVIOUS
  <1>2. \A k \in Nat : k \in S => k + 1 \in S
    <2> SUFFICES ASSUME NEW k \in Nat, k \in S, k + 1 \in 1 .. m PROVE k + 1 <= f[k + 1]
      OBVIOUS
    <2>1. CASE k = 0
      BY <2>1
    <2>2. CASE k # 0
      <3>1. k \in 1 .. m /\ f[k] \in 1 .. n /\ f[k + 1] \in 1 .. n /\ k <= f[k]
        BY <2>2
      <3>2. f[k] < f[k + 1]
        BY <3>1
      <3> QED BY <3>1, <3>2
    <2> QED BY <2>1, <2>2
  <1> HIDE DEF S
  <1>3. Nat \subseteq S
    BY <1>1, <1>2, Induction
  <1>4. CASE m = 0
    BY <1>4
  <1>5. CASE m # 0
    <2>1. m \in S /\ m \in 1 .. m /\ f[m] \in 1 .. n
      BY <1>3, <1>5
    <2>2. m <= f[m]
      BY <2>1 DEF S
    <2> QED BY <2>1, <2>2
  <1> QED BY <1>4, <1>5

Filters(e, list, feats) ==
    /\ e \in Seq(Features) /\ Distinct(e) /\ Len(e) \in Nat /\ Len(e) <= Len(list)
    /\ \A i \in 1 .. Len(e) : e[i] \in feats /\ \E j \in 1 .. Len(list) : e[i] = list[j]
    /\ \A j \in 1 .. Len(list) : list[j] \in feats => \E i \in 1 .. Len(e) : e[i] = list[j]

\* The enabled features are those of the list that are configured, each
\* once.
LEMMA EnabledIs ==
    ASSUME NEW c, NEW list \in Seq(Features), Distinct(list)
    PROVE  Filters(Enabled(c, list), list, c.feats)
  <1> DEFINE keep == {i \in 1 .. Len(list) : list[i] \in c.feats}
             e == Enabled(c, list)
             n == Len(list)
             m == Len(e)
  <1>1. e = Select(list, keep)
    BY DEF Enabled
  <1> HIDE DEF e
  <1>2. e \in Seq(Features) /\ Selects(e, list, keep, n) /\ n \in Nat /\ m \in Nat
    <2>1. Select(list, keep) \in Seq(Features) /\ Selects(Select(list, keep), list, keep, Len(list))
      BY Selected
    <2> QED BY <1>1, <2>1
  <1>3. PICK f \in [1 .. m -> 1 .. n] :
            /\ \A k \in 1 .. m : f[k] \in keep /\ e[k] = list[f[k]]
            /\ \A j, k \in 1 .. m : j < k => f[j] < f[k]
            /\ \A i \in 1 .. n : i \in keep => \E k \in 1 .. m : f[k] = i
    BY <1>2 DEF Selects
  <1>4. m <= n
    BY <1>2, <1>3, SelectionLength
  <1>5. Distinct(e)
    <2> SUFFICES ASSUME NEW i \in 1 .. m, NEW j \in 1 .. m, e[i] = e[j] PROVE i = j
      BY DEF Distinct
    <2>1. f[i] = f[j]
      <3>1. list[f[i]] = list[f[j]] /\ f[i] \in 1 .. Len(list) /\ f[j] \in 1 .. Len(list)
        BY <1>3
      <3> QED BY <3>1 DEF Distinct
    <2>2. ~(i < j) /\ ~(j < i)
      <3>1. f[i] \in Nat /\ f[j] \in Nat
        BY <1>3
      <3> QED BY <2>1, <3>1, <1>3
    <2> QED BY <2>2
  <1>6. \A i \in 1 .. m : e[i] \in c.feats /\ \E j \in 1 .. n : e[i] = list[j]
    BY <1>3
  <1>7. \A j \in 1 .. n : list[j] \in c.feats => \E i \in 1 .. m : e[i] = list[j]
    BY <1>3
  <1>8. e \in Seq(Features) /\ Len(e) \in Nat /\ Len(e) <= Len(list)
    BY <1>2, <1>4
  <1> QED BY <1>5, <1>6, <1>7, <1>8 DEF e, Filters

\* The two lists of features.
LEMMA FeatureLists ==
    /\ AxiFeatures \in Seq(Features) /\ Len(AxiFeatures) = 3 /\ Distinct(AxiFeatures)
    /\ AxiFeatures[1] = "LlcOutConnect" /\ AxiFeatures[2] = "Dma" /\ AxiFeatures[3] = "SerialLink"
    /\ RegFeatures \in Seq(Features) /\ Len(RegFeatures) = 11 /\ Distinct(RegFeatures)
    /\ RegFeatures[1] = "Bootrom" /\ RegFeatures[2] = "LlcNotBypass" /\ RegFeatures[3] = "Uart"
    /\ RegFeatures[4] = "I2c" /\ RegFeatures[5] = "SpiHost" /\ RegFeatures[6] = "Gpio"
    /\ RegFeatures[7] = "SerialLink" /\ RegFeatures[8] = "Vga" /\ RegFeatures[9] = "Usb"
    /\ RegFeatures[10] = "IrqRouter" /\ RegFeatures[11] = "AxiRt"
  <1>1. AxiFeatures \in Seq(Features) /\ Len(AxiFeatures) = 3
    BY DEF AxiFeatures, Features
  <1>2. RegFeatures \in Seq(Features) /\ Len(RegFeatures) = 11
    <2>1. /\ RegFeatures \in Seq({"Bootrom", "LlcNotBypass", "Uart", "I2c", "SpiHost", "Gpio",
                                  "SerialLink", "Vga", "Usb", "IrqRouter", "AxiRt"})
          /\ Len(RegFeatures) = 11
      BY DEF RegFeatures
    <2>2. \A i \in 1 .. 11 : RegFeatures[i] \in Features
      BY <2>1 DEF Features
    <2>3. RegFeatures \in [1 .. 11 -> Features]
      BY <2>1, <2>2
    <2>4. \A n \in Nat : [1 .. n -> Features] \subseteq Seq(Features)
      BY SeqDef
    <2> QED BY <2>1, <2>3, <2>4
  <1>3. AxiFeatures[1] = "LlcOutConnect" /\ AxiFeatures[2] = "Dma" /\ AxiFeatures[3] = "SerialLink"
    BY DEF AxiFeatures
  <1>4. /\ RegFeatures[1] = "Bootrom" /\ RegFeatures[2] = "LlcNotBypass" /\ RegFeatures[3] = "Uart"
        /\ RegFeatures[4] = "I2c" /\ RegFeatures[5] = "SpiHost" /\ RegFeatures[6] = "Gpio"
        /\ RegFeatures[7] = "SerialLink" /\ RegFeatures[8] = "Vga" /\ RegFeatures[9] = "Usb"
        /\ RegFeatures[10] = "IrqRouter" /\ RegFeatures[11] = "AxiRt"
    BY DEF RegFeatures
  <1>5. Distinct(AxiFeatures)
    BY <1>1, <1>3 DEF Distinct
  <1>6. Distinct(RegFeatures)
    BY <1>2, <1>4 DEF Distinct
  <1> QED BY <1>1, <1>2, <1>3, <1>4, <1>5, <1>6

-----------------------------------------------------------------------------
Names == Features \union Always \union {"Err", "RegDemux"}

\* A list of features as a list of devices, one for each.
LEMMA AloneIs ==
    ASSUME NEW s \in Seq(Names)
    PROVE  /\ Alone(s) \in Seq(Names \X Nat) /\ Len(Alone(s)) = Len(s)
           /\ \A i \in 1 .. Len(s) : Alone(s)[i] = <<s[i], 0>>
  <1>1. Alone(s) \in [1 .. Len(s) -> Names \X Nat] /\ Len(s) \in Nat
    BY DEF Alone
  <1>2. \A n \in Nat : [1 .. n -> Names \X Nat] \subseteq Seq(Names \X Nat)
    BY SeqDef
  <1>3. Alone(s) \in Seq(Names \X Nat)
    BY <1>1, <1>2
  <1>4. Len(Alone(s)) = Len(s)
    BY <1>1 DEF Alone
  <1>5. \A i \in 1 .. Len(s) : Alone(s)[i] = <<s[i], 0>>
    BY DEF Alone
  <1> QED BY <1>3, <1>4, <1>5

Repeats(w, name, n) ==
    /\ w \in Seq(Names \X Nat) /\ Len(w) = n
    /\ \A i \in 1 .. n : w[i] = <<name, i - 1>>

\* A device for each core.
LEMMA CopiesAre ==
    ASSUME NEW c, NEW f \in Names, NEW n \in Nat
    PROVE  Repeats(Copies(c, f, n), f, IF f \in c.feats THEN n ELSE 0)
  <1>1. CASE f \in c.feats
    <2>1. Copies(c, f, n) = [i \in 1 .. n |-> <<f, i - 1>>]
      BY <1>1 DEF Copies
    <2>2. [i \in 1 .. n |-> <<f, i - 1>>] \in [1 .. n -> Names \X Nat]
      OBVIOUS
    <2>3. [1 .. n -> Names \X Nat] \subseteq Seq(Names \X Nat)
      BY SeqDef
    <2> QED BY <1>1, <2>1, <2>2, <2>3 DEF Repeats
  <1>2. CASE f \notin c.feats
    BY <1>2 DEF Copies, Repeats
  <1> QED BY <1>1, <1>2

Joins(r, w, q, S) ==
    /\ r \in Seq(S) /\ Len(r) = Len(w) + Len(q)
    /\ \A i \in 1 .. Len(w) : r[i] = w[i]
    /\ \A i \in Len(w) + 1 .. Len(w) + Len(q) : r[i] = q[i - Len(w)]

\* Two lists, one behind the other.
LEMMA Joined ==
    ASSUME NEW S, NEW w \in Seq(S), NEW q \in Seq(S)
    PROVE  Joins(w \o q, w, q, S)
  BY DEF Joins

AxiNames == {"LlcOutConnect", "Dma", "SerialLink"}

\* Ports of the crossbar: the debug module, the demultiplexer, and the
\* features enabled, each once.
LEMMA AxiPortsAre ==
    ASSUME NEW c
    PROVE  /\ AxiPorts(c) \in Seq(Names \X Nat) /\ Distinct(AxiPorts(c))
           /\ Len(AxiPorts(c)) \in 2 .. 5
           /\ AxiPorts(c)[1] = <<"Dbg", 0>>
           /\ \A i \in 3 .. Len(AxiPorts(c)) :
                 \E f \in AxiNames \intersect c.feats : AxiPorts(c)[i] = <<f, 0>>
           /\ \A f \in AxiNames \intersect c.feats :
                 \E i \in 3 .. Len(AxiPorts(c)) : AxiPorts(c)[i] = <<f, 0>>
  <1> DEFINE e == Enabled(c, AxiFeatures)
             h == <<"Dbg", "RegDemux">> \o e
             w == AxiPorts(c)
  <1>1. /\ e \in Seq(Features) /\ Len(e) \in Nat /\ Len(e) <= 3 /\ Distinct(e)
        /\ \A i \in 1 .. Len(e) : e[i] \in c.feats /\ \E j \in 1 .. 3 : e[i] = AxiFeatures[j]
        /\ \A j \in 1 .. 3 : AxiFeatures[j] \in c.feats => \E i \in 1 .. Len(e) : e[i] = AxiFeatures[j]
    <2>1. AxiFeatures \in Seq(Features) /\ Len(AxiFeatures) = 3 /\ Distinct(AxiFeatures)
      BY FeatureLists
    <2>2. Filters(e, AxiFeatures, c.feats)
      BY <2>1, EnabledIs
    <2> QED BY <2>1, <2>2 DEF Filters
  <1>2. w = Alone(h)
    BY DEF AxiPorts
  <1> HIDE DEF e, w
  <1>3. e \in Seq(Names) /\ <<"Dbg", "RegDemux">> \in Seq(Names)
    <2>1. Features \subseteq Names /\ "Dbg" \in Names /\ "RegDemux" \in Names
      BY DEF Names, Always
    <2> QED BY <2>1, <1>1
  <1>4. /\ h \in Seq(Names) /\ Len(h) = 2 + Len(e) /\ h[1] = "Dbg" /\ h[2] = "RegDemux"
        /\ \A i \in 3 .. Len(h) : h[i] = e[i - 2]
    BY <1>3, <1>1
  <1> HIDE DEF h
  <1>5. w \in Seq(Names \X Nat) /\ Len(w) = Len(h) /\ \A i \in 1 .. Len(h) : w[i] = <<h[i], 0>>
    BY <1>2, <1>4, AloneIs
  <1>6. Len(w) \in 2 .. 5 /\ w[1] = <<"Dbg", 0>> /\ w[2] = <<"RegDemux", 0>>
    BY <1>1, <1>4, <1>5
  <1>7. ASSUME NEW i \in 3 .. Len(w)
        PROVE  /\ i - 2 \in 1 .. Len(e) /\ w[i] = <<e[i - 2], 0>>
               /\ e[i - 2] \in AxiNames \intersect c.feats
    <2>1. i - 2 \in 1 .. Len(e) /\ w[i] = <<e[i - 2], 0>>
      BY <1>1, <1>4, <1>5
    <2>2. e[i - 2] \in c.feats /\ \E j \in 1 .. 3 : e[i - 2] = AxiFeatures[j]
      BY <2>1, <1>1
    <2>3. \A j \in 1 .. 3 : AxiFeatures[j] \in AxiNames
      BY FeatureLists DEF AxiNames
    <2> QED BY <2>1, <2>2, <2>3
  <1>8. \A i \in 3 .. Len(w) : \E f \in AxiNames \intersect c.feats : w[i] = <<f, 0>>
    BY <1>7
  <1>9. ASSUME NEW f \in AxiNames \intersect c.feats
        PROVE  \E i \in 3 .. Len(w) : w[i] = <<f, 0>>
    <2>1. \E j \in 1 .. 3 : f = AxiFeatures[j]
      BY FeatureLists DEF AxiNames
    <2>2. PICK k \in 1 .. Len(e) : e[k] = f
      BY <2>1, <1>1
    <2>3. k + 2 \in 3 .. Len(w) /\ h[k + 2] = f
      BY <2>2, <1>1, <1>4, <1>5
    <2> QED BY <2>3, <1>5
  <1>10. Distinct(w)
    <2>1. \A i, j \in 3 .. Len(w) : w[i] = w[j] => i = j
      <3> SUFFICES ASSUME NEW i \in 3 .. Len(w), NEW j \in 3 .. Len(w), w[i] = w[j] PROVE i = j
        OBVIOUS
      <3>1. e[i - 2] = e[j - 2] /\ i - 2 \in 1 .. Len(e) /\ j - 2 \in 1 .. Len(e)
        BY <1>7
      <3>2. i - 2 = j - 2
        BY <3>1, <1>1 DEF Distinct
      <3> QED BY <3>2, <1>6
    <2>2. \A i \in 3 .. Len(w) : w[i] # w[1] /\ w[i] # w[2]
      BY <1>6, <1>8 DEF AxiNames
    <2>3. \A i \in 1 .. Len(w) : i = 1 \/ i = 2 \/ i \in 3 .. Len(w)
      BY <1>6
    <2> QED BY <2>1, <2>2, <2>3, <1>6 DEF Distinct
  <1> QED BY <1>5, <1>6, <1>8, <1>9, <1>10 DEF w

-----------------------------------------------------------------------------
RegNames == {"Bootrom", "LlcNotBypass", "Uart", "I2c", "SpiHost", "Gpio", "SerialLink", "Vga", "Usb",
             "IrqRouter", "AxiRt"}

Single(c) == {"Clint", "Plic", "Regs"} \union (RegNames \intersect c.feats)

\* Devices of the demultiplexer in configuration c.
Device(c, d) ==
    \/ \E f \in Single(c) : d = <<f, 0>>
    \/ "Clic" \in c.feats /\ \E j \in 0 .. c.cores - 1 : d = <<"Clic", j>>
    \/ "BusErr" \in c.feats /\ \E j \in 0 .. c.cores + 1 : d = <<"BusErr", j>>

\* Ports of the demultiplexer for the devices that exist once.
LEMMA FixedRegPorts ==
    ASSUME NEW c
    PROVE  LET w == Alone(<<"Err", "Clint", "Plic", "Regs">> \o Enabled(c, RegFeatures))
           IN  /\ w \in Seq(Names \X Nat) /\ Distinct(w) /\ Len(w) \in 4 .. 15
               /\ w[1] = <<"Err", 0>>
               /\ \A i \in 2 .. Len(w) : \E f \in Single(c) : w[i] = <<f, 0>>
               /\ \A f \in Single(c) : \E i \in 2 .. Len(w) : w[i] = <<f, 0>>
  <1> DEFINE e == Enabled(c, RegFeatures)
             h == <<"Err", "Clint", "Plic", "Regs">> \o e
             w == Alone(h)
  <1>1. /\ e \in Seq(Features) /\ Len(e) \in Nat /\ Len(e) <= 11 /\ Distinct(e)
        /\ \A i \in 1 .. Len(e) : e[i] \in c.feats /\ \E j \in 1 .. 11 : e[i] = RegFeatures[j]
        /\ \A j \in 1 .. 11 : RegFeatures[j] \in c.feats => \E i \in 1 .. Len(e) : e[i] = RegFeatures[j]
    <2>1. RegFeatures \in Seq(Features) /\ Len(RegFeatures) = 11 /\ Distinct(RegFeatures)
      BY FeatureLists
    <2>2. Filters(e, RegFeatures, c.feats)
      BY <2>1, EnabledIs
    <2> QED BY <2>1, <2>2 DEF Filters
  <1> HIDE DEF e
  <1>3. e \in Seq(Names) /\ <<"Err", "Clint", "Plic", "Regs">> \in Seq(Names)
    <2>1. Features \subseteq Names /\ {"Err", "Clint", "Plic", "Regs"} \subseteq Names
      BY DEF Names, Always
    <2> QED BY <2>1, <1>1
  <1>4. /\ h \in Seq(Names) /\ Len(h) = 4 + Len(e)
        /\ h[1] = "Err" /\ h[2] = "Clint" /\ h[3] = "Plic" /\ h[4] = "Regs"
        /\ \A i \in 5 .. Len(h) : h[i] = e[i - 4]
    BY <1>3, <1>1
  <1> HIDE DEF h
  <1>5. w \in Seq(Names \X Nat) /\ Len(w) = Len(h) /\ \A i \in 1 .. Len(h) : w[i] = <<h[i], 0>>
    BY <1>4, AloneIs
  <1> HIDE DEF w
  <1>6. /\ Len(w) \in 4 .. 15 /\ w[1] = <<"Err", 0>>
        /\ w[2] = <<"Clint", 0>> /\ w[3] = <<"Plic", 0>> /\ w[4] = <<"Regs", 0>>
    <2>1. PICK n \in Nat : n = Len(e) /\ n <= 11 /\ Len(w) = 4 + n /\ Len(h) = 4 + n
      BY <1>1, <1>4, <1>5
    <2>2. 1 \in 1 .. Len(h) /\ 2 \in 1 .. Len(h) /\ 3 \in 1 .. Len(h) /\ 4 \in 1 .. Len(h)
      BY <2>1, <1>5
    <2>3. \A i \in 1 .. Len(h) : w[i] = <<h[i], 0>>
      BY <1>5
    <2>4. w[1] = <<h[1], 0>> /\ w[2] = <<h[2], 0>> /\ w[3] = <<h[3], 0>> /\ w[4] = <<h[4], 0>>
      BY <2>2, <2>3
    <2>5. Len(w) \in 4 .. 15
      BY <2>1
    <2> QED BY <2>4, <2>5, <1>4
  <1>7. ASSUME NEW i \in 5 .. Len(w)
        PROVE  /\ i - 4 \in 1 .. Len(e) /\ w[i] = <<e[i - 4], 0>>
               /\ e[i - 4] \in RegNames \intersect c.feats
    <2>1. i - 4 \in 1 .. Len(e) /\ w[i] = <<e[i - 4], 0>>
      BY <1>1, <1>4, <1>5
    <2>2. e[i - 4] \in c.feats /\ \E j \in 1 .. 11 : e[i - 4] = RegFeatures[j]
      BY <2>1, <1>1
    <2>3. \A j \in 1 .. 11 : RegFeatures[j] \in RegNames
      BY FeatureLists DEF RegNames
    <2> QED BY <2>1, <2>2, <2>3
  <1>11. \A i \in 1 .. Len(w) : i = 1 \/ i = 2 \/ i = 3 \/ i = 4 \/ i \in 5 .. Len(w)
    BY <1>6
  <1>8. \A i \in 2 .. Len(w) : \E f \in Single(c) : w[i] = <<f, 0>>
    <2> SUFFICES ASSUME NEW i \in 2 .. Len(w) PROVE \E f \in Single(c) : w[i] = <<f, 0>>
      OBVIOUS
    <2>1. i = 2 \/ i = 3 \/ i = 4 \/ i \in 5 .. Len(w)
      BY <1>6
    <2>2. {"Clint", "Plic", "Regs"} \subseteq Single(c) /\ RegNames \intersect c.feats \subseteq Single(c)
      BY DEF Single
    <2> QED BY <2>1, <2>2, <1>6, <1>7
  <1>9. ASSUME NEW f \in Single(c)
        PROVE  \E i \in 2 .. Len(w) : w[i] = <<f, 0>>
    <2>1. CASE f \in {"Clint", "Plic", "Regs"}
      <3>1. 2 \in 2 .. Len(w) /\ 3 \in 2 .. Len(w) /\ 4 \in 2 .. Len(w)
        BY <1>6
      <3> QED BY <3>1, <2>1, <1>6
    <2>2. CASE f \in RegNames \intersect c.feats
      <3>1. \E j \in 1 .. 11 : f = RegFeatures[j]
        BY <2>2, FeatureLists DEF RegNames
      <3>2. PICK k \in 1 .. Len(e) : e[k] = f
        BY <2>2, <3>1, <1>1
      <3>3. k + 4 \in 2 .. Len(w) /\ h[k + 4] = f
        <4>1. Len(w) = 4 + Len(e) /\ Len(e) \in Nat /\ Len(h) = Len(w)
          BY <1>1, <1>4, <1>5
        <4>2. k + 4 \in 2 .. Len(w) /\ k + 4 \in 5 .. Len(h) /\ (k + 4) - 4 = k
          BY <4>1
        <4>3. h[k + 4] = e[(k + 4) - 4]
          BY <4>2, <1>4
        <4> QED BY <4>2, <4>3, <3>2
      <3>4. k + 4 \in 1 .. Len(h)
        BY <3>3, <1>5, <1>6
      <3> QED BY <3>3, <3>4, <1>5
    <2> QED BY <2>1, <2>2 DEF Single
  <1>10. Distinct(w)
    <2>1. \A i, j \in 5 .. Len(w) : w[i] = w[j] => i = j
      <3> SUFFICES ASSUME NEW i \in 5 .. Len(w), NEW j \in 5 .. Len(w), w[i] = w[j] PROVE i = j
        OBVIOUS
      <3>1. e[i - 4] = e[j - 4] /\ i - 4 \in 1 .. Len(e) /\ j - 4 \in 1 .. Len(e)
        BY <1>7
      <3>2. i - 4 = j - 4
        BY <3>1, <1>1 DEF Distinct
      <3> QED BY <3>2, <1>6
    <2>2. \A i \in 5 .. Len(w) : w[i] # w[1] /\ w[i] # w[2] /\ w[i] # w[3] /\ w[i] # w[4]
      BY <1>6, <1>7 DEF RegNames
    <2> QED BY <2>1, <2>2, <1>6, <1>11 DEF Distinct
  <1> QED BY <1>5, <1>6, <1>8, <1>9, <1>10 DEF w, h, e

\* Ports of the demultiplexer: the error slave, and each device that the
\* configuration has, once.
LEMMA RegPortsAre ==
    ASSUME NEW c \in Cfgs
    PROVE  /\ RegPorts(c) \in Seq(Names \X Nat) /\ Distinct(RegPorts(c))
           /\ Len(RegPorts(c)) \in 4 .. MaxRegPorts(c)
           /\ RegPorts(c)[1] = <<"Err", 0>>
           /\ \A i \in 2 .. Len(RegPorts(c)) : Device(c, RegPorts(c)[i])
           /\ \A d : Device(c, d) => \E i \in 2 .. Len(RegPorts(c)) : RegPorts(c)[i] = d
  <1> DEFINE p1 == Alone(<<"Err", "Clint", "Plic", "Regs">> \o Enabled(c, RegFeatures))
             p2 == Copies(c, "Clic", c.cores)
             p3 == Copies(c, "BusErr", 2 + c.cores)
             w == RegPorts(c)
             n1 == Len(p1)
             n2 == Len(p2)
             n3 == Len(p3)
  <1>1. w = p1 \o p2 \o p3
    BY DEF RegPorts
  <1>2. /\ p1 \in Seq(Names \X Nat) /\ Distinct(p1) /\ n1 \in 4 .. 15
        /\ p1[1] = <<"Err", 0>>
        /\ \A i \in 2 .. n1 : \E f \in Single(c) : p1[i] = <<f, 0>>
        /\ \A f \in Single(c) : \E i \in 2 .. n1 : p1[i] = <<f, 0>>
    BY FixedRegPorts
  <1>3. c.cores \in Nat \ {0}
    BY ConfigurationIs
  <1>4. "Clic" \in Names /\ "BusErr" \in Names
    BY DEF Names, Features
  <1>5. /\ p2 \in Seq(Names \X Nat) /\ n2 = (IF "Clic" \in c.feats THEN c.cores ELSE 0)
        /\ \A i \in 1 .. n2 : p2[i] = <<"Clic", i - 1>>
    <2>1. Repeats(p2, "Clic", IF "Clic" \in c.feats THEN c.cores ELSE 0)
      BY <1>3, <1>4, CopiesAre
    <2> HIDE DEF p2
    <2> QED BY <2>1 DEF Repeats
  <1>6. /\ p3 \in Seq(Names \X Nat) /\ n3 = (IF "BusErr" \in c.feats THEN 2 + c.cores ELSE 0)
        /\ \A i \in 1 .. n3 : p3[i] = <<"BusErr", i - 1>>
    <2>1. Repeats(p3, "BusErr", IF "BusErr" \in c.feats THEN 2 + c.cores ELSE 0)
      <3>1. 2 + c.cores \in Nat
        BY <1>3
      <3> QED BY <3>1, <1>4, CopiesAre
    <2> HIDE DEF p3
    <2> QED BY <2>1 DEF Repeats
  <1> HIDE DEF p1, p2, p3, w
  <1>8. n1 \in 4 .. 15 /\ n2 \in Nat /\ n3 \in Nat
    <2>1. c.cores \in Nat
      BY <1>3
    <2> QED BY <2>1, <1>2, <1>5, <1>6
  <1>7. /\ w \in Seq(Names \X Nat) /\ Len(w) = n1 + n2 + n3
        /\ \A i \in 1 .. n1 : w[i] = p1[i]
        /\ \A i \in n1 + 1 .. n1 + n2 : w[i] = p2[i - n1]
        /\ \A i \in n1 + n2 + 1 .. n1 + n2 + n3 : w[i] = p3[i - (n1 + n2)]
    <2> DEFINE q == p1 \o p2
    <2>1. /\ q \in Seq(Names \X Nat) /\ Len(q) = n1 + n2
          /\ \A i \in 1 .. n1 : q[i] = p1[i]
          /\ \A i \in n1 + 1 .. n1 + n2 : q[i] = p2[i - n1]
      <3>1. Joins(q, p1, p2, Names \X Nat)
        BY <1>2, <1>5, Joined
      <3> HIDE DEF q
      <3> QED BY <3>1 DEF Joins
    <2> HIDE DEF q
    <2>2. /\ q \o p3 \in Seq(Names \X Nat) /\ Len(q \o p3) = n1 + n2 + n3
          /\ \A i \in 1 .. Len(q) : (q \o p3)[i] = q[i]
          /\ \A i \in Len(q) + 1 .. Len(q) + n3 : (q \o p3)[i] = p3[i - Len(q)]
      <3>1. Joins(q \o p3, q, p3, Names \X Nat)
        BY <2>1, <1>6, Joined
      <3> DEFINE r == q \o p3
      <3> HIDE DEF r
      <3>2. Joins(r, q, p3, Names \X Nat)
        BY <3>1 DEF r
      <3>3. /\ r \in Seq(Names \X Nat) /\ Len(r) = n1 + n2 + n3
            /\ \A i \in 1 .. Len(q) : r[i] = q[i]
            /\ \A i \in Len(q) + 1 .. Len(q) + n3 : r[i] = p3[i - Len(q)]
        BY <3>2, <2>1 DEF Joins
      <3> QED BY <3>3 DEF r
    <2>3. w = q \o p3
      BY <1>1 DEF q
    <2> HIDE DEF n1, n2, n3
    <2>4. \A i \in 1 .. n1 : i \in 1 .. Len(q)
      BY <2>1, <1>8
    <2>5. \A i \in n1 + 1 .. n1 + n2 : i \in 1 .. Len(q)
      BY <2>1, <1>8
    <2> QED BY <2>1, <2>2, <2>3, <2>4, <2>5
  <1> HIDE DEF n1, n2, n3
  <1>9. \A i \in n1 + 1 .. n1 + n2 : w[i] = <<"Clic", i - n1 - 1>>
    <2> SUFFICES ASSUME NEW i \in n1 + 1 .. n1 + n2 PROVE w[i] = <<"Clic", i - n1 - 1>>
      OBVIOUS
    <2>1. i - n1 \in 1 .. n2
      BY <1>8
    <2>2. w[i] = p2[i - n1]
      BY <1>7
    <2> QED BY <2>1, <2>2, <1>5
  <1>10. \A i \in n1 + n2 + 1 .. Len(w) : w[i] = <<"BusErr", i - (n1 + n2) - 1>>
    <2> SUFFICES ASSUME NEW i \in n1 + n2 + 1 .. Len(w) PROVE w[i] = <<"BusErr", i - (n1 + n2) - 1>>
      OBVIOUS
    <2>1. i - (n1 + n2) \in 1 .. n3 /\ i \in n1 + n2 + 1 .. n1 + n2 + n3
      BY <1>7, <1>8
    <2>2. w[i] = p3[i - (n1 + n2)]
      BY <1>7, <2>1
    <2> QED BY <2>1, <2>2, <1>6
  <1>11. \A i \in 1 .. Len(w) : i \in 1 .. n1 \/ i \in n1 + 1 .. n1 + n2 \/ i \in n1 + n2 + 1 .. Len(w)
    BY <1>7, <1>8
  <1>12. Len(w) \in 4 .. MaxRegPorts(c)
    <2>1. Len(RegFeatures) = 11 /\ c.cores \in Nat
      BY FeatureLists, <1>3
    <2>2. MaxRegPorts(c) = 15 + n2 + n3
      BY <2>1, <1>5, <1>6 DEF MaxRegPorts
    <2>3. Len(w) \in Nat /\ 4 <= Len(w) /\ Len(w) <= 15 + n2 + n3
      <3>1. Len(w) = n1 + n2 + n3
        BY <1>7
      <3> QED BY <3>1, <1>8
    <2> QED BY <2>2, <2>3
  <1>13. w[1] = <<"Err", 0>>
    BY <1>2, <1>7, <1>8
  <1>14. \A i \in 2 .. n1 : \E f \in Single(c) : w[i] = <<f, 0>>
    <2>1. \A i \in 2 .. n1 : i \in 1 .. n1
      BY <1>8
    <2> QED BY <2>1, <1>2, <1>7
  <1>15. \A f \in Single(c) : f # "Clic" /\ f # "BusErr" /\ f # "Err"
    BY DEF Single, RegNames
  <1>16. Distinct(w)
    <2> SUFFICES ASSUME NEW i \in 1 .. Len(w), NEW j \in 1 .. Len(w), w[i] = w[j] PROVE i = j
      BY DEF Distinct
    <2>1. \A k \in 1 .. n1 : w[k][1] # "Clic" /\ w[k][1] # "BusErr"
      <3>1. \A k \in 1 .. n1 : k = 1 \/ k \in 2 .. n1
        BY <1>8
      <3> QED BY <3>1, <1>13, <1>14, <1>15
    <2>2. \A k \in n1 + 1 .. n1 + n2 : w[k][1] = "Clic" /\ w[k][2] = k - n1 - 1
      BY <1>9
    <2>3. \A k \in n1 + n2 + 1 .. Len(w) : w[k][1] = "BusErr" /\ w[k][2] = k - (n1 + n2) - 1
      BY <1>10
    <2>4. CASE i \in 1 .. n1
      <3>1. j \in 1 .. n1
        BY <2>4, <2>1, <2>2, <2>3, <1>11
      <3> QED BY <2>4, <3>1, <1>2, <1>7 DEF Distinct, n1
    <2>5. CASE i \in n1 + 1 .. n1 + n2
      <3>1. j \in n1 + 1 .. n1 + n2
        BY <2>5, <2>1, <2>2, <2>3, <1>11
      <3>2. i - n1 - 1 = j - n1 - 1
        BY <2>5, <3>1, <2>2
      <3> QED BY <3>1, <3>2, <2>5, <1>8
    <2>6. CASE i \in n1 + n2 + 1 .. Len(w)
      <3>1. j \in n1 + n2 + 1 .. Len(w)
        BY <2>6, <2>1, <2>2, <2>3, <1>11
      <3>2. i - (n1 + n2) - 1 = j - (n1 + n2) - 1
        BY <2>6, <3>1, <2>3
      <3> QED BY <3>1, <3>2, <2>6, <1>8
    <2> QED BY <2>4, <2>5, <2>6, <1>11
  <1>17. \A i \in 2 .. Len(w) : Device(c, w[i])
    <2> SUFFICES ASSUME NEW i \in 2 .. Len(w) PROVE Device(c, w[i])
      OBVIOUS
    <2>1. i \in 2 .. n1 \/ i \in n1 + 1 .. n1 + n2 \/ i \in n1 + n2 + 1 .. Len(w)
      BY <1>7, <1>8
    <2>2. CASE i \in 2 .. n1
      BY <2>2, <1>14 DEF Device
    <2>3. CASE i \in n1 + 1 .. n1 + n2
      <3>1. w[i] = <<"Clic", i - n1 - 1>>
        BY <2>3, <1>9
      <3>2. "Clic" \in c.feats /\ i - n1 - 1 \in 0 .. c.cores - 1
        BY <2>3, <1>3, <1>5, <1>8
      <3> QED BY <3>1, <3>2 DEF Device
    <2>4. CASE i \in n1 + n2 + 1 .. Len(w)
      <3>1. w[i] = <<"BusErr", i - (n1 + n2) - 1>>
        BY <2>4, <1>10
      <3>2. i \in Int /\ n1 + n2 + 1 <= i /\ i <= n1 + n2 + n3
        BY <2>4, <1>7, <1>8
      <3>3. "BusErr" \in c.feats /\ n3 = 2 + c.cores
        BY <3>2, <1>6, <1>8
      <3>4. i - (n1 + n2) - 1 \in 0 .. c.cores + 1
        <4>1. \A x \in Int, a, b, d \in Nat : a + 1 <= x /\ x <= a + b /\ b = 2 + d => x - a - 1 \in 0 .. d + 1
          OBVIOUS
        <4>2. n1 + n2 \in Nat /\ c.cores \in Nat /\ n3 \in Nat
          BY <1>3, <1>8
        <4> QED BY <4>1, <4>2, <3>2, <3>3
      <3> QED BY <3>1, <3>3, <3>4 DEF Device
    <2> QED BY <2>1, <2>2, <2>3, <2>4
  <1>18. ASSUME NEW d, Device(c, d) PROVE \E i \in 2 .. Len(w) : w[i] = d
    <2>1. ASSUME NEW f \in Single(c), d = <<f, 0>> PROVE \E i \in 2 .. Len(w) : w[i] = d
      <3>1. PICK i \in 2 .. n1 : p1[i] = d
        BY <2>1, <1>2 DEF n1
      <3>2. i \in 2 .. Len(w) /\ i \in 1 .. n1
        BY <1>7, <1>8
      <3> QED BY <3>1, <3>2, <1>7
    <2>2. ASSUME "Clic" \in c.feats, NEW j \in 0 .. c.cores - 1, d = <<"Clic", j>>
          PROVE  \E i \in 2 .. Len(w) : w[i] = d
      <3>1. n1 + 1 + j \in n1 + 1 .. n1 + n2 /\ n1 + 1 + j \in 2 .. Len(w) /\ (n1 + 1 + j) - n1 - 1 = j
        <4>1. n2 = c.cores /\ j \in Nat /\ j + 1 <= n2 /\ Len(w) = n1 + n2 + n3
          BY <2>2, <1>3, <1>5, <1>7
        <4> QED BY <4>1, <1>8
      <3>2. w[n1 + 1 + j] = d
        BY <3>1, <2>2, <1>9
      <3> QED BY <3>1, <3>2
    <2>3. ASSUME "BusErr" \in c.feats, NEW j \in 0 .. c.cores + 1, d = <<"BusErr", j>>
          PROVE  \E i \in 2 .. Len(w) : w[i] = d
      <3>1. /\ n1 + n2 + 1 + j \in n1 + n2 + 1 .. Len(w) /\ n1 + n2 + 1 + j \in 2 .. Len(w)
            /\ (n1 + n2 + 1 + j) - (n1 + n2) - 1 = j
        <4>1. n3 = 2 + c.cores /\ j \in Nat /\ j + 1 <= n3 /\ Len(w) = n1 + n2 + n3
          BY <2>3, <1>3, <1>6, <1>7
        <4> QED BY <4>1, <1>8
      <3>2. w[n1 + n2 + 1 + j] = d
        BY <3>1, <2>3, <1>10
      <3> QED BY <3>1, <3>2
    <2> QED BY <1>18, <2>1, <2>2, <2>3 DEF Device
  <1> QED BY <1>7, <1>12, <1>13, <1>16, <1>17, <1>18 DEF w

LEMMA Small ==
    ASSUME NEW n \in Nat \ {0}, NEW x \in Nat, x < n
    PROVE  x % n = x
  OBVIOUS

\* The port at which a table has a device.
LEMMA PortOfIs ==
    ASSUME NEW ports \in Seq(Names \X Nat), Distinct(ports), NEW i \in 1 .. Len(ports)
    PROVE  PortOf(ports, ports[i]) = i - 1
  <1> DEFINE T == {k \in 0 .. Len(ports) - 1 : ports[k + 1] = ports[i]}
  <1>1. Len(ports) \in Nat
    OBVIOUS
  <1>2. i - 1 \in T
    BY <1>1
  <1>3. \A k \in 0 .. Len(ports) - 1 : ports[k + 1] = ports[i] => k = i - 1
    <2> SUFFICES ASSUME NEW k \in 0 .. Len(ports) - 1, ports[k + 1] = ports[i] PROVE k = i - 1
      OBVIOUS
    <2>1. k + 1 \in 1 .. Len(ports)
      BY <1>1
    <2>2. k + 1 = i
      BY <2>1 DEF Distinct
    <2> QED BY <2>2, <1>1
  <1>4. PortOf(ports, ports[i]) \in 0 .. Len(ports) - 1 /\ ports[PortOf(ports, ports[i]) + 1] = ports[i]
    BY <1>2 DEF PortOf
  <1> QED BY <1>3, <1>4

-----------------------------------------------------------------------------
RuleType == [idx : Nat, start : Nat, end : Nat]

Has(s, x) == \E i \in 1 .. Len(s) : s[i] = x

\* A list made of two has the entries of both.
LEMMA HasJoined ==
    ASSUME NEW S, NEW w \in Seq(S), NEW q \in Seq(S), NEW x
    PROVE  /\ w \o q \in Seq(S) /\ Len(w \o q) = Len(w) + Len(q)
           /\ Has(w \o q, x) <=> Has(w, x) \/ Has(q, x)
  <1> DEFINE r == w \o q
  <1>1. Joins(r, w, q, S)
    BY Joined
  <1> HIDE DEF r
  <1>2. Len(w) \in Nat /\ Len(q) \in Nat
    OBVIOUS
  <1>3. r \in Seq(S) /\ Len(r) = Len(w) + Len(q)
    BY <1>1 DEF Joins
  <1>4. ASSUME Has(w, x) PROVE Has(r, x)
    <2>1. PICK i \in 1 .. Len(w) : w[i] = x
      BY <1>4 DEF Has
    <2>2. r[i] = x /\ i \in 1 .. Len(r)
      BY <2>1, <1>1, <1>2 DEF Joins
    <2> QED BY <2>2 DEF Has
  <1>5. ASSUME Has(q, x) PROVE Has(r, x)
    <2>1. PICK i \in 1 .. Len(q) : q[i] = x
      BY <1>5 DEF Has
    <2>2. /\ Len(w) + i \in Len(w) + 1 .. Len(w) + Len(q) /\ (Len(w) + i) - Len(w) = i
          /\ Len(w) + i \in 1 .. Len(r)
      BY <1>2, <1>3
    <2>3. r[Len(w) + i] = q[(Len(w) + i) - Len(w)]
      BY <2>2, <1>1 DEF Joins
    <2>4. r[Len(w) + i] = x
      BY <2>1, <2>2, <2>3
    <2> QED BY <2>2, <2>4 DEF Has
  <1>6. ASSUME Has(r, x) PROVE Has(w, x) \/ Has(q, x)
    <2>1. PICK i \in 1 .. Len(r) : r[i] = x
      BY <1>6 DEF Has
    <2>2. CASE i \in 1 .. Len(w)
      BY <2>1, <2>2, <1>1 DEF Has, Joins
    <2>3. CASE i \notin 1 .. Len(w)
      <3>1. i \in Len(w) + 1 .. Len(w) + Len(q) /\ i - Len(w) \in 1 .. Len(q)
        BY <2>3, <1>2, <1>3
      <3>2. q[i - Len(w)] = x
        BY <3>1, <2>1, <1>1 DEF Joins
      <3> QED BY <3>1, <3>2 DEF Has
    <2> QED BY <2>2, <2>3
  <1> QED BY <1>3, <1>4, <1>5, <1>6 DEF r

\* A list of rules that is part of a map.
Part(s, n) == s \in Seq(RuleType) /\ Len(s) \in Nat /\ Len(s) <= n

\* The same for two parts of a map.
LEMMA PartJoined ==
    ASSUME NEW w, NEW q, NEW m \in Nat, NEW n \in Nat, Part(w, m), Part(q, n)
    PROVE  Part(w \o q, m + n) /\ \A x : Has(w \o q, x) <=> Has(w, x) \/ Has(q, x)
  <1>1. \A x : /\ w \o q \in Seq(RuleType) /\ Len(w \o q) = Len(w) + Len(q)
               /\ Has(w \o q, x) <=> Has(w, x) \/ Has(q, x)
    BY HasJoined DEF Part
  <1>2. w \o q \in Seq(RuleType) /\ Len(w \o q) = Len(w) + Len(q)
    BY <1>1
  <1>3. Len(w) \in Nat /\ Len(q) \in Nat /\ Len(w) <= m /\ Len(q) <= n
    BY DEF Part
  <1>4. Len(w \o q) \in Nat /\ Len(w \o q) <= m + n
    BY <1>2, <1>3
  <1> QED BY <1>1, <1>2, <1>4 DEF Part

LEMMA OneRule ==
    ASSUME NEW x \in RuleType
    PROVE  Part(<<x>>, 1) /\ \A y : Has(<<x>>, y) <=> y = x
  <1>1. <<x>> \in Seq(RuleType) /\ Len(<<x>>) = 1 /\ <<x>>[1] = x
    OBVIOUS
  <1> QED BY <1>1 DEF Part, Has

LEMMA TwoRules ==
    ASSUME NEW x \in RuleType, NEW z \in RuleType
    PROVE  Part(<<x, z>>, 2) /\ \A y : Has(<<x, z>>, y) <=> y = x \/ y = z
  <1>1. <<x, z>> \in Seq(RuleType) /\ Len(<<x, z>>) = 2 /\ <<x, z>>[1] = x /\ <<x, z>>[2] = z
    OBVIOUS
  <1> QED BY <1>1 DEF Part, Has

\* Rules for a feature are there if it is configured.
LEMMA IfEnabledIs ==
    ASSUME NEW c, NEW f, NEW s, NEW n \in Nat, f \in c.feats => Part(s, n)
    PROVE  Part(IfEnabled(c, f, s), n) /\ \A y : Has(IfEnabled(c, f, s), y) <=> f \in c.feats /\ Has(s, y)
  <1>1. CASE f \in c.feats
    BY <1>1 DEF IfEnabled
  <1>2. CASE f \notin c.feats
    <2>1. IfEnabled(c, f, s) = <<>>
      BY <1>2 DEF IfEnabled
    <2>2. << >> \in Seq(RuleType) /\ Len(<< >>) = 0
      OBVIOUS
    <2>3. \A y : ~Has(<< >>, y)
      BY <2>2 DEF Has
    <2> QED BY <2>1, <2>2, <2>3, <1>2 DEF Part
  <1> QED BY <1>1, <1>2

\* A rule is as it is written, if its port can be numbered.
LEMMA RuleIs ==
    ASSUME NEW c \in Cfgs, NEW i \in Nat, NEW s \in Nat, NEW e \in Nat
    PROVE  Rule(i, s, e) \in RuleType /\ (i < PortMod => Rule(i, s, e).idx = i)
           /\ Rule(i, s, e).start = s /\ Rule(i, s, e).end = e
  <1>1. PortMod \in Nat \ {0}
    BY ConfigurationIs
  <1>2. i % PortMod \in Nat /\ (i < PortMod => i % PortMod = i)
    BY <1>1, Small
  <1> QED BY <1>2 DEF Rule, RuleType

LEMMA RuleList ==
    ASSUME NEW n \in Nat, NEW s, s = [i \in 1 .. n |-> s[i]], \A i \in 1 .. n : s[i] \in RuleType
    PROVE  Part(s, n) /\ Len(s) = n
  <1>1. s \in [1 .. n -> RuleType]
    OBVIOUS
  <1>2. [1 .. n -> RuleType] \subseteq Seq(RuleType)
    BY SeqDef
  <1>3. Len(s) = n
    BY <1>1
  <1> QED BY <1>1, <1>2, <1>3 DEF Part

\* The map is not cut off.
LEMMA TableIs ==
    ASSUME NEW n \in Nat, NEW s, Part(s, n), n < PortMod, NEW c \in Cfgs
    PROVE  Table(s) = s
  <1>1. PortMod \in Nat \ {0} /\ Len(s) \in Nat /\ Len(s) < PortMod /\ s \in Seq(RuleType)
    BY ConfigurationIs DEF Part
  <1>2. Len(s) % PortMod = Len(s)
    BY <1>1, Small
  <1>3. SubSeq(s, 1, Len(s)) = s
    BY <1>1
  <1> QED BY <1>2, <1>3 DEF Table

-----------------------------------------------------------------------------
Matches(r, a) == r.start <= a /\ a < r.end

\* The decoder answers with the port of a rule that matches, if there is one.
LEMMA DecodedIs ==
    ASSUME NEW n \in Nat, NEW s, Part(s, n), NEW a \in Nat
    PROVE  \/ Decoded(s, a) = None /\ \A r : Has(s, r) => ~Matches(r, a)
           \/ \E r \in RuleType : Has(s, r) /\ Matches(r, a) /\ Decoded(s, a) = r.idx
  <1> DEFINE M == {i \in 1 .. Len(s) : s[i].start <= a /\ a < s[i].end}
  <1>1. Len(s) \in Nat /\ s \in Seq(RuleType)
    BY DEF Part
  <1>2. Decoded(s, a) = IF M = {} THEN None ELSE s[Max(M)].idx
    BY DEF Decoded
  <1>3. CASE M = {}
    <2>1. \A r : Has(s, r) => ~Matches(r, a)
      BY <1>3 DEF Has, Matches
    <2> QED BY <2>1, <1>2, <1>3
  <1>4. CASE M # {}
    <2> DEFINE T == {Len(s) - i : i \in M}
    <2>1. T \subseteq Nat /\ T # {}
      BY <1>1, <1>4
    <2>2. PICK m \in T : \A k \in T : m <= k
      <3> HIDE DEF T
      <3> QED BY <2>1, LeastMember
    <2>3. PICK j \in M : m = Len(s) - j
      BY <2>2
    <2>4. \A i \in M : j >= i
      <3> SUFFICES ASSUME NEW i \in M PROVE j >= i
        OBVIOUS
      <3>1. Len(s) - j <= Len(s) - i /\ i \in Int /\ j \in Int
        <4>1. Len(s) - i \in T /\ i \in Int /\ j \in Int
          BY <1>1
        <4> HIDE DEF T, M
        <4>2. m <= Len(s) - i
          BY <4>1, <2>2
        <4> QED BY <4>1, <4>2, <2>3
      <3> QED BY <3>1, <1>1
    <2> HIDE DEF M, T
    <2>5. Max(M) \in M
      <3>1. \E x \in M : \A y \in M : x >= y
        BY <2>3, <2>4
      <3> QED BY <3>1 DEF Max
    <2>6. PICK i \in M : i = Max(M)
      BY <2>5
    <2>7. i \in 1 .. Len(s) /\ s[i].start <= a /\ a < s[i].end
      BY <2>6 DEF M
    <2>8. Has(s, s[i]) /\ Matches(s[i], a) /\ s[i] \in RuleType
      BY <2>7, <1>1 DEF Has, Matches
    <2> QED BY <2>6, <2>8, <1>2, <1>4
  <1> QED BY <1>3, <1>4

Llc(c) == PortOf(AxiPorts(c), <<"LlcOutConnect", 0>>)
ExternalRule(base, e) == Rule(base + e.idx, e.start, e.end)

FixedRules == <<Rule(0, 0, \h4000), Rule(1, \h0200000, \h0C00000)>>
LlcRules(c) == <<Rule(Llc(c), c.llcOut[1], c.llcOut[2])>>
SpmRules(c) == <<Rule(Llc(c), AmSpm, AmSpm + c.spm),
                 Rule(Llc(c), AmSpm + \h400000, AmSpm + \h400000 + c.spm)>>
DmaRules(c) == <<Rule(PortOf(AxiPorts(c), <<"Dma", 0>>), \h0100000, \h0100100)>>
SlinkRules(c) == <<Rule(PortOf(AxiPorts(c), <<"SerialLink", 0>>), c.slink[1], c.slink[2])>>
RegionRules(c) == [i \in 1 .. Len(c.regExt) |-> Rule(1, c.regExt[i].start, c.regExt[i].end)]

\* Rules of the crossbar.
AxiRule(c, r) ==
    \/ Has(FixedRules, r)
    \/ "LlcOutConnect" \in c.feats /\ Has(LlcRules(c), r)
    \/ "LlcNotBypass" \in c.feats /\ Has(SpmRules(c), r)
    \/ "Dma" \in c.feats /\ Has(DmaRules(c), r)
    \/ "SerialLink" \in c.feats /\ Has(SlinkRules(c), r)
    \/ \E i \in 1 .. Len(c.axiExt) : r = ExternalRule(Len(AxiPorts(c)), c.axiExt[i])
    \/ \E i \in 1 .. Len(c.regExt) : r = Rule(1, c.regExt[i].start, c.regExt[i].end)

\* The rules for external devices, of the crossbar and of the demultiplexer.
LEMMA ExternalsAre ==
    ASSUME NEW c \in Cfgs
    PROVE  /\ Len(c.axiExt) \in Nat /\ Len(c.regExt) \in Nat
           /\ \A i \in 1 .. Len(c.axiExt) : c.axiExt[i].idx \in Nat /\ c.axiExt[i].start \in Nat
                                            /\ c.axiExt[i].end \in Nat
           /\ \A i \in 1 .. Len(c.regExt) : c.regExt[i].idx \in Nat /\ c.regExt[i].start \in Nat
                                            /\ c.regExt[i].end \in Nat
           /\ Len(Externals(c)) = Len(c.axiExt) + Len(c.regExt)
           /\ \A i \in 1 .. Len(c.axiExt) : Externals(c)[i] = c.axiExt[i]
           /\ \A i \in 1 .. Len(c.regExt) : Externals(c)[Len(c.axiExt) + i] = c.regExt[i]
  <1>1. c.axiExt \in Seq(RuleType) /\ c.regExt \in Seq(RuleType)
    BY ConfigurationIs DEF Rules, RuleType
  <1>2. Len(c.axiExt) \in Nat /\ Len(c.regExt) \in Nat
    BY <1>1
  <1>3. \A i \in 1 .. Len(c.axiExt) : c.axiExt[i] \in RuleType
    BY <1>1
  <1>4. \A i \in 1 .. Len(c.regExt) : c.regExt[i] \in RuleType
    BY <1>1
  <1>5. \A r \in RuleType : r.idx \in Nat /\ r.start \in Nat /\ r.end \in Nat
    BY DEF RuleType
  <1> DEFINE e == Externals(c)
  <1>6. Joins(e, c.axiExt, c.regExt, RuleType)
    BY <1>1, Joined DEF Externals
  <1> HIDE DEF e
  <1>7. Len(e) = Len(c.axiExt) + Len(c.regExt) /\ \A i \in 1 .. Len(c.axiExt) : e[i] = c.axiExt[i]
    BY <1>6 DEF Joins
  <1>8. ASSUME NEW i \in 1 .. Len(c.regExt) PROVE e[Len(c.axiExt) + i] = c.regExt[i]
    <2>1. /\ Len(c.axiExt) + i \in Len(c.axiExt) + 1 .. Len(c.axiExt) + Len(c.regExt)
          /\ (Len(c.axiExt) + i) - Len(c.axiExt) = i
      <3>1. \A x, y \in Nat : \A k \in 1 .. y : x + k \in x + 1 .. x + y /\ (x + k) - x = k
        OBVIOUS
      <3> QED BY <3>1, <1>2, Zenon
    <2>2. e[Len(c.axiExt) + i] = c.regExt[(Len(c.axiExt) + i) - Len(c.axiExt)]
      BY <2>1, <1>6 DEF Joins
    <2> QED BY <2>1, <2>2
  <1> QED BY <1>2, <1>3, <1>4, <1>5, <1>7, <1>8 DEF e

\* Ports and rules can be numbered.
LEMMA CountsAre ==
    ASSUME NEW c \in Cfgs
    PROVE  /\ PortMod \in Nat /\ 7 + Len(c.axiExt) + Len(c.regExt) < PortMod /\ 7 < PortMod
           /\ \A i \in 1 .. Len(c.axiExt) : Len(AxiPorts(c)) + c.axiExt[i].idx < PortMod
           /\ Len(RegPorts(c)) <= PortMod /\ Len(RegPorts(c)) + Len(c.regExt) <= PortMod
           /\ \A i \in 1 .. Len(c.regExt) : Len(RegPorts(c)) + c.regExt[i].idx < PortMod
  <1>1. Countable(c) /\ PortMod \in Nat \ {0} /\ c.cores \in Nat
    BY ConfigurationIs
  <1>2. MaxAxiPorts = 5
    BY FeatureLists DEF MaxAxiPorts
  <1>3. Len(AxiPorts(c)) \in 2 .. 5
    BY AxiPortsAre
  <1>4. Len(RegPorts(c)) \in 4 .. MaxRegPorts(c) /\ MaxRegPorts(c) \in Nat
    <2>1. Len(RegFeatures) = 11
      BY FeatureLists
    <2>2. MaxRegPorts(c) \in Nat
      BY <2>1, <1>1 DEF MaxRegPorts
    <2>3. Len(RegPorts(c)) \in 4 .. MaxRegPorts(c)
      BY RegPortsAre
    <2> QED BY <2>2, <2>3
  <1>5. Len(c.axiExt) \in Nat /\ Len(c.regExt) \in Nat /\ Len(Externals(c)) = Len(c.axiExt) + Len(c.regExt)
    BY ExternalsAre
  <1>6. 5 + 2 + Len(Externals(c)) < PortMod /\ MaxRegPorts(c) + Len(c.regExt) <= PortMod
    BY <1>1, <1>2 DEF Countable
  <1>7. 7 + Len(c.axiExt) + Len(c.regExt) < PortMod /\ 7 < PortMod
    <2>1. \A x, y, m \in Nat : 5 + 2 + (x + y) < m => 7 + x + y < m /\ 7 < m
      OBVIOUS
    <2> QED BY <2>1, <1>1, <1>5, <1>6, Zenon
  <1>8. Len(RegPorts(c)) <= PortMod /\ Len(RegPorts(c)) + Len(c.regExt) <= PortMod
    <2>1. \A x, y, k, m \in Nat : \A z \in 4 .. k : k + y <= m => z <= m /\ z + y <= m
      OBVIOUS
    <2>2. PortMod \in Nat
      BY <1>1
    <2> QED BY <2>1, <2>2, <1>4, <1>5, <1>6, Zenon
  <1>9. ASSUME NEW i \in 1 .. Len(c.axiExt) PROVE Len(AxiPorts(c)) + c.axiExt[i].idx < PortMod
    <2>1. 5 + c.axiExt[i].idx < PortMod
      BY <1>1, <1>2 DEF Countable
    <2>2. c.axiExt[i].idx \in Nat
      BY ExternalsAre
    <2>3. \A x, m \in Nat : \A z \in 2 .. 5 : 5 + x < m => z + x < m
      OBVIOUS
    <2>4. PortMod \in Nat
      BY <1>1
    <2> QED BY <2>1, <2>2, <2>3, <2>4, <1>3, Zenon
  <1>10. ASSUME NEW i \in 1 .. Len(c.regExt) PROVE Len(RegPorts(c)) + c.regExt[i].idx < PortMod
    <2>1. MaxRegPorts(c) + c.regExt[i].idx < PortMod
      BY <1>1 DEF Countable
    <2>2. c.regExt[i].idx \in Nat
      BY ExternalsAre
    <2>3. \A k, m, x \in Nat : \A z \in 4 .. k : k + x < m => z + x < m
      OBVIOUS
    <2>4. PortMod \in Nat
      BY <1>1
    <2> QED BY <2>1, <2>2, <2>3, <2>4, <1>4, Zenon
  <1> QED BY <1>1, <1>7, <1>8, <1>9, <1>10

\* The port of a feature of the crossbar.
LEMMA AxiPortIs ==
    ASSUME NEW c \in Cfgs, NEW f \in AxiNames \intersect c.feats
    PROVE  /\ PortOf(AxiPorts(c), <<f, 0>>) \in 2 .. Len(AxiPorts(c)) - 1
           /\ AxiPorts(c)[PortOf(AxiPorts(c), <<f, 0>>) + 1] = <<f, 0>>
  <1>1. /\ AxiPorts(c) \in Seq(Names \X Nat) /\ Distinct(AxiPorts(c)) /\ Len(AxiPorts(c)) \in 2 .. 5
        /\ \E i \in 3 .. Len(AxiPorts(c)) : AxiPorts(c)[i] = <<f, 0>>
    BY AxiPortsAre
  <1>2. PICK i \in 3 .. Len(AxiPorts(c)) : AxiPorts(c)[i] = <<f, 0>>
    BY <1>1
  <1>3. i \in 1 .. Len(AxiPorts(c)) /\ i - 1 \in 2 .. Len(AxiPorts(c)) - 1 /\ (i - 1) + 1 = i
    BY <1>1
  <1>4. PortOf(AxiPorts(c), AxiPorts(c)[i]) = i - 1
    BY <1>1, <1>3, PortOfIs
  <1> QED BY <1>2, <1>3, <1>4

\* Rules for external devices.
LEMMA ExternalPart ==
    ASSUME NEW c \in Cfgs, NEW n \in Nat, NEW rules \in Seq(RuleType)
    PROVE  /\ Part(External(n, rules), Len(rules)) /\ Len(External(n, rules)) = Len(rules)
           /\ \A r : Has(External(n, rules), r) <=>
                \E i \in 1 .. Len(rules) : r = ExternalRule(n, rules[i])
  <1> DEFINE s == External(n, rules)
             x == Len(rules)
  <1>1. x \in Nat
    OBVIOUS
  <1>2. s = [i \in 1 .. x |-> ExternalRule(n, rules[i])]
    BY DEF External, ExternalRule
  <1>3. ASSUME NEW i \in 1 .. x PROVE ExternalRule(n, rules[i]) \in RuleType
    <2>1. rules[i] \in RuleType
      OBVIOUS
    <2>2. n + rules[i].idx \in Nat /\ rules[i].start \in Nat /\ rules[i].end \in Nat
      BY <2>1 DEF RuleType
    <2> QED BY <2>2, RuleIs DEF ExternalRule
  <1> HIDE DEF s, x
  <1>4. s = [i \in 1 .. x |-> s[i]] /\ \A i \in 1 .. x : s[i] = ExternalRule(n, rules[i])
    BY <1>2
  <1>5. Part(s, x) /\ Len(s) = x
    <2>1. \A i \in 1 .. x : s[i] \in RuleType
      BY <1>3, <1>4
    <2> QED BY <1>1, <1>4, <2>1, RuleList
  <1>6. \A r : Has(s, r) <=> \E i \in 1 .. x : r = ExternalRule(n, rules[i])
    BY <1>4, <1>5 DEF Has
  <1> QED BY <1>5, <1>6 DEF s, x

\* Rules that leave the external devices' addresses to the demultiplexer.
LEMMA RegionPart ==
    ASSUME NEW c \in Cfgs
    PROVE  /\ Part(RegionRules(c), Len(c.regExt))
           /\ \A r : Has(RegionRules(c), r) <=>
                \E i \in 1 .. Len(c.regExt) : r = Rule(1, c.regExt[i].start, c.regExt[i].end)
  <1> DEFINE s == RegionRules(c)
             x == Len(c.regExt)
  <1>1. x \in Nat /\ \A i \in 1 .. x : c.regExt[i].start \in Nat /\ c.regExt[i].end \in Nat
    BY ExternalsAre
  <1>2. s = [i \in 1 .. x |-> Rule(1, c.regExt[i].start, c.regExt[i].end)]
    BY DEF RegionRules
  <1>3. ASSUME NEW i \in 1 .. x PROVE Rule(1, c.regExt[i].start, c.regExt[i].end) \in RuleType
    BY <1>1, RuleIs
  <1> HIDE DEF s, x
  <1>4. s = [i \in 1 .. x |-> s[i]] /\ \A i \in 1 .. x : s[i] = Rule(1, c.regExt[i].start, c.regExt[i].end)
    BY <1>2
  <1>5. Part(s, x) /\ Len(s) = x
    <2>1. \A i \in 1 .. x : s[i] \in RuleType
      BY <1>3, <1>4
    <2> QED BY <1>1, <1>4, <2>1, RuleList
  <1>6. \A r : Has(s, r) <=> \E i \in 1 .. x : r = Rule(1, c.regExt[i].start, c.regExt[i].end)
    BY <1>4, <1>5 DEF Has
  <1> QED BY <1>5, <1>6 DEF s, x

\* Rules for the devices of the system itself.
LEMMA InternalParts ==
    ASSUME NEW c \in Cfgs
    PROVE  /\ Part(FixedRules, 2)
           /\ "LlcOutConnect" \in c.feats => Part(LlcRules(c), 1)
           /\ "LlcNotBypass" \in c.feats => Part(SpmRules(c), 2)
           /\ "Dma" \in c.feats => Part(DmaRules(c), 1)
           /\ "SerialLink" \in c.feats => Part(SlinkRules(c), 1)
  <1>1. /\ c.spm \in Nat /\ c.llcOut[1] \in Nat /\ c.llcOut[2] \in Nat /\ c.slink[1] \in Nat /\ c.slink[2] \in Nat
        /\ AmSpm \in Nat /\ AmSpm + c.spm \in Nat
        /\ AmSpm + \h400000 \in Nat /\ AmSpm + \h400000 + c.spm \in Nat
        /\ "LlcNotBypass" \in c.feats => "LlcOutConnect" \in c.feats
    BY ConfigurationIs, SMT DEF AmSpm
  <1>2. ASSUME NEW f \in AxiNames \intersect c.feats PROVE PortOf(AxiPorts(c), <<f, 0>>) \in Nat
    <2>1. PortOf(AxiPorts(c), <<f, 0>>) \in 2 .. Len(AxiPorts(c)) - 1 /\ Len(AxiPorts(c)) \in 2 .. 5
      BY AxiPortIs, AxiPortsAre
    <2> QED BY <2>1
  <1>9. \A i, x, y \in Nat : Rule(i, x, y) \in RuleType
    BY RuleIs
  <1>3. "LlcOutConnect" \in AxiNames /\ "Dma" \in AxiNames /\ "SerialLink" \in AxiNames
    BY DEF AxiNames
  <1>4. Part(FixedRules, 2)
    <2>1. Rule(0, 0, \h4000) \in RuleType /\ Rule(1, \h0200000, \h0C00000) \in RuleType
      BY <1>9, SMT
    <2> QED BY <2>1, TwoRules, SMT DEF FixedRules
  <1>5. ASSUME "LlcOutConnect" \in c.feats PROVE Part(LlcRules(c), 1)
    <2>1. Rule(Llc(c), c.llcOut[1], c.llcOut[2]) \in RuleType
      <3>1. Llc(c) \in Nat
        BY <1>5, <1>2, <1>3 DEF Llc
      <3> QED BY <3>1, <1>1, <1>9, SMT
    <2> QED BY <2>1, OneRule DEF LlcRules
  <1>6. ASSUME "LlcNotBypass" \in c.feats PROVE Part(SpmRules(c), 2)
    <2>1. Llc(c) \in Nat
      BY <1>6, <1>1, <1>2, <1>3 DEF Llc
    <2>2. /\ Rule(Llc(c), AmSpm, AmSpm + c.spm) \in RuleType
          /\ Rule(Llc(c), AmSpm + \h400000, AmSpm + \h400000 + c.spm) \in RuleType
      BY <2>1, <1>1, <1>9, SMT
    <2> QED BY <2>2, TwoRules, SMT DEF SpmRules
  <1>7. ASSUME "Dma" \in c.feats PROVE Part(DmaRules(c), 1)
    <2>1. Rule(PortOf(AxiPorts(c), <<"Dma", 0>>), \h0100000, \h0100100) \in RuleType
      <3>1. PortOf(AxiPorts(c), <<"Dma", 0>>) \in Nat
        BY <1>7, <1>2, <1>3
      <3> QED BY <3>1, <1>9, SMT
    <2> QED BY <2>1, OneRule, SMT DEF DmaRules
  <1>8. ASSUME "SerialLink" \in c.feats PROVE Part(SlinkRules(c), 1)
    <2>1. Rule(PortOf(AxiPorts(c), <<"SerialLink", 0>>), c.slink[1], c.slink[2]) \in RuleType
      <3>1. PortOf(AxiPorts(c), <<"SerialLink", 0>>) \in Nat
        BY <1>8, <1>2, <1>3
      <3> QED BY <3>1, <1>1, <1>9, SMT
    <2> QED BY <2>1, OneRule DEF SlinkRules
  <1> QED BY <1>4, <1>5, <1>6, <1>7, <1>8

\* The map of the crossbar is not cut off, and has the rules it should have.
LEMMA AxiMapIs ==
    ASSUME NEW c \in Cfgs
    PROVE  /\ Part(AxiMap(c), 7 + Len(c.axiExt) + Len(c.regExt))
           /\ \A r : Has(AxiMap(c), r) <=> AxiRule(c, r)
  <1> DEFINE x == Len(c.axiExt)
             y == Len(c.regExt)
             p2 == IfEnabled(c, "LlcOutConnect", LlcRules(c))
             p3 == IfEnabled(c, "LlcNotBypass", SpmRules(c))
             p4 == IfEnabled(c, "Dma", DmaRules(c))
             p5 == IfEnabled(c, "SerialLink", SlinkRules(c))
             p6 == External(Len(AxiPorts(c)), c.axiExt)
             p7 == RegionRules(c)
             q2 == FixedRules \o p2
             q3 == q2 \o p3
             q4 == q3 \o p4
             q5 == q4 \o p5
             q6 == q5 \o p6
             q7 == q6 \o p7
  <1>1. AxiMap(c) = Table(q7)
    BY SMT DEF AxiMap, FixedRules, LlcRules, SpmRules, DmaRules, SlinkRules, RegionRules, Llc
  <1>2. x \in Nat /\ y \in Nat /\ Len(AxiPorts(c)) \in Nat /\ c.axiExt \in Seq(RuleType)
    <2>1. x \in Nat /\ y \in Nat
      BY ExternalsAre
    <2>2. Len(AxiPorts(c)) \in 2 .. 5
      BY AxiPortsAre
    <2>3. c.axiExt \in Seq(RuleType)
      BY ConfigurationIs DEF Rules, RuleType
    <2> QED BY <2>1, <2>2, <2>3
  <1>11. Part(FixedRules, 2)
    BY InternalParts
  <1>12. Part(p2, 1) /\ \A r : Has(p2, r) <=> "LlcOutConnect" \in c.feats /\ Has(LlcRules(c), r)
    BY InternalParts, IfEnabledIs
  <1>13. Part(p3, 2) /\ \A r : Has(p3, r) <=> "LlcNotBypass" \in c.feats /\ Has(SpmRules(c), r)
    BY InternalParts, IfEnabledIs
  <1>14. Part(p4, 1) /\ \A r : Has(p4, r) <=> "Dma" \in c.feats /\ Has(DmaRules(c), r)
    BY InternalParts, IfEnabledIs
  <1>15. Part(p5, 1) /\ \A r : Has(p5, r) <=> "SerialLink" \in c.feats /\ Has(SlinkRules(c), r)
    BY InternalParts, IfEnabledIs
  <1>16. Part(p6, x) /\ \A r : Has(p6, r) <=>
            \E i \in 1 .. Len(c.axiExt) : r = ExternalRule(Len(AxiPorts(c)), c.axiExt[i])
    BY <1>2, ExternalPart
  <1>17. Part(p7, y) /\ \A r : Has(p7, r) <=>
            \E i \in 1 .. Len(c.regExt) : r = Rule(1, c.regExt[i].start, c.regExt[i].end)
    BY RegionPart
  <1> HIDE DEF p2, p3, p4, p5, p6, p7, x, y
  <1>21. Part(q2, 3) /\ \A r : Has(q2, r) <=> Has(FixedRules, r) \/ Has(p2, r)
    <2>1. Part(q2, 2 + 1) /\ \A r : Has(q2, r) <=> Has(FixedRules, r) \/ Has(p2, r)
      BY <1>11, <1>12, PartJoined
    <2> HIDE DEF q2
    <2> QED BY <2>1
  <1> HIDE DEF q2
  <1>22. Part(q3, 5) /\ \A r : Has(q3, r) <=> Has(q2, r) \/ Has(p3, r)
    <2>1. Part(q3, 3 + 2) /\ \A r : Has(q3, r) <=> Has(q2, r) \/ Has(p3, r)
      BY <1>21, <1>13, PartJoined
    <2> HIDE DEF q3
    <2> QED BY <2>1
  <1> HIDE DEF q3
  <1>23. Part(q4, 6) /\ \A r : Has(q4, r) <=> Has(q3, r) \/ Has(p4, r)
    <2>1. Part(q4, 5 + 1) /\ \A r : Has(q4, r) <=> Has(q3, r) \/ Has(p4, r)
      BY <1>22, <1>14, PartJoined
    <2> HIDE DEF q4
    <2> QED BY <2>1
  <1> HIDE DEF q4
  <1>24. Part(q5, 7) /\ \A r : Has(q5, r) <=> Has(q4, r) \/ Has(p5, r)
    <2>1. Part(q5, 6 + 1) /\ \A r : Has(q5, r) <=> Has(q4, r) \/ Has(p5, r)
      BY <1>23, <1>15, PartJoined
    <2> HIDE DEF q5
    <2> QED BY <2>1
  <1> HIDE DEF q5
  <1>25. Part(q6, 7 + x) /\ \A r : Has(q6, r) <=> Has(q5, r) \/ Has(p6, r)
    BY <1>24, <1>16, <1>2, PartJoined
  <1> HIDE DEF q6
  <1>26. Part(q7, 7 + x + y) /\ \A r : Has(q7, r) <=> Has(q6, r) \/ Has(p7, r)
    <2>1. 7 + x \in Nat
      BY <1>2
    <2> QED BY <2>1, <1>25, <1>17, <1>2, PartJoined
  <1> HIDE DEF q7
  <1>31. 7 + x + y < PortMod /\ 7 + x + y \in Nat
    <2>1. 7 + x + y < PortMod
      BY CountsAre DEF x, y
    <2> QED BY <2>1, <1>2
  <1>32. AxiMap(c) = q7
    BY <1>1, <1>26, <1>31, TableIs
  <1>33. ASSUME NEW r PROVE Has(q7, r) <=> AxiRule(c, r)
    <2>1. Has(q7, r) <=> Has(FixedRules, r) \/ Has(p2, r) \/ Has(p3, r) \/ Has(p4, r) \/ Has(p5, r)
                         \/ Has(p6, r) \/ Has(p7, r)
      BY <1>21, <1>22, <1>23, <1>24, <1>25, <1>26
    <2>2. AxiRule(c, r) <=> Has(FixedRules, r) \/ Has(p2, r) \/ Has(p3, r) \/ Has(p4, r) \/ Has(p5, r)
                            \/ Has(p6, r) \/ Has(p7, r)
      BY <1>12, <1>13, <1>14, <1>15, <1>16, <1>17 DEF AxiRule
    <2> QED BY <2>1, <2>2
  <1>34. Part(q7, 7 + Len(c.axiExt) + Len(c.regExt))
    BY <1>26 DEF x, y
  <1> QED BY <1>32, <1>33, <1>34

\* What is connected to a port of a table.
LEMMA AtIs ==
    ASSUME NEW ports \in Seq(Names \X Nat), NEW w \in Nat, Len(ports) <= PortMod, PortMod \in Nat
    PROVE  /\ w < Len(ports) => At(ports, w) = {ports[w + 1]}
           /\ Len(ports) <= w => At(ports, w) = {}
  <1>1. Len(ports) \in Nat
    OBVIOUS
  <1>2. ASSUME NEW j \in 1 .. Len(ports) PROVE (j - 1) % PortMod = j - 1
    <2>1. j - 1 \in Nat /\ j - 1 < PortMod /\ PortMod \in Nat \ {0}
      BY <1>1
    <2> QED BY <2>1, Small
  <1>3. At(ports, w) = {ports[i] : i \in {j \in 1 .. Len(ports) : j - 1 = w}}
    BY <1>2 DEF At
  <1>4. CASE w < Len(ports)
    <2>1. {j \in 1 .. Len(ports) : j - 1 = w} = {w + 1}
      BY <1>1, <1>4
    <2> QED BY <2>1, <1>1, <1>3, <1>4
  <1>5. CASE Len(ports) <= w
    <2>1. {j \in 1 .. Len(ports) : j - 1 = w} = {}
      BY <1>1, <1>5
    <2> QED BY <2>1, <1>1, <1>3, <1>5
  <1> QED BY <1>1, <1>4, <1>5

\* External devices are behind all others, each at its number.
LEMMA ExternalAtIs ==
    ASSUME NEW n \in Nat, NEW rules \in Seq(RuleType), NEW w \in Nat
    PROVE  /\ w < n => ExternalAt(n, rules, w) = {}
           /\ \A i \in 1 .. Len(rules) : w = n + rules[i].idx
                 => ExternalAt(n, rules, w) = {<<"External", rules[i].idx>>}
  <1>1. \A i \in 1 .. Len(rules) : rules[i].idx \in Nat
    <2>1. \A i \in 1 .. Len(rules) : rules[i] \in RuleType
      OBVIOUS
    <2> QED BY <2>1 DEF RuleType
  <1>2. CASE w < n
    <2>1. {j \in 1 .. Len(rules) : n + rules[j].idx = w} = {}
      BY <1>1, <1>2
    <2> QED BY <2>1 DEF ExternalAt
  <1>3. ASSUME NEW i \in 1 .. Len(rules), w = n + rules[i].idx
        PROVE  ExternalAt(n, rules, w) = {<<"External", rules[i].idx>>}
    <2> DEFINE M == {j \in 1 .. Len(rules) : n + rules[j].idx = w}
    <2>1. i \in M /\ \A j \in M : rules[j].idx = rules[i].idx
      BY <1>1, <1>3
    <2>2. ExternalAt(n, rules, w) = {<<"External", rules[j].idx>> : j \in M}
      BY DEF ExternalAt
    <2> HIDE DEF M
    <2> QED BY <2>1, <2>2
  <1>4. w < n => ExternalAt(n, rules, w) = {}
    BY <1>2
  <1> QED BY <1>3, <1>4

\* What is connected to the ports of the crossbar.
LEMMA AxiDevicesAre ==
    ASSUME NEW c \in Cfgs
    PROVE  /\ \A w \in 0 .. Len(AxiPorts(c)) - 1 : AxiDevices(c, w) = {AxiPorts(c)[w + 1]}
           /\ \A i \in 1 .. Len(c.axiExt) :
                 AxiDevices(c, Len(AxiPorts(c)) + c.axiExt[i].idx) = {<<"External", c.axiExt[i].idx>>}
  <1>1. /\ AxiPorts(c) \in Seq(Names \X Nat) /\ Len(AxiPorts(c)) \in 2 .. 5
        /\ PortMod \in Nat /\ 7 < PortMod
    BY AxiPortsAre, CountsAre
  <1>2. Len(AxiPorts(c)) \in Nat /\ Len(AxiPorts(c)) <= PortMod
    <2>1. \A m \in Nat : \A z \in 2 .. 5 : 7 < m => z \in Nat /\ z <= m
      OBVIOUS
    <2> QED BY <2>1, <1>1, Zenon
  <1>3. c.axiExt \in Seq(RuleType)
    BY ConfigurationIs DEF Rules, RuleType
  <1>4. ASSUME NEW w \in 0 .. Len(AxiPorts(c)) - 1 PROVE AxiDevices(c, w) = {AxiPorts(c)[w + 1]}
    <2>1. w \in Nat /\ w < Len(AxiPorts(c))
      BY <1>2
    <2>2. At(AxiPorts(c), w) = {AxiPorts(c)[w + 1]}
      BY <2>1, <1>1, <1>2, AtIs
    <2>3. ExternalAt(Len(AxiPorts(c)), c.axiExt, w) = {}
      BY <2>1, <1>2, <1>3, ExternalAtIs
    <2> QED BY <2>2, <2>3 DEF AxiDevices
  <1>5. ASSUME NEW i \in 1 .. Len(c.axiExt)
        PROVE  AxiDevices(c, Len(AxiPorts(c)) + c.axiExt[i].idx) = {<<"External", c.axiExt[i].idx>>}
    <2> DEFINE w == Len(AxiPorts(c)) + c.axiExt[i].idx
    <2>1. c.axiExt[i].idx \in Nat
      BY ExternalsAre
    <2>2. w \in Nat /\ Len(AxiPorts(c)) <= w
      BY <2>1, <1>2
    <2>3. At(AxiPorts(c), w) = {}
      BY <2>2, <1>1, <1>2, AtIs
    <2>4. ExternalAt(Len(AxiPorts(c)), c.axiExt, w) = {<<"External", c.axiExt[i].idx>>}
      BY <2>2, <1>2, <1>3, ExternalAtIs
    <2> QED BY <2>3, <2>4 DEF AxiDevices
  <1> QED BY <1>4, <1>5

-----------------------------------------------------------------------------
\* Device d of the crossbar is mapped to addresses s up to e.
AxiPlace(c, d, s, e) ==
    \/ d = <<"Dbg", 0>> /\ s = 0 /\ e = \h4000
    \/ "LlcOutConnect" \in c.feats /\ d = <<"LlcOutConnect", 0>> /\ s = c.llcOut[1] /\ e = c.llcOut[2]
    \/ "LlcNotBypass" \in c.feats /\ d = <<"LlcOutConnect", 0>> /\ s = AmSpm /\ e = AmSpm + c.spm
    \/ "LlcNotBypass" \in c.feats /\ d = <<"LlcOutConnect", 0>>
       /\ s = AmSpm + \h400000 /\ e = AmSpm + \h400000 + c.spm
    \/ "Dma" \in c.feats /\ d = <<"Dma", 0>> /\ s = \h0100000 /\ e = \h0100100
    \/ "SerialLink" \in c.feats /\ d = <<"SerialLink", 0>> /\ s = c.slink[1] /\ e = c.slink[2]
    \/ \E i \in 1 .. Len(c.axiExt) :
          d = <<"External", c.axiExt[i].idx>> /\ s = c.axiExt[i].start /\ e = c.axiExt[i].end

\* Addresses the crossbar leaves to the demultiplexer.
RegionPlace(c, s, e) ==
    \/ s = \h0200000 /\ e = \h0C00000
    \/ \E i \in 1 .. Len(c.regExt) : s = c.regExt[i].start /\ e = c.regExt[i].end

AxiRoute(c, r) ==
    \/ r.idx = 1 /\ RegionPlace(c, r.start, r.end)
    \/ /\ r.idx \in Nat /\ r.idx # 1
       /\ \E d : AxiPlace(c, d, r.start, r.end) /\ AxiDevices(c, r.idx) = {d}

RuleFor(c, i, s, e) == /\ Rule(i, s, e).idx = i /\ Rule(i, s, e).start = s /\ Rule(i, s, e).end = e

\* What the rules of the crossbar are made of.
LEMMA RulesAre ==
    ASSUME NEW c \in Cfgs
    PROVE  /\ \A i, s, e \in Nat : i < PortMod => RuleFor(c, i, s, e)
           /\ c.spm \in Nat /\ c.llcOut[1] \in Nat /\ c.llcOut[2] \in Nat
           /\ c.slink[1] \in Nat /\ c.slink[2] \in Nat
           /\ 0 < PortMod /\ 1 < PortMod
           /\ \A f \in AxiNames \intersect c.feats :
                 /\ PortOf(AxiPorts(c), <<f, 0>>) \in Nat /\ PortOf(AxiPorts(c), <<f, 0>>) < PortMod
                 /\ PortOf(AxiPorts(c), <<f, 0>>) # 1
                 /\ AxiDevices(c, PortOf(AxiPorts(c), <<f, 0>>)) = {<<f, 0>>}
           /\ "LlcNotBypass" \in c.feats => "LlcOutConnect" \in c.feats
           /\ "LlcOutConnect" \in AxiNames /\ "Dma" \in AxiNames /\ "SerialLink" \in AxiNames
           /\ AxiDevices(c, 0) = {<<"Dbg", 0>>}
  <1>1. \A i, s, e \in Nat : i < PortMod => RuleFor(c, i, s, e)
    BY RuleIs DEF RuleFor
  <1>2. /\ c.spm \in Nat /\ c.llcOut[1] \in Nat /\ c.llcOut[2] \in Nat
        /\ c.slink[1] \in Nat /\ c.slink[2] \in Nat
        /\ "LlcNotBypass" \in c.feats => "LlcOutConnect" \in c.feats
    BY ConfigurationIs
  <1>4. PortMod \in Nat /\ 7 < PortMod /\ Len(AxiPorts(c)) \in 2 .. 5
    BY CountsAre, AxiPortsAre
  <1>5. 0 < PortMod /\ 1 < PortMod
    BY <1>4
  <1>6. ASSUME NEW f \in AxiNames \intersect c.feats
        PROVE  /\ PortOf(AxiPorts(c), <<f, 0>>) \in Nat /\ PortOf(AxiPorts(c), <<f, 0>>) < PortMod
               /\ PortOf(AxiPorts(c), <<f, 0>>) # 1
               /\ AxiDevices(c, PortOf(AxiPorts(c), <<f, 0>>)) = {<<f, 0>>}
    <2> DEFINE k == PortOf(AxiPorts(c), <<f, 0>>)
               n == Len(AxiPorts(c))
    <2>1. k \in 2 .. n - 1 /\ AxiPorts(c)[k + 1] = <<f, 0>>
      BY AxiPortIs
    <2> HIDE DEF k
    <2>2. k \in Nat /\ k < PortMod /\ k # 1 /\ k \in 0 .. n - 1
      BY <2>1, <1>4
    <2>3. AxiDevices(c, k) = {<<f, 0>>}
      BY <2>1, <2>2, AxiDevicesAre
    <2> QED BY <2>2, <2>3 DEF k
  <1>7. "LlcOutConnect" \in AxiNames /\ "Dma" \in AxiNames /\ "SerialLink" \in AxiNames
    BY DEF AxiNames
  <1>8. AxiDevices(c, 0) = {<<"Dbg", 0>>}
    <2>1. 0 \in 0 .. Len(AxiPorts(c)) - 1 /\ 0 + 1 = 1
      BY <1>4
    <2>2. AxiPorts(c)[1] = <<"Dbg", 0>>
      BY AxiPortsAre
    <2>3. AxiDevices(c, 0) = {AxiPorts(c)[0 + 1]}
      BY <2>1, AxiDevicesAre, Zenon
    <2> QED BY <2>1, <2>2, <2>3
  <1> QED BY <1>1, <1>2, <1>5, <1>6, <1>7, <1>8

\* A rule leads to the device whose addresses it names.
LEMMA AxiRuleRoutes ==
    ASSUME NEW c \in Cfgs, NEW r, AxiRule(c, r)
    PROVE  AxiRoute(c, r)
  <1>1. ASSUME NEW i \in Nat, i < PortMod, i # 1, NEW s \in Nat, NEW e \in Nat, NEW d,
               r = Rule(i, s, e), AxiPlace(c, d, s, e), AxiDevices(c, i) = {d}
        PROVE  AxiRoute(c, r)
    <2>1. RuleFor(c, i, s, e)
      BY <1>1, RulesAre
    <2>2. r.idx = i /\ r.start = s /\ r.end = e
      BY <2>1, <1>1 DEF RuleFor
    <2>3. r.idx \in Nat /\ r.idx # 1
      BY <2>2, <1>1
    <2>4. AxiPlace(c, d, r.start, r.end) /\ AxiDevices(c, r.idx) = {d}
      BY <2>2, <1>1, Zenon
    <2> QED BY <2>3, <2>4, Zenon DEF AxiRoute
  <1>2. ASSUME NEW s \in Nat, NEW e \in Nat, r = Rule(1, s, e), RegionPlace(c, s, e)
        PROVE  AxiRoute(c, r)
    <2>1. RuleFor(c, 1, s, e)
      BY RulesAre
    <2>2. r.idx = 1 /\ r.start = s /\ r.end = e
      BY <2>1, <1>2 DEF RuleFor
    <2> QED BY <2>2, <1>2, Zenon DEF AxiRoute
  <1>3. CASE Has(FixedRules, r)
    <2>1. r = Rule(0, 0, \h4000) \/ r = Rule(1, \h0200000, \h0C00000)
      <3>1. \A x, y, z : Has(<<x, y>>, z) => z = x \/ z = y
        BY DEF Has
      <3> QED BY <3>1, <1>3, SMT DEF FixedRules
    <2>2. CASE r = Rule(0, 0, \h4000)
      <3>1. AxiPlace(c, <<"Dbg", 0>>, 0, \h4000) /\ 0 \in Nat /\ \h4000 \in Nat /\ 0 # 1
        BY SMT DEF AxiPlace
      <3>2. AxiDevices(c, 0) = {<<"Dbg", 0>>} /\ 0 < PortMod
        BY RulesAre
      <3> QED BY <3>1, <3>2, <2>2, <1>1, SMT
    <2>3. CASE r = Rule(1, \h0200000, \h0C00000)
      <3>1. RegionPlace(c, \h0200000, \h0C00000) /\ \h0200000 \in Nat /\ \h0C00000 \in Nat
        BY SMT DEF RegionPlace
      <3> QED BY <3>1, <2>3, <1>2, SMT
    <2> QED BY <2>1, <2>2, <2>3, SMT
  <1>4. CASE "LlcOutConnect" \in c.feats /\ Has(LlcRules(c), r)
    <2>1. r = Rule(Llc(c), c.llcOut[1], c.llcOut[2])
      BY <1>4 DEF LlcRules, Has
    <2>2. AxiPlace(c, <<"LlcOutConnect", 0>>, c.llcOut[1], c.llcOut[2])
      BY <1>4, SMT DEF AxiPlace
    <2>3. /\ Llc(c) \in Nat /\ Llc(c) < PortMod /\ Llc(c) # 1
          /\ AxiDevices(c, Llc(c)) = {<<"LlcOutConnect", 0>>}
          /\ c.llcOut[1] \in Nat /\ c.llcOut[2] \in Nat
      <3>1. "LlcOutConnect" \in AxiNames \intersect c.feats
        BY <1>4, RulesAre
      <3> QED BY <3>1, RulesAre, Zenon DEF Llc
    <2> QED BY <2>1, <2>2, <2>3, <1>1, Zenon
  <1>5. CASE "LlcNotBypass" \in c.feats /\ Has(SpmRules(c), r)
    <2>1. r = Rule(Llc(c), AmSpm, AmSpm + c.spm) \/ r = Rule(Llc(c), AmSpm + \h400000, AmSpm + \h400000 + c.spm)
      <3>1. \A x, y, z : Has(<<x, y>>, z) => z = x \/ z = y
        BY DEF Has
      <3> QED BY <3>1, <1>5, SMT DEF SpmRules
    <2>2. /\ AxiPlace(c, <<"LlcOutConnect", 0>>, AmSpm, AmSpm + c.spm)
          /\ AxiPlace(c, <<"LlcOutConnect", 0>>, AmSpm + \h400000, AmSpm + \h400000 + c.spm)
      BY <1>5, SMT DEF AxiPlace
    <2>3. /\ Llc(c) \in Nat /\ Llc(c) < PortMod /\ Llc(c) # 1
          /\ AxiDevices(c, Llc(c)) = {<<"LlcOutConnect", 0>>}
      <3>1. "LlcOutConnect" \in AxiNames \intersect c.feats
        BY <1>5, RulesAre, Zenon
      <3> QED BY <3>1, RulesAre, Zenon DEF Llc
    <2>4. /\ AmSpm \in Nat /\ AmSpm + c.spm \in Nat
          /\ AmSpm + \h400000 \in Nat /\ AmSpm + \h400000 + c.spm \in Nat
      BY ConfigurationIs, SMT DEF AmSpm
    <2> QED BY <2>1, <2>2, <2>3, <2>4, <1>1, SMT
  <1>6. CASE "Dma" \in c.feats /\ Has(DmaRules(c), r)
    <2>1. r = Rule(PortOf(AxiPorts(c), <<"Dma", 0>>), \h0100000, \h0100100)
      <3>1. \A x, z : Has(<<x>>, z) => z = x
        BY DEF Has
      <3> QED BY <3>1, <1>6, SMT DEF DmaRules
    <2>2. AxiPlace(c, <<"Dma", 0>>, \h0100000, \h0100100) /\ \h0100000 \in Nat /\ \h0100100 \in Nat
      BY <1>6, SMT DEF AxiPlace
    <2>3. "Dma" \in AxiNames \intersect c.feats
      BY <1>6, RulesAre
    <2> DEFINE k == PortOf(AxiPorts(c), <<"Dma", 0>>)
    <2>4. k \in Nat /\ k < PortMod /\ k # 1 /\ AxiDevices(c, k) = {<<"Dma", 0>>}
      BY <2>3, RulesAre, Zenon
    <2> HIDE DEF k
    <2>5. r = Rule(k, \h0100000, \h0100100)
      BY <2>1, SMT DEF k
    <2> QED BY <2>2, <2>4, <2>5, <1>1, SMT
  <1>7. CASE "SerialLink" \in c.feats /\ Has(SlinkRules(c), r)
    <2>1. r = Rule(PortOf(AxiPorts(c), <<"SerialLink", 0>>), c.slink[1], c.slink[2])
      BY <1>7 DEF SlinkRules, Has
    <2>2. AxiPlace(c, <<"SerialLink", 0>>, c.slink[1], c.slink[2])
      BY <1>7, SMT DEF AxiPlace
    <2>3. "SerialLink" \in AxiNames \intersect c.feats
      BY <1>7, RulesAre
    <2> QED BY <2>1, <2>2, <2>3, <1>1, RulesAre, Zenon
  <1>8. CASE \E i \in 1 .. Len(c.axiExt) : r = ExternalRule(Len(AxiPorts(c)), c.axiExt[i])
    <2>1. PICK i \in 1 .. Len(c.axiExt) : r = ExternalRule(Len(AxiPorts(c)), c.axiExt[i])
      BY <1>8
    <2> DEFINE x == c.axiExt[i]
               k == Len(AxiPorts(c)) + x.idx
    <2>2. x.idx \in Nat /\ x.start \in Nat /\ x.end \in Nat
      BY ExternalsAre
    <2>3. AxiPlace(c, <<"External", x.idx>>, x.start, x.end)
      BY SMT DEF AxiPlace
    <2>4. AxiDevices(c, k) = {<<"External", x.idx>>} /\ k < PortMod
      BY AxiDevicesAre, CountsAre, Zenon
    <2>5. k \in Nat /\ k # 1
      <3>1. Len(AxiPorts(c)) \in 2 .. 5
        BY AxiPortsAre
      <3>2. \A y \in Nat : \A z \in 2 .. 5 : z + y \in Nat /\ z + y # 1
        OBVIOUS
      <3> QED BY <3>1, <3>2, <2>2, Zenon
    <2>6. r = Rule(k, x.start, x.end)
      BY <2>1, Zenon DEF ExternalRule
    <2> HIDE DEF x, k
    <2> QED BY <2>2, <2>3, <2>4, <2>5, <2>6, <1>1, Zenon
  <1>9. CASE \E i \in 1 .. Len(c.regExt) : r = Rule(1, c.regExt[i].start, c.regExt[i].end)
    <2>1. PICK i \in 1 .. Len(c.regExt) : r = Rule(1, c.regExt[i].start, c.regExt[i].end)
      BY <1>9
    <2>2. c.regExt[i].start \in Nat /\ c.regExt[i].end \in Nat
      BY ExternalsAre
    <2>3. RegionPlace(c, c.regExt[i].start, c.regExt[i].end)
      BY SMT DEF RegionPlace
    <2> QED BY <2>1, <2>2, <2>3, <1>2, Zenon
  <1> QED BY <1>3, <1>4, <1>5, <1>6, <1>7, <1>8, <1>9, Zenon DEF AxiRule

\* Some rule of the crossbar has the addresses s up to e.
HasRule(c, s, e) == \E r : AxiRule(c, r) /\ r.start = s /\ r.end = e

\* The crossbar has a rule for each device, and for the demultiplexer.
LEMMA AxiPlacesMapped ==
    ASSUME NEW c \in Cfgs
    PROVE  /\ \A d, s, e : AxiPlace(c, d, s, e) => HasRule(c, s, e)
           /\ \A s, e : RegionPlace(c, s, e) => HasRule(c, s, e)
  <1>1. ASSUME NEW x, NEW y PROVE Has(<<x, y>>, x) /\ Has(<<x, y>>, y) /\ Has(<<x>>, x)
    BY DEF Has
  <1>2. ASSUME NEW i, NEW s, NEW e, AxiRule(c, Rule(i, s, e)) PROVE HasRule(c, s, e)
    <2>1. Rule(i, s, e).start = s /\ Rule(i, s, e).end = e
      BY DEF Rule
    <2> QED BY <2>1, <1>2, Zenon DEF HasRule
  <1>3. HasRule(c, 0, \h4000) /\ HasRule(c, \h0200000, \h0C00000)
    <2>1. Has(FixedRules, Rule(0, 0, \h4000)) /\ Has(FixedRules, Rule(1, \h0200000, \h0C00000))
      <3> DEFINE x == Rule(0, 0, \h4000)
                 y == Rule(1, \h0200000, \h0C00000)
      <3>1. FixedRules = <<x, y>>
        BY SMT DEF FixedRules
      <3> HIDE DEF x, y
      <3>2. Has(FixedRules, x) /\ Has(FixedRules, y)
        BY <3>1, <1>1, Zenon
      <3> QED BY <3>2, SMT DEF x, y
    <2>2. AxiRule(c, Rule(0, 0, \h4000)) /\ AxiRule(c, Rule(1, \h0200000, \h0C00000))
      BY <2>1, SMT DEF AxiRule
    <2> QED BY <2>2, <1>2, SMT
  <1>4. ASSUME "LlcOutConnect" \in c.feats PROVE HasRule(c, c.llcOut[1], c.llcOut[2])
    <2>1. Has(LlcRules(c), Rule(Llc(c), c.llcOut[1], c.llcOut[2]))
      BY <1>1 DEF LlcRules
    <2>2. AxiRule(c, Rule(Llc(c), c.llcOut[1], c.llcOut[2]))
      BY <2>1, <1>4, Zenon DEF AxiRule
    <2> QED BY <2>2, <1>2
  <1>5. ASSUME "LlcNotBypass" \in c.feats
        PROVE  HasRule(c, AmSpm, AmSpm + c.spm) /\ HasRule(c, AmSpm + \h400000, AmSpm + \h400000 + c.spm)
    <2>1. /\ Has(SpmRules(c), Rule(Llc(c), AmSpm, AmSpm + c.spm))
          /\ Has(SpmRules(c), Rule(Llc(c), AmSpm + \h400000, AmSpm + \h400000 + c.spm))
      <3> DEFINE x == Rule(Llc(c), AmSpm, AmSpm + c.spm)
                 y == Rule(Llc(c), AmSpm + \h400000, AmSpm + \h400000 + c.spm)
      <3>1. SpmRules(c) = <<x, y>>
        BY SMT DEF SpmRules
      <3> HIDE DEF x, y
      <3>2. Has(SpmRules(c), x) /\ Has(SpmRules(c), y)
        BY <3>1, <1>1, Zenon
      <3> QED BY <3>2, SMT DEF x, y
    <2>2. /\ AxiRule(c, Rule(Llc(c), AmSpm, AmSpm + c.spm))
          /\ AxiRule(c, Rule(Llc(c), AmSpm + \h400000, AmSpm + \h400000 + c.spm))
      BY <2>1, <1>5, SMT DEF AxiRule
    <2> QED BY <2>2, <1>2, SMT
  <1>6. ASSUME "Dma" \in c.feats PROVE HasRule(c, \h0100000, \h0100100)
    <2>1. Has(DmaRules(c), Rule(PortOf(AxiPorts(c), <<"Dma", 0>>), \h0100000, \h0100100))
      <3> DEFINE x == Rule(PortOf(AxiPorts(c), <<"Dma", 0>>), \h0100000, \h0100100)
      <3>1. DmaRules(c) = <<x>>
        BY SMT DEF DmaRules
      <3> HIDE DEF x
      <3>2. Has(DmaRules(c), x)
        BY <3>1, <1>1, Zenon
      <3> QED BY <3>2, SMT DEF x
    <2>2. AxiRule(c, Rule(PortOf(AxiPorts(c), <<"Dma", 0>>), \h0100000, \h0100100))
      BY <2>1, <1>6, SMT DEF AxiRule
    <2> QED BY <2>2, <1>2, SMT
  <1>7. ASSUME "SerialLink" \in c.feats PROVE HasRule(c, c.slink[1], c.slink[2])
    <2>1. Has(SlinkRules(c), Rule(PortOf(AxiPorts(c), <<"SerialLink", 0>>), c.slink[1], c.slink[2]))
      BY <1>1 DEF SlinkRules
    <2>2. AxiRule(c, Rule(PortOf(AxiPorts(c), <<"SerialLink", 0>>), c.slink[1], c.slink[2]))
      BY <2>1, <1>7, Zenon DEF AxiRule
    <2> QED BY <2>2, <1>2
  <1>8. ASSUME NEW i \in 1 .. Len(c.axiExt) PROVE HasRule(c, c.axiExt[i].start, c.axiExt[i].end)
    <2>1. AxiRule(c, ExternalRule(Len(AxiPorts(c)), c.axiExt[i]))
      BY Zenon DEF AxiRule
    <2>2. AxiRule(c, Rule(Len(AxiPorts(c)) + c.axiExt[i].idx, c.axiExt[i].start, c.axiExt[i].end))
      BY <2>1, Zenon DEF ExternalRule
    <2> QED BY <2>2, <1>2
  <1>9. ASSUME NEW i \in 1 .. Len(c.regExt) PROVE HasRule(c, c.regExt[i].start, c.regExt[i].end)
    <2>1. AxiRule(c, Rule(1, c.regExt[i].start, c.regExt[i].end))
      BY Zenon DEF AxiRule
    <2> QED BY <2>1, <1>2
  <1>10. ASSUME NEW d, NEW s, NEW e, AxiPlace(c, d, s, e) PROVE HasRule(c, s, e)
    BY <1>10, <1>3, <1>4, <1>5, <1>6, <1>7, <1>8, SMT DEF AxiPlace
  <1>11. ASSUME NEW s, NEW e, RegionPlace(c, s, e) PROVE HasRule(c, s, e)
    BY <1>11, <1>3, <1>9, SMT DEF RegionPlace
  <1> QED BY <1>10, <1>11

-----------------------------------------------------------------------------
(* No two devices of the crossbar share an address.                        *)

Disjoint(s, e, t, f) == e <= t \/ f <= s

\* What the layout says of an external device's addresses.
ExternalApart(c, s, e) ==
    /\ AmSpm <= s
    /\ "LlcNotBypass" \in c.feats => \h1800000 <= s
    /\ "LlcOutConnect" \in c.feats => Disjoint(s, e, c.llcOut[1], c.llcOut[2])
    /\ "SerialLink" \in c.feats => Disjoint(s, e, c.slink[1], c.slink[2])

\* External devices share no address, by the layout.
LEMMA ExternalsApart ==
    ASSUME NEW c \in Cfgs
    PROVE  /\ \A i \in 1 .. Len(c.axiExt) : ExternalApart(c, c.axiExt[i].start, c.axiExt[i].end)
           /\ \A i \in 1 .. Len(c.regExt) : ExternalApart(c, c.regExt[i].start, c.regExt[i].end)
           /\ \A i, j \in 1 .. Len(c.axiExt) : i # j =>
                 Disjoint(c.axiExt[i].start, c.axiExt[i].end, c.axiExt[j].start, c.axiExt[j].end)
           /\ \A i, j \in 1 .. Len(c.regExt) : i # j =>
                 Disjoint(c.regExt[i].start, c.regExt[i].end, c.regExt[j].start, c.regExt[j].end)
           /\ \A i \in 1 .. Len(c.axiExt), j \in 1 .. Len(c.regExt) :
                 Disjoint(c.axiExt[i].start, c.axiExt[i].end, c.regExt[j].start, c.regExt[j].end)
  <1> DEFINE e == Externals(c)
             x == Len(c.axiExt)
             y == Len(c.regExt)
  <1>1. /\ x \in Nat /\ y \in Nat /\ Len(e) = x + y
        /\ \A i \in 1 .. x : e[i] = c.axiExt[i]
        /\ \A i \in 1 .. y : e[x + i] = c.regExt[i]
    BY ExternalsAre
  <1>2. PlacedApart(c)
    BY ConfigurationIs
  <1>3. ASSUME NEW i \in 1 .. Len(e) PROVE ExternalApart(c, e[i].start, e[i].end)
    BY <1>2, SMT DEF PlacedApart, ExternalApart, Apart, RangeOf, Disjoint
  <1>4. \A i, j \in 1 .. Len(e) : i # j => Disjoint(e[i].start, e[i].end, e[j].start, e[j].end)
    BY <1>2, SMT DEF PlacedApart, Apart, RangeOf, Disjoint
  <1> HIDE DEF e, x, y
  <1>5. /\ \A i \in 1 .. x : i \in 1 .. Len(e)
        /\ \A i \in 1 .. y : x + i \in 1 .. Len(e)
        /\ \A i, j \in 1 .. y : i # j => x + i # x + j
        /\ \A i \in 1 .. x, j \in 1 .. y : i # x + j
    BY <1>1
  <1>6. \A i \in 1 .. x : ExternalApart(c, c.axiExt[i].start, c.axiExt[i].end)
    BY <1>1, <1>3, <1>5, Zenon
  <1>7. ASSUME NEW i \in 1 .. y PROVE ExternalApart(c, c.regExt[i].start, c.regExt[i].end)
    <2>1. ExternalApart(c, e[x + i].start, e[x + i].end)
      BY <1>3, <1>5
    <2> QED BY <2>1, <1>1
  <1>8. ASSUME NEW i \in 1 .. x, NEW j \in 1 .. x, i # j
        PROVE  Disjoint(c.axiExt[i].start, c.axiExt[i].end, c.axiExt[j].start, c.axiExt[j].end)
    <2>1. Disjoint(e[i].start, e[i].end, e[j].start, e[j].end)
      BY <1>4, <1>5, <1>8
    <2> QED BY <2>1, <1>1
  <1>9. ASSUME NEW i \in 1 .. y, NEW j \in 1 .. y, i # j
        PROVE  Disjoint(c.regExt[i].start, c.regExt[i].end, c.regExt[j].start, c.regExt[j].end)
    <2>1. Disjoint(e[x + i].start, e[x + i].end, e[x + j].start, e[x + j].end)
      BY <1>4, <1>5, <1>9, Zenon
    <2> QED BY <2>1, <1>1
  <1>10. ASSUME NEW i \in 1 .. x, NEW j \in 1 .. y
         PROVE  Disjoint(c.axiExt[i].start, c.axiExt[i].end, c.regExt[j].start, c.regExt[j].end)
    <2>1. Disjoint(e[i].start, e[i].end, e[x + j].start, e[x + j].end)
      BY <1>4, <1>5, Zenon
    <2> QED BY <2>1, <1>1
  <1> QED BY <1>6, <1>7, <1>8, <1>9, <1>10 DEF x, y

\* A device of the crossbar shares no address with another, or with the
\* demultiplexer.
LEMMA AxiApart ==
    ASSUME NEW c \in Cfgs, NEW d, NEW s, NEW e, AxiPlace(c, d, s, e)
    PROVE  /\ s \in Nat /\ e \in Nat
           /\ \A b, t, f : AxiPlace(c, b, t, f) /\ b # d => Disjoint(s, e, t, f)
           /\ \A t, f : RegionPlace(c, t, f) => Disjoint(s, e, t, f)
  <1>1. \A i \in 1 .. Len(c.axiExt) : c.axiExt[i].start \in Nat /\ c.axiExt[i].end \in Nat
    BY ExternalsAre
  <1>2. \A i \in 1 .. Len(c.regExt) : c.regExt[i].start \in Nat /\ c.regExt[i].end \in Nat
    BY ExternalsAre
  <1>3. /\ c.spm \in Nat /\ c.spm <= \h400000
        /\ c.llcOut[1] \in Nat /\ c.llcOut[2] \in Nat /\ \h8000000 <= c.llcOut[1]
        /\ c.slink[1] \in Nat /\ c.slink[2] \in Nat /\ \h8000000 <= c.slink[1]
        /\ Disjoint(c.llcOut[1], c.llcOut[2], c.slink[1], c.slink[2])
    BY LayoutIs, SMT DEF Disjoint
  <1>4. s \in Nat /\ e \in Nat
    BY <1>1, <1>3, SMT DEF AxiPlace, AmSpm
  \* Devices of the system itself, and external ones.
  <1> DEFINE Own(b, t, f) ==
                \/ b = <<"Dbg", 0>> /\ t = 0 /\ f = \h4000
                \/ "LlcOutConnect" \in c.feats /\ b = <<"LlcOutConnect", 0>>
                   /\ t = c.llcOut[1] /\ f = c.llcOut[2]
                \/ "LlcNotBypass" \in c.feats /\ b = <<"LlcOutConnect", 0>>
                   /\ t \in {AmSpm, AmSpm + \h400000} /\ f = t + c.spm
                \/ "Dma" \in c.feats /\ b = <<"Dma", 0>> /\ t = \h0100000 /\ f = \h0100100
                \/ "SerialLink" \in c.feats /\ b = <<"SerialLink", 0>> /\ t = c.slink[1] /\ f = c.slink[2]
             Ext(b, t, f) == \E i \in 1 .. Len(c.axiExt) :
                b = <<"External", c.axiExt[i].idx>> /\ t = c.axiExt[i].start /\ f = c.axiExt[i].end
  <1>5. \A b, t, f : AxiPlace(c, b, t, f) => Own(b, t, f) \/ Ext(b, t, f)
    BY SMT DEF AxiPlace
  <1>6. ASSUME NEW b, NEW t, NEW f, NEW k, NEW u, NEW g, Own(b, t, f), Own(k, u, g), b # k
        PROVE  Disjoint(t, f, u, g)
    BY <1>6, <1>3, SMT DEF Disjoint, AmSpm
  <1>7. ASSUME NEW b, NEW t, NEW f, NEW u \in Nat, NEW g \in Nat, Own(b, t, f), ExternalApart(c, u, g)
        PROVE  Disjoint(t, f, u, g) /\ Disjoint(u, g, t, f)
    BY <1>7, <1>3, SMT DEF Disjoint, ExternalApart, AmSpm
  <1>8. ASSUME NEW b, NEW t, NEW f, Ext(b, t, f) PROVE t \in Nat /\ f \in Nat /\ ExternalApart(c, t, f)
    BY <1>8, <1>1, ExternalsApart, Zenon
  <1>9. ASSUME NEW b, NEW t, NEW f, NEW k, NEW u, NEW g, Ext(b, t, f), Ext(k, u, g), b # k
        PROVE  Disjoint(t, f, u, g)
    BY <1>9, ExternalsApart, Zenon
  <1>10. ASSUME NEW b, NEW t, NEW f, NEW u, NEW g, Ext(b, t, f), RegionPlace(c, u, g)
         PROVE  Disjoint(t, f, u, g)
    <2>1. CASE u = \h0200000 /\ g = \h0C00000
      <3>1. t \in Nat /\ f \in Nat /\ ExternalApart(c, t, f)
        BY <1>8, <1>10, Zenon
      <3> QED BY <2>1, <3>1, SMT DEF Disjoint, ExternalApart, AmSpm
    <2>2. CASE \E i \in 1 .. Len(c.regExt) : u = c.regExt[i].start /\ g = c.regExt[i].end
      BY <2>2, <1>10, ExternalsApart, SMT
    <2> QED BY <2>1, <2>2, <1>10, SMT DEF RegionPlace
  <1>11. ASSUME NEW b, NEW t, NEW f, NEW u, NEW g, Own(b, t, f), RegionPlace(c, u, g)
         PROVE  Disjoint(t, f, u, g)
    <2>1. CASE u = \h0200000 /\ g = \h0C00000
      BY <2>1, <1>11, <1>3, SMT DEF Disjoint, AmSpm
    <2>2. CASE \E i \in 1 .. Len(c.regExt) : u = c.regExt[i].start /\ g = c.regExt[i].end
      BY <2>2, <1>2, <1>7, <1>11, ExternalsApart, SMT
    <2> QED BY <2>1, <2>2, <1>11, SMT DEF RegionPlace
  <1> HIDE DEF Own, Ext
  <1>12. Own(d, s, e) \/ Ext(d, s, e)
    BY <1>5
  <1>13. ASSUME NEW b, NEW t, NEW f, AxiPlace(c, b, t, f), b # d PROVE Disjoint(s, e, t, f)
    <2>1. Own(b, t, f) \/ Ext(b, t, f)
      BY <1>5, <1>13
    <2> QED BY <2>1, <1>12, <1>6, <1>7, <1>8, <1>9, <1>13, Zenon
  <1>14. ASSUME NEW t, NEW f, RegionPlace(c, t, f) PROVE Disjoint(s, e, t, f)
    BY <1>12, <1>10, <1>11, <1>14, Zenon
  <1> QED BY <1>4, <1>13, <1>14

\* Addresses of the devices of the demultiplexer.
LEMMA RegionsAre ==
    /\ Region(<<"Clint", 0>>) = <<\h0204000, \h4000>>
    /\ Region(<<"Plic", 0>>) = <<\h0400000, \h400000>>
    /\ Region(<<"Regs", 0>>) = <<\h0300000, \h100>>
    /\ Region(<<"Bootrom", 0>>) = <<\h0200000, \h4000>>
    /\ Region(<<"LlcNotBypass", 0>>) = <<\h0300100, \h100>>
    /\ Region(<<"Uart", 0>>) = <<\h0300200, \h100>>
    /\ Region(<<"I2c", 0>>) = <<\h0300300, \h100>>
    /\ Region(<<"SpiHost", 0>>) = <<\h0300400, \h100>>
    /\ Region(<<"Gpio", 0>>) = <<\h0300500, \h100>>
    /\ Region(<<"SerialLink", 0>>) = <<\h0300600, \h100>>
    /\ Region(<<"Vga", 0>>) = <<\h0300700, \h100>>
    /\ Region(<<"Usb", 0>>) = <<\h0300800, \h100>>
    /\ Region(<<"IrqRouter", 0>>) = <<\h0208000, \h4000>>
    /\ Region(<<"AxiRt", 0>>) = <<\h020c000, \h4000>>
    /\ \A j \in Nat : Region(<<"Clic", j>>) = <<\h0800000 + j * \h4000, \h4000>>
    /\ \A j \in Nat : Region(<<"BusErr", j>>) = <<\h0300900 + j * 4, 4>>
  BY SMT DEF Region

\* The device of the demultiplexer whose addresses a is among.
NameAt(a) ==
    IF a < \h0204000 THEN "Bootrom" ELSE IF a < \h0208000 THEN "Clint"
    ELSE IF a < \h020c000 THEN "IrqRouter" ELSE IF a < \h0210000 THEN "AxiRt"
    ELSE IF a < \h0300100 THEN "Regs" ELSE IF a < \h0300200 THEN "LlcNotBypass"
    ELSE IF a < \h0300300 THEN "Uart" ELSE IF a < \h0300400 THEN "I2c"
    ELSE IF a < \h0300500 THEN "SpiHost" ELSE IF a < \h0300600 THEN "Gpio"
    ELSE IF a < \h0300700 THEN "SerialLink" ELSE IF a < \h0300800 THEN "Vga"
    ELSE IF a < \h0300900 THEN "Usb" ELSE IF a < \h0400000 THEN "BusErr"
    ELSE IF a < \h0800000 THEN "Plic" ELSE "Clic"
UnitAt(a) == IF NameAt(a) = "Clic" THEN (a - \h0800000) \div \h4000
             ELSE IF NameAt(a) = "BusErr" THEN (a - \h0300900) \div 4
             ELSE 0

Inside(d, a) == Region(d)[1] <= a /\ a < Region(d)[1] + Region(d)[2]

\* The devices of the demultiplexer that exist once are where NameAt says.
LEMMA SingleRegions ==
    ASSUME NEW c, NEW f \in Single(c)
    PROVE  /\ Region(<<f, 0>>)[1] \in Nat /\ Region(<<f, 0>>)[2] \in Nat
           /\ \h0200000 <= Region(<<f, 0>>)[1]
           /\ Region(<<f, 0>>)[1] + Region(<<f, 0>>)[2] <= \h0C00000
           /\ \A a \in Nat : Inside(<<f, 0>>, a) => f = NameAt(a)
  <1>1. f \in {"Clint", "Plic", "Regs"} \union RegNames
    BY DEF Single
  <1> DEFINE Right(x, n) == /\ x \in Nat /\ n \in Nat /\ \h0200000 <= x /\ x + n <= \h0C00000
                            /\ \A a \in Nat : x <= a /\ a < x + n => f = NameAt(a)
             reg == Region(<<f, 0>>)
  <1>2. Right(reg[1], reg[2])
    <2>1. CASE f = "Clint"
      BY <2>1, RegionsAre, SMT DEF NameAt
    <2>2. CASE f = "Plic"
      BY <2>2, RegionsAre, SMT DEF NameAt
    <2>3. CASE f = "Regs"
      BY <2>3, RegionsAre, SMT DEF NameAt
    <2>4. CASE f = "Bootrom"
      BY <2>4, RegionsAre, SMT DEF NameAt
    <2>5. CASE f = "LlcNotBypass"
      BY <2>5, RegionsAre, SMT DEF NameAt
    <2>6. CASE f = "Uart"
      BY <2>6, RegionsAre, SMT DEF NameAt
    <2>7. CASE f = "I2c"
      BY <2>7, RegionsAre, SMT DEF NameAt
    <2>8. CASE f = "SpiHost"
      BY <2>8, RegionsAre, SMT DEF NameAt
    <2>9. CASE f = "Gpio"
      BY <2>9, RegionsAre, SMT DEF NameAt
    <2>10. CASE f = "SerialLink"
      BY <2>10, RegionsAre, SMT DEF NameAt
    <2>11. CASE f = "Vga"
      BY <2>11, RegionsAre, SMT DEF NameAt
    <2>12. CASE f = "Usb"
      BY <2>12, RegionsAre, SMT DEF NameAt
    <2>13. CASE f = "IrqRouter"
      BY <2>13, RegionsAre, SMT DEF NameAt
    <2>14. CASE f = "AxiRt"
      BY <2>14, RegionsAre, SMT DEF NameAt
    <2> HIDE DEF Right
    <2> QED BY <1>1, <2>1, <2>2, <2>3, <2>4, <2>5, <2>6, <2>7, <2>8, <2>9, <2>10, <2>11, <2>12,
               <2>13, <2>14, SMT DEF RegNames
  <1> QED BY <1>2, SMT DEF Inside

\* d is where the map of the devices puts it.
InPlace(d) ==
    /\ Region(d)[1] \in Nat /\ Region(d)[2] \in Nat
    /\ \h0200000 <= Region(d)[1] /\ Region(d)[1] + Region(d)[2] <= \h0C00000
    /\ \A a \in Nat : Inside(d, a) => d = <<NameAt(a), UnitAt(a)>>

\* So is every other, and there is an entry for it in the tables.
LEMMA DeviceInPlace ==
    ASSUME NEW c \in Cfgs, NEW d, Device(c, d)
    PROVE  InPlace(d) /\ d[2] \in Nat /\ d[2] < TableSize
  <1>1. /\ c.cores \in Nat \ {0} /\ c.cores < TableSize /\ TableSize \in Nat /\ TableSize <= 64
        /\ "BusErr" \in c.feats => c.cores + 2 <= TableSize
    BY ConfigurationIs DEF Countable
  <1>2. ASSUME NEW f \in Single(c), d = <<f, 0>> PROVE InPlace(d) /\ d[2] \in Nat /\ d[2] < TableSize
    <2>1. \A a \in Nat : Inside(d, a) => d = <<NameAt(a), UnitAt(a)>>
      <3>1. f # "Clic" /\ f # "BusErr"
        BY DEF Single, RegNames
      <3> QED BY <3>1, <1>2, SingleRegions, SMT DEF UnitAt
    <2>2. d[2] \in Nat /\ d[2] < TableSize
      BY <1>1, <1>2
    <2> QED BY <2>1, <2>2, <1>2, SingleRegions, SMT DEF InPlace
  <1>3. ASSUME NEW j \in 0 .. c.cores - 1, d = <<"Clic", j>>
        PROVE  InPlace(d) /\ d[2] \in Nat /\ d[2] < TableSize
    <2>1. j \in Nat /\ j < TableSize /\ j < 64
      BY <1>1
    <2>2. Region(d)[1] = \h0800000 + j * \h4000 /\ Region(d)[2] = \h4000
      BY <2>1, <1>3, RegionsAre, SMT
    <2>3. ASSUME NEW a \in Nat, Inside(d, a) PROVE d = <<NameAt(a), UnitAt(a)>>
      <3>1. NameAt(a) = "Clic"
        BY <2>1, <2>2, <2>3, SMT DEF Inside, NameAt
      <3>2. (a - \h0800000) \div \h4000 = j
        BY <2>1, <2>2, <2>3, SMT DEF Inside
      <3> QED BY <3>1, <3>2, <1>3, SMT DEF UnitAt
    <2> QED BY <2>1, <2>2, <2>3, <1>3, SMT DEF InPlace
  <1>4. ASSUME "BusErr" \in c.feats, NEW j \in 0 .. c.cores + 1, d = <<"BusErr", j>>
        PROVE  InPlace(d) /\ d[2] \in Nat /\ d[2] < TableSize
    <2>1. j \in Nat /\ j < TableSize /\ j < 64
      BY <1>1, <1>4
    <2>2. Region(d)[1] = \h0300900 + j * 4 /\ Region(d)[2] = 4
      BY <2>1, <1>4, RegionsAre, SMT
    <2>3. ASSUME NEW a \in Nat, Inside(d, a) PROVE d = <<NameAt(a), UnitAt(a)>>
      <3>1. NameAt(a) = "BusErr"
        BY <2>1, <2>2, <2>3, SMT DEF Inside, NameAt
      <3>2. (a - \h0300900) \div 4 = j
        BY <2>1, <2>2, <2>3, SMT DEF Inside
      <3> QED BY <3>1, <3>2, <1>4, SMT DEF UnitAt
    <2> QED BY <2>1, <2>2, <2>3, <1>4, SMT DEF InPlace
  <1> QED BY <1>2, <1>3, <1>4, Zenon DEF Device

DeviceRule(i, d) == Rule(i, Region(d)[1], Region(d)[1] + Region(d)[2])

\* Rules of the demultiplexer.
RegRule(c, r) ==
    \/ \E i \in 1 .. Len(RegPorts(c)) - 1 : r = DeviceRule(i, RegPorts(c)[i + 1])
    \/ \E i \in 1 .. Len(c.regExt) : r = ExternalRule(Len(RegPorts(c)), c.regExt[i])

\* The ports of the demultiplexer, without the error slave's.
LEMMA RegPortIs ==
    ASSUME NEW c \in Cfgs
    PROVE  /\ Len(RegPorts(c)) \in Nat /\ 4 <= Len(RegPorts(c)) /\ Len(RegPorts(c)) <= PortMod
           /\ PortMod \in Nat
           /\ \A i \in 1 .. Len(RegPorts(c)) - 1 :
                 LET d == RegPorts(c)[i + 1]
                 IN  /\ Device(c, d) /\ d[2] \in Nat /\ d[2] < TableSize
                     /\ Region(d)[1] \in Nat /\ Region(d)[1] + Region(d)[2] \in Nat
           /\ \A d : Device(c, d) => \E i \in 1 .. Len(RegPorts(c)) - 1 : RegPorts(c)[i + 1] = d
  <1>1. /\ Len(RegPorts(c)) \in 4 .. MaxRegPorts(c)
        /\ \A i \in 2 .. Len(RegPorts(c)) : Device(c, RegPorts(c)[i])
        /\ \A d : Device(c, d) => \E i \in 2 .. Len(RegPorts(c)) : RegPorts(c)[i] = d
    BY RegPortsAre
  <1>2. MaxRegPorts(c) \in Nat
    <2>1. Len(RegFeatures) = 11 /\ c.cores \in Nat
      BY FeatureLists, ConfigurationIs
    <2> QED BY <2>1 DEF MaxRegPorts
  <1>3. Len(RegPorts(c)) \in Nat /\ 4 <= Len(RegPorts(c))
    BY <1>1, <1>2
  <1>4. Len(RegPorts(c)) <= PortMod /\ PortMod \in Nat
    BY CountsAre
  <1>5. ASSUME NEW i \in 1 .. Len(RegPorts(c)) - 1, NEW d, d = RegPorts(c)[i + 1]
        PROVE  /\ Device(c, d) /\ d[2] \in Nat /\ d[2] < TableSize
               /\ Region(d)[1] \in Nat /\ Region(d)[1] + Region(d)[2] \in Nat
    <2>1. i + 1 \in 2 .. Len(RegPorts(c))
      BY <1>3
    <2>2. Device(c, d)
      BY <2>1, <1>1, <1>5
    <2>3. InPlace(d) /\ d[2] \in Nat /\ d[2] < TableSize
      BY <2>2, DeviceInPlace
    <2>4. Region(d)[1] \in Nat /\ Region(d)[1] + Region(d)[2] \in Nat
      BY <2>3, SMT DEF InPlace
    <2> QED BY <2>2, <2>3, <2>4
  <1>6. ASSUME NEW d, Device(c, d) PROVE \E i \in 1 .. Len(RegPorts(c)) - 1 : RegPorts(c)[i + 1] = d
    <2>1. PICK i \in 2 .. Len(RegPorts(c)) : RegPorts(c)[i] = d
      BY <1>1, <1>6
    <2>2. i - 1 \in 1 .. Len(RegPorts(c)) - 1 /\ (i - 1) + 1 = i
      BY <1>3
    <2> QED BY <2>1, <2>2
  <1>7. \A i \in 1 .. Len(RegPorts(c)) - 1 :
                 LET d == RegPorts(c)[i + 1]
                 IN  /\ Device(c, d) /\ d[2] \in Nat /\ d[2] < TableSize
                     /\ Region(d)[1] \in Nat /\ Region(d)[1] + Region(d)[2] \in Nat
    BY <1>5
  <1> QED BY <1>3, <1>4, <1>6, <1>7

\* The map of the demultiplexer is not cut off, and has the rules it should
\* have.
LEMMA RegMapIs ==
    ASSUME NEW c \in Cfgs
    PROVE  \E n \in Nat : Part(RegMap(c), n) /\ \A r : Has(RegMap(c), r) <=> RegRule(c, r)
  <1> DEFINE ports == RegPorts(c)
             x == Len(ports) - 1
             y == Len(c.regExt)
             w == [i \in 1 .. x |-> DeviceRule(i, ports[i + 1])]
             q == External(Len(ports), c.regExt)
  <1>1. RegMap(c) = Table(w \o q)
    BY Zenon DEF RegMap, DeviceRule
  <1>2. x \in Nat /\ y \in Nat /\ x + y < PortMod /\ Len(ports) \in Nat /\ c.regExt \in Seq(RuleType)
    <2>1. /\ Len(ports) \in Nat /\ 4 <= Len(ports) /\ Len(ports) + y <= PortMod /\ PortMod \in Nat
          /\ y \in Nat
      BY RegPortIs, CountsAre, ExternalsAre
    <2>2. c.regExt \in Seq(RuleType)
      BY ConfigurationIs DEF Rules, RuleType
    <2> HIDE DEF y, ports
    <2> QED BY <2>1, <2>2
  <1>3. ASSUME NEW i \in 1 .. x PROVE DeviceRule(i, ports[i + 1]) \in RuleType
    <2>1. i \in Nat /\ Region(ports[i + 1])[1] \in Nat
          /\ Region(ports[i + 1])[1] + Region(ports[i + 1])[2] \in Nat
      BY <1>2, RegPortIs
    <2> QED BY <2>1, RuleIs DEF DeviceRule
  <1>4. Part(w, x) /\ \A r : Has(w, r) <=> \E i \in 1 .. x : r = DeviceRule(i, ports[i + 1])
    <2> HIDE DEF x, ports
    <2>1. w = [i \in 1 .. x |-> w[i]] /\ \A i \in 1 .. x : w[i] = DeviceRule(i, ports[i + 1])
      OBVIOUS
    <2> HIDE DEF w
    <2>2. \A i \in 1 .. x : w[i] \in RuleType
      BY <2>1, <1>3
    <2>3. Part(w, x) /\ Len(w) = x
      BY <1>2, <2>1, <2>2, RuleList
    <2> QED BY <2>1, <2>3 DEF Has
  <1>5. Part(q, y) /\ \A r : Has(q, r) <=> \E i \in 1 .. y : r = ExternalRule(Len(ports), c.regExt[i])
    BY <1>2, ExternalPart
  <1> HIDE DEF w, q, x, y
  <1>6. Part(w \o q, x + y) /\ \A r : Has(w \o q, r) <=> Has(w, r) \/ Has(q, r)
    BY <1>2, <1>4, <1>5, PartJoined
  <1>7. x + y \in Nat
    BY <1>2
  <1>8. RegMap(c) = w \o q
    <2> DEFINE z == x + y
               s == w \o q
    <2>1. z \in Nat /\ Part(s, z) /\ z < PortMod
      BY <1>2, <1>6, <1>7
    <2> HIDE DEF z, s
    <2>2. Table(s) = s
      BY <2>1, TableIs
    <2> QED BY <2>2, <1>1 DEF s
  <1>9. ASSUME NEW r PROVE Has(RegMap(c), r) <=> RegRule(c, r)
    BY <1>4, <1>5, <1>6, <1>8, Zenon DEF RegRule, x, y
  <1> QED BY <1>6, <1>7, <1>8, <1>9

-----------------------------------------------------------------------------
\* Device d of the demultiplexer is mapped to addresses s up to e.
RegPlace(c, d, s, e) ==
    \/ Device(c, d) /\ s = Region(d)[1] /\ e = Region(d)[1] + Region(d)[2]
    \/ \E i \in 1 .. Len(c.regExt) :
          d = <<"External", c.regExt[i].idx>> /\ s = c.regExt[i].start /\ e = c.regExt[i].end

Connected(c, d) == IF Present(c, d) THEN {d} ELSE {}

\* What is connected to the ports of the demultiplexer.
LEMMA RegDevicesAre ==
    ASSUME NEW c \in Cfgs
    PROVE  /\ RegDevices(c, 0) = {<<"Err", 0>>}
           /\ \A i \in 1 .. Len(RegPorts(c)) - 1 :
                 RegDevices(c, i) = Connected(c, RegPorts(c)[i + 1])
           /\ \A i \in 1 .. Len(c.regExt) :
                 RegDevices(c, Len(RegPorts(c)) + c.regExt[i].idx)
                 = Connected(c, <<"External", c.regExt[i].idx>>)
  <1>1. /\ RegPorts(c) \in Seq(Names \X Nat) /\ Len(RegPorts(c)) \in Nat /\ 4 <= Len(RegPorts(c))
        /\ PortMod \in Nat /\ Len(RegPorts(c)) <= PortMod /\ RegPorts(c)[1] = <<"Err", 0>>
    BY RegPortsAre, RegPortIs
  <1>2. c.regExt \in Seq(RuleType)
    BY ConfigurationIs DEF Rules, RuleType
  <1>3. ASSUME NEW w \in Nat, w < Len(RegPorts(c)), NEW d, RegPorts(c)[w + 1] = d, d[2] < TableSize
        PROVE  RegDevices(c, w) = Connected(c, d)
    <2>1. At(RegPorts(c), w) = {d}
      BY <1>1, <1>3, AtIs
    <2>2. ExternalAt(Len(RegPorts(c)), c.regExt, w) = {}
      BY <1>1, <1>2, <1>3, ExternalAtIs
    <2> QED BY <2>1, <2>2, <1>3 DEF RegDevices, Connected
  <1>4. RegDevices(c, 0) = {<<"Err", 0>>}
    <2>1. 0 < Len(RegPorts(c)) /\ 0 < TableSize /\ RegPorts(c)[0 + 1] = <<"Err", 0>>
          /\ <<"Err", 0>>[2] < TableSize
      <3>1. TableSize \in 1 .. 64
        BY SocAssumption
      <3>2. 0 < TableSize /\ <<"Err", 0>>[2] = 0
        BY <3>1
      <3>3. 0 < Len(RegPorts(c)) /\ 0 + 1 = 1
        BY <1>1
      <3> QED BY <1>1, <3>2, <3>3
    <2>2. RegDevices(c, 0) = Connected(c, <<"Err", 0>>)
      BY <2>1, <1>3
    <2>3. Present(c, <<"Err", 0>>)
      BY DEF Present
    <2> QED BY <2>2, <2>3 DEF Connected
  <1>5. ASSUME NEW i \in 1 .. Len(RegPorts(c)) - 1
        PROVE  RegDevices(c, i) = Connected(c, RegPorts(c)[i + 1])
    <2>1. i \in Nat /\ i < Len(RegPorts(c)) /\ RegPorts(c)[i + 1][2] < TableSize
      BY <1>1, RegPortIs
    <2> QED BY <2>1, <1>3
  <1>6. ASSUME NEW i \in 1 .. Len(c.regExt)
        PROVE  RegDevices(c, Len(RegPorts(c)) + c.regExt[i].idx)
               = Connected(c, <<"External", c.regExt[i].idx>>)
    <2> DEFINE w == Len(RegPorts(c)) + c.regExt[i].idx
    <2>1. c.regExt[i].idx \in Nat
      BY ExternalsAre
    <2>2. w \in Nat /\ Len(RegPorts(c)) <= w
      BY <2>1, <1>1
    <2>3. At(RegPorts(c), w) = {}
      BY <2>2, <1>1, AtIs
    <2>4. ExternalAt(Len(RegPorts(c)), c.regExt, w) = {<<"External", c.regExt[i].idx>>}
      BY <2>2, <1>1, <1>2, ExternalAtIs
    <2>5. Present(c, <<"External", c.regExt[i].idx>>)
      BY DEF Present
    <2> QED BY <2>3, <2>4, <2>5 DEF RegDevices, Connected
  <1> QED BY <1>4, <1>5, <1>6

\* A rule leads to the device whose addresses it names, if it is there.
RegRoute(c, r) == \E d : RegPlace(c, d, r.start, r.end) /\ RegDevices(c, r.idx) = Connected(c, d)

\* A rule leads to the device whose addresses it names, if it is there.
LEMMA RegRuleRoutes ==
    ASSUME NEW c \in Cfgs, NEW r, RegRule(c, r)
    PROVE  RegRoute(c, r)
  <1>1. ASSUME NEW i \in Nat, i < PortMod, NEW s \in Nat, NEW e \in Nat, NEW d,
               r = Rule(i, s, e), RegPlace(c, d, s, e), RegDevices(c, i) = Connected(c, d)
        PROVE  RegRoute(c, r)
    <2>1. RuleFor(c, i, s, e)
      BY <1>1, RulesAre
    <2>2. r.idx = i /\ r.start = s /\ r.end = e
      BY <2>1, <1>1 DEF RuleFor
    <2> QED BY <2>2, <1>1, Zenon DEF RegRoute
  <1>2. ASSUME NEW i \in 1 .. Len(RegPorts(c)) - 1, r = DeviceRule(i, RegPorts(c)[i + 1])
        PROVE  RegRoute(c, r)
    <2> DEFINE d == RegPorts(c)[i + 1]
    <2>1. /\ Device(c, d) /\ Region(d)[1] \in Nat /\ Region(d)[1] + Region(d)[2] \in Nat
          /\ i \in Nat /\ i < PortMod
      <3>1. Len(RegPorts(c)) \in Nat /\ Len(RegPorts(c)) <= PortMod /\ PortMod \in Nat
        BY RegPortIs
      <3>2. i \in Nat /\ i < PortMod
        BY <3>1
      <3> QED BY <3>2, RegPortIs
    <2>2. RegPlace(c, d, Region(d)[1], Region(d)[1] + Region(d)[2])
      BY <2>1, Zenon DEF RegPlace
    <2>3. RegDevices(c, i) = Connected(c, d)
      BY RegDevicesAre
    <2>4. r = Rule(i, Region(d)[1], Region(d)[1] + Region(d)[2])
      BY <1>2 DEF DeviceRule
    <2> HIDE DEF d
    <2> QED BY <2>1, <2>2, <2>3, <2>4, <1>1, Zenon
  <1>3. ASSUME NEW i \in 1 .. Len(c.regExt), r = ExternalRule(Len(RegPorts(c)), c.regExt[i])
        PROVE  RegRoute(c, r)
    <2> DEFINE x == c.regExt[i]
               k == Len(RegPorts(c)) + x.idx
    <2>1. x.idx \in Nat /\ x.start \in Nat /\ x.end \in Nat
      BY ExternalsAre
    <2>2. RegPlace(c, <<"External", x.idx>>, x.start, x.end)
      BY Zenon DEF RegPlace
    <2>3. RegDevices(c, k) = Connected(c, <<"External", x.idx>>) /\ k < PortMod
      BY RegDevicesAre, CountsAre, Zenon
    <2>4. k \in Nat
      BY <2>1, RegPortIs
    <2>5. r = Rule(k, x.start, x.end)
      BY <1>3, Zenon DEF ExternalRule
    <2> HIDE DEF x, k
    <2> QED BY <2>1, <2>2, <2>3, <2>4, <2>5, <1>1, Zenon
  <1> QED BY <1>2, <1>3, Zenon DEF RegRule

\* Some rule of the demultiplexer has the addresses s up to e.
HasRegRule(c, s, e) == \E r : RegRule(c, r) /\ r.start = s /\ r.end = e

\* The demultiplexer has a rule for each of its devices.
LEMMA RegPlacesMapped ==
    ASSUME NEW c \in Cfgs, NEW d, NEW s, NEW e, RegPlace(c, d, s, e)
    PROVE  HasRegRule(c, s, e)
  <1>1. ASSUME NEW i, RegRule(c, Rule(i, s, e)) PROVE HasRegRule(c, s, e)
    <2>1. Rule(i, s, e).start = s /\ Rule(i, s, e).end = e
      BY DEF Rule
    <2> QED BY <2>1, <1>1, Zenon DEF HasRegRule
  <1>2. CASE Device(c, d) /\ s = Region(d)[1] /\ e = Region(d)[1] + Region(d)[2]
    <2>1. PICK i \in 1 .. Len(RegPorts(c)) - 1 : RegPorts(c)[i + 1] = d
      BY <1>2, RegPortIs
    <2>2. RegRule(c, DeviceRule(i, d))
      BY <2>1, Zenon DEF RegRule
    <2>3. RegRule(c, Rule(i, s, e))
      BY <2>2, <1>2, Zenon DEF DeviceRule
    <2> QED BY <2>3, <1>1
  <1>3. ASSUME NEW i \in 1 .. Len(c.regExt), s = c.regExt[i].start, e = c.regExt[i].end
        PROVE  HasRegRule(c, s, e)
    <2>1. RegRule(c, ExternalRule(Len(RegPorts(c)), c.regExt[i]))
      BY Zenon DEF RegRule
    <2>2. RegRule(c, Rule(Len(RegPorts(c)) + c.regExt[i].idx, s, e))
      BY <2>1, <1>3, Zenon DEF ExternalRule
    <2> QED BY <2>2, <1>1
  <1> QED BY <1>2, <1>3, Zenon DEF RegPlace

\* Nothing else of the demultiplexer has one of the addresses s up to e, and
\* the crossbar leaves them to it.
Unshared(c, d, s, e) ==
    \A b, t, f, a : /\ RegPlace(c, b, t, f) /\ a \in Nat
                    /\ s <= a /\ a < e /\ t <= a /\ a < f
                    => b = d
Left(c, s, e) == \E t, f : RegionPlace(c, t, f) /\ t <= s /\ e <= f

\* Its devices share no address, and the crossbar leaves it theirs.
LEMMA RegApart ==
    ASSUME NEW c \in Cfgs, NEW d, NEW s, NEW e, RegPlace(c, d, s, e)
    PROVE  s \in Nat /\ e \in Nat /\ Unshared(c, d, s, e) /\ Left(c, s, e)
  <1>1. \A i \in 1 .. Len(c.regExt) : c.regExt[i].start \in Nat /\ c.regExt[i].end \in Nat
    BY ExternalsAre
  <1> DEFINE Own(b, t, f) == Device(c, b) /\ t = Region(b)[1] /\ f = Region(b)[1] + Region(b)[2]
             Ext(b, t, f) == \E i \in 1 .. Len(c.regExt) :
                b = <<"External", c.regExt[i].idx>> /\ t = c.regExt[i].start /\ f = c.regExt[i].end
  <1>2. \A b, t, f : RegPlace(c, b, t, f) => Own(b, t, f) \/ Ext(b, t, f)
    BY Zenon DEF RegPlace
  <1>3. ASSUME NEW b, NEW t, NEW f, Own(b, t, f)
        PROVE  /\ t \in Nat /\ f \in Nat /\ \h0200000 <= t /\ f <= \h0C00000
               /\ \A a \in Nat : t <= a /\ a < f => b = <<NameAt(a), UnitAt(a)>>
    <2>1. InPlace(b)
      BY <1>3, DeviceInPlace
    <2> QED BY <2>1, <1>3, SMT DEF InPlace, Inside
  <1>4. ASSUME NEW b, NEW t, NEW f, Ext(b, t, f)
        PROVE  t \in Nat /\ f \in Nat /\ ExternalApart(c, t, f) /\ RegionPlace(c, t, f)
    <2>1. t \in Nat /\ f \in Nat /\ ExternalApart(c, t, f)
      BY <1>4, <1>1, ExternalsApart, Zenon
    <2>2. RegionPlace(c, t, f)
      BY <1>4, SMT DEF RegionPlace
    <2> QED BY <2>1, <2>2
  <1>5. ASSUME NEW b, NEW t, NEW f, NEW k, NEW u, NEW g, Ext(b, t, f), Ext(k, u, g), b # k
        PROVE  Disjoint(t, f, u, g)
    BY <1>5, ExternalsApart, Zenon
  <1> HIDE DEF Own, Ext
  <1>6. ASSUME NEW b, NEW t, NEW f, NEW k, NEW u, NEW g, Own(b, t, f), Ext(k, u, g)
        PROVE  Disjoint(t, f, u, g) /\ Disjoint(u, g, t, f)
    <2>1. t \in Nat /\ f \in Nat /\ \h0200000 <= t /\ f <= \h0C00000
      BY <1>3, <1>6, SMT
    <2>2. u \in Nat /\ g \in Nat /\ ExternalApart(c, u, g)
      BY <1>4, <1>6, Zenon
    <2> QED BY <2>1, <2>2, SMT DEF Disjoint, ExternalApart, AmSpm
  <1>7. ASSUME NEW b, NEW t, NEW f, NEW k, NEW u, NEW g, NEW a \in Nat,
               RegPlace(c, b, t, f), RegPlace(c, k, u, g), t <= a, a < f, u <= a, a < g
        PROVE  b = k
    <2>1. t \in Nat /\ f \in Nat /\ u \in Nat /\ g \in Nat
      BY <1>2, <1>3, <1>4, <1>7, SMT
    <2>2. ~Disjoint(t, f, u, g)
      BY <2>1, <1>7 DEF Disjoint
    <2>3. CASE Own(b, t, f) /\ Own(k, u, g)
      <3>1. b = <<NameAt(a), UnitAt(a)>>
        BY <1>3, <1>7, <2>3, SMT
      <3>2. k = <<NameAt(a), UnitAt(a)>>
        BY <1>3, <1>7, <2>3, SMT
      <3> QED BY <3>1, <3>2, Zenon
    <2>4. CASE ~(Own(b, t, f) /\ Own(k, u, g))
      BY <2>2, <2>4, <1>2, <1>5, <1>6, <1>7, Zenon
    <2> QED BY <2>3, <2>4
  <1>8. s \in Nat /\ e \in Nat
    BY <1>2, <1>3, <1>4, SMT
  <1>9. \E t, f : RegionPlace(c, t, f) /\ t <= s /\ e <= f
    <2>1. CASE Own(d, s, e)
      <3>1. RegionPlace(c, \h0200000, \h0C00000)
        BY SMT DEF RegionPlace
      <3> QED BY <3>1, <2>1, <1>3, SMT
    <2>2. CASE Ext(d, s, e)
      <3>1. RegionPlace(c, s, e)
        BY <2>2, <1>4, Zenon
      <3>2. s <= s /\ e <= e
        BY <1>8
      <3> QED BY <3>1, <3>2, Zenon
    <2> QED BY <2>1, <2>2, <1>2, Zenon
  <1>10. Unshared(c, d, s, e)
    BY <1>7 DEF Unshared
  <1>11. Left(c, s, e)
    BY <1>9 DEF Left
  <1> QED BY <1>8, <1>10, <1>11

AxiOwns(c, d, a) == \E s, e : AxiPlace(c, d, s, e) /\ s <= a /\ a < e
RegOwns(c, d, a) == \E s, e : RegPlace(c, d, s, e) /\ s <= a /\ a < e
Owns(c, d, a) == AxiOwns(c, d, a) \/ RegOwns(c, d, a)

\* The demultiplexer's addresses are numbers.
LEMMA RegionBounds ==
    ASSUME NEW c \in Cfgs, NEW t, NEW f, RegionPlace(c, t, f)
    PROVE  t \in Int /\ f \in Int
  <1>1. \A i \in 1 .. Len(c.regExt) : c.regExt[i].start \in Nat /\ c.regExt[i].end \in Nat
    BY ExternalsAre
  <1> QED BY <1>1, SMT DEF RegionPlace

\* No address belongs to two devices.
LEMMA OneOwner ==
    ASSUME NEW c \in Cfgs, NEW a \in Nat, NEW d, NEW b, Owns(c, d, a), Owns(c, b, a)
    PROVE  b = d
  <1>1. ASSUME NEW k, NEW m, AxiOwns(c, k, a), AxiOwns(c, m, a) PROVE k = m
    <2>1. PICK s, e : AxiPlace(c, k, s, e) /\ s <= a /\ a < e
      BY <1>1 DEF AxiOwns
    <2>2. PICK t, f : AxiPlace(c, m, t, f) /\ t <= a /\ a < f
      BY <1>1 DEF AxiOwns
    <2>3. s \in Nat /\ e \in Nat /\ t \in Nat /\ f \in Nat
      BY <2>1, <2>2, AxiApart, Zenon
    <2>4. ~Disjoint(s, e, t, f)
      BY <2>1, <2>2, <2>3 DEF Disjoint
    <2>5. \A b1, t1, f1 : AxiPlace(c, b1, t1, f1) /\ b1 # k => Disjoint(s, e, t1, f1)
      BY <2>1, AxiApart, Zenon
    <2> QED BY <2>2, <2>4, <2>5, Zenon
  <1>2. ASSUME NEW k, NEW m, AxiOwns(c, k, a), RegOwns(c, m, a) PROVE FALSE
    <2>1. PICK s, e : AxiPlace(c, k, s, e) /\ s <= a /\ a < e
      BY <1>2 DEF AxiOwns
    <2>2. PICK t, f : RegPlace(c, m, t, f) /\ t <= a /\ a < f
      BY <1>2 DEF RegOwns
    <2>3. PICK u, g : RegionPlace(c, u, g) /\ u <= t /\ f <= g
      <3>1. Left(c, t, f)
        BY <2>2, RegApart, Zenon
      <3> QED BY <3>1, Zenon DEF Left
    <2>4. Disjoint(s, e, u, g) /\ s \in Nat /\ e \in Nat /\ t \in Nat /\ f \in Nat
      <3>1. \A t1, f1 : RegionPlace(c, t1, f1) => Disjoint(s, e, t1, f1)
        BY <2>1, AxiApart, Zenon
      <3>2. s \in Nat /\ e \in Nat /\ t \in Nat /\ f \in Nat
        BY <2>1, <2>2, AxiApart, RegApart, Zenon
      <3> QED BY <3>1, <3>2, <2>3, Zenon
    <2>5. u \in Int /\ g \in Int
      BY <2>3, RegionBounds, Zenon
    <2> QED BY <2>1, <2>2, <2>3, <2>4, <2>5 DEF Disjoint
  <1>3. ASSUME NEW k, NEW m, RegOwns(c, k, a), RegOwns(c, m, a) PROVE k = m
    <2>1. PICK s, e : RegPlace(c, k, s, e) /\ s <= a /\ a < e
      BY <1>3 DEF RegOwns
    <2>2. PICK t, f : RegPlace(c, m, t, f) /\ t <= a /\ a < f
      BY <1>3 DEF RegOwns
    <2>3. Unshared(c, k, s, e)
      BY <2>1, RegApart, Zenon
    <2> QED BY <2>1, <2>2, <2>3, Zenon DEF Unshared
  <1> QED BY <1>1, <1>2, <1>3, Zenon DEF Owns

-----------------------------------------------------------------------------
(* What the documentation promises, and what the tables do.                *)

\* The owners of an address, written out.
LEMMA OwnerMembers ==
    ASSUME NEW c, NEW a, NEW d
    PROVE  d \in Owner(c, a) <=>
              \/ \E e \in Documented(c) : /\ Holds(e, a) /\ e[1] \in Always \union c.feats
                                          /\ d = <<e[1], Unit(e, a)>>
              \/ d \in SpmAt(c, a)
              \/ \E i \in 1 .. Len(c.axiExt) : /\ c.axiExt[i].start <= a /\ a < c.axiExt[i].end
                                               /\ d = <<"External", c.axiExt[i].idx>>
              \/ \E i \in 1 .. Len(c.regExt) : /\ c.regExt[i].start <= a /\ a < c.regExt[i].end
                                               /\ d = <<"External", c.regExt[i].idx>>
  <1>1. d \in DocumentedAt(c, a) <=>
              \E e \in Documented(c) : /\ Holds(e, a) /\ e[1] \in Always \union c.feats
                                       /\ d = <<e[1], Unit(e, a)>>
    BY SMT DEF DocumentedAt
  <1>2. \A rules : d \in ExternalFor(rules, a) <=>
              \E i \in 1 .. Len(rules) : /\ rules[i].start <= a /\ a < rules[i].end
                                         /\ d = <<"External", rules[i].idx>>
    BY SMT DEF ExternalFor
  <1> QED BY <1>1, <1>2, Zenon DEF Owner

\* The owner of an address, if it exists, is the device the tables place there.
LEMMA OwnerPlaced ==
    ASSUME NEW c \in Cfgs, NEW a \in Nat, NEW d \in Owner(c, a), Existing(c, d)
    PROVE  Owns(c, d, a)
  <1>1. ASSUME NEW s, NEW e, AxiPlace(c, d, s, e), s <= a, a < e PROVE Owns(c, d, a)
    BY <1>1, Zenon DEF Owns, AxiOwns
  <1>2. ASSUME NEW s, NEW e, RegPlace(c, d, s, e), s <= a, a < e PROVE Owns(c, d, a)
    BY <1>2, Zenon DEF Owns, RegOwns
  <1>3. ASSUME Device(c, d), Inside(d, a) PROVE Owns(c, d, a)
    <2>1. RegPlace(c, d, Region(d)[1], Region(d)[1] + Region(d)[2])
      BY <1>3, Zenon DEF RegPlace
    <2> QED BY <2>1, <1>2, <1>3, Zenon DEF Inside
  <1>4. ASSUME NEW e \in Documented(c), Holds(e, a), e[1] \in Always \union c.feats,
               d = <<e[1], Unit(e, a)>>
        PROVE  Owns(c, d, a)
    <2>1. c.llcOut[1] \in Nat /\ c.llcOut[2] \in Nat /\ c.slink[1] \in Nat /\ c.slink[2] \in Nat
          /\ c.cores \in Nat
      BY ConfigurationIs
    <2>2. CASE e = <<"Dbg", 0, \h4000, {"E"}>>
      <3>1. d = <<"Dbg", 0>> /\ 0 <= a /\ a < \h4000
        BY <1>4, <2>2, SMT DEF Holds, Unit
      <3>2. AxiPlace(c, d, 0, \h4000)
        BY <3>1, SMT DEF AxiPlace
      <3> QED BY <3>1, <3>2, <1>1, SMT
    <2>3. CASE e = <<"Dma", \h0100000, \h100, {}>>
      <3>1. d = <<"Dma", 0>> /\ \h0100000 <= a /\ a < \h0100100 /\ "Dma" \in c.feats
        BY <1>4, <2>3, SMT DEF Holds, Unit, Always
      <3>2. AxiPlace(c, d, \h0100000, \h0100100)
        BY <3>1, SMT DEF AxiPlace
      <3> QED BY <3>1, <3>2, <1>1, SMT
    <2>4. CASE e = <<"LlcOutConnect", c.llcOut[1], c.llcOut[2] - c.llcOut[1], {"C", "I", "E"}>>
      <3>1. d = <<"LlcOutConnect", 0>> /\ c.llcOut[1] <= a /\ a < c.llcOut[2] /\ "LlcOutConnect" \in c.feats
        BY <1>4, <2>1, <2>4, SMT DEF Holds, Unit, Always
      <3>2. AxiPlace(c, d, c.llcOut[1], c.llcOut[2])
        BY <3>1, SMT DEF AxiPlace
      <3> QED BY <3>1, <3>2, <1>1, SMT
    <2>5. CASE e = <<"SerialLink", c.slink[1], c.slink[2] - c.slink[1], {}>>
      <3>1. d = <<"SerialLink", 0>> /\ c.slink[1] <= a /\ a < c.slink[2] /\ "SerialLink" \in c.feats
        BY <1>4, <2>1, <2>5, SMT DEF Holds, Unit, Always
      <3>2. AxiPlace(c, d, c.slink[1], c.slink[2])
        BY <3>1, SMT DEF AxiPlace
      <3> QED BY <3>1, <3>2, <1>1, SMT
    <2>6. CASE e = <<"Clic", \h0800000, \h400000, {}>>
      <3> DEFINE j == (a - \h0800000) \div \h4000
      <3>1. d = <<"Clic", j>> /\ \h0800000 <= a /\ "Clic" \in c.feats
        BY <1>4, <2>6, SMT DEF Holds, Unit, Always
      <3>2. j \in Nat /\ \h0800000 + j * \h4000 <= a /\ a < \h0800000 + j * \h4000 + \h4000
        BY <3>1, SMT
      <3> HIDE DEF j
      <3>3. j < c.cores
        BY <3>1, SMT DEF Existing
      <3>4. j \in 0 .. c.cores - 1
        BY <3>2, <3>3, <2>1, SMT
      <3>5. Device(c, d)
        <4>1. d = <<"Clic", j>> /\ "Clic" \in c.feats
          BY <3>1, SMT
        <4> QED BY <4>1, <3>4, Zenon DEF Device
      <3>6. Inside(d, a)
        BY <3>1, <3>2, RegionsAre, SMT DEF Inside
      <3> QED BY <3>5, <3>6, <1>3, Zenon
    <2>7. CASE e = <<"BusErr", \h0300900, \h100, {}>>
      <3> DEFINE j == (a - \h0300900) \div 4
      <3>1. d = <<"BusErr", j>> /\ \h0300900 <= a /\ "BusErr" \in c.feats
        BY <1>4, <2>7, SMT DEF Holds, Unit, Always
      <3>2. j \in Nat /\ \h0300900 + j * 4 <= a /\ a < \h0300900 + j * 4 + 4
        BY <3>1, SMT
      <3> HIDE DEF j
      <3>3. j < 2 + c.cores
        BY <3>1, SMT DEF Existing
      <3>4. j \in 0 .. c.cores + 1
        BY <3>2, <3>3, <2>1, SMT
      <3>5. Device(c, d)
        <4>1. d = <<"BusErr", j>> /\ "BusErr" \in c.feats
          BY <3>1, SMT
        <4> QED BY <4>1, <3>4, Zenon DEF Device
      <3>6. Inside(d, a)
        BY <3>1, <3>2, RegionsAre, SMT DEF Inside
      <3> QED BY <3>5, <3>6, <1>3, Zenon
    <2>8. CASE /\ e[1] \in {"Clint", "Plic", "Regs"} \union RegNames
               /\ Region(<<e[1], 0>>) = <<e[2], e[3]>>
      <3>1. e[1] \in Single(c)
        BY <2>8, <1>4, SMT DEF Single, Always, RegNames
      <3>2. d = <<e[1], 0>>
        BY <2>8, <1>4, SMT DEF Unit, RegNames
      <3>3. Device(c, d)
        BY <3>1, <3>2, Zenon DEF Device
      <3>4. Inside(d, a)
        BY <2>8, <3>2, <1>4, SMT DEF Inside, Holds
      <3> QED BY <3>3, <3>4, <1>3, Zenon
    <2>9. \/ e = <<"Dbg", 0, \h4000, {"E"}>>
          \/ e = <<"Dma", \h0100000, \h100, {}>>
          \/ e = <<"LlcOutConnect", c.llcOut[1], c.llcOut[2] - c.llcOut[1], {"C", "I", "E"}>>
          \/ e = <<"SerialLink", c.slink[1], c.slink[2] - c.slink[1], {}>>
          \/ e = <<"Clic", \h0800000, \h400000, {}>>
          \/ e = <<"BusErr", \h0300900, \h100, {}>>
          \/ /\ e[1] \in {"Clint", "Plic", "Regs"} \union RegNames
             /\ Region(<<e[1], 0>>) = <<e[2], e[3]>>
      BY RegionsAre, SMT DEF Documented, RegNames
    <2> QED BY <2>2, <2>3, <2>4, <2>5, <2>6, <2>7, <2>8, <2>9, SMT
  <1>5. ASSUME d \in SpmAt(c, a) PROVE Owns(c, d, a)
    <2>1. PICK t \in {AmSpm, AmSpm + \h400000} :
            t <= a /\ a < t + c.spm /\ "LlcNotBypass" \in c.feats /\ d = <<"LlcOutConnect", 0>>
      BY <1>5, SMT DEF SpmAt
    <2>2. AxiPlace(c, d, t, t + c.spm)
      BY <2>1, SMT DEF AxiPlace
    <2> QED BY <2>1, <2>2, <1>1, SMT
  <1>6. ASSUME NEW i \in 1 .. Len(c.axiExt), c.axiExt[i].start <= a, a < c.axiExt[i].end,
               d = <<"External", c.axiExt[i].idx>>
        PROVE  Owns(c, d, a)
    <2>1. AxiPlace(c, d, c.axiExt[i].start, c.axiExt[i].end)
      BY <1>6, SMT DEF AxiPlace
    <2> QED BY <2>1, <1>1, <1>6, Zenon
  <1>7. ASSUME NEW i \in 1 .. Len(c.regExt), c.regExt[i].start <= a, a < c.regExt[i].end,
               d = <<"External", c.regExt[i].idx>>
        PROVE  Owns(c, d, a)
    <2>1. RegPlace(c, d, c.regExt[i].start, c.regExt[i].end)
      BY <1>7, Zenon DEF RegPlace
    <2> QED BY <2>1, <1>2, <1>7, Zenon
  <1> QED BY <1>4, <1>5, <1>6, <1>7, OwnerMembers, Zenon

\* A device that the tables place at an address is the address's owner, and
\* is missing only if it is the reporter of a manager that is left out.
LEMMA PlacedOwner ==
    ASSUME NEW c \in Cfgs, NEW a \in Nat, NEW d
    PROVE  /\ AxiOwns(c, d, a) => d \in Owner(c, a) /\ Existing(c, d)
           /\ RegOwns(c, d, a) => /\ d \in Owner(c, a) /\ (Existing(c, d) <=> Present(c, d))
                                  /\ d[1] # "BusErr" => Present(c, d)
  <1>1. \A j, x : j = "External" => Existing(c, <<j, x>>) /\ Present(c, <<j, x>>)
    BY DEF Existing, Present
  <1>2. ASSUME NEW e \in Documented(c), Holds(e, a), e[1] \in Always \union c.feats,
               d = <<e[1], Unit(e, a)>>
        PROVE  d \in Owner(c, a)
    BY <1>2, OwnerMembers, Zenon
  <1>3. /\ c.llcOut[1] \in Nat /\ c.llcOut[2] \in Nat /\ c.slink[1] \in Nat /\ c.slink[2] \in Nat
        /\ c.spm \in Nat /\ c.cores \in Nat \ {0} /\ c.cores < TableSize /\ TableSize \in Nat /\ TableSize <= 64
        /\ "BusErr" \in c.feats => c.cores + 2 <= TableSize
    BY ConfigurationIs DEF Countable
  <1>4. ASSUME NEW f \in {"Dbg", "Dma", "LlcOutConnect", "SerialLink"}
        PROVE  Existing(c, <<f, 0>>) /\ \A e : e[1] = f => Unit(e, a) = 0
    BY SMT DEF Existing, Unit
  <1>5. ASSUME NEW s, NEW e, AxiPlace(c, d, s, e), s <= a, a < e
        PROVE  d \in Owner(c, a) /\ Existing(c, d)
    <2>1. CASE d = <<"Dbg", 0>> /\ s = 0 /\ e = \h4000
      <3> DEFINE w == <<"Dbg", 0, \h4000, {"E"}>>
      <3>1. w \in Documented(c) /\ Holds(w, a) /\ w[1] = "Dbg" /\ "Dbg" \in Always
        BY <2>1, <1>5, SMT DEF Documented, Holds, Always
      <3> HIDE DEF w
      <3> QED BY <2>1, <3>1, <1>2, <1>4, SMT
    <2>2. CASE "LlcOutConnect" \in c.feats /\ d = <<"LlcOutConnect", 0>> /\ s = c.llcOut[1] /\ e = c.llcOut[2]
      <3> DEFINE w == <<"LlcOutConnect", c.llcOut[1], c.llcOut[2] - c.llcOut[1], {"C", "I", "E"}>>
      <3>1. w \in Documented(c) /\ Holds(w, a) /\ w[1] = "LlcOutConnect"
        BY <2>2, <1>3, <1>5, SMT DEF Documented, Holds
      <3> HIDE DEF w
      <3> QED BY <2>2, <3>1, <1>2, <1>4, SMT
    <2>3. CASE "LlcNotBypass" \in c.feats /\ d = <<"LlcOutConnect", 0>> /\ s = AmSpm /\ e = AmSpm + c.spm
      <3>1. d \in Owner(c, a)
        <4>1. d \in SpmAt(c, a)
          BY <2>3, <1>5, SMT DEF SpmAt
        <4> QED BY <4>1, OwnerMembers, Zenon
      <3> QED BY <2>3, <3>1, <1>4, SMT
    <2>4. CASE "LlcNotBypass" \in c.feats /\ d = <<"LlcOutConnect", 0>>
               /\ s = AmSpm + \h400000 /\ e = AmSpm + \h400000 + c.spm
      <3>1. d \in Owner(c, a)
        <4>1. d \in SpmAt(c, a)
          BY <2>4, <1>5, SMT DEF SpmAt
        <4> QED BY <4>1, OwnerMembers, Zenon
      <3> QED BY <2>4, <3>1, <1>4, SMT
    <2>5. CASE "Dma" \in c.feats /\ d = <<"Dma", 0>> /\ s = \h0100000 /\ e = \h0100100
      <3> DEFINE w == <<"Dma", \h0100000, \h100, {}>>
      <3>1. w \in Documented(c) /\ Holds(w, a) /\ w[1] = "Dma"
        BY <2>5, <1>5, SMT DEF Documented, Holds
      <3> HIDE DEF w
      <3> QED BY <2>5, <3>1, <1>2, <1>4, SMT
    <2>6. CASE "SerialLink" \in c.feats /\ d = <<"SerialLink", 0>> /\ s = c.slink[1] /\ e = c.slink[2]
      <3> DEFINE w == <<"SerialLink", c.slink[1], c.slink[2] - c.slink[1], {}>>
      <3>1. w \in Documented(c) /\ Holds(w, a) /\ w[1] = "SerialLink"
        BY <2>6, <1>3, <1>5, SMT DEF Documented, Holds
      <3> HIDE DEF w
      <3> QED BY <2>6, <3>1, <1>2, <1>4, SMT
    <2>7. ASSUME NEW i \in 1 .. Len(c.axiExt), d = <<"External", c.axiExt[i].idx>>,
                 s = c.axiExt[i].start, e = c.axiExt[i].end
          PROVE  d \in Owner(c, a) /\ Existing(c, d)
      <3>1. d \in Owner(c, a)
        BY <2>7, <1>5, OwnerMembers, Zenon
      <3> QED BY <2>7, <3>1, <1>1
    <2> QED BY <2>1, <2>2, <2>3, <2>4, <2>5, <2>6, <2>7, <1>5, SMT DEF AxiPlace
  <1>6. ASSUME NEW f \in Single(c), d = <<f, 0>>, Inside(d, a)
        PROVE  d \in Owner(c, a) /\ Existing(c, d) /\ Present(c, d)
    <2>1. f \in {"Clint", "Plic", "Regs"} \union RegNames /\ f \in Always \union c.feats
      BY SMT DEF Single, Always
    <2>2. PICK e \in Documented(c) : e[1] = f /\ Region(d) = <<e[2], e[3]>>
      <3> DEFINE Listed(w) == w \in Documented(c) /\ w[1] = f /\ Region(d) = <<w[2], w[3]>>
      <3>1. CASE f \in {"Clint", "Plic", "Regs", "Bootrom", "LlcNotBypass", "Uart", "I2c"}
        <4>1. /\ f = "Clint" => Listed(<<"Clint", \h0204000, \h4000, {}>>)
              /\ f = "Plic" => Listed(<<"Plic", \h0400000, \h400000, {}>>)
              /\ f = "Regs" => Listed(<<"Regs", \h0300000, \h100, {}>>)
              /\ f = "Bootrom" => Listed(<<"Bootrom", \h0200000, \h4000, {"E"}>>)
              /\ f = "LlcNotBypass" => Listed(<<"LlcNotBypass", \h0300100, \h100, {}>>)
              /\ f = "Uart" => Listed(<<"Uart", \h0300200, \h100, {}>>)
              /\ f = "I2c" => Listed(<<"I2c", \h0300300, \h100, {}>>)
          BY <1>6, RegionsAre, SMT DEF Documented
        <4> HIDE DEF Listed
        <4>2. \E w : Listed(w)
          BY <3>1, <4>1, SMT
        <4> QED BY <4>2, SMT DEF Listed
      <3>2. CASE f \in {"SpiHost", "Gpio", "SerialLink", "Vga", "Usb", "IrqRouter", "AxiRt"}
        <4>1. /\ f = "SpiHost" => Listed(<<"SpiHost", \h0300400, \h100, {}>>)
              /\ f = "Gpio" => Listed(<<"Gpio", \h0300500, \h100, {}>>)
              /\ f = "SerialLink" => Listed(<<"SerialLink", \h0300600, \h100, {}>>)
              /\ f = "Vga" => Listed(<<"Vga", \h0300700, \h100, {}>>)
              /\ f = "Usb" => Listed(<<"Usb", \h0300800, \h100, {}>>)
              /\ f = "IrqRouter" => Listed(<<"IrqRouter", \h0208000, \h4000, {}>>)
              /\ f = "AxiRt" => Listed(<<"AxiRt", \h020C000, \h4000, {}>>)
          BY <1>6, RegionsAre, SMT DEF Documented
        <4> HIDE DEF Listed
        <4>2. \E w : Listed(w)
          BY <3>2, <4>1, SMT
        <4> QED BY <4>2, SMT DEF Listed
      <3> QED BY <2>1, <3>1, <3>2, SMT DEF RegNames
    <2>3. f # "Clic" /\ f # "BusErr"
      BY <2>1, SMT DEF RegNames
    <2>4. Unit(e, a) = 0 /\ Holds(e, a)
      BY <2>2, <2>3, <1>6, SMT DEF Unit, Holds, Inside
    <2>5. d \in Owner(c, a)
      BY <2>1, <2>2, <2>4, <1>2, <1>6, Zenon
    <2> QED BY <2>3, <2>5, <1>6, SMT DEF Existing, Present
  <1>7. ASSUME "Clic" \in c.feats, NEW j \in 0 .. c.cores - 1, d = <<"Clic", j>>, Inside(d, a)
        PROVE  d \in Owner(c, a) /\ Existing(c, d) /\ Present(c, d)
    <2> DEFINE w == <<"Clic", \h0800000, \h400000, {}>>
    <2>1. j \in Nat /\ j < 64 /\ j < c.cores
      BY <1>3, <1>7
    <2>2. \h0800000 + j * \h4000 <= a /\ a < \h0800000 + j * \h4000 + \h4000
      BY <2>1, <1>7, RegionsAre, SMT DEF Inside
    <2>3. (a - \h0800000) \div \h4000 = j
      BY <2>1, <2>2, SMT
    <2>4. w \in Documented(c) /\ Holds(w, a) /\ w[1] = "Clic" /\ Unit(w, a) = j
      BY <2>1, <2>2, <2>3, SMT DEF Documented, Holds, Unit
    <2> HIDE DEF w
    <2>5. d \in Owner(c, a)
      BY <2>4, <1>2, <1>7, SMT
    <2> QED BY <2>1, <2>5, <1>7, SMT DEF Existing, Present
  <1>8. ASSUME "BusErr" \in c.feats, NEW j \in 0 .. c.cores + 1, d = <<"BusErr", j>>, Inside(d, a)
        PROVE  d \in Owner(c, a) /\ (Existing(c, d) <=> Present(c, d)) /\ d[1] = "BusErr"
    <2> DEFINE w == <<"BusErr", \h0300900, \h100, {}>>
    <2>1. j \in Nat /\ j < 64 /\ j < 2 + c.cores
      BY <1>3, <1>8
    <2>2. \h0300900 + j * 4 <= a /\ a < \h0300900 + j * 4 + 4
      BY <2>1, <1>8, RegionsAre, SMT DEF Inside
    <2>3. (a - \h0300900) \div 4 = j
      BY <2>1, <2>2, SMT
    <2>4. w \in Documented(c) /\ Holds(w, a) /\ w[1] = "BusErr" /\ Unit(w, a) = j
      BY <2>1, <2>2, <2>3, SMT DEF Documented, Holds, Unit
    <2> HIDE DEF w
    <2>5. d \in Owner(c, a)
      BY <2>4, <1>2, <1>8, SMT
    <2> QED BY <2>1, <2>5, <1>8, SMT DEF Existing
  <1>9. ASSUME NEW s, NEW e, RegPlace(c, d, s, e), s <= a, a < e
        PROVE  /\ d \in Owner(c, a) /\ (Existing(c, d) <=> Present(c, d))
               /\ d[1] # "BusErr" => Present(c, d)
    <2>1. CASE Device(c, d) /\ s = Region(d)[1] /\ e = Region(d)[1] + Region(d)[2]
      <3>1. Inside(d, a)
        BY <2>1, <1>9, Zenon DEF Inside
      <3> QED BY <2>1, <3>1, <1>6, <1>7, <1>8, Zenon DEF Device
    <2>2. ASSUME NEW i \in 1 .. Len(c.regExt), d = <<"External", c.regExt[i].idx>>,
                 s = c.regExt[i].start, e = c.regExt[i].end
          PROVE  d \in Owner(c, a) /\ Existing(c, d) /\ Present(c, d)
      <3>1. d \in Owner(c, a)
        BY <2>2, <1>9, OwnerMembers, Zenon
      <3> QED BY <2>2, <3>1, <1>1
    <2> QED BY <2>1, <2>2, <1>9, Zenon DEF RegPlace
  <1>10. AxiOwns(c, d, a) => d \in Owner(c, a) /\ Existing(c, d)
    BY <1>5, Zenon DEF AxiOwns
  <1>11. RegOwns(c, d, a) => /\ d \in Owner(c, a) /\ (Existing(c, d) <=> Present(c, d))
                             /\ d[1] # "BusErr" => Present(c, d)
    BY <1>9, Zenon DEF RegOwns
  <1> QED BY <1>10, <1>11

\* What an access to address a reaches.
Destination(c, a) ==
    LET w == Decoded(AxiMap(c), a)
        q == Decoded(RegMap(c), a)
    IN  IF w = None THEN {<<"DecodeError", 0>>}
        ELSE IF w = 1 THEN RegDevices(c, IF q = None THEN DefaultPort ELSE q)
        ELSE AxiDevices(c, w)

Lands(c, a) ==
    \/ (\E x : Destination(c, a) = {x}) /\ \A d : ~Owns(c, d, a)
    \/ \E d : AxiOwns(c, d, a) /\ Destination(c, a) = {d}
    \/ \E d : RegOwns(c, d, a) /\ Destination(c, a) = Connected(c, d)

\* An access lands at the device that owns its address; without one, at the
\* crossbar's or the demultiplexer's error responder.
LEMMA DestinationIs ==
    ASSUME NEW c \in Cfgs, NEW a \in Nat
    PROVE  Lands(c, a)
  <1> DEFINE w == Decoded(AxiMap(c), a)
             q == Decoded(RegMap(c), a)
  <1>1. /\ \A r : Has(AxiMap(c), r) <=> AxiRule(c, r)
        /\ \/ w = None /\ \A r : Has(AxiMap(c), r) => ~Matches(r, a)
           \/ \E r : Has(AxiMap(c), r) /\ Matches(r, a) /\ w = r.idx
    <2>1. Part(AxiMap(c), 7 + Len(c.axiExt) + Len(c.regExt)) /\ \A r : Has(AxiMap(c), r) <=> AxiRule(c, r)
      BY AxiMapIs
    <2>2. 7 + Len(c.axiExt) + Len(c.regExt) \in Nat
      <3>1. Len(c.axiExt) \in Nat /\ Len(c.regExt) \in Nat
        BY ExternalsAre
      <3>2. \A x, y \in Nat : 7 + x + y \in Nat
        OBVIOUS
      <3> QED BY <3>1, <3>2, Zenon
    <2> QED BY <2>1, <2>2, DecodedIs, Zenon
  <1>2. /\ \A r : Has(RegMap(c), r) <=> RegRule(c, r)
        /\ \/ q = None /\ \A r : Has(RegMap(c), r) => ~Matches(r, a)
           \/ \E r : Has(RegMap(c), r) /\ Matches(r, a) /\ q = r.idx
    <2>1. PICK n \in Nat : Part(RegMap(c), n) /\ \A r : Has(RegMap(c), r) <=> RegRule(c, r)
      BY RegMapIs, Zenon
    <2> QED BY <2>1, DecodedIs, Zenon
  <1>3. Destination(c, a) = IF w = None THEN {<<"DecodeError", 0>>}
                            ELSE IF w = 1 THEN RegDevices(c, IF q = None THEN DefaultPort ELSE q)
                            ELSE AxiDevices(c, w)
    BY Zenon DEF Destination
  <1> HIDE DEF w, q
  <1>4. ASSUME NEW s, NEW e, s <= a, a < e, HasRule(c, s, e) PROVE \E r : AxiRule(c, r) /\ Matches(r, a)
    BY <1>4, Zenon DEF HasRule, Matches
  <1>5. ASSUME NEW d, AxiOwns(c, d, a) PROVE \E r : AxiRule(c, r) /\ Matches(r, a)
    <2>1. PICK s, e : AxiPlace(c, d, s, e) /\ s <= a /\ a < e
      BY <1>5, Zenon DEF AxiOwns
    <2>2. HasRule(c, s, e)
      BY <2>1, AxiPlacesMapped, Zenon
    <2> QED BY <2>1, <2>2, <1>4, Zenon
  <1>6. ASSUME NEW d, RegOwns(c, d, a)
        PROVE  (\E r : AxiRule(c, r) /\ Matches(r, a)) /\ \E r : RegRule(c, r) /\ Matches(r, a)
    <2>1. PICK s, e : RegPlace(c, d, s, e) /\ s <= a /\ a < e
      BY <1>6, Zenon DEF RegOwns
    <2>2. s \in Nat /\ e \in Nat /\ Left(c, s, e)
      BY <2>1, RegApart, Zenon
    <2>3. PICK t, f : RegionPlace(c, t, f) /\ t <= s /\ e <= f
      BY <2>2, Zenon DEF Left
    <2>4. t \in Int /\ f \in Int
      BY <2>3, RegionBounds, Zenon
    <2>5. t <= a /\ a < f
      BY <2>1, <2>2, <2>3, <2>4
    <2>6. HasRule(c, t, f)
      BY <2>3, AxiPlacesMapped, Zenon
    <2>7. PICK r : RegRule(c, r) /\ r.start = s /\ r.end = e
      <3>1. HasRegRule(c, s, e)
        BY <2>1, RegPlacesMapped, Zenon
      <3> QED BY <3>1, Zenon DEF HasRegRule
    <2>8. Matches(r, a)
      BY <2>1, <2>7, Zenon DEF Matches
    <2> QED BY <2>5, <2>6, <2>7, <2>8, <1>4, Zenon
  <1>7. CASE w = None
    <2>1. \A r : AxiRule(c, r) => ~Matches(r, a)
      <3>1. \A r : AxiRule(c, r) => AxiRoute(c, r)
        BY AxiRuleRoutes
      <3>2. \A r : AxiRoute(c, r) => r.idx # None
        BY SMT DEF AxiRoute, None
      <3> QED BY <3>1, <3>2, <1>1, <1>7, Zenon
    <2>2. \A d : ~Owns(c, d, a)
      BY <2>1, <1>5, <1>6, Zenon DEF Owns
    <2> QED BY <2>2, <1>3, <1>7, Zenon DEF Lands
  <1>8. CASE w # None
    <2>1. PICK r : AxiRule(c, r) /\ Matches(r, a) /\ w = r.idx
      BY <1>1, <1>8, Zenon
    <2>2. AxiRoute(c, r)
      BY <2>1, AxiRuleRoutes, Zenon
    <2>3. CASE r.idx = 1 /\ RegionPlace(c, r.start, r.end)
      <3>1. \A d : ~AxiOwns(c, d, a)
        <4> SUFFICES ASSUME NEW d, AxiOwns(c, d, a) PROVE FALSE
          OBVIOUS
        <4>1. PICK s, e : AxiPlace(c, d, s, e) /\ s <= a /\ a < e
          BY Zenon DEF AxiOwns
        <4>2. s \in Nat /\ e \in Nat
          BY <4>1, AxiApart, Zenon
        <4>3. \A t, f : RegionPlace(c, t, f) => Disjoint(s, e, t, f)
          BY <4>1, AxiApart, Zenon
        <4>4. Disjoint(s, e, r.start, r.end)
          BY <4>3, <2>3, Zenon
        <4>5. r.start \in Int /\ r.end \in Int
          BY <2>3, RegionBounds, Zenon
        <4>6. r.start <= a /\ a < r.end
          BY <2>1, Zenon DEF Matches
        <4> QED BY <4>1, <4>2, <4>4, <4>5, <4>6 DEF Disjoint
      <3>2. Destination(c, a) = RegDevices(c, IF q = None THEN DefaultPort ELSE q)
        BY <2>1, <2>3, <1>3, <1>8, Zenon
      <3>3. \A x : RegRule(c, x) => RegRoute(c, x)
        BY RegRuleRoutes
      <3>4. CASE \A x : RegRule(c, x) => ~Matches(x, a)
        <4>1. \A d : ~Owns(c, d, a)
          BY <3>1, <3>4, <1>6, Zenon DEF Owns
        <4>2. q = None
          BY <3>4, <1>2, Zenon
        <4>3. Destination(c, a) = {<<"Err", 0>>}
          BY <4>2, <3>2, RegDevicesAre, Zenon DEF DefaultPort
        <4> QED BY <4>1, <4>3, Zenon DEF Lands
      <3>5. CASE ~ \A x : RegRule(c, x) => ~Matches(x, a)
        <4>1. PICK x : RegRule(c, x) /\ Matches(x, a) /\ q = x.idx
          BY <3>5, <1>2, Zenon
        <4>2. PICK d : RegPlace(c, d, x.start, x.end) /\ RegDevices(c, q) = Connected(c, d)
          BY <4>1, <3>3, Zenon DEF RegRoute
        <4>3. RegOwns(c, d, a)
          BY <4>1, <4>2, Zenon DEF RegOwns, Matches
        <4>4. q # None
          <5>1. \A y : RegRule(c, y) => y.idx # None
            <6>1. PICK n \in Nat : Part(RegMap(c), n) /\ \A y : Has(RegMap(c), y) <=> RegRule(c, y)
              BY RegMapIs, Zenon
            <6>2. \A y : Has(RegMap(c), y) => y \in RuleType
              BY <6>1 DEF Part, Has
            <6>3. \A y \in RuleType : y.idx # None
              BY DEF RuleType, None
            <6> QED BY <6>1, <6>2, <6>3
          <5> QED BY <5>1, <4>1
        <4>5. Destination(c, a) = Connected(c, d)
          BY <4>2, <4>4, <3>2, Zenon
        <4> QED BY <4>3, <4>5, Zenon DEF Lands
      <3> QED BY <3>4, <3>5
    <2>4. CASE r.idx # 1 /\ \E d : AxiPlace(c, d, r.start, r.end) /\ AxiDevices(c, r.idx) = {d}
      <3>1. PICK d : AxiPlace(c, d, r.start, r.end) /\ AxiDevices(c, w) = {d}
        BY <2>1, <2>4, Zenon
      <3>2. AxiOwns(c, d, a)
        BY <2>1, <3>1, Zenon DEF AxiOwns, Matches
      <3>3. Destination(c, a) = {d}
        BY <2>1, <2>4, <3>1, <1>3, <1>8, Zenon
      <3> QED BY <3>2, <3>3, Zenon DEF Lands
    <2> QED BY <2>2, <2>3, <2>4, Zenon DEF AxiRoute
  <1> QED BY <1>7, <1>8

-----------------------------------------------------------------------------
MapInv ==
    /\ cfg \in Cfgs /\ addr \in Nat
    /\ at = "demux" => Decoded(AxiMap(cfg), addr) = 1
    /\ at = "done" => reached = Destination(cfg, addr)

\* An access that has been answered was answered at the destination of its
\* address; one at the demultiplexer was sent there by the crossbar's map.
THEOREM MapInvariance == MapSpec => []MapInv
  <1>1. MapInit => MapInv
    BY Zenon, 0 \in Nat DEF MapInit, MapInv
  <1>2. MapInv /\ [MapNext]_mapVars => MapInv'
    <2> SUFFICES ASSUME MapInv, [MapNext]_mapVars PROVE MapInv'
      OBVIOUS
    <2>1. ASSUME NEW a \in Addrs, Issue(a) PROVE MapInv'
      <3>1. a \in Nat
        BY SocAssumption
      <3> QED BY <2>1, <3>1 DEF Issue, MapInv
    <2>2. CASE XbarDecode
      <3> DEFINE w == Decoded(AxiMap(cfg), addr)
      <3>1. CASE w = None
        <4>1. at' = "done" /\ reached' = {<<"DecodeError", 0>>} /\ cfg' = cfg /\ addr' = addr
          BY <2>2, <3>1 DEF XbarDecode, None
        <4>2. Destination(cfg, addr) = {<<"DecodeError", 0>>}
          BY <3>1, Zenon DEF Destination
        <4> QED BY <4>1, <4>2, SMT DEF MapInv
      <3>2. CASE w # None /\ w = 1
        <4>1. at' = "demux" /\ cfg' = cfg /\ addr' = addr
          BY <2>2, <3>2 DEF XbarDecode, None
        <4> QED BY <4>1, <3>2 DEF MapInv
      <3>3. CASE w # None /\ w # 1
        <4>1. at' = "done" /\ reached' = AxiDevices(cfg, w) /\ cfg' = cfg /\ addr' = addr
          BY <2>2, <3>3 DEF XbarDecode
        <4>2. Destination(cfg, addr) = AxiDevices(cfg, w)
          BY <3>3, Zenon DEF Destination
        <4> QED BY <4>1, <4>2, SMT DEF MapInv
      <3> QED BY <3>1, <3>2, <3>3
    <2>3. CASE DemuxDecode
      <3> DEFINE q == Decoded(RegMap(cfg), addr)
      <3>1. /\ at = "demux" /\ at' = "done" /\ cfg' = cfg /\ addr' = addr
            /\ reached' = RegDevices(cfg, IF q = None THEN DefaultPort ELSE q)
        BY <2>3, Zenon DEF DemuxDecode
      <3>2. Decoded(AxiMap(cfg), addr) = 1 /\ 1 # None
        BY <3>1 DEF MapInv, None
      <3>3. Destination(cfg, addr) = RegDevices(cfg, IF q = None THEN DefaultPort ELSE q)
        BY <3>2, Zenon DEF Destination
      <3> QED BY <3>1, <3>3, SMT DEF MapInv
    <2>4. CASE UNCHANGED mapVars
      BY <2>4 DEF mapVars, MapInv
    <2> QED BY <2>1, <2>2, <2>3, <2>4 DEF MapNext
  <1> QED BY <1>1, <1>2, PTL DEF MapSpec

\* An access to a device's documented address reaches that device and no
\* other, for every configuration laid out as documented
\* (cheshire_pkg.sv:342-441, cheshire_soc.sv:395-435).
THEOREM AccessDelivered == MapSpec => []Delivered
  <1>1. MapInv => Delivered
    <2> SUFFICES ASSUME MapInv, at = "done", NEW o \in Owner(cfg, addr), Existing(cfg, o)
                 PROVE  reached = {d \in Owner(cfg, addr) : Existing(cfg, d)}
      BY Zenon DEF Delivered
    <2>1. cfg \in Cfgs /\ addr \in Nat /\ reached = Destination(cfg, addr)
      BY Zenon DEF MapInv
    <2>2. Lands(cfg, addr) /\ Owns(cfg, o, addr)
      BY <2>1, DestinationIs, OwnerPlaced, Zenon
    <2>3. \A d \in Owner(cfg, addr) : Existing(cfg, d) => Owns(cfg, d, addr)
      BY <2>1, OwnerPlaced, Zenon
    <2>4. ASSUME NEW d, Owns(cfg, d, addr) PROVE d = o
      BY <2>1, <2>2, <2>4, OneOwner, Zenon
    <2>5. {d \in Owner(cfg, addr) : Existing(cfg, d)} = {o}
      BY <2>3, <2>4
    <2>6. ASSUME NEW d, RegOwns(cfg, d, addr), Destination(cfg, addr) = Connected(cfg, d)
          PROVE  Destination(cfg, addr) = {o}
      <3>1. d = o
        BY <2>6, <2>4, Zenon DEF Owns
      <3>2. Present(cfg, d)
        BY <2>1, <2>6, <3>1, PlacedOwner, Zenon
      <3> QED BY <2>6, <3>1, <3>2, Zenon DEF Connected
    <2>7. ASSUME NEW d, AxiOwns(cfg, d, addr) PROVE d = o
      BY <2>7, <2>4, Zenon DEF Owns
    <2>8. Destination(cfg, addr) = {o}
      BY <2>2, <2>6, <2>7, Zenon DEF Lands
    <2> QED BY <2>1, <2>5, <2>8, Zenon
  <1> QED BY <1>1, MapInvariance, PTL

\* Every access is answered, except at the reporter of a VGA controller or
\* DMA that is left out.
THEOREM AccessAnswered == MapSpec => []Answered
  <1>1. MapInv => Answered
    <2> SUFFICES ASSUME MapInv, at = "done",
                        \A d \in Owner(cfg, addr) : d[1] = "BusErr" => Present(cfg, d)
                 PROVE  reached # {}
      BY Zenon DEF Answered
    <2>1. cfg \in Cfgs /\ addr \in Nat /\ reached = Destination(cfg, addr)
      BY Zenon DEF MapInv
    <2>2. Lands(cfg, addr)
      BY <2>1, DestinationIs, Zenon
    <2>3. ASSUME NEW d, RegOwns(cfg, d, addr) PROVE Connected(cfg, d) = {d}
      <3>1. d \in Owner(cfg, addr) /\ (d[1] # "BusErr" => Present(cfg, d))
        BY <2>1, <2>3, PlacedOwner, Zenon
      <3> QED BY <3>1, Zenon DEF Connected
    <2>4. \E x : Destination(cfg, addr) = {x}
      BY <2>2, <2>3, Zenon DEF Lands
    <2> QED BY <2>1, <2>4
  <1> QED BY <1>1, MapInvariance, PTL

\* Registers are neither cached nor read ahead of use, only the ROMs among
\* them hold code, DRAM is plain memory, and the external region is split
\* without a gap (cheshire_pkg.sv:483-509).
THEOREM AttributesCorrect == MapSpec => []AttributesSound
  <1>1. MapInv => AttributesSound
    <2> SUFFICES ASSUME MapInv PROVE DocumentedAttributes /\ ExternalSplit
      BY Zenon DEF AttributesSound
    <2>1. cfg \in Cfgs /\ addr \in Nat
      BY Zenon DEF MapInv
    <2>2. DocumentedAttributes
      BY <2>1, AttributedSound, Zenon DEF DocumentedAttributes, Flagged
    <2>3. ExternalSplit
      BY <2>1, SplitSound, SMT DEF ExternalSplit
    <2> QED BY <2>2, <2>3
  <1> QED BY <1>1, MapInvariance, PTL
=============================================================================
