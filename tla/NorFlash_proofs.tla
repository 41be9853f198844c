---------------------------- MODULE NorFlash_proofs ----------------------------
(***************************************************************************)
(* Proofs about NorFlash for any geometry, images and faults: a run of the *)
(* flash tool changes nothing but the sectors it is given, and, if the     *)
(* flash erases whole sectors, one that reports 0 has stored the image.    *)
(***************************************************************************)
EXTENDS NorFlash, SequenceTheorems, TLAPS

Running == {"wen", "issue", "poll"}

\* The sector of the flash that sector s of a run reaches, and its pages.
Phys(s) == (req.sector + s) % NumSectors
First(s) == Phys(s) * Sector
SectorPages(s) == First(s) .. First(s) + Sector - 1
InReach(s) == wraps \/ req.sector + s < NumSectors

\* Where the driver looks for small sectors.
SubFirst(s) == First(s) + IF Alignment(s) = Align - 1 THEN Sector - Subs ELSE 0

Types == /\ pc \in Running \union {"idle", "read"}
         /\ flash \in [Pages -> Int]
         /\ overlay \in {"bottom", "top", "none"}
         /\ erase256 \in BOOLEAN /\ wraps \in BOOLEAN /\ wel \in BOOLEAN /\ wip \in BOOLEAN /\ err \in BOOLEAN
         /\ req.op = "flash" => req \in Runs
         /\ pc = "read" => req.op = "read"

Legal(c) == /\ c \in [op : SectorOps \union {"4bam", "cr3v"}, s : 0 .. num_sectors - 1, i : Nat]
            /\ c.op = "sub" => c.i < Subs
            /\ c.op = "prog" => c.i < Sector

Commands == /\ pc \in Running => req.op = "flash" /\ Legal(cmd)
            /\ pc = "poll" => cmd.op # "4bam"

Status == /\ wip => pc = "poll" /\ (cmd.op \in SectorOps => InReach(cmd.s))
          /\ pc = "issue" => wel

\* The run's sectors before s are stored, as far as they lie in the flash.
Stored(f, s) == (wraps => num_sectors <= NumSectors) =>
    \A p \in 0 .. (s * Sector) - 1 :
        (req.sector * Sector) + p \in Pages => f[(req.sector * Sector) + p] = p

\* The sector of command c is as the command needs it: small sectors before it
\* and, at an erase, all of its sector are erased, and at a program the pages
\* before it are stored and the others are blank.
Prepared(f, c) ==
    /\ c.op = "sub" => \A j \in 0 .. c.i - 1 :
                          SubFirst(c.s) + j \in Overlay => f[SubFirst(c.s) + j] = Blank
    /\ c.op = "erase" => \A a \in Overlay \cap SectorPages(c.s) : f[a] = Blank
    /\ c.op = "prog" => \A j \in 0 .. Sector - 1 :
                          f[First(c.s) + j] = IF j < c.i THEN (c.s * Sector) + j ELSE Blank

\* The flash f is as command c needs it, and earlier sectors are stored.
Ready(f, c) == c.op \in SectorOps =>
    /\ Stored(f, c.s)
    /\ c.s < num_sectors /\ InReach(c.s) => Prepared(f, c)

\* A flash that erases whole sectors is ready for the command under way or,
\* once that is complete without an error, for the next one.
Progress == erase256 =>
    /\ pc \in {"wen", "issue"} \/ (pc = "poll" /\ wip /\ ~err) => Ready(flash, cmd)
    /\ pc = "poll" /\ ~wip /\ ~err => Ready(flash, After(cmd))

IInv == Types /\ Commands /\ Status /\ Progress /\ OthersKept /\ ImageStored

-----------------------------------------------------------------------------
(* Numbers.                                                                *)

LEMMA Constants ==
  /\ NumSectors \in Nat \ {0} /\ Sector \in Nat \ {0} /\ SectorBytes \in Nat \ {0}
  /\ Block \in 1 .. Sector /\ Sector % Block = 0 /\ Subs \in 1 .. Block
  /\ Align \in Nat \ {0, 1} /\ NumSectors % Align = 0
  /\ Images \subseteq Nat /\ Copies \subseteq 0 .. SectorBytes - 1
  BY NorAssumption

LEMMA Division ==
  ASSUME NEW m \in Nat \ {0}, NEW a \in Nat
  PROVE  a \div m \in Nat /\ a % m \in 0 .. m - 1 /\ a = m * (a \div m) + (a % m)
  OBVIOUS

LEMMA Monotone ==
  ASSUME NEW m \in Nat \ {0}, NEW x \in Int, NEW y \in Int, x + 1 <= y
  PROVE  (m * x) + m <= m * y
  <1>1. m * (x + 1) <= m * y
    OBVIOUS
  <1>2. m * (x + 1) = (m * x) + m
    OBVIOUS
  <1> QED
    BY <1>1, <1>2

LEMMA Unique ==
  ASSUME NEW m \in Nat \ {0}, NEW x \in Int, NEW y \in Int,
         NEW c \in 0 .. m - 1, NEW d \in 0 .. m - 1, (m * x) + c = (m * y) + d
  PROVE  x = y /\ c = d
  <1>1. m * x \in Int /\ m * y \in Int
    OBVIOUS
  <1>2. ~(x + 1 <= y)
    BY <1>1, Monotone
  <1>3. ~(y + 1 <= x)
    BY <1>1, Monotone
  <1> QED
    BY <1>1, <1>2, <1>3

LEMMA Rest ==
  ASSUME NEW m \in Nat \ {0}, NEW q \in Int, NEW c \in 0 .. m - 1, (m * q) + c \in Nat
  PROVE  ((m * q) + c) % m = c
  <1> DEFINE x == ((m * q) + c) \div m
             y == ((m * q) + c) % m
  <1>1. x \in Nat /\ y \in 0 .. m - 1 /\ (m * q) + c = (m * x) + y
    BY Division
  <1> HIDE DEF x, y
  <1>2. y = c
    BY <1>1, Unique
  <1> QED
    BY <1>2 DEF y

LEMMA Sums ==
  ASSUME NEW x \in Nat, NEW y \in Nat
  PROVE  /\ x * Sector \in Nat /\ y * Sector \in Nat
         /\ (x + y) * Sector = (x * Sector) + (y * Sector)
         /\ (x + 1) * Sector = (x * Sector) + Sector
         /\ x < y => (x * Sector) + Sector <= y * Sector
  <1> DEFINE m == Sector
  <1>1. m \in Nat \ {0}
    BY Constants
  <1> HIDE DEF m
  <1>2. /\ x * m \in Nat /\ y * m \in Nat
        /\ (x + y) * m = (x * m) + (y * m) /\ (x + 1) * m = (x * m) + m
        /\ x * m = m * x /\ y * m = m * y
    BY <1>1
  <1>3. x < y => (x * m) + m <= y * m
    BY <1>1, <1>2, Monotone
  <1> QED
    BY <1>2, <1>3 DEF m

-----------------------------------------------------------------------------
(* Geometry.                                                               *)

\* The sectors of a run hold what it is asked to store, and are those that it
\* may change.
LEMMA Sizes ==
  ASSUME req \in Runs
  PROVE  /\ req.sector \in Nat /\ req.sector < NumSectors /\ num_sectors \in Nat \ {0}
         /\ Expected \in Nat /\ num_sectors <= Expected
         /\ Asked \in Nat /\ Asked <= num_sectors * Sector
  <1> DEFINE m == Sector
             g == req.img
             q == g \div m
             e == g % m
             k == (g + m - 1) \div m
             d == (g + m - 1) % m
  <1>1. /\ req.sector \in Nat /\ g \in Nat /\ m \in Nat \ {0}
        /\ req.copy \in 0 .. SectorBytes - 1 /\ req.sector < NumSectors
    <2>1. /\ req.sector \in 0 .. NumSectors - 1 /\ g \in Images /\ req.copy \in Copies
      BY DEF Runs
    <2>3. req.sector \in Nat /\ req.sector < NumSectors /\ m \in Nat \ {0}
      BY <2>1, Constants
    <2>4. g \in Nat /\ req.copy \in 0 .. SectorBytes - 1
      BY <2>1, Constants
    <2> QED
      BY <2>3, <2>4
  <1>2. q \in Nat /\ e \in 0 .. m - 1 /\ g = (m * q) + e
    <2> HIDE DEF m, g
    <2> QED
      BY <1>1, Division
  <1>3. k \in Nat /\ d \in 0 .. m - 1 /\ g + m - 1 = (m * k) + d
    <2>1. g + m - 1 \in Nat
      <3> HIDE DEF m, g
      <3> QED
        BY <1>1
    <2> HIDE DEF m, g
    <2> QED
      BY <1>1, <2>1, Division
  <1>4. CASE req.copy = 0
    <2>1. num_sectors = q + 1 /\ Expected = k + (IF e = 0 THEN 1 ELSE 0) /\ Asked = g
      BY <1>1, <1>4 DEF num_sectors, Sectors, Expected, Asked
    <2> HIDE DEF m, g, q, e, k, d
    <2>2. (m * (q + 1)) = (m * q) + m /\ (q + 1) * m = (m * q) + m /\ m * q \in Nat
      BY <1>1, <1>2
    <2>3. g < (q + 1) * m
      BY <1>1, <1>2, <2>2
    <2>4. CASE e = 0
      <3>1. (m * q) + (m - 1) = (m * k) + d
        BY <1>1, <1>2, <1>3, <2>4
      <3>2. m - 1 \in 0 .. m - 1
        BY <1>1
      <3>3. q = k
        BY <1>1, <1>2, <1>3, <3>1, <3>2, Unique
      <3> QED
        BY <1>1, <1>2, <1>3, <1>4, <2>1, <2>3, <2>4, <3>3 DEF g, m
    <2>5. CASE e # 0
      <3>1. (m * (q + 1)) + (e - 1) = (m * k) + d
        BY <1>1, <1>2, <1>3, <2>2, <2>5
      <3>2. e - 1 \in 0 .. m - 1 /\ q + 1 \in Int
        BY <1>1, <1>2, <2>5
      <3>3. q + 1 = k
        BY <1>1, <1>2, <1>3, <3>1, <3>2, Unique
      <3> QED
        BY <1>1, <1>2, <1>3, <1>4, <2>1, <2>3, <2>5, <3>3 DEF g, m
    <2> QED
      BY <2>4, <2>5
  <1>5. CASE req.copy # 0
    <2>1. req.copy \div SectorBytes = 0
      <3> DEFINE c == req.copy
                 b == SectorBytes
      <3>1. b \in Nat \ {0} /\ c \in 0 .. b - 1
        BY <1>1, Constants
      <3> HIDE DEF c, b
      <3>2. c \in Nat
        BY <3>1
      <3>3. c \div b \in Nat /\ c % b \in 0 .. b - 1 /\ c = (b * (c \div b)) + (c % b)
        BY <3>1, <3>2, Division
      <3>4. (b * (c \div b)) + (c % b) = (b * 0) + c /\ 0 \in Int
        BY <3>1, <3>3
      <3>5. c \div b = 0
        BY <3>1, <3>3, <3>4, Unique
      <3> QED
        BY <3>5 DEF c, b
    <2>2. num_sectors = 1 /\ Expected = req.copy /\ Asked = Min2(g, m)
      BY <1>1, <1>5, <2>1, Constants DEF num_sectors, Sectors, Expected, Asked
    <2> HIDE DEF m, g
    <2>3. Asked \in Nat /\ Asked <= 1 * m
      BY <1>1, <2>2 DEF Min2
    <2> QED
      BY <1>1, <1>5, <2>2, <2>3 DEF m
  <1> QED
    BY <1>4, <1>5

\* Addresses behind the end of the flash.
LEMMA Wrapping ==
  ASSUME NEW u \in Nat, NEW j \in 0 .. Sector - 1
  PROVE  /\ u % NumSectors \in 0 .. NumSectors - 1
         /\ ((u * Sector) + j) % Size = ((u % NumSectors) * Sector) + j
         /\ u < NumSectors => u % NumSectors = u
         /\ NumSectors <= u /\ u < NumSectors + NumSectors => u % NumSectors = u - NumSectors
  <1> DEFINE n == NumSectors
             m == Sector
             q == u \div n
             r == u % n
  <1>1. n \in Nat \ {0} /\ m \in Nat \ {0} /\ j \in 0 .. m - 1
    BY Constants
  <1>2. q \in Nat /\ r \in 0 .. n - 1 /\ u = (n * q) + r
    <2> HIDE DEF n
    <2> QED
      BY <1>1, Division
  <1>3. Size = n * m
    BY DEF Size
  <1> HIDE DEF n, m, q, r
  <1>4. n * m \in Nat \ {0} /\ u * m \in Nat /\ r * m \in Nat
    BY <1>1, <1>2
  <1>5. u * m = ((n * m) * q) + (r * m)
    BY <1>1, <1>2
  <1>6. (r * m) + j \in 0 .. (n * m) - 1
    <2>1. (m * r) + m <= m * n
      BY <1>1, <1>2, Monotone
    <2>2. m * r = r * m /\ m * n = n * m
      BY <1>1, <1>2
    <2> QED
      BY <1>1, <1>4, <2>1, <2>2
  <1>7. ((u * m) + j) % (n * m) = (r * m) + j
    <2> DEFINE k == n * m
               c == (r * m) + j
    <2>1. (u * m) + j = (k * q) + c
      <3> DEFINE a == (n * m) * q
                 b == r * m
                 d == u * m
      <3>1. a \in Int /\ b \in Int /\ j \in Int /\ d = a + b
        BY <1>1, <1>2, <1>4, <1>5
      <3> HIDE DEF a, b, d
      <3>2. d + j = a + (b + j)
        BY <3>1
      <3> QED
        BY <3>2 DEF a, b, d
    <2>2. (u * m) + j \in Nat
      BY <1>1, <1>4
    <2>3. k \in Nat \ {0} /\ c \in 0 .. k - 1 /\ q \in Int
      BY <1>2, <1>4, <1>6
    <2> HIDE DEF k, c
    <2>4. ((k * q) + c) % k = c
      BY <2>1, <2>2, <2>3, Rest
    <2> QED
      BY <2>1, <2>4 DEF k, c
  <1>8. u < n => r = u
    <2> SUFFICES ASSUME u < n PROVE r = u
      OBVIOUS
    <2>1. (n * 0) + u = u /\ u \in 0 .. n - 1 /\ 0 \in Int
      BY <1>1
    <2> QED
      BY <1>1, <2>1, Rest DEF r
  <1>9. n <= u /\ u < n + n => r = u - n
    <2> SUFFICES ASSUME n <= u, u < n + n PROVE r = u - n
      OBVIOUS
    <2>1. (n * 1) + (u - n) = u /\ u - n \in 0 .. n - 1 /\ 1 \in Int
      BY <1>1
    <2> QED
      BY <1>1, <2>1, Rest DEF r
  <1> QED
    BY <1>1, <1>2, <1>3, <1>7, <1>8, <1>9 DEF n, m, r

\* Where a run's sectors lie.
LEMMA Place ==
  ASSUME req \in Runs, NEW s \in 0 .. num_sectors - 1
  PROVE  /\ Phys(s) \in 0 .. NumSectors - 1 /\ First(s) \in Nat /\ SectorAddr(s) \in Nat
         /\ req.sector * Sector \in Nat /\ s * Sector \in Nat /\ Size \in Nat
         /\ (s + 1) * Sector = (s * Sector) + Sector
         /\ SectorPages(s) \subseteq Pages /\ SectorPages(s) \subseteq Written
         /\ \A j \in 0 .. Sector - 1 :
              /\ (SectorAddr(s) + j) % Size = First(s) + j
              /\ SectorAddr(s) + j \in Pages <=> req.sector + s < NumSectors
         /\ SectorAddr(s) = (req.sector * Sector) + (s * Sector)
         /\ req.sector + s < NumSectors => First(s) = SectorAddr(s)
  <1> DEFINE m == Sector
             u == req.sector
             w == num_sectors
             x == Expected
  <1>1. /\ u \in Nat /\ w \in Nat /\ x \in Nat /\ s \in Nat /\ s < w /\ w <= x /\ u < NumSectors
        /\ m \in Nat \ {0} /\ NumSectors \in Nat \ {0}
    BY Sizes, Constants
  <1> HIDE DEF m, u, w, x
  <1>2. /\ u * Sector \in Nat /\ s * Sector \in Nat
        /\ (u + s) * Sector = (u * Sector) + (s * Sector)
        /\ (s + 1) * Sector = (s * Sector) + Sector
    BY <1>1, Sums
  <1>3. u + s \in Nat /\ u + x \in Nat /\ u + s < u + x
    BY <1>1
  <1>4. Phys(s) \in 0 .. NumSectors - 1 /\ (u + s < NumSectors => Phys(s) = u + s)
    <2>1. 0 \in 0 .. Sector - 1
      BY <1>1 DEF m
    <2> QED
      BY <1>3, <2>1, Wrapping DEF Phys, u
  <1>5. Phys(s) \in Nat /\ Phys(s) < NumSectors
    BY <1>1, <1>4
  <1>6. First(s) \in Nat /\ First(s) + Sector <= Size /\ Size \in Nat
    BY <1>1, <1>5, Sums DEF First, Size
  <1>7. SectorAddr(s) = (u + s) * Sector /\ SectorAddr(s) \in Nat
    BY <1>1, <1>3, Sums DEF SectorAddr, u
  <1>8. ASSUME NEW j \in 0 .. Sector - 1
        PROVE  (SectorAddr(s) + j) % Size = First(s) + j
    BY <1>3, <1>7, Wrapping DEF First, Phys, u
  <1>9. ASSUME NEW j \in 0 .. Sector - 1
        PROVE  SectorAddr(s) + j \in Pages <=> req.sector + s < NumSectors
    <2>1. u + s < NumSectors => SectorAddr(s) + Sector <= Size
      BY <1>1, <1>3, <1>7, Sums DEF Size
    <2>2. NumSectors <= u + s => Size <= SectorAddr(s)
      <3>1. NumSectors < u + s => Size + Sector <= SectorAddr(s)
        BY <1>1, <1>3, <1>7, Sums DEF Size
      <3>2. NumSectors = u + s => Size = SectorAddr(s)
        BY <1>7 DEF Size
      <3> QED
        BY <1>1, <1>3, <1>6, <1>7, <3>1, <3>2 DEF m
    <2> QED
      BY <1>1, <1>3, <1>6, <1>7, <2>1, <2>2 DEF Pages, m, u
  <1>10. SectorPages(s) \subseteq Pages
    BY <1>1, <1>6 DEF SectorPages, Pages, m
  <1>11. SectorPages(s) \subseteq Written
    <2> SUFFICES ASSUME NEW a \in SectorPages(s)
                 PROVE  a \in Written
      OBVIOUS
    <2> DEFINE j == a - First(s)
    <2>1. j \in 0 .. Sector - 1 /\ a = First(s) + j
      BY <1>1, <1>6 DEF SectorPages, m
    <2>2. a = (SectorAddr(s) + j) % Size
      BY <1>8, <2>1
    <2>3. ((u + s) * Sector) + Sector <= (u + x) * Sector /\ (u + x) * Sector \in Nat
      BY <1>1, <1>3, Sums
    <2>4. SectorAddr(s) + j \in u * Sector .. ((u + x) * Sector) - 1
      <3> HIDE DEF j
      <3> QED
        BY <1>1, <1>2, <1>7, <2>1, <2>3 DEF m
    <2>5. Written = {b % Size : b \in u * Sector .. ((u + x) * Sector) - 1}
      BY DEF Written, u, x
    <2> HIDE DEF j
    <2> QED
      BY <2>2, <2>4, <2>5
  <1>12. u + s < NumSectors => First(s) = SectorAddr(s)
    BY <1>4, <1>7 DEF First
  <1> QED
    BY <1>2, <1>4, <1>6, <1>7, <1>8, <1>9, <1>10, <1>11, <1>12 DEF u

\* One erase covers pages of one sector; all but the small sectors in it, if
\* the flash erases whole sectors.
LEMMA UnitInside ==
  ASSUME req \in Runs, NEW s \in 0 .. num_sectors - 1
  PROVE  /\ Unit(First(s)) \subseteq SectorPages(s)
         /\ erase256 => Unit(First(s)) = SectorPages(s) \ Overlay
  <1> DEFINE u == Phys(s)
             k == Sector \div Block
             a == First(s)
  <1>1. /\ u \in Nat /\ k \in Nat /\ Sector = (Block * k)
        /\ Sector \in Nat \ {0} /\ Block \in Nat \ {0} /\ Block <= Sector
    <2>1. /\ Sector \in Nat \ {0} /\ Sector \in Nat /\ Block \in Nat \ {0} /\ Block <= Sector
          /\ Sector % Block = 0
      BY Constants
    <2>2. k \in Nat /\ Sector = (Block * k) + (Sector % Block)
      BY <2>1, Division
    <2>3. Block * k \in Int
      BY <2>1, <2>2
    <2>4. Sector = Block * k
      BY <2>1, <2>2, <2>3
    <2>5. u \in Nat
      BY Place
    <2> QED
      BY <2>1, <2>2, <2>4, <2>5
  <1>2. a = u * Sector /\ a \in Nat
    BY Place DEF First
  <1> HIDE DEF u, k, a
  <1>3. a = (Sector * u) + 0 /\ a = (Block * (k * u)) + 0 /\ k * u \in Int
    <2>1. (Block * k) * u = Block * (k * u) /\ k * u \in Int /\ Block * (k * u) \in Int
      BY <1>1
    <2> QED
      BY <1>1, <1>2, <2>1
  <1>4. a % Sector = 0
    BY <1>1, <1>2, <1>3, Rest
  <1>5. a % Block = 0
    BY <1>1, <1>2, <1>3, Rest
  <1>6. CASE erase256
    <2>1. Unit(a) = (a - 0 .. (a - 0) + Sector - 1) \ Overlay
      BY <1>4, <1>6 DEF Unit
    <2>2. a - 0 = a
      BY <1>2
    <2> QED
      BY <2>1, <2>2 DEF SectorPages, a
  <1>7. CASE ~erase256
    <2>1. Unit(a) = (a - 0 .. (a - 0) + Block - 1) \ Overlay
      BY <1>5, <1>7 DEF Unit
    <2>2. a .. a + Block - 1 \subseteq a .. a + Sector - 1 /\ a - 0 = a
      BY <1>1, <1>2
    <2> QED
      BY <1>7, <2>1, <2>2 DEF SectorPages, a
  <1> QED
    BY <1>6, <1>7

LEMMA SubFirstIs ==
  ASSUME req \in Runs, NEW s \in 0 .. num_sectors - 1
  PROVE  /\ SubFirst(s) \in Nat
         /\ SubFirst(s) .. SubFirst(s) + Subs - 1 \subseteq SectorPages(s)
  <1>1. Subs \in Nat /\ Sector \in Nat /\ Subs <= Sector /\ First(s) \in Nat
    BY Constants, Place
  <1>2. SubFirst(s) = First(s) \/ SubFirst(s) = First(s) + (Sector - Subs)
    BY <1>1 DEF SubFirst
  <1> QED
    BY <1>1, <1>2 DEF SectorPages

\* What a command reaches, and when the flash has that page.
LEMMA ReachedInside ==
  ASSUME req \in Runs, NEW c, Legal(c), c.op \in SectorOps
  PROVE  /\ c.op = "sub" => Reached(c) = SubFirst(c.s) + c.i
         /\ c.op = "erase" => Reached(c) = First(c.s)
         /\ c.op = "prog" => Reached(c) = First(c.s) + c.i
         /\ Reached(c) \in SectorPages(c.s)
         /\ (wraps \/ Target(c) \in Pages) <=> InReach(c.s)
  <1> DEFINE x == SectorAddr(c.s)
             y == First(c.s)
  <1>1. /\ c.s \in 0 .. num_sectors - 1 /\ c.i \in Nat
        /\ c.op = "sub" => c.i < Subs
        /\ c.op = "prog" => c.i < Sector
    BY DEF Legal
  <1>2. Subs \in Nat /\ Sector \in Nat \ {0} /\ Subs <= Sector /\ x \in Nat /\ y \in Nat
    BY <1>1, Constants, Place
  <1>3. \A j \in 0 .. Sector - 1 :
          (x + j) % Size = y + j /\ (x + j \in Pages <=> req.sector + c.s < NumSectors)
    BY <1>1, Place
  <1> HIDE DEF x, y
  <1>4. ASSUME NEW j \in 0 .. Sector - 1, Target(c) = x + j
        PROVE  /\ Reached(c) = y + j /\ Reached(c) \in SectorPages(c.s)
               /\ (wraps \/ Target(c) \in Pages) <=> InReach(c.s)
    BY <1>2, <1>3, <1>4 DEF Reached, SectorPages, InReach, y
  <1>5. CASE c.op = "sub"
    <2> DEFINE d == IF Alignment(c.s) = Align - 1 THEN Sector - Subs ELSE 0
    <2>1. d \in Nat /\ d + c.i \in 0 .. Sector - 1
      BY <1>1, <1>2, <1>5
    <2>2. Target(c) = (x + d) + c.i /\ SubFirst(c.s) = y + d
      BY <1>5 DEF Target, SubAddr, SubFirst, x, y
    <2> HIDE DEF d
    <2>3. Target(c) = x + (d + c.i) /\ SubFirst(c.s) + c.i = y + (d + c.i)
      BY <1>1, <1>2, <2>1, <2>2
    <2> QED
      BY <1>4, <1>5, <2>1, <2>3
  <1>6. CASE c.op = "erase"
    <2>1. 0 \in 0 .. Sector - 1 /\ Target(c) = x + 0
      BY <1>2, <1>6 DEF Target, x
    <2>2. Reached(c) = y
      BY <1>2, <1>4, <2>1
    <2> QED
      BY <1>4, <1>6, <2>1, <2>2 DEF y
  <1>7. CASE c.op = "prog"
    <2>1. c.i \in 0 .. Sector - 1 /\ Target(c) = x + c.i
      BY <1>1, <1>2, <1>7 DEF Target, x
    <2> QED
      BY <1>4, <1>7, <2>1 DEF y
  <1> QED
    BY <1>5, <1>6, <1>7 DEF SectorOps

\* Small sectors are where the driver looks for them.
LEMMA OverlayPlace ==
  ASSUME req \in Runs, overlay \in {"bottom", "top", "none"}, NEW s \in 0 .. num_sectors - 1,
         NEW a \in Overlay \cap SectorPages(s)
  PROVE  /\ Alignment(s) \in {0, Align - 1}
         /\ a \in SubFirst(s) .. SubFirst(s) + Subs - 1
  <1> DEFINE u == Phys(s)
  <1>1. /\ u \in Nat /\ u < NumSectors /\ First(s) = u * Sector /\ First(s) \in Nat
        /\ NumSectors \in Nat \ {0} /\ Sector \in Nat \ {0} /\ Subs \in Nat /\ Subs <= Sector
        /\ Align \in Nat \ {0, 1}
    BY Place, Constants DEF First
  <1>2. Alignment(s) = u % Align
    <2> DEFINE n == NumSectors
               d == Align
               v == req.sector + s
               k == n \div d
               q == v \div n
               e == v % d
               b == v \div d
    <2>1. n \in Nat \ {0} /\ d \in Nat \ {0} /\ v \in Nat /\ n % d = 0
      BY Sizes, Constants
    <2>2. u = v % n
      BY DEF Phys
    <2> HIDE DEF n, d, v, u
    <2>3. q \in Nat /\ u \in Nat /\ v = (n * q) + u
      <3>1. v \div n \in Nat /\ v % n \in 0 .. n - 1 /\ v = n * (v \div n) + (v % n)
        BY <2>1, Division
      <3> HIDE DEF q
      <3>2. u \in Nat
        BY <2>1, <2>2, <3>1
      <3> QED
        BY <2>2, <3>1, <3>2 DEF q
    <2>4. k \in Nat /\ n = (d * k) + 0
      BY <2>1, Division
    <2>5. b \in Nat /\ e \in 0 .. d - 1 /\ v = (d * b) + e
      BY <2>1, Division
    <2> HIDE DEF k, q, b, e
    <2>6. u = (d * (b - (k * q))) + e
      <3>1. n * q = d * (k * q) /\ k * q \in Int /\ d * (k * q) \in Int
        BY <2>1, <2>3, <2>4
      <3>2. d * (b - (k * q)) = (d * b) - (d * (k * q)) /\ d * b \in Int
        BY <2>1, <2>3, <2>4, <2>5, <3>1
      <3>3. n * q \in Int
        BY <3>1
      <3> QED
        BY <2>3, <2>5, <3>1, <3>2, <3>3
    <2>7. b - (k * q) \in Int
      BY <2>3, <2>4, <2>5
    <2>8. u % d = e
      BY <2>1, <2>3, <2>5, <2>6, <2>7, Rest
    <2> QED
      BY <2>8 DEF Alignment, e, v, d
  <1>3. a \in u * Sector .. (u * Sector) + Sector - 1
    BY <1>1 DEF SectorPages
  <1> HIDE DEF u
  <1>4. CASE overlay = "bottom"
    <2>1. a < Subs
      BY <1>1, <1>4 DEF Overlay
    <2>2. u = 0
      <3>1. 0 < u => (0 * Sector) + Sector <= u * Sector
        BY <1>1, Sums
      <3>2. 0 * Sector = 0 /\ u * Sector \in Nat
        BY <1>1
      <3> QED
        BY <1>1, <1>3, <2>1, <3>1, <3>2
    <2>3. Alignment(s) = 0 /\ Align - 1 # 0
      BY <1>1, <1>2, <2>2
    <2>4. First(s) = 0
      BY <1>1, <2>2
    <2>5. SubFirst(s) = 0
      BY <2>3, <2>4 DEF SubFirst
    <2>6. a \in Nat
      BY <1>1, <1>3
    <2> QED
      BY <1>1, <2>1, <2>3, <2>5, <2>6
  <1>5. CASE overlay = "top"
    <2> DEFINE n == NumSectors * Sector
               q == NumSectors \div Align
    <2>1. a \in n - Subs .. n - 1
      BY <1>5 DEF Overlay
    <2>2. u + 1 = NumSectors
      <3>1. u + 1 < NumSectors => ((u + 1) * Sector) + Sector <= n
        BY <1>1, Sums
      <3>2. (u + 1) * Sector = (u * Sector) + Sector /\ u * Sector \in Nat /\ n \in Nat
        BY <1>1, Sums
      <3> HIDE DEF n
      <3> QED
        BY <1>1, <1>3, <2>1, <3>1, <3>2
    <2>3. n = (u * Sector) + Sector
      BY <1>1, <2>2, Sums
    <2>4. u % Align = Align - 1
      <3>1. q \in Nat /\ NumSectors = (Align * q) + 0
        <4>1. q \in Nat /\ NumSectors = (Align * q) + (NumSectors % Align) /\ NumSectors % Align = 0
          BY <1>1, Constants, Division
        <4> QED
          BY <4>1
      <3> HIDE DEF q
      <3>2. Align * (q - 1) = (Align * q) - Align /\ Align * q \in Int
        BY <1>1, <3>1
      <3>3. u = (Align * (q - 1)) + (Align - 1)
        BY <1>1, <2>2, <3>1, <3>2
      <3>4. q - 1 \in Int /\ Align - 1 \in 0 .. Align - 1 /\ Align \in Nat \ {0}
        BY <1>1, <3>1
      <3> QED
        BY <1>1, <3>3, <3>4, Rest
    <2>5. SubFirst(s) = (u * Sector) + (Sector - Subs)
      BY <1>1, <1>2, <2>4 DEF SubFirst
    <2> HIDE DEF n
    <2>6. u * Sector \in Nat
      BY <1>1
    <2>7. a \in SubFirst(s) .. SubFirst(s) + Subs - 1
      BY <1>1, <2>1, <2>3, <2>5, <2>6
    <2> QED
      BY <1>2, <2>4, <2>7
  <1>6. CASE overlay = "none"
    BY <1>6 DEF Overlay
  <1> QED
    BY <1>4, <1>5, <1>6

-----------------------------------------------------------------------------
(* What a command leaves for the next one.                                 *)

LEMMA FillIs ==
  ASSUME flash \in [Pages -> Int], NEW A, NEW v \in Int
  PROVE  /\ Fill(A, v) \in [Pages -> Int]
         /\ \A a \in Pages : Fill(A, v)[a] = IF a \in A THEN v ELSE flash[a]
  BY DEF Fill

LEMMA FillKeepsStored ==
  ASSUME flash \in [Pages -> Int], req \in Runs, wraps \in BOOLEAN,
         NEW s \in 0 .. num_sectors - 1, InReach(s),
         NEW A \in SUBSET SectorPages(s), NEW v \in Int, Stored(flash, s)
  PROVE  Stored(Fill(A, v), s)
  <1> SUFFICES ASSUME wraps => num_sectors <= NumSectors,
                      NEW p \in 0 .. (s * Sector) - 1, (req.sector * Sector) + p \in Pages
               PROVE  Fill(A, v)[(req.sector * Sector) + p] = p
    BY DEF Stored
  <1> DEFINE a == (req.sector * Sector) + p
             u == req.sector
             m == Sector
  <1>1. /\ SectorAddr(s) = (u * Sector) + (s * Sector) /\ m \in Nat \ {0}
        /\ u * Sector \in Nat /\ s * Sector \in Nat /\ First(s) \in Nat /\ SectorAddr(s) \in Nat
        /\ u \in Nat /\ u < NumSectors /\ s \in Nat /\ s < num_sectors
        /\ num_sectors \in Nat /\ NumSectors \in Nat \ {0}
        /\ u + s < NumSectors => First(s) = SectorAddr(s)
    BY Place, Constants, Sizes
  <1> HIDE DEF u, m
  <1>2. a < SectorAddr(s) /\ a \in Nat /\ u * Sector <= a
    BY <1>1 DEF u
  <1>3. a \notin SectorPages(s)
    <2>1. CASE u + s < NumSectors
      <3> HIDE DEF a
      <3> QED
        BY <1>1, <1>2, <2>1 DEF SectorPages, m
    <2>2. CASE ~(u + s < NumSectors)
      <3>1. wraps /\ num_sectors <= NumSectors
        BY <2>2 DEF InReach, u
      <3>2. u + s \in Nat /\ NumSectors <= u + s /\ u + s < NumSectors + NumSectors
        BY <1>1, <2>2, <3>1
      <3>3. Phys(s) = (u + s) - NumSectors
        <4>1. 0 \in 0 .. Sector - 1
          BY <1>1 DEF m
        <4> QED
          BY <3>2, <4>1, Wrapping DEF Phys, u
      <3>4. Phys(s) \in Nat /\ Phys(s) < u
        BY <1>1, <3>1, <3>2, <3>3
      <3>5. First(s) + Sector <= u * Sector
        BY <1>1, <3>4, Sums DEF First
      <3> HIDE DEF a
      <3> QED
        BY <1>1, <1>2, <3>5 DEF SectorPages, m
    <2> QED
      BY <2>1, <2>2
  <1>4. Fill(A, v)[a] = flash[a]
    BY <1>3, FillIs
  <1> QED
    BY <1>4 DEF Stored

LEMMA StartReady ==
  ASSUME req \in Runs, overlay \in {"bottom", "top", "none"}, NEW f, NEW s \in Nat,
         Stored(f, s)
  PROVE  Ready(f, StartSector(s))
  <1> DEFINE c == StartSector(s)
  <1>1. CASE Alignment(s) \in {0, Align - 1}
    <2>1. c.op = "sub" /\ c.s = s /\ c.i = 0
      BY <1>1 DEF StartSector, Command
    <2> HIDE DEF c
    <2> QED
      BY <2>1 DEF Ready, Prepared, c
  <1>2. CASE Alignment(s) \notin {0, Align - 1}
    <2>1. c.op = "erase" /\ c.s = s
      BY <1>2 DEF StartSector, Command
    <2>2. s < num_sectors => Overlay \cap SectorPages(s) = {}
      <3>1. s < num_sectors => s \in 0 .. num_sectors - 1
        BY Sizes
      <3> QED
        BY <1>2, <3>1, OverlayPlace
    <2> HIDE DEF c
    <2> QED
      BY <2>1, <2>2 DEF Ready, Prepared, c
  <1> QED
    BY <1>1, <1>2

\* After the last page of a sector that is stored or lies behind the end.
LEMMA SectorStored ==
  ASSUME req \in Runs, NEW f, NEW s \in 0 .. num_sectors - 1, Stored(f, s),
         InReach(s) /\ (wraps => num_sectors <= NumSectors) =>
            \A j \in 0 .. Sector - 1 : f[First(s) + j] = (s * Sector) + j
  PROVE  Stored(f, s + 1)
  <1> SUFFICES ASSUME wraps => num_sectors <= NumSectors,
                      NEW p \in 0 .. ((s + 1) * Sector) - 1, (req.sector * Sector) + p \in Pages
               PROVE  f[(req.sector * Sector) + p] = p
    BY DEF Stored
  <1> DEFINE x == SectorAddr(s)
             y == s * Sector
  <1>1. /\ x \in Nat /\ y \in Nat /\ x = (req.sector * Sector) + y
        /\ (s + 1) * Sector = y + Sector /\ req.sector * Sector \in Nat /\ Sector \in Nat
        /\ \A j \in 0 .. Sector - 1 : x + j \in Pages <=> req.sector + s < NumSectors
        /\ req.sector + s < NumSectors => First(s) = x
    BY Place, Constants
  <1> HIDE DEF x, y
  <1>2. CASE p < y
    <2>1. p \in 0 .. y - 1
      BY <1>1, <1>2
    <2> QED
      BY <2>1 DEF Stored, y
  <1>3. CASE ~(p < y)
    <2>1. p - y \in 0 .. Sector - 1 /\ x + (p - y) = (req.sector * Sector) + p /\ y + (p - y) = p
      BY <1>1, <1>3
    <2>2. req.sector + s < NumSectors
      BY <1>1, <2>1
    <2>3. f[First(s) + (p - y)] = y + (p - y)
      BY <2>1, <2>2 DEF InReach, y
    <2> QED
      BY <1>1, <2>1, <2>2, <2>3
  <1> QED
    BY <1>2, <1>3

\* A sector behind the end of a flash that does not have it is passed over.
LEMMA SkipReady ==
  ASSUME Types, req \in Runs, NEW c, Legal(c), c.op \in SectorOps, Ready(flash, c), ~InReach(c.s)
  PROVE  Ready(flash, After(c))
  <1> DEFINE n == After(c)
  <1>1. /\ c.s \in 0 .. num_sectors - 1 /\ c.s \in Nat
        /\ c \in [op : SectorOps \union {"4bam", "cr3v"}, s : 0 .. num_sectors - 1, i : Nat]
    BY DEF Legal
  <1>2. Stored(flash, c.s)
    BY DEF Ready
  <1>3. CASE n.s = c.s
    BY <1>2, <1>3 DEF Ready
  <1>4. CASE n = StartSector(c.s + 1)
    <2>1. Stored(flash, c.s + 1)
      BY <1>1, <1>2, SectorStored
    <2> QED
      BY <1>1, <1>4, <2>1, StartReady DEF Types
  <1>5. n.s = c.s \/ n = StartSector(c.s + 1)
    BY <1>1 DEF After, Command, SectorOps
  <1> QED
    BY <1>3, <1>4, <1>5

LEMMA SubReady ==
  ASSUME Types, req \in Runs, NEW c, Legal(c), c.op = "sub", Ready(flash, c), InReach(c.s), NEW g,
         g = Fill({Reached(c)}, Blank) \/ (g = flash /\ Reached(c) \notin Overlay)
  PROVE  Ready(g, After(c))
  <1> DEFINE n == After(c)
             b == SubFirst(c.s)
  <1>1. /\ c.s \in 0 .. num_sectors - 1 /\ c.i \in Nat /\ c.i < Subs /\ Subs \in Nat
        /\ c \in [op : SectorOps \union {"4bam", "cr3v"}, s : 0 .. num_sectors - 1, i : Nat]
    BY Constants DEF Legal
  <1>2. /\ b \in Nat /\ b .. b + Subs - 1 \subseteq SectorPages(c.s)
        /\ SectorPages(c.s) \subseteq Pages
        /\ Reached(c) = b + c.i /\ Reached(c) \in SectorPages(c.s)
    BY <1>1, SubFirstIs, Place, ReachedInside DEF SectorOps
  <1>3. Blank \in Int /\ Stored(flash, c.s) /\ Prepared(flash, c)
    BY <1>1, Sizes DEF Blank, Ready, SectorOps
  <1>4. Stored(g, c.s)
    <2>1. {Reached(c)} \in SUBSET SectorPages(c.s)
      BY <1>2
    <2>2. Stored(Fill({Reached(c)}, Blank), c.s)
      BY <1>1, <1>3, <2>1, FillKeepsStored DEF Types
    <2> QED
      BY <1>3, <2>2
  <1>5. ASSUME NEW j \in 0 .. c.i, b + j \in Overlay PROVE g[b + j] = Blank
    <2>1. b + j \in Pages
      <3>1. b + j \in b .. b + Subs - 1
        BY <1>1, <1>2
      <3> QED
        BY <1>2, <3>1
    <2>2. CASE j = c.i
      BY <1>2, <1>3, <1>5, <2>1, <2>2, FillIs DEF Types
    <2>3. CASE j # c.i
      <3>1. j \in 0 .. c.i - 1
        BY <1>1, <2>3
      <3>2. flash[b + j] = Blank
        BY <1>3, <1>5, <3>1 DEF Prepared
      <3> QED
        BY <1>3, <2>1, <3>2, FillIs DEF Types
    <2> QED
      BY <2>2, <2>3
  <1>6. CASE c.i < Subs - 1
    <2>1. n.op = "sub" /\ n.s = c.s /\ n.i = c.i + 1
      BY <1>1, <1>6 DEF After
    <2>2. 0 .. n.i - 1 = 0 .. c.i
      BY <1>1, <2>1
    <2> HIDE DEF n
    <2> QED
      BY <1>4, <1>5, <2>1, <2>2 DEF Ready, Prepared, n
  <1>7. CASE ~(c.i < Subs - 1)
    <2>1. n.op = "erase" /\ n.s = c.s
      BY <1>7 DEF After, Command
    <2>2. ASSUME NEW a \in Overlay \cap SectorPages(c.s) PROVE g[a] = Blank
      <3>1. a \in b .. b + Subs - 1
        BY <1>1, OverlayPlace DEF Types
      <3>2. a - b \in 0 .. c.i /\ b + (a - b) = a
        BY <1>1, <1>2, <1>7, <3>1
      <3> QED
        BY <1>5, <3>2
    <2> HIDE DEF n
    <2> QED
      BY <1>4, <2>1, <2>2 DEF Ready, Prepared, n
  <1> QED
    BY <1>6, <1>7

LEMMA EraseReady ==
  ASSUME Types, req \in Runs, NEW c, Legal(c), c.op = "erase", Ready(flash, c), InReach(c.s), erase256
  PROVE  Ready(Fill(Unit(Reached(c)), Blank), After(c))
  <1> DEFINE n == After(c)
             g == Fill(Unit(Reached(c)), Blank)
  <1>1. c.s \in 0 .. num_sectors - 1 /\ Sector \in Nat
    BY Constants DEF Legal
  <1>2. /\ Reached(c) = First(c.s) /\ First(c.s) \in Nat
        /\ Unit(Reached(c)) = SectorPages(c.s) \ Overlay
        /\ SectorPages(c.s) \subseteq Pages
    BY <1>1, UnitInside, Place, ReachedInside DEF SectorOps
  <1>3. Blank \in Int /\ Stored(flash, c.s) /\ Prepared(flash, c)
    BY <1>1, Sizes DEF Blank, Ready, SectorOps
  <1>4. Stored(g, c.s)
    <2>1. Unit(Reached(c)) \in SUBSET SectorPages(c.s)
      BY <1>2
    <2> QED
      BY <1>1, <1>3, <2>1, FillKeepsStored DEF Types
  <1>5. ASSUME NEW a \in SectorPages(c.s) PROVE g[a] = Blank
    <2>1. a \in Overlay => flash[a] = Blank
      BY <1>3 DEF Prepared
    <2> QED
      BY <1>2, <1>3, <2>1, FillIs DEF Types
  <1>6. n.op = "prog" /\ n.s = c.s /\ n.i = 0
    BY DEF After, Command
  <1>7. ASSUME NEW j \in 0 .. Sector - 1 PROVE g[First(c.s) + j] = Blank /\ ~(j < n.i)
    <2>1. First(c.s) + j \in SectorPages(c.s)
      BY <1>1, <1>2 DEF SectorPages
    <2> QED
      BY <1>5, <1>6, <2>1
  <1> HIDE DEF n, g
  <1> QED
    BY <1>4, <1>6, <1>7 DEF Ready, Prepared, n, g

LEMMA ProgReady ==
  ASSUME Types, req \in Runs, NEW c, Legal(c), c.op = "prog", Ready(flash, c), InReach(c.s)
  PROVE  /\ flash[Reached(c)] = Blank
         /\ Ready(Fill({Reached(c)}, (c.s * Sector) + c.i), After(c))
  <1> DEFINE n == After(c)
             x == First(c.s)
             y == c.s * Sector
             g == Fill({Reached(c)}, y + c.i)
  <1>1. /\ c.s \in 0 .. num_sectors - 1 /\ c.i \in Nat /\ c.i < Sector /\ Sector \in Nat
        /\ c \in [op : SectorOps \union {"4bam", "cr3v"}, s : 0 .. num_sectors - 1, i : Nat]
    BY Constants DEF Legal
  <1>2. /\ x \in Nat /\ y \in Nat
        /\ SectorPages(c.s) \subseteq Pages
        /\ Reached(c) = x + c.i /\ Reached(c) \in SectorPages(c.s)
    BY <1>1, Place, ReachedInside DEF SectorOps
  <1>3. /\ Stored(flash, c.s)
        /\ \A j \in 0 .. Sector - 1 : flash[x + j] = IF j < c.i THEN y + j ELSE Blank
    BY <1>1, Sizes DEF Ready, Prepared, SectorOps
  <1>4. flash[Reached(c)] = Blank
    BY <1>1, <1>2, <1>3
  <1>5. y + c.i \in Int /\ {Reached(c)} \in SUBSET SectorPages(c.s)
    BY <1>1, <1>2
  <1>6. Stored(g, c.s)
    BY <1>1, <1>3, <1>5, FillKeepsStored DEF Types
  <1> HIDE DEF x
  <1>7. ASSUME NEW j \in 0 .. Sector - 1
        PROVE  g[x + j] = IF j < c.i + 1 THEN y + j ELSE Blank
    <2>1. x + j \in Pages
      <3>1. x + j \in SectorPages(c.s)
        BY <1>1, <1>2 DEF SectorPages, x
      <3> QED
        BY <1>2, <3>1
    <2>2. g[x + j] = IF x + j = Reached(c) THEN y + c.i ELSE flash[x + j]
      BY <1>5, <2>1, FillIs DEF Types
    <2>3. x + j = Reached(c) <=> j = c.i
      <3> DEFINE k == c.i
      <3>1. x \in Nat /\ j \in Nat /\ k \in Nat /\ Reached(c) = x + k
        BY <1>1, <1>2
      <3> HIDE DEF k
      <3>2. x + j = x + k <=> j = k
        BY <3>1
      <3> QED
        BY <3>1, <3>2 DEF k
    <2>4. j < c.i + 1 <=> j < c.i \/ j = c.i
      BY <1>1
    <2> QED
      BY <1>1, <1>3, <2>2, <2>3, <2>4
  <1> HIDE DEF g
  <1>8. CASE c.i < Sector - 1
    <2>1. n.op = "prog" /\ n.s = c.s /\ n.i = c.i + 1
      BY <1>1, <1>8 DEF After
    <2> HIDE DEF n
    <2>2. Ready(g, n)
      BY <1>6, <1>7, <2>1 DEF Ready, Prepared, x
    <2> QED
      BY <1>4, <2>2 DEF g, n
  <1>9. CASE ~(c.i < Sector - 1)
    <2>1. n = StartSector(c.s + 1)
      BY <1>9 DEF After
    <2>2. Stored(g, c.s + 1)
      <3>1. \A j \in 0 .. Sector - 1 : j < c.i + 1
        BY <1>1, <1>9
      <3>2. \A j \in 0 .. Sector - 1 : g[First(c.s) + j] = (c.s * Sector) + j
        BY <1>7, <3>1 DEF x
      <3> QED
        BY <1>1, <1>6, <3>2, SectorStored
    <2>3. c.s + 1 \in Nat
      BY <1>1
    <2>4. Ready(g, n)
      BY <2>1, <2>2, <2>3, StartReady DEF Types
    <2> QED
      BY <1>4, <2>4 DEF g, n
  <1> QED
    BY <1>8, <1>9

-----------------------------------------------------------------------------
(* Steps.                                                                  *)

LEMMA ReadyPrimed ==
  ASSUME UNCHANGED <<req, overlay, wraps>>, Ready(flash', cmd')
  PROVE  Ready(flash, cmd)'
  BY DEF Ready, Prepared, Stored, SubFirst, First, Phys, Alignment, SectorPages, Overlay,
         InReach, num_sectors

LEMMA AfterPrimed ==
  ASSUME UNCHANGED <<req, overlay, wraps, cmd>>, Ready(flash', After(cmd))
  PROVE  Ready(flash, After(cmd))'
  <1>1. After(cmd)' = After(cmd)
    BY DEF After, StartSector, Command, Alignment
  <1> QED
    BY <1>1 DEF Ready, Prepared, Stored, SubFirst, First, Phys, Alignment, SectorPages, Overlay,
                InReach, num_sectors

LEMMA SectorsPositive ==
  ASSUME NEW r \in Runs
  PROVE  Sectors(r.img, r.copy) \in Nat \ {0}
  <1>1. r.img \in Nat /\ r.copy \in Nat /\ Sector \in Nat \ {0} /\ SectorBytes \in Nat \ {0}
    <2>1. r.img \in Images /\ r.copy \in Copies
      BY DEF Runs
    <2>2. Copies \subseteq Nat /\ Images \subseteq Nat
      BY Constants
    <2> QED
      BY <2>1, <2>2, Constants
  <1>2. r.img \div Sector \in Nat /\ r.copy \div SectorBytes \in Nat
    BY <1>1, Division
  <1> QED
    BY <1>2 DEF Sectors

LEMMA LegalNext ==
  ASSUME req \in Runs, NEW c, Legal(c)
  PROVE  /\ After(c).s < num_sectors => Legal(After(c))
         /\ After(c).s \in 0 .. num_sectors
         /\ After(c).op \in SectorOps \union {"cr3v"}
         /\ After(c).op = "cr3v" => After(c).s = 0
  <1>1. num_sectors \in Nat \ {0} /\ Subs \in Nat \ {0} /\ Sector \in Nat \ {0}
    BY Sizes, Constants
  <1>2. /\ c \in [op : SectorOps \union {"4bam", "cr3v"}, s : 0 .. num_sectors - 1, i : Nat]
        /\ c.op = "sub" => c.i < Subs
        /\ c.op = "prog" => c.i < Sector
        /\ c.s \in 0 .. num_sectors - 1 /\ c.i \in Nat
    BY DEF Legal
  <1>3. ASSUME NEW s \in 0 .. num_sectors
        PROVE  LET d == StartSector(s)
               IN  d.s = s /\ d.op \in {"sub", "erase"} /\ (s < num_sectors => Legal(d))
    BY <1>1, <1>3 DEF StartSector, Command, Legal, SectorOps
  <1>4. CASE c.op \in {"4bam", "erase"}
    <2>1. After(c) = Command(IF c.op = "4bam" THEN "cr3v" ELSE "prog", IF c.op = "4bam" THEN 0 ELSE c.s, 0)
      BY <1>4 DEF After
    <2> QED
      BY <1>1, <1>2, <1>4, <2>1 DEF Command, Legal, SectorOps
  <1>5. CASE c.op = "cr3v"
    BY <1>1, <1>3, <1>5 DEF After, SectorOps
  <1>6. CASE c.op = "sub"
    <2>1. CASE c.i < Subs - 1
      <3>1. After(c) = [c EXCEPT !.i = @ + 1]
        BY <1>6, <2>1 DEF After
      <3>2. After(c).s = c.s /\ After(c).op = "sub" /\ After(c).i = c.i + 1
        BY <1>2, <1>6, <3>1
      <3> QED
        BY <1>1, <1>2, <2>1, <3>1, <3>2 DEF Legal, SectorOps
    <2>2. CASE ~(c.i < Subs - 1)
      <3>1. After(c) = Command("erase", c.s, 0)
        BY <1>6, <2>2 DEF After
      <3> QED
        BY <1>1, <1>2, <3>1 DEF Command, Legal, SectorOps
    <2> QED
      BY <2>1, <2>2
  <1>7. CASE c.op = "prog"
    <2>1. CASE c.i < Sector - 1
      <3>1. After(c) = [c EXCEPT !.i = @ + 1]
        BY <1>7, <2>1 DEF After
      <3>2. After(c).s = c.s /\ After(c).op = "prog" /\ After(c).i = c.i + 1
        BY <1>2, <1>7, <3>1
      <3> QED
        BY <1>1, <1>2, <2>1, <3>1, <3>2 DEF Legal, SectorOps
    <2>2. CASE ~(c.i < Sector - 1)
      <3>1. After(c) = StartSector(c.s + 1) /\ c.s + 1 \in 0 .. num_sectors
        BY <1>1, <1>2, <1>7, <2>2 DEF After
      <3> QED
        BY <1>1, <1>2, <1>3, <3>1 DEF SectorOps
    <2> QED
      BY <2>1, <2>2
  <1> QED
    BY <1>2, <1>4, <1>5, <1>6, <1>7 DEF SectorOps

LEMMA InitInv == Init => IInv
  <1> SUFFICES ASSUME Init PROVE IInv
    OBVIOUS
  <1>1. Types
    <2>1. flash \in [Pages -> Int]
      BY DEF Init, Old
    <2>2. req.op = "none" /\ pc = "idle"
      BY DEF Init
    <2>3. overlay \in {"bottom", "top", "none"} /\ erase256 \in BOOLEAN /\ wraps \in BOOLEAN
      BY DEF Init
    <2>4. wel \in BOOLEAN /\ wip \in BOOLEAN /\ err \in BOOLEAN
      BY DEF Init
    <2> QED
      BY <2>1, <2>2, <2>3, <2>4 DEF Types
  <1>2. Commands /\ Status /\ OthersKept /\ ImageStored
    BY DEF Init, Commands, Status, Running, OthersKept, ImageStored, Done
  <1>3. Progress
    BY DEF Init, Progress
  <1> QED
    BY <1>1, <1>2, <1>3 DEF IInv

\* What depends on the request and the flash only.
LEMMA Unmoved ==
  ASSUME OthersKept, UNCHANGED <<flash, req, before>>
  PROVE  OthersKept'
  BY DEF OthersKept, Written, Expected

LEMMA MainPreserves == ASSUME IInv, NEW r \in Runs, main(r) PROVE IInv'
  <1>1. /\ req' = r /\ before' = flash /\ cmd' = Enter4B
        /\ UNCHANGED <<flash, overlay, erase256, wraps, wel, wip, err>>
        /\ pc = "idle" /\ (pc' = "wen" \/ (pc' = "idle" /\ ret' = "error"))
    BY DEF main, Start, device
  <1>2. r.op = "flash"
    BY DEF Runs
  <1>3. Types'
    BY <1>1, <1>2 DEF IInv, Types, Running, Runs
  <1>4. Commands'
    <2>1. Sectors(r.img, r.copy) \in Nat \ {0}
      BY SectorsPositive
    <2>2. num_sectors' = Sectors(r.img, r.copy)
      BY <1>1 DEF num_sectors
    <2>3. Legal(cmd)'
      BY <1>1, <2>1, <2>2 DEF Legal, Enter4B
    <2> QED
      BY <1>1, <1>2, <2>3 DEF Commands
  <1>5. Status' /\ ~wip'
    BY <1>1 DEF IInv, Status
  <1>6. Progress'
    <2>1. Ready(flash, cmd)'
      BY <1>1 DEF Ready, Enter4B, SectorOps
    <2> QED
      BY <1>1, <2>1 DEF Progress
  <1>7. OthersKept' /\ ImageStored'
    BY <1>1 DEF OthersKept, ImageStored, Done
  <1> QED
    BY <1>3, <1>4, <1>5, <1>6, <1>7 DEF IInv

LEMMA ReadsPreserve ==
  ASSUME IInv, \/ \E r \in Reads, f \in SpiFreqs : single_read(r, f)
               \/ single_read_chunk
  PROVE  IInv'
  <1>1. /\ UNCHANGED <<flash, overlay, erase256, wraps, wel, wip, err>>
        /\ pc \in {"idle", "read"} /\ pc' \in {"idle", "read"} /\ req'.op = "read"
    <2>1. CASE \E r \in Reads, f \in SpiFreqs : single_read(r, f)
      BY <2>1 DEF single_read, Start, device
    <2>2. CASE single_read_chunk
      BY <2>2 DEF single_read_chunk, device, IInv, Types
    <2> QED
      BY <2>1, <2>2
  <1>2. Types'
    BY <1>1 DEF IInv, Types
  <1>3. Commands' /\ Status' /\ Progress'
    BY <1>1 DEF IInv, Status, Commands, Progress, Running
  <1>4. OthersKept' /\ ImageStored'
    BY <1>1 DEF OthersKept, ImageStored, Done
  <1> QED
    BY <1>2, <1>3, <1>4 DEF IInv

LEMMA SetWenPreserves == ASSUME IInv, set_wen PROVE IInv'
  <1>1. /\ pc = "wen" /\ pc' = "issue" /\ ~wip /\ wel' = TRUE
        /\ UNCHANGED <<req, cmd, flash, before, overlay, erase256, wraps, wip, err>>
    BY DEF set_wen, IInv, Status
  <1>2. Types'
    BY <1>1 DEF IInv, Types, Running
  <1>3. Commands' /\ Status'
    BY <1>1 DEF IInv, Commands, Status, Running, Legal, num_sectors, InReach
  <1>4. Progress'
    <2>1. erase256 => Ready(flash', cmd')
      BY <1>1 DEF IInv, Progress
    <2> QED
      BY <1>1, <2>1, ReadyPrimed DEF Progress
  <1>5. OthersKept' /\ ImageStored'
    BY <1>1, Unmoved DEF IInv, ImageStored, Done
  <1> QED
    BY <1>2, <1>3, <1>4, <1>5 DEF IInv

LEMMA IssuePreserves == ASSUME IInv, Issue PROVE IInv'
  <1>1. /\ pc = "issue" /\ ~wip /\ wel /\ req.op = "flash" /\ req \in Runs /\ Legal(cmd)
        /\ erase256 => Ready(flash, cmd)
    BY DEF Issue, IInv, Status, Types, Commands, Running, Progress
  <1>2. /\ UNCHANGED <<req, flash, before, overlay, erase256, wraps, wel>>
        /\ err' \in {err, FALSE}
    BY DEF Issue
  <1>3. CASE cmd.op = "4bam"
    <2>1. pc' = "wen" /\ cmd' = After(cmd) /\ wip' = wip
      BY <1>3 DEF Issue
    <2>2. Types'
      BY <1>1, <1>2, <2>1 DEF IInv, Types, Running
    <2>3. cmd' = Command("cr3v", 0, 0)
      BY <1>3, <2>1 DEF After
    <2>4. Legal(cmd)'
      <3>1. num_sectors \in Nat \ {0} /\ num_sectors' = num_sectors
        BY <1>1, <1>2, Sizes DEF num_sectors
      <3> QED
        BY <2>3, <3>1 DEF Legal, Command
    <2>5. Commands' /\ Status'
      BY <1>1, <1>2, <2>1, <2>4 DEF Commands, Status
    <2>6. Progress'
      <3>1. Ready(flash, cmd)'
        BY <2>3 DEF Ready, Command, SectorOps
      <3> QED
        BY <1>1, <2>1, <3>1 DEF Progress
    <2>7. OthersKept' /\ ImageStored'
      BY <1>2, <2>1, Unmoved DEF IInv, ImageStored, Done
    <2> QED
      BY <2>2, <2>5, <2>6, <2>7 DEF IInv
  <1>4. CASE cmd.op # "4bam"
    <2>1. pc' = "poll" /\ cmd' = cmd /\ (wip' <=> Accepted /\ ~err') /\ wip' \in BOOLEAN
      BY <1>1, <1>4 DEF Issue, Accepted
    <2>2. Types'
      BY <1>1, <1>2, <2>1 DEF IInv, Types, Running
    <2>3. cmd.op \in SectorOps \/ cmd.op = "cr3v"
      BY <1>1, <1>4 DEF Legal
    <2>4. cmd.op \in SectorOps =>
            /\ (wraps \/ Target(cmd) \in Pages) <=> InReach(cmd.s)
            /\ wip' => InReach(cmd.s)
      BY <1>1, <2>1, ReachedInside DEF Accepted
    <2>5. Commands' /\ Status'
      BY <1>1, <1>2, <1>4, <2>1, <2>4 DEF Commands, Status, Legal, num_sectors, InReach
    <2>6. Progress'
      <3> SUFFICES ASSUME erase256, ~err'
                   PROVE  (wip' => Ready(flash, cmd)') /\ (~wip' => Ready(flash, After(cmd))')
        BY <1>2, <2>1 DEF Progress
      <3>1. Ready(flash, cmd)'
        BY <1>1, <1>2, <2>1, ReadyPrimed
      <3>2. ASSUME ~wip' PROVE Ready(flash, After(cmd))'
        <4>1. /\ cmd.op \in SectorOps
              /\ ~InReach(cmd.s) \/ (cmd.op = "sub" /\ Reached(cmd) \notin Overlay)
          BY <1>1, <2>1, <2>3, <2>4, <3>2 DEF Accepted
        <4>2. CASE ~InReach(cmd.s)
          <5>1. Ready(flash, After(cmd))
            BY <1>1, <4>1, <4>2, SkipReady DEF IInv
          <5> QED
            BY <1>2, <2>1, <5>1, AfterPrimed
        <4>3. CASE InReach(cmd.s)
          <5>1. Ready(flash, After(cmd))
            BY <1>1, <4>1, <4>3, SubReady DEF IInv
          <5> QED
            BY <1>2, <2>1, <5>1, AfterPrimed
        <4> QED
          BY <4>2, <4>3
      <3> QED
        BY <3>1, <3>2
    <2>7. OthersKept' /\ ImageStored'
      BY <1>2, <2>1, Unmoved DEF IInv, ImageStored, Done
    <2> QED
      BY <2>2, <2>5, <2>6, <2>7 DEF IInv
  <1> QED
    BY <1>3, <1>4

\* What a device's step changes lies in the sector of the command.
LEMMA DeviceKeeps ==
  ASSUME IInv, wip, NEW A \in SUBSET SectorPages(cmd.s), NEW v \in Int,
         flash' = Fill(A, v), UNCHANGED <<pc, req, cmd, before, overlay, wraps>>,
         wip' \in BOOLEAN, wel' \in BOOLEAN, err' \in BOOLEAN, erase256' \in BOOLEAN
  PROVE  Types' /\ Commands' /\ Status' /\ OthersKept' /\ ImageStored'
  <1>1. pc = "poll" /\ req.op = "flash" /\ req \in Runs /\ Legal(cmd)
    BY DEF IInv, Status, Types, Commands, Running
  <1>2. flash' \in [Pages -> Int] /\ \A a \in Pages \ A : flash'[a] = flash[a]
    BY FillIs DEF IInv, Types
  <1>3. Types'
    BY <1>1, <1>2 DEF IInv, Types
  <1>4. Commands' /\ Status'
    BY <1>1 DEF IInv, Commands, Status, Legal, num_sectors, InReach
  <1>5. A \subseteq Written
    <2>1. cmd.s \in 0 .. num_sectors - 1
      BY <1>1 DEF Legal
    <2> QED
      BY <1>1, <2>1, Place
  <1>6. OthersKept'
    BY <1>1, <1>2, <1>5 DEF IInv, OthersKept, Written, Expected
  <1>7. ImageStored'
    BY <1>1 DEF ImageStored, Done
  <1> QED
    BY <1>3, <1>4, <1>6, <1>7

LEMMA CompletePreserves == ASSUME IInv, Complete PROVE IInv'
  <1>1. /\ pc = "poll" /\ wip /\ req.op = "flash" /\ req \in Runs /\ Legal(cmd) /\ cmd.op # "4bam"
        /\ erase256 => Ready(flash, cmd)
        /\ cmd.s \in 0 .. num_sectors - 1 /\ cmd.op \in SectorOps \union {"cr3v"}
        /\ cmd.op \in SectorOps => InReach(cmd.s)
    BY DEF Complete, IInv, Status, Types, Commands, Running, Progress, Legal
  <1>2. /\ UNCHANGED <<pc, req, cmd, before, overlay, wraps, err>>
        /\ wip' = FALSE /\ wel' = FALSE
    BY DEF Complete
  <1>3. err \in BOOLEAN /\ erase256 \in BOOLEAN /\ Blank \in Int /\ Mixed \in Int
    BY DEF IInv, Types, Blank, Mixed
  <1>4. SUFFICES /\ Types' /\ Commands' /\ Status' /\ OthersKept' /\ ImageStored'
                 /\ erase256' => Ready(flash', After(cmd))
    BY <1>1, <1>2, AfterPrimed DEF IInv, Progress
  <1>5. CASE cmd.op = "cr3v"
    <2>1. erase256' \in BOOLEAN /\ flash' = flash
      BY <1>5 DEF Complete
    <2>2. flash = Fill({}, Blank)
      BY DEF Fill, IInv, Types
    <2>3. Types' /\ Commands' /\ Status' /\ OthersKept' /\ ImageStored'
      BY <1>1, <1>2, <1>3, <2>1, <2>2, DeviceKeeps
    <2>4. Stored(flash, 0)
      <3>1. 0 .. (0 * Sector) - 1 = {}
        BY Constants
      <3> QED
        BY <3>1 DEF Stored
    <2>5. Ready(flash, After(cmd))
      BY <1>1, <1>5, <2>4, StartReady DEF After, IInv, Types
    <2> QED
      BY <2>1, <2>3, <2>5
  <1>6. CASE cmd.op = "sub"
    <2>1. flash' = Fill({Reached(cmd)}, Blank) /\ erase256' = erase256
      BY <1>6 DEF Complete
    <2>2. {Reached(cmd)} \in SUBSET SectorPages(cmd.s)
      BY <1>1, <1>6, ReachedInside DEF SectorOps
    <2>3. Types' /\ Commands' /\ Status' /\ OthersKept' /\ ImageStored'
      BY <1>1, <1>2, <1>3, <2>1, <2>2, DeviceKeeps
    <2>4. erase256 => Ready(flash', After(cmd))
      BY <1>1, <1>6, <2>1, SubReady DEF IInv, SectorOps
    <2> QED
      BY <2>1, <2>3, <2>4
  <1>7. CASE cmd.op = "erase"
    <2>1. flash' = Fill(Unit(Reached(cmd)), Blank) /\ erase256' = erase256
      BY <1>7 DEF Complete
    <2>2. Unit(Reached(cmd)) \in SUBSET SectorPages(cmd.s)
      BY <1>1, <1>7, UnitInside, ReachedInside DEF SectorOps
    <2>3. Types' /\ Commands' /\ Status' /\ OthersKept' /\ ImageStored'
      BY <1>1, <1>2, <1>3, <2>1, <2>2, DeviceKeeps
    <2>4. erase256 => Ready(flash', After(cmd))
      BY <1>1, <1>7, <2>1, EraseReady DEF IInv, SectorOps
    <2> QED
      BY <2>1, <2>3, <2>4
  <1>8. CASE cmd.op = "prog"
    <2> DEFINE v == IF flash[Reached(cmd)] = Blank THEN (cmd.s * Sector) + cmd.i ELSE Mixed
    <2>1. flash' = Fill({Reached(cmd)}, v) /\ erase256' = erase256
      BY <1>8 DEF Complete
    <2>2. {Reached(cmd)} \in SUBSET SectorPages(cmd.s)
      BY <1>1, <1>8, ReachedInside DEF SectorOps
    <2>3. v \in Int
      <3>1. cmd.s * Sector \in Nat /\ cmd.i \in Nat
        BY <1>1, Place DEF Legal
      <3> QED
        BY <1>3, <3>1
    <2>4. Types' /\ Commands' /\ Status' /\ OthersKept' /\ ImageStored'
      <3> HIDE DEF v
      <3> QED
        BY <1>1, <1>2, <1>3, <2>1, <2>2, <2>3, DeviceKeeps
    <2>5. ASSUME erase256 PROVE Ready(flash', After(cmd))
      <3>1. /\ flash[Reached(cmd)] = Blank
            /\ Ready(Fill({Reached(cmd)}, (cmd.s * Sector) + cmd.i), After(cmd))
        BY <1>1, <1>8, <2>5, ProgReady DEF IInv, SectorOps
      <3>2. v = (cmd.s * Sector) + cmd.i
        BY <3>1
      <3> HIDE DEF v
      <3> QED
        BY <2>1, <3>1, <3>2
    <2> QED
      BY <2>1, <2>4, <2>5
  <1> QED
    BY <1>1, <1>5, <1>6, <1>7, <1>8 DEF SectorOps

LEMMA FailPreserves == ASSUME IInv, Fail PROVE IInv'
  <1>1. /\ pc = "poll" /\ wip /\ req \in Runs /\ Legal(cmd) /\ cmd.s \in 0 .. num_sectors - 1
        /\ cmd.op \in SectorOps
    BY DEF Fail, IInv, Status, Types, Commands, Running, Legal
  <1>2. /\ UNCHANGED <<pc, req, cmd, before, overlay, erase256, wraps>>
        /\ wip' \in BOOLEAN /\ wel' = FALSE /\ err' = TRUE
        /\ flash' = Fill(IF cmd.op = "erase" THEN Unit(Reached(cmd)) ELSE {Reached(cmd)}, Mixed)
    BY DEF Fail
  <1>3. (IF cmd.op = "erase" THEN Unit(Reached(cmd)) ELSE {Reached(cmd)}) \in SUBSET SectorPages(cmd.s)
    BY <1>1, UnitInside, ReachedInside DEF SectorOps
  <1>4. Mixed \in Int /\ erase256 \in BOOLEAN
    BY DEF Mixed, IInv, Types
  <1>5. Types' /\ Commands' /\ Status' /\ OthersKept' /\ ImageStored'
    BY <1>1, <1>2, <1>3, <1>4, DeviceKeeps
  <1>6. Progress'
    BY <1>1, <1>2 DEF Progress
  <1> QED
    BY <1>5, <1>6 DEF IInv

LEMMA PollPreserves == ASSUME IInv, poll_wip PROVE IInv'
  <1>1. /\ pc = "poll" /\ ~wip /\ req.op = "flash" /\ req \in Runs /\ Legal(cmd)
        /\ erase256 /\ ~err => Ready(flash, After(cmd))
    BY DEF poll_wip, IInv, Status, Types, Commands, Running, Progress
  <1>2. /\ UNCHANGED <<req, flash, overlay, erase256, wraps, wel, wip, err, before>>
        /\ pc' \in {"idle", "wen"}
    BY DEF poll_wip, Return, device
  <1>3. Types'
    BY <1>1, <1>2 DEF IInv, Types, Running
  <1>4. Status'
    BY <1>1, <1>2 DEF Status
  <1>5. OthersKept'
    BY <1>2, Unmoved DEF IInv
  <1>6. CASE err /\ Return("error")
    BY <1>2, <1>3, <1>4, <1>5, <1>6 DEF IInv, Return, Commands, Running, Progress, ImageStored, Done
  <1>7. CASE ~err /\ After(cmd).s >= num_sectors /\ Return("ok")
    <2>1. Commands' /\ Progress'
      BY <1>7 DEF Return, Commands, Running, Progress
    <2>2. ImageStored'
      <3> SUFFICES ASSUME erase256 PROVE OnDisk
        BY <1>2 DEF ImageStored, OnDisk, Asked, num_sectors
      <3>1. /\ After(cmd).s \in 0 .. num_sectors /\ num_sectors \in Nat \ {0}
            /\ After(cmd).op \in SectorOps \union {"cr3v"}
            /\ After(cmd).op = "cr3v" => After(cmd).s = 0
            /\ Asked \in Nat /\ Asked <= num_sectors * Sector
        BY <1>1, LegalNext, Sizes
      <3>2. After(cmd).s = num_sectors /\ After(cmd).op \in SectorOps
        BY <1>7, <3>1
      <3>3. Stored(flash, num_sectors)
        BY <1>1, <1>7, <3>2 DEF Ready
      <3>4. num_sectors * Sector \in Nat
        BY <3>1, Sums
      <3>5. 0 .. Asked - 1 \subseteq 0 .. (num_sectors * Sector) - 1
        BY <3>1, <3>4
      <3> QED
        BY <3>3, <3>5 DEF Stored, OnDisk
    <2> QED
      BY <1>3, <1>4, <1>5, <2>1, <2>2 DEF IInv
  <1>8. CASE ~err /\ After(cmd).s < num_sectors /\ cmd' = After(cmd) /\ pc' = "wen"
    <2>1. Commands'
      <3>1. Legal(After(cmd))
        BY <1>1, <1>8, LegalNext
      <3>2. Legal(cmd)'
        BY <1>2, <1>8, <3>1 DEF Legal, num_sectors
      <3> QED
        BY <1>1, <1>2, <1>8, <3>2 DEF Commands
    <2>2. Progress'
      <3>1. erase256 => Ready(flash, cmd)'
        BY <1>1, <1>2, <1>8, ReadyPrimed
      <3> QED
        BY <1>2, <1>8, <3>1 DEF Progress
    <2>3. ImageStored'
      BY <1>8 DEF ImageStored, Done
    <2> QED
      BY <1>3, <1>4, <1>5, <2>1, <2>2, <2>3 DEF IInv
  <1> QED
    BY <1>6, <1>7, <1>8 DEF poll_wip

LEMMA StutterPreserves == ASSUME IInv, UNCHANGED vars PROVE IInv'
  <1>1. UNCHANGED <<pc, req, cmd, ret, before, flash, overlay, erase256, wraps, wel, wip, err>>
    BY DEF vars, device
  <1>2. Types' /\ Commands' /\ Status'
    BY <1>1 DEF IInv, Types, Commands, Status, Legal, num_sectors, InReach
  <1>3. Progress'
    <2>1. Ready(flash, cmd) => Ready(flash, cmd)'
      BY <1>1, ReadyPrimed
    <2>2. Ready(flash, After(cmd)) => Ready(flash, After(cmd))'
      BY <1>1, AfterPrimed
    <2> QED
      BY <1>1, <2>1, <2>2 DEF IInv, Progress
  <1>4. OthersKept' /\ ImageStored'
    BY <1>1, Unmoved DEF IInv, ImageStored, Done, OnDisk, Asked, num_sectors
  <1> QED
    BY <1>2, <1>3, <1>4 DEF IInv

THEOREM Invariance == Spec => []IInv
  <1>1. IInv /\ [Next]_vars => IInv'
    <2> SUFFICES ASSUME IInv, [Next]_vars PROVE IInv'
      OBVIOUS
    <2>1. ASSUME \E r \in Runs : main(r) PROVE IInv'
      BY <2>1, MainPreserves
    <2> QED
      BY <2>1, ReadsPreserve, SetWenPreserves, IssuePreserves, PollPreserves,
         CompletePreserves, FailPreserves, StutterPreserves DEF Next, Driver, Device
  <1> QED
    BY <1>1, InitInv, PTL DEF Spec

\* A run of the tool that reports 0 has what it was asked to store on the disk,
\* for any geometry, image, start sector and earlier failures, if the flash
\* erases whole sectors: of an image what lies inside the flash, of a run given
\* a number of sectors the first one; except for an image that fills all of a
\* flash that ignores address bits (flash.c:59-96, flash_disk.sh:22-23,
\* spi_s25fs512s.c:95-186).
THEOREM StoresImage == Spec => []ImageStored
  <1>1. IInv => ImageStored
    BY DEF IInv
  <1> QED
    BY <1>1, Invariance, PTL

\* No run changes a page outside its sectors, those behind the end of the flash
\* taken for the first ones if the flash ignores address bits, whatever fails
\* and whatever the flash erases at once (spi_s25fs512s.c:98-110, 133, 148).
THEOREM KeepsOthers == Spec => []OthersKept
  <1>1. IInv => OthersKept
    BY DEF IInv
  <1> QED
    BY <1>1, Invariance, PTL

\* No command meets a busy or write-protected flash and, if the flash erases
\* whole sectors, only erased pages are programmed (spi_s25fs512s.c:72-91,
\* 136-156).
THEOREM CommandsAccepted == Spec => []CommandsTake
  <1>1. IInv => CommandsTake
    <2> SUFFICES ASSUME IInv PROVE CommandsTake
      OBVIOUS
    <2>1. ASSUME pc = "issue", cmd.op = "prog", erase256, wraps \/ Target(cmd) \in Pages
          PROVE  flash[Reached(cmd)] = Blank
      <3>1. req \in Runs /\ Legal(cmd) /\ Ready(flash, cmd)
        BY <2>1 DEF IInv, Types, Commands, Running, Progress
      <3>2. InReach(cmd.s)
        BY <2>1, <3>1, ReachedInside DEF SectorOps
      <3> QED
        BY <2>1, <3>1, <3>2, ProgReady DEF IInv
    <2> QED
      BY <2>1 DEF IInv, Status, CommandsTake
  <1> QED
    BY <1>1, Invariance, PTL

-----------------------------------------------------------------------------
(* Reads.                                                                  *)

Pieces(k) == [i \in 1 .. k |-> flash[req.addr + i - 1]]

\* What has been read so far; the flash is idle meanwhile.
ReadInv == /\ pc = "read" => /\ req.addr \in Nat /\ req.len \in Nat
                             /\ req.addr + req.len <= NumSectors * Sector
                             /\ offs \in Nat /\ (offs = 0 \/ offs < req.len)
                             /\ buf = Pieces(offs)
           /\ ReadCorrect

LEMMA Joined ==
  ASSUME flash \in [Pages -> Int], NEW a \in Nat, NEW k \in Nat, NEW n \in Nat,
         a + k + n <= NumSectors * Sector
  PROVE  [i \in 1 .. k |-> flash[a + i - 1]] \o [i \in 1 .. n |-> flash[a + k + i - 1]]
         = [i \in 1 .. k + n |-> flash[a + i - 1]]
  <1> DEFINE s == [i \in 1 .. k |-> flash[a + i - 1]]
             t == [i \in 1 .. n |-> flash[a + k + i - 1]]
             u == [i \in 1 .. k + n |-> flash[a + i - 1]]
  <1>1. \A i \in 1 .. k + n : a + i - 1 \in Pages
    <2>1. NumSectors * Sector \in Nat
      BY Constants, Sums
    <2> QED
      BY <2>1 DEF Pages, Size
  <1>2. \A i \in 1 .. n : a + k + i - 1 \in Pages
    <2>1. NumSectors * Sector \in Nat
      BY Constants, Sums
    <2> QED
      BY <2>1 DEF Pages, Size
  <1>3. s \in Seq(Int) /\ Len(s) = k
    <2>1. \A i \in 1 .. k : flash[a + i - 1] \in Int
      BY <1>1
    <2> QED
      BY <2>1, IsASeq
  <1>4. t \in Seq(Int) /\ Len(t) = n
    <2>1. \A i \in 1 .. n : flash[a + k + i - 1] \in Int
      BY <1>2
    <2> QED
      BY <2>1, IsASeq
  <1>5. u \in Seq(Int) /\ Len(u) = k + n
    <2>1. \A i \in 1 .. k + n : flash[a + i - 1] \in Int
      BY <1>1
    <2> QED
      BY <2>1, IsASeq
  <1>6. s \o t \in Seq(Int) /\ Len(s \o t) = k + n
    <2> HIDE DEF s, t
    <2> QED
      BY <1>3, <1>4, ConcatProperties
  <1>7. ASSUME NEW i \in 1 .. k + n PROVE (s \o t)[i] = u[i]
    <2>1. (s \o t)[i] = IF i <= k THEN s[i] ELSE t[i - k]
      <3> HIDE DEF s, t
      <3> QED
        BY <1>3, <1>4, ConcatProperties
    <2>2. CASE i <= k
      BY <2>1, <2>2
    <2>3. CASE ~(i <= k)
      <3>1. i - k \in 1 .. n /\ a + k + (i - k) - 1 = a + i - 1
        BY <2>3
      <3> QED
        BY <2>1, <2>3, <3>1
    <2> QED
      BY <2>2, <2>3
  <1> HIDE DEF s, t, u
  <1>8. s \o t = u
    BY <1>5, <1>6, <1>7, SeqEqual
  <1> QED
    BY <1>8 DEF s, t, u

LEMMA ChunkPreserves == ASSUME IInv, ReadInv, single_read_chunk PROVE ReadInv'
  <1> DEFINE n == Min2(Chunk, req.len - offs)
  <1>1. /\ pc = "read" /\ req.addr \in Nat /\ req.len \in Nat
        /\ req.addr + req.len <= NumSectors * Sector
        /\ offs \in Nat /\ (offs = 0 \/ offs < req.len)
        /\ buf = Pieces(offs) /\ Chunk \in Nat \ {0} /\ NumSectors * Sector \in Nat
    BY Constants, NorAssumption, Sums DEF single_read_chunk, ReadInv
  <1>2. n \in Nat /\ n <= req.len - offs
        /\ offs + n = IF offs + Chunk < req.len THEN offs + Chunk ELSE req.len
    BY <1>1 DEF Min2
  <1>3. /\ buf' = buf \o [i \in 1 .. n |-> flash[req.addr + offs + i - 1]]
        /\ offs' = offs + Chunk /\ UNCHANGED <<req, flash>>
        /\ IF offs' < req.len THEN pc' = pc ELSE pc' = "idle"
    BY DEF single_read_chunk, device
  <1> HIDE DEF n
  <1>4. buf' = Pieces(offs + n)
    <2>1. req.addr + offs + n <= NumSectors * Sector
      BY <1>1, <1>2
    <2> QED
      BY <1>1, <1>2, <1>3, <2>1, Joined DEF Pieces, IInv, Types
  <1>5. CASE offs + Chunk < req.len
    <2>1. pc' = "read" /\ offs + n = offs'
      BY <1>1, <1>2, <1>3, <1>5
    <2>2. buf' = Pieces(offs)'
      BY <1>3, <1>4, <2>1 DEF Pieces
    <2>3. offs' \in Nat /\ offs' < req.len
      BY <1>1, <1>3, <1>5
    <2>4. UNCHANGED req
      BY <1>3
    <2> QED
      BY <1>1, <2>1, <2>2, <2>3, <2>4 DEF ReadInv, ReadCorrect, Done
  <1>6. CASE ~(offs + Chunk < req.len)
    <2>1. pc' = "idle" /\ offs + n = req.len
      BY <1>1, <1>2, <1>3, <1>6
    <2> QED
      BY <1>3, <1>4, <2>1 DEF ReadInv, ReadCorrect, Done, Pieces
  <1> QED
    BY <1>5, <1>6

\* A read that returns 0 has the contents of the flash, for any chunk size,
\* address and length inside the flash (spi_s25fs512s.c:51-69).
THEOREM ReadsRight == Spec => []ReadCorrect
  <1>1. Init => ReadInv
    BY DEF Init, ReadInv, ReadCorrect, Done
  <1>2. IInv /\ ReadInv /\ [Next]_vars => ReadInv'
    <2> SUFFICES ASSUME IInv, ReadInv, [Next]_vars PROVE ReadInv'
      OBVIOUS
    <2>1. ASSUME NEW r \in Runs, main(r) PROVE ReadInv'
      BY <2>1 DEF main, Start, Runs, ReadInv, ReadCorrect, Done
    <2>2. ASSUME NEW r \in Reads, NEW f \in SpiFreqs, single_read(r, f) PROVE ReadInv'
      <3>1. /\ req' = [op |-> "read", addr |-> r[1], len |-> r[2]] /\ offs' = 0 /\ buf' = <<>>
            /\ pc' = "read" \/ (pc' = "idle" /\ ret' = "error")
        BY <2>2 DEF single_read, Start
      <3>2. /\ req'.addr \in Nat /\ req'.len \in Nat
            /\ req'.addr + req'.len <= NumSectors * Sector
        BY <3>1, NorAssumption
      <3>3. buf' = Pieces(0)'
        BY <3>1 DEF Pieces
      <3> QED
        BY <3>1, <3>2, <3>3 DEF ReadInv, ReadCorrect, Done
    <2>3. CASE set_wen \/ Issue \/ poll_wip \/ Complete \/ Fail
      <3>1. req' = req /\ req.op = "flash" /\ pc' # "read"
        BY <2>3 DEF set_wen, Issue, poll_wip, Complete, Fail, Return, IInv, Commands, Status, Running
      <3> QED
        BY <3>1 DEF ReadInv, ReadCorrect, Done
    <2>4. CASE UNCHANGED vars
      BY <2>4 DEF vars, device, ReadInv, ReadCorrect, Done, Pieces
    <2> QED
      BY <2>1, <2>2, <2>3, <2>4, ChunkPreserves DEF Next, Driver, Device
  <1>3. ReadInv => ReadCorrect
    BY DEF ReadInv
  <1> QED
    BY <1>1, <1>2, <1>3, Invariance, PTL DEF Spec
=============================================================================
