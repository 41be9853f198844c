------------------------------ MODULE MCGptBoot ------------------------------
EXTENDS GptBoot

MCMaxLbas == [rom |-> 3, dtb |-> 1, fw |-> 4]

Part(begin, end, type) == [begin |-> begin, end |-> end, type |-> type]

\* Loaders below, at and above the limit, the other types, an empty and an
\* inverted range.  The limits are small so that each partition meets some of
\* them.
Parts == {Part(2, 3, "zsl"), Part(4, 6, "zsl"), Part(4, 7, "zsl"),
          Part(8, 8, "dtb"), Part(9, 10, "dtb"), Part(11, 14, "fw"),
          Part(1, 5, "other"), Part(9, 8, "zsl"), Part(9, 7, "zsl")}

MCDisks == [signed : BOOLEAN, parts : UNION {[1 .. n -> Parts] : n \in 0 .. 3}]
=============================================================================
