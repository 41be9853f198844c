---- MODULE MCPreload ----
EXTENDS Preload

Seg(a, f, m) == [load |-> TRUE, addr |-> a, filesz |-> f, memsz |-> m]
File(n, segs) == [id |-> n, elf |-> TRUE, table |-> TRUE, fits |-> TRUE,
                  entry |-> segs[1].addr, segs |-> segs]

\* Adjacent, apart and in falling order; with and without zero bytes; whole
\* and partial bursts and words; an address used twice, in one file and in
\* two; damaged files.
MCFiles ==
    {File(1, <<Seg(0, 3, 6), Seg(6, 5, 5)>>),
     File(2, <<Seg(6, 2, 2), Seg(4, 2, 2)>>),
     File(3, <<Seg(0, 1, 3), Seg(12, 2, 3)>>),
     File(4, <<Seg(1, 5, 5), Seg(10, 0, 2), Seg(12, 1, 1)>>),
     File(5, <<Seg(3, 4, 7), Seg(10, 3, 3), [Seg(0, 2, 2) EXCEPT !.load = FALSE]>>),
     File(6, <<Seg(8, 4, 4)>>),
     File(7, <<Seg(2, 3, 2)>>),
     File(8, <<Seg(5, 3, 3)>>),
     File(12, <<Seg(4, 2, 3), Seg(8, 1, 1), Seg(8, 2, 2)>>),
     File(13, <<Seg(8, 3, 3), Seg(8, 1, 2)>>),
     [File(9, <<Seg(0, 2, 2)>>) EXCEPT !.elf = FALSE],
     [File(10, <<Seg(0, 2, 2)>>) EXCEPT !.table = FALSE],
     [File(11, <<Seg(0, 2, 2)>>) EXCEPT !.fits = FALSE]}
====
