------------------------------ MODULE MCSdCard ------------------------------
EXTENDS SdCard

Request(op, addr, len) == [op |-> op, addr |-> addr, len |-> len]

\* Blocks of two bytes: the first, a middle and the last block, each whole
\* and in part.
MCReads == {Request("sig", 2, 1)}
             \union {Request("read", 0, len) : len \in 0 .. 6}
             \union {Request("read", 1, len) : len \in 1 .. 5}
MCRawReads == {Request("raw", 0, 4)}
MCWrites == {Request("write", 0, 3), Request("write", 1, 1), Request("write", 2, 0)}
=============================================================================
