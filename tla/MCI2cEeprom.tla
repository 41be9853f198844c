----------------------------- MODULE MCI2cEeprom -----------------------------
\* FIFOs of 8 entries, the least that holds an address and half a FIFO, and a
\* device of two blocks of 16 bytes.  Reads and writes that start on and off
\* a FIFO boundary, end before, on and behind one, and lie in either block.
EXTENDS I2cEeprom

Reads == {[write |-> FALSE, addr |-> a, len |-> n] : a \in {0, 3, 8, 13, 17}, n \in {1, 3, 5, 8, 11}}
Writes == {[write |-> TRUE, addr |-> a, len |-> n] : a \in {0, 5}, n \in {1, 4, 8, 10}}
MCAccesses == Reads \union Writes
=============================================================================
