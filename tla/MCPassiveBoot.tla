---------------------------- MODULE MCPassiveBoot ----------------------------
EXTENDS PassiveBoot

\* Three bytes of program; one of them looks like an opcode.
MCImage == [a \in 0 .. 2 |-> IF a = 1 THEN "EXEC" ELSE "text"]
MCEntry == <<1, 2>>

\* A section in two bursts, the zero-length transfer the VIP sends when a
\* section's length is a multiple of the burst size, and a read-back.
MCJobs == << [op |-> "WRITE", addr |-> 0, data |-> <<"text", "EXEC">>],
             [op |-> "WRITE", addr |-> 2, data |-> <<"text">>],
             [op |-> "WRITE", addr |-> 3, data |-> <<>>],
             [op |-> "READ",  addr |-> 0, len |-> 3] >>
=============================================================================
