---- MODULE MCNorFlash ----
EXTENDS NorFlash

\* Within a chunk, whole chunks, and across sectors.
MCReads == {<<0, 1>>, <<1, 4>>, <<5, 5>>}
====
