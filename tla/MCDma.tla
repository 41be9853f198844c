---- MODULE MCDma ----
EXTENDS Dma
====
