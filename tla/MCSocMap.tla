------------------------------- MODULE MCSocMap -------------------------------
\* Addresses at the ends of every region, for all configurations that leave
\* out up to two features, or keep but one; with one core or three; one with
\* as many cores as the table of error reporters holds, and one whose SPM is
\* an external device.
EXTENDS SocMap

\* The default configuration, with an external AXI and an external register
\* device.
Base == [cores |-> 1, feats |-> Features, spm |-> \h2000,
         llcOut |-> <<\h8000000, \h10000000>>, slink |-> <<\h10000000, \h20000000>>,
         cieLen |-> \h2000000, cieOnTop |-> FALSE,
         axiExt |-> <<[idx |-> 0, start |-> \h2000000, end |-> \h2001000],
                      [idx |-> 1, start |-> \h6000000, end |-> \h6000100]>>,
         regExt |-> <<[idx |-> 0, start |-> \h3000000, end |-> \h3000100]>>]

Optional == Features \ {"LlcOutConnect"}
Pairs == {{a, b} : a, b \in Optional} \union {{}}
Singles == {{a} : a \in Optional} \union {{}}
MCCfgs == {[Base EXCEPT !.feats = Features \ s] : s \in Pairs}
          \union {[Base EXCEPT !.cores = 3, !.feats = Features \ s, !.cieOnTop = TRUE] : s \in Singles}
          \union {[Base EXCEPT !.feats = s \union {"LlcOutConnect"}] : s \in Singles}
          \union {[Base EXCEPT !.feats = {}]}
          \union {[Base EXCEPT !.cores = 30, !.feats = Features \ {"Clic"}],
                   [Base EXCEPT !.feats = Features \ {"LlcNotBypass"},
                                !.axiExt[1].start = \h1000000, !.axiExt[1].end = \h1002000]}

Starts == {0, \h0100000, \h0200000, \h0204000, \h0208000, \h020C000, \h0210000, \h0300000,
           \h0300100, \h0300200, \h0300300, \h0300400, \h0300500, \h0300600, \h0300700, \h0300800,
           \h0300900, \h0300904, \h0300908, \h030090C, \h0300978, \h0300980, \h0400000,
           \h0800000, \h0804000, \h080C000, \h0C00000,
           \h1000000, \h1002000, \h1400000, \h1402000, \h2000000, \h2001000, \h3000000,
           \h4000000, \h6000000, \h6000100, \h8000000, \h10000000}
MCAddrs == Starts \union {s - 1 : s \in Starts \ {0}} \union {\h1FFFFFFF, \h20000000}
=============================================================================
