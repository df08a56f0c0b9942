---------------------------- MODULE MCMicrobench ----------------------------
EXTENDS Microbench

Case(p, size) == [path |-> p, io_size |-> size]

Config(t, r, q, a, p) == [threads |-> t, requests |-> r, qd |-> q, aligned |-> a, pattern |-> p]

\* Every path, and a size the file is too small for.
AllCases == <<Case("buffered", 2), Case("direct", 2), Case("gds", 2), Case("gds", 6)>>

\* Two workers with uneven shares, batches shorter and longer than a share; one
\* worker with several batches; more workers than requests; random offsets; and
\* the unaligned mode.
AllConfigs == {Config(2, 3, 1, TRUE, "seq"), Config(2, 3, 2, TRUE, "seq"),
               Config(1, 3, 1, TRUE, "rand"), Config(2, 1, 1, TRUE, "seq"),
               Config(2, 2, 1, FALSE, "seq")}

OneCase == <<Case("buffered", 2)>>

OneConfig == {Config(1, 1, 1, TRUE, "seq")}
=============================================================================
