------------------------------- MODULE MCIngest -------------------------------
EXTENDS Ingest, TLC

CONSTANTS t1, t2, e1, e2, e3

Interchangeable == Permutations({t1, t2}) \cup Permutations({e1, e2, e3})
=============================================================================
