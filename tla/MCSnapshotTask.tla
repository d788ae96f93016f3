--------------------------- MODULE MCSnapshotTask ---------------------------
EXTENDS SnapshotTask, TLC
CONSTANTS t1, t2, t3, i1, i2

\* Two tasks of one instance and one of another, which share data/*.csv.
MCInstanceOf == (t1 :> i1) @@ (t2 :> i1) @@ (t3 :> i2)
=============================================================================
