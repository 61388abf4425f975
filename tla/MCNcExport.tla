---- MODULE MCNcExport ----
\* Instance of NcExport for TLC.
EXTENDS NcExport, TLC

\* Operations are alike, and so are file names.
NcSymmetry == Permutations(Ops) \cup Permutations(Names)
====
