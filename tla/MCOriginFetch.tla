--------------------------- MODULE MCOriginFetch ---------------------------
\* Instances of OriginFetch for TLC.
EXTENDS OriginFetch, TLC

Symmetric == Permutations(Conns)
=============================================================================
