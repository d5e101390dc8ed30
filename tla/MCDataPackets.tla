--------------------------- MODULE MCDataPackets ---------------------------
EXTENDS DataPackets, TLC

\* Values of components are only compared and copied.
Symmetry == Permutations(Comps)
=============================================================================
