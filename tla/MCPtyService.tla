---- MODULE MCPtyService ----
EXTENDS PtyService, TLC
Symmetry == Permutations(Conns)
====
