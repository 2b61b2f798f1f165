------------------------- MODULE MCProcessDocument -------------------------
EXTENDS ProcessDocument, TLC

Symmetry == Permutations(Workers) \cup Permutations(Senders)
=============================================================================
