----------------------------- MODULE MCCatalog -----------------------------
EXTENDS Catalog, TLC

\* Nothing tells one process of a kind, or one file, from another.
MCSymmetry == Permutations(Syncs) \cup Permutations(Files)
=============================================================================
