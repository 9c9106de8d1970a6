--------------------------- MODULE MCNativeCatalog ---------------------------
\* NativeCatalog for TLC: the passes are interchangeable, and so are the
\* consumers.
EXTENDS NativeCatalog, TLC

CatalogSymmetry == Permutations(Pass) \cup Permutations(Consumer)

=============================================================================
