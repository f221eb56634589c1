--------------------------- MODULE MCBundleImport ---------------------------
EXTENDS BundleImport, TLC
\* A fault before the publication, the one after it, and one that never fires.
MCFaultOccurrences == {2, 3, 4}
Interchangeable == Permutations(Importer)
=============================================================================
