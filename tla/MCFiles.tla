------------------------------- MODULE MCFiles -------------------------------
EXTENDS Files, TLC

CONSTANTS o1, o2, o3, o4
OpenFiles == {o1, o2, o3, o4}
\* Identifiers of open files are interchangeable.
SymOpenFiles == Permutations(OpenFiles)
=============================================================================
