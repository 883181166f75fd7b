--------------------------- MODULE MCMemSemaphore ---------------------------
EXTENDS MemSemaphore, TLC

\* Threads are interchangeable (safety runs only).
Symmetry == Permutations(Threads)
=============================================================================
