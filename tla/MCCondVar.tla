------------------------------ MODULE MCCondVar ------------------------------
EXTENDS CondVar, TLC

\* Threads are interchangeable (safety runs only).
Symmetry == Permutations(Threads)
=============================================================================
