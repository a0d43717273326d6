---------------------------- MODULE MCIncidentStore ---------------------------
EXTENDS IncidentStore, TLC

Symmetry == Permutations(Procs)
===============================================================================
