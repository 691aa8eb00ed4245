------------------------------ MODULE MCLocks ------------------------------
\* Model-checking instance of Locks.  No symmetry: the run has a liveness property.
EXTENDS Locks
=============================================================================
