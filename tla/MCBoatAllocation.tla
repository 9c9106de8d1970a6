-------------------------- MODULE MCBoatAllocation --------------------------
\* BoatAllocation for TLC.  Its liveness is checked too: no symmetry.
EXTENDS BoatAllocation

=============================================================================
