------------------------------- MODULE MCCounts ------------------------------
\* A small instance of Counts.
EXTENDS Counts

CountsSpec == CountsInit /\ [][CountsNext]_countsVars
=============================================================================
