------------------------------ MODULE MCUmpCore ------------------------------
EXTENDS UmpCore

CONSTANTS p1, p2, a1

=============================================================================
