---------------------------- MODULE MCUmpEstimate ----------------------------
EXTENDS UmpEstimate
MCSamples == {0, 1, 7, 32}
==============================================================================
